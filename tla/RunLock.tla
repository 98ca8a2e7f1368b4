------------------------------- MODULE RunLock -------------------------------
(***************************************************************************)
(* The per-Run lock file of services/run_lock.py.  Acquisition is          *)
(* O_CREAT|O_EXCL, so the file is either created by exactly one process or  *)
(* found to exist; a release re-reads the token and unlinks only its own    *)
(* file; nothing in the program ever removes a lock left by a dead process. *)
(* The operators below are actions of the modules that extend this one.     *)
(***************************************************************************)
CONSTANTS
  Proc,      \* the processes that may want the lock; a process is its token
  NoProc     \* no lock file exists

ASSUME NoProcAssumption == NoProc \notin Proc

VARIABLES
  lockFile,  \* token in the lock file, or NoProc when there is no file
  held,      \* processes whose RunLock instance has _held = True
  dead       \* processes that were killed

lockVars == <<lockFile, held, dead>>

LockTypeOK ==
  /\ lockFile \in Proc \cup {NoProc}
  /\ held \subseteq Proc
  /\ dead \subseteq Proc

LockInit ==
  /\ lockFile = NoProc
  /\ held = {}
  /\ dead = {}

\* os.open(O_CREAT | O_EXCL) succeeds: the file did not exist and is now p's.
Acquire(p) ==
  /\ lockFile = NoProc
  /\ lockFile' = p
  /\ held' = held \cup {p}
  /\ UNCHANGED dead

\* FileExistsError: RunLockedError, whoever the holder is, dead or alive.
Refuse(p) ==
  /\ lockFile # NoProc
  /\ UNCHANGED lockVars

\* A lock that no longer carries our token is left in place for a human.
Release(p) ==
  /\ held' = held \ {p}
  /\ lockFile' = IF p \in held /\ lockFile = p THEN NoProc ELSE lockFile
  /\ UNCHANGED dead

\* A kill releases nothing: the file stays.
Kill(p) ==
  /\ p \notin dead
  /\ dead' = dead \cup {p}
  /\ held' = held \ {p}
  /\ UNCHANGED lockFile

\* The refusal's advice: once the holder is gone, a person deletes the file.
HumanRemovesLock ==
  /\ lockFile \in dead
  /\ lockFile' = NoProc
  /\ UNCHANGED <<held, dead>>
=============================================================================
