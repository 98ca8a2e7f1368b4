----------------------------- MODULE MarketRead -----------------------------
(***************************************************************************)
(* How a Run gets its candles (adapters/tradingview_market.py,               *)
(* tradingview_protocol.py, mtf_market.py, mt5_market.py and                 *)
(* services/digest_pipeline.py).                                             *)
(*                                                                         *)
(* A job reads one timeframe (an analysis, a digest) or several, one after   *)
(* another (a trade plan's observation), from a venue that goes on trading   *)
(* meanwhile.  The venue answers over a socket: the candles as they stand    *)
(* when it answers, an update when one moves, "completed" when it is done,   *)
(* and heartbeats, noise or errors whenever it likes.  The socket delivers   *)
(* in order, several packets in one piece, and can break.  An analysis may    *)
(* also be given a terminal or a file; whatever was read is normalized.      *)
(***************************************************************************)
EXTENDS Normalization

CONSTANTS
  Prices,       \* what a minute may trade at
  Frames,       \* the timeframes of an observation, in the order they are read
  Depth,        \* bars asked for
  SafetyMargin, \* SAFETY_MARGIN_BARS: asked for on top, for the forming bar
  DigestFrame,  \* PREFERRED_DIGEST_TIMEFRAME
  DigestExtra,  \* BOUNDARY_HISTORY_BARS + GAP_MARGIN_BARS
  Lookback,     \* the length of a digest's window
  MaxLate,      \* bound: how long after its window's end a digest is made
  MaxAge,       \* max_data_age_minutes
  Timeout,
  MaxRetries,
  MaxMessages,  \* MAX_MESSAGES
  MaxWire,      \* bound: packets under way
  MaxRows,      \* bound: rows of a file
  Past,         \* bound: what was traded long ago
  Warm,         \* bound: minutes since, before the job may start
  Horizon       \* bound: minutes in all

ASSUME MarketAssumption ==
  /\ Prices \subseteq Nat \ {Quiet}
  /\ Frames \in Seq(Nat \ {0}) /\ Frames # << >>
  /\ {Depth, DigestFrame, Lookback} \subseteq Nat \ {0}
  /\ {SafetyMargin, DigestExtra, MaxLate, MaxAge, Timeout, MaxRetries, Warm} \subseteq Nat
  /\ {MaxMessages, MaxWire, MaxRows} \subseteq Nat \ {0}
  /\ Past \in Seq(Prices \cup {Quiet})
  /\ Horizon >= Len(Past) + Warm
\* A clock goes back by a fraction of a timeframe or by whole candles of it.
ASSUME ClockAssumption ==
  Back <= DigestFrame \/ \E k \in 0 .. Back : Back = k * DigestFrame

VARIABLES
  tape,    \* what was traded up to now
  job,     \* what the candles are for: kind, the instant it is about, what is left to
           \* read, and what file, if one, they are of
  load,    \* TradingViewMarketDataSource.load of the timeframe being read
  wire,    \* packets under way, oldest first
  series,  \* what was read so far, by timeframe
  noted,   \* the warnings an analysis carries into its Run
  outcome  \* PENDING, FAILED or DONE
vars == <<tape, job, load, wire, series, noted, outcome>>

now == Len(tape)

FrameSet == {Frames[i] : i \in 1 .. Len(Frames)}
Kinds == {"none", "observation", "digest", "analysis"}
\* A packet is rows, "completed", or one that is counted and passed over (a
\* heartbeat that is echoed, an unparseable payload, a method nobody asked for).

NoLoad == [phase |-> "idle", attempt |-> 0, deadline |-> 0, rows |-> {},
           messages |-> 0, sent |-> 0, completed |-> FALSE]
NoJob == [kind |-> "none", at |-> 0, todo |-> << >>, file |-> "none"]

Init ==
  /\ tape \in {Past \o recent : recent \in [1 .. Warm -> Prices \cup {Quiet}]}
  /\ job = NoJob /\ load = NoLoad /\ wire = << >>
  /\ series = << >> /\ noted = {} /\ outcome = "PENDING"

-----------------------------------------------------------------------------
(* The market *)

\* Once the job has ended nothing looks at the market any more.
Minute(price) ==
  /\ now < Horizon /\ outcome = "PENDING"
  /\ tape' = Append(tape, price)
  /\ UNCHANGED <<job, load, wire, series, noted, outcome>>

-----------------------------------------------------------------------------
(* The job *)

Begin(kind, at, todo) ==
  /\ job.kind = "none"
  /\ job' = [NoJob EXCEPT !.kind = kind, !.at = at, !.todo = todo]
  /\ UNCHANGED <<tape, load, wire, series, noted, outcome>>

\* MultiTimeframeMarketSource.observe reads the clock before it fetches.
StartObservation == Begin("observation", now, Frames)
\* The window belongs to the event; the Run is written when its turn comes.
StartDigest == \E late \in 0 .. MaxLate :
  Begin("digest", now - late, <<DigestFrame>>)
StartAnalysis == Begin("analysis", now, <<DigestFrame>>)

Active == job.kind # "none" /\ outcome = "PENDING"
Frame == Head(job.todo)
Window == [start |-> job.at - Lookback, end |-> job.at]

BarsWanted ==
  IF job.kind = "digest" THEN digest_bar_count(Window, DigestFrame, DigestExtra) ELSE Depth

\* Per timeframe in an observation: a healthy long bar is old without being late.
StalenessAllowance == IF job.kind = "observation" THEN MaxAge + Frame ELSE MaxAge

\* Mutant: every series is judged by a clock read after it arrived.
ObservedWhenRead == now
\* observed_at: the one instant every timeframe is filtered by.
ObservedAt == job.at

Fail ==
  /\ outcome' = "FAILED" /\ load' = NoLoad /\ wire' = << >>
  /\ UNCHANGED <<job, series, noted>>

\* The clock the warnings are about: the window's end for a digest.
Moment == IF job.kind = "digest" THEN job.at ELSE now

\* What was read is normalized, and cut to the observation's instant.  The last
\* read ends the job; a read that could not be kept fails all of it.
Keep(frame, payload, file) ==
  LET kept(normal) ==
        IF job.kind = "observation" THEN ClosedBy(normal.bars, frame, ObservedAt)
        ELSE normal.bars
  IN \E normalized \in {normalize_market_data(payload, frame, Moment)} :
     IF \A normal \in normalized : kept(normal) = {}
     THEN Fail
     ELSE \E normal \in normalized :
            /\ series' = [f \in DOMAIN series \cup {frame} |->
                            IF f = frame THEN kept(normal) ELSE series[f]]
            /\ noted' = IF job.kind = "analysis" THEN normal.warnings ELSE {}
            /\ job' = [job EXCEPT !.todo = Tail(@), !.file = file]
            /\ outcome' = IF Len(job.todo) = 1 THEN "DONE" ELSE "PENDING"
            /\ load' = NoLoad /\ wire' = << >>

\* A row of a source: its open price is one of the candle's own.
Row(bar) ==
  [at |-> bar.at, naive |-> FALSE, symbol |-> "", open |-> bar.close,
   high |-> bar.high, low |-> bar.low, close |-> bar.close]
\* Oldest first.
InOrder(bars, i) == CHOOSE bar \in bars : Cardinality({b \in bars : b.at < bar.at}) = i - 1
RowsOf(bars) == [i \in 1 .. Cardinality(bars) |-> Row(InOrder(bars, i))]

\* The adapters' payload: instants, in order, with nothing asserted of them.
Answered(bars) ==
  [symbol |-> Symbol, monthly |-> FALSE, zoned |-> FALSE, bars |-> RowsOf(bars),
   latest |-> {}, range |-> {}, requested |-> TRUE]

-----------------------------------------------------------------------------
(* One load from TradingView *)

Deadline == now + Timeout

Open ==
  /\ Active /\ load.phase = "idle"
  /\ load' = [NoLoad EXCEPT !.phase = "reading", !.attempt = load.attempt,
                            !.deadline = Deadline]
  /\ UNCHANGED <<tape, job, wire, series, noted, outcome>>

\* Mutant: a failed attempt is not counted.
SameAttempt(attempt) == attempt
NextAttempt(attempt) == attempt + 1

\* Only a connection or a timeout is tried again.
Retry ==
  IF load.attempt < MaxRetries
  THEN /\ load' = [NoLoad EXCEPT !.attempt = NextAttempt(load.attempt)]
       /\ wire' = << >>
       /\ UNCHANGED <<job, series, noted, outcome>>
  ELSE Fail

\* The socket cannot be opened, or breaks.
Broken ==
  /\ Active /\ load.phase \in {"idle", "reading"}
  /\ Retry
  /\ UNCHANGED tape

\* Looked at between two receives; a receive that waits ends with the socket's
\* own timeout.  At the horizon the clock stands still and has passed it.
TimedOut ==
  /\ Active /\ load.phase = "reading"
  /\ now > load.deadline \/ now = Horizon
  /\ Retry
  /\ UNCHANGED tape

TooManyMessages ==
  /\ Active /\ load.phase = "reading" /\ load.messages >= MaxMessages
  /\ Fail
  /\ UNCHANGED tape

Collected(rows, packets) ==
  Overlaid([i \in 0 .. Len(packets) |-> IF i = 0 THEN rows ELSE packets[i].rows],
           Len(packets))

\* recv, decode_frames and the loop over the packets of one piece.  The beginning
\* of a packet waits in the buffer for its end; what follows "completed" is not
\* looked at.  A receive begun by the deadline may end until a timeout after it.
Receive(n) ==
  /\ Active /\ load.phase = "reading"
  /\ load.messages < MaxMessages /\ now <= load.deadline + Timeout
  /\ LET ends == {i \in 1 .. n : wire[i].kind = "completed"}
         last == IF ends = {} THEN n ELSE Min(ends)
     IN load' = [load EXCEPT !.phase = IF ends = {} THEN "reading" ELSE "read",
                             !.rows = Collected(@, SubSeq(wire, 1, last)),
                             !.messages = @ + last]
  /\ wire' = SubSeq(wire, n + 1, Len(wire))
  /\ UNCHANGED <<tape, job, series, noted, outcome>>

\* An error the feed reports, a frame or a row that cannot be read, "completed"
\* with an unfinished packet behind it: not tried again.
Refused ==
  /\ Active /\ load.phase = "reading"
  /\ Fail
  /\ UNCHANGED tape

\* What _fetch does with the rows, by a clock read after they arrived.
Select ==
  /\ Active /\ load.phase = "read"
  /\ LET closed == ClosedBy(load.rows, Frame, now)
         kept   == Newest(BarsWanted, closed)
     IN IF \/ Cardinality(closed) < BarsWanted              \* InsufficientBarsError
           \/ Age(kept, Frame, now) > StalenessAllowance    \* StaleMarketDataError
        THEN Fail
        ELSE \E payload \in {Answered(kept)} : Keep(Frame, payload, "none")
  /\ UNCHANGED tape

-----------------------------------------------------------------------------
(* One load from a MetaTrader terminal: an answer in one call *)

\* copy_rates_from_pos from position 1: the newest candle there is stays behind.
Mt5Rates == Newest(Depth, CandlesOf(tape, Frame) \ Newest(1, CandlesOf(tape, Frame)))

\* _require_closed: the newest candle's opening decides, not its position
\* (CLOSED_CANDLE_TOLERANCE is seconds, and the model's clock counts minutes).
Mt5Refuses(rates) ==
  \/ \E bar \in Newest(1, rates) : close_time(bar, Frame) > now
  \/ Age(rates, Frame, now) > MaxAge

Mt5Load ==
  /\ Active /\ job.kind = "analysis" /\ load.phase = "idle" /\ load.attempt = 0
  /\ IF Cardinality(Mt5Rates) < Depth \/ Mt5Refuses(Mt5Rates)
     THEN Fail
     ELSE \E payload \in {Answered(Mt5Rates)} : Keep(Frame, payload, "none")
  /\ UNCHANGED tape

\* The terminal cannot be reached, or does not know the symbol.
Mt5Fails ==
  /\ Active /\ job.kind = "analysis" /\ load.phase = "idle" /\ load.attempt = 0
  /\ Fail
  /\ UNCHANGED tape

-----------------------------------------------------------------------------
(* A file somebody exported from the venue: rows of some of its newest candles, *)
(* the forming one too, stamped with instants or with what a clock on a wall     *)
(* showed, and with at most one thing about it that is out of the ordinary.      *)

Stamped(row, naive) ==
  [row EXCEPT !.naive = naive, !.at = IF naive THEN Shown(row.at) ELSE row.at]

Exported(bars, stamps) ==
  [Answered(bars) EXCEPT
     !.bars = [i \in 1 .. Cardinality(bars) |->
                 Stamped(Row(InOrder(bars, i)), stamps # "instants")],
     !.zoned = stamps = "zoned"]

Another(price, row) ==
  [row EXCEPT !.open = price, !.high = price, !.low = price, !.close = price]

Flawed(file) ==
  LET last == Last(file.bars) IN
  {[file EXCEPT !.bars = Reverse(@)],
   [file EXCEPT !.bars[1].high = Quiet],
   [file EXCEPT !.bars[1].symbol = "other"],
   [file EXCEPT !.symbol = "other"],
   [file EXCEPT !.latest = {last}],
   [file EXCEPT !.latest = {Head(file.bars)}],
   [file EXCEPT !.range = {<<0, now>>}],
   [file EXCEPT !.requested = FALSE],
   [file EXCEPT !.monthly = TRUE],
   [file EXCEPT !.bars = << >>]}
  \cup {[file EXCEPT !.bars = Append(@, Another(price, last))] : price \in Prices}

Files ==
  LET whole == {Exported(bars, stamps) :
                  bars \in (SUBSET Newest(MaxRows, CandlesOf(tape, Frame))) \ {{}},
                  stamps \in {"instants", "zoned", "bare"}}
  IN whole \cup UNION {Flawed(file) : file \in whole}

FileKind(file) == IF file.monthly THEN "monthly" ELSE "timed"

\* Nothing asks how old a file is, or whether its candles have closed.  Its
\* timeframe is the one it declares; the model's months are all of one length,
\* which nothing in the code looks at.
FileLoad ==
  /\ Active /\ job.kind = "analysis" /\ load.phase = "idle" /\ load.attempt = 0
  /\ \E file \in Files : Keep(Frame, file, FileKind(file))
  /\ UNCHANGED tape

-----------------------------------------------------------------------------
(* The venue *)

Sends(packet) ==
  /\ Active /\ load.phase = "reading" /\ ~load.completed
  /\ Len(wire) < MaxWire
  /\ wire' = Append(wire, packet)
  /\ UNCHANGED <<tape, job, series, noted, outcome>>

Rows(bars) == [kind |-> "rows", rows |-> bars]
Other(kind) == [kind |-> kind, rows |-> {}]

Answer ==
  /\ load.sent = 0
  /\ Sends(Rows(Newest(BarsWanted + SafetyMargin, CandlesOf(tape, Frame))))
  /\ load' = [load EXCEPT !.sent = now]

\* A trade since the rows it sent last has moved the newest candle.
Update ==
  /\ load.sent # 0
  /\ Traded(tape, load.sent, now) # {}
  /\ Sends(Rows(Newest(1, CandlesOf(tape, Frame))))
  /\ load' = [load EXCEPT !.sent = now]

Complete ==
  /\ load.sent # 0
  /\ Sends(Other("completed"))
  /\ load' = [load EXCEPT !.completed = TRUE]

Disturb == Sends(Other("passed over")) /\ UNCHANGED load

-----------------------------------------------------------------------------
Reader ==
  \/ Open \/ TimedOut \/ TooManyMessages \/ Select \/ Mt5Load \/ FileLoad
  \/ \E n \in 1 .. Len(wire) : Receive(n)
Start == StartObservation \/ StartDigest \/ StartAnalysis
Venue == Answer \/ Update \/ Complete \/ Disturb
Time == \E price \in Prices \cup {Quiet} : Minute(price)

Next == Start \/ Reader \/ Venue \/ Time \/ Broken \/ Refused \/ Mt5Fails
Spec == Init /\ [][Next]_vars

\* The reader goes on and time passes.  Of the venue nothing is expected.
FairSpec == Spec /\ WF_vars(Reader) /\ WF_vars(Time)

Reaction == calculate_price_reaction(series[DigestFrame], DigestFrame, Window)

-----------------------------------------------------------------------------
(* Properties *)

\* What was kept of a timeframe, as the tape says it was.
Really(d, kept, moment) ==
  {bar \in ClosedBy(CandlesOf(tape, d), d, moment) : bar.at >= Min({b.at : b \in kept})}

\* An observation holds, for every timeframe, exactly the candles that had closed
\* by the one instant it is about, with their final values and without a hole,
\* however long the reading took, however often it was retried, and whatever
\* moved meanwhile (mtf_market.py:191).
ObservationIsOneInstant ==
  outcome = "DONE" /\ job.kind = "observation" =>
    \A d \in FrameSet : series[d] # {} /\ series[d] = Really(d, series[d], job.at)

\* What a digest says price did is what the market did: the closes it compares are
\* those of the last candles closed at the two ends of its window, its range
\* holds every price traded in the candles closed since the first of them, and
\* it names a quiet market only when nothing traded in the window, but perhaps in
\* a candle that was still open when it was read: one that crosses the window's
\* end and has closed since counts (price_reaction.py:129 and 161).
ReactionIsTrue ==
  outcome = "DONE" /\ job.kind = "digest" /\ Reaction.activity # "INSUFFICIENT_HISTORY" =>
    LET closed  == ClosedBy(CandlesOf(tape, DigestFrame), DigestFrame, job.at)
        LastBy(moment) == Newest(1, ClosedBy(closed, DigestFrame, moment))
        since == Max({close_time(b, DigestFrame) : b \in LastBy(Window.start)})
        upto  == Max({close_time(b, DigestFrame) : b \in LastBy(Window.end)})
        traded == {tape[m] : m \in Traded(tape, Max({since, Window.start}), upto)}
    IN /\ Reaction.start = LastBy(Window.start)
       /\ Reaction.end = LastBy(Window.end)
       /\ \A p \in traded : \E h \in Reaction.high, l \in Reaction.low : l <= p /\ p <= h
       /\ Reaction.activity = "NO_MARKET_ACTIVITY" =>
            \A b \in ClosedBy(CandlesOf(tape, DigestFrame), DigestFrame, now) :
              Traded(tape, Max({b.at, Window.start}),
                     Min({close_time(b, DigestFrame), Window.end})) = {}

\* A file's candles are never guessed at: what an analysis keeps of one is, candle
\* by candle, what the venue had, whichever way its rows are stamped, doubled or
\* ordered, but for a reading that the declared clock shows twice
\* (normalizer.py:229); and when the file's timeframe has a fixed length the Run
\* is warned of every candle missing between two of them.  Of a month that is
\* missing among months it is not (normalizer.py:329).
FileIsNotGuessed ==
  outcome = "DONE" /\ job.file # "none" =>
    LET kept == series[DigestFrame]
        real == CandlesOf(tape, DigestFrame)
        missing == {bar \in real : /\ bar.at \notin {b.at : b \in kept}
                                   /\ Earliest(kept).at < bar.at /\ bar.at < Latest(kept).at}
    IN /\ \A bar \in kept : bar \in real \/ bar.at \in Switch - Back .. Switch - 1
       /\ missing # {} /\ job.file = "timed" => "BAR_GAPS" \in noted

\* A reading ends, whatever the venue sends or fails to send: with candles, or
\* with the job failed (tradingview_market.py:327).
ReadingEnds == job.kind # "none" ~> outcome # "PENDING"
=============================================================================
