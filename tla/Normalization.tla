---------------------------- MODULE Normalization ----------------------------
(***************************************************************************)
(* What a Run accepts as its candles (services/normalizer.py, the models of  *)
(* schemas/market.py): a payload of rows in any order, whose stamps are       *)
(* instants or what some clock showed, becomes a series with its warnings, or *)
(* is refused.                                                               *)
(*                                                                         *)
(* A payload is [symbol, monthly, zoned, bars, latest, range, requested]: its  *)
(* timeframe is the calendar month (MN1) or one of fixed length, bars is a     *)
(* sequence of rows [at, naive, symbol, open, high, low, close], zoned says   *)
(* that a timezone is declared, latest and range are what the provider        *)
(* asserts of the last row and of the coverage (a set, empty when it does     *)
(* not).  A provider's clock goes back once, as a clock does in autumn.        *)
(***************************************************************************)
EXTENDS Candles, SequencesExt

CONSTANTS
  Symbol,       \* the instrument the caller asked for
  Switch,       \* the instant at which the declared zone's clock goes back
  Back,         \* and by how much
  LowBarCount,  \* LOW_BAR_COUNT_THRESHOLD
  StaleAfter    \* STALE_DATA_MULTIPLIER

ASSUME NormalizationAssumption ==
  {Switch, Back, LowBarCount, StaleAfter} \subseteq Nat /\ Back <= Switch

\* What the clock shows at an instant.
Shown(instant) == IF instant < Switch THEN instant ELSE instant - Back

\* datetime.replace(tzinfo=zone): a reading the clock shows twice is the first.
FirstShown(reading) == IF reading < Switch THEN reading ELSE reading + Back

\* Mutant: a reading without a declared zone is an instant.
NeverNaive(row, zoned) == FALSE
\* A reading nobody can place.
Naive(row, zoned) == row.naive /\ ~zoned
Utc(row, zoned) == IF row.naive /\ zoned THEN FirstShown(row.at) ELSE row.at

\* A candle's prices are in order.
Ordered(row) ==
  row.low <= row.high /\ {row.open, row.close} \subseteq row.low .. row.high

Prices4(row) == <<row.open, row.high, row.low, row.close>>
Bar(row, zoned) ==
  [at |-> Utc(row, zoned), high |-> row.high, low |-> row.low, close |-> row.close]

\* Mutant: of two rows with one opening the later counts.
NeverRepeated(rows, zoned) == FALSE
Repeated(rows, zoned) ==
  \E i, j \in 1 .. Len(rows) : i # j /\ Utc(rows[i], zoned) = Utc(rows[j], zoned)

\* The series, were it accepted; of equal openings the later row's.
Series(rows, zoned) ==
  {Bar(rows[i], zoned) :
     i \in {k \in 1 .. Len(rows) :
              \A m \in k + 1 .. Len(rows) : Utc(rows[m], zoned) # Utc(rows[k], zoned)}}
Latest(bars) == CHOOSE bar \in bars : \A b \in bars : b.at <= bar.at
Earliest(bars) == CHOOSE bar \in bars : \A b \in bars : b.at >= bar.at

\* The provider's assertion about the last row, cross-checked and never trusted.
LatestMismatch(payload, bars) ==
  \E row \in payload.latest :
    ~ \E r \in Range(payload.bars) :
        /\ Latest(bars).at = Utc(r, payload.zoned) /\ Latest(bars).at = Utc(row, payload.zoned)
        /\ Prices4(r) = Prices4(row)

\* Refused rather than guessed.
Rejected(payload) ==
  LET rows == payload.bars IN
  \/ rows = << >>
  \/ \E i \in 1 .. Len(rows) : ~Ordered(rows[i])
  \/ payload.symbol # Symbol
  \/ \E row \in Range(rows) : row.symbol \notin {"", payload.symbol}
  \/ \E row \in Range(rows) \cup payload.latest : Naive(row, payload.zoned)
  \/ Repeated(rows, payload.zoned)
  \/ LatestMismatch(payload, Series(rows, payload.zoned))

\* Timeframe.duration: None for a calendar month.
Duration(payload, d) == IF payload.monthly THEN {} ELSE {d}

\* Mutant: one missing candle is no hole.
GapsOfTwo(bars, duration) ==
  {b \in bars : \E d \in duration, later \in bars :
     later.at > b.at + 2 * d /\ \A c \in bars : c.at <= b.at \/ c.at >= later.at}
\* A timeframe without a duration is not looked at for holes.
Gaps(bars, duration) ==
  {b \in bars : \E d \in duration, later \in bars :
     later.at > b.at + d /\ \A c \in bars : c.at <= b.at \/ c.at >= later.at}

\* The latest candle's opening against the clock, in whole periods.
Recency(bars, duration, moment) ==
  LET age == moment - Latest(bars).at IN
  UNION {CASE age < -d             -> {"FUTURE_DATA"}
           [] age > d * StaleAfter -> {"STALE_DATA"}
           [] OTHER                -> {} : d \in duration}

Warnings(payload, bars, d, moment) ==
  LET opened == [i \in 1 .. Len(payload.bars) |-> Utc(payload.bars[i], payload.zoned)]
      When(holds, code) == IF holds THEN {code} ELSE {}
  IN When(\E i \in 2 .. Len(opened) : opened[i] < opened[i - 1], "BARS_REORDERED")
     \cup When(\E r \in payload.range : r # <<Earliest(bars).at, Latest(bars).at>>,
               "DECLARED_RANGE_ADJUSTED")
     \cup When(~payload.requested, "REQUESTED_AT_DEFAULTED")
     \cup When(Gaps(bars, Duration(payload, d)) # {}, "BAR_GAPS")
     \cup When(Cardinality(bars) < LowBarCount, "LOW_BAR_COUNT")
     \cup Recency(bars, Duration(payload, d), moment)

\* Nothing, or the snapshot with what is to be said of it.
normalize_market_data(payload, d, moment) ==
  IF Rejected(payload) THEN {}
  ELSE LET bars == Series(payload.bars, payload.zoned)
       IN {[bars |-> bars, warnings |-> Warnings(payload, bars, d, moment)]}
=============================================================================
