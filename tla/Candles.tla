------------------------------- MODULE Candles -------------------------------
(***************************************************************************)
(* Candles of one market, and what price did across a window of them        *)
(* (services/price_reaction.py, schemas/ict.py, services/normalizer.py).     *)
(*                                                                         *)
(* Time is counted in minutes.  A tape is what was traded: minute m, from    *)
(* instant m - 1 to instant m, has one price or is Quiet.  A timeframe is    *)
(* its duration, a series is a set of candles with different openings, and   *)
(* a candle is [at, high, low, close]: its open price, volume and symbol are *)
(* checked on the way in and enter no figure.  "None" is the empty set.      *)
(***************************************************************************)
EXTENDS Integers, Sequences, FiniteSets, FiniteSetsExt

Quiet == 0

Traded(tape, from, upto) == {m \in from + 1 .. upto : tape[m] # Quiet}

\* The venue's candle opened at o, as it stands when the tape ends: none while
\* nothing traded.
CandleAt(tape, d, o) ==
  LET minutes == Traded(tape, o, Min({o + d, Len(tape)}))
      prices  == {tape[m] : m \in minutes}
  IN IF minutes = {} THEN {}
     ELSE {[at |-> o, high |-> Max(prices), low |-> Min(prices),
            close |-> tape[Max(minutes)]]}

CandlesOf(tape, d) == UNION {CandleAt(tape, d, k * d) : k \in 0 .. Len(tape) \div d}

-----------------------------------------------------------------------------
(* Series *)

close_time(bar, d) == bar.at + d

Newest(n, series) ==
  {bar \in series : Cardinality({b \in series : b.at > bar.at}) < n}

\* The feed's rows by their opening: a later row for it replaces an earlier one.
Overlaid(sent, n) ==
  UNION {{bar \in sent[i] : \A j \in i + 1 .. n : \A row \in sent[j] : row.at # bar.at} :
           i \in 0 .. n}

\* Never adjusted, only kept or dropped.
ClosedBy(series, d, moment) == {bar \in series : close_time(bar, d) <= moment}

\* Minutes since the newest of a series that has one closed.
Age(series, d, moment) == moment - Max({close_time(bar, d) : bar \in series})

-----------------------------------------------------------------------------
(* The price reaction over a window, half open at its start *)

\* ceil(window / bar), the boundary history and the margin: never as many as
\* PROVIDER_BAR_CEILING, which a window of seven days does not reach.
digest_bar_count(window, d, extra) == ((window.end - window.start + d - 1) \div d) + extra

Covers(window, moment) == window.start < moment /\ moment <= window.end

\* The last candle to have closed at or before the boundary.
ReferenceAt(closed, d, boundary) == Newest(1, ClosedBy(closed, d, boundary))

\* Mutant: the candle that crosses the window's start is left out of its range.
OpenedInside(bar, d, window) == bar.at >= window.start /\ bar.at < window.end
Overlaps(bar, d, window) == close_time(bar, d) > window.start /\ bar.at < window.end

\* Mutant: a candle that was open at the window's end is not looked at.
AnyClosedBarOverlaps(bars, d, window) ==
  \E b \in ClosedBy(bars, d, window.end) : Overlaps(b, d, window)
AnyBarOverlaps(bars, d, window) == \E b \in bars : Overlaps(b, d, window)

High(bars) == IF bars = {} THEN {} ELSE {Max({b.high : b \in bars})}
Low(bars) == IF bars = {} THEN {} ELSE {Min({b.low : b \in bars})}

calculate_price_reaction(bars, d, window) ==
  LET closed      == ClosedBy(bars, d, window.end)
      start       == ReferenceAt(closed, d, window.start)
      overlapping == {b \in closed : Overlaps(b, d, window)}
      finished    == {b \in closed : Covers(window, close_time(b, d))}
      activity    ==
        IF start = {} THEN "INSUFFICIENT_HISTORY"
        ELSE IF finished # {} THEN "NORMAL"
        ELSE IF AnyBarOverlaps(bars, d, window) THEN "NO_NEW_CLOSED_BAR"
        ELSE "NO_MARKET_ACTIVITY"
  IN IF start = {}
     THEN [activity |-> activity, start |-> {}, end |-> {}, high |-> {}, low |-> {}]
     ELSE [activity |-> activity, start |-> start,
           end |-> ReferenceAt(closed, d, window.end),
           high |-> High(overlapping), low |-> Low(overlapping)]
=============================================================================
