---------------------------- MODULE IctStructure ----------------------------
(***************************************************************************)
(* What services/ict_primitives.py, ict_structure.py, ict_protected.py and  *)
(* ict_range.py conclude from the closed candles of one timeframe: swings,  *)
(* structure breaks, the swings they protect and the dealing ranges.        *)
(*                                                                         *)
(* Candle i is bars[i]; its close is at time i, its open at i - 1.  Prices  *)
(* are integers.  A digest that names a swing, an event or a range is what  *)
(* it is computed from.  "None" is the empty set, "Some x" is {x}.          *)
(***************************************************************************)
EXTENDS Integers, Sequences, FiniteSets

CONSTANTS
  LeftBars,    \* the pivot window
  RightBars

ASSUME WindowAssumption == LeftBars \in Nat \ {0} /\ RightBars \in Nat \ {0}

Directions == {"BULLISH", "BEARISH"}
Opposite(d) == IF d = "BULLISH" THEN "BEARISH" ELSE "BULLISH"

\* The price of a candle, or a level, furthest in a direction.
Extreme(bar, d) == IF d = "BULLISH" THEN bar.high ELSE bar.low
Beyond(d, price, level) ==
  IF d = "BULLISH" THEN price > level ELSE price < level

\* build_timeframe_snapshot: a candle that has not closed is not observed.
Closed(bars, at) == SubSeq(bars, 1, IF at < Len(bars) THEN at ELSE Len(bars))

-----------------------------------------------------------------------------
(* Swings *)

\* A swing high is a pivot in the direction BULLISH, a swing low in BEARISH.
IsPivot(bars, i, d) ==
  \A j \in (i - LeftBars .. i + RightBars) \ {i} :
    Beyond(d, Extreme(bars[i], d), Extreme(bars[j], d))

\* The close of the last candle of its right window.
ConfirmedAt(i) == i + RightBars

Swing(bars, i, d) ==
  [side |-> d, pivot |-> i, at |-> ConfirmedAt(i), price |-> Extreme(bars[i], d)]

Swings(bars) ==
  UNION {{Swing(bars, i, d) : i \in {i \in LeftBars + 1 .. Len(bars) - RightBars :
                                      IsPivot(bars, i, d)}} : d \in Directions}

\* annotate_swings: against the previous swing of the same side.
Before(S, s) == {t \in S : t.side = s.side /\ t.pivot < s.pivot}
Newest(S) == {s \in S : \A t \in S : t.pivot <= s.pivot}
Relation(S, s) ==
  LET previous == Newest(Before(S, s)) IN
  CASE previous = {}                              -> "FIRST"
    [] \E t \in previous : s.price > t.price      -> "HIGHER"
    [] \E t \in previous : s.price < t.price      -> "LOWER"
    [] OTHER                                      -> "EQUAL"

LatestOf(S, side) == Newest({s \in S : s.side = side})

\* What the swings of known say, annotated among all of S.
BootstrapBias(S, known) ==
  LET says(r) == \A side \in Directions :
        \E s \in LatestOf(known, side) : Relation(S, s) = r
  IN  CASE says("HIGHER") -> "BULLISH"
        [] says("LOWER")  -> "BEARISH"
        [] OTHER          -> "NEUTRAL"

-----------------------------------------------------------------------------
(* Breaks of structure *)

\* A plausible bug: a candle may break the swing it confirms itself.
EligibleAtClose(S, i) == {s \in S : s.at <= i}

\* Strictly before: the candle that confirms a swing cannot also break it.
EligibleBefore(S, i) == {s \in S : s.at < i}

Classification(prior, d) ==
  CASE prior = "NEUTRAL" -> "INITIAL_BREAK"
    [] prior = d         -> "BOS"
    [] OTHER             -> "MSS"

\* The active swings a close is beyond, and the one of them that counts: the
\* latest confirmed, a low before a high.
Candidates(active, bar) ==
  {s \in active : Beyond(s.side, bar.close, s.price)}
Chosen(candidates) ==
  {s \in Newest(candidates) :
     s.side = "BULLISH" => \A t \in Newest(candidates) : t.side = "BULLISH"}

\* A plausible bug: older levels the same close clears stay live.
AlsoClearedNone(known, consumed, s, bar) == {}

AlsoCleared(known, consumed, s, bar) ==
  {t \in known \ consumed :
     t.side = s.side /\ t # s /\ Beyond(s.side, bar.close, t.price)}

\* A plausible bug: geometry keeps deciding the bias after a close has.
PriorBiasBootstrapped(S, known, st) == BootstrapBias(S, known)

\* Geometry leads until the first break.
PriorBias(S, known, st) ==
  IF st.breaks = <<>> THEN BootstrapBias(S, known) ELSE st.bias

\* One candle of analyse_structure's loop.
AfterBar(S, bar, i, st) ==
  LET known    == EligibleBefore(S, i)
      active   == UNION {LatestOf(known \ st.consumed, d) : d \in Directions}
      broken   == Chosen(Candidates(active, bar))
      prior    == PriorBias(S, known, st)
      event(s) ==
        [at |-> i, direction |-> s.side, class |-> Classification(prior, s.side),
         swing |-> s, prior |-> prior,
         opposite |-> {t \in active : t.side # s.side},
         cleared |-> AlsoCleared(known, st.consumed, s, bar)]
  IN  IF broken = {}
      THEN [st EXCEPT !.bias = prior]
      ELSE LET e == event(CHOOSE s \in broken : TRUE) IN
           [breaks |-> Append(st.breaks, e), bias |-> e.direction,
            consumed |-> st.consumed \cup {e.swing} \cup e.cleared]

\* analyse_structure.  The swings in hand decide once more while nothing broke.
Structure(bars) ==
  LET S == Swings(bars)
      after[i \in 0 .. Len(bars)] ==
        IF i = 0 THEN [breaks |-> <<>>, bias |-> "NEUTRAL", consumed |-> {}]
        ELSE AfterBar(S, bars[i], i, after[i - 1])
      st == after[Len(bars)]
  IN  [swings |-> S, breaks |-> st.breaks, consumed |-> st.consumed,
       bias |-> IF st.breaks = <<>> THEN BootstrapBias(S, S) ELSE st.bias,
       active |-> [d \in Directions |-> LatestOf(S \ st.consumed, d)]]

EventsOf(st) == {st.breaks[n] : n \in 1 .. Len(st.breaks)}

-----------------------------------------------------------------------------
(* The swing a break protects, and the leg from it *)

Leg(bars, e, o) ==
  [event |-> e, direction |-> e.direction, origin |-> o, formed |-> e.at,
   terminal |-> Extreme(bars[e.at], e.direction)]

\* A break whose other side has no live swing establishes nothing.
Legs(bars, st) == UNION {{Leg(bars, e, o) : o \in e.opposite} : e \in EventsOf(st)}

\* ProtectedStructureError: an origin not known before, a leg that goes nowhere.
LegsBroken(legs) ==
  \E leg \in legs :
    \/ leg.origin.at >= leg.formed
    \/ ~Beyond(leg.direction, leg.terminal, leg.origin.price)

\* The last leg in the direction of the bias, if there is one.
CurrentLeg(legs, bias) ==
  {leg \in legs :
     /\ leg.direction = bias
     /\ \A other \in legs : other.direction = bias => other.formed <= leg.formed}

-----------------------------------------------------------------------------
(* Dealing ranges *)

\* Its two edges, by the direction they lie in.
Edge(r, d) == IF d = r.leg.direction THEN r.terminal ELSE r.leg.origin.price
Lower(r) == Edge(r, "BEARISH")
Upper(r) == Edge(r, "BULLISH")

Extended(r, bar, i) ==
  LET d == r.leg.direction IN
  IF i > r.leg.formed /\ Beyond(d, Extreme(bar, d), r.terminal)
    THEN [r EXCEPT !.terminal = Extreme(bar, d), !.reached = i]
    ELSE r

Superseded(r, i) == [r EXCEPT !.status = "SUPERSEDED", !.ended = i]

OpenRange(leg) ==
  [leg |-> leg, terminal |-> leg.terminal, reached |-> leg.formed,
   status |-> "ACTIVE", ended |-> 0]

\* One candle of analyse_dealing_ranges's loop: first the active range grows,
\* then the candle's event, if any, replaces it or (a shift that protects
\* nothing) ends it.
RangesAfter(ranges, bar, i, events, legs) ==
  LET grown == {IF r.status = "ACTIVE" THEN Extended(r, bar, i) ELSE r : r \in ranges}
      ended == {IF r.status = "ACTIVE" THEN Superseded(r, i) ELSE r : r \in grown}
      now   == {leg \in legs : leg.formed = i}
  IN  IF now # {} THEN ended \cup {OpenRange(leg) : leg \in now}
      ELSE IF \E e \in events : e.at = i /\ e.class = "MSS" THEN ended
      ELSE grown

DealingRanges(bars, st, legs) ==
  LET after[i \in 0 .. Len(bars)] ==
        IF i = 0 THEN {} ELSE RangesAfter(after[i - 1], bars[i], i, EventsOf(st), legs)
  IN  after[Len(bars)]

ActiveRange(ranges) == {r \in ranges : r.status = "ACTIVE"}

\* DealingRangeError: no width, or a direction the bias does not share.
RangesBroken(ranges, bias) ==
  \/ \E r \in ranges : Upper(r) <= Lower(r)
  \/ \E r \in ActiveRange(ranges) : r.leg.direction # bias

\* locate, for a price given doubled (a midpoint may lie between two prices).
Locate(r, twice) ==
  IF twice < 2 * Lower(r) THEN "BELOW_RANGE"
  ELSE IF twice > 2 * Upper(r) THEN "ABOVE_RANGE"
  ELSE IF twice < Lower(r) + Upper(r) THEN "DISCOUNT"
  ELSE IF twice > Lower(r) + Upper(r) THEN "PREMIUM"
  ELSE "EQUILIBRIUM"
=============================================================================
