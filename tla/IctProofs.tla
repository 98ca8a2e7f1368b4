----------------------------- MODULE IctProofs -----------------------------
(***************************************************************************)
(* Theorems of IctStream, for every market: any first candles, any shapes   *)
(* of the ones that follow, any number of them.                             *)
(*                                                                         *)
(* The variables need little (MarketInv: the candles are candles, the       *)
(* reading is theirs); the weight is in the analysis, whose four loops run  *)
(* over a series of any length.  Each loop is a function of the candle it   *)
(* has reached (AfterCandle, RangesAt, GapsAfter, LiquidityAt) with an      *)
(* invariant of its own:                                                    *)
(*   StructureInv  every swing that a close went beyond is used up or has a *)
(*                 newer one in front of it (Covered), so the newest of its *)
(*                 side has not fallen; no swing is used twice              *)
(*   RangeInv      a range is running, or ended at a later candle           *)
(*   GapInv        a gap not filled has been covered by no candle since     *)
(*   LiquidityInv  pools are tight and apart, and the live ones untouched   *)
(* An invariant that failed would have a first candle at which it fails,    *)
(* and that turn of the loop keeps it.                                      *)
(*                                                                         *)
(* That nothing is repainted compares a series with the same series and a   *)
(* candle more (Later): the loops agree on every candle they share.         *)
(***************************************************************************)
EXTENDS IctStream, FiniteSetTheorems, FunctionTheorems, SequenceTheorems,
        WellFoundedInduction, TLAPS

-----------------------------------------------------------------------------
(* Numbers *)

\* A finite set of integers, unless it is empty, has a least element.
LEMMA FiniteLeast ==
  ASSUME NEW P, P \subseteq Int, P # {}, IsFiniteSet(P)
  PROVE  \E n \in P : \A m \in P : n <= m
<1> DEFINE Under(n) == {m \in P : m < n}
           T        == {Under(n) : n \in P}
<1>1. T \subseteq FiniteSubsetsOf(P)
  <2>1. ASSUME NEW n \in P PROVE Under(n) \in FiniteSubsetsOf(P)
    <3>1. Under(n) \in SUBSET P
      OBVIOUS
    <3>2. IsFiniteSet(Under(n))
      BY <3>1, FS_Subset
    <3> QED
      BY <3>1, <3>2 DEF FiniteSubsetsOf
  <2> QED
    BY <2>1
<1>2. PICK x \in T : \A y \in T : <<y, x>> \notin StrictSubsetOrdering(P)
  <2>1. T # {}
    OBVIOUS
  <2> HIDE DEF T
  <2> QED
    BY <1>1, <2>1, WFMin, FS_StrictSubsetOrderingWellFounded
<1>3. PICK n \in P : x = Under(n)
  OBVIOUS
<1>4. ASSUME NEW m \in P, m < n PROVE FALSE
  <2>1. Under(m) \in T
    OBVIOUS
  <2>2. /\ Under(m) \subseteq Under(n)
        /\ m \in Under(n)
        /\ m \notin Under(m)
    <3>1. m \in Int /\ n \in Int /\ \A k \in P : k \in Int
      OBVIOUS
    <3>2. \A k \in P : k < m => k < n
      BY <3>1, <1>4
    <3>3. Under(m) \subseteq Under(n)
      BY <3>2
    <3>4. m \in Under(n)
      BY <1>4
    <3>5. ~(m < m)
      BY <3>1
    <3>6. m \notin Under(m)
      BY <3>5
    <3> QED
      BY <3>3, <3>4, <3>6
  <2>3. <<Under(m), Under(n)>> \in StrictSubsetOrdering(P)
    BY <2>2 DEF StrictSubsetOrdering
  <2> HIDE DEF Under, T
  <2> QED
    BY <2>1, <2>3, <1>2, <1>3
<1> QED
  BY <1>4

\* And a greatest.
LEMMA FiniteGreatest ==
  ASSUME NEW P, P \subseteq Int, P # {}, IsFiniteSet(P)
  PROVE  \E n \in P : \A m \in P : n >= m
<1> DEFINE Over(n) == {m \in P : m > n}
           T       == {Over(n) : n \in P}
<1>1. T \subseteq FiniteSubsetsOf(P)
  <2>1. ASSUME NEW n \in P PROVE Over(n) \in FiniteSubsetsOf(P)
    <3>1. Over(n) \in SUBSET P
      OBVIOUS
    <3>2. IsFiniteSet(Over(n))
      BY <3>1, FS_Subset
    <3> QED
      BY <3>1, <3>2 DEF FiniteSubsetsOf
  <2> QED
    BY <2>1
<1>2. PICK x \in T : \A y \in T : <<y, x>> \notin StrictSubsetOrdering(P)
  <2>1. T # {}
    OBVIOUS
  <2> HIDE DEF T
  <2> QED
    BY <1>1, <2>1, WFMin, FS_StrictSubsetOrderingWellFounded
<1>3. PICK n \in P : x = Over(n)
  OBVIOUS
<1>4. ASSUME NEW m \in P, m > n PROVE FALSE
  <2>1. Over(m) \in T
    OBVIOUS
  <2>2. /\ Over(m) \subseteq Over(n)
        /\ m \in Over(n)
        /\ m \notin Over(m)
    <3>1. m \in Int /\ n \in Int /\ \A k \in P : k \in Int
      OBVIOUS
    <3>2. \A k \in P : k > m => k > n
      BY <3>1, <1>4
    <3>3. Over(m) \subseteq Over(n)
      BY <3>2
    <3>4. m \in Over(n)
      BY <1>4
    <3>5. ~(m > m)
      BY <3>1
    <3>6. m \notin Over(m)
      BY <3>5
    <3> QED
      BY <3>3, <3>4, <3>6
  <2>3. <<Over(m), Over(n)>> \in StrictSubsetOrdering(P)
    BY <2>2 DEF StrictSubsetOrdering
  <2> HIDE DEF Over, T
  <2> QED
    BY <2>1, <2>3, <1>2, <1>3
<1> QED
  BY <1>4

\* So have the numbers of an interval that something is true of: what follows a
\* loop to the first turn that goes wrong.
LEMMA FirstOf ==
  ASSUME NEW a \in Int, NEW b \in Int, NEW P, P \subseteq a .. b, P # {}
  PROVE  \E n \in P : \A m \in P : n <= m
<1>1. IsFiniteSet(a .. b) /\ a .. b \subseteq Int
  BY FS_Interval
<1>2. IsFiniteSet(P) /\ P \subseteq Int
  BY <1>1, FS_Subset
<1> QED
  BY <1>2, FiniteLeast

\* And a last one.
LEMMA LastOf ==
  ASSUME NEW a \in Int, NEW b \in Int, NEW P, P \subseteq a .. b, P # {}
  PROVE  \E n \in P : \A m \in P : n >= m
<1>1. IsFiniteSet(a .. b) /\ a .. b \subseteq Int
  BY FS_Interval
<1>2. IsFiniteSet(P) /\ P \subseteq Int
  BY <1>1, FS_Subset
<1> QED
  BY <1>2, FiniteGreatest

\* The least and the greatest the model chooses.
LEMMA LeastIs ==
  ASSUME NEW P, P \subseteq Int, P # {}, IsFiniteSet(P)
  PROVE  Least(P) \in P /\ \A m \in P : Least(P) <= m
BY FiniteLeast DEF Least

\* And Greatest at the other end.
LEMMA GreatestIs ==
  ASSUME NEW P, P \subseteq Int, P # {}, IsFiniteSet(P)
  PROVE  Greatest(P) \in P /\ \A m \in P : Greatest(P) >= m
BY FiniteGreatest DEF Greatest

\* The values of a function on a finite set are finitely many.
LEMMA FiniteValues ==
  ASSUME NEW X, IsFiniteSet(X), NEW f, DOMAIN f = X, f = [x \in X |-> f[x]]
  PROVE  IsFiniteSet({f[x] : x \in X})
<1> DEFINE Y == {f[x] : x \in X}
<1>1. f \in Surjection(X, Y)
  BY DEF Surjection
<1> QED
  BY <1>1, FS_Surjection

-----------------------------------------------------------------------------
(* Candles and swings *)

\* A candle of a series: its prices are numbers and its body is in its range.
LEMMA CandleFacts ==
  ASSUME NEW B \in Seq(Candle), NEW i \in 1 .. Len(B)
  PROVE  /\ B[i] \in Candle
         /\ B[i].open \in Int /\ B[i].close \in Int /\ B[i].high \in Int /\ B[i].low \in Int
         /\ B[i].low <= B[i].open /\ B[i].low <= B[i].close
         /\ B[i].high >= B[i].open /\ B[i].high >= B[i].close
         /\ B[i].low <= B[i].high
         /\ \A d : Extreme(B[i], d) \in Int
         /\ \A d \in Directions : \A level \in Int :
              Beyond(d, B[i].close, level) => Beyond(d, Extreme(B[i], d), level)
<1>1. B[i] \in Candle
  <2> HIDE DEF Candle
  <2> QED
    OBVIOUS
<1> DEFINE b == B[i]
<1>2. /\ b.open \in Int /\ b.close \in Int /\ b.high \in Int /\ b.low \in Int
      /\ b.low <= b.open /\ b.low <= b.close
      /\ b.high >= b.open /\ b.high >= b.close
  BY <1>1 DEF Candle
<1> HIDE DEF b
<1>3. b.low <= b.high
  BY <1>2
<1>4. \A d : Extreme(b, d) \in Int
  BY <1>2 DEF Extreme
<1>5. \A d \in Directions : \A level \in Int :
        Beyond(d, b.close, level) => Beyond(d, Extreme(b, d), level)
  BY <1>2, <1>3 DEF Directions, Beyond, Extreme
<1> QED
  BY <1>1, <1>2, <1>3, <1>4, <1>5 DEF b

\* A pivot has neighbours on both sides (FractalConfig).
LEMMA WindowFacts == LeftBars \in Int /\ LeftBars >= 1 /\ RightBars \in Int /\ RightBars >= 1
BY WindowAssumption

\* What a confirmed swing is.
LEMMA SwingFacts ==
  ASSUME NEW B \in Seq(Candle), NEW s \in Swings(B)
  PROVE  /\ s.side \in Directions
         /\ s.pivot \in LeftBars + 1 .. Len(B) - RightBars
         /\ s.pivot \in 2 .. Len(B) - 1
         /\ s.at = s.pivot + RightBars
         /\ s.at \in 1 .. Len(B)
         /\ s.price = Extreme(B[s.pivot], s.side)
         /\ s.price \in Int
         /\ IsPivot(B, s.pivot, s.side)
         /\ s = Swing(B, s.pivot, s.side)
<1>1. PICK d \in Directions, i \in LeftBars + 1 .. Len(B) - RightBars :
        IsPivot(B, i, d) /\ s = Swing(B, i, d)
  BY DEF Swings
<1>2. Len(B) \in Nat
  OBVIOUS
<1>3. i \in 2 .. Len(B) - 1 /\ i + RightBars \in 1 .. Len(B) /\ i \in 1 .. Len(B)
  BY <1>1, <1>2, WindowFacts
<1>4. Extreme(B[i], d) \in Int
  BY <1>3, CandleFacts
<1>5. s.side = d /\ s.pivot = i /\ s.at = i + RightBars /\ s.price = Extreme(B[i], d)
  BY <1>1 DEF Swing, ConfirmedAt
<1> QED
  BY <1>1, <1>3, <1>4, <1>5

\* A swing is its pivot and its side.
LEMMA OneSwing ==
  ASSUME NEW B \in Seq(Candle), NEW s \in Swings(B), NEW t \in Swings(B),
         s.side = t.side, s.pivot = t.pivot
  PROVE  s = t
BY SwingFacts

\* Every pivot is a confirmed swing.
LEMMA SwingIsThere ==
  ASSUME NEW B \in Seq(Candle), NEW d \in Directions,
         NEW i \in LeftBars + 1 .. Len(B) - RightBars, IsPivot(B, i, d)
  PROVE  Swing(B, i, d) \in Swings(B)
BY DEF Swings

\* There are finitely many.
LEMMA SwingsFinite ==
  ASSUME NEW B \in Seq(Candle)
  PROVE  IsFiniteSet(Swings(B))
<1> DEFINE X == (1 .. Len(B)) \X Directions
           f == [x \in X |-> Swing(B, x[1], x[2])]
           V == {f[x] : x \in X}
<1>1. IsFiniteSet(1 .. Len(B))
  BY FS_Interval
<1>2. IsFiniteSet({"BULLISH"})
  BY FS_Singleton
<1>3. IsFiniteSet({"BULLISH"} \cup {"BEARISH"})
  BY <1>2, FS_AddElement
<1>4. Directions = {"BULLISH"} \cup {"BEARISH"}
  BY DEF Directions
<1>5. IsFiniteSet(X)
  BY <1>1, <1>3, <1>4, FS_Product
<1>6. IsFiniteSet(V)
  <2>1. DOMAIN f = X /\ f = [x \in X |-> f[x]]
    OBVIOUS
  <2> HIDE DEF X, f
  <2> QED
    BY <1>5, <2>1, FiniteValues
<1>7. Swings(B) \subseteq V
  <2> SUFFICES ASSUME NEW s \in Swings(B) PROVE s \in V
    OBVIOUS
  <2>1. s.side \in Directions /\ s.pivot \in 2 .. Len(B) - 1 /\ s = Swing(B, s.pivot, s.side)
    BY SwingFacts
  <2>2. s.pivot \in 1 .. Len(B)
    BY <2>1
  <2>3. <<s.pivot, s.side>> \in X
    BY <2>1, <2>2
  <2>4. f[<<s.pivot, s.side>>] = Swing(B, s.pivot, s.side)
    BY <2>3
  <2> HIDE DEF X, f
  <2> QED
    BY <2>1, <2>3, <2>4
<1> HIDE DEF V
<1> QED
  BY <1>6, <1>7, FS_Subset

\* Some swings have a newest.
LEMMA SomeNewest ==
  ASSUME NEW B \in Seq(Candle), NEW T, T \subseteq Swings(B), T # {}
  PROVE  Newest(T) # {}
<1> DEFINE P == {s.pivot : s \in T}
<1>1. P \subseteq 1 .. Len(B) /\ P # {}
  <2>1. \A s \in T : s.pivot \in 1 .. Len(B)
    BY SwingFacts
  <2> QED
    BY <2>1
<1>2. 1 \in Int /\ Len(B) \in Int
  OBVIOUS
<1>3. PICK n \in P : \A m \in P : n >= m
  <2> HIDE DEF P
  <2> QED
    BY <1>1, <1>2, LastOf
<1>4. PICK s \in T : s.pivot = n
  OBVIOUS
<1>5. \A t \in T : t.pivot \in Int /\ t.pivot <= s.pivot
  <2>1. \A t \in T : t.pivot \in P /\ t.pivot \in Int
    BY SwingFacts
  <2>2. n \in Int
    BY <1>1
  <2> HIDE DEF P
  <2> QED
    BY <2>1, <2>2, <1>3, <1>4
<1> QED
  BY <1>4, <1>5 DEF Newest

\* A swing is at one candle strictly the furthest of its window.
LEMMA Furthest ==
  ASSUME NEW B \in Seq(Candle), NEW s \in Swings(B), NEW j \in Int, j # s.pivot,
         s.pivot - 1 <= j, j <= s.pivot + RightBars
  PROVE  /\ j \in 1 .. Len(B)
         /\ Beyond(s.side, s.price, Extreme(B[j], s.side))
<1>1. /\ s.pivot \in LeftBars + 1 .. Len(B) - RightBars
      /\ IsPivot(B, s.pivot, s.side) /\ s.price = Extreme(B[s.pivot], s.side)
  BY SwingFacts
<1>2. Len(B) \in Nat
  OBVIOUS
<1>3. j \in 1 .. Len(B) /\ j \in s.pivot - LeftBars .. s.pivot + RightBars
  BY <1>1, <1>2, WindowFacts
<1>4. Beyond(s.side, Extreme(B[s.pivot], s.side), Extreme(B[j], s.side))
  BY <1>1, <1>3 DEF IsPivot
<1> QED
  BY <1>1, <1>3, <1>4

-----------------------------------------------------------------------------
(* The loop of analyse_structure *)

\* Its start, and its turns.
NoBreaks == [breaks |-> <<>>, bias |-> "NEUTRAL", consumed |-> {}]

StructureTurns(B, after, k) ==
  after = [i \in 0 .. k |->
             IF i = 0 THEN NoBreaks ELSE AfterBar(Swings(B), B[i], i, after[i - 1])]

AfterCandle(B) == CHOOSE after : StructureTurns(B, after, Len(B))

\* The loop can be run for any number of candles.
LEMMA StructureTurnsExist ==
  ASSUME NEW B, NEW k \in Nat
  PROVE  \E after : StructureTurns(B, after, k)
<1> DEFINE K == {n \in 0 .. k : ~\E after : StructureTurns(B, after, n)}
<1>1. SUFFICES ASSUME K # {} PROVE FALSE
  <2>1. k \in 0 .. k
    OBVIOUS
  <2> QED
    BY <2>1
<1>2. PICK n \in K : \A m \in K : n <= m
  <2>1. K \subseteq 0 .. k /\ 0 \in Int /\ k \in Int
    OBVIOUS
  <2> HIDE DEF K
  <2> QED
    BY <1>1, <2>1, FirstOf
<1>3. n \in 0 .. k /\ ~\E after : StructureTurns(B, after, n)
  OBVIOUS
<1>4. n # 0
  <2>1. StructureTurns(B, [m \in 0 .. 0 |-> NoBreaks], 0)
    BY DEF StructureTurns
  <2> QED
    BY <2>1, <1>3
<1>5. PICK before : StructureTurns(B, before, n - 1)
  <2>1. n - 1 \in 0 .. k /\ ~(n <= n - 1)
    BY <1>3, <1>4
  <2>2. n - 1 \notin K
    <3> HIDE DEF K
    <3> QED
      BY <1>2, <2>1
  <2> QED
    BY <2>1, <2>2
<1> DEFINE after == [m \in 0 .. n |->
             IF m = n THEN AfterBar(Swings(B), B[n], n, before[n - 1]) ELSE before[m]]
<1>6. ASSUME NEW m \in 0 .. n
      PROVE  after[m] = IF m = 0 THEN NoBreaks
                        ELSE AfterBar(Swings(B), B[m], m, after[m - 1])
  <2>1. CASE m = n
    <3>1. n - 1 \in 0 .. n /\ n - 1 # n /\ n \in 0 .. n
      BY <1>3, <1>4
    <3>2. after[n - 1] = before[n - 1]
      BY <3>1
    <3> QED
      BY <2>1, <3>1, <3>2, <1>4
  <2>2. CASE m # n
    <3>1. m \in 0 .. n - 1 /\ (m # 0 => m - 1 \in 0 .. n /\ m - 1 # n)
      BY <2>2, <1>3, <1>4
    <3>2. before[m] = IF m = 0 THEN NoBreaks
                      ELSE AfterBar(Swings(B), B[m], m, before[m - 1])
      BY <1>5, <3>1 DEF StructureTurns
    <3>3. m # 0 => after[m - 1] = before[m - 1]
      BY <3>1
    <3>4. after[m] = before[m]
      BY <2>2
    <3> HIDE DEF after
    <3> QED
      BY <3>2, <3>3, <3>4
  <2> QED
    BY <2>1, <2>2
<1>7. StructureTurns(B, after, n)
  <2>1. after = [m \in 0 .. n |-> after[m]]
    OBVIOUS
  <2> HIDE DEF after
  <2> QED
    BY <1>6, <2>1 DEF StructureTurns
<1> QED
  BY <1>3, <1>7

\* AfterCandle is the state after each candle.
LEMMA StructureLoop ==
  ASSUME NEW B \in Seq(Candle)
  PROVE  /\ AfterCandle(B)[0] = NoBreaks
         /\ \A i \in 1 .. Len(B) :
              AfterCandle(B)[i] = AfterBar(Swings(B), B[i], i, AfterCandle(B)[i - 1])
<1>1. Len(B) \in Nat
  OBVIOUS
<1>2. StructureTurns(B, AfterCandle(B), Len(B))
  BY <1>1, StructureTurnsExist DEF AfterCandle
<1>3. \A i \in 0 .. Len(B) : AfterCandle(B)[i] =
        IF i = 0 THEN NoBreaks ELSE AfterBar(Swings(B), B[i], i, AfterCandle(B)[i - 1])
  BY <1>2 DEF StructureTurns
<1> QED
  BY <1>1, <1>3

\* The structure is what the loop leaves behind.
LEMMA StructureIs ==
  ASSUME NEW B
  PROVE  LET st == AfterCandle(B)[Len(B)] IN
         Structure(B) =
           [swings |-> Swings(B), breaks |-> st.breaks, consumed |-> st.consumed,
            bias |-> IF st.breaks = <<>> THEN BootstrapBias(Swings(B), Swings(B))
                     ELSE st.bias,
            active |-> [d \in Directions |-> LatestOf(Swings(B) \ st.consumed, d)]]
BY DEF Structure, AfterCandle, StructureTurns, NoBreaks

\* The parts of one turn.
ActiveAt(S, i, consumed) ==
  UNION {LatestOf(EligibleBefore(S, i) \ consumed, d) : d \in Directions}
BrokenAt(S, bar, i, consumed) == Chosen(Candidates(ActiveAt(S, i, consumed), bar))
EventAt(S, bar, i, st) ==
  LET s     == CHOOSE s \in BrokenAt(S, bar, i, st.consumed) : TRUE
      prior == PriorBias(S, EligibleBefore(S, i), st)
  IN  [at |-> i, direction |-> s.side, class |-> Classification(prior, s.side),
       swing |-> s, prior |-> prior,
       opposite |-> {t \in ActiveAt(S, i, st.consumed) : t.side # s.side},
       cleared |-> AlsoCleared(EligibleBefore(S, i), st.consumed, s, bar)]

\* One candle: nothing broken, or one event.
LEMMA AfterBarIs ==
  ASSUME NEW S, NEW bar, NEW i, NEW st
  PROVE  AfterBar(S, bar, i, st) =
           IF BrokenAt(S, bar, i, st.consumed) = {}
           THEN [st EXCEPT !.bias = PriorBias(S, EligibleBefore(S, i), st)]
           ELSE LET e == EventAt(S, bar, i, st) IN
                [breaks |-> Append(st.breaks, e), bias |-> e.direction,
                 consumed |-> st.consumed \cup {e.swing} \cup e.cleared]
BY DEF AfterBar, BrokenAt, ActiveAt, EventAt

\* What the loop keeps of a series.
Biases == Directions \cup {"NEUTRAL"}
Classes == {"INITIAL_BREAK", "BOS", "MSS"}
Events(B) ==
  [at : 1 .. Len(B), direction : Directions, class : Classes, swing : Swings(B),
   prior : Biases, opposite : SUBSET Swings(B), cleared : SUBSET Swings(B)]
StructureStates(B) ==
  [breaks : Seq(Events(B)), bias : Biases, consumed : SUBSET Swings(B)]

\* The bias before a candle is a bias.
LEMMA PriorType ==
  ASSUME NEW B \in Seq(Candle), NEW known, NEW st \in StructureStates(B)
  PROVE  PriorBias(Swings(B), known, st) \in Biases
BY DEF StructureStates, PriorBias, BootstrapBias, Biases, Directions

\* The active swing of a side is the newest that is known and not used up.
LEMMA ActiveFacts ==
  ASSUME NEW B, NEW i, NEW consumed, NEW s \in ActiveAt(Swings(B), i, consumed)
  PROVE  /\ s \in Swings(B) /\ s.at < i /\ s \notin consumed
         /\ s.side \in Directions
         /\ s \in LatestOf(EligibleBefore(Swings(B), i) \ consumed, s.side)
         /\ \A t \in Swings(B) : t.at < i /\ t \notin consumed /\ t.side = s.side =>
              t.pivot <= s.pivot
BY DEF ActiveAt, LatestOf, Newest, EligibleBefore

\* The swing that counts is a live one the close is beyond; if the close is
\* beyond a live swing, there is one.
LEMMA BrokenFacts ==
  ASSUME NEW B \in Seq(Candle), NEW bar, NEW i, NEW consumed
  PROVE  /\ \A s \in BrokenAt(Swings(B), bar, i, consumed) :
              s \in ActiveAt(Swings(B), i, consumed) /\ Beyond(s.side, bar.close, s.price)
         /\ \A s \in ActiveAt(Swings(B), i, consumed) :
              Beyond(s.side, bar.close, s.price) => BrokenAt(Swings(B), bar, i, consumed) # {}
<1> DEFINE A == ActiveAt(Swings(B), i, consumed)
           C == Candidates(A, bar)
<1>1. C \subseteq A /\ A \subseteq Swings(B)
  BY ActiveFacts DEF Candidates
<1>2. \A s \in Chosen(C) : s \in A /\ Beyond(s.side, bar.close, s.price)
  BY DEF Chosen, Newest, Candidates
<1>3. ASSUME NEW s \in A, Beyond(s.side, bar.close, s.price) PROVE Chosen(C) # {}
  <2>1. C # {}
    BY <1>3 DEF Candidates
  <2> HIDE DEF C
  <2>2. PICK t : t \in Newest(C)
    BY <2>1, <1>1, SomeNewest
  <2>3. CASE \A u \in Newest(C) : u.side = "BULLISH"
    BY <2>2, <2>3 DEF Chosen
  <2>4. CASE \E u \in Newest(C) : u.side # "BULLISH"
    BY <2>4 DEF Chosen
  <2> QED
    BY <2>3, <2>4
<1> QED
  BY <1>2, <1>3 DEF BrokenAt

\* What the break of candle i is.
EventIs(B, i, st, e) ==
  /\ e \in Events(B)
  /\ e.at = i
  /\ e.direction = e.swing.side
  /\ e.swing \in ActiveAt(Swings(B), i, st.consumed)
  /\ Beyond(e.swing.side, B[i].close, e.swing.price)
  /\ e.prior = PriorBias(Swings(B), EligibleBefore(Swings(B), i), st)
  /\ e.class = Classification(e.prior, e.direction)
  /\ e.opposite = {t \in ActiveAt(Swings(B), i, st.consumed) : t.side # e.swing.side}
  /\ e.cleared = {t \in EligibleBefore(Swings(B), i) \ st.consumed :
                    /\ t.side = e.swing.side /\ t # e.swing
                    /\ Beyond(e.swing.side, B[i].close, t.price)}

\* A break records a newest swing of its side, broken by this close.
LEMMA EventFacts ==
  ASSUME NEW B \in Seq(Candle), NEW i \in 1 .. Len(B), NEW st \in StructureStates(B),
         BrokenAt(Swings(B), B[i], i, st.consumed) # {}
  PROVE  EventIs(B, i, st, EventAt(Swings(B), B[i], i, st))
<1> DEFINE A == ActiveAt(Swings(B), i, st.consumed)
           k == EligibleBefore(Swings(B), i)
           s == CHOOSE s \in BrokenAt(Swings(B), B[i], i, st.consumed) : TRUE
           prior == PriorBias(Swings(B), k, st)
           e == EventAt(Swings(B), B[i], i, st)
<1>1. s \in BrokenAt(Swings(B), B[i], i, st.consumed)
  OBVIOUS
<1>2. s \in A /\ Beyond(s.side, B[i].close, s.price)
  BY <1>1, BrokenFacts
<1>3. s \in Swings(B) /\ s.side \in Directions /\ A \subseteq Swings(B)
  BY <1>2, ActiveFacts
<1>4. prior \in Biases
  BY PriorType
<1>5. e = [at |-> i, direction |-> s.side, class |-> Classification(prior, s.side),
           swing |-> s, prior |-> prior, opposite |-> {t \in A : t.side # s.side},
           cleared |-> AlsoCleared(k, st.consumed, s, B[i])]
  BY DEF EventAt
<1>6. AlsoCleared(k, st.consumed, s, B[i]) =
        {t \in k \ st.consumed : /\ t.side = s.side /\ t # s
                                 /\ Beyond(s.side, B[i].close, t.price)}
  BY DEF AlsoCleared
<1>7. k \subseteq Swings(B)
  BY DEF EligibleBefore
<1>8. Classification(prior, s.side) \in Classes
  BY DEF Classification, Classes
<1> HIDE DEF A, k, s, prior, e
<1>9. {t \in A : t.side # s.side} \in SUBSET Swings(B)
  BY <1>3
<1>10. AlsoCleared(k, st.consumed, s, B[i]) \in SUBSET Swings(B)
  BY <1>6, <1>7
<1>11. e \in Events(B)
  BY <1>3, <1>4, <1>5, <1>8, <1>9, <1>10 DEF Events
<1>12. e.swing = s /\ e.prior = prior /\ e.at = i /\ e.direction = s.side
       /\ e.class = Classification(prior, s.side)
  BY <1>5
<1>13. e.opposite = {t \in A : t.side # s.side}
  BY <1>5
<1>14. e.cleared = AlsoCleared(k, st.consumed, s, B[i])
  BY <1>5
<1>15. /\ e.at = i /\ e.direction = e.swing.side /\ e.swing \in A
       /\ Beyond(e.swing.side, B[i].close, e.swing.price)
       /\ e.prior = prior /\ e.class = Classification(e.prior, e.direction)
  BY <1>2, <1>12
<1>16. e.opposite = {t \in A : t.side # e.swing.side}
  BY <1>12, <1>13
<1>17. e.cleared = {t \in k \ st.consumed : /\ t.side = e.swing.side /\ t # e.swing
                                 /\ Beyond(e.swing.side, B[i].close, t.price)}
  BY <1>6, <1>12, <1>14
<1>18. EventIs(B, i, st, e)
  BY <1>11, <1>15, <1>16, <1>17 DEF EventIs, A, k, prior
<1> QED
  BY <1>18 DEF e

-----------------------------------------------------------------------------
(* What a close does to the levels *)

\* The swings known when candle i has closed and not used up.
Live(B, i, consumed) == {s \in Swings(B) : s.at <= i /\ s \notin consumed}
\* A candle since its confirmation closed beyond a swing.
Fallen(B, s, i) == \E j \in s.at + 1 .. i : Beyond(s.side, B[j].close, s.price)
\* A newer swing lies beyond an older one.
Shields(u, s) == u.side = s.side /\ u.pivot > s.pivot /\ Beyond(s.side, u.price, s.price)

\* A live swing that has fallen lies behind a newer one: a close that does not
\* reach the newest level breaks nothing, and the levels it passed stay.
Covered(B, i, consumed) ==
  \A s \in Live(B, i, consumed) :
    Fallen(B, s, i) => \E u \in Live(B, i, consumed) : Shields(u, s)

\* The newest live swing of a side has not been closed beyond.
LEMMA NewestStands ==
  ASSUME NEW B \in Seq(Candle), NEW i \in Int, NEW consumed, Covered(B, i, consumed),
         NEW s \in Live(B, i, consumed),
         \A t \in Live(B, i, consumed) : t.side = s.side => t.pivot <= s.pivot
  PROVE  ~Fallen(B, s, i)
<1>1. ASSUME NEW u \in Live(B, i, consumed), Shields(u, s) PROVE FALSE
  <2>1. u.side = s.side /\ u.pivot > s.pivot
    BY <1>1 DEF Shields
  <2>2. u.pivot <= s.pivot
    BY <2>1
  <2>3. u.pivot \in Int /\ s.pivot \in Int
    BY SwingFacts DEF Live
  <2> QED
    BY <2>1, <2>2, <2>3
<1> QED
  BY <1>1 DEF Covered

\* A high and a low that have not fallen are in that order: the candle before
\* the pivot of the later of them is in the earlier one's window, or closed
\* after it was confirmed.
LEMMA SidesApart ==
  ASSUME NEW B \in Seq(Candle), NEW i \in Int,
         NEW s \in Swings(B), s.at <= i, s.side = "BULLISH", ~Fallen(B, s, i),
         NEW t \in Swings(B), t.at <= i, t.side = "BEARISH", ~Fallen(B, t, i)
  PROVE  s.price > t.price
<1>1. /\ s.pivot \in 2 .. Len(B) - 1 /\ s.at = s.pivot + RightBars /\ s.price \in Int
      /\ s.price = B[s.pivot].high
  BY SwingFacts DEF Extreme
<1>2. /\ t.pivot \in 2 .. Len(B) - 1 /\ t.at = t.pivot + RightBars /\ t.price \in Int
      /\ t.price = B[t.pivot].low
  BY SwingFacts DEF Extreme
<1>3. Len(B) \in Nat
  OBVIOUS
<1>4. \A j \in 1 .. Len(B) :
        /\ B[j].high \in Int /\ B[j].low \in Int /\ B[j].close \in Int
        /\ B[j].low <= B[j].close /\ B[j].close <= B[j].high /\ B[j].low <= B[j].high
  BY CandleFacts
<1>5. \A j \in Int : j # s.pivot /\ s.pivot - 1 <= j /\ j <= s.pivot + RightBars =>
        j \in 1 .. Len(B) /\ s.price > B[j].high
  BY Furthest DEF Beyond, Extreme
<1>6. \A j \in Int : j # t.pivot /\ t.pivot - 1 <= j /\ j <= t.pivot + RightBars =>
        j \in 1 .. Len(B) /\ t.price < B[j].low
  BY Furthest DEF Beyond, Extreme
<1>7. \A j \in s.at + 1 .. i : ~(B[j].close > s.price)
  BY DEF Fallen, Beyond
<1>8. \A j \in t.at + 1 .. i : ~(B[j].close < t.price)
  BY DEF Fallen, Beyond
<1>9. CASE s.pivot = t.pivot
  <2> DEFINE k == s.pivot - 1
  <2>1. k \in Int /\ k # s.pivot /\ k <= s.pivot + RightBars /\ s.pivot - 1 <= k
    BY <1>1, WindowFacts
  <2>2. k \in 1 .. Len(B) /\ s.price > B[k].high /\ t.price < B[k].low
    BY <2>1, <1>5, <1>6, <1>9
  <2> HIDE DEF k
  <2>3. B[k].high \in Int /\ B[k].low \in Int /\ B[k].low <= B[k].high
    BY <2>2, <1>4
  <2>4. s.price \in Int /\ t.price \in Int
    BY <1>1, <1>2
  <2> QED
    BY <2>2, <2>3, <2>4
<1>10. CASE s.pivot < t.pivot
  <2> DEFINE k == t.pivot - 1
  <2>1. k \in Int /\ k # t.pivot /\ t.pivot - 1 <= k /\ k <= t.pivot + RightBars
        /\ s.pivot <= k /\ k <= i
    <3>1. s.pivot \in Int /\ t.pivot \in Int /\ RightBars \in Int /\ RightBars >= 1
      BY <1>1, <1>2, WindowFacts
    <3>2. t.pivot + RightBars <= i
      BY <1>2
    <3> QED
      BY <3>1, <3>2, <1>10
  <2>2. k \in 1 .. Len(B) /\ t.price < B[k].low
    BY <2>1, <1>6
  <2>3. CASE k = s.pivot
    <3>1. t.pivot \in Int /\ t.pivot # s.pivot /\ s.pivot - 1 <= t.pivot
          /\ t.pivot <= s.pivot + RightBars
      BY <2>3, <1>1, <1>2, WindowFacts
    <3>2. t.pivot \in 1 .. Len(B) /\ s.price > B[t.pivot].high
      BY <3>1, <1>5
    <3>3. /\ B[t.pivot].high \in Int /\ B[t.pivot].low \in Int
          /\ B[t.pivot].low <= B[t.pivot].high
      BY <3>2, <1>4
    <3>4. /\ s.price \in Int /\ t.price \in Int
          /\ t.price = B[t.pivot].low
      BY <1>1, <1>2
    <3> QED
      BY <3>2, <3>3, <3>4
  <2>4. CASE k # s.pivot /\ k <= s.at
    <3>1. s.price > B[k].high
      BY <2>1, <2>4, <1>1, <1>5
    <3> HIDE DEF k
    <3>2. B[k].high \in Int /\ B[k].low \in Int /\ B[k].low <= B[k].high
      BY <2>2, <1>4
    <3>3. s.price \in Int /\ t.price \in Int
      BY <1>1, <1>2
    <3> QED
      BY <2>2, <3>1, <3>2, <3>3
  <2>5. CASE k > s.at
    <3>1. k \in s.at + 1 .. i
      BY <2>1, <2>5, <1>1, WindowFacts
    <3>2. ~(B[k].close > s.price)
      BY <3>1, <1>7
    <3> HIDE DEF k
    <3> QED
      BY <2>2, <3>2, <1>1, <1>2, <1>4
  <2>6. s.at \in Int
    BY <1>1, WindowFacts
  <2> QED
    BY <2>1, <2>3, <2>4, <2>5, <2>6
<1>11. CASE t.pivot < s.pivot
  <2> DEFINE k == s.pivot - 1
  <2>1. k \in Int /\ k # s.pivot /\ s.pivot - 1 <= k /\ k <= s.pivot + RightBars
        /\ t.pivot <= k /\ k <= i
    <3>1. s.pivot \in Int /\ t.pivot \in Int /\ RightBars \in Int /\ RightBars >= 1
      BY <1>1, <1>2, WindowFacts
    <3>2. s.pivot + RightBars <= i
      BY <1>1
    <3> QED
      BY <3>1, <3>2, <1>11
  <2>2. k \in 1 .. Len(B) /\ s.price > B[k].high
    BY <2>1, <1>5
  <2>3. CASE k = t.pivot
    <3>1. s.pivot \in Int /\ s.pivot # t.pivot /\ t.pivot - 1 <= s.pivot
          /\ s.pivot <= t.pivot + RightBars
      BY SMTT(30), <2>3, <1>1, <1>2, WindowFacts
    <3>2. s.pivot \in 1 .. Len(B) /\ t.price < B[s.pivot].low
      BY <3>1, <1>6
    <3>3. /\ B[s.pivot].high \in Int /\ B[s.pivot].low \in Int
          /\ B[s.pivot].low <= B[s.pivot].high
      BY <3>2, <1>4
    <3>4. /\ s.price \in Int /\ t.price \in Int
          /\ s.price = B[s.pivot].high
      BY <1>1, <1>2
    <3> QED
      BY <3>2, <3>3, <3>4
  <2>4. CASE k # t.pivot /\ k <= t.at
    <3>1. t.price < B[k].low
      BY <2>1, <2>4, <1>2, <1>6
    <3> HIDE DEF k
    <3>2. B[k].high \in Int /\ B[k].low \in Int /\ B[k].low <= B[k].high
      BY <2>2, <1>4
    <3>3. s.price \in Int /\ t.price \in Int
      BY <1>1, <1>2
    <3> QED
      BY <2>2, <3>1, <3>2, <3>3
  <2>5. CASE k > t.at
    <3>1. k \in t.at + 1 .. i
      BY <2>1, <2>5, <1>2, WindowFacts
    <3>2. ~(B[k].close < t.price)
      BY <3>1, <1>8
    <3> HIDE DEF k
    <3> QED
      BY <2>2, <3>2, <1>1, <1>2, <1>4
  <2>6. t.at \in Int
    BY <1>2, WindowFacts
  <2> QED
    BY <2>1, <2>3, <2>4, <2>5, <2>6
<1> QED
  BY <1>1, <1>2, <1>9, <1>10, <1>11

\* What is live for candle i is what was when the candle before it had closed.
LEMMA ActiveStands ==
  ASSUME NEW B \in Seq(Candle), NEW i \in 1 .. Len(B), NEW consumed,
         Covered(B, i - 1, consumed), NEW s \in ActiveAt(Swings(B), i, consumed)
  PROVE  s \in Live(B, i - 1, consumed) /\ ~Fallen(B, s, i - 1)
<1>1. /\ s \in Swings(B) /\ s.at < i /\ s \notin consumed
      /\ \A t \in Swings(B) : t.at < i /\ t \notin consumed /\ t.side = s.side =>
           t.pivot <= s.pivot
  BY ActiveFacts
<1>2. i - 1 \in Int /\ \A t \in Swings(B) : t.at < i <=> t.at <= i - 1
  BY SwingFacts
<1>3. s \in Live(B, i - 1, consumed)
  BY <1>1, <1>2 DEF Live
<1>4. \A t \in Live(B, i - 1, consumed) : t.side = s.side => t.pivot <= s.pivot
  BY <1>1, <1>2 DEF Live
<1> QED
  BY <1>2, <1>3, <1>4, NewestStands

\* So no close is beyond a live high and a live low at once.
LEMMA OneSideOnly ==
  ASSUME NEW B \in Seq(Candle), NEW i \in 1 .. Len(B), NEW consumed,
         Covered(B, i - 1, consumed),
         NEW s \in ActiveAt(Swings(B), i, consumed),
         NEW t \in ActiveAt(Swings(B), i, consumed), s.side # t.side
  PROVE  /\ Beyond(s.side, s.price, t.price)
         /\ Beyond(s.side, B[i].close, s.price) => ~Beyond(t.side, B[i].close, t.price)
<1>1. i - 1 \in Int /\ B[i].close \in Int
  BY CandleFacts
<1>2. /\ s \in Live(B, i - 1, consumed) /\ ~Fallen(B, s, i - 1)
      /\ t \in Live(B, i - 1, consumed) /\ ~Fallen(B, t, i - 1)
  BY ActiveStands
<1>3. /\ s \in Swings(B) /\ s.at <= i - 1 /\ t \in Swings(B) /\ t.at <= i - 1
  BY <1>2 DEF Live
<1>4. s.side \in Directions /\ t.side \in Directions /\ s.price \in Int /\ t.price \in Int
  BY <1>3, SwingFacts
<1>5. CASE s.side = "BULLISH"
  <2>1. t.side = "BEARISH"
    BY <1>4, <1>5 DEF Directions
  <2>2. s.price > t.price
    BY <1>1, <1>2, <1>3, <1>5, <2>1, SidesApart
  <2> QED
    BY <1>1, <1>4, <1>5, <2>1, <2>2 DEF Beyond
<1>6. CASE s.side = "BEARISH"
  <2>1. t.side = "BULLISH"
    BY <1>4, <1>6 DEF Directions
  <2>2. t.price > s.price
    BY <1>1, <1>2, <1>3, <1>6, <2>1, SidesApart
  <2> QED
    BY <1>1, <1>4, <1>6, <2>1, <2>2 DEF Beyond
<1> QED
  BY <1>4, <1>5, <1>6 DEF Directions

\* What one candle uses up: with a level, every known level of its side that the
\* close is beyond; and the newest of a side, if the close is beyond it.
LEMMA UsedUp ==
  ASSUME NEW B \in Seq(Candle), NEW i \in 1 .. Len(B), NEW st \in StructureStates(B),
         Covered(B, i - 1, st.consumed),
         NEW then, then = AfterBar(Swings(B), B[i], i, st).consumed
  PROVE  /\ st.consumed \subseteq then
         /\ \A u \in then \ st.consumed :
              u.at < i /\ Beyond(u.side, B[i].close, u.price)
         /\ \A s, u \in Swings(B) :
              /\ s.at < i /\ s.side = u.side /\ Beyond(s.side, B[i].close, s.price)
              /\ u \in then \ st.consumed \/ u \in ActiveAt(Swings(B), i, st.consumed)
              /\ Beyond(u.side, B[i].close, u.price)
              => s \in then
<1> DEFINE broken == BrokenAt(Swings(B), B[i], i, st.consumed)
           e      == EventAt(Swings(B), B[i], i, st)
<1>1. CASE broken = {}
  <2>1. then = st.consumed
    BY <1>1, AfterBarIs DEF StructureStates
  <2>2. \A u \in ActiveAt(Swings(B), i, st.consumed) : ~Beyond(u.side, B[i].close, u.price)
    BY <1>1, BrokenFacts
  <2> QED
    BY <2>1, <2>2
<1>2. CASE broken # {}
  <2>1. then = st.consumed \cup {e.swing} \cup e.cleared
    <3>1. AfterBar(Swings(B), B[i], i, st) =
            [breaks |-> Append(st.breaks, e), bias |-> e.direction,
             consumed |-> st.consumed \cup {e.swing} \cup e.cleared]
      BY <1>2, AfterBarIs
    <3> HIDE DEF e
    <3> QED
      BY <3>1
  <2>2. /\ e.swing \in ActiveAt(Swings(B), i, st.consumed)
        /\ Beyond(e.swing.side, B[i].close, e.swing.price)
        /\ e.cleared = {t \in EligibleBefore(Swings(B), i) \ st.consumed :
                          /\ t.side = e.swing.side /\ t # e.swing
                          /\ Beyond(e.swing.side, B[i].close, t.price)}
    <3>1. EventIs(B, i, st, e)
      BY <1>2, EventFacts
    <3> HIDE DEF e
    <3> QED
      BY <3>1 DEF EventIs
  <2> HIDE DEF e
  <2>3. e.swing \in Swings(B) /\ e.swing.at < i /\ e.swing \notin st.consumed
    BY <2>2, ActiveFacts
  <2>4. \A u \in then \ st.consumed :
          u.at < i /\ u.side = e.swing.side /\ Beyond(u.side, B[i].close, u.price)
    BY <2>1, <2>2, <2>3 DEF EligibleBefore
  <2>5. \A u \in ActiveAt(Swings(B), i, st.consumed) :
          Beyond(u.side, B[i].close, u.price) => u.side = e.swing.side
    BY <2>2, OneSideOnly
  <2>6. \A s \in Swings(B) : s.at < i /\ s.side = e.swing.side
          /\ Beyond(s.side, B[i].close, s.price) => s \in then
    BY <2>1, <2>2 DEF EligibleBefore
  <2> QED
    BY <2>1, <2>4, <2>5, <2>6
<1> QED
  BY <1>1, <1>2

\* Beyond is a strict order of the prices, and Opposite turns it round.
LEMMA BeyondOrder ==
  ASSUME NEW d \in Directions, NEW x \in Int, NEW y \in Int, NEW z \in Int
  PROVE  /\ Beyond(d, x, y) /\ Beyond(d, y, z) => Beyond(d, x, z)
         /\ Beyond(d, x, z) /\ ~Beyond(d, x, y) => Beyond(d, y, z)
         /\ Beyond(d, x, y) => ~Beyond(d, y, x)
         /\ ~Beyond(d, x, x)
         /\ x # y => (Beyond(d, x, y) \/ Beyond(d, y, x))
         /\ Beyond(Opposite(d), x, y) <=> Beyond(d, y, x)
BY DEF Beyond, Directions, Opposite

\* A candle keeps every fallen swing covered: used up, or shielded by a newer one.
LEMMA CoveredNext ==
  ASSUME NEW B \in Seq(Candle), NEW i \in 1 .. Len(B), NEW st \in StructureStates(B),
         Covered(B, i - 1, st.consumed)
  PROVE  Covered(B, i, AfterBar(Swings(B), B[i], i, st).consumed)
<1> DEFINE K    == st.consumed
           then == AfterBar(Swings(B), B[i], i, st).consumed
           A    == ActiveAt(Swings(B), i, K)
           c    == B[i].close
<1>1. /\ K \subseteq then
      /\ \A u \in then \ K : u.at < i /\ Beyond(u.side, c, u.price)
      /\ \A s, u \in Swings(B) :
           /\ s.at < i /\ s.side = u.side /\ Beyond(s.side, c, s.price)
           /\ u \in then \ K \/ u \in A
           /\ Beyond(u.side, c, u.price)
           => s \in then
  BY UsedUp
<1>2. c \in Int
  BY CandleFacts
<1>3. \A s \in Swings(B) : s.at \in Int /\ s.pivot \in Int /\ s.side \in Directions
                           /\ s.price \in Int
  BY SwingFacts
<1> HIDE DEF then, A, c, K
<1> SUFFICES ASSUME NEW s \in Live(B, i, then), Fallen(B, s, i)
             PROVE  \E u \in Live(B, i, then) : Shields(u, s)
  BY DEF Covered, then
<1>4. s \in Swings(B) /\ s.at <= i /\ s \notin then /\ s \notin K
  BY <1>1 DEF Live
<1>5. PICK j \in s.at + 1 .. i : Beyond(s.side, B[j].close, s.price)
  BY DEF Fallen
<1>6. i \in Int /\ s.at < i
  BY <1>3, <1>4, <1>5
<1>7. s \in Live(B, i - 1, K)
  BY <1>3, <1>4, <1>6 DEF Live
<1>8. \A u \in Live(B, i - 1, K) : u \notin then => u \in Live(B, i, then)
  BY <1>3, <1>6 DEF Live
<1>9. CASE j # i
  <2>1. Fallen(B, s, i - 1)
    <3>1. j \in s.at + 1 .. i - 1
      BY <1>3, <1>4, <1>5, <1>9
    <3> QED
      BY <1>5, <3>1 DEF Fallen
  <2>2. PICK u \in Live(B, i - 1, K) : Shields(u, s)
    BY <1>7, <2>1 DEF Covered, K
  <2>3. u \in Swings(B) /\ u \notin K
    BY DEF Live
  <2>4. ASSUME u \in then PROVE FALSE
    <3>1. Beyond(u.side, c, u.price)
      BY <1>1, <2>3, <2>4
    <3>2. u.side = s.side /\ Beyond(s.side, u.price, s.price)
      BY <2>2 DEF Shields
    <3>3. Beyond(s.side, c, s.price)
      BY <1>2, <1>3, <1>4, <2>3, <3>1, <3>2, BeyondOrder
    <3>4. s \in then
      BY <1>1, <1>4, <1>6, <2>3, <2>4, <3>1, <3>2, <3>3
    <3> QED
      BY <1>4, <3>4
  <2> QED
    BY <1>8, <2>2, <2>4
<1>10. CASE j = i
  <2>1. Beyond(s.side, c, s.price)
    BY <1>5, <1>10 DEF c
  <2> DEFINE T == {t \in EligibleBefore(Swings(B), i) \ K : t.side = s.side}
  <2>2. T \subseteq Swings(B) /\ s \in T
    BY <1>4, <1>6 DEF EligibleBefore
  <2>3. PICK v : v \in Newest(T)
    <3> HIDE DEF T
    <3> QED
      BY <2>2, SomeNewest
  <2>4. v \in A
    BY <1>3, <1>4, <2>3 DEF A, ActiveAt, LatestOf
  <2>5. v \in T /\ s.pivot <= v.pivot
    BY <2>2, <2>3 DEF Newest
  <2>6. v \in Swings(B) /\ v.side = s.side /\ v.at < i /\ v \notin K
    BY <2>5 DEF EligibleBefore
  <2>7. ~Beyond(v.side, c, v.price)
    BY <1>1, <1>4, <1>6, <2>1, <2>4, <2>6
  <2>8. Beyond(s.side, v.price, s.price)
    BY <1>2, <1>3, <1>4, <2>1, <2>6, <2>7, BeyondOrder
  <2>9. v # s
    BY <2>1, <2>7
  <2>10. v.pivot # s.pivot
    BY <1>4, <2>6, <2>9, OneSwing
  <2>11. v.pivot > s.pivot
    BY <1>3, <1>4, <2>5, <2>6, <2>10
  <2>12. v \notin then
    BY <1>1, <2>6, <2>7
  <2>13. v \in Live(B, i, then)
    BY <1>3, <1>6, <2>6, <2>12 DEF Live
  <2> QED
    BY <2>6, <2>8, <2>11, <2>13 DEF Shields
<1> QED
  BY <1>9, <1>10

-----------------------------------------------------------------------------
(* The loop's invariant *)

\* The swings a break uses up.
Uses(e) == {e.swing} \cup e.cleared

\* What a break's record says of the candles.
EventSound(B, e) ==
  \A o \in e.opposite :
    /\ o.side # e.direction /\ o.at < e.at
    /\ Beyond(e.direction, Extreme(B[e.at], e.direction), o.price)

StructureInv(B, i, st) ==
  /\ st \in StructureStates(B)
  /\ Covered(B, i, st.consumed)
  /\ \A n \in 1 .. Len(st.breaks) :
       /\ st.breaks[n].at <= i
       /\ EventSound(B, st.breaks[n])
       /\ Uses(st.breaks[n]) \subseteq st.consumed
  /\ \A m, n \in 1 .. Len(st.breaks) :
       m # n => Uses(st.breaks[m]) \cap Uses(st.breaks[n]) = {}
  /\ st.breaks # <<>> => st.bias \in Directions

\* One candle's break: new, sound, of levels nobody used before.
LEMMA EventIsSound ==
  ASSUME NEW B \in Seq(Candle), NEW i \in 1 .. Len(B), NEW st \in StructureStates(B),
         Covered(B, i - 1, st.consumed),
         BrokenAt(Swings(B), B[i], i, st.consumed) # {}
  PROVE  LET e == EventAt(Swings(B), B[i], i, st) IN
         EventSound(B, e) /\ Uses(e) \cap st.consumed = {}
<1> DEFINE e == EventAt(Swings(B), B[i], i, st)
<1>1. /\ e.at = i /\ e.direction = e.swing.side
      /\ e.swing \in ActiveAt(Swings(B), i, st.consumed)
      /\ Beyond(e.swing.side, B[i].close, e.swing.price)
      /\ \A o \in e.opposite :
           o \in ActiveAt(Swings(B), i, st.consumed) /\ o.side # e.swing.side
      /\ \A u \in e.cleared : u \notin st.consumed
  <2>1. EventIs(B, i, st, e)
    BY EventFacts
  <2> HIDE DEF e
  <2>2. /\ e.at = i /\ e.direction = e.swing.side
        /\ e.swing \in ActiveAt(Swings(B), i, st.consumed)
        /\ Beyond(e.swing.side, B[i].close, e.swing.price)
    BY <2>1 DEF EventIs
  <2>4. \A o \in e.opposite :
          o \in ActiveAt(Swings(B), i, st.consumed) /\ o.side # e.swing.side
    BY <2>1 DEF EventIs
  <2>5. \A u \in e.cleared : u \notin st.consumed
    BY <2>1 DEF EventIs
  <2> QED
    BY <2>2, <2>4, <2>5
<1> HIDE DEF e
<1>2. e.swing \in Swings(B) /\ e.swing \notin st.consumed
  BY <1>1, ActiveFacts
<1>3. e.swing.side \in Directions /\ e.swing.price \in Int
  BY <1>2, SwingFacts
<1>4. ASSUME NEW o \in e.opposite
      PROVE  /\ o.side # e.direction /\ o.at < e.at
             /\ Beyond(e.direction, Extreme(B[e.at], e.direction), o.price)
  <2>1. o \in ActiveAt(Swings(B), i, st.consumed) /\ o.side # e.swing.side
    BY <1>1
  <2>2. o \in Swings(B) /\ o.at < i
    BY <2>1, ActiveFacts
  <2>3. o.price \in Int
    BY <2>2, SwingFacts
  <2>4. Beyond(e.swing.side, e.swing.price, o.price)
    BY <1>1, <2>1, OneSideOnly
  <2>5. Beyond(e.swing.side, Extreme(B[i], e.swing.side), e.swing.price)
    BY <1>1, <1>3, CandleFacts
  <2>6. Extreme(B[i], e.swing.side) \in Int
    BY CandleFacts
  <2>7. Beyond(e.swing.side, Extreme(B[i], e.swing.side), o.price)
    BY <1>3, <2>3, <2>4, <2>5, <2>6, BeyondOrder
  <2> QED
    BY <1>1, <2>1, <2>2, <2>7
<1>5. EventSound(B, e) /\ Uses(e) \cap st.consumed = {}
  BY <1>1, <1>2, <1>4 DEF EventSound, Uses
<1> QED
  BY <1>5 DEF e

\* Before the first candle nothing has happened.
LEMMA StructureStart ==
  ASSUME NEW B \in Seq(Candle)
  PROVE  StructureInv(B, 0, NoBreaks)
<1>1. NoBreaks \in StructureStates(B)
  <2>1. <<>> \in Seq(Events(B))
    OBVIOUS
  <2> QED
    BY <2>1 DEF NoBreaks, StructureStates, Biases
<1>2. Live(B, 0, {}) = {}
  BY SwingFacts DEF Live
<1>3. Covered(B, 0, {})
  BY <1>2 DEF Covered
<1>4. NoBreaks.breaks = <<>> /\ NoBreaks.consumed = {} /\ Len(<<>>) = 0
  BY DEF NoBreaks
<1> QED
  BY <1>1, <1>3, <1>4 DEF StructureInv

\* The invariant of analyse_structure holds from candle to candle.
LEMMA StructureStep ==
  ASSUME NEW B \in Seq(Candle), NEW i \in 1 .. Len(B), NEW st, StructureInv(B, i - 1, st)
  PROVE  StructureInv(B, i, AfterBar(Swings(B), B[i], i, st))
<1> DEFINE e     == EventAt(Swings(B), B[i], i, st)
           then  == AfterBar(Swings(B), B[i], i, st)
           prior == PriorBias(Swings(B), EligibleBefore(Swings(B), i), st)
<1>1. /\ st \in StructureStates(B) /\ Covered(B, i - 1, st.consumed)
      /\ st.breaks \in Seq(Events(B)) /\ st.consumed \subseteq Swings(B)
      /\ st = [breaks |-> st.breaks, bias |-> st.bias, consumed |-> st.consumed]
  BY DEF StructureInv, StructureStates
<1>2. Covered(B, i, then.consumed)
  BY <1>1, CoveredNext
<1>3. \A n \in 1 .. Len(st.breaks) :
        /\ st.breaks[n] \in Events(B) /\ st.breaks[n].at \in Int /\ st.breaks[n].at <= i
        /\ EventSound(B, st.breaks[n]) /\ Uses(st.breaks[n]) \subseteq st.consumed
  <2> SUFFICES ASSUME NEW n \in 1 .. Len(st.breaks)
               PROVE  /\ st.breaks[n] \in Events(B) /\ st.breaks[n].at \in Int
                      /\ st.breaks[n].at <= i
                      /\ EventSound(B, st.breaks[n])
                      /\ Uses(st.breaks[n]) \subseteq st.consumed
    OBVIOUS
  <2>1. st.breaks[n] \in Events(B)
    BY <1>1
  <2>2. st.breaks[n].at \in Int
    BY <2>1 DEF Events
  <2>3. /\ st.breaks[n].at <= i - 1 /\ EventSound(B, st.breaks[n])
        /\ Uses(st.breaks[n]) \subseteq st.consumed
    BY DEF StructureInv
  <2> QED
    BY <2>1, <2>2, <2>3
<1>4. /\ \A m, n \in 1 .. Len(st.breaks) :
           m # n => Uses(st.breaks[m]) \cap Uses(st.breaks[n]) = {}
      /\ st.breaks # <<>> => st.bias \in Directions
  BY DEF StructureInv
<1>5. CASE BrokenAt(Swings(B), B[i], i, st.consumed) = {}
  <2>1. then = [st EXCEPT !.bias = prior]
    BY <1>5, AfterBarIs
  <2>2. then = [breaks |-> st.breaks, bias |-> prior, consumed |-> st.consumed]
    BY <1>1, <2>1
  <2>3. prior \in Biases /\ (st.breaks # <<>> => prior = st.bias)
    BY <1>1, PriorType DEF PriorBias
  <2> HIDE DEF then, prior
  <2>4. then \in StructureStates(B)
    BY <1>1, <2>2, <2>3 DEF StructureStates
  <2>5. then.breaks = st.breaks /\ then.consumed = st.consumed /\ then.bias = prior
    BY <2>2
  <2> QED
    BY <1>2, <1>3, <1>4, <2>3, <2>4, <2>5 DEF StructureInv, then
<1>6. CASE BrokenAt(Swings(B), B[i], i, st.consumed) # {}
  <2>1. then = [breaks |-> Append(st.breaks, e), bias |-> e.direction,
                consumed |-> st.consumed \cup {e.swing} \cup e.cleared]
    BY <1>6, AfterBarIs
  <2>2. EventIs(B, i, st, e)
    BY <1>1, <1>6, EventFacts
  <2>3. EventSound(B, e) /\ Uses(e) \cap st.consumed = {}
    BY <1>1, <1>6, EventIsSound
  <2> HIDE DEF then, e
  <2>4. e \in Events(B) /\ e.at = i
    BY <2>2 DEF EventIs
  <2>5. e.direction \in Directions /\ e.swing \in Swings(B) /\ e.cleared \subseteq Swings(B)
    BY <2>4 DEF Events
  <2>6. Append(st.breaks, e) \in Seq(Events(B))
    BY <1>1, <2>4
  <2>7. then \in StructureStates(B)
    BY <1>1, <2>1, <2>5, <2>6 DEF StructureStates, Biases
  <2>8. /\ then.breaks = Append(st.breaks, e) /\ then.bias = e.direction
        /\ then.consumed = st.consumed \cup Uses(e)
    BY <2>1 DEF Uses
  <2>9. /\ Len(then.breaks) = Len(st.breaks) + 1
        /\ \A n \in 1 .. Len(st.breaks) : then.breaks[n] = st.breaks[n]
        /\ then.breaks[Len(st.breaks) + 1] = e
        /\ Len(st.breaks) \in Nat
    BY <1>1, <2>4, <2>8
  <2>10. \A n \in 1 .. Len(then.breaks) : n \in 1 .. Len(st.breaks) \/ n = Len(st.breaks) + 1
    BY <2>9
  <2>11. \A n \in 1 .. Len(then.breaks) :
           /\ then.breaks[n].at <= i /\ EventSound(B, then.breaks[n])
           /\ Uses(then.breaks[n]) \subseteq then.consumed
    <3> SUFFICES ASSUME NEW n \in 1 .. Len(then.breaks)
                 PROVE  /\ then.breaks[n].at <= i /\ EventSound(B, then.breaks[n])
                        /\ Uses(then.breaks[n]) \subseteq then.consumed
      OBVIOUS
    <3>1. CASE n \in 1 .. Len(st.breaks)
      BY <3>1, <1>3, <2>8, <2>9
    <3>2. CASE n = Len(st.breaks) + 1
      <4>1. then.breaks[n] = e
        BY <3>2, <2>9
      <4>2. i <= i
        OBVIOUS
      <4> QED
        BY <4>1, <4>2, <2>3, <2>4, <2>8
    <3> QED
      BY <2>10, <3>1, <3>2
  <2>12. \A m, n \in 1 .. Len(then.breaks) :
           m # n => Uses(then.breaks[m]) \cap Uses(then.breaks[n]) = {}
    <3> SUFFICES ASSUME NEW m \in 1 .. Len(then.breaks), NEW n \in 1 .. Len(then.breaks),
                        m # n
                 PROVE  Uses(then.breaks[m]) \cap Uses(then.breaks[n]) = {}
      OBVIOUS
    <3>1. \A k \in 1 .. Len(st.breaks) : Uses(then.breaks[k]) \cap Uses(e) = {}
      BY <1>3, <2>3, <2>9
    <3>2. CASE m \in 1 .. Len(st.breaks) /\ n \in 1 .. Len(st.breaks)
      BY <3>2, <1>4, <2>9
    <3>3. CASE m \in 1 .. Len(st.breaks) /\ n = Len(st.breaks) + 1
      BY <3>1, <3>3, <2>9
    <3>4. CASE n \in 1 .. Len(st.breaks) /\ m = Len(st.breaks) + 1
      BY <3>1, <3>4, <2>9
    <3> QED
      BY <2>10, <3>2, <3>3, <3>4
  <2>13. then.bias \in Directions
    BY <2>5, <2>8
  <2> QED
    BY <1>2, <2>7, <2>11, <2>12, <2>13 DEF StructureInv, then
<1> QED
  BY <1>5, <1>6

\* The loop keeps its invariant, candle after candle.
LEMMA StructureKept ==
  ASSUME NEW B \in Seq(Candle)
  PROVE  \A i \in 0 .. Len(B) : StructureInv(B, i, AfterCandle(B)[i])
<1> DEFINE K == {i \in 0 .. Len(B) : ~StructureInv(B, i, AfterCandle(B)[i])}
<1>1. SUFFICES ASSUME K # {} PROVE FALSE
  OBVIOUS
<1>2. PICK n \in K : \A m \in K : n <= m
  <2>1. K \subseteq 0 .. Len(B) /\ 0 \in Int /\ Len(B) \in Int
    OBVIOUS
  <2> HIDE DEF K
  <2> QED
    BY <1>1, <2>1, FirstOf
<1>3. n \in 0 .. Len(B) /\ ~StructureInv(B, n, AfterCandle(B)[n])
  OBVIOUS
<1>4. n # 0
  BY <1>3, StructureStart, StructureLoop
<1>5. n \in 1 .. Len(B) /\ n - 1 \in 0 .. Len(B) /\ ~(n <= n - 1)
  BY <1>3, <1>4
<1>6. StructureInv(B, n - 1, AfterCandle(B)[n - 1])
  <2>1. n - 1 \notin K
    <3> HIDE DEF K
    <3> QED
      BY <1>2, <1>5
  <2> QED
    BY <1>5, <2>1
<1> QED
  BY <1>3, <1>5, <1>6, StructureStep, StructureLoop

-----------------------------------------------------------------------------
(* Breaks and legs *)

\* The break of a candle, if it is one.
Breaks(B, i) == BrokenAt(Swings(B), B[i], i, AfterCandle(B)[i - 1].consumed) # {}
BreakAt(B, i) == EventAt(Swings(B), B[i], i, AfterCandle(B)[i - 1])

\* A candle with a break and a candle without.
LEMMA BreakFacts ==
  ASSUME NEW B \in Seq(Candle), NEW i \in 1 .. Len(B)
  PROVE  /\ AfterCandle(B)[i - 1] \in StructureStates(B)
         /\ StructureInv(B, i - 1, AfterCandle(B)[i - 1])
         /\ Breaks(B, i) => EventIs(B, i, AfterCandle(B)[i - 1], BreakAt(B, i))
         /\ Breaks(B, i) =>
              AfterCandle(B)[i] =
                [breaks |-> Append(AfterCandle(B)[i - 1].breaks, BreakAt(B, i)),
                 bias |-> BreakAt(B, i).direction,
                 consumed |-> AfterCandle(B)[i - 1].consumed
                                \cup {BreakAt(B, i).swing} \cup BreakAt(B, i).cleared]
         /\ ~Breaks(B, i) =>
              AfterCandle(B)[i] =
                [AfterCandle(B)[i - 1] EXCEPT !.bias =
                   PriorBias(Swings(B), EligibleBefore(Swings(B), i), AfterCandle(B)[i - 1])]
<1>1. i - 1 \in 0 .. Len(B)
  OBVIOUS
<1>2. StructureInv(B, i - 1, AfterCandle(B)[i - 1])
  BY <1>1, StructureKept
<1>3. AfterCandle(B)[i - 1] \in StructureStates(B)
  BY <1>2 DEF StructureInv
<1>4. AfterCandle(B)[i] = AfterBar(Swings(B), B[i], i, AfterCandle(B)[i - 1])
  BY StructureLoop
<1>5. Breaks(B, i) => EventIs(B, i, AfterCandle(B)[i - 1], BreakAt(B, i))
  BY <1>3, EventFacts DEF Breaks, BreakAt
<1>6. Breaks(B, i) =>
        AfterCandle(B)[i] =
          [breaks |-> Append(AfterCandle(B)[i - 1].breaks, BreakAt(B, i)),
           bias |-> BreakAt(B, i).direction,
           consumed |-> AfterCandle(B)[i - 1].consumed
                          \cup {BreakAt(B, i).swing} \cup BreakAt(B, i).cleared]
  BY <1>4, AfterBarIs DEF Breaks, BreakAt
<1>7. ~Breaks(B, i) =>
        AfterCandle(B)[i] =
          [AfterCandle(B)[i - 1] EXCEPT !.bias =
             PriorBias(Swings(B), EligibleBefore(Swings(B), i), AfterCandle(B)[i - 1])]
  BY <1>4, AfterBarIs DEF Breaks, BreakAt
<1> QED
  BY <1>2, <1>3, <1>5, <1>6, <1>7

\* The events recorded when candle k has closed are the breaks up to then.
LEMMA EventsAre ==
  ASSUME NEW B \in Seq(Candle)
  PROVE  \A k \in 0 .. Len(B) :
           EventsOf(AfterCandle(B)[k]) = {BreakAt(B, i) : i \in {i \in 1 .. k : Breaks(B, i)}}
<1> DEFINE Say(k) == {BreakAt(B, i) : i \in {i \in 1 .. k : Breaks(B, i)}}
           K == {k \in 0 .. Len(B) : EventsOf(AfterCandle(B)[k]) # Say(k)}
<1>1. SUFFICES ASSUME K # {} PROVE FALSE
  OBVIOUS
<1>2. PICK n \in K : \A m \in K : n <= m
  <2>1. K \subseteq 0 .. Len(B) /\ 0 \in Int /\ Len(B) \in Int
    OBVIOUS
  <2> HIDE DEF K
  <2> QED
    BY <1>1, <2>1, FirstOf
<1>3. n \in 0 .. Len(B) /\ EventsOf(AfterCandle(B)[n]) # Say(n)
  OBVIOUS
<1>4. n # 0
  <2>1. EventsOf(NoBreaks) = {}
    BY DEF EventsOf, NoBreaks
  <2>2. Say(0) = {}
    OBVIOUS
  <2> HIDE DEF Say
  <2> QED
    BY <1>3, <2>1, <2>2, StructureLoop
<1>5. n \in 1 .. Len(B) /\ n - 1 \in 0 .. Len(B) /\ ~(n <= n - 1)
  BY <1>3, <1>4
<1>6. EventsOf(AfterCandle(B)[n - 1]) = Say(n - 1)
  <2>1. n - 1 \notin K
    <3> HIDE DEF K
    <3> QED
      BY <1>2, <1>5
  <2> QED
    BY <1>5, <2>1
<1> DEFINE st == AfterCandle(B)[n - 1]
<1>7. st.breaks \in Seq(Events(B))
  BY <1>5, BreakFacts DEF StructureStates
<1>8. CASE Breaks(B, n)
  <2>1. AfterCandle(B)[n].breaks = Append(st.breaks, BreakAt(B, n))
    <3>1. AfterCandle(B)[n] =
            [breaks |-> Append(st.breaks, BreakAt(B, n)), bias |-> BreakAt(B, n).direction,
             consumed |-> st.consumed \cup {BreakAt(B, n).swing} \cup BreakAt(B, n).cleared]
      BY <1>5, <1>8, BreakFacts
    <3> HIDE DEF st
    <3> QED
      BY <3>1
  <2>2. EventsOf(AfterCandle(B)[n]) = EventsOf(st) \cup {BreakAt(B, n)}
    <3> DEFINE L == Len(st.breaks)
               then == Append(st.breaks, BreakAt(B, n))
    <3>1. L \in Nat /\ Len(then) = L + 1 /\ then[L + 1] = BreakAt(B, n)
          /\ \A m \in 1 .. L : then[m] = st.breaks[m]
      <4>1. BreakAt(B, n) \in Events(B)
        BY <1>5, <1>8, BreakFacts DEF EventIs
      <4> HIDE DEF st
      <4> QED
        BY <1>7, <4>1
    <3> HIDE DEF L, then, st
    <3>2. {then[m] : m \in 1 .. L + 1} = {then[m] : m \in 1 .. L} \cup {then[L + 1]}
      BY <3>1
    <3>3. {then[m] : m \in 1 .. L} = {st.breaks[m] : m \in 1 .. L}
      BY <3>1
    <3> QED
      BY <2>1, <3>1, <3>2, <3>3 DEF EventsOf, L, then
  <2>3. Say(n) = Say(n - 1) \cup {BreakAt(B, n)}
    <3>1. {i \in 1 .. n : Breaks(B, i)} = {i \in 1 .. n - 1 : Breaks(B, i)} \cup {n}
      BY <1>5, <1>8
    <3> QED
      BY <3>1
  <2> HIDE DEF Say
  <2> QED
    BY <1>3, <1>6, <2>2, <2>3
<1>9. CASE ~Breaks(B, n)
  <2>1. AfterCandle(B)[n].breaks = st.breaks
    <3>1. AfterCandle(B)[n] =
            [st EXCEPT !.bias =
               PriorBias(Swings(B), EligibleBefore(Swings(B), n), st)]
      BY <1>5, <1>9, BreakFacts
    <3>2. st \in StructureStates(B)
      BY <1>5, BreakFacts
    <3> HIDE DEF st
    <3> QED
      BY <3>1, <3>2 DEF StructureStates
  <2>2. EventsOf(AfterCandle(B)[n]) = EventsOf(st)
    BY <2>1 DEF EventsOf
  <2>3. Say(n) = Say(n - 1)
    <3>1. {i \in 1 .. n : Breaks(B, i)} = {i \in 1 .. n - 1 : Breaks(B, i)}
      BY <1>5, <1>9
    <3> QED
      BY <3>1
  <2> HIDE DEF Say
  <2> QED
    BY <1>3, <1>6, <2>2, <2>3
<1> QED
  BY <1>8, <1>9

\* The events of a structure are the breaks of its candles.
LEMMA StructureEvents ==
  ASSUME NEW B \in Seq(Candle)
  PROVE  /\ EventsOf(Structure(B)) =
              {BreakAt(B, i) : i \in {i \in 1 .. Len(B) : Breaks(B, i)}}
         /\ \A e \in EventsOf(Structure(B)) :
              /\ e \in Events(B) /\ e.at \in 1 .. Len(B) /\ EventSound(B, e)
              /\ Breaks(B, e.at) /\ e = BreakAt(B, e.at)
         /\ \A i \in 1 .. Len(B) : Breaks(B, i) =>
              BreakAt(B, i) \in EventsOf(Structure(B)) /\ BreakAt(B, i).at = i
<1>1. Len(B) \in 0 .. Len(B)
  OBVIOUS
<1>2. Structure(B).breaks = AfterCandle(B)[Len(B)].breaks
  BY StructureIs
<1>3. EventsOf(Structure(B)) = EventsOf(AfterCandle(B)[Len(B)])
  BY <1>2 DEF EventsOf
<1>4. EventsOf(Structure(B)) = {BreakAt(B, i) : i \in {i \in 1 .. Len(B) : Breaks(B, i)}}
  BY <1>1, <1>3, EventsAre
<1>5. \A i \in 1 .. Len(B) : Breaks(B, i) =>
        BreakAt(B, i).at = i /\ BreakAt(B, i) \in Events(B)
  BY BreakFacts DEF EventIs
<1>6. \A e \in EventsOf(Structure(B)) : EventSound(B, e)
  <2>1. StructureInv(B, Len(B), AfterCandle(B)[Len(B)])
    BY <1>1, StructureKept
  <2> QED
    BY <1>3, <2>1 DEF StructureInv, EventsOf
<1>7. \A e \in EventsOf(Structure(B)) :
        /\ e \in Events(B) /\ e.at \in 1 .. Len(B)
        /\ Breaks(B, e.at) /\ e = BreakAt(B, e.at)
  BY <1>4, <1>5
<1> QED
  BY <1>4, <1>5, <1>6, <1>7

\* A leg runs from a swing known before it to a close beyond that.
LEMMA LegFacts ==
  ASSUME NEW B \in Seq(Candle), NEW leg \in Legs(B, Structure(B))
  PROVE  /\ leg.event \in EventsOf(Structure(B)) /\ leg.origin \in leg.event.opposite
         /\ leg = Leg(B, leg.event, leg.origin)
         /\ leg.direction = leg.event.direction /\ leg.direction \in Directions
         /\ leg.origin \in Swings(B) /\ leg.origin.side # leg.direction
         /\ leg.formed = leg.event.at /\ leg.formed \in 1 .. Len(B)
         /\ leg.origin.at < leg.formed /\ leg.origin.price \in Int
         /\ leg.terminal \in Int
         /\ Beyond(leg.direction, leg.terminal, leg.origin.price)
<1>0. PICK e \in EventsOf(Structure(B)) : \E o \in e.opposite : leg = Leg(B, e, o)
  BY DEF Legs
<1>1. PICK o \in e.opposite : leg = Leg(B, e, o)
  BY <1>0
<1>2. /\ e \in Events(B) /\ e.at \in 1 .. Len(B) /\ EventSound(B, e)
  BY StructureEvents
<1>3. o \in Swings(B) /\ e.direction \in Directions
  BY <1>2 DEF Events
<1>4. o.side # e.direction /\ o.at < e.at
      /\ Beyond(e.direction, Extreme(B[e.at], e.direction), o.price)
  BY <1>2 DEF EventSound
<1>5. o.price \in Int /\ Extreme(B[e.at], e.direction) \in Int
  BY <1>2, <1>3, SwingFacts, CandleFacts
<1>6. /\ leg.event = e /\ leg.direction = e.direction /\ leg.origin = o
      /\ leg.formed = e.at /\ leg.terminal = Extreme(B[e.at], e.direction)
  BY <1>1 DEF Leg
<1> QED
  BY <1>1, <1>2, <1>3, <1>4, <1>5, <1>6

-----------------------------------------------------------------------------
(* The loop of analyse_dealing_ranges *)

RangeTurns(B, events, legs, after, k) ==
  after = [i \in 0 .. k |-> IF i = 0 THEN {} ELSE RangesAfter(after[i - 1], B[i], i, events, legs)]

\* The loop of the ranges can be run for any number of candles.
LEMMA RangeTurnsExist ==
  ASSUME NEW B, NEW events, NEW legs, NEW k \in Nat
  PROVE  \E after : RangeTurns(B, events, legs, after, k)
<1> DEFINE K == {n \in 0 .. k : ~\E after : RangeTurns(B, events, legs, after, n)}
<1>1. SUFFICES ASSUME K # {} PROVE FALSE
  <2>1. k \in 0 .. k
    OBVIOUS
  <2> QED
    BY <2>1
<1>2. PICK n \in K : \A m \in K : n <= m
  <2>1. K \subseteq 0 .. k /\ 0 \in Int /\ k \in Int
    OBVIOUS
  <2> HIDE DEF K
  <2> QED
    BY <1>1, <2>1, FirstOf
<1>3. n \in 0 .. k /\ ~\E after : RangeTurns(B, events, legs, after, n)
  OBVIOUS
<1>4. n # 0
  <2>1. RangeTurns(B, events, legs, [m \in 0 .. 0 |-> {}], 0)
    BY DEF RangeTurns
  <2> QED
    BY <2>1, <1>3
<1>5. PICK before : RangeTurns(B, events, legs, before, n - 1)
  <2>1. n - 1 \in 0 .. k /\ ~(n <= n - 1)
    BY <1>3, <1>4
  <2>2. n - 1 \notin K
    <3> HIDE DEF K
    <3> QED
      BY <1>2, <2>1
  <2> QED
    BY <2>1, <2>2
<1> DEFINE after == [m \in 0 .. n |->
             IF m = n THEN RangesAfter(before[n - 1], B[n], n, events, legs) ELSE before[m]]
<1>6. ASSUME NEW m \in 0 .. n
      PROVE  after[m] = IF m = 0 THEN {} ELSE RangesAfter(after[m - 1], B[m], m, events, legs)
  <2>1. CASE m = n
    <3>1. n - 1 \in 0 .. n /\ n - 1 # n /\ n \in 0 .. n
      BY <1>3, <1>4
    <3>2. after[n - 1] = before[n - 1]
      BY <3>1
    <3> QED
      BY <2>1, <3>1, <3>2, <1>4
  <2>2. CASE m # n
    <3>1. m \in 0 .. n - 1 /\ (m # 0 => m - 1 \in 0 .. n /\ m - 1 # n)
      BY <2>2, <1>3, <1>4
    <3>2. before[m] = IF m = 0 THEN {} ELSE RangesAfter(before[m - 1], B[m], m, events, legs)
      BY <1>5, <3>1 DEF RangeTurns
    <3>3. m # 0 => after[m - 1] = before[m - 1]
      BY <3>1
    <3>4. after[m] = before[m]
      BY <2>2
    <3> HIDE DEF after
    <3> QED
      BY <3>2, <3>3, <3>4
  <2> QED
    BY <2>1, <2>2
<1>7. RangeTurns(B, events, legs, after, n)
  <2>1. after = [m \in 0 .. n |-> after[m]]
    OBVIOUS
  <2> HIDE DEF after
  <2> QED
    BY <1>6, <2>1 DEF RangeTurns
<1> QED
  BY <1>3, <1>7

RangesAt(B, events, legs) == CHOOSE after : RangeTurns(B, events, legs, after, Len(B))

\* RangesAt is the set of ranges after each candle.
LEMMA RangeLoop ==
  ASSUME NEW B \in Seq(Candle), NEW events, NEW legs
  PROVE  /\ RangesAt(B, events, legs)[0] = {}
         /\ \A i \in 1 .. Len(B) : RangesAt(B, events, legs)[i] =
              RangesAfter(RangesAt(B, events, legs)[i - 1], B[i], i, events, legs)
<1> DEFINE after == RangesAt(B, events, legs)
<1>1. Len(B) \in Nat
  OBVIOUS
<1>2. RangeTurns(B, events, legs, after, Len(B))
  BY <1>1, RangeTurnsExist DEF RangesAt
<1> HIDE DEF after
<1>3. \A i \in 0 .. Len(B) : after[i] =
        IF i = 0 THEN {} ELSE RangesAfter(after[i - 1], B[i], i, events, legs)
  BY <1>2 DEF RangeTurns
<1>4. /\ after[0] = {}
      /\ \A i \in 1 .. Len(B) :
           after[i] = RangesAfter(after[i - 1], B[i], i, events, legs)
  BY <1>1, <1>3
<1> QED
  BY <1>4 DEF after

\* The dealing ranges are those after the last candle.
LEMMA RangesAre ==
  ASSUME NEW B, NEW st, NEW legs
  PROVE  DealingRanges(B, st, legs) = RangesAt(B, EventsOf(st), legs)[Len(B)]
BY DEF DealingRanges, RangesAt, RangeTurns

LegsOf(B) == Legs(B, Structure(B))
\* A break in the running direction, or the first, that protects nothing.
Unanchored(e) == e.class # "MSS" /\ e.opposite = {}
\* A range had begun before an event and was not over.
Running(r, e) == r.leg.formed < e.at /\ (r.status = "ACTIVE" \/ r.ended > e.at)

RangeInv(B, i, r) ==
  /\ r.leg \in LegsOf(B) /\ r.leg.formed <= i
  /\ r = [leg |-> r.leg, terminal |-> r.terminal, reached |-> r.reached,
          status |-> r.status, ended |-> r.ended]
  /\ r.terminal \in Int /\ Beyond(r.leg.direction, r.terminal, r.leg.origin.price)
  /\ r.ended \in Int /\ r.ended <= i
  /\ r.status = "ACTIVE" =>
       /\ r.leg.direction = AfterCandle(B)[i].bias
       /\ r.leg.origin \notin AfterCandle(B)[i].consumed
  /\ \A e \in EventsOf(Structure(B)) : Unanchored(e) /\ e.at <= i => ~Running(r, e)

\* While a range is active the bias is its direction and its origin is live: the
\* candle's break, if any, ends it or has a swing to protect.
LEMMA ActiveRangeTurn ==
  ASSUME NEW B \in Seq(Candle), NEW i \in 1 .. Len(B),
         NEW r, RangeInv(B, i - 1, r), r.status = "ACTIVE"
  PROVE  /\ ~Breaks(B, i) => /\ AfterCandle(B)[i].bias = r.leg.direction
                             /\ r.leg.origin \notin AfterCandle(B)[i].consumed
         /\ Breaks(B, i) => BreakAt(B, i).class = "MSS" \/ BreakAt(B, i).opposite # {}
<1> DEFINE st    == AfterCandle(B)[i - 1]
           prior == PriorBias(Swings(B), EligibleBefore(Swings(B), i), st)
           o     == r.leg.origin
           d     == r.leg.direction
<1>1. /\ r.leg \in LegsOf(B) /\ r.leg.formed <= i - 1 /\ d = st.bias /\ o \notin st.consumed
  BY DEF RangeInv
<1>2. /\ d \in Directions /\ o \in Swings(B) /\ o.side # d /\ o.at < r.leg.formed
      /\ r.leg.formed \in 1 .. Len(B)
      /\ r.leg.event \in EventsOf(Structure(B)) /\ r.leg.event.at = r.leg.formed
  BY <1>1, LegFacts DEF LegsOf
<1>3. st.breaks # <<>>
  <2>1. r.leg.event = BreakAt(B, r.leg.formed) /\ Breaks(B, r.leg.formed)
    BY <1>2, StructureEvents
  <2>2. r.leg.formed \in 1 .. i - 1 /\ i - 1 \in 0 .. Len(B)
    BY <1>1, <1>2
  <2>3. BreakAt(B, r.leg.formed) \in EventsOf(st)
    BY <2>1, <2>2, EventsAre
  <2>4. EventsOf(st) # {}
    BY <2>3
  <2> HIDE DEF st
  <2> QED
    BY <2>4 DEF EventsOf
<1>4. prior = d
  BY <1>1, <1>3 DEF PriorBias
<1>5. ASSUME ~Breaks(B, i)
      PROVE  AfterCandle(B)[i].bias = d /\ o \notin AfterCandle(B)[i].consumed
  <2>1. AfterCandle(B)[i] = [st EXCEPT !.bias = prior] /\ st \in StructureStates(B)
    BY <1>5, BreakFacts
  <2> HIDE DEF st, prior
  <2>2. AfterCandle(B)[i].bias = prior /\ AfterCandle(B)[i].consumed = st.consumed
    BY <2>1 DEF StructureStates
  <2> QED
    BY <1>1, <1>4, <2>2
<1>6. ASSUME Breaks(B, i), BreakAt(B, i).class # "MSS", BreakAt(B, i).opposite = {}
      PROVE  FALSE
  <2> DEFINE e == BreakAt(B, i)
             S == Swings(B)
  <2>1. EventIs(B, i, st, e)
    BY <1>6, BreakFacts
  <2> HIDE DEF e, st
  <2>2. e.prior = d /\ e.class = Classification(e.prior, e.direction)
        /\ e.direction = e.swing.side
    BY <1>4, <2>1 DEF EventIs, st
  <2>3. e.direction = d
    BY <1>2, <1>6, <2>2 DEF Classification, Directions, e
  <2> DEFINE T == {t \in EligibleBefore(S, i) \ st.consumed : t.side = o.side}
  <2>4. o.at \in Int /\ o.at < i
    BY <1>1, <1>2, SwingFacts
  <2>5. o \in T /\ T \subseteq S
    BY <1>1, <1>2, <2>4 DEF EligibleBefore
  <2>6. PICK v : v \in Newest(T)
    <3> HIDE DEF T
    <3> QED
      BY <2>5, SomeNewest
  <2>7. v.side = o.side
    BY <2>6 DEF Newest
  <2>8. o.side \in Directions
    BY <1>2, SwingFacts
  <2>9. v \in ActiveAt(S, i, st.consumed)
    BY <2>6, <2>8 DEF ActiveAt, LatestOf
  <2>10. v \in e.opposite
    BY <1>2, <2>1, <2>2, <2>3, <2>7, <2>9 DEF EventIs
  <2> QED
    BY <1>6, <2>10 DEF e
<1> QED
  BY <1>5, <1>6

\* Extending a range moves its terminal only, and only outwards.
LEMMA ExtendedFacts ==
  ASSUME NEW B \in Seq(Candle), NEW i \in 1 .. Len(B), NEW r, RangeInv(B, i - 1, r)
  PROVE  LET g == Extended(r, B[i], i) IN
         /\ g = [leg |-> r.leg, terminal |-> g.terminal, reached |-> g.reached,
                 status |-> r.status, ended |-> r.ended]
         /\ g.terminal \in Int /\ Beyond(r.leg.direction, g.terminal, r.leg.origin.price)
<1> DEFINE d == r.leg.direction
           x == Extreme(B[i], d)
           far == i > r.leg.formed /\ Beyond(d, x, r.terminal)
           g == Extended(r, B[i], i)
<1>1. /\ r.leg \in LegsOf(B)
      /\ r = [leg |-> r.leg, terminal |-> r.terminal, reached |-> r.reached,
              status |-> r.status, ended |-> r.ended]
      /\ r.terminal \in Int /\ Beyond(d, r.terminal, r.leg.origin.price)
  BY DEF RangeInv
<1>2. d \in Directions /\ r.leg.origin.price \in Int /\ x \in Int
  BY <1>1, LegFacts, CandleFacts DEF LegsOf
<1>3. g = IF far THEN [r EXCEPT !.terminal = x, !.reached = i] ELSE r
  BY DEF Extended
<1>4. CASE far
  <2>1. g = [leg |-> r.leg, terminal |-> x, reached |-> i,
             status |-> r.status, ended |-> r.ended]
    <3>1. g = [r EXCEPT !.terminal = x, !.reached = i]
      BY <1>3, <1>4
    <3> HIDE DEF g, x
    <3> QED
      BY <1>1, <3>1
  <2>2. Beyond(d, x, r.leg.origin.price)
    BY <1>1, <1>2, <1>4, BeyondOrder
  <2> HIDE DEF g, x, d
  <2>3. g = [leg |-> r.leg, terminal |-> g.terminal, reached |-> g.reached,
             status |-> r.status, ended |-> r.ended] /\ g.terminal = x
    BY <2>1
  <2> QED
    BY <1>2, <2>2, <2>3 DEF g, d
<1>5. CASE ~far
  <2>1. g = r
    BY <1>3, <1>5
  <2> HIDE DEF g, x
  <2> QED
    BY <1>1, <2>1 DEF g
<1> QED
  BY <1>4, <1>5

\* A range that is over stays as it is.
LEMMA OverStays ==
  ASSUME NEW B \in Seq(Candle), NEW i \in 1 .. Len(B),
         NEW r, RangeInv(B, i - 1, r), r.status # "ACTIVE"
  PROVE  RangeInv(B, i, r)
<1>1. /\ r.leg \in LegsOf(B) /\ r.leg.formed <= i - 1 /\ r.ended \in Int /\ r.ended <= i - 1
      /\ r = [leg |-> r.leg, terminal |-> r.terminal, reached |-> r.reached,
              status |-> r.status, ended |-> r.ended]
      /\ r.terminal \in Int /\ Beyond(r.leg.direction, r.terminal, r.leg.origin.price)
      /\ \A e \in EventsOf(Structure(B)) : Unanchored(e) /\ e.at <= i - 1 => ~Running(r, e)
  BY DEF RangeInv
<1>2. r.leg.formed \in Int
  BY <1>1, LegFacts DEF LegsOf
<1>3. r.leg.formed <= i /\ r.ended <= i
  BY <1>1, <1>2
<1>4. \A e \in EventsOf(Structure(B)) : Unanchored(e) /\ e.at <= i => ~Running(r, e)
  <2> SUFFICES ASSUME NEW e \in EventsOf(Structure(B)), Unanchored(e), e.at <= i
               PROVE  ~Running(r, e)
    OBVIOUS
  <2>1. e.at \in Int
    BY StructureEvents
  <2>2. CASE e.at <= i - 1
    BY <1>1, <2>2
  <2>3. CASE e.at = i
    BY <1>1, <2>3 DEF Running
  <2> QED
    BY <2>1, <2>2, <2>3
<1> QED
  BY <1>1, <1>3, <1>4 DEF RangeInv

\* An active one grows on while the candle breaks nothing.
LEMMA ActiveGrows ==
  ASSUME NEW B \in Seq(Candle), NEW i \in 1 .. Len(B),
         NEW r, RangeInv(B, i - 1, r), r.status = "ACTIVE", ~Breaks(B, i)
  PROVE  RangeInv(B, i, Extended(r, B[i], i))
<1> DEFINE g == Extended(r, B[i], i)
<1>1. /\ r.leg \in LegsOf(B) /\ r.leg.formed <= i - 1 /\ r.ended \in Int /\ r.ended <= i - 1
      /\ \A e \in EventsOf(Structure(B)) : Unanchored(e) /\ e.at <= i - 1 => ~Running(r, e)
  BY DEF RangeInv
<1>2. /\ g = [leg |-> r.leg, terminal |-> g.terminal, reached |-> g.reached,
              status |-> r.status, ended |-> r.ended]
      /\ g.terminal \in Int /\ Beyond(r.leg.direction, g.terminal, r.leg.origin.price)
  BY ExtendedFacts
<1>3. /\ AfterCandle(B)[i].bias = r.leg.direction
      /\ r.leg.origin \notin AfterCandle(B)[i].consumed
  BY ActiveRangeTurn
<1> HIDE DEF g
<1>4. g.leg = r.leg /\ g.status = r.status /\ g.ended = r.ended
  BY <1>2
<1>5. r.leg.formed \in Int
  BY <1>1, LegFacts DEF LegsOf
<1>6. r.leg.formed <= i /\ r.ended <= i
  BY <1>1, <1>5
<1>7. \A e \in EventsOf(Structure(B)) : Unanchored(e) /\ e.at <= i => ~Running(g, e)
  <2> SUFFICES ASSUME NEW e \in EventsOf(Structure(B)), Unanchored(e), e.at <= i
               PROVE  ~Running(g, e)
    OBVIOUS
  <2>1. e.at \in Int /\ Breaks(B, e.at)
    BY StructureEvents
  <2>2. e.at <= i - 1
    BY <2>1
  <2>3. ~Running(r, e)
    BY <1>1, <2>2
  <2> QED
    BY <1>4, <2>3 DEF Running
<1> QED
  BY <1>1, <1>2, <1>3, <1>4, <1>6, <1>7 DEF RangeInv, g

\* One the candle's break ends had met none that protects nothing.
LEMMA ActiveEnds ==
  ASSUME NEW B \in Seq(Candle), NEW i \in 1 .. Len(B),
         NEW r, RangeInv(B, i - 1, r), r.status = "ACTIVE"
  PROVE  RangeInv(B, i, Superseded(Extended(r, B[i], i), i))
<1> DEFINE g == Extended(r, B[i], i)
           h == Superseded(g, i)
<1>1. /\ r.leg \in LegsOf(B) /\ r.leg.formed <= i - 1
      /\ \A e \in EventsOf(Structure(B)) : Unanchored(e) /\ e.at <= i - 1 => ~Running(r, e)
  BY DEF RangeInv
<1>2. /\ g = [leg |-> r.leg, terminal |-> g.terminal, reached |-> g.reached,
              status |-> r.status, ended |-> r.ended]
      /\ g.terminal \in Int /\ Beyond(r.leg.direction, g.terminal, r.leg.origin.price)
  BY ExtendedFacts
<1> HIDE DEF g
<1>3. h = [leg |-> r.leg, terminal |-> g.terminal, reached |-> g.reached,
           status |-> "SUPERSEDED", ended |-> i]
  <2>1. h = [g EXCEPT !.status = "SUPERSEDED", !.ended = i]
    BY DEF Superseded
  <2>2. PICK t, c : g = [leg |-> r.leg, terminal |-> t, reached |-> c,
                         status |-> r.status, ended |-> r.ended]
    BY <1>2
  <2> HIDE DEF h
  <2>3. h = [leg |-> r.leg, terminal |-> t, reached |-> c,
             status |-> "SUPERSEDED", ended |-> i]
    BY <2>1, <2>2
  <2>4. g.terminal = t /\ g.reached = c
    BY <2>2
  <2> QED
    BY <2>3, <2>4
<1> HIDE DEF h
<1>4. h = [leg |-> h.leg, terminal |-> h.terminal, reached |-> h.reached,
           status |-> h.status, ended |-> h.ended]
      /\ h.leg = r.leg /\ h.status = "SUPERSEDED" /\ h.ended = i /\ h.terminal = g.terminal
  BY <1>3
<1>5. r.leg.formed \in Int
  BY <1>1, LegFacts DEF LegsOf
<1>6. r.leg.formed <= i /\ i <= i
  BY <1>1, <1>5
<1>7. \A e \in EventsOf(Structure(B)) : Unanchored(e) /\ e.at <= i => ~Running(h, e)
  <2> SUFFICES ASSUME NEW e \in EventsOf(Structure(B)), Unanchored(e), e.at <= i,
                      Running(h, e)
               PROVE  FALSE
    OBVIOUS
  <2>1. e.at \in Int
    BY StructureEvents
  <2>2. h.leg.formed < e.at /\ h.ended > e.at
    BY <1>4 DEF Running
  <2>3. e.at <= i - 1
    BY <1>4, <2>1, <2>2
  <2>4. ~Running(r, e)
    BY <1>1, <2>3
  <2> QED
    BY <1>4, <2>2, <2>4 DEF Running
<1>8. i \in Int
  OBVIOUS
<1>9. RangeInv(B, i, h)
  BY <1>1, <1>2, <1>4, <1>6, <1>7, <1>8 DEF RangeInv
<1> QED
  BY <1>9 DEF h, g

\* The range of the candle's own leg.
LEMMA NewRange ==
  ASSUME NEW B \in Seq(Candle), NEW i \in 1 .. Len(B),
         NEW leg \in LegsOf(B), leg.formed = i
  PROVE  RangeInv(B, i, OpenRange(leg)) /\ Breaks(B, i)
<1> DEFINE g == OpenRange(leg)
<1>1. /\ leg.event \in EventsOf(Structure(B)) /\ leg.origin \in leg.event.opposite
      /\ leg.direction = leg.event.direction
      /\ leg.formed = leg.event.at /\ leg.terminal \in Int
      /\ Beyond(leg.direction, leg.terminal, leg.origin.price)
  BY LegFacts DEF LegsOf
<1>2. Breaks(B, i) /\ leg.event = BreakAt(B, i)
  BY <1>1, StructureEvents
<1> DEFINE st == AfterCandle(B)[i - 1]
           e  == BreakAt(B, i)
<1>3. EventIs(B, i, st, e)
  BY <1>2, BreakFacts
<1>4. AfterCandle(B)[i] = [breaks |-> Append(st.breaks, e), bias |-> e.direction,
                           consumed |-> st.consumed \cup {e.swing} \cup e.cleared]
  BY <1>2, BreakFacts
<1> HIDE DEF st, e
<1>5. /\ AfterCandle(B)[i].bias = e.direction
      /\ AfterCandle(B)[i].consumed = st.consumed \cup {e.swing} \cup e.cleared
  BY <1>4
<1>6. leg.origin \in ActiveAt(Swings(B), i, st.consumed) /\ leg.origin.side # e.swing.side
  BY <1>1, <1>2, <1>3 DEF EventIs, e
<1>7. \A u \in e.cleared : u.side = e.swing.side
  BY <1>3 DEF EventIs
<1>8. leg.origin \notin st.consumed
  BY <1>6, ActiveFacts
<1>9. leg.origin \notin AfterCandle(B)[i].consumed
  BY <1>5, <1>6, <1>7, <1>8
<1>10. AfterCandle(B)[i].bias = leg.direction
  BY <1>1, <1>2, <1>5 DEF e
<1>11. g = [leg |-> leg, terminal |-> leg.terminal, reached |-> leg.formed,
            status |-> "ACTIVE", ended |-> 0]
  BY DEF OpenRange
<1> HIDE DEF g
<1>12. /\ g = [leg |-> g.leg, terminal |-> g.terminal, reached |-> g.reached,
               status |-> g.status, ended |-> g.ended]
       /\ g.leg = leg /\ g.terminal = leg.terminal /\ g.status = "ACTIVE" /\ g.ended = 0
  BY <1>11
<1>13. 0 \in Int /\ 0 <= i /\ i <= i
  OBVIOUS
<1>14. \A x \in EventsOf(Structure(B)) : Unanchored(x) /\ x.at <= i => ~Running(g, x)
  <2> SUFFICES ASSUME NEW x \in EventsOf(Structure(B)), x.at <= i, Running(g, x)
               PROVE  FALSE
    OBVIOUS
  <2>1. x.at \in Int /\ i < x.at
    BY <1>12, StructureEvents DEF Running
  <2> QED
    BY <2>1
<1>15. RangeInv(B, i, g)
  BY <1>1, <1>9, <1>10, <1>12, <1>13, <1>14 DEF RangeInv
<1> QED
  BY <1>2, <1>15 DEF g

RangesOf(B) == RangesAt(B, EventsOf(Structure(B)), LegsOf(B))

\* The invariant of a range holds from candle to candle.
LEMMA RangesStep ==
  ASSUME NEW B \in Seq(Candle), NEW i \in 1 .. Len(B),
         NEW ranges, \A r \in ranges : RangeInv(B, i - 1, r),
         NEW r \in RangesAfter(ranges, B[i], i, EventsOf(Structure(B)), LegsOf(B))
  PROVE  RangeInv(B, i, r)
<1> DEFINE events == EventsOf(Structure(B))
           grown == {IF q.status = "ACTIVE" THEN Extended(q, B[i], i) ELSE q : q \in ranges}
           ended == {IF q.status = "ACTIVE" THEN Superseded(q, i) ELSE q : q \in grown}
           now   == {leg \in LegsOf(B) : leg.formed = i}
           shift == \E e \in events : e.at = i /\ e.class = "MSS"
<1>1. r \in IF now # {} THEN ended \cup {OpenRange(leg) : leg \in now}
            ELSE IF shift THEN ended ELSE grown
  BY DEF RangesAfter
<1>2. ASSUME NEW g \in grown
      PROVE  \/ \E q \in ranges : q.status = "ACTIVE" /\ g = Extended(q, B[i], i)
                                  /\ g.status = "ACTIVE"
             \/ g \in ranges /\ g.status # "ACTIVE"
  <2>1. PICK q \in ranges : g = IF q.status = "ACTIVE" THEN Extended(q, B[i], i) ELSE q
    OBVIOUS
  <2>2. CASE q.status = "ACTIVE"
    <3>1. g = Extended(q, B[i], i)
      BY <2>1, <2>2
    <3> HIDE DEF events, grown, ended, now, shift
    <3>2. RangeInv(B, i - 1, q)
      OBVIOUS
    <3>3. LET h == Extended(q, B[i], i) IN
          h = [leg |-> q.leg, terminal |-> h.terminal, reached |-> h.reached,
               status |-> q.status, ended |-> q.ended]
      BY <3>2, ExtendedFacts
    <3>4. Extended(q, B[i], i).status = "ACTIVE"
      BY <2>2, <3>3
    <3> QED
      BY <2>2, <3>1, <3>4
  <2>3. CASE q.status # "ACTIVE"
    BY <2>1, <2>3
  <2> QED
    BY <2>2, <2>3
<1>3. ASSUME r \in ended PROVE RangeInv(B, i, r)
  <2>1. PICK g \in grown : r = IF g.status = "ACTIVE" THEN Superseded(g, i) ELSE g
    BY <1>3
  <2> HIDE DEF grown
  <2>2. CASE g \in ranges /\ g.status # "ACTIVE"
    BY <2>1, <2>2, OverStays
  <2>3. CASE \E q \in ranges : q.status = "ACTIVE" /\ g = Extended(q, B[i], i)
                               /\ g.status = "ACTIVE"
    <3>1. PICK q \in ranges : q.status = "ACTIVE" /\ g = Extended(q, B[i], i)
                              /\ g.status = "ACTIVE"
      BY <2>3
    <3>2. r = Superseded(Extended(q, B[i], i), i)
      BY <2>1, <3>1
    <3> QED
      BY <3>1, <3>2, ActiveEnds
  <2> QED
    BY <1>2, <2>2, <2>3
<1>4. ASSUME now = {}, ~shift, Breaks(B, i)
      PROVE  BreakAt(B, i).class # "MSS" /\ BreakAt(B, i).opposite = {}
  <2> DEFINE e == BreakAt(B, i)
  <2>1. e \in events /\ e.at = i
    BY <1>4, StructureEvents
  <2> HIDE DEF e
  <2>2. e.class # "MSS"
    BY <1>4, <2>1
  <2>3. ASSUME NEW o \in e.opposite PROVE FALSE
    <3>1. Leg(B, e, o) \in LegsOf(B)
      BY <2>1, <2>3 DEF LegsOf, Legs
    <3>2. Leg(B, e, o).formed = i
      BY <2>1 DEF Leg
    <3> QED
      BY <1>4, <3>1, <3>2
  <2> QED
    BY <2>2, <2>3 DEF e
<1>5. ASSUME r \in grown, now = {}, ~shift PROVE RangeInv(B, i, r)
  <2>1. CASE r \in ranges /\ r.status # "ACTIVE"
    BY <2>1, OverStays
  <2>2. CASE \E q \in ranges : q.status = "ACTIVE" /\ r = Extended(q, B[i], i)
                               /\ r.status = "ACTIVE"
    <3>1. PICK q \in ranges : q.status = "ACTIVE" /\ r = Extended(q, B[i], i)
      BY <2>2
    <3>2. ~Breaks(B, i)
      BY <1>4, <1>5, <3>1, ActiveRangeTurn
    <3> QED
      BY <3>1, <3>2, ActiveGrows
  <2> QED
    BY <1>2, <1>5, <2>1, <2>2
<1>6. ASSUME r \in {OpenRange(leg) : leg \in now} PROVE RangeInv(B, i, r)
  BY <1>6, NewRange
<1> HIDE DEF grown, ended, now, shift
<1> QED
  BY <1>1, <1>3, <1>5, <1>6

\* It holds after every candle.
LEMMA RangesKept ==
  ASSUME NEW B \in Seq(Candle)
  PROVE  \A i \in 0 .. Len(B) : \A r \in RangesOf(B)[i] : RangeInv(B, i, r)
<1> DEFINE after == RangesOf(B)
           K == {i \in 0 .. Len(B) : ~\A r \in after[i] : RangeInv(B, i, r)}
<1>1. SUFFICES ASSUME K # {} PROVE FALSE
  OBVIOUS
<1>2. PICK n \in K : \A m \in K : n <= m
  <2>1. K \subseteq 0 .. Len(B) /\ 0 \in Int /\ Len(B) \in Int
    OBVIOUS
  <2> HIDE DEF K
  <2> QED
    BY <1>1, <2>1, FirstOf
<1>3. n \in 0 .. Len(B) /\ ~\A r \in after[n] : RangeInv(B, n, r)
  OBVIOUS
<1>4. n # 0
  BY <1>3, RangeLoop DEF RangesOf
<1>5. n \in 1 .. Len(B) /\ n - 1 \in 0 .. Len(B) /\ ~(n <= n - 1)
  BY <1>3, <1>4
<1>6. \A r \in after[n - 1] : RangeInv(B, n - 1, r)
  <2>1. n - 1 \notin K
    <3> HIDE DEF K
    <3> QED
      BY <1>2, <1>5
  <2> QED
    BY <1>5, <2>1
<1>7. after[n] = RangesAfter(after[n - 1], B[n], n, EventsOf(Structure(B)), LegsOf(B))
  BY <1>5, RangeLoop DEF RangesOf
<1> HIDE DEF after
<1> QED
  BY <1>3, <1>5, <1>6, <1>7, RangesStep

-----------------------------------------------------------------------------
(* What an analysis says of its structure *)

\* No leg is broken (ProtectedStructureError).
LEMMA LegsHold ==
  ASSUME NEW B \in Seq(Candle)
  PROVE  ~LegsBroken(LegsOf(B))
<1>1. ASSUME NEW leg \in LegsOf(B)
      PROVE  ~(leg.origin.at >= leg.formed) /\ Beyond(leg.direction, leg.terminal, leg.origin.price)
  <2>1. /\ leg.origin.at < leg.formed /\ leg.origin \in Swings(B) /\ leg.formed \in 1 .. Len(B)
        /\ Beyond(leg.direction, leg.terminal, leg.origin.price)
    BY LegFacts DEF LegsOf
  <2>2. leg.origin.at \in Int
    BY <2>1, SwingFacts
  <2> QED
    BY <2>1, <2>2
<1> QED
  BY <1>1 DEF LegsBroken

\* No range is broken (DealingRangeError).
LEMMA RangesHold ==
  ASSUME NEW B \in Seq(Candle)
  PROVE  LET ranges == DealingRanges(B, Structure(B), LegsOf(B)) IN
         /\ \A r \in ranges : RangeInv(B, Len(B), r)
         /\ \A r \in ranges : Lower(r) \in Int /\ Upper(r) \in Int /\ Lower(r) < Upper(r)
         /\ ~RangesBroken(ranges, Structure(B).bias)
<1> DEFINE ranges == DealingRanges(B, Structure(B), LegsOf(B))
<1>1. Len(B) \in 0 .. Len(B)
  OBVIOUS
<1>2. ranges = RangesOf(B)[Len(B)]
  BY RangesAre DEF RangesOf
<1> HIDE DEF ranges
<1>3. \A r \in ranges : RangeInv(B, Len(B), r)
  BY <1>1, <1>2, RangesKept
<1>4. ASSUME NEW r \in ranges PROVE Lower(r) \in Int /\ Upper(r) \in Int /\ Lower(r) < Upper(r)
  <2>1. r.leg \in LegsOf(B) /\ r.terminal \in Int
        /\ Beyond(r.leg.direction, r.terminal, r.leg.origin.price)
    BY <1>3 DEF RangeInv
  <2>2. r.leg.direction \in Directions /\ r.leg.origin.price \in Int
    BY <2>1, LegFacts DEF LegsOf
  <2> QED
    BY <2>1, <2>2 DEF Lower, Upper, Edge, Beyond, Directions
<1>5. ASSUME NEW r \in ActiveRange(ranges) PROVE r.leg.direction = Structure(B).bias
  <2>1. r \in ranges /\ r.status = "ACTIVE"
    BY DEF ActiveRange
  <2>2. r.leg \in LegsOf(B) /\ r.leg.direction = AfterCandle(B)[Len(B)].bias
    BY <1>3, <2>1 DEF RangeInv
  <2>3. r.leg.event \in EventsOf(Structure(B))
    BY <2>2, LegFacts DEF LegsOf
  <2>4. Structure(B).breaks # <<>>
    BY <2>3 DEF EventsOf
  <2>5. Structure(B).bias = AfterCandle(B)[Len(B)].bias
    <3>1. /\ Structure(B).breaks = AfterCandle(B)[Len(B)].breaks
          /\ Structure(B).bias =
               IF AfterCandle(B)[Len(B)].breaks = <<>>
               THEN BootstrapBias(Swings(B), Swings(B)) ELSE AfterCandle(B)[Len(B)].bias
      BY StructureIs
    <3> QED
      BY <2>4, <3>1
  <2> QED
    BY <2>2, <2>5
<1>6. ~RangesBroken(ranges, Structure(B).bias)
  <2>1. \A r \in ranges : ~(Upper(r) <= Lower(r))
    BY <1>4
  <2> QED
    BY <1>5, <2>1 DEF RangesBroken
<1> QED
  BY <1>3, <1>4, <1>6 DEF ranges

\* What StructureIsSound asks of one series.
LEMMA StructureHolds ==
  ASSUME NEW B \in Seq(Candle)
  PROVE  LET st == Structure(B) IN
         /\ \A d \in Directions : \A s \in st.active[d] : ~Crossed(B, d, s.price, s.at + 1)
         /\ \A m, n \in 1 .. Len(st.breaks) :
              m # n => ({st.breaks[m].swing} \cup st.breaks[m].cleared) \cap
                       ({st.breaks[n].swing} \cup st.breaks[n].cleared) = {}
         /\ \A e \in EventsOf(st), r \in DealingRanges(B, st, LegsOf(B)) :
              e.class # "MSS" /\ e.opposite = {} =>
                ~(r.leg.formed < e.at /\ (r.status = "ACTIVE" \/ r.ended > e.at))
<1> DEFINE st   == Structure(B)
           last == AfterCandle(B)[Len(B)]
<1>1. Len(B) \in 0 .. Len(B) /\ Len(B) \in Int
  OBVIOUS
<1>2. StructureInv(B, Len(B), last)
  BY <1>1, StructureKept
<1>3. /\ st.breaks = last.breaks
      /\ \A d \in Directions : st.active[d] = LatestOf(Swings(B) \ last.consumed, d)
  BY StructureIs
<1>4. ASSUME NEW d \in Directions, NEW s \in st.active[d]
      PROVE  ~Crossed(B, d, s.price, s.at + 1)
  <2>1. s \in LatestOf(Swings(B) \ last.consumed, d)
    BY <1>3
  <2> HIDE DEF st, last
  <2>2. /\ s \in Swings(B) /\ s \notin last.consumed /\ s.side = d
        /\ \A t \in Swings(B) : t \notin last.consumed /\ t.side = d => t.pivot <= s.pivot
    BY <2>1 DEF LatestOf, Newest
  <2>3. \A t \in Swings(B) : t.at <= Len(B)
    BY SwingFacts
  <2>4. s \in Live(B, Len(B), last.consumed)
    BY <2>2, <2>3 DEF Live
  <2>5. \A t \in Live(B, Len(B), last.consumed) : t.side = s.side => t.pivot <= s.pivot
    BY <2>2 DEF Live
  <2>6. Covered(B, Len(B), last.consumed)
    BY <1>2 DEF StructureInv
  <2>7. ~Fallen(B, s, Len(B))
    BY <1>1, <2>4, <2>5, <2>6, NewestStands
  <2> QED
    BY <2>2, <2>7 DEF Fallen, Crossed
<1>5. \A m, n \in 1 .. Len(st.breaks) :
        m # n => ({st.breaks[m].swing} \cup st.breaks[m].cleared) \cap
                 ({st.breaks[n].swing} \cup st.breaks[n].cleared) = {}
  <2> HIDE DEF st, last
  <2> QED
    BY <1>2, <1>3 DEF StructureInv, Uses
<1>6. \A e \in EventsOf(st), r \in DealingRanges(B, st, LegsOf(B)) :
        e.class # "MSS" /\ e.opposite = {} =>
          ~(r.leg.formed < e.at /\ (r.status = "ACTIVE" \/ r.ended > e.at))
  <2>1. \A r \in DealingRanges(B, st, LegsOf(B)) : RangeInv(B, Len(B), r)
    BY RangesHold
  <2>2. \A e \in EventsOf(st) : e.at <= Len(B)
    BY StructureEvents
  <2> QED
    BY <2>1, <2>2 DEF RangeInv, Unanchored, Running
<1> HIDE DEF st
<1> QED
  BY <1>4, <1>5, <1>6 DEF st

-----------------------------------------------------------------------------
(* Gaps and what entered them: the loop of analyse_fvg_lifecycle *)

FreshGap(gap) == [zone |-> gap, status |-> "OPEN", touched |-> 0, ended |-> 0]

GapTurns(B, after, k) ==
  after = [i \in 0 .. k |-> IF i = 0 THEN {FreshGap(gap) : gap \in Gaps(B)} ELSE {GapAfter(state, B[i], i) : state \in after[i - 1]}]

\* The loop of the gaps can be run for any number of candles.
LEMMA GapTurnsExist ==
  ASSUME NEW B, NEW k \in Nat
  PROVE  \E after : GapTurns(B, after, k)
<1> DEFINE K == {n \in 0 .. k : ~\E after : GapTurns(B, after, n)}
<1>1. SUFFICES ASSUME K # {} PROVE FALSE
  <2>1. k \in 0 .. k
    OBVIOUS
  <2> QED
    BY <2>1
<1>2. PICK n \in K : \A m \in K : n <= m
  <2>1. K \subseteq 0 .. k /\ 0 \in Int /\ k \in Int
    OBVIOUS
  <2> HIDE DEF K
  <2> QED
    BY <1>1, <2>1, FirstOf
<1>3. n \in 0 .. k /\ ~\E after : GapTurns(B, after, n)
  OBVIOUS
<1>4. n # 0
  <2>1. GapTurns(B, [m \in 0 .. 0 |-> {FreshGap(gap) : gap \in Gaps(B)}], 0)
    BY DEF GapTurns
  <2> QED
    BY <2>1, <1>3
<1>5. PICK before : GapTurns(B, before, n - 1)
  <2>1. n - 1 \in 0 .. k /\ ~(n <= n - 1)
    BY <1>3, <1>4
  <2>2. n - 1 \notin K
    <3> HIDE DEF K
    <3> QED
      BY <1>2, <2>1
  <2> QED
    BY <2>1, <2>2
<1> DEFINE after == [m \in 0 .. n |->
             IF m = n THEN {GapAfter(state, B[n], n) : state \in before[n - 1]} ELSE before[m]]
<1>6. ASSUME NEW m \in 0 .. n
      PROVE  after[m] = IF m = 0 THEN {FreshGap(gap) : gap \in Gaps(B)} ELSE {GapAfter(state, B[m], m) : state \in after[m - 1]}
  <2>1. CASE m = n
    <3>1. n - 1 \in 0 .. n /\ n - 1 # n /\ n \in 0 .. n
      BY <1>3, <1>4
    <3>2. after[n - 1] = before[n - 1]
      BY <3>1
    <3> QED
      BY <2>1, <3>1, <3>2, <1>4
  <2>2. CASE m # n
    <3>1. m \in 0 .. n - 1 /\ (m # 0 => m - 1 \in 0 .. n /\ m - 1 # n)
      BY <2>2, <1>3, <1>4
    <3>2. before[m] = IF m = 0 THEN {FreshGap(gap) : gap \in Gaps(B)} ELSE {GapAfter(state, B[m], m) : state \in before[m - 1]}
      BY <1>5, <3>1 DEF GapTurns
    <3>3. m # 0 => after[m - 1] = before[m - 1]
      BY <3>1
    <3>4. after[m] = before[m]
      BY <2>2
    <3> HIDE DEF after
    <3> QED
      BY <3>2, <3>3, <3>4
  <2> QED
    BY <2>1, <2>2
<1>7. GapTurns(B, after, n)
  <2>1. after = [m \in 0 .. n |-> after[m]]
    OBVIOUS
  <2> HIDE DEF after
  <2> QED
    BY <1>6, <2>1 DEF GapTurns
<1> QED
  BY <1>3, <1>7

GapsAfter(B) == CHOOSE after : GapTurns(B, after, Len(B))

\* GapsAfter is the set of gap states after each candle.
LEMMA GapLoop ==
  ASSUME NEW B \in Seq(Candle)
  PROVE  /\ GapsAfter(B)[0] = {FreshGap(gap) : gap \in Gaps(B)}
         /\ \A i \in 1 .. Len(B) : GapsAfter(B)[i] =
              {GapAfter(state, B[i], i) : state \in GapsAfter(B)[i - 1]}
<1> DEFINE after == GapsAfter(B)
<1>1. Len(B) \in Nat
  OBVIOUS
<1>2. GapTurns(B, after, Len(B))
  BY <1>1, GapTurnsExist DEF GapsAfter
<1> HIDE DEF after
<1>3. \A i \in 0 .. Len(B) : after[i] =
        IF i = 0 THEN {FreshGap(gap) : gap \in Gaps(B)}
        ELSE {GapAfter(state, B[i], i) : state \in after[i - 1]}
  BY <1>2 DEF GapTurns
<1>4. 0 \in 0 .. Len(B) /\ \A i \in 1 .. Len(B) : i \in 0 .. Len(B) /\ i # 0
  BY <1>1
<1>5. after[0] = {FreshGap(gap) : gap \in Gaps(B)}
  BY <1>3, <1>4
<1>6. ASSUME NEW i \in 1 .. Len(B)
      PROVE  after[i] = {GapAfter(state, B[i], i) : state \in after[i - 1]}
  <2>1. i \in 0 .. Len(B) /\ i # 0
    BY <1>4
  <2>2. after[i] = IF i = 0 THEN {FreshGap(gap) : gap \in Gaps(B)}
                   ELSE {GapAfter(state, B[i], i) : state \in after[i - 1]}
    BY <1>3, <2>1
  <2> QED
    BY <2>1, <2>2
<1> QED
  BY <1>5, <1>6 DEF after

\* The states of the gaps are those after the last candle.
LEMMA GapStatesAre ==
  ASSUME NEW B
  PROVE  GapStates(B) = GapsAfter(B)[Len(B)]
BY DEF GapStates, GapsAfter, GapTurns, FreshGap

\* A gap has a width and three candles.
LEMMA GapFacts ==
  ASSUME NEW B \in Seq(Candle), NEW gap \in Gaps(B)
  PROVE  /\ gap.formed \in 3 .. Len(B) /\ gap.formed \in Int
         /\ gap.lower \in Int /\ gap.upper \in Int /\ gap.lower < gap.upper
<1> DEFINE up(i)   == [direction |-> "BULLISH", formed |-> i, lower |-> B[i - 2].high,
                       upper |-> B[i].low]
           down(i) == [direction |-> "BEARISH", formed |-> i, lower |-> B[i].high,
                       upper |-> B[i - 2].low]
<1>1. \/ \E i \in 3 .. Len(B) : B[i].low > B[i - 2].high /\ gap = up(i)
      \/ \E i \in 3 .. Len(B) : B[i].high < B[i - 2].low /\ gap = down(i)
  BY DEF Gaps
<1>2. \A i \in 3 .. Len(B) : /\ B[i].low \in Int /\ B[i].high \in Int
                              /\ B[i - 2].low \in Int /\ B[i - 2].high \in Int
  <2>1. \A i \in 3 .. Len(B) : i \in 1 .. Len(B) /\ i - 2 \in 1 .. Len(B)
    OBVIOUS
  <2> QED
    BY <2>1, CandleFacts
<1>3. CASE \E i \in 3 .. Len(B) : B[i].low > B[i - 2].high /\ gap = up(i)
  BY <1>2, <1>3
<1>4. CASE \E i \in 3 .. Len(B) : B[i].high < B[i - 2].low /\ gap = down(i)
  BY <1>2, <1>4
<1> QED
  BY <1>1, <1>3, <1>4

\* A gap not filled has not been covered since it formed.
GapInv(B, i, state) ==
  /\ state.zone \in Gaps(B)
  /\ state = [zone |-> state.zone, status |-> state.status, touched |-> state.touched,
              ended |-> state.ended]
  /\ state.status \in {"OPEN", "TOUCHED", "FILLED"}
  /\ state.status = "OPEN" => state.touched = 0
  /\ state.status # "FILLED" =>
       \A j \in state.zone.formed + 1 .. i : ~Covers(state.zone, B[j])

\* A candle leaves a gap alone, touches it or fills it.
LEMMA GapAfterFacts ==
  ASSUME NEW state, NEW bar, NEW i,
         state = [zone |-> state.zone, status |-> state.status, touched |-> state.touched,
                  ended |-> state.ended]
  PROVE  LET then == GapAfter(state, bar, i) IN
         /\ then = [zone |-> then.zone, status |-> then.status, touched |-> then.touched,
                    ended |-> then.ended]
         /\ then.zone = state.zone
         /\ \/ then = state /\ (~GapTouchable(state, i) \/ ~Covers(state.zone, bar))
            \/ then.status = "FILLED" /\ GapTouchable(state, i)
               /\ (state.touched # 0 => then.touched = state.touched)
            \/ then.status = "TOUCHED" /\ state.status = "OPEN" /\ ~Covers(state.zone, bar)
<1> DEFINE then == GapAfter(state, bar, i)
           touched == IF state.touched = 0 THEN i ELSE state.touched
<1>1. CASE ~GapTouchable(state, i)
  BY <1>1 DEF GapAfter
<1>2. CASE GapTouchable(state, i) /\ Covers(state.zone, bar)
  <2>1. then = [state EXCEPT !.status = "FILLED", !.ended = i, !.touched = touched]
    BY <1>2 DEF GapAfter
  <2>2. PICK z, s, t, e : state = [zone |-> z, status |-> s, touched |-> t, ended |-> e]
    OBVIOUS
  <2> HIDE DEF then, touched
  <2>3. then = [zone |-> z, status |-> "FILLED", touched |-> touched, ended |-> i]
    BY <2>1, <2>2
  <2>4. then.zone = z /\ then.status = "FILLED" /\ then.touched = touched /\ then.ended = i
        /\ state.zone = z
    BY <2>2, <2>3
  <2>5. state.touched # 0 => touched = state.touched
    BY DEF touched
  <2> QED
    BY <1>2, <2>3, <2>4, <2>5 DEF then
<1>3. CASE GapTouchable(state, i) /\ ~Covers(state.zone, bar)
           /\ Enters(state.zone, bar) /\ state.status = "OPEN"
  <2>1. then = [state EXCEPT !.status = "TOUCHED", !.touched = i]
    BY <1>3 DEF GapAfter
  <2>2. PICK z, s, t, e : state = [zone |-> z, status |-> s, touched |-> t, ended |-> e]
    OBVIOUS
  <2> HIDE DEF then, touched
  <2>3. then = [zone |-> z, status |-> "TOUCHED", touched |-> i, ended |-> e]
    BY <2>1, <2>2
  <2>4. then.zone = z /\ then.status = "TOUCHED" /\ then.touched = i /\ then.ended = e
        /\ state.zone = z
    BY <2>2, <2>3
  <2> QED
    BY <1>3, <2>3, <2>4 DEF then
<1>4. CASE GapTouchable(state, i) /\ ~Covers(state.zone, bar)
           /\ ~(Enters(state.zone, bar) /\ state.status = "OPEN")
  BY <1>4 DEF GapAfter
<1> QED
  BY <1>1, <1>2, <1>3, <1>4

\* A gap not filled has been covered by no candle since it formed.
LEMMA GapStep ==
  ASSUME NEW B \in Seq(Candle), NEW i \in 1 .. Len(B), NEW state, GapInv(B, i - 1, state)
  PROVE  GapInv(B, i, GapAfter(state, B[i], i))
<1> DEFINE then == GapAfter(state, B[i], i)
<1>1. /\ state.zone \in Gaps(B)
      /\ state = [zone |-> state.zone, status |-> state.status, touched |-> state.touched,
                  ended |-> state.ended]
      /\ state.status \in {"OPEN", "TOUCHED", "FILLED"}
      /\ state.status = "OPEN" => state.touched = 0
      /\ state.status # "FILLED" =>
           \A j \in state.zone.formed + 1 .. i - 1 : ~Covers(state.zone, B[j])
  BY DEF GapInv
<1>2. /\ then = [zone |-> then.zone, status |-> then.status, touched |-> then.touched,
                 ended |-> then.ended]
      /\ then.zone = state.zone
      /\ \/ then = state /\ (~GapTouchable(state, i) \/ ~Covers(state.zone, B[i]))
         \/ then.status = "FILLED"
         \/ then.status = "TOUCHED" /\ state.status = "OPEN" /\ ~Covers(state.zone, B[i])
  BY <1>1, GapAfterFacts
<1> HIDE DEF then
<1>3. state.zone.formed \in Int /\ i \in Int
  BY <1>1, GapFacts
<1>4. CASE then.status = "FILLED"
  BY <1>1, <1>2, <1>4 DEF GapInv, then
<1>5. CASE then.status # "FILLED"
  <2>1. state.status # "FILLED" /\ (state.zone.formed < i => ~Covers(state.zone, B[i]))
    BY <1>2, <1>5 DEF GapTouchable
  <2>2. \A j \in state.zone.formed + 1 .. i : ~Covers(state.zone, B[j])
    <3> SUFFICES ASSUME NEW j \in state.zone.formed + 1 .. i PROVE ~Covers(state.zone, B[j])
      OBVIOUS
    <3>1. CASE j = i
      BY <1>3, <2>1, <3>1
    <3>2. CASE j # i
      <4>1. j \in state.zone.formed + 1 .. i - 1
        BY <1>3, <3>2
      <4> QED
        BY <1>1, <2>1, <4>1
    <3> QED
      BY <3>1, <3>2
  <2>3. then.status \in {"OPEN", "TOUCHED", "FILLED"} /\ (then.status = "OPEN" => then.touched = 0)
    BY <1>1, <1>2, <1>5
  <2> QED
    BY <1>1, <1>2, <2>2, <2>3 DEF GapInv, then
<1> QED
  BY <1>4, <1>5

\* That holds after every candle.
LEMMA GapsKept ==
  ASSUME NEW B \in Seq(Candle)
  PROVE  \A i \in 0 .. Len(B) : \A state \in GapsAfter(B)[i] : GapInv(B, i, state)
<1> DEFINE after == GapsAfter(B)
           K == {i \in 0 .. Len(B) : ~\A state \in after[i] : GapInv(B, i, state)}
<1>1. SUFFICES ASSUME K # {} PROVE FALSE
  OBVIOUS
<1>2. PICK n \in K : \A m \in K : n <= m
  <2>1. K \subseteq 0 .. Len(B) /\ 0 \in Int /\ Len(B) \in Int
    OBVIOUS
  <2> HIDE DEF K
  <2> QED
    BY <1>1, <2>1, FirstOf
<1>3. n \in 0 .. Len(B) /\ ~\A state \in after[n] : GapInv(B, n, state)
  OBVIOUS
<1>4. n # 0
  <2>1. ASSUME NEW gap \in Gaps(B) PROVE GapInv(B, 0, FreshGap(gap))
    <3> DEFINE s == FreshGap(gap)
    <3>1. s = [zone |-> s.zone, status |-> s.status, touched |-> s.touched, ended |-> s.ended]
          /\ s.zone = gap /\ s.status = "OPEN" /\ s.touched = 0
      BY DEF FreshGap
    <3>2. \A j \in gap.formed + 1 .. 0 : FALSE
      BY GapFacts
    <3> HIDE DEF s
    <3>3. GapInv(B, 0, s)
      BY <3>1, <3>2 DEF GapInv
    <3> QED
      BY <3>3 DEF s
  <2> QED
    BY <1>3, <2>1, GapLoop
<1>5. n \in 1 .. Len(B) /\ n - 1 \in 0 .. Len(B) /\ ~(n <= n - 1)
  BY <1>3, <1>4
<1>6. \A state \in after[n - 1] : GapInv(B, n - 1, state)
  <2>1. n - 1 \notin K
    <3> HIDE DEF K
    <3> QED
      BY <1>2, <1>5
  <2> QED
    BY <1>5, <2>1
<1>7. after[n] = {GapAfter(state, B[n], n) : state \in after[n - 1]}
  BY <1>5, GapLoop
<1> HIDE DEF after
<1> QED
  BY <1>3, <1>5, <1>6, <1>7, GapStep

\* And of the states an analysis reports.
LEMMA GapsHold ==
  ASSUME NEW B \in Seq(Candle), NEW state \in GapStates(B)
  PROVE  GapInv(B, Len(B), state)
<1>1. Len(B) \in 0 .. Len(B)
  OBVIOUS
<1> QED
  BY <1>1, GapStatesAre, GapsKept

-----------------------------------------------------------------------------
(* Order blocks *)

\* The least and the greatest of two.
LEMMA PairFacts ==
  ASSUME NEW x \in Int, NEW y \in Int
  PROVE  /\ Least({x, y}) \in {x, y} /\ Least({x, y}) <= x /\ Least({x, y}) <= y
         /\ Greatest({x, y}) \in {x, y} /\ Greatest({x, y}) >= x /\ Greatest({x, y}) >= y
<1>1. IsFiniteSet({x} \cup {y})
  BY FS_Singleton, FS_AddElement
<1>2. {x, y} = {x} \cup {y}
  OBVIOUS
<1>3. IsFiniteSet({x, y})
  BY <1>1, <1>2
<1>4. {x, y} \subseteq Int /\ {x, y} # {}
  OBVIOUS
<1>5. Least({x, y}) \in {x, y} /\ \A m \in {x, y} : Least({x, y}) <= m
  BY <1>3, <1>4, LeastIs
<1>6. Greatest({x, y}) \in {x, y} /\ \A m \in {x, y} : Greatest({x, y}) >= m
  BY <1>3, <1>4, GreatestIs
<1> QED
  BY <1>5, <1>6

\* A candle with a body has a zone of some width, by either basis.
LEMMA ZoneFacts ==
  ASSUME NEW B \in Seq(Candle), NEW i \in 1 .. Len(B), B[i].open # B[i].close
  PROVE  /\ ZoneOf(B[i])[1] \in Int /\ ZoneOf(B[i])[2] \in Int
         /\ ZoneOf(B[i])[1] < ZoneOf(B[i])[2]
<1> DEFINE o == B[i].open
           c == B[i].close
           l == B[i].low
           h == B[i].high
<1>1. /\ o \in Int /\ c \in Int /\ h \in Int /\ l \in Int
      /\ l <= o /\ l <= c /\ h >= o /\ h >= c /\ o # c
  BY CandleFacts
<1>2. ZoneOf(B[i]) = IF ZoneBasis = "FULL_CANDLE" THEN <<l, h>>
                     ELSE <<Least({o, c}), Greatest({o, c})>>
  BY DEF ZoneOf
<1> HIDE DEF o, c, l, h
<1>3. /\ Least({o, c}) \in {o, c} /\ Least({o, c}) <= o /\ Least({o, c}) <= c
      /\ Greatest({o, c}) \in {o, c} /\ Greatest({o, c}) >= o /\ Greatest({o, c}) >= c
  BY <1>1, PairFacts
<1>4. Least({o, c}) \in Int /\ Greatest({o, c}) \in Int /\ Least({o, c}) < Greatest({o, c})
  BY <1>1, <1>3
<1>5. l < h
  BY <1>1
<1> QED
  BY <1>1, <1>2, <1>4, <1>5

\* A block has a zone and a direction (OrderBlockError).
LEMMA BlockFacts ==
  ASSUME NEW B \in Seq(Candle), NEW block \in OrderBlocks(B, LegsOf(B))
  PROVE  /\ block.formed \in 1 .. Len(B) /\ block.formed \in Int
         /\ block.direction \in Directions
         /\ block.lower \in Int /\ block.upper \in Int /\ block.lower < block.upper
<1>1. PICK leg \in LegsOf(B) :
        /\ Sources(B, leg) # {}
        /\ block = [direction |-> leg.direction, formed |-> leg.formed, leg |-> leg,
                    source |-> Greatest(Sources(B, leg)),
                    lower |-> ZoneOf(B[Greatest(Sources(B, leg))])[1],
                    upper |-> ZoneOf(B[Greatest(Sources(B, leg))])[2]]
  BY DEF OrderBlocks
<1>2. leg.origin \in Swings(B) /\ leg.formed \in 1 .. Len(B) /\ leg.direction \in Directions
  BY LegFacts DEF LegsOf
<1>3. leg.origin.pivot \in 2 .. Len(B) - 1
  BY <1>2, SwingFacts
<1> DEFINE P == Sources(B, leg)
           i == Greatest(P)
<1>4. P \subseteq leg.origin.pivot .. leg.formed - 1
  BY DEF Sources
<1>5. leg.origin.pivot \in Int /\ leg.formed - 1 \in Int
  BY <1>2, <1>3
<1>6. IsFiniteSet(P) /\ P \subseteq Int
  <2>1. IsFiniteSet(leg.origin.pivot .. leg.formed - 1)
    BY <1>5, FS_Interval
  <2>2. leg.origin.pivot .. leg.formed - 1 \subseteq Int
    BY <1>5
  <2> HIDE DEF P
  <2>3. IsFiniteSet(P)
    BY <1>4, <2>1, FS_Subset
  <2> QED
    BY <1>4, <2>2, <2>3
<1>7. i \in P
  <2> HIDE DEF P
  <2> QED
    BY <1>1, <1>6, GreatestIs DEF P
<1>8. i \in 1 .. Len(B) /\ BodyDirection(B[i]) = Opposite(leg.direction)
  <2>1. i \in leg.origin.pivot .. leg.formed - 1
        /\ BodyDirection(B[i]) = Opposite(leg.direction)
    BY <1>7 DEF Sources
  <2> HIDE DEF i
  <2> QED
    BY <2>1, <1>2, <1>3
<1> HIDE DEF i, P
<1>9. B[i].open # B[i].close
  <2>1. Opposite(leg.direction) # "NEUTRAL"
    BY <1>2 DEF Opposite
  <2>2. B[i].open \in Int /\ B[i].close \in Int
    BY <1>8, CandleFacts
  <2>3. BodyDirection(B[i]) # "NEUTRAL"
    BY <1>8, <2>1
  <2> QED
    BY <2>2, <2>3 DEF BodyDirection
<1>10. /\ ZoneOf(B[i])[1] \in Int /\ ZoneOf(B[i])[2] \in Int
       /\ ZoneOf(B[i])[1] < ZoneOf(B[i])[2]
  BY <1>8, <1>9, ZoneFacts
<1>11. /\ block.formed = leg.formed /\ block.direction = leg.direction
       /\ block.lower = ZoneOf(B[i])[1] /\ block.upper = ZoneOf(B[i])[2]
  BY <1>1 DEF i, P
<1> QED
  BY <1>2, <1>10, <1>11

\* FirstAfter finds the first hit after the block, and 0 says there is none.
LEMMA FirstAfterIs ==
  ASSUME NEW B \in Seq(Candle), NEW block, block.formed \in 1 .. Len(B), NEW T
  PROVE  LET hits == {i \in block.formed + 1 .. Len(B) : i \in T}
             first == FirstAfter(B, block, T)
         IN  /\ first = 0 <=> hits = {}
             /\ first # 0 => first \in hits /\ \A i \in hits : first <= i
<1> DEFINE hits == {i \in block.formed + 1 .. Len(B) : i \in T}
           first == FirstAfter(B, block, T)
<1>1. block.formed \in Int /\ Len(B) \in Int /\ block.formed >= 1
  OBVIOUS
<1>2. first = IF hits = {} THEN 0 ELSE Least(hits)
  BY DEF FirstAfter
<1>3. hits \subseteq block.formed + 1 .. Len(B)
  OBVIOUS
<1>4. hits \subseteq Int /\ IsFiniteSet(hits) /\ 0 \notin hits
  <2>1. IsFiniteSet(block.formed + 1 .. Len(B))
    BY <1>1, FS_Interval
  <2>2. /\ block.formed + 1 .. Len(B) \subseteq Int
        /\ 0 \notin block.formed + 1 .. Len(B)
    BY <1>1
  <2> HIDE DEF hits
  <2>3. IsFiniteSet(hits)
    BY <1>3, <2>1, FS_Subset
  <2> QED
    BY <1>3, <2>2, <2>3
<1> HIDE DEF hits, first
<1>5. hits # {} => Least(hits) \in hits /\ \A i \in hits : Least(hits) <= i
  BY <1>4, LeastIs
<1>6. /\ first = 0 <=> hits = {}
      /\ first # 0 => first \in hits /\ \A i \in hits : first <= i
  BY <1>2, <1>4, <1>5
<1> QED
  BY <1>6 DEF hits, first

\* The lifecycle of one block, by name.
BlockEnd(B, block) ==
  FirstAfter(B, block, {i \in 1 .. Len(B) : Invalidates(block, B[i])})
BlockSpan(B, block) == IF BlockEnd(B, block) = 0 THEN 1 .. Len(B) ELSE 1 .. BlockEnd(B, block)
BlockTouch(B, block) ==
  FirstAfter(B, block, {i \in BlockSpan(B, block) : Touches(block, B[i])})
BlockMitigation(B, block) ==
  FirstAfter(B, block, {i \in BlockSpan(B, block) : Satisfies(block, B[i])})
BlockState(B, block) ==
  [zone |-> block, touched |-> BlockTouch(B, block), mitigated |-> BlockMitigation(B, block),
   ended |-> BlockEnd(B, block),
   status |-> StatusOf(BlockTouch(B, block), BlockMitigation(B, block), BlockEnd(B, block))]

\* A state for each block.
LEMMA BlockStatesAre ==
  ASSUME NEW B, NEW blocks
  PROVE  BlockStates(B, blocks) = {BlockState(B, block) : block \in blocks}
BY DEF BlockStates, BlockState, BlockEnd, BlockSpan, BlockTouch, BlockMitigation

\* No block is broken, and one not invalidated has been closed through by no candle.
LEMMA BlocksHold ==
  ASSUME NEW B \in Seq(Candle)
  PROVE  LET states == BlockStates(B, OrderBlocks(B, LegsOf(B))) IN
         /\ ~BlocksBroken({b.zone : b \in states})
         /\ \A b \in states :
              /\ b.zone \in OrderBlocks(B, LegsOf(B))
              /\ b.status # "INVALIDATED" =>
                   \A i \in b.zone.formed + 1 .. Len(B) : ~Invalidates(b.zone, B[i])
<1> DEFINE blocks == OrderBlocks(B, LegsOf(B))
           states == BlockStates(B, blocks)
<1>1. ASSUME NEW b \in states
      PROVE  /\ b.zone \in blocks
             /\ b.status # "INVALIDATED" =>
                  \A i \in b.zone.formed + 1 .. Len(B) : ~Invalidates(b.zone, B[i])
  <2>1. PICK block \in blocks : b = BlockState(B, block)
    BY BlockStatesAre
  <2>2. b.zone = block /\ b.status =
          StatusOf(BlockTouch(B, block), BlockMitigation(B, block), BlockEnd(B, block))
    BY <2>1 DEF BlockState
  <2>3. block.formed \in 1 .. Len(B)
    BY BlockFacts
  <2>4. ASSUME b.status # "INVALIDATED", NEW i \in block.formed + 1 .. Len(B)
        PROVE  ~Invalidates(block, B[i])
    <3> DEFINE T == {j \in 1 .. Len(B) : Invalidates(block, B[j])}
    <3>1. BlockEnd(B, block) = 0
      BY <2>2, <2>4 DEF StatusOf
    <3>2. {j \in block.formed + 1 .. Len(B) : j \in T} = {}
      <4>1. FirstAfter(B, block, T) = 0
        BY <3>1 DEF BlockEnd
      <4> HIDE DEF T
      <4> QED
        BY <2>3, <4>1, FirstAfterIs
    <3>3. i \notin T
      BY <3>2, <2>4
    <3>4. i \in 1 .. Len(B)
      BY <2>3, <2>4
    <3> QED
      BY <3>3, <3>4
  <2> QED
    BY <2>1, <2>2, <2>4
<1>2. ~BlocksBroken({b.zone : b \in states})
  <2> HIDE DEF states
  <2>1. \A b \in states : ~(b.zone.upper <= b.zone.lower)
    BY <1>1, BlockFacts
  <2> QED
    BY <2>1 DEF BlocksBroken
<1> HIDE DEF states, blocks
<1> QED
  BY <1>1, <1>2 DEF states, blocks

-----------------------------------------------------------------------------
(* Pools *)

\* The prices of finitely many swings.
LEMMA PriceFacts ==
  ASSUME NEW B \in Seq(Candle), NEW M, M \subseteq Swings(B)
  PROVE  /\ IsFiniteSet(M) /\ IsFiniteSet(Prices(M)) /\ Prices(M) \subseteq Int
         /\ \A s \in M : s.price \in Prices(M)
         /\ M # {} => Prices(M) # {}
<1>1. IsFiniteSet(M)
  BY SwingsFinite, FS_Subset
<1> DEFINE f == [s \in M |-> s.price]
<1>2. IsFiniteSet({f[s] : s \in M})
  <2>1. DOMAIN f = M /\ f = [s \in M |-> f[s]]
    OBVIOUS
  <2> HIDE DEF f
  <2> QED
    BY <1>1, <2>1, FiniteValues
<1>3. {f[s] : s \in M} = Prices(M)
  BY DEF Prices
<1>4. \A s \in M : s.price \in Int
  BY SwingFacts
<1> HIDE DEF f
<1> QED
  BY <1>1, <1>2, <1>3, <1>4 DEF Prices

\* Swings within the tolerance of one another.
Tight(M) == \A s, t \in M : s.price - t.price <= Tolerance

\* The edges of a pool are prices of its members, and hold the others.
LEMMA PoolEdges ==
  ASSUME NEW B \in Seq(Candle), NEW p, p.members \subseteq Swings(B), p.members # {}
  PROVE  /\ PoolLower(p) \in Int /\ PoolUpper(p) \in Int /\ PoolLower(p) <= PoolUpper(p)
         /\ PoolBoundary(p) \in Int
         /\ \E s \in p.members : s.price = PoolUpper(p)
         /\ \E s \in p.members : s.price = PoolLower(p)
         /\ \A s \in p.members : PoolLower(p) <= s.price /\ s.price <= PoolUpper(p)
<1>1. /\ IsFiniteSet(Prices(p.members)) /\ Prices(p.members) \subseteq Int
      /\ \A s \in p.members : s.price \in Prices(p.members)
      /\ Prices(p.members) # {}
  BY PriceFacts
<1>2. PoolLower(p) \in Prices(p.members) /\ \A m \in Prices(p.members) : PoolLower(p) <= m
  BY <1>1, LeastIs DEF PoolLower
<1>3. PoolUpper(p) \in Prices(p.members) /\ \A m \in Prices(p.members) : PoolUpper(p) >= m
  BY <1>1, GreatestIs DEF PoolUpper
<1>4. /\ PoolLower(p) \in Int /\ PoolUpper(p) \in Int
      /\ \A m \in Prices(p.members) : m \in Int
  BY <1>1, <1>2, <1>3
<1>5. PoolLower(p) <= PoolUpper(p)
  BY <1>2, <1>3
<1>6. \A s \in p.members : PoolLower(p) <= s.price /\ s.price <= PoolUpper(p)
  BY <1>1, <1>2, <1>3, <1>4
<1>7. \E s \in p.members : s.price = PoolUpper(p)
  BY <1>3 DEF Prices
<1>8. \E s \in p.members : s.price = PoolLower(p)
  BY <1>2 DEF Prices
<1> QED
  BY <1>4, <1>5, <1>6, <1>7, <1>8 DEF PoolBoundary

\* The boundary is the price of a member, and no member's is beyond it.
LEMMA BoundaryIs ==
  ASSUME NEW B \in Seq(Candle), NEW p, p.members \subseteq Swings(B), p.members # {},
         p.side \in Directions
  PROVE  /\ PoolBoundary(p) \in Int
         /\ \E s \in p.members : s.price = PoolBoundary(p)
         /\ \A s \in p.members : s.price \in Int /\ ~Beyond(p.side, s.price, PoolBoundary(p))
<1>1. /\ PoolLower(p) \in Int /\ PoolUpper(p) \in Int
      /\ \E s \in p.members : s.price = PoolUpper(p)
      /\ \E s \in p.members : s.price = PoolLower(p)
      /\ \A s \in p.members : PoolLower(p) <= s.price /\ s.price <= PoolUpper(p)
  BY PoolEdges
<1>2. \A s \in p.members : s.price \in Int
  BY SwingFacts
<1> QED
  BY <1>1, <1>2 DEF PoolBoundary, Beyond, Directions

\* A swing within the tolerance of all of them leaves them within it.
LEMMA SpanFacts ==
  ASSUME NEW B \in Seq(Candle), NEW M, M \subseteq Swings(B), NEW s \in Swings(B),
         SpanWith(M, s.price) <= Tolerance
  PROVE  Tight(M \cup {s})
<1> DEFINE P == Prices(M) \cup {s.price}
<1>1. P = Prices(M \cup {s})
  BY DEF Prices
<1>2. M \cup {s} \subseteq Swings(B) /\ M \cup {s} # {}
  OBVIOUS
<1>3. /\ IsFiniteSet(P) /\ P \subseteq Int /\ P # {}
      /\ \A t \in M \cup {s} : t.price \in P
  BY <1>1, <1>2, PriceFacts
<1>4. Greatest(P) - Least(P) <= Tolerance
  BY DEF SpanWith
<1> HIDE DEF P
<1>5. /\ Greatest(P) \in P /\ \A m \in P : Greatest(P) >= m
      /\ Least(P) \in P /\ \A m \in P : Least(P) <= m
  BY <1>3, LeastIs, GreatestIs
<1>6. Tolerance \in Int
  BY ZoneAssumption
<1> SUFFICES ASSUME NEW t \in M \cup {s}, NEW u \in M \cup {s}
             PROVE  t.price - u.price <= Tolerance
  BY DEF Tight
<1>7. t.price \in P /\ u.price \in P
  BY <1>3
<1>8. /\ t.price \in Int /\ u.price \in Int /\ Greatest(P) \in Int /\ Least(P) \in Int
      /\ t.price <= Greatest(P) /\ Least(P) <= u.price
  BY <1>3, <1>5, <1>7
<1> QED
  BY <1>4, <1>6, <1>8

\* Members within the tolerance make a pool no wider.
LEMMA TightPool ==
  ASSUME NEW B \in Seq(Candle), NEW p, p.members \subseteq Swings(B), p.members # {},
         Tight(p.members)
  PROVE  PoolUpper(p) - PoolLower(p) <= Tolerance
BY PoolEdges DEF Tight

-----------------------------------------------------------------------------
(* The swings a new pool absorbs: oldest first *)

Nth(older, k) == CHOOSE t \in older : Cardinality({u \in older : u.pivot < t.pivot}) = k - 1
AbsorbStep(members, t) ==
  IF SpanWith(members, t.price) <= Tolerance THEN members \cup {t} ELSE members

\* Each of k swings of one side has a number of older ones, and no two the same.
LEMMA NthFacts ==
  ASSUME NEW B \in Seq(Candle), NEW older, older \subseteq Swings(B),
         \A t, u \in older : t.side = u.side, NEW k \in 1 .. Cardinality(older)
  PROVE  Nth(older, k) \in older
<1> DEFINE n         == Cardinality(older)
           before(t) == {u \in older : u.pivot < t.pivot}
           f         == [t \in older |-> Cardinality(before(t))]
<1>1. IsFiniteSet(older) /\ n \in Nat
  BY PriceFacts, FS_CardinalityType
<1>2. \A t \in older : t.pivot \in Int
  BY SwingFacts
<1>3. ASSUME NEW t \in older PROVE Cardinality(before(t)) \in 0 .. n - 1
  <2>1. before(t) \in SUBSET (older \ {t})
    BY <1>2
  <2>2. IsFiniteSet(older \ {t}) /\ Cardinality(older \ {t}) = n - 1
    BY <1>1, FS_RemoveElement
  <2> HIDE DEF before
  <2>3. IsFiniteSet(before(t)) /\ Cardinality(before(t)) <= n - 1
    BY <2>1, <2>2, FS_Subset
  <2>4. Cardinality(before(t)) \in Nat
    BY <2>3, FS_CardinalityType
  <2> QED
    BY <1>1, <2>3, <2>4
<1>4. ASSUME NEW t \in older, NEW u \in older, t.pivot < u.pivot
      PROVE  Cardinality(before(t)) < Cardinality(before(u))
  <2>1. before(t) \in SUBSET before(u) /\ t \in before(u) /\ t \notin before(t)
    BY <1>2, <1>4
  <2>2. before(u) \in SUBSET older
    OBVIOUS
  <2> HIDE DEF before
  <2>3. IsFiniteSet(before(u))
    BY <1>1, <2>2, FS_Subset
  <2>4. /\ Cardinality(before(t)) <= Cardinality(before(u))
        /\ Cardinality(before(u)) = Cardinality(before(t)) => before(u) = before(t)
    BY <2>1, <2>3, FS_Subset
  <2>5. Cardinality(before(t)) \in Int /\ Cardinality(before(u)) \in Int
    BY <1>3
  <2> QED
    BY <2>1, <2>4, <2>5
<1>5. f \in Injection(older, 0 .. n - 1)
  <2>1. f \in [older -> 0 .. n - 1]
    BY <1>3
  <2>2. ASSUME NEW t \in older, NEW u \in older, f[t] = f[u] PROVE t = u
    <3>1. Cardinality(before(t)) = Cardinality(before(u))
      BY <2>2
    <3>2. Cardinality(before(t)) \in Int /\ Cardinality(before(u)) \in Int
      BY <1>3
    <3> HIDE DEF before, f
    <3>3. ~(t.pivot < u.pivot) /\ ~(u.pivot < t.pivot)
      BY <3>1, <3>2, <1>4
    <3>4. t.pivot = u.pivot
      BY <1>2, <3>3
    <3> QED
      BY <3>4, OneSwing
  <2> HIDE DEF f
  <2> QED
    BY <2>1, <2>2 DEF Injection, IsInjective
<1>6. IsFiniteSet(0 .. n - 1) /\ Cardinality(0 .. n - 1) = n
  <2>1. 0 \in Int /\ n - 1 \in Int
    BY <1>1
  <2>2. /\ IsFiniteSet(0 .. n - 1)
        /\ Cardinality(0 .. n - 1) = IF 0 > n - 1 THEN 0 ELSE n - 1 - 0 + 1
    BY <2>1, FS_Interval
  <2> HIDE DEF n
  <2> QED
    BY <1>1, <2>2
<1>7. f \in Surjection(older, 0 .. n - 1)
  <2> HIDE DEF f
  <2> QED
    BY <1>5, <1>6, FS_Injection
<1>8. k - 1 \in 0 .. n - 1
  BY <1>1
<1>9. PICK t \in older : f[t] = k - 1
  <2> HIDE DEF f
  <2> QED
    BY <1>7, <1>8 DEF Surjection
<1>10. Cardinality({u \in older : u.pivot < t.pivot}) = k - 1
  BY <1>9
<1> QED
  BY <1>10 DEF Nth

AbsorbTurns(members, older, after, k) ==
  after = [i \in 0 .. k |-> IF i = 0 THEN members ELSE AbsorbStep(after[i - 1], Nth(older, i))]

\* Any number of older swings can be absorbed one after the other.
LEMMA AbsorbTurnsExist ==
  ASSUME NEW members, NEW older, NEW k \in Nat
  PROVE  \E after : AbsorbTurns(members, older, after, k)
<1> DEFINE K == {n \in 0 .. k : ~\E after : AbsorbTurns(members, older, after, n)}
<1>1. SUFFICES ASSUME K # {} PROVE FALSE
  <2>1. k \in 0 .. k
    OBVIOUS
  <2> QED
    BY <2>1
<1>2. PICK n \in K : \A m \in K : n <= m
  <2>1. K \subseteq 0 .. k /\ 0 \in Int /\ k \in Int
    OBVIOUS
  <2> HIDE DEF K
  <2> QED
    BY <1>1, <2>1, FirstOf
<1>3. n \in 0 .. k /\ ~\E after : AbsorbTurns(members, older, after, n)
  OBVIOUS
<1>4. n # 0
  <2>1. AbsorbTurns(members, older, [m \in 0 .. 0 |-> members], 0)
    BY DEF AbsorbTurns
  <2> QED
    BY <2>1, <1>3
<1>5. PICK before : AbsorbTurns(members, older, before, n - 1)
  <2>1. n - 1 \in 0 .. k /\ ~(n <= n - 1)
    BY <1>3, <1>4
  <2>2. n - 1 \notin K
    <3> HIDE DEF K
    <3> QED
      BY <1>2, <2>1
  <2> QED
    BY <2>1, <2>2
<1> DEFINE after == [m \in 0 .. n |->
             IF m = n THEN AbsorbStep(before[n - 1], Nth(older, n)) ELSE before[m]]
<1>6. ASSUME NEW m \in 0 .. n
      PROVE  after[m] = IF m = 0 THEN members ELSE AbsorbStep(after[m - 1], Nth(older, m))
  <2>1. CASE m = n
    <3>1. n - 1 \in 0 .. n /\ n - 1 # n /\ n \in 0 .. n
      BY <1>3, <1>4
    <3>2. after[n - 1] = before[n - 1]
      BY <3>1
    <3> QED
      BY <2>1, <3>1, <3>2, <1>4
  <2>2. CASE m # n
    <3>1. m \in 0 .. n - 1 /\ (m # 0 => m - 1 \in 0 .. n /\ m - 1 # n)
      BY <2>2, <1>3, <1>4
    <3>2. before[m] = IF m = 0 THEN members ELSE AbsorbStep(before[m - 1], Nth(older, m))
      BY <1>5, <3>1 DEF AbsorbTurns
    <3>3. m # 0 => after[m - 1] = before[m - 1]
      BY <3>1
    <3>4. after[m] = before[m]
      BY <2>2
    <3> HIDE DEF after
    <3> QED
      BY <3>2, <3>3, <3>4
  <2> QED
    BY <2>1, <2>2
<1>7. AbsorbTurns(members, older, after, n)
  <2>1. after = [m \in 0 .. n |-> after[m]]
    OBVIOUS
  <2> HIDE DEF after
  <2> QED
    BY <1>6, <2>1 DEF AbsorbTurns
<1> QED
  BY <1>3, <1>7

AbsorbAt(members, older) ==
  CHOOSE after : AbsorbTurns(members, older, after, Cardinality(older))

\* Absorbed is where that ends.
LEMMA AbsorbedIs ==
  ASSUME NEW members, NEW older, NEW s
  PROVE  Absorbed(members, older, s) = AbsorbAt(members, older)[Cardinality(older)]
BY DEF Absorbed, AbsorbAt, AbsorbTurns, AbsorbStep, Nth

IsDrawn(members, older, M) ==
  members \subseteq M /\ M \subseteq members \cup older /\ Tight(M)

\* A tight pool stays tight, keeps its members, and takes none but the others.
LEMMA AbsorbedFacts ==
  ASSUME NEW B \in Seq(Candle), NEW older, older \subseteq Swings(B),
         \A t, u \in older : t.side = u.side,
         NEW members, members \subseteq Swings(B), Tight(members), NEW s
  PROVE  IsDrawn(members, older, Absorbed(members, older, s))
<1> DEFINE n     == Cardinality(older)
           after == AbsorbAt(members, older)
           Good(m) == members \subseteq m /\ m \subseteq members \cup older /\ Tight(m)
           K     == {i \in 0 .. n : ~Good(after[i])}
<1>1. n \in Nat
  BY PriceFacts, FS_CardinalityType
<1>2. AbsorbTurns(members, older, after, n)
  BY <1>1, AbsorbTurnsExist DEF AbsorbAt
<1>3. Absorbed(members, older, s) = after[n]
  BY AbsorbedIs
<1> HIDE DEF after, n
<1>4. \A i \in 0 .. n : after[i] = IF i = 0 THEN members
                                  ELSE AbsorbStep(after[i - 1], Nth(older, i))
  BY <1>2 DEF AbsorbTurns
<1>5. K = {}
  <2>1. SUFFICES ASSUME K # {} PROVE FALSE
    OBVIOUS
  <2>2. PICK i \in K : \A m \in K : i <= m
    <3>1. K \subseteq 0 .. n /\ 0 \in Int /\ n \in Int
      BY <1>1
    <3> HIDE DEF K
    <3> QED
      BY <2>1, <3>1, FirstOf
  <2>3. i \in 0 .. n /\ ~Good(after[i])
    OBVIOUS
  <2>4. i # 0
    <3>1. after[0] = members
      BY <1>1, <1>4
    <3> QED
      BY <2>3, <3>1
  <2>5. i \in 1 .. n /\ i - 1 \in 0 .. n /\ ~(i <= i - 1)
    BY <1>1, <2>3, <2>4
  <2>6. Good(after[i - 1])
    <3>1. i - 1 \notin K
      <4> HIDE DEF K
      <4> QED
        BY <2>2, <2>5
    <3> QED
      BY <2>5, <3>1
  <2>7. Nth(older, i) \in older
    BY <2>5, NthFacts DEF n
  <2>8. after[i] = AbsorbStep(after[i - 1], Nth(older, i))
    BY <1>4, <2>3, <2>4
  <2> DEFINE m == after[i - 1]
             t == Nth(older, i)
  <2> HIDE DEF m, t
  <2>9. CASE SpanWith(m, t.price) <= Tolerance
    <3>1. after[i] = m \cup {t}
      BY <2>8, <2>9 DEF AbsorbStep, m, t
    <3>2. m \subseteq Swings(B) /\ t \in Swings(B)
      BY <2>6, <2>7 DEF m, t
    <3>3. Tight(m \cup {t})
      BY <2>9, <3>2, SpanFacts
    <3> QED
      BY <2>3, <2>6, <2>7, <3>1, <3>3 DEF m, t
  <2>10. CASE ~(SpanWith(m, t.price) <= Tolerance)
    <3>1. after[i] = m
      BY <2>8, <2>10 DEF AbsorbStep, m, t
    <3> QED
      BY <2>3, <2>6, <3>1 DEF m
  <2> QED
    BY <2>9, <2>10
<1>6. Good(after[n])
  <2>1. n \in 0 .. n
    BY <1>1
  <2> QED
    BY <1>5, <2>1
<1> QED
  BY <1>3, <1>6 DEF IsDrawn

-----------------------------------------------------------------------------
(* What the loop of analyse_liquidity keeps *)

PoolStatuses == {"ACTIVE", "SWEPT", "CLOSED_THROUGH"}

PoolSound(B, i, p) ==
  /\ p = [side |-> p.side, formed |-> p.formed, founding |-> p.founding,
          members |-> p.members, status |-> p.status, ended |-> p.ended]
  /\ p.side \in Directions /\ p.status \in PoolStatuses
  /\ p.members \subseteq Swings(B) /\ \A s \in p.members : s.side = p.side
  /\ Cardinality(p.members) > 1 /\ p.members # {} /\ Tight(p.members)
  /\ p.formed \in 1 .. Len(B) /\ p.formed <= i
  /\ \E s \in p.members : s.at = p.formed
  /\ p.status = "ACTIVE" =>
       \A j \in p.formed + 1 .. i : ~Beyond(p.side, Extreme(B[j], p.side), PoolBoundary(p))

\* K: the swings admitted so far.
LiquidityInv(B, i, K, liq) ==
  /\ liq = [pools |-> liq.pools, unpaired |-> liq.unpaired]
  /\ K \subseteq Swings(B)
  /\ liq.unpaired \subseteq K
  /\ \A p \in liq.pools : /\ PoolSound(B, i, p) /\ p.members \subseteq K
                          /\ p.members \cap liq.unpaired = {}
  /\ \A p, q \in liq.pools : p # q => p.members \cap q.members = {}

\* What the later analysis still says of a pool of the earlier one.
PoolKept(p, q) ==
  /\ q.founding = p.founding /\ q.formed = p.formed /\ p.members \subseteq q.members
  /\ PoolBoundary(q) = PoolBoundary(p)
  /\ p.status # "ACTIVE" => q = p

\* A candle that strikes a pool or not leaves it sound.
LEMMA StrikesKeep ==
  ASSUME NEW B \in Seq(Candle), NEW i \in 1 .. Len(B), NEW p, PoolSound(B, i - 1, p)
  PROVE  LET how == StruckBy(p, B[i], i)
             q   == IF how = "NOT_STRUCK" THEN p ELSE [p EXCEPT !.status = how, !.ended = i]
         IN  PoolSound(B, i, q) /\ q.members = p.members /\ q.side = p.side /\ PoolKept(p, q)
<1> DEFINE how == StruckBy(p, B[i], i)
           q   == IF how = "NOT_STRUCK" THEN p ELSE [p EXCEPT !.status = how, !.ended = i]
<1>1. /\ p = [side |-> p.side, formed |-> p.formed, founding |-> p.founding,
              members |-> p.members, status |-> p.status, ended |-> p.ended]
      /\ p.side \in Directions /\ p.status \in PoolStatuses
      /\ p.members \subseteq Swings(B) /\ \A s \in p.members : s.side = p.side
      /\ Cardinality(p.members) > 1 /\ p.members # {} /\ Tight(p.members)
      /\ p.formed \in 1 .. Len(B) /\ p.formed <= i - 1
      /\ \E s \in p.members : s.at = p.formed
  BY DEF PoolSound
<1>2. p.status = "ACTIVE" =>
        \A j \in p.formed + 1 .. i - 1 :
          ~Beyond(p.side, Extreme(B[j], p.side), PoolBoundary(p))
  BY DEF PoolSound
<1>3. p.formed < i /\ p.formed <= i
  BY <1>1
<1>4. how # "NOT_STRUCK" =>
        p.status = "ACTIVE" /\ how # "ACTIVE" /\ how \in PoolStatuses
  BY DEF StruckBy, Touchable, PoolStatuses
<1>5. how = "NOT_STRUCK" /\ p.status = "ACTIVE" =>
        ~Beyond(p.side, Extreme(B[i], p.side), PoolBoundary(p))
  BY <1>3 DEF StruckBy, Touchable
<1> HIDE DEF how
<1>6. CASE how = "NOT_STRUCK"
  <2>1. q = p
    BY <1>6
  <2>2. p.status = "ACTIVE" =>
          \A j \in p.formed + 1 .. i :
            ~Beyond(p.side, Extreme(B[j], p.side), PoolBoundary(p))
    <3> SUFFICES ASSUME p.status = "ACTIVE", NEW j \in p.formed + 1 .. i
                 PROVE  ~Beyond(p.side, Extreme(B[j], p.side), PoolBoundary(p))
      OBVIOUS
    <3>1. CASE j = i
      BY <1>5, <1>6, <3>1
    <3>2. CASE j # i
      <4>1. j \in p.formed + 1 .. i - 1
        BY <1>1, <3>2
      <4> QED
        BY <1>2, <4>1
    <3> QED
      BY <3>1, <3>2
  <2> HIDE DEF q
  <2>3. PoolSound(B, i, p)
    BY <1>1, <1>3, <2>2 DEF PoolSound
  <2> QED
    BY <2>1, <2>3 DEF PoolKept, q, how
<1>7. CASE how # "NOT_STRUCK"
  <2>1. q = [side |-> p.side, formed |-> p.formed, founding |-> p.founding,
             members |-> p.members, status |-> how, ended |-> i]
    <3>1. q = [p EXCEPT !.status = how, !.ended = i]
      BY <1>7
    <3>2. PICK a, b, c, d, e, f :
            p = [side |-> a, formed |-> b, founding |-> c, members |-> d, status |-> e,
                 ended |-> f]
      BY <1>1
    <3> HIDE DEF q
    <3>3. q = [side |-> a, formed |-> b, founding |-> c, members |-> d, status |-> how,
               ended |-> i]
      BY <3>1, <3>2
    <3>4. p.side = a /\ p.formed = b /\ p.founding = c /\ p.members = d
      BY <3>2
    <3> QED
      BY <3>3, <3>4
  <2> HIDE DEF q
  <2>2. /\ q = [side |-> q.side, formed |-> q.formed, founding |-> q.founding,
                members |-> q.members, status |-> q.status, ended |-> q.ended]
        /\ q.side = p.side /\ q.formed = p.formed /\ q.founding = p.founding
        /\ q.members = p.members /\ q.status = how
    BY <2>1
  <2>3. PoolBoundary(q) = PoolBoundary(p)
    BY <2>2 DEF PoolBoundary, PoolUpper, PoolLower
  <2>4. q.status # "ACTIVE" /\ p.status = "ACTIVE" /\ q.status \in PoolStatuses
    BY <1>4, <1>7, <2>2
  <2>5. PoolSound(B, i, q)
    BY <1>1, <1>3, <2>2, <2>4 DEF PoolSound
  <2> QED
    BY <2>2, <2>3, <2>4, <2>5 DEF PoolKept, q, how
<1> QED
  BY <1>6, <1>7

\* The strikes of a candle keep the invariant and every pool.
LEMMA StruckLiquidity ==
  ASSUME NEW B \in Seq(Candle), NEW i \in 1 .. Len(B), NEW K, NEW liq,
         LiquidityInv(B, i - 1, K, liq)
  PROVE  LET then == [liq EXCEPT !.pools = AfterStrikes(@, B[i], i)] IN
         /\ LiquidityInv(B, i, K, then)
         /\ \A p \in liq.pools : \E q \in then.pools : PoolKept(p, q)
<1> DEFINE then  == [liq EXCEPT !.pools = AfterStrikes(@, B[i], i)]
           hit(p) == LET how == StruckBy(p, B[i], i) IN
             IF how = "NOT_STRUCK" THEN p ELSE [p EXCEPT !.status = how, !.ended = i]
<1>1. /\ liq = [pools |-> liq.pools, unpaired |-> liq.unpaired]
      /\ K \subseteq Swings(B) /\ liq.unpaired \subseteq K
      /\ \A p \in liq.pools : /\ PoolSound(B, i - 1, p) /\ p.members \subseteq K
                              /\ p.members \cap liq.unpaired = {}
      /\ \A p, q \in liq.pools : p # q => p.members \cap q.members = {}
  BY DEF LiquidityInv
<1>2. AfterStrikes(liq.pools, B[i], i) = {hit(p) : p \in liq.pools}
  BY DEF AfterStrikes
<1>3. ASSUME NEW p \in liq.pools
      PROVE  PoolSound(B, i, hit(p)) /\ hit(p).members = p.members /\ PoolKept(p, hit(p))
  <2>1. PoolSound(B, i - 1, p)
    BY <1>1
  <2> QED
    BY ZenonT(60), <2>1, StrikesKeep
<1>4. then = [pools |-> {hit(p) : p \in liq.pools}, unpaired |-> liq.unpaired]
  <2>1. then = [liq EXCEPT !.pools = AfterStrikes(liq.pools, B[i], i)]
    OBVIOUS
  <2>2. PICK a, b : liq = [pools |-> a, unpaired |-> b]
    BY <1>1
  <2> HIDE DEF then, hit
  <2>3. liq.pools = a /\ liq.unpaired = b
    BY <2>2
  <2> QED
    BY <1>2, <2>1, <2>2, <2>3
<1> HIDE DEF then, hit
<1>5. then.pools = {hit(p) : p \in liq.pools} /\ then.unpaired = liq.unpaired
      /\ then = [pools |-> then.pools, unpaired |-> then.unpaired]
  BY <1>4
<1>6. \A q \in then.pools : \E p \in liq.pools : q = hit(p)
  BY <1>5
<1>7. \A q \in then.pools : /\ PoolSound(B, i, q) /\ q.members \subseteq K
                            /\ q.members \cap then.unpaired = {}
  BY <1>1, <1>3, <1>5, <1>6
<1>8. ASSUME NEW q \in then.pools, NEW r \in then.pools, q # r
      PROVE  q.members \cap r.members = {}
  <2>1. PICK x \in liq.pools : q = hit(x)
    BY <1>6
  <2>2. PICK y \in liq.pools : r = hit(y)
    BY <1>6
  <2>3. x # y
    BY <1>8, <2>1, <2>2
  <2> QED
    BY <1>1, <1>3, <2>1, <2>2, <2>3
<1>9. LiquidityInv(B, i, K, then)
  BY <1>1, <1>5, <1>7, <1>8 DEF LiquidityInv
<1>10. \A p \in liq.pools : \E q \in then.pools : PoolKept(p, q)
  BY <1>3, <1>5
<1> QED
  BY <1>9, <1>10 DEF then

\* A swing confirmed now is not beyond a live pool of its side: its candle is in
\* the window of the pool's founder, or has closed without taking the pool.
LEMMA NewcomerInside ==
  ASSUME NEW B \in Seq(Candle), NEW i \in 1 .. Len(B), NEW p, PoolSound(B, i, p),
         p.status = "ACTIVE",
         NEW s \in Swings(B), s.at = i, s.side = p.side, s \notin p.members
  PROVE  ~Beyond(p.side, s.price, PoolBoundary(p))
<1>1. /\ p.side \in Directions /\ p.members \subseteq Swings(B) /\ p.members # {}
      /\ \A t \in p.members : t.side = p.side
      /\ p.formed \in 1 .. Len(B) /\ p.formed <= i
      /\ \A j \in p.formed + 1 .. i : ~Beyond(p.side, Extreme(B[j], p.side), PoolBoundary(p))
  BY DEF PoolSound
<1>2. PICK f \in p.members : f.at = p.formed
  BY DEF PoolSound
<1>3. f \in Swings(B) /\ f.side = s.side /\ f # s
  BY <1>1, <1>2
<1>4. /\ f.at = f.pivot + RightBars /\ f.pivot \in Int /\ f.price \in Int
      /\ s.at = s.pivot + RightBars /\ s.pivot \in Int /\ s.price \in Int
      /\ s.price = Extreme(B[s.pivot], s.side)
  BY <1>3, SwingFacts
<1>5. f.pivot # s.pivot
  BY <1>3, OneSwing
<1>6. f.pivot < s.pivot /\ s.pivot < i
  BY <1>1, <1>2, <1>4, <1>5, WindowFacts
<1>7. PoolBoundary(p) \in Int /\ ~Beyond(p.side, f.price, PoolBoundary(p))
  BY <1>1, <1>2, BoundaryIs
<1>8. CASE s.pivot <= f.pivot + RightBars
  <2>1. Beyond(f.side, f.price, Extreme(B[s.pivot], f.side))
    BY <1>3, <1>4, <1>6, <1>8, Furthest
  <2>2. Beyond(p.side, f.price, s.price)
    BY <1>1, <1>2, <1>3, <1>4, <2>1
  <2> QED
    BY <1>1, <1>4, <1>7, <2>2, BeyondOrder
<1>9. CASE s.pivot > f.pivot + RightBars
  <2>1. s.pivot \in p.formed + 1 .. i
    BY <1>1, <1>2, <1>4, <1>6, <1>9
  <2>2. ~Beyond(p.side, Extreme(B[s.pivot], p.side), PoolBoundary(p))
    BY <1>1, <2>1
  <2> QED
    BY <1>4, <2>2
<1> QED
  BY <1>4, <1>8, <1>9, WindowFacts

\* A pool that a swing joins stays sound and keeps what it had.
LEMMA JoinKeeps ==
  ASSUME NEW B \in Seq(Candle), NEW i \in 1 .. Len(B), NEW p, PoolSound(B, i, p),
         p.status = "ACTIVE",
         NEW s \in Swings(B), s.at = i, s.side = p.side, s \notin p.members,
         SpanWith(p.members, s.price) <= Tolerance
  PROVE  LET q == [p EXCEPT !.members = @ \cup {s}] IN
         PoolSound(B, i, q) /\ q.members = p.members \cup {s} /\ PoolKept(p, q)
<1> DEFINE q == [p EXCEPT !.members = @ \cup {s}]
<1>1. /\ p = [side |-> p.side, formed |-> p.formed, founding |-> p.founding,
              members |-> p.members, status |-> p.status, ended |-> p.ended]
      /\ p.side \in Directions /\ p.status \in PoolStatuses
      /\ p.members \subseteq Swings(B) /\ \A t \in p.members : t.side = p.side
      /\ Cardinality(p.members) > 1 /\ p.members # {}
      /\ p.formed \in 1 .. Len(B) /\ p.formed <= i
      /\ \E t \in p.members : t.at = p.formed
      /\ \A j \in p.formed + 1 .. i : ~Beyond(p.side, Extreme(B[j], p.side), PoolBoundary(p))
  BY DEF PoolSound
<1>2. /\ q = [side |-> p.side, formed |-> p.formed, founding |-> p.founding,
              members |-> p.members \cup {s}, status |-> p.status, ended |-> p.ended]
  <2>1. q = [p EXCEPT !.members = p.members \cup {s}]
    OBVIOUS
  <2>2. PICK a, b, c, d, e, f :
          p = [side |-> a, formed |-> b, founding |-> c, members |-> d, status |-> e,
               ended |-> f]
    BY <1>1
  <2>3. p.side = a /\ p.formed = b /\ p.founding = c /\ p.members = d /\ p.status = e
        /\ p.ended = f
    BY <2>2
  <2> HIDE DEF q
  <2>4. q = [side |-> a, formed |-> b, founding |-> c, members |-> d \cup {s},
             status |-> e, ended |-> f]
    BY <2>1, <2>2, <2>3
  <2> QED
    BY <2>3, <2>4
<1> HIDE DEF q
<1>3. /\ q = [side |-> q.side, formed |-> q.formed, founding |-> q.founding,
              members |-> q.members, status |-> q.status, ended |-> q.ended]
      /\ q.side = p.side /\ q.formed = p.formed /\ q.founding = p.founding
      /\ q.status = p.status
  BY <1>2
<1>4. q.members = p.members \cup {s}
  BY <1>2
<1>5. Tight(q.members)
  <2>1. Tight(p.members \cup {s})
    BY <1>1, SpanFacts
  <2> QED
    BY <1>4, <2>1
<1>6. Cardinality(q.members) > 1
  <2>1. IsFiniteSet(p.members)
    BY <1>1, PriceFacts
  <2>2. Cardinality(p.members \cup {s}) = Cardinality(p.members) + 1
    BY <2>1, FS_AddElement
  <2>3. Cardinality(p.members) \in Nat
    BY <2>1, FS_CardinalityType
  <2> QED
    BY <1>1, <1>4, <2>2, <2>3
<1>7. q.members \subseteq Swings(B) /\ q.members # {} /\ \A t \in q.members : t.side = q.side
  BY <1>1, <1>3, <1>4
<1>8. PoolBoundary(q) = PoolBoundary(p)
  <2>1. /\ PoolBoundary(p) \in Int /\ \E t \in p.members : t.price = PoolBoundary(p)
        /\ \A t \in p.members : t.price \in Int /\ ~Beyond(p.side, t.price, PoolBoundary(p))
    BY <1>1, BoundaryIs
  <2>2. /\ PoolBoundary(q) \in Int /\ \E t \in q.members : t.price = PoolBoundary(q)
        /\ \A t \in q.members : t.price \in Int /\ ~Beyond(q.side, t.price, PoolBoundary(q))
    BY <1>1, <1>3, <1>7, BoundaryIs
  <2>3. ~Beyond(p.side, s.price, PoolBoundary(p))
    BY NewcomerInside
  <2>4. ~Beyond(p.side, PoolBoundary(q), PoolBoundary(p))
    BY <1>4, <2>1, <2>2, <2>3
  <2>5. ~Beyond(p.side, PoolBoundary(p), PoolBoundary(q))
    BY <1>3, <1>4, <2>1, <2>2
  <2> QED
    BY <1>1, <2>1, <2>2, <2>4, <2>5, BeyondOrder
<1>9. PoolSound(B, i, q)
  BY <1>1, <1>3, <1>4, <1>5, <1>6, <1>7, <1>8 DEF PoolSound
<1> QED
  BY <1>3, <1>4, <1>8, <1>9 DEF PoolKept, q

IsBestPool(pools, s, p) ==
  /\ p \in pools /\ p.side = s.side /\ p.status = "ACTIVE"
  /\ SpanWith(p.members, s.price) <= Tolerance
  /\ \A q \in BestPool(pools, s) : q = p

\* One pool is the best, if any is: two pools of a side were founded by
\* different swings.
LEMMA OneBestPool ==
  ASSUME NEW B \in Seq(Candle), NEW i, NEW K, NEW liq, LiquidityInv(B, i, K, liq),
         NEW s, NEW p \in BestPool(liq.pools, s)
  PROVE  IsBestPool(liq.pools, s, p)
<1>1. ASSUME NEW x \in BestPool(liq.pools, s)
      PROVE  /\ x \in EligiblePools(liq.pools, s)
             /\ \A y \in BestPool(liq.pools, s) : 0 - x.formed <= 0 - y.formed
  BY DEF BestPool, Closest
<1>2. ASSUME NEW x \in BestPool(liq.pools, s)
      PROVE  /\ x \in liq.pools /\ x.side = s.side /\ x.status = "ACTIVE"
             /\ SpanWith(x.members, s.price) <= Tolerance
  BY <1>1 DEF EligiblePools
<1>3. ASSUME NEW q \in BestPool(liq.pools, s), q # p PROVE FALSE
  <2>1. p \in liq.pools /\ q \in liq.pools /\ p.side = q.side
    BY <1>2
  <2>2. PoolSound(B, i, p) /\ PoolSound(B, i, q) /\ p.members \cap q.members = {}
    BY <1>3, <2>1 DEF LiquidityInv
  <2>3. p.formed \in Int /\ q.formed \in Int
    BY <2>2 DEF PoolSound
  <2>4. 0 - p.formed <= 0 - q.formed /\ 0 - q.formed <= 0 - p.formed
    BY <1>1
  <2>5. p.formed = q.formed
    BY <2>3, <2>4
  <2>6. PICK f \in p.members : f.at = p.formed
    BY <2>2 DEF PoolSound
  <2>7. PICK g \in q.members : g.at = q.formed
    BY <2>2 DEF PoolSound
  <2>8. f \in Swings(B) /\ g \in Swings(B) /\ f.side = g.side
    BY <2>1, <2>2 DEF PoolSound
  <2>9. f.pivot = g.pivot
    <3>1. /\ f.at = f.pivot + RightBars /\ f.pivot \in Int
          /\ g.at = g.pivot + RightBars /\ g.pivot \in Int
      BY <2>8, SwingFacts
    <3> QED
      BY <2>5, <2>6, <2>7, <3>1, WindowFacts
  <2>10. f = g
    BY <2>8, <2>9, OneSwing
  <2> QED
    BY <2>2, <2>10
<1> QED
  BY <1>2, <1>3 DEF IsBestPool

IsPartner(unpaired, s, t) ==
  /\ t \in unpaired /\ t.side = s.side /\ Tight({s, t})
  /\ BestPartner(unpaired, s) = {t}

\* The partner chosen for a swing is a partner.
LEMMA OnePartner ==
  ASSUME NEW B \in Seq(Candle), NEW unpaired, unpaired \subseteq Swings(B),
         NEW s \in Swings(B), NEW t \in BestPartner(unpaired, s)
  PROVE  IsPartner(unpaired, s, t)
<1>1. ASSUME NEW x \in BestPartner(unpaired, s)
      PROVE  /\ x \in unpaired /\ x.side = s.side /\ Distance(x.price, s.price) <= Tolerance
             /\ \A y \in BestPartner(unpaired, s) : x.at <= y.at
  BY DEF BestPartner, Closest
<1>2. ASSUME NEW x \in BestPartner(unpaired, s) PROVE x = t
  <2>1. x.at <= t.at /\ t.at <= x.at /\ x.side = t.side
        /\ x \in Swings(B) /\ t \in Swings(B)
    BY <1>1
  <2>2. /\ x.at = x.pivot + RightBars /\ x.pivot \in Int
        /\ t.at = t.pivot + RightBars /\ t.pivot \in Int
    BY <2>1, SwingFacts
  <2>3. x.pivot = t.pivot
    BY <2>1, <2>2, WindowFacts
  <2> QED
    BY <2>1, <2>3, OneSwing
<1>3. Tight({s, t})
  <2>1. t \in Swings(B) /\ Distance(t.price, s.price) <= Tolerance
    BY <1>1
  <2>2. s.price \in Int /\ t.price \in Int /\ Tolerance \in Nat
    BY <2>1, SwingFacts, ZoneAssumption
  <2>3. s.price - t.price <= Tolerance /\ t.price - s.price <= Tolerance
        /\ s.price - s.price <= Tolerance /\ t.price - t.price <= Tolerance
    BY <2>1, <2>2 DEF Distance
  <2> QED
    BY <2>3 DEF Tight
<1> QED
  BY <1>1, <1>2, <1>3 DEF IsPartner

-----------------------------------------------------------------------------
(* One swing admitted: it joins a pool, founds one, or waits *)

Joined(liq, s) ==
  [liq EXCEPT !.pools = {IF pool \in BestPool(liq.pools, s)
                         THEN [pool EXCEPT !.members = @ \cup {s}] ELSE pool : pool \in @}]
Founded(liq, s, partner, members) ==
  [pools |-> liq.pools \cup
     {[side |-> s.side, formed |-> s.at, founding |-> {s} \cup partner,
       members |-> members, status |-> "ACTIVE", ended |-> 0]},
   unpaired |-> liq.unpaired \ members]
Waiting(liq, s) == [liq EXCEPT !.unpaired = @ \cup {s}]
Absorbable(liq, s) == {t \in liq.unpaired \ BestPartner(liq.unpaired, s) : t.side = s.side}
Drawn(liq, s) == Absorbed({s} \cup BestPartner(liq.unpaired, s), Absorbable(liq, s), s)

\* The three ways a swing is admitted.
LEMMA AdmittedIs ==
  ASSUME NEW liq, NEW s
  PROVE  Admitted(liq, s) =
           IF BestPool(liq.pools, s) # {} THEN Joined(liq, s)
           ELSE IF BestPartner(liq.unpaired, s) # {}
                THEN Founded(liq, s, BestPartner(liq.unpaired, s), Drawn(liq, s))
                ELSE Waiting(liq, s)
BY DEF Admitted, Joined, Founded, Waiting, Drawn, Absorbable

\* What admitting a swing has to keep.
AdmissionKeeps(B, i, K, liq, s, then) ==
  /\ LiquidityInv(B, i, K \cup {s}, then)
  /\ \A p \in liq.pools : \E q \in then.pools : PoolKept(p, q)

\* A pool left alone is kept.
LEMMA KeptAsIs == ASSUME NEW p PROVE PoolKept(p, p)
BY DEF PoolKept

\* The swing that joins a pool.
LEMMA JoinedKeeps ==
  ASSUME NEW B \in Seq(Candle), NEW i \in 1 .. Len(B), NEW K, NEW liq,
         LiquidityInv(B, i, K, liq), NEW s \in Swings(B), s \notin K, s.at = i,
         BestPool(liq.pools, s) # {}
  PROVE  AdmissionKeeps(B, i, K, liq, s, Joined(liq, s))
<1>1. /\ liq = [pools |-> liq.pools, unpaired |-> liq.unpaired]
      /\ K \subseteq Swings(B) /\ liq.unpaired \subseteq K
      /\ \A p \in liq.pools : /\ PoolSound(B, i, p) /\ p.members \subseteq K
                              /\ p.members \cap liq.unpaired = {}
      /\ \A p, q \in liq.pools : p # q => p.members \cap q.members = {}
  BY DEF LiquidityInv
<1>2. PICK p \in BestPool(liq.pools, s) : TRUE
  OBVIOUS
<1>3. /\ p \in liq.pools /\ p.side = s.side /\ p.status = "ACTIVE"
      /\ SpanWith(p.members, s.price) <= Tolerance
      /\ \A q \in BestPool(liq.pools, s) : q = p
  <2>1. IsBestPool(liq.pools, s, p)
    BY OneBestPool
  <2> QED
    BY <2>1 DEF IsBestPool
<1>4. s \notin p.members /\ PoolSound(B, i, p)
  BY <1>1, <1>3
<1> DEFINE grown  == [p EXCEPT !.members = @ \cup {s}]
           now(x) == IF x = p THEN grown ELSE x
           then   == Joined(liq, s)
<1>5. PoolSound(B, i, grown) /\ grown.members = p.members \cup {s} /\ PoolKept(p, grown)
  BY <1>3, <1>4, JoinKeeps
<1>6. then = [pools |-> {now(x) : x \in liq.pools}, unpaired |-> liq.unpaired]
  <2>1. {IF pool \in BestPool(liq.pools, s) THEN [pool EXCEPT !.members = @ \cup {s}] ELSE pool :
           pool \in liq.pools} = {now(x) : x \in liq.pools}
    <3>1. \A x \in liq.pools : x \in BestPool(liq.pools, s) <=> x = p
      BY <1>2, <1>3
    <3>2. \A x \in liq.pools :
            (IF x \in BestPool(liq.pools, s) THEN [x EXCEPT !.members = @ \cup {s}] ELSE x)
              = now(x)
      BY <3>1
    <3> QED
      BY <3>2
  <2>2. then = [liq EXCEPT !.pools = {now(x) : x \in liq.pools}]
    BY <2>1 DEF Joined
  <2>3. PICK a, b : liq = [pools |-> a, unpaired |-> b]
    BY <1>1
  <2> HIDE DEF then, now
  <2>4. liq.pools = a /\ liq.unpaired = b
    BY <2>3
  <2> QED
    BY <2>2, <2>3, <2>4
<1>7. \A x \in liq.pools : /\ PoolSound(B, i, now(x)) /\ PoolKept(x, now(x))
                           /\ now(x).members \subseteq K \cup {s}
                           /\ now(x).members \cap liq.unpaired = {}
                           /\ x # p => s \notin now(x).members
                           /\ now(x).members \ {s} = x.members
  <2>1. \A x \in liq.pools : s \notin x.members
    BY <1>1
  <2>2. s \notin liq.unpaired
    BY <1>1
  <2>3. /\ PoolSound(B, i, now(p)) /\ PoolKept(p, now(p))
        /\ now(p).members \subseteq K \cup {s}
        /\ now(p).members \cap liq.unpaired = {}
        /\ now(p).members \ {s} = p.members
    <3> HIDE DEF grown
    <3> QED
      BY <1>1, <1>3, <1>5, <2>1, <2>2
  <2>4. \A x \in liq.pools : x # p => now(x) = x
    OBVIOUS
  <2> HIDE DEF now
  <2> QED
    BY <1>1, <1>3, <2>1, <2>3, <2>4, KeptAsIs
<1> HIDE DEF then, now
<1>8. /\ then.pools = {now(x) : x \in liq.pools} /\ then.unpaired = liq.unpaired
      /\ then = [pools |-> then.pools, unpaired |-> then.unpaired]
  BY <1>6
<1>9. \A q \in then.pools : \E x \in liq.pools : q = now(x)
  BY <1>8
<1>10. \A q \in then.pools : /\ PoolSound(B, i, q) /\ q.members \subseteq K \cup {s}
                             /\ q.members \cap then.unpaired = {}
  BY <1>7, <1>8, <1>9
<1>11. ASSUME NEW q \in then.pools, NEW r \in then.pools, q # r
       PROVE  q.members \cap r.members = {}
  <2>1. PICK x \in liq.pools : q = now(x)
    BY <1>9
  <2>2. PICK y \in liq.pools : r = now(y)
    BY <1>9
  <2>3. x # y
    BY <1>11, <2>1, <2>2
  <2>4. x.members \cap y.members = {}
    BY <1>1, <2>3
  <2>5. ~(s \in q.members /\ s \in r.members)
    BY <1>7, <2>1, <2>2, <2>3
  <2> QED
    BY <1>7, <2>1, <2>2, <2>4, <2>5
<1>12. K \cup {s} \subseteq Swings(B) /\ then.unpaired \subseteq K \cup {s}
  BY <1>1, <1>8
<1>13. LiquidityInv(B, i, K \cup {s}, then)
  BY <1>8, <1>10, <1>11, <1>12 DEF LiquidityInv
<1>14. \A x \in liq.pools : \E q \in then.pools : PoolKept(x, q)
  BY <1>7, <1>8
<1> QED
  BY <1>13, <1>14 DEF AdmissionKeeps, then

\* The swing that founds a pool with its partner and those it absorbs.
LEMMA FoundedKeeps ==
  ASSUME NEW B \in Seq(Candle), NEW i \in 1 .. Len(B), NEW K, NEW liq,
         LiquidityInv(B, i, K, liq), NEW s \in Swings(B), s \notin K, s.at = i,
         BestPartner(liq.unpaired, s) # {}
  PROVE  AdmissionKeeps(B, i, K, liq, s,
                        Founded(liq, s, BestPartner(liq.unpaired, s), Drawn(liq, s)))
<1>1. /\ liq = [pools |-> liq.pools, unpaired |-> liq.unpaired]
      /\ K \subseteq Swings(B) /\ liq.unpaired \subseteq K
      /\ \A p \in liq.pools : /\ PoolSound(B, i, p) /\ p.members \subseteq K
                              /\ p.members \cap liq.unpaired = {}
      /\ \A p, q \in liq.pools : p # q => p.members \cap q.members = {}
  BY DEF LiquidityInv
<1> DEFINE partner == BestPartner(liq.unpaired, s)
           older   == Absorbable(liq, s)
           M       == Drawn(liq, s)
           new     == [side |-> s.side, formed |-> s.at, founding |-> {s} \cup partner,
                       members |-> M, status |-> "ACTIVE", ended |-> 0]
           then    == Founded(liq, s, partner, M)
<1>2. PICK t \in partner : TRUE
  OBVIOUS
<1>3. liq.unpaired \subseteq Swings(B)
  BY <1>1
<1>4. t \in liq.unpaired /\ t.side = s.side /\ Tight({s, t}) /\ partner = {t}
  <2>1. IsPartner(liq.unpaired, s, t)
    BY <1>3, OnePartner
  <2> QED
    BY <2>1 DEF IsPartner, partner
<1>5. /\ older \subseteq Swings(B) /\ older \subseteq liq.unpaired
      /\ \A x \in older : x.side = s.side
  BY <1>3 DEF Absorbable
<1> HIDE DEF partner, older
<1>6. {s} \cup partner = {s, t} /\ {s, t} \subseteq Swings(B)
  BY <1>3, <1>4
<1>7. M = Absorbed({s, t}, older, s)
  BY <1>6 DEF Drawn, partner, older
<1>8. \A x, y \in older : x.side = y.side
  BY <1>5
<1>9. /\ {s, t} \subseteq M /\ M \subseteq {s, t} \cup older /\ Tight(M)
  <2>1. IsDrawn({s, t}, older, Absorbed({s, t}, older, s))
    BY <1>4, <1>5, <1>6, <1>8, AbsorbedFacts
  <2> QED
    BY <1>7, <2>1 DEF IsDrawn
<1> HIDE DEF M
<1>10. M \subseteq Swings(B) /\ M # {} /\ (\A x \in M : x.side = s.side) /\ s \in M
       /\ M \subseteq K \cup {s} /\ M \ {s} \subseteq liq.unpaired
  BY <1>1, <1>4, <1>5, <1>6, <1>9
<1>11. Cardinality(M) > 1
  <2>1. IsFiniteSet(M)
    BY <1>10, PriceFacts
  <2>2. s # t
    BY <1>1, <1>4
  <2>3. IsFiniteSet({t}) /\ Cardinality({t}) = 1
    BY FS_Singleton
  <2>4. Cardinality({t} \cup {s}) = 2
    <3>1. Cardinality({t} \cup {s}) = Cardinality({t}) + 1
      BY <2>2, <2>3, FS_AddElement
    <3> QED
      BY <2>3, <3>1
  <2>5. {t} \cup {s} \in SUBSET M
    BY <1>9
  <2>6. Cardinality({t} \cup {s}) <= Cardinality(M)
    BY <2>1, <2>5, FS_Subset
  <2>7. Cardinality(M) \in Nat
    BY <2>1, FS_CardinalityType
  <2> DEFINE pair == {t} \cup {s}
  <2>8. Cardinality(pair) = 2 /\ Cardinality(pair) <= Cardinality(M)
    BY <2>4, <2>6
  <2> HIDE DEF pair
  <2> QED
    BY <2>7, <2>8
<1>12. PoolSound(B, i, new)
  <2>1. /\ new.side = s.side /\ new.formed = i /\ new.members = M /\ new.status \in PoolStatuses
        /\ new = [side |-> new.side, formed |-> new.formed, founding |-> new.founding,
                  members |-> new.members, status |-> new.status, ended |-> new.ended]
    BY DEF PoolStatuses
  <2>2. s.side \in Directions
    BY SwingFacts
  <2>3. \A j \in new.formed + 1 .. i :
          ~Beyond(new.side, Extreme(B[j], new.side), PoolBoundary(new))
    <3>1. \A j : j \notin i + 1 .. i
      OBVIOUS
    <3> HIDE DEF new
    <3> QED
      BY <2>1, <3>1
  <2> HIDE DEF new
  <2>4. new.formed \in 1 .. Len(B) /\ new.formed <= i
    BY <2>1
  <2>5. \E x \in new.members : x.at = new.formed
    BY <1>10, <2>1
  <2> QED
    BY <1>9, <1>10, <1>11, <2>1, <2>2, <2>3, <2>4, <2>5 DEF PoolSound
<1>13. new.members = M
  OBVIOUS
<1>14. /\ then.pools = liq.pools \cup {new} /\ then.unpaired = liq.unpaired \ M
       /\ then = [pools |-> then.pools, unpaired |-> then.unpaired]
  BY DEF Founded
<1> HIDE DEF new, then
<1>15. \A p \in liq.pools : p.members \cap M = {}
  <2>1. \A p \in liq.pools : s \notin p.members
    BY <1>1
  <2> QED
    BY <1>1, <1>10, <2>1
<1>16. \A p \in then.pools : /\ PoolSound(B, i, p) /\ p.members \subseteq K \cup {s}
                             /\ p.members \cap then.unpaired = {}
  BY <1>1, <1>10, <1>12, <1>13, <1>14
<1>17. \A p, q \in then.pools : p # q => p.members \cap q.members = {}
  BY <1>1, <1>13, <1>14, <1>15
<1>18. LiquidityInv(B, i, K \cup {s}, then)
  BY <1>1, <1>14, <1>16, <1>17 DEF LiquidityInv
<1>19. \A p \in liq.pools : \E q \in then.pools : PoolKept(p, q)
  BY <1>14, KeptAsIs
<1> QED
  BY <1>18, <1>19 DEF AdmissionKeeps, then, M, partner

\* The swing that waits for a partner.
LEMMA WaitingKeeps ==
  ASSUME NEW B \in Seq(Candle), NEW i \in 1 .. Len(B), NEW K, NEW liq,
         LiquidityInv(B, i, K, liq), NEW s \in Swings(B), s \notin K
  PROVE  AdmissionKeeps(B, i, K, liq, s, Waiting(liq, s))
<1>1. /\ liq = [pools |-> liq.pools, unpaired |-> liq.unpaired]
      /\ K \subseteq Swings(B) /\ liq.unpaired \subseteq K
      /\ \A p \in liq.pools : /\ PoolSound(B, i, p) /\ p.members \subseteq K
                              /\ p.members \cap liq.unpaired = {}
      /\ \A p, q \in liq.pools : p # q => p.members \cap q.members = {}
  BY DEF LiquidityInv
<1> DEFINE then == Waiting(liq, s)
<1>2. then = [pools |-> liq.pools, unpaired |-> liq.unpaired \cup {s}]
  <2>1. then = [liq EXCEPT !.unpaired = liq.unpaired \cup {s}]
    BY DEF Waiting
  <2>2. PICK a, b : liq = [pools |-> a, unpaired |-> b]
    BY <1>1
  <2> HIDE DEF then
  <2>3. liq.pools = a /\ liq.unpaired = b
    BY <2>2
  <2> QED
    BY <2>1, <2>2, <2>3
<1> HIDE DEF then
<1>3. /\ then.pools = liq.pools /\ then.unpaired = liq.unpaired \cup {s}
      /\ then = [pools |-> then.pools, unpaired |-> then.unpaired]
  BY <1>2
<1>4. \A p \in then.pools : /\ PoolSound(B, i, p) /\ p.members \subseteq K \cup {s}
                            /\ p.members \cap then.unpaired = {}
  BY <1>1, <1>3
<1>5. LiquidityInv(B, i, K \cup {s}, then)
  BY <1>1, <1>3, <1>4 DEF LiquidityInv
<1>6. \A p \in liq.pools : \E q \in then.pools : PoolKept(p, q)
  BY <1>3, KeptAsIs
<1> QED
  BY <1>5, <1>6 DEF AdmissionKeeps, then

\* Whichever way, the invariant holds and every pool is kept.
LEMMA AdmittedKeeps ==
  ASSUME NEW B \in Seq(Candle), NEW i \in 1 .. Len(B), NEW K, NEW liq,
         LiquidityInv(B, i, K, liq), NEW s \in Swings(B), s \notin K, s.at = i
  PROVE  AdmissionKeeps(B, i, K, liq, s, Admitted(liq, s))
BY AdmittedIs, JoinedKeeps, FoundedKeeps, WaitingKeeps

-----------------------------------------------------------------------------
(* The loop of analyse_liquidity *)

Struck(liq, bar, i) == [liq EXCEPT !.pools = AfterStrikes(@, bar, i)]
Newcomers(S, i, d) == {s \in S : s.at = i /\ s.side = d}
Welcomed(liq, S, i, d) ==
  IF Newcomers(S, i, d) = {} THEN liq
  ELSE Admitted(liq, CHOOSE s \in Newcomers(S, i, d) : TRUE)

\* A candle: the strikes, then the highs it confirms, then the lows.
LEMMA LiquidityAfterIs ==
  ASSUME NEW liq, NEW S, NEW bar, NEW i
  PROVE  LiquidityAfter(liq, S, bar, i) =
           Welcomed(Welcomed(Struck(liq, bar, i), S, i, "BULLISH"), S, i, "BEARISH")
BY DEF LiquidityAfter, Welcomed, Struck, Newcomers

\* The swings admitted up to a candle, and during it up to a side.
Confirmed(B, i) == {s \in Swings(B) : s.at <= i}

\* What one candle has to keep.
CandleKeeps(B, i, K, liq, then) ==
  /\ LiquidityInv(B, i, K, then)
  /\ \A p \in liq.pools : \E q \in then.pools : PoolKept(p, q)

\* What is kept twice is kept.
LEMMA KeptOn ==
  ASSUME NEW p, NEW q, NEW r, PoolKept(p, q), PoolKept(q, r)
  PROVE  PoolKept(p, r)
BY DEF PoolKept

\* The swings of one side that a candle confirms, at most one.
LEMMA WelcomedKeeps ==
  ASSUME NEW B \in Seq(Candle), NEW i \in 1 .. Len(B), NEW K, NEW liq,
         LiquidityInv(B, i, K, liq), NEW d, \A s \in K : ~(s.at = i /\ s.side = d)
  PROVE  CandleKeeps(B, i, K \cup Newcomers(Swings(B), i, d), liq,
                     Welcomed(liq, Swings(B), i, d))
<1> DEFINE new == Newcomers(Swings(B), i, d)
<1>1. CASE new = {}
  <2>1. K \cup new = K /\ Welcomed(liq, Swings(B), i, d) = liq
    BY <1>1 DEF Welcomed
  <2>2. \A p \in liq.pools : PoolKept(p, p)
    BY KeptAsIs
  <2> HIDE DEF new
  <2> QED
    BY <2>1, <2>2 DEF CandleKeeps, new
<1>2. CASE new # {}
  <2> DEFINE s == CHOOSE s \in new : TRUE
  <2>1. s \in new
    BY <1>2
  <2>2. s \in Swings(B) /\ s.at = i /\ s.side = d
    BY <2>1 DEF Newcomers
  <2>3. \A t \in new : t = s
    <3> SUFFICES ASSUME NEW t \in new PROVE t = s
      OBVIOUS
    <3>1. t \in Swings(B) /\ t.at = i /\ t.side = d
      BY DEF Newcomers
    <3> HIDE DEF s, new
    <3>2. /\ s.at = s.pivot + RightBars /\ s.pivot \in Int
          /\ t.at = t.pivot + RightBars /\ t.pivot \in Int
      BY <2>2, <3>1, SwingFacts
    <3>3. s.pivot = t.pivot
      BY <2>2, <3>1, <3>2, WindowFacts
    <3> QED
      BY <2>2, <3>1, <3>3, OneSwing
  <2>4. s \notin K
    BY <2>2
  <2>5. K \cup new = K \cup {s}
    <3> HIDE DEF s, new
    <3> QED
      BY <2>1, <2>3
  <2>6. Welcomed(liq, Swings(B), i, d) = Admitted(liq, s)
    BY <1>2 DEF Welcomed
  <2> HIDE DEF s, new
  <2>7. AdmissionKeeps(B, i, K, liq, s, Admitted(liq, s))
    BY <2>2, <2>4, AdmittedKeeps
  <2> QED
    BY <2>5, <2>6, <2>7 DEF AdmissionKeeps, CandleKeeps, new
<1> QED
  BY <1>1, <1>2

\* The invariant of analyse_liquidity holds from candle to candle.
LEMMA LiquidityStep ==
  ASSUME NEW B \in Seq(Candle), NEW i \in 1 .. Len(B), NEW liq,
         LiquidityInv(B, i - 1, Confirmed(B, i - 1), liq)
  PROVE  CandleKeeps(B, i, Confirmed(B, i), liq, LiquidityAfter(liq, Swings(B), B[i], i))
<1> DEFINE K  == Confirmed(B, i - 1)
           S  == Swings(B)
           l1 == Struck(liq, B[i], i)
           l2 == Welcomed(l1, S, i, "BULLISH")
           l3 == Welcomed(l2, S, i, "BEARISH")
           K2 == K \cup Newcomers(S, i, "BULLISH")
           K3 == K2 \cup Newcomers(S, i, "BEARISH")
<1>1. LiquidityInv(B, i, K, l1) /\ \A p \in liq.pools : \E q \in l1.pools : PoolKept(p, q)
  <2> HIDE DEF K
  <2> QED
    BY StruckLiquidity DEF Struck, K
<1>2. \A s \in K : s.at <= i - 1 /\ s.at \in Int
  BY SwingFacts DEF Confirmed
<1>3. \A s \in K : s.at # i
  BY <1>2
<1>4. CandleKeeps(B, i, K2, l1, l2)
  <2> HIDE DEF K, l1
  <2> QED
    BY <1>1, <1>3, WelcomedKeeps
<1>5. \A s \in K2 : ~(s.at = i /\ s.side = "BEARISH")
  BY <1>3 DEF Newcomers
<1>6. CandleKeeps(B, i, K3, l2, l3)
  <2>1. LiquidityInv(B, i, K2, l2)
    <3> HIDE DEF l2, K2
    <3> QED
      BY <1>4 DEF CandleKeeps
  <2> HIDE DEF K2, l2
  <2> QED
    BY <1>5, <2>1, WelcomedKeeps
<1>7. K3 = Confirmed(B, i)
  <2>1. \A s \in S : s.side \in {"BULLISH", "BEARISH"} /\ s.at \in Int
    BY SwingFacts DEF Directions
  <2>2. \A s \in S : s.at <= i <=> s.at <= i - 1 \/ s.at = i
    BY <2>1
  <2> HIDE DEF S
  <2> QED
    BY <2>1, <2>2 DEF Confirmed, Newcomers, S
<1>8. l3 = LiquidityAfter(liq, S, B[i], i)
  BY LiquidityAfterIs
<1> HIDE DEF l1, l2, l3, K2, K3
<1>9. \A p \in liq.pools : \E q \in l3.pools : PoolKept(p, q)
  <2> SUFFICES ASSUME NEW p \in liq.pools PROVE \E q \in l3.pools : PoolKept(p, q)
    OBVIOUS
  <2>1. PICK q1 \in l1.pools : PoolKept(p, q1)
    BY <1>1
  <2>2. PICK q2 \in l2.pools : PoolKept(q1, q2)
    BY <1>4 DEF CandleKeeps
  <2>3. PICK q3 \in l3.pools : PoolKept(q2, q3)
    BY <1>6 DEF CandleKeeps
  <2>4. PoolKept(p, q2)
    BY <2>1, <2>2, KeptOn
  <2>5. PoolKept(p, q3)
    BY <2>3, <2>4, KeptOn
  <2> QED
    BY <2>5
<1> QED
  BY <1>6, <1>7, <1>8, <1>9 DEF CandleKeeps

LiquidityTurns(B, S, after, k) ==
  after = [i \in 0 .. k |-> IF i = 0 THEN [pools |-> {}, unpaired |-> {}] ELSE LiquidityAfter(after[i - 1], S, B[i], i)]

\* The loop of the pools can be run for any number of candles.
LEMMA LiquidityTurnsExist ==
  ASSUME NEW B, NEW S, NEW k \in Nat
  PROVE  \E after : LiquidityTurns(B, S, after, k)
<1> DEFINE K == {n \in 0 .. k : ~\E after : LiquidityTurns(B, S, after, n)}
<1>1. SUFFICES ASSUME K # {} PROVE FALSE
  <2>1. k \in 0 .. k
    OBVIOUS
  <2> QED
    BY <2>1
<1>2. PICK n \in K : \A m \in K : n <= m
  <2>1. K \subseteq 0 .. k /\ 0 \in Int /\ k \in Int
    OBVIOUS
  <2> HIDE DEF K
  <2> QED
    BY <1>1, <2>1, FirstOf
<1>3. n \in 0 .. k /\ ~\E after : LiquidityTurns(B, S, after, n)
  OBVIOUS
<1>4. n # 0
  <2>1. LiquidityTurns(B, S, [m \in 0 .. 0 |-> [pools |-> {}, unpaired |-> {}]], 0)
    BY DEF LiquidityTurns
  <2> QED
    BY <2>1, <1>3
<1>5. PICK before : LiquidityTurns(B, S, before, n - 1)
  <2>1. n - 1 \in 0 .. k /\ ~(n <= n - 1)
    BY <1>3, <1>4
  <2>2. n - 1 \notin K
    <3> HIDE DEF K
    <3> QED
      BY <1>2, <2>1
  <2> QED
    BY <2>1, <2>2
<1> DEFINE after == [m \in 0 .. n |->
             IF m = n THEN LiquidityAfter(before[n - 1], S, B[n], n) ELSE before[m]]
<1>6. ASSUME NEW m \in 0 .. n
      PROVE  after[m] = IF m = 0 THEN [pools |-> {}, unpaired |-> {}] ELSE LiquidityAfter(after[m - 1], S, B[m], m)
  <2>1. CASE m = n
    <3>1. n - 1 \in 0 .. n /\ n - 1 # n /\ n \in 0 .. n
      BY <1>3, <1>4
    <3>2. after[n - 1] = before[n - 1]
      BY <3>1
    <3> QED
      BY <2>1, <3>1, <3>2, <1>4
  <2>2. CASE m # n
    <3>1. m \in 0 .. n - 1 /\ (m # 0 => m - 1 \in 0 .. n /\ m - 1 # n)
      BY <2>2, <1>3, <1>4
    <3>2. before[m] = IF m = 0 THEN [pools |-> {}, unpaired |-> {}] ELSE LiquidityAfter(before[m - 1], S, B[m], m)
      BY <1>5, <3>1 DEF LiquidityTurns
    <3>3. m # 0 => after[m - 1] = before[m - 1]
      BY <3>1
    <3>4. after[m] = before[m]
      BY <2>2
    <3> HIDE DEF after
    <3> QED
      BY <3>2, <3>3, <3>4
  <2> QED
    BY <2>1, <2>2
<1>7. LiquidityTurns(B, S, after, n)
  <2>1. after = [m \in 0 .. n |-> after[m]]
    OBVIOUS
  <2> HIDE DEF after
  <2> QED
    BY <1>6, <2>1 DEF LiquidityTurns
<1> QED
  BY <1>3, <1>7

LiquidityAt(B, S) == CHOOSE after : LiquidityTurns(B, S, after, Len(B))

\* LiquidityAt is the state of the pools after each candle.
LEMMA LiquidityLoop ==
  ASSUME NEW B \in Seq(Candle), NEW S
  PROVE  /\ LiquidityAt(B, S)[0] = [pools |-> {}, unpaired |-> {}]
         /\ \A i \in 1 .. Len(B) : LiquidityAt(B, S)[i] =
              LiquidityAfter(LiquidityAt(B, S)[i - 1], S, B[i], i)
<1> DEFINE after == LiquidityAt(B, S)
<1>1. Len(B) \in Nat
  OBVIOUS
<1>2. LiquidityTurns(B, S, after, Len(B))
  BY <1>1, LiquidityTurnsExist DEF LiquidityAt
<1> HIDE DEF after
<1>3. \A i \in 0 .. Len(B) : after[i] =
        IF i = 0 THEN [pools |-> {}, unpaired |-> {}]
        ELSE LiquidityAfter(after[i - 1], S, B[i], i)
  BY <1>2 DEF LiquidityTurns
<1>4. 0 \in 0 .. Len(B) /\ \A i \in 1 .. Len(B) : i \in 0 .. Len(B) /\ i # 0
  BY <1>1
<1>5. after[0] = [pools |-> {}, unpaired |-> {}]
  BY <1>3, <1>4
<1>6. ASSUME NEW i \in 1 .. Len(B)
      PROVE  after[i] = LiquidityAfter(after[i - 1], S, B[i], i)
  BY <1>3, <1>4
<1> QED
  BY <1>5, <1>6 DEF after

\* The liquidity is what the loop leaves behind.
LEMMA LiquidityIs ==
  ASSUME NEW B, NEW S
  PROVE  Liquidity(B, S) = LiquidityAt(B, S)[Len(B)]
BY DEF Liquidity, LiquidityAt, LiquidityTurns

\* The invariant holds after every candle.
LEMMA LiquidityKept ==
  ASSUME NEW B \in Seq(Candle)
  PROVE  \A i \in 0 .. Len(B) :
           LiquidityInv(B, i, Confirmed(B, i), LiquidityAt(B, Swings(B))[i])
<1> DEFINE after == LiquidityAt(B, Swings(B))
           K == {i \in 0 .. Len(B) : ~LiquidityInv(B, i, Confirmed(B, i), after[i])}
<1>1. SUFFICES ASSUME K # {} PROVE FALSE
  OBVIOUS
<1>2. PICK n \in K : \A m \in K : n <= m
  <2>1. K \subseteq 0 .. Len(B) /\ 0 \in Int /\ Len(B) \in Int
    OBVIOUS
  <2> HIDE DEF K
  <2> QED
    BY <1>1, <2>1, FirstOf
<1>3. n \in 0 .. Len(B) /\ ~LiquidityInv(B, n, Confirmed(B, n), after[n])
  OBVIOUS
<1>4. n # 0
  <2>1. after[0] = [pools |-> {}, unpaired |-> {}]
    BY LiquidityLoop
  <2> DEFINE none == [pools |-> {}, unpaired |-> {}]
  <2>2. none.pools = {} /\ none.unpaired = {}
        /\ none = [pools |-> none.pools, unpaired |-> none.unpaired]
    OBVIOUS
  <2> HIDE DEF none
  <2>3. LiquidityInv(B, 0, Confirmed(B, 0), none)
    BY <2>2 DEF LiquidityInv, Confirmed
  <2> QED
    BY <1>3, <2>1, <2>3 DEF none
<1>5. n \in 1 .. Len(B) /\ n - 1 \in 0 .. Len(B) /\ ~(n <= n - 1)
  BY <1>3, <1>4
<1>6. LiquidityInv(B, n - 1, Confirmed(B, n - 1), after[n - 1])
  <2>1. n - 1 \notin K
    <3> HIDE DEF K
    <3> QED
      BY <1>2, <1>5
  <2> QED
    BY <1>5, <2>1
<1>7. after[n] = LiquidityAfter(after[n - 1], Swings(B), B[n], n)
  BY <1>5, LiquidityLoop
<1> HIDE DEF after
<1>8. CandleKeeps(B, n, Confirmed(B, n), after[n - 1], after[n])
  BY <1>5, <1>6, <1>7, LiquidityStep
<1> QED
  BY <1>3, <1>8 DEF CandleKeeps

\* And of what an analysis reports.
LEMMA LiquidityHolds ==
  ASSUME NEW B \in Seq(Candle)
  PROVE  LiquidityInv(B, Len(B), Confirmed(B, Len(B)), Liquidity(B, Swings(B)))
<1>1. Len(B) \in 0 .. Len(B)
  OBVIOUS
<1> QED
  BY <1>1, LiquidityIs, LiquidityKept

-----------------------------------------------------------------------------
(* What a timeframe is analysed on: the merged candles that have closed *)

Merged(C, D, j) ==
  [open  |-> C[(j - 1) * D + 1].open,
   close |-> C[j * D].close,
   high  |-> Greatest({C[i].high : i \in (j - 1) * D + 1 .. j * D}),
   low   |-> Least({C[i].low : i \in (j - 1) * D + 1 .. j * D})]

Observed(C, D) == [j \in 1 .. Len(C) \div D |-> Merged(C, D, j)]

\* The candles of a timeframe and those left over.
LEMMA DivFacts ==
  ASSUME NEW n \in Nat, NEW D \in Nat \ {0}
  PROVE  n \div D \in Nat /\ (n \div D) * D <= n /\ n < (n \div D) * D + D
OBVIOUS

\* Spans of candles follow each other.
LEMMA Products ==
  ASSUME NEW a \in Nat, NEW b \in Nat, NEW D \in Nat \ {0}, a <= b
  PROVE  a * D \in Nat /\ b * D \in Nat /\ a * D <= b * D /\ (a + 1) * D = a * D + D
OBVIOUS

\* A timeframe lasts at least one candle of M1.
LEMMA DurationFacts ==
  ASSUME NEW tf \in Timeframes
  PROVE  Duration(tf) \in Nat \ {0}
BY CandidateAssumption DEF Duration, Timeframes

\* The candles a merged one is made of have all closed.
LEMMA SpanInside ==
  ASSUME NEW n \in Nat, NEW D \in Nat \ {0}, NEW j \in 1 .. n \div D
  PROVE  /\ (j - 1) * D + 1 \in 1 .. n /\ j * D \in 1 .. n
         /\ (j - 1) * D + 1 <= j * D
         /\ \A i \in (j - 1) * D + 1 .. j * D : i \in 1 .. n
<1>1. n \div D \in Nat /\ (n \div D) * D <= n
  BY DivFacts
<1>2. j \in Nat /\ j - 1 \in Nat /\ j <= n \div D /\ j - 1 <= j
  BY <1>1
<1>3. j * D \in Nat /\ j * D <= (n \div D) * D /\ (n \div D) * D \in Nat
  BY <1>1, <1>2, Products
<1>4. (j - 1) * D \in Nat /\ j * D = (j - 1) * D + D
  <2>1. (j - 1) * D \in Nat /\ ((j - 1) + 1) * D = (j - 1) * D + D
    BY <1>2, Products
  <2>2. (j - 1) + 1 = j
    BY <1>2
  <2> QED
    BY <2>1, <2>2
<1> DEFINE x == (j - 1) * D
           y == j * D
           z == (n \div D) * D
<1>5. x \in Nat /\ y \in Nat /\ z \in Nat /\ y = x + D /\ y <= z /\ z <= n
  BY <1>1, <1>3, <1>4
<1> HIDE DEF x, y, z
<1>6. x + 1 \in 1 .. n /\ y \in 1 .. n /\ x + 1 <= y /\ \A i \in x + 1 .. y : i \in 1 .. n
  BY <1>5
<1> QED
  BY <1>6 DEF x, y

\* Merging candles makes a candle.
LEMMA MergedIsCandle ==
  ASSUME NEW C \in Seq(Candle), NEW D \in Nat \ {0}, NEW j \in 1 .. Len(C) \div D
  PROVE  Merged(C, D, j) \in Candle
<1> DEFINE a == (j - 1) * D + 1
           b == j * D
           X == a .. b
           H == {C[i].high : i \in X}
           L == {C[i].low : i \in X}
<1>1. Len(C) \in Nat
  OBVIOUS
<1>2. a \in 1 .. Len(C) /\ b \in 1 .. Len(C) /\ a <= b /\ \A i \in X : i \in 1 .. Len(C)
  BY <1>1, SpanInside
<1>3. Merged(C, D, j) = [open |-> C[a].open, close |-> C[b].close,
                         high |-> Greatest(H), low |-> Least(L)]
  BY DEF Merged
<1> HIDE DEF a, b
<1>4. a \in X /\ b \in X /\ IsFiniteSet(X)
  <2>1. IsFiniteSet(a .. b)
    BY <1>2, FS_Interval
  <2> QED
    BY <1>2, <2>1
<1> DEFINE high == [i \in X |-> C[i].high]
           low  == [i \in X |-> C[i].low]
<1>5. IsFiniteSet({high[i] : i \in X}) /\ IsFiniteSet({low[i] : i \in X})
  <2>1. /\ DOMAIN high = X /\ high = [i \in X |-> high[i]]
        /\ DOMAIN low = X /\ low = [i \in X |-> low[i]]
    OBVIOUS
  <2> HIDE DEF high, low, X
  <2> QED
    BY <1>4, <2>1, FiniteValues
<1>6. {high[i] : i \in X} = H /\ {low[i] : i \in X} = L
  OBVIOUS
<1> HIDE DEF high, low
<1>7. \A i \in X : /\ C[i].high \in Int /\ C[i].low \in Int
                   /\ C[i].open \in Int /\ C[i].close \in Int
                   /\ C[i].low <= C[i].open /\ C[i].low <= C[i].close
                   /\ C[i].high >= C[i].open /\ C[i].high >= C[i].close
  BY <1>2, CandleFacts
<1>8. /\ H \subseteq Int /\ H # {} /\ IsFiniteSet(H)
      /\ L \subseteq Int /\ L # {} /\ IsFiniteSet(L)
      /\ C[a].high \in H /\ C[b].high \in H /\ C[a].low \in L /\ C[b].low \in L
  BY <1>4, <1>5, <1>6, <1>7
<1> HIDE DEF H, L
<1>9. /\ Greatest(H) \in Int /\ Greatest(H) >= C[a].high /\ Greatest(H) >= C[b].high
      /\ Least(L) \in Int /\ Least(L) <= C[a].low /\ Least(L) <= C[b].low
  <2>1. Greatest(H) \in H /\ \A m \in H : Greatest(H) >= m
    BY <1>8, GreatestIs
  <2>2. Least(L) \in L /\ \A m \in L : Least(L) <= m
    BY <1>8, LeastIs
  <2> QED
    BY <1>8, <2>1, <2>2
<1> DEFINE g == Greatest(H)
           l == Least(L)
           o == C[a].open
           c == C[b].close
<1>10. o \in Int /\ c \in Int /\ g \in Int /\ l \in Int
       /\ l <= o /\ l <= c /\ g >= o /\ g >= c
  <2>1. /\ o \in Int /\ C[a].low \in Int /\ C[a].high \in Int
        /\ C[a].low <= o /\ C[a].high >= o
    BY <1>4, <1>7
  <2>2. /\ c \in Int /\ C[b].low \in Int /\ C[b].high \in Int
        /\ C[b].low <= c /\ C[b].high >= c
    BY <1>4, <1>7
  <2> HIDE DEF o, c, g, l
  <2> QED
    BY <1>9, <2>1, <2>2 DEF g, l
<1>11. Merged(C, D, j) = [open |-> o, close |-> c, high |-> g, low |-> l]
  BY <1>3
<1> HIDE DEF o, c, g, l
<1>12. [open |-> o, close |-> c, high |-> g, low |-> l] \in Candle
  BY <1>10 DEF Candle
<1> QED
  BY <1>11, <1>12

\* A timeframe is a series of candles.
LEMMA ObservedIsSeries ==
  ASSUME NEW C \in Seq(Candle), NEW D \in Nat \ {0}
  PROVE  /\ Observed(C, D) \in Seq(Candle) /\ Len(Observed(C, D)) = Len(C) \div D
         /\ Len(C) \div D \in Nat
         /\ \A j \in 1 .. Len(C) \div D : Observed(C, D)[j] = Merged(C, D, j)
<1> DEFINE k == Len(C) \div D
<1>1. k \in Nat
  BY DivFacts
<1>2. \A j \in 1 .. k : Merged(C, D, j) \in Candle
  BY MergedIsCandle
<1>3. Observed(C, D) = [j \in 1 .. k |-> Merged(C, D, j)]
  BY DEF Observed
<1> HIDE DEF k
<1>4. Observed(C, D) \in [1 .. k -> Candle]
  <2> HIDE DEF Candle
  <2> QED
    BY <1>2, <1>3
<1>5. Observed(C, D) \in Seq(Candle) /\ Len(Observed(C, D)) = k
  <2> HIDE DEF Candle
  <2> QED
    BY <1>1, <1>4
<1> QED
  BY <1>1, <1>3, <1>5 DEF k

\* A candle more, whatever it is, changes none of the merged candles that had
\* closed.
LEMMA MergedStays ==
  ASSUME NEW C \in Seq(Candle), NEW f, NEW D \in Nat \ {0}, NEW j \in 1 .. Len(C) \div D
  PROVE  Merged(Append(C, f), D, j) = Merged(C, D, j)
<1> DEFINE E == Append(C, f)
           a == (j - 1) * D + 1
           b == j * D
<1>1. Len(C) \in Nat
  OBVIOUS
<1>2. a \in 1 .. Len(C) /\ b \in 1 .. Len(C) /\ \A i \in a .. b : i \in 1 .. Len(C)
  BY <1>1, SpanInside
<1>3. \A i \in 1 .. Len(C) : E[i] = C[i]
  OBVIOUS
<1> HIDE DEF E, a, b
<1>4. {E[i].high : i \in a .. b} = {C[i].high : i \in a .. b}
  BY <1>2, <1>3
<1>5. {E[i].low : i \in a .. b} = {C[i].low : i \in a .. b}
  BY <1>2, <1>3
<1>6. E[a].open = C[a].open /\ E[b].close = C[b].close
  BY <1>2, <1>3
<1> QED
  BY <1>4, <1>5, <1>6 DEF Merged, E, a, b

\* The candle still forming never reaches an analysis.
LEMMA ClosedIs ==
  ASSUME NEW C \in Seq(Candle), NEW f, NEW tf \in Timeframes
  PROVE  Closed(Series(Append(C, f), tf), Len(C) \div Duration(tf)) = Observed(C, Duration(tf))
<1> DEFINE D == Duration(tf)
           E == Append(C, f)
           n == Len(C)
           k == n \div D
           m == Len(E) \div D
           s == Series(E, tf)
<1>1. D \in Nat \ {0} /\ n \in Nat
  BY DurationFacts
<1>2. s = [j \in 1 .. Len(E) \div D |-> Merged(E, D, j)]
  BY DEF Series, Merged
<1>3. Len(E) = n + 1
  OBVIOUS
<1> HIDE DEF s, E, D
<1>4. /\ k \in Nat /\ k * D <= n /\ n < k * D + D
      /\ m \in Nat /\ m * D <= n + 1 /\ n + 1 < m * D + D
  <2> HIDE DEF n
  <2>1. k \in Nat /\ k * D <= n /\ n < k * D + D
    BY <1>1, DivFacts
  <2>2. Len(E) \in Nat
    BY <1>1, <1>3
  <2>3. m \in Nat /\ m * D <= Len(E) /\ Len(E) < m * D + D
    BY <1>1, <2>2, DivFacts
  <2> HIDE DEF m, k
  <2> QED
    BY <1>3, <2>1, <2>3
<1> HIDE DEF n, k
<1>5. k <= m
  <2>1. SUFFICES ASSUME m + 1 <= k PROVE FALSE
    BY <1>4
  <2>2. m \in Nat /\ m + 1 \in Nat /\ (m + 1) * D <= k * D /\ (m + 1) * D = m * D + D
        /\ m * D \in Nat /\ k * D \in Nat
    BY <1>1, <1>4, <2>1, Products
  <2> DEFINE x == m * D
             y == k * D
             z == (m + 1) * D
  <2>3. z = x + D /\ z <= y /\ y <= n /\ n + 1 < x + D /\ x \in Nat /\ y \in Nat
    BY <1>4, <2>2
  <2> HIDE DEF x, y, z
  <2> QED
    BY <1>1, <2>3
<1> DEFINE All == {s[j] : j \in 1 .. m}
<1>6. s = [j \in 1 .. m |-> Merged(E, D, j)]
  BY <1>2
<1> HIDE DEF m
<1>7. s \in [1 .. m -> All]
  BY <1>6
<1> HIDE DEF All
<1>8. s \in Seq(All) /\ Len(s) = m
  BY <1>4, <1>7
<1>9. Closed(s, k) = SubSeq(s, 1, k)
  <2>1. (IF k < Len(s) THEN k ELSE Len(s)) = k
    BY <1>4, <1>5, <1>8
  <2> QED
    BY <2>1 DEF Closed
<1>10. \A j \in 1 .. k : s[j] = Merged(C, D, j)
  <2> SUFFICES ASSUME NEW j \in 1 .. k PROVE s[j] = Merged(C, D, j)
    OBVIOUS
  <2>1. j \in 1 .. m
    BY <1>4, <1>5
  <2>2. s[j] = Merged(E, D, j)
    BY <1>6, <2>1
  <2>3. Merged(E, D, j) = Merged(C, D, j)
    BY <1>1, MergedStays DEF E, k, n
  <2> QED
    BY <2>2, <2>3
<1>11. \A j \in 1 .. k : s[j] \in Candle
  <2>1. \A j \in 1 .. k : Merged(C, D, j) \in Candle
    BY <1>1, MergedIsCandle DEF k, n
  <2> QED
    BY <1>10, <2>1
<1>12. /\ SubSeq(s, 1, k) \in Seq(Candle)
       /\ Len(SubSeq(s, 1, k)) = k
       /\ \A j \in 1 .. k : SubSeq(s, 1, k)[j] = s[j]
  <2>1. /\ SubSeq(s, 1, k) \in Seq(Candle)
        /\ Len(SubSeq(s, 1, k)) = IF 1 <= k THEN k - 1 + 1 ELSE 0
        /\ \A j \in 1 .. k - 1 + 1 : SubSeq(s, 1, k)[j] = s[1 + j - 1]
    BY <1>4, <1>11, SubSeqProperties
  <2>2. k - 1 + 1 = k /\ (1 <= k \/ k = 0) /\ \A j \in 1 .. k : 1 + j - 1 = j
    BY <1>4
  <2> HIDE DEF Candle
  <2> QED
    BY <2>1, <2>2
<1>13. /\ Observed(C, D) \in Seq(Candle) /\ Len(Observed(C, D)) = k
       /\ \A j \in 1 .. k : Observed(C, D)[j] = Merged(C, D, j)
  BY <1>1, ObservedIsSeries DEF k, n
<1>14. SubSeq(s, 1, k) = Observed(C, D)
  <2> DEFINE u == SubSeq(s, 1, k)
             v == Observed(C, D)
  <2>1. u \in Seq(Candle) /\ v \in Seq(Candle) /\ Len(u) = Len(v)
        /\ \A j \in 1 .. Len(u) : u[j] = v[j]
    BY <1>10, <1>12, <1>13
  <2> HIDE DEF u, v
  <2>2. u = v
    BY <2>1, SeqEqual
  <2> QED
    BY <2>2 DEF u, v
<1> QED
  BY <1>9, <1>14 DEF s, E, D, k, n

-----------------------------------------------------------------------------
(* Sources: what every place a reading knows has in common *)

Kinds == {"ORDER_BLOCK", "FAIR_VALUE_GAP", "LIQUIDITY_POOL"}
FarEdge(source) == IF source.direction = "BULLISH" THEN source.lower ELSE source.upper

SourceSound(B, tf, source) ==
  /\ source.tf = tf /\ source.kind \in Kinds /\ source.direction \in Directions
  /\ source.lower \in Int /\ source.upper \in Int /\ source.lower <= source.upper
  /\ ~GeometryBroken(source)
  /\ source.index \in 1 .. Len(B) /\ source.formed = source.index * Duration(tf)
  /\ source.kind = "FAIR_VALUE_GAP" /\ source.status # "FILLED" =>
       \A i \in source.index + 1 .. Len(B) : ~Covers(source, B[i])
  /\ source.kind = "ORDER_BLOCK" /\ source.status # "INVALIDATED" =>
       ~Crossed(B, Opposite(source.direction), FarEdge(source), source.index + 1)
  /\ source.kind = "LIQUIDITY_POOL" /\ source.status \notin {"SWEPT", "CLOSED_THROUGH"} =>
       ~Reached(B, source.direction, LevelOf(source), source.index + 1)

SourceFor(tf, kind, formed, direction, lower, upper, status) ==
  [tf |-> tf, kind |-> kind, formed |-> formed * Duration(tf), index |-> formed,
   direction |-> direction, lower |-> lower, upper |-> upper, status |-> status]

\* What a source is made of.
LEMMA SourceForFacts ==
  ASSUME NEW tf, NEW kind, NEW formed, NEW direction, NEW lower, NEW upper, NEW status
  PROVE  LET source == SourceFor(tf, kind, formed, direction, lower, upper, status) IN
         /\ source.tf = tf /\ source.kind = kind /\ source.index = formed
         /\ source.formed = formed * Duration(tf)
         /\ source.direction = direction /\ source.lower = lower /\ source.upper = upper
         /\ source.status = status
BY DEF SourceFor

\* What an analysis is made of.
LEMMA AnalysisIs ==
  ASSUME NEW B
  PROVE  /\ Analysis(B).bars = B /\ Analysis(B).structure = Structure(B)
         /\ Analysis(B).legs = LegsOf(B)
         /\ Analysis(B).ranges = DealingRanges(B, Structure(B), LegsOf(B))
         /\ Analysis(B).liquidity = Liquidity(B, Swings(B))
         /\ Analysis(B).gaps = GapStates(B)
         /\ Analysis(B).blocks = BlockStates(B, OrderBlocks(B, LegsOf(B)))
         /\ Structure(B).swings = Swings(B)
<1>1. Structure(B).swings = Swings(B)
  BY StructureIs
<1> QED
  BY <1>1 DEF Analysis, LegsOf

\* A source is a block, a gap or a pool.
LEMMA SourcesAre ==
  ASSUME NEW B, NEW tf, NEW source \in SourcesOf(Analysis(B), tf)
  PROVE  \/ \E b \in BlockStates(B, OrderBlocks(B, LegsOf(B))) :
              source = SourceFor(tf, "ORDER_BLOCK", b.zone.formed, b.zone.direction,
                                 b.zone.lower, b.zone.upper, b.status)
         \/ \E g \in GapStates(B) :
              source = SourceFor(tf, "FAIR_VALUE_GAP", g.zone.formed, g.zone.direction,
                                 g.zone.lower, g.zone.upper, g.status)
         \/ \E p \in Liquidity(B, Swings(B)).pools :
              source = SourceFor(tf, "LIQUIDITY_POOL", p.formed, p.side,
                                 PoolLower(p), PoolUpper(p), p.status)
BY AnalysisIs DEF SourcesOf, SourceFor

\* A gap has a direction.
LEMMA GapSides ==
  ASSUME NEW B, NEW gap \in Gaps(B)
  PROVE  gap.direction \in Directions
BY DEF Gaps, Directions

\* An order block is a sound source.
LEMMA BlockSource ==
  ASSUME NEW B \in Seq(Candle), NEW tf \in Timeframes,
         NEW b \in BlockStates(B, OrderBlocks(B, LegsOf(B)))
  PROVE  SourceSound(B, tf, SourceFor(tf, "ORDER_BLOCK", b.zone.formed, b.zone.direction,
                                      b.zone.lower, b.zone.upper, b.status))
<1> DEFINE source == SourceFor(tf, "ORDER_BLOCK", b.zone.formed, b.zone.direction,
                               b.zone.lower, b.zone.upper, b.status)
           z == b.zone
<1>1. /\ source.tf = tf /\ source.kind = "ORDER_BLOCK" /\ source.index = z.formed
      /\ source.formed = z.formed * Duration(tf)
      /\ source.direction = z.direction /\ source.lower = z.lower /\ source.upper = z.upper
      /\ source.status = b.status
  BY SourceForFacts
<1> HIDE DEF source
<1>2. /\ z \in OrderBlocks(B, LegsOf(B))
      /\ b.status # "INVALIDATED" =>
           \A i \in z.formed + 1 .. Len(B) : ~Invalidates(z, B[i])
  BY BlocksHold
<1>3. /\ z.formed \in 1 .. Len(B) /\ z.direction \in Directions
      /\ z.lower \in Int /\ z.upper \in Int /\ z.lower < z.upper
  BY <1>2, BlockFacts
<1>4. b.status # "INVALIDATED" =>
        ~Crossed(B, Opposite(source.direction), FarEdge(source), source.index + 1)
  BY <1>1, <1>2 DEF Crossed, Invalidates, FarEdge
<1>5. ~GeometryBroken(source) /\ source.lower <= source.upper
  BY <1>1, <1>3 DEF GeometryBroken
<1> HIDE DEF z
<1>6. SourceSound(B, tf, source)
  BY <1>1, <1>3, <1>4, <1>5 DEF SourceSound, Kinds
<1> QED
  BY <1>6 DEF source, z

\* A fair value gap is a sound source.
LEMMA GapSource ==
  ASSUME NEW B \in Seq(Candle), NEW tf \in Timeframes, NEW g \in GapStates(B)
  PROVE  SourceSound(B, tf, SourceFor(tf, "FAIR_VALUE_GAP", g.zone.formed, g.zone.direction,
                                      g.zone.lower, g.zone.upper, g.status))
<1> DEFINE source == SourceFor(tf, "FAIR_VALUE_GAP", g.zone.formed, g.zone.direction,
                               g.zone.lower, g.zone.upper, g.status)
           z == g.zone
<1>1. /\ source.tf = tf /\ source.kind = "FAIR_VALUE_GAP" /\ source.index = z.formed
      /\ source.formed = z.formed * Duration(tf)
      /\ source.direction = z.direction /\ source.lower = z.lower /\ source.upper = z.upper
      /\ source.status = g.status
  BY SourceForFacts
<1> HIDE DEF source
<1>2. /\ z \in Gaps(B)
      /\ g.status # "FILLED" => \A i \in z.formed + 1 .. Len(B) : ~Covers(z, B[i])
  BY GapsHold DEF GapInv
<1>3. /\ z.formed \in 1 .. Len(B) /\ z.direction \in Directions
      /\ z.lower \in Int /\ z.upper \in Int /\ z.lower < z.upper
  <2>1. z.formed \in 3 .. Len(B) /\ z.lower \in Int /\ z.upper \in Int /\ z.lower < z.upper
    BY <1>2, GapFacts
  <2>2. z.direction \in Directions
    BY <1>2, GapSides
  <2> QED
    BY <2>1, <2>2
<1>4. g.status # "FILLED" =>
        \A i \in source.index + 1 .. Len(B) : ~Covers(source, B[i])
  BY <1>1, <1>2 DEF Covers
<1>5. ~GeometryBroken(source) /\ source.lower <= source.upper
  BY <1>1, <1>3 DEF GeometryBroken
<1> HIDE DEF z
<1>6. SourceSound(B, tf, source)
  BY <1>1, <1>3, <1>4, <1>5 DEF SourceSound, Kinds
<1> QED
  BY <1>6 DEF source, z

\* A liquidity pool is a sound source.
LEMMA PoolSource ==
  ASSUME NEW B \in Seq(Candle), NEW tf \in Timeframes,
         NEW p \in Liquidity(B, Swings(B)).pools
  PROVE  SourceSound(B, tf, SourceFor(tf, "LIQUIDITY_POOL", p.formed, p.side,
                                      PoolLower(p), PoolUpper(p), p.status))
<1> DEFINE source == SourceFor(tf, "LIQUIDITY_POOL", p.formed, p.side,
                               PoolLower(p), PoolUpper(p), p.status)
<1>1. /\ source.tf = tf /\ source.kind = "LIQUIDITY_POOL" /\ source.index = p.formed
      /\ source.formed = p.formed * Duration(tf)
      /\ source.direction = p.side /\ source.lower = PoolLower(p)
      /\ source.upper = PoolUpper(p) /\ source.status = p.status
  BY SourceForFacts
<1> HIDE DEF source
<1>2. PoolSound(B, Len(B), p)
  BY LiquidityHolds DEF LiquidityInv
<1>3. /\ p.side \in Directions /\ p.status \in PoolStatuses /\ p.formed \in 1 .. Len(B)
      /\ p.members \subseteq Swings(B) /\ p.members # {}
      /\ p.status = "ACTIVE" =>
           \A j \in p.formed + 1 .. Len(B) :
             ~Beyond(p.side, Extreme(B[j], p.side), PoolBoundary(p))
  BY <1>2 DEF PoolSound
<1>4. PoolLower(p) \in Int /\ PoolUpper(p) \in Int /\ PoolLower(p) <= PoolUpper(p)
  BY <1>3, PoolEdges
<1>5. LevelOf(source) = PoolBoundary(p)
  BY <1>1 DEF LevelOf, PoolBoundary
<1>6. source.status \notin {"SWEPT", "CLOSED_THROUGH"} =>
        ~Reached(B, source.direction, LevelOf(source), source.index + 1)
  BY <1>1, <1>3, <1>5 DEF Reached, PoolStatuses
<1>7. ~GeometryBroken(source) /\ source.lower <= source.upper
  BY <1>1, <1>4 DEF GeometryBroken
<1>8. SourceSound(B, tf, source)
  BY <1>1, <1>3, <1>4, <1>6, <1>7 DEF SourceSound, Kinds
<1> QED
  BY <1>8 DEF source

\* Every source is sound.
LEMMA SourcesHold ==
  ASSUME NEW B \in Seq(Candle), NEW tf \in Timeframes,
         NEW source \in SourcesOf(Analysis(B), tf)
  PROVE  SourceSound(B, tf, source)
BY SourcesAre, BlockSource, GapSource, PoolSource

-----------------------------------------------------------------------------
(* Decisions and candidates *)

DecisionSound(price, d) ==
  /\ d.lower \in Int /\ d.upper \in Int /\ d.lower <= d.upper
  /\ d.relation = RelationOf(d.lower, d.upper, price)
  /\ d.distance = DistanceOf(d.lower, d.upper, price)
  /\ d.role = RoleOf(d.source)
  /\ d.side = IF ~IsEntry(d.source) THEN "NONE"
              ELSE IF d.source.direction = "BULLISH" THEN "BAI" ELSE "SEO"
  /\ d.reasons = IF IsEntry(d.source) THEN EntryReasons(d.source, d.relation)
                 ELSE ReferenceReasons(d.source, d.relation)

\* A decision says where its source lies from the price, and no more.
LEMMA DecideFacts ==
  ASSUME NEW B, NEW tf, NEW source, SourceSound(B, tf, source), NEW price
  PROVE  DecisionSound(price, Decide(source, price)) /\ Decide(source, price).source = source
<1> DEFINE lower == IF IsEntry(source) THEN source.lower ELSE LevelOf(source)
           upper == IF IsEntry(source) THEN source.upper ELSE LevelOf(source)
           d == Decide(source, price)
<1>1. source.lower \in Int /\ source.upper \in Int /\ source.lower <= source.upper
  BY DEF SourceSound
<1>2. lower \in Int /\ upper \in Int /\ lower <= upper
  BY <1>1 DEF LevelOf
<1>3. /\ d.source = source /\ d.lower = lower /\ d.upper = upper
      /\ d.relation = RelationOf(lower, upper, price)
      /\ d.distance = DistanceOf(lower, upper, price)
      /\ d.role = RoleOf(source)
      /\ d.side = IF ~IsEntry(source) THEN "NONE"
                  ELSE IF source.direction = "BULLISH" THEN "BAI" ELSE "SEO"
      /\ d.reasons = IF IsEntry(source)
                     THEN EntryReasons(source, RelationOf(lower, upper, price))
                     ELSE ReferenceReasons(source, RelationOf(lower, upper, price))
  BY DEF Decide
<1> HIDE DEF lower, upper, d
<1>4. DecisionSound(price, d) /\ d.source = source
  BY <1>2, <1>3 DEF DecisionSound
<1> QED
  BY <1>4 DEF d

\* A candidate is made of decisions at its place.
LEMMA CandidateIs ==
  ASSUME NEW decisions, NEW c \in Consolidated(decisions)
  PROVE  /\ c.support # {} /\ c.support \subseteq decisions
         /\ \A d \in c.support : GroupKey(d) = c.key /\ d \in Eligible(decisions)
         /\ c.support = {d \in Eligible(decisions) : GroupKey(d) = c.key}
         /\ \E d \in decisions : c.key = GroupKey(d)
<1>1. PICK k \in {GroupKey(d) : d \in Eligible(decisions)} :
        c = [key |-> k, support |-> {d \in Eligible(decisions) : GroupKey(d) = k}]
  BY DEF Consolidated
<1>2. c.key = k /\ c.support = {d \in Eligible(decisions) : GroupKey(d) = k}
  BY <1>1
<1>3. PICK d \in Eligible(decisions) : k = GroupKey(d)
  OBVIOUS
<1>4. Eligible(decisions) \subseteq decisions
  BY DEF Eligible
<1> QED
  BY <1>2, <1>3, <1>4

-----------------------------------------------------------------------------
(* The market *)

\* Every candle of the market is one, and the reading is of all that have closed.
MarketInv == bars \in Seq(Candle) \ {<<>>} /\ reading = Read(bars)

\* What follows a candle is a candle.
LEMMA FollowIsCandle ==
  ASSUME NEW close \in Int, NEW shape \in Shapes
  PROVE  Follow(close, shape) \in Candle
<1> DEFINE o == close + shape.gap
           c == o + shape.body
           h == Greatest({o, c}) + shape.above
           l == Least({o, c}) - shape.below
<1>1. /\ shape.gap \in Int /\ shape.body \in Int
      /\ shape.above \in Nat /\ shape.below \in Nat
  BY MarketAssumption
<1>2. o \in Int /\ c \in Int
  BY <1>1
<1>3. Follow(close, shape) = [open |-> o, close |-> c, high |-> h, low |-> l]
  BY DEF Follow
<1> HIDE DEF o, c
<1>4. /\ Least({o, c}) \in {o, c} /\ Least({o, c}) <= o /\ Least({o, c}) <= c
      /\ Greatest({o, c}) \in {o, c} /\ Greatest({o, c}) >= o /\ Greatest({o, c}) >= c
  BY <1>2, PairFacts
<1>5. Least({o, c}) \in Int /\ Greatest({o, c}) \in Int
  BY <1>2, <1>4
<1>6. h \in Int /\ l \in Int /\ l <= o /\ l <= c /\ h >= o /\ h >= c
  BY <1>1, <1>2, <1>4, <1>5
<1> HIDE DEF h, l
<1>7. [open |-> o, close |-> c, high |-> h, low |-> l] \in Candle
  BY <1>2, <1>6 DEF Candle
<1> QED
  BY <1>3, <1>7

\* A close keeps the invariant.
LEMMA MarketNext ==
  ASSUME MarketInv, [Next]_vars
  PROVE  MarketInv'
<1>1. CASE UNCHANGED vars
  BY <1>1 DEF MarketInv, vars
<1>2. ASSUME NEW shape \in Shapes, Close(shape) PROVE MarketInv'
  <2> DEFINE last == bars[Len(bars)].close
             bar  == Follow(last, shape)
  <2>1. bars \in Seq(Candle) /\ Len(bars) \in 1 .. Len(bars)
    <3>1. bars \in Seq(Candle) /\ bars # <<>>
      BY DEF MarketInv
    <3> HIDE DEF Candle
    <3>2. Len(bars) \in Nat /\ Len(bars) # 0
      BY <3>1
    <3> QED
      BY <3>1, <3>2
  <2>2. last \in Int
    BY <2>1, CandleFacts
  <2>3. bars' = Append(bars, bar) /\ reading' = Read(bars')
    BY <1>2 DEF Close
  <2> HIDE DEF last
  <2>4. bar \in Candle
    BY <2>2, FollowIsCandle
  <2> HIDE DEF bar
  <2>5. bars' \in Seq(Candle) /\ bars' # <<>>
    BY <2>1, <2>3, <2>4, AppendProperties
  <2> QED
    BY <2>3, <2>5 DEF MarketInv
<1> QED
  BY <1>1, <1>2 DEF Next

\* It always holds.
LEMMA MarketHolds == Spec => []MarketInv
<1>1. Init => MarketInv
  BY MarketAssumption DEF Init, MarketInv
<1> QED
  BY <1>1, MarketNext, PTL DEF Spec

-----------------------------------------------------------------------------
(* A reading is the analysis of the closed candles of each timeframe *)

Seen(tf) == Observed(bars, Duration(tf))

\* Each timeframe of a reading analyses that timeframe.
LEMMA ReadingIs ==
  ASSUME MarketInv, NEW tf \in Timeframes
  PROVE  /\ reading[tf] = Analysis(Seen(tf))
         /\ Seen(tf) \in Seq(Candle)
         /\ Len(Seen(tf)) = Len(bars) \div Duration(tf)
         /\ Len(Seen(tf)) * Duration(tf) <= Len(bars)
<1> DEFINE f == Forming(bars[Len(bars)].close)
<1>1. bars \in Seq(Candle) /\ reading = Read(bars) /\ Len(bars) \in Nat
  BY DEF MarketInv
<1>2. Duration(tf) \in Nat \ {0}
  BY DurationFacts
<1> HIDE DEF f
<1>3. reading[tf] = Analysis(Closed(Series(Append(bars, f), tf), Len(bars) \div Duration(tf)))
  BY <1>1 DEF Read, Composite, f
<1>4. Closed(Series(Append(bars, f), tf), Len(bars) \div Duration(tf)) = Seen(tf)
  BY <1>1, ClosedIs DEF Seen
<1>5. Seen(tf) \in Seq(Candle) /\ Len(Seen(tf)) = Len(bars) \div Duration(tf)
  BY <1>1, <1>2, ObservedIsSeries DEF Seen
<1>6. Len(Seen(tf)) * Duration(tf) <= Len(bars)
  BY <1>1, <1>2, <1>5, DivFacts
<1> QED
  BY <1>3, <1>4, <1>5, <1>6

\* There is a last candle, and it has a close.
LEMMA LastBar ==
  ASSUME MarketInv
  PROVE  Len(bars) \in Nat /\ Len(bars) >= 1 /\ bars[Len(bars)].close \in Int
<1>1. bars \in Seq(Candle) /\ bars # <<>>
  BY DEF MarketInv
<1>2. Len(bars) \in Nat /\ Len(bars) # 0
  <2> HIDE DEF Candle
  <2> QED
    BY <1>1
<1> QED
  BY <1>1, <1>2, CandleFacts

\* Whatever timeframes hold the newest close, they hold the market's last price.
LEMMA ReferenceIs ==
  ASSUME MarketInv
  PROVE  ReferencePrices(reading) = {bars[Len(bars)].close}
<1> DEFINE n == Len(bars)
           p == bars[n].close
           B(tf) == Seen(tf)
           closed(tf) == Len(B(tf)) * Duration(tf)
           newest == Greatest({closed(tf) : tf \in Timeframes})
<1>1. n \in Nat /\ n >= 1 /\ bars \in Seq(Candle)
  BY LastBar DEF MarketInv
<1>2. \A tf \in Timeframes : /\ reading[tf].bars = B(tf) /\ Len(B(tf)) \in Nat
                              /\ Len(B(tf)) = n \div Duration(tf)
                              /\ closed(tf) \in Nat /\ closed(tf) <= n
  <2> SUFFICES ASSUME NEW tf \in Timeframes
               PROVE  /\ reading[tf].bars = B(tf) /\ Len(B(tf)) \in Nat
                      /\ Len(B(tf)) = n \div Duration(tf)
                      /\ closed(tf) \in Nat /\ closed(tf) <= n
    OBVIOUS
  <2>1. /\ reading[tf] = Analysis(B(tf)) /\ B(tf) \in Seq(Candle)
        /\ Len(B(tf)) = n \div Duration(tf) /\ closed(tf) <= n
    BY ReadingIs
  <2>2. Duration(tf) \in Nat \ {0}
    BY DurationFacts
  <2>3. Len(B(tf)) \in Nat
    BY <1>1, <2>1, <2>2, DivFacts
  <2>4. closed(tf) \in Nat
    BY <2>2, <2>3, Products
  <2> QED
    BY <2>1, <2>3, <2>4, AnalysisIs
<1>3. "M1" \in Timeframes /\ closed("M1") = n
  <2>1. "M1" \in Timeframes /\ Duration("M1") = 1
    BY DEF Timeframes, Duration
  <2>2. Len(B("M1")) = n \div 1
    BY <1>2, <2>1
  <2>3. n \div 1 = n
    BY <1>1
  <2>4. Len(B("M1")) = n
    BY <2>2, <2>3
  <2> HIDE DEF n
  <2> QED
    BY <1>1, <2>1, <2>4
<1>4. newest = n
  <2> DEFINE P == {closed(tf) : tf \in Timeframes}
  <2>1. P = {closed("M1"), closed("M5")}
    BY DEF Timeframes
  <2>2. "M5" \in Timeframes
    BY DEF Timeframes
  <2> DEFINE x == closed("M1")
             y == closed("M5")
  <2>3. x \in Int /\ y \in Int /\ x = n /\ y <= n
    BY <1>2, <1>3, <2>2
  <2>4. P = {x, y}
    BY <2>1
  <2> HIDE DEF x, y, P, n
  <2>5. Greatest({x, y}) \in {x, y} /\ Greatest({x, y}) >= x
    BY <2>3, PairFacts
  <2>6. Greatest(P) = n
    BY <2>3, <2>4, <2>5
  <2> QED
    BY <2>6 DEF P
<1>5. ASSUME NEW tf \in Timeframes, closed(tf) = n
      PROVE  reading[tf].bars[Len(reading[tf].bars)].close = p
  <2> DEFINE k == n \div Duration(tf)
             D == Duration(tf)
  <2>1. D \in Nat \ {0}
    BY DurationFacts
  <2>2. Len(B(tf)) = k /\ k \in Nat /\ k * D = n
    BY <1>2, <1>5
  <2>3. k # 0
    <3> HIDE DEF n, k, D
    <3> QED
      BY <1>1, <2>1, <2>2
  <2>4. k \in 1 .. n \div D
    <3> HIDE DEF n, D
    <3> QED
      BY <2>2, <2>3 DEF D
  <2>5. B(tf)[k] = Merged(bars, D, k)
    BY <1>1, <2>1, <2>4, ObservedIsSeries DEF Seen
  <2>6. Merged(bars, D, k).close = bars[k * D].close
    BY DEF Merged
  <2>7. reading[tf].bars = B(tf)
    BY <1>2
  <2> HIDE DEF k
  <2> QED
    BY <2>2, <2>5, <2>6, <2>7
<1>6. ReferencePrices(reading) =
        {reading[tf].bars[Len(reading[tf].bars)].close :
           tf \in {tf \in Timeframes : closed(tf) = newest}}
  <2>1. \A tf \in Timeframes : Len(reading[tf].bars) * Duration(tf) = closed(tf)
    BY <1>2
  <2>2. {Len(reading[tf].bars) * Duration(tf) : tf \in Timeframes} =
          {closed(tf) : tf \in Timeframes}
    BY <2>1
  <2>3. {tf \in Timeframes : Len(reading[tf].bars) * Duration(tf) = newest} =
          {tf \in Timeframes : closed(tf) = newest}
    BY <2>1
  <2> QED
    BY <2>2, <2>3 DEF ReferencePrices
<1> HIDE DEF closed, newest, B, n, p
<1>7. {reading[tf].bars[Len(reading[tf].bars)].close :
         tf \in {tf \in Timeframes : closed(tf) = newest}} = {p}
  BY <1>3, <1>4, <1>5
<1> QED
  BY <1>6, <1>7 DEF n, p

\* Every decision of a reading is on a sound source of one of its timeframes.
LEMMA DecisionsHold ==
  ASSUME MarketInv, NEW price, NEW d \in Decisions(reading, price)
  PROVE  /\ DecisionSound(price, d)
         /\ d.source.tf \in Timeframes
         /\ SourceSound(Seen(d.source.tf), d.source.tf, d.source)
<1>1. PICK tf \in Timeframes :
        \E source \in SourcesOf(reading[tf], tf) : d = Decide(source, price)
  BY DEF Decisions
<1>2. PICK source \in SourcesOf(reading[tf], tf) : d = Decide(source, price)
  BY <1>1
<1>3. reading[tf] = Analysis(Seen(tf)) /\ Seen(tf) \in Seq(Candle)
  BY ReadingIs
<1>4. source \in SourcesOf(Analysis(Seen(tf)), tf)
  BY <1>2, <1>3
<1>5. SourceSound(Seen(tf), tf, source)
  BY <1>3, <1>4, SourcesHold
<1>6. DecisionSound(price, d) /\ d.source = source
  BY <1>2, <1>5, DecideFacts
<1>7. source.tf = tf
  BY <1>5 DEF SourceSound
<1> QED
  BY <1>5, <1>6, <1>7

-----------------------------------------------------------------------------
(* Theorems *)

\* In every reading each check that could abort it succeeds.
LEMMA NeverAborts ==
  ASSUME MarketInv
  PROVE  AnalysisNeverAborts
<1> DEFINE prices     == ReferencePrices(reading)
           price      == CHOOSE p \in prices : TRUE
           decisions  == Decisions(reading, price)
           candidates == Consolidated(decisions)
<1>1. Cardinality(prices) = 1
  BY ReferenceIs, FS_Singleton
<1>2. ASSUME NEW tf \in Timeframes
      PROVE  /\ ~LegsBroken(reading[tf].legs)
             /\ ~RangesBroken(reading[tf].ranges, reading[tf].structure.bias)
             /\ ~BlocksBroken({b.zone : b \in reading[tf].blocks})
  <2> DEFINE B == Seen(tf)
  <2>1. reading[tf] = Analysis(B) /\ B \in Seq(Candle)
    BY ReadingIs
  <2>2. /\ reading[tf].legs = LegsOf(B)
        /\ reading[tf].ranges = DealingRanges(B, Structure(B), LegsOf(B))
        /\ reading[tf].structure = Structure(B)
        /\ reading[tf].blocks = BlockStates(B, OrderBlocks(B, LegsOf(B)))
    BY <2>1, AnalysisIs
  <2> HIDE DEF B
  <2>3. ~LegsBroken(LegsOf(B))
    BY <2>1, LegsHold
  <2>4. ~RangesBroken(DealingRanges(B, Structure(B), LegsOf(B)), Structure(B).bias)
    BY <2>1, RangesHold
  <2>5. ~BlocksBroken({b.zone : b \in BlockStates(B, OrderBlocks(B, LegsOf(B)))})
    BY <2>1, BlocksHold
  <2> QED
    BY <2>2, <2>3, <2>4, <2>5
<1>3. ASSUME NEW d \in decisions
      PROVE  /\ ~GeometryBroken(d.source) /\ d.source.formed <= Len(bars)
             /\ d.source.formed \in Int /\ DecisionSound(price, d)
  <2> DEFINE tf == d.source.tf
             B  == Seen(tf)
  <2>1. DecisionSound(price, d) /\ tf \in Timeframes /\ SourceSound(B, tf, d.source)
    <3> HIDE DEF price
    <3> QED
      BY DecisionsHold
  <2>2. /\ ~GeometryBroken(d.source) /\ d.source.index \in 1 .. Len(B)
        /\ d.source.formed = d.source.index * Duration(tf)
    BY <2>1 DEF SourceSound
  <2>3. /\ B \in Seq(Candle) /\ Len(B) * Duration(tf) <= Len(bars)
        /\ Duration(tf) \in Nat \ {0}
    BY <2>1, ReadingIs, DurationFacts
  <2>4. Len(B) \in Nat /\ Len(bars) \in Nat
    BY <2>3, LastBar
  <2> HIDE DEF B, tf
  <2> DEFINE k == d.source.index
             D == Duration(tf)
             m == Len(B)
  <2>5. k \in Nat /\ m \in Nat /\ k <= m /\ D \in Nat \ {0}
    BY <2>2, <2>3, <2>4
  <2> HIDE DEF k, D, m
  <2>6. k * D \in Nat /\ m * D \in Nat /\ k * D <= m * D
    BY <2>5, Products
  <2>7. k * D <= Len(bars)
    BY <2>3, <2>4, <2>6 DEF m, D
  <2> QED
    BY <2>1, <2>2, <2>6, <2>7 DEF k, D
<1>4. ASSUME NEW c \in candidates
      PROVE  ~Disagree(c) /\ ~Unborn(c, Len(bars))
  <2>1. c.support \subseteq decisions /\ \A d \in c.support : GroupKey(d) = c.key
    BY ZenonT(60), CandidateIs
  <2>2. ~Disagree(c)
    <3> SUFFICES ASSUME NEW d \in c.support, NEW e \in c.support
                 PROVE  <<d.relation, d.distance, d.side, d.lower, d.upper>> =
                        <<e.relation, e.distance, e.side, e.lower, e.upper>>
      BY DEF Disagree
    <3>1. d.side = e.side /\ d.lower = e.lower /\ d.upper = e.upper
      <4>1. GroupKey(d) = GroupKey(e)
        BY <2>1
      <4> QED
        BY <4>1 DEF GroupKey
    <3>2. DecisionSound(price, d) /\ DecisionSound(price, e)
      BY <1>3, <2>1
    <3> HIDE DEF price
    <3>3. d.relation = e.relation /\ d.distance = e.distance
      BY <3>1, <3>2 DEF DecisionSound
    <3> QED
      BY <3>1, <3>3
  <2>3. ~Unborn(c, Len(bars))
    <3>1. Len(bars) \in Int
      BY LastBar
    <3>2. \A d \in c.support : d.source.formed <= Len(bars) /\ d.source.formed \in Int
      BY <1>3, <2>1
    <3>3. \A d \in c.support : ~(d.source.formed > Len(bars))
      BY <3>1, <3>2
    <3> QED
      BY <3>3 DEF Unborn
  <2> QED
    BY <2>2, <2>3
<1> HIDE DEF prices, candidates
<1> QED
  BY <1>1, <1>2, <1>3, <1>4 DEF AnalysisNeverAborts, prices, candidates

\* In every reading what is live is live in the candles.
LEMMA LevelsHold ==
  ASSUME MarketInv
  PROVE  LevelsAreSound
<1>1. StructureIsSound
  <2> SUFFICES ASSUME NEW tf \in Timeframes
      PROVE  LET st == reading[tf].structure IN
             /\ \A d \in Directions : \A s \in st.active[d] :
                  ~Crossed(reading[tf].bars, d, s.price, s.at + 1)
             /\ \A m, n \in 1 .. Len(st.breaks) :
                  m # n => ({st.breaks[m].swing} \cup st.breaks[m].cleared) \cap
                           ({st.breaks[n].swing} \cup st.breaks[n].cleared) = {}
             /\ \A e \in EventsOf(st), r \in reading[tf].ranges :
                  e.class # "MSS" /\ e.opposite = {} =>
                    ~(r.leg.formed < e.at /\ (r.status = "ACTIVE" \/ r.ended > e.at))
    BY DEF StructureIsSound
  <2> DEFINE B == Seen(tf)
  <2>1. reading[tf] = Analysis(B) /\ B \in Seq(Candle)
    BY ReadingIs
  <2>2. /\ reading[tf].bars = B /\ reading[tf].structure = Structure(B)
        /\ reading[tf].ranges = DealingRanges(B, Structure(B), LegsOf(B))
    BY <2>1, AnalysisIs
  <2> HIDE DEF B
  <2> QED
    BY ZenonT(60), <2>1, <2>2, StructureHolds
<1>2. PoolsAreSound
  <2> SUFFICES ASSUME NEW tf \in Timeframes
      PROVE  LET liq == reading[tf].liquidity IN
             /\ \A p \in liq.pools :
                  /\ Cardinality(p.members) > 1
                  /\ PoolUpper(p) - PoolLower(p) <= Tolerance
                  /\ p.members \cap liq.unpaired = {}
                  /\ p.status = "ACTIVE" =>
                       ~Reached(reading[tf].bars, p.side, PoolBoundary(p), p.formed + 1)
             /\ \A p, q \in liq.pools : p # q => p.members \cap q.members = {}
    BY DEF PoolsAreSound
  <2> DEFINE B   == Seen(tf)
             liq == Liquidity(B, Swings(B))
  <2>1. reading[tf] = Analysis(B) /\ B \in Seq(Candle)
    BY ReadingIs
  <2>2. reading[tf].bars = B /\ reading[tf].liquidity = liq
    BY <2>1, AnalysisIs
  <2> HIDE DEF B
  <2>3. LiquidityInv(B, Len(B), Confirmed(B, Len(B)), liq)
    BY <2>1, LiquidityHolds
  <2> HIDE DEF liq
  <2>4. ASSUME NEW p \in liq.pools
        PROVE  /\ Cardinality(p.members) > 1
               /\ PoolUpper(p) - PoolLower(p) <= Tolerance
               /\ p.members \cap liq.unpaired = {}
               /\ p.status = "ACTIVE" =>
                    ~Reached(B, p.side, PoolBoundary(p), p.formed + 1)
    <3>1. PoolSound(B, Len(B), p) /\ p.members \cap liq.unpaired = {}
      BY <2>3 DEF LiquidityInv
    <3>2. /\ Cardinality(p.members) > 1 /\ Tight(p.members)
          /\ p.members \subseteq Swings(B) /\ p.members # {}
      BY <3>1 DEF PoolSound
    <3>3. PoolUpper(p) - PoolLower(p) <= Tolerance
      BY <2>1, <3>2, TightPool
    <3>4. p.status = "ACTIVE" => ~Reached(B, p.side, PoolBoundary(p), p.formed + 1)
      BY <3>1 DEF PoolSound, Reached
    <3> QED
      BY <3>1, <3>2, <3>3, <3>4
  <2>5. \A p, q \in liq.pools : p # q => p.members \cap q.members = {}
    BY <2>3 DEF LiquidityInv
  <2> QED
    BY <2>2, <2>4, <2>5
<1>3. EligibleIsUnspent
  <2> DEFINE price     == bars[Len(bars)].close
             decisions == Decisions(reading, price)
  <2>1. ASSUME NEW d \in Eligible(decisions)
        PROVE  LET series == reading[d.source.tf].bars
                   since  == d.source.index + 1
                   x      == d.source.direction
               IN  CASE d.source.kind = "FAIR_VALUE_GAP" ->
                          \A i \in since .. Len(series) : ~Covers(d.source, series[i])
                     [] d.source.kind = "ORDER_BLOCK" ->
                          ~Crossed(series, Opposite(x),
                                   IF x = "BULLISH" THEN d.source.lower ELSE d.source.upper,
                                   since)
                     [] OTHER -> ~Reached(series, x, LevelOf(d.source), since)
    <3> DEFINE source == d.source
               tf     == source.tf
               B      == Seen(tf)
    <3>1. d \in decisions /\ d.reasons = {}
      BY <2>1 DEF Eligible
    <3>2. DecisionSound(price, d) /\ tf \in Timeframes /\ SourceSound(B, tf, source)
      <4> HIDE DEF price
      <4> QED
        BY <3>1, DecisionsHold
    <3>3. reading[tf].bars = B
      <4>1. reading[tf] = Analysis(B)
        BY <3>2, ReadingIs
      <4> QED
        BY <4>1, AnalysisIs
    <3>4. source.kind \in Kinds
      BY <3>2 DEF SourceSound
    <3> HIDE DEF B, tf
    <3>5. CASE source.kind = "FAIR_VALUE_GAP"
      <4>1. source.status # "FILLED"
        <5>1. IsEntry(source) /\ d.reasons = EntryReasons(source, d.relation)
          BY <3>2, <3>5 DEF DecisionSound, IsEntry
        <5>2. "FVG_FILLED" \notin EntryReasons(source, d.relation)
          BY <3>1, <5>1
        <5> QED
          BY <3>5, <5>2 DEF EntryReasons
      <4>2. \A i \in source.index + 1 .. Len(B) : ~Covers(source, B[i])
        BY <3>2, <3>5, <4>1 DEF SourceSound
      <4> QED
        BY <3>3, <3>5, <4>2 DEF tf
    <3>6. CASE source.kind = "ORDER_BLOCK"
      <4>1. source.status # "INVALIDATED"
        <5>1. IsEntry(source) /\ d.reasons = EntryReasons(source, d.relation)
          BY <3>2, <3>6 DEF DecisionSound, IsEntry
        <5>2. "ORDER_BLOCK_INVALIDATED" \notin EntryReasons(source, d.relation)
          BY <3>1, <5>1
        <5> QED
          BY <3>6, <5>2 DEF EntryReasons
      <4>2. ~Crossed(B, Opposite(source.direction), FarEdge(source), source.index + 1)
        BY <3>2, <3>6, <4>1 DEF SourceSound
      <4> QED
        BY <3>3, <3>6, <4>2 DEF FarEdge, tf
    <3>7. CASE source.kind = "LIQUIDITY_POOL"
      <4>1. source.status \notin {"SWEPT", "CLOSED_THROUGH"}
        <5>1. ~IsEntry(source) /\ d.reasons = ReferenceReasons(source, d.relation)
          BY <3>2, <3>7 DEF DecisionSound, IsEntry
        <5>2. "LIQUIDITY_TERMINAL" \notin ReferenceReasons(source, d.relation)
          BY <3>1, <5>1
        <5> QED
          BY <5>2 DEF ReferenceReasons
      <4>2. ~Reached(B, source.direction, LevelOf(source), source.index + 1)
        BY <3>2, <3>7, <4>1 DEF SourceSound
      <4> QED
        BY <3>3, <3>7, <4>2 DEF tf
    <3> QED
      BY <3>4, <3>5, <3>6, <3>7 DEF Kinds
  <2> QED
    BY <2>1 DEF EligibleIsUnspent
<1> QED
  BY <1>1, <1>2, <1>3 DEF LevelsAreSound

-----------------------------------------------------------------------------
(* Features *)

Depth(at) == CHOOSE n \in 1 .. 5 :
  at = <<"BELOW_RANGE", "DISCOUNT", "EQUILIBRIUM", "PREMIUM", "ABOVE_RANGE">>[n]

\* The places in a range, from below to above.
LEMMA Depths ==
  /\ Depth("BELOW_RANGE") = 1 /\ Depth("DISCOUNT") = 2 /\ Depth("EQUILIBRIUM") = 3
  /\ Depth("PREMIUM") = 4 /\ Depth("ABOVE_RANGE") = 5
<1> DEFINE names == <<"BELOW_RANGE", "DISCOUNT", "EQUILIBRIUM", "PREMIUM", "ABOVE_RANGE">>
<1>1. /\ names[1] = "BELOW_RANGE" /\ names[2] = "DISCOUNT" /\ names[3] = "EQUILIBRIUM"
      /\ names[4] = "PREMIUM" /\ names[5] = "ABOVE_RANGE"
  OBVIOUS
<1>2. \A n \in 1 .. 5 : n = 1 \/ n = 2 \/ n = 3 \/ n = 4 \/ n = 5
  OBVIOUS
<1>3. 1 \in 1 .. 5 /\ 2 \in 1 .. 5 /\ 3 \in 1 .. 5 /\ 4 \in 1 .. 5 /\ 5 \in 1 .. 5
  OBVIOUS
<1> HIDE DEF names
<1>4. ASSUME NEW n \in 1 .. 5 PROVE \A m \in 1 .. 5 : names[m] = names[n] => m = n
  BY <1>1, <1>2
<1>5. \A n \in 1 .. 5 : (CHOOSE m \in 1 .. 5 : names[n] = names[m]) = n
  BY <1>4
<1>6. \A at : Depth(at) = CHOOSE m \in 1 .. 5 : at = names[m]
  BY DEF Depth, names
<1> QED
  BY <1>1, <1>3, <1>5, <1>6

\* A higher price is never placed deeper.
LEMMA LocateOrder ==
  ASSUME NEW r, Lower(r) \in Int, Upper(r) \in Int, Lower(r) < Upper(r),
         NEW x \in Int, NEW y \in Int, x <= y
  PROVE  Depth(Locate(r, x)) <= Depth(Locate(r, y))
<1> DEFINE l == Lower(r)
           u == Upper(r)
           Place(z) == IF z < 2 * l THEN 1 ELSE IF z > 2 * u THEN 5
                       ELSE IF z < l + u THEN 2 ELSE IF z > l + u THEN 4 ELSE 3
<1>1. \A z : Depth(Locate(r, z)) = Place(z)
  BY Depths DEF Locate
<1>2. l \in Int /\ u \in Int /\ l < u
  OBVIOUS
<1> HIDE DEF l, u
<1>3. Place(x) <= Place(y)
  BY <1>2
<1> QED
  BY <1>1, <1>3

\* In every reading the candidates agree.
LEMMA FeaturesHold ==
  ASSUME MarketInv
  PROVE  FeaturesAgree
<1> DEFINE price      == bars[Len(bars)].close
           decisions  == Decisions(reading, price)
           candidates == Consolidated(decisions)
           zones      == {c.key : c \in {c \in candidates : c.key.role = "ENTRY_ZONE"}}
           pairs      == PairRelations(candidates)
<1>1. ASSUME NEW c \in candidates
      PROVE  /\ c.key = [role |-> c.key.role, side |-> c.key.side,
                         lower |-> c.key.lower, upper |-> c.key.upper]
             /\ c.key.lower \in Int /\ c.key.upper \in Int /\ c.key.lower <= c.key.upper
  <2>1. PICK d \in decisions : c.key = GroupKey(d)
    <3> HIDE DEF decisions
    <3> QED
      BY CandidateIs
  <2>2. DecisionSound(price, d)
    <3> HIDE DEF price
    <3> QED
      BY <2>1, DecisionsHold
  <2>3. d.lower \in Int /\ d.upper \in Int /\ d.lower <= d.upper
    BY <2>2 DEF DecisionSound
  <2> QED
    BY <2>1, <2>3 DEF GroupKey
<1>2. ASSUME NEW p \in pairs
      PROVE  /\ p.relation = "EQUAL" => p.first.side # p.second.side
             /\ RelateZones(p.second, p.first) = p.relation
  <2>1. PICK a \in zones :
          \E b \in zones \ {a} :
            p = [first |-> a, second |-> b, relation |-> RelateZones(a, b)]
    <3> HIDE DEF candidates
    <3> QED
      BY DEF PairRelations
  <2>2. PICK b \in zones \ {a} :
          p = [first |-> a, second |-> b, relation |-> RelateZones(a, b)]
    BY <2>1
  <2>3. \A z \in zones : z.role = "ENTRY_ZONE" /\
          z = [role |-> z.role, side |-> z.side, lower |-> z.lower, upper |-> z.upper]
    BY <1>1
  <2>4. p.first = a /\ p.second = b /\ p.relation = RelateZones(a, b)
    BY <2>2
  <2> HIDE DEF zones
  <2>5. RelateZones(a, b) = "EQUAL" => a.lower = b.lower /\ a.upper = b.upper
    BY DEF RelateZones
  <2>6. a.lower = b.lower /\ a.upper = b.upper => a.side # b.side
    BY <2>3, <2>2
  <2>7. RelateZones(b, a) = RelateZones(a, b)
    <3>1. {a.lower, b.lower} = {b.lower, a.lower} /\ {a.upper, b.upper} = {b.upper, a.upper}
      OBVIOUS
    <3> QED
      BY <3>1 DEF RelateZones
  <2> QED
    BY <2>4, <2>5, <2>6, <2>7
<1>3. ASSUME NEW tf \in Timeframes, NEW c \in candidates,
             NEW r \in ActiveRange(reading[tf].ranges)
      PROVE  /\ Depth(RangeContext(c, r)[1]) <= Depth(RangeContext(c, r)[2])
             /\ Depth(RangeContext(c, r)[2]) <= Depth(RangeContext(c, r)[3])
  <2> DEFINE B == Seen(tf)
             k == c.key
  <2>1. reading[tf] = Analysis(B) /\ B \in Seq(Candle)
    BY ReadingIs
  <2>2. r \in DealingRanges(B, Structure(B), LegsOf(B))
    BY <2>1, AnalysisIs DEF ActiveRange
  <2> HIDE DEF B
  <2>3. Lower(r) \in Int /\ Upper(r) \in Int /\ Lower(r) < Upper(r)
    BY <2>1, <2>2, RangesHold
  <2>4. k.lower \in Int /\ k.upper \in Int /\ k.lower <= k.upper
    BY <1>1
  <2>5. /\ RangeContext(c, r)[1] = Locate(r, 2 * k.lower)
        /\ RangeContext(c, r)[2] = Locate(r, k.lower + k.upper)
        /\ RangeContext(c, r)[3] = Locate(r, 2 * k.upper)
    BY DEF RangeContext
  <2> DEFINE x == 2 * k.lower
             y == k.lower + k.upper
             z == 2 * k.upper
  <2>6. x \in Int /\ y \in Int /\ z \in Int /\ x <= y /\ y <= z
    BY <2>4
  <2> HIDE DEF x, y, z, k
  <2>7. Depth(Locate(r, x)) <= Depth(Locate(r, y)) /\ Depth(Locate(r, y)) <= Depth(Locate(r, z))
    BY <2>3, <2>6, LocateOrder
  <2> QED
    BY <2>5, <2>7 DEF x, y, z, k
<1> HIDE DEF candidates, pairs
<1> QED
  BY <1>2, <1>3 DEF FeaturesAgree, Depth, candidates, pairs, decisions, price

-----------------------------------------------------------------------------
(* No repainting: a series and the same series with a candle more *)

Later(B, C) ==
  /\ B \in Seq(Candle) /\ C \in Seq(Candle) /\ Len(C) = Len(B) + 1
  /\ \A j \in 1 .. Len(B) : C[j] = B[j]

\* Two loops that start alike and turn alike go alike.
LEMMA SameTurns ==
  ASSUME NEW f, NEW g, NEW n \in Nat, f[0] = g[0],
         \A i \in 1 .. n : f[i - 1] = g[i - 1] => f[i] = g[i]
  PROVE  \A i \in 0 .. n : f[i] = g[i]
<1> DEFINE K == {i \in 0 .. n : f[i] # g[i]}
<1>1. SUFFICES ASSUME K # {} PROVE FALSE
  OBVIOUS
<1>2. PICK i \in K : \A m \in K : i <= m
  <2>1. K \subseteq 0 .. n /\ 0 \in Int /\ n \in Int
    OBVIOUS
  <2> HIDE DEF K
  <2> QED
    BY <1>1, <2>1, FirstOf
<1>3. i \in 0 .. n /\ f[i] # g[i]
  OBVIOUS
<1>4. i \in 1 .. n /\ i - 1 \in 0 .. n /\ ~(i <= i - 1)
  BY <1>3
<1>5. f[i - 1] = g[i - 1]
  <2>1. i - 1 \notin K
    <3> HIDE DEF K
    <3> QED
      BY <1>2, <1>4
  <2> QED
    BY <1>4, <2>1
<1> QED
  BY <1>3, <1>4, <1>5

\* The candles before the last are those there were.
LEMMA LaterFacts ==
  ASSUME NEW B, NEW C, Later(B, C)
  PROVE  /\ B \in Seq(Candle) /\ C \in Seq(Candle) /\ Len(B) \in Nat
         /\ Len(C) = Len(B) + 1
         /\ \A j \in 1 .. Len(B) : C[j] = B[j] /\ j \in 1 .. Len(C)
<1>1. B \in Seq(Candle) /\ C \in Seq(Candle) /\ Len(C) = Len(B) + 1
      /\ \A j \in 1 .. Len(B) : C[j] = B[j]
  BY DEF Later
<1>2. Len(B) \in Nat
  BY <1>1
<1>3. \A j \in 1 .. Len(B) : j \in 1 .. Len(C)
  BY <1>1, <1>2
<1> QED
  BY <1>1, <1>2, <1>3

\* A window inside the earlier series is the same window.
LEMMA PivotStays ==
  ASSUME NEW B, NEW C, Later(B, C), NEW i \in LeftBars + 1 .. Len(B) - RightBars, NEW d
  PROVE  (IsPivot(C, i, d) <=> IsPivot(B, i, d)) /\ Swing(C, i, d) = Swing(B, i, d)
<1>1. Len(B) \in Nat /\ \A j \in 1 .. Len(B) : C[j] = B[j]
  BY LaterFacts
<1>2. i \in 1 .. Len(B) /\ \A j \in i - LeftBars .. i + RightBars : j \in 1 .. Len(B)
  BY <1>1, WindowFacts
<1>3. C[i] = B[i] /\ \A j \in i - LeftBars .. i + RightBars : C[j] = B[j]
  BY <1>1, <1>2
<1> QED
  BY <1>3 DEF IsPivot, Swing

\* The swings of a series are those its next confirms in time.
LEMMA SwingsStay ==
  ASSUME NEW B, NEW C, Later(B, C)
  PROVE  Swings(B) = {s \in Swings(C) : s.at <= Len(B)}
<1>1. Len(B) \in Nat /\ Len(C) = Len(B) + 1 /\ B \in Seq(Candle) /\ C \in Seq(Candle)
  BY LaterFacts
<1>2. ASSUME NEW s \in Swings(B)
      PROVE  s \in Swings(C) /\ s.at <= Len(B)
  <2>1. /\ s.side \in Directions /\ s.pivot \in LeftBars + 1 .. Len(B) - RightBars
        /\ IsPivot(B, s.pivot, s.side) /\ s = Swing(B, s.pivot, s.side)
        /\ s.at \in 1 .. Len(B)
    BY <1>1, SwingFacts
  <2>2. IsPivot(C, s.pivot, s.side) /\ s = Swing(C, s.pivot, s.side)
    BY <2>1, PivotStays
  <2>3. s.pivot \in LeftBars + 1 .. Len(C) - RightBars
    BY <1>1, <2>1, WindowFacts
  <2>4. Swing(C, s.pivot, s.side) \in Swings(C)
    BY <1>1, <2>1, <2>2, <2>3, SwingIsThere
  <2> QED
    BY <2>1, <2>2, <2>4
<1>3. ASSUME NEW s \in Swings(C), s.at <= Len(B)
      PROVE  s \in Swings(B)
  <2>1. /\ s.side \in Directions /\ s.pivot \in LeftBars + 1 .. Len(C) - RightBars
        /\ IsPivot(C, s.pivot, s.side) /\ s = Swing(C, s.pivot, s.side)
        /\ s.at = s.pivot + RightBars
    BY <1>1, SwingFacts
  <2>2. s.pivot \in LeftBars + 1 .. Len(B) - RightBars
    BY <1>1, <1>3, <2>1, WindowFacts
  <2>3. IsPivot(B, s.pivot, s.side) /\ s = Swing(B, s.pivot, s.side)
    BY <2>1, <2>2, PivotStays
  <2>4. Swing(B, s.pivot, s.side) \in Swings(B)
    BY <1>1, <2>1, <2>2, <2>3, SwingIsThere
  <2> QED
    BY <2>3, <2>4
<1> QED
  BY <1>2, <1>3

\* An earlier swing keeps its label: what came before it is known already.
LEMMA RelationStays ==
  ASSUME NEW B, NEW C, Later(B, C), NEW s \in Swings(B)
  PROVE  Relation(Swings(C), s) = Relation(Swings(B), s)
<1>1. Len(B) \in Nat /\ B \in Seq(Candle) /\ C \in Seq(Candle)
  BY LaterFacts
<1>2. \A t \in Swings(C) : t.at = t.pivot + RightBars /\ t.pivot \in Int
  BY <1>1, SwingFacts
<1>3. s \in Swings(C) /\ s.at <= Len(B)
  BY SwingsStay
<1>4. \A t \in Swings(C) : t.pivot < s.pivot => t.at <= Len(B)
  BY <1>1, <1>2, <1>3, WindowFacts
<1>5. \A t \in Swings(C) : t.pivot < s.pivot => t \in Swings(B)
  BY <1>4, SwingsStay
<1>6. Swings(B) \subseteq Swings(C)
  BY SwingsStay
<1>7. Before(Swings(C), s) = Before(Swings(B), s)
  BY <1>5, <1>6 DEF Before
<1> QED
  BY <1>7 DEF Relation

\* What was known before a candle stays what was known.
LEMMA EligibleStays ==
  ASSUME NEW B, NEW C, Later(B, C), NEW i \in 1 .. Len(B)
  PROVE  EligibleBefore(Swings(C), i) = EligibleBefore(Swings(B), i)
<1>1. Len(B) \in Nat /\ C \in Seq(Candle)
  BY LaterFacts
<1>2. \A t \in Swings(C) : t.at \in Int
  BY <1>1, SwingFacts
<1>3. \A t \in Swings(C) : t.at < i => t.at <= Len(B)
  BY <1>1, <1>2
<1>4. \A t : t \in Swings(B) <=> t \in Swings(C) /\ t.at <= Len(B)
  BY SwingsStay
<1> QED
  BY <1>3, <1>4 DEF EligibleBefore

\* So does the bias.
LEMMA BiasStays ==
  ASSUME NEW B, NEW C, Later(B, C), NEW known, known \subseteq Swings(B), NEW st
  PROVE  PriorBias(Swings(C), known, st) = PriorBias(Swings(B), known, st)
<1>1. \A side : \A s \in LatestOf(known, side) : s \in Swings(B)
  BY DEF LatestOf, Newest
<1>2. \A side : \A s \in LatestOf(known, side) :
        Relation(Swings(C), s) = Relation(Swings(B), s)
  BY <1>1, RelationStays
<1>3. BootstrapBias(Swings(C), known) = BootstrapBias(Swings(B), known)
  BY <1>2 DEF BootstrapBias
<1> QED
  BY <1>3 DEF PriorBias

\* So every turn of the loop concludes what it concluded.
LEMMA TurnStays ==
  ASSUME NEW B, NEW C, Later(B, C), NEW i \in 1 .. Len(B), NEW st
  PROVE  AfterBar(Swings(C), C[i], i, st) = AfterBar(Swings(B), B[i], i, st)
<1>1. C[i] = B[i]
  BY LaterFacts
<1>2. EligibleBefore(Swings(C), i) = EligibleBefore(Swings(B), i)
  BY EligibleStays
<1>3. EligibleBefore(Swings(B), i) \subseteq Swings(B)
  BY DEF EligibleBefore
<1>4. PriorBias(Swings(C), EligibleBefore(Swings(B), i), st) =
        PriorBias(Swings(B), EligibleBefore(Swings(B), i), st)
  BY <1>3, BiasStays
<1> QED
  BY <1>1, <1>2, <1>4 DEF AfterBar

\* And the state of the structure after every candle.
LEMMA CandlesStay ==
  ASSUME NEW B, NEW C, Later(B, C)
  PROVE  \A i \in 0 .. Len(B) : AfterCandle(C)[i] = AfterCandle(B)[i]
<1> DEFINE f == AfterCandle(C)
           g == AfterCandle(B)
<1>1. /\ Len(B) \in Nat /\ B \in Seq(Candle) /\ C \in Seq(Candle)
      /\ \A i \in 1 .. Len(B) : i \in 1 .. Len(C)
  BY LaterFacts
<1>2. f[0] = g[0]
  BY <1>1, StructureLoop
<1>3. ASSUME NEW i \in 1 .. Len(B), f[i - 1] = g[i - 1] PROVE f[i] = g[i]
  <2>1. f[i] = AfterBar(Swings(C), C[i], i, f[i - 1])
    BY <1>1, StructureLoop
  <2>2. g[i] = AfterBar(Swings(B), B[i], i, g[i - 1])
    BY <1>1, StructureLoop
  <2> HIDE DEF f, g
  <2> QED
    BY <1>3, <2>1, <2>2, TurnStays
<1> HIDE DEF f, g
<1>4. \A i \in 0 .. Len(B) : f[i] = g[i]
  BY <1>1, <1>2, <1>3, SameTurns
<1> QED
  BY <1>4 DEF f, g

EventFrom(broken, prior, active, known, consumed, bar, i) ==
  LET s == CHOOSE s \in broken : TRUE
  IN  [at |-> i, direction |-> s.side, class |-> Classification(prior, s.side),
       swing |-> s, prior |-> prior, opposite |-> {t \in active : t.side # s.side},
       cleared |-> AlsoCleared(known, consumed, s, bar)]

\* An event depends on the swings through these alone.
LEMMA EventAtIs ==
  ASSUME NEW S, NEW bar, NEW i, NEW st
  PROVE  EventAt(S, bar, i, st) =
           EventFrom(BrokenAt(S, bar, i, st.consumed),
                     PriorBias(S, EligibleBefore(S, i), st),
                     ActiveAt(S, i, st.consumed), EligibleBefore(S, i), st.consumed, bar, i)
BY DEF EventAt, EventFrom

\* A break stays the break it was.
LEMMA BreaksStay ==
  ASSUME NEW B, NEW C, Later(B, C), NEW i \in 1 .. Len(B)
  PROVE  (Breaks(C, i) <=> Breaks(B, i)) /\ BreakAt(C, i) = BreakAt(B, i)
<1>1. C[i] = B[i] /\ Len(B) \in Nat
  BY LaterFacts
<1>2. EligibleBefore(Swings(C), i) = EligibleBefore(Swings(B), i)
  BY EligibleStays
<1>3. i - 1 \in 0 .. Len(B)
  BY <1>1
<1>4. AfterCandle(C)[i - 1] = AfterCandle(B)[i - 1]
  BY <1>3, CandlesStay
<1>5. EligibleBefore(Swings(B), i) \subseteq Swings(B)
  BY DEF EligibleBefore
<1>6. \A st : PriorBias(Swings(C), EligibleBefore(Swings(B), i), st) =
                PriorBias(Swings(B), EligibleBefore(Swings(B), i), st)
  BY <1>5, BiasStays
<1>7. \A consumed : ActiveAt(Swings(C), i, consumed) = ActiveAt(Swings(B), i, consumed)
  BY <1>2 DEF ActiveAt
<1>8. \A consumed : BrokenAt(Swings(C), B[i], i, consumed) = BrokenAt(Swings(B), B[i], i, consumed)
  BY <1>7 DEF BrokenAt
<1>9. Breaks(C, i) <=> Breaks(B, i)
  BY <1>1, <1>4, <1>8 DEF Breaks
<1>10. \A st : EventAt(Swings(C), B[i], i, st) = EventAt(Swings(B), B[i], i, st)
  BY <1>2, <1>6, <1>7, <1>8, EventAtIs
<1>11. BreakAt(C, i) = BreakAt(B, i)
  BY <1>1, <1>4, <1>10 DEF BreakAt
<1> QED
  BY <1>9, <1>11

\* The breaks of the earlier series are the first of the later one.
LEMMA BreakListStays ==
  ASSUME NEW B, NEW C, Later(B, C)
  PROVE  /\ Len(Structure(B).breaks) <= Len(Structure(C).breaks)
         /\ \A n \in 1 .. Len(Structure(B).breaks) :
              Structure(B).breaks[n] = Structure(C).breaks[n]
<1> DEFINE n    == Len(B)
           last == AfterCandle(B)[n]
<1>1. n \in Nat /\ Len(C) = n + 1 /\ B \in Seq(Candle) /\ C \in Seq(Candle)
  BY LaterFacts
<1>2. n + 1 \in 1 .. Len(C) /\ (n + 1) - 1 = n /\ n \in 0 .. n
  BY <1>1
<1>3. AfterCandle(C)[n] = last
  BY <1>2, CandlesStay
<1>4. Structure(B).breaks = last.breaks
  BY StructureIs
<1>5. Structure(C).breaks = AfterCandle(C)[n + 1].breaks
  BY <1>1, StructureIs
<1> HIDE DEF n
<1>6. /\ last \in StructureStates(C)
      /\ \/ \E e \in Events(C) : AfterCandle(C)[n + 1].breaks = Append(last.breaks, e)
         \/ AfterCandle(C)[n + 1].breaks = last.breaks
  <2>1. /\ last \in StructureStates(C)
        /\ Breaks(C, n + 1) => EventIs(C, n + 1, last, BreakAt(C, n + 1))
        /\ Breaks(C, n + 1) =>
             AfterCandle(C)[n + 1].breaks = Append(last.breaks, BreakAt(C, n + 1))
        /\ ~Breaks(C, n + 1) =>
             AfterCandle(C)[n + 1] =
               [last EXCEPT !.bias =
                  PriorBias(Swings(C), EligibleBefore(Swings(C), n + 1), last)]
    <3> DEFINE k == n + 1
    <3>1. k \in 1 .. Len(C) /\ AfterCandle(C)[k - 1] = last
      BY <1>2, <1>3
    <3> HIDE DEF k, last
    <3>2. /\ AfterCandle(C)[k - 1] \in StructureStates(C)
          /\ Breaks(C, k) => EventIs(C, k, AfterCandle(C)[k - 1], BreakAt(C, k))
          /\ Breaks(C, k) =>
               AfterCandle(C)[k] =
                 [breaks |-> Append(AfterCandle(C)[k - 1].breaks, BreakAt(C, k)),
                  bias |-> BreakAt(C, k).direction,
                  consumed |-> AfterCandle(C)[k - 1].consumed
                                 \cup {BreakAt(C, k).swing} \cup BreakAt(C, k).cleared]
          /\ ~Breaks(C, k) =>
               AfterCandle(C)[k] =
                 [AfterCandle(C)[k - 1] EXCEPT !.bias =
                    PriorBias(Swings(C), EligibleBefore(Swings(C), k), AfterCandle(C)[k - 1])]
      BY <1>1, <3>1, BreakFacts
    <3>3. Breaks(C, k) => AfterCandle(C)[k].breaks = Append(last.breaks, BreakAt(C, k))
      BY <3>1, <3>2
    <3> QED
      BY <3>1, <3>2, <3>3 DEF k
  <2>2. ~Breaks(C, n + 1) => AfterCandle(C)[n + 1].breaks = last.breaks
    BY <2>1 DEF StructureStates
  <2>3. Breaks(C, n + 1) => BreakAt(C, n + 1) \in Events(C)
    BY <2>1 DEF EventIs
  <2> QED
    BY <2>1, <2>2, <2>3
<1> DEFINE x == last.breaks
           y == AfterCandle(C)[n + 1].breaks
<1>7. x \in Seq(Events(C))
  BY <1>6 DEF StructureStates
<1>8. y = x \/ \E e \in Events(C) : y = Append(x, e)
  BY <1>6
<1> HIDE DEF x, y, last
<1>9. Len(x) <= Len(y) /\ \A k \in 1 .. Len(x) : x[k] = y[k]
  <2> DEFINE E == Events(C)
  <2> HIDE DEF E
  <2>1. x \in Seq(E) /\ (y = x \/ \E e \in E : y = Append(x, e))
    BY <1>7, <1>8 DEF E
  <2>2. CASE y = x
    BY <2>1, <2>2
  <2>3. ASSUME NEW e \in E, y = Append(x, e)
        PROVE  Len(x) <= Len(y) /\ \A k \in 1 .. Len(x) : x[k] = y[k]
    BY <2>1, <2>3
  <2> QED
    BY <2>1, <2>2, <2>3
<1> QED
  BY <1>4, <1>5, <1>9 DEF x, y

\* The events of a series are those of its next up to there.
LEMMA EventsStay ==
  ASSUME NEW B, NEW C, Later(B, C)
  PROVE  \A e : e \in EventsOf(Structure(B)) <=>
                e \in EventsOf(Structure(C)) /\ e.at <= Len(B)
<1>1. /\ Len(B) \in Nat /\ B \in Seq(Candle) /\ C \in Seq(Candle)
      /\ \A i \in 1 .. Len(B) : i \in 1 .. Len(C)
  BY LaterFacts
<1>2. ASSUME NEW e \in EventsOf(Structure(B))
      PROVE  e \in EventsOf(Structure(C)) /\ e.at <= Len(B)
  <2>1. e.at \in 1 .. Len(B) /\ Breaks(B, e.at) /\ e = BreakAt(B, e.at)
    BY <1>1, StructureEvents
  <2>2. Breaks(C, e.at) /\ e = BreakAt(C, e.at) /\ e.at \in 1 .. Len(C)
    BY <1>1, <2>1, BreaksStay
  <2>3. BreakAt(C, e.at) \in EventsOf(Structure(C))
    BY <1>1, <2>2, StructureEvents
  <2> QED
    BY <1>1, <2>1, <2>2, <2>3
<1>3. ASSUME NEW e \in EventsOf(Structure(C)), e.at <= Len(B)
      PROVE  e \in EventsOf(Structure(B))
  <2>1. e.at \in 1 .. Len(C) /\ Breaks(C, e.at) /\ e = BreakAt(C, e.at)
    BY <1>1, StructureEvents
  <2>2. e.at \in 1 .. Len(B)
    BY <1>1, <1>3, <2>1
  <2>3. Breaks(B, e.at) /\ e = BreakAt(B, e.at)
    BY <2>1, <2>2, BreaksStay
  <2>4. BreakAt(B, e.at) \in EventsOf(Structure(B))
    BY <1>1, <2>2, <2>3, StructureEvents
  <2> QED
    BY <2>3, <2>4
<1> QED
  BY <1>2, <1>3

\* So are the legs.
LEMMA LegsStay ==
  ASSUME NEW B, NEW C, Later(B, C)
  PROVE  \A leg : leg \in LegsOf(B) <=> leg \in LegsOf(C) /\ leg.formed <= Len(B)
<1>1. B \in Seq(Candle) /\ C \in Seq(Candle) /\ \A i \in 1 .. Len(B) : C[i] = B[i]
  BY LaterFacts
<1>2. \A e, o : e.at \in 1 .. Len(B) => Leg(C, e, o) = Leg(B, e, o)
  BY <1>1 DEF Leg
<1>3. ASSUME NEW leg \in LegsOf(B)
      PROVE  leg \in LegsOf(C) /\ leg.formed <= Len(B)
  <2>1. /\ leg.event \in EventsOf(Structure(B)) /\ leg.origin \in leg.event.opposite
        /\ leg = Leg(B, leg.event, leg.origin)
        /\ leg.formed = leg.event.at /\ leg.formed \in 1 .. Len(B)
    BY <1>1, LegFacts DEF LegsOf
  <2>2. leg.event \in EventsOf(Structure(C)) /\ leg = Leg(C, leg.event, leg.origin)
    BY <1>2, <2>1, EventsStay
  <2>3. leg \in LegsOf(C)
    BY <2>1, <2>2 DEF LegsOf, Legs
  <2>4. leg.formed <= Len(B)
    BY <2>1
  <2> QED
    BY <2>3, <2>4
<1>4. ASSUME NEW leg \in LegsOf(C), leg.formed <= Len(B)
      PROVE  leg \in LegsOf(B)
  <2>1. /\ leg.event \in EventsOf(Structure(C)) /\ leg.origin \in leg.event.opposite
        /\ leg = Leg(C, leg.event, leg.origin)
        /\ leg.formed = leg.event.at /\ leg.formed \in 1 .. Len(C)
    BY <1>1, LegFacts DEF LegsOf
  <2>2. leg.event.at \in 1 .. Len(B)
    <3>1. Len(B) \in Nat
      BY LaterFacts
    <3> QED
      BY <1>4, <2>1, <3>1
  <2>3. leg.event \in EventsOf(Structure(B)) /\ leg = Leg(B, leg.event, leg.origin)
    BY <1>2, <1>4, <2>1, <2>2, EventsStay
  <2> QED
    BY <2>1, <2>3 DEF LegsOf, Legs
<1> QED
  BY <1>3, <1>4

\* One candle of the range loop, at a candle of the earlier series.
LEMMA RangeTurnStays ==
  ASSUME NEW B, NEW C, Later(B, C), NEW i \in 1 .. Len(B), NEW ranges
  PROVE  RangesAfter(ranges, C[i], i, EventsOf(Structure(C)), LegsOf(C)) =
         RangesAfter(ranges, B[i], i, EventsOf(Structure(B)), LegsOf(B))
<1>1. C[i] = B[i] /\ Len(B) \in Nat /\ i <= Len(B)
  BY LaterFacts
<1>2. {leg \in LegsOf(C) : leg.formed = i} = {leg \in LegsOf(B) : leg.formed = i}
  BY <1>1, LegsStay
<1>3. (\E e \in EventsOf(Structure(C)) : e.at = i /\ e.class = "MSS") <=>
      (\E e \in EventsOf(Structure(B)) : e.at = i /\ e.class = "MSS")
  BY <1>1, EventsStay
<1> QED
  BY <1>1, <1>2, <1>3 DEF RangesAfter

\* The ranges after every candle stay what they were.
LEMMA RangesStay ==
  ASSUME NEW B, NEW C, Later(B, C)
  PROVE  \A i \in 0 .. Len(B) : RangesOf(C)[i] = RangesOf(B)[i]
<1> DEFINE f == RangesOf(C)
           g == RangesOf(B)
<1>1. /\ Len(B) \in Nat /\ B \in Seq(Candle) /\ C \in Seq(Candle)
      /\ \A i \in 1 .. Len(B) : i \in 1 .. Len(C)
  BY LaterFacts
<1>2. f[0] = g[0]
  <2>1. f[0] = {} /\ g[0] = {}
    BY <1>1, RangeLoop DEF RangesOf
  <2> QED
    BY <2>1
<1>3. ASSUME NEW i \in 1 .. Len(B), f[i - 1] = g[i - 1] PROVE f[i] = g[i]
  <2>1. f[i] = RangesAfter(f[i - 1], C[i], i, EventsOf(Structure(C)), LegsOf(C))
    BY <1>1, RangeLoop DEF RangesOf
  <2>2. g[i] = RangesAfter(g[i - 1], B[i], i, EventsOf(Structure(B)), LegsOf(B))
    BY <1>1, RangeLoop DEF RangesOf
  <2> HIDE DEF f, g
  <2> QED
    BY <1>3, <2>1, <2>2, RangeTurnStays
<1> HIDE DEF f, g
<1>4. \A i \in 0 .. Len(B) : f[i] = g[i]
  BY <1>1, <1>2, <1>3, SameTurns
<1> QED
  BY <1>4 DEF f, g

\* A range is there one candle later, and a superseded one as it was.
LEMMA RangeGoesOn ==
  ASSUME NEW B, NEW C, Later(B, C),
         NEW r \in DealingRanges(B, Structure(B), LegsOf(B))
  PROVE  \E q \in DealingRanges(C, Structure(C), LegsOf(C)) :
           q.leg = r.leg /\ (r.status = "SUPERSEDED" => q = r)
<1> DEFINE n      == Len(B)
           i      == n + 1
           bar    == C[i]
           events == EventsOf(Structure(C))
           legs   == LegsOf(C)
           ranges == RangesOf(B)[n]
           late   == DealingRanges(C, Structure(C), legs)
<1>1. n \in Nat /\ Len(C) = i /\ B \in Seq(Candle) /\ C \in Seq(Candle)
  BY LaterFacts
<1>2. i \in 1 .. Len(C) /\ i - 1 = n /\ n \in 0 .. n
  BY <1>1
<1>3. r \in ranges
  BY RangesAre DEF RangesOf
<1>4. late = RangesAfter(ranges, bar, i, events, legs)
  <2>1. late = RangesOf(C)[i]
    BY <1>1, RangesAre DEF RangesOf
  <2>2. RangesOf(C)[n] = ranges
    BY <1>2, RangesStay
  <2>3. RangesOf(C)[i] = RangesAfter(RangesOf(C)[i - 1], C[i], i, events, legs)
    BY <1>1, <1>2, RangeLoop DEF RangesOf
  <2> HIDE DEF late, events, legs, ranges, n, i
  <2> QED
    BY <1>2, <2>1, <2>2, <2>3 DEF bar
<1>5. RangeInv(B, n, r)
  BY <1>1, <1>2, <1>3, RangesKept
<1>6. r = [leg |-> r.leg, terminal |-> r.terminal, reached |-> r.reached,
           status |-> r.status, ended |-> r.ended]
  BY <1>5 DEF RangeInv
<1> HIDE DEF late, events, legs, ranges, n, i, bar
<1> DEFINE g == IF r.status = "ACTIVE" THEN Extended(r, bar, i) ELSE r
           x == IF g.status = "ACTIVE" THEN Superseded(g, i) ELSE g
           grown == {IF q.status = "ACTIVE" THEN Extended(q, bar, i) ELSE q : q \in ranges}
           ended == {IF q.status = "ACTIVE" THEN Superseded(q, i) ELSE q : q \in grown}
<1>7. g \in grown /\ x \in ended
  <2>1. g \in grown
    BY <1>3
  <2> HIDE DEF g, grown
  <2> QED
    BY <2>1
<1>8. ended \subseteq late \/ late = grown
  <2> HIDE DEF g, x
  <2> QED
    BY <1>4 DEF RangesAfter
<1>9. ASSUME NEW q, "leg" \in DOMAIN q, NEW a, NEW b
      PROVE  /\ [q EXCEPT !.terminal = a, !.reached = b].leg = q.leg
             /\ "leg" \in DOMAIN [q EXCEPT !.terminal = a, !.reached = b]
             /\ [q EXCEPT !.status = a, !.ended = b].leg = q.leg
  BY <1>9
<1>10. g.leg = r.leg /\ x.leg = r.leg
  <2>1. "leg" \in DOMAIN r
    <3>1. PICK a, b, c, d, e :
            r = [leg |-> a, terminal |-> b, reached |-> c, status |-> d, ended |-> e]
      BY <1>6
    <3> QED
      BY <3>1
  <2>2. g.leg = r.leg /\ "leg" \in DOMAIN g
    BY <1>9, <2>1 DEF Extended
  <2> HIDE DEF g
  <2> QED
    BY <1>9, <2>2 DEF Superseded
<1>11. r.status = "SUPERSEDED" => g = r /\ x = r
  OBVIOUS
<1> HIDE DEF g, x, grown, ended
<1> QED
  BY <1>7, <1>8, <1>10, <1>11 DEF late, legs

\* A candle's effect on the pools stays what it was.
LEMMA PoolTurnStays ==
  ASSUME NEW B, NEW C, Later(B, C), NEW i \in 1 .. Len(B), NEW liq
  PROVE  LiquidityAfter(liq, Swings(C), C[i], i) = LiquidityAfter(liq, Swings(B), B[i], i)
<1>1. C[i] = B[i] /\ Len(B) \in Nat
  BY LaterFacts
<1>2. \A t : t \in Swings(B) <=> t \in Swings(C) /\ t.at <= Len(B)
  BY SwingsStay
<1>3. \A d : Newcomers(Swings(C), i, d) = Newcomers(Swings(B), i, d)
  BY <1>1, <1>2 DEF Newcomers
<1>4. \A l, d : Welcomed(l, Swings(C), i, d) = Welcomed(l, Swings(B), i, d)
  <2> DEFINE From(l, new) == IF new = {} THEN l ELSE Admitted(l, CHOOSE s \in new : TRUE)
  <2>1. \A l, S, d : Welcomed(l, S, i, d) = From(l, Newcomers(S, i, d))
    BY DEF Welcomed
  <2> HIDE DEF From
  <2> QED
    BY <1>3, <2>1
<1> QED
  BY <1>1, <1>4, LiquidityAfterIs

\* So do the pools after every candle.
LEMMA PoolsStay ==
  ASSUME NEW B, NEW C, Later(B, C)
  PROVE  \A i \in 0 .. Len(B) :
           LiquidityAt(C, Swings(C))[i] = LiquidityAt(B, Swings(B))[i]
<1> DEFINE f == LiquidityAt(C, Swings(C))
           g == LiquidityAt(B, Swings(B))
<1>1. /\ Len(B) \in Nat /\ B \in Seq(Candle) /\ C \in Seq(Candle)
      /\ \A i \in 1 .. Len(B) : i \in 1 .. Len(C)
  BY LaterFacts
<1>2. f[0] = g[0]
  <2>1. f[0] = [pools |-> {}, unpaired |-> {}] /\ g[0] = [pools |-> {}, unpaired |-> {}]
    BY <1>1, LiquidityLoop
  <2> QED
    BY <2>1
<1>3. ASSUME NEW i \in 1 .. Len(B), f[i - 1] = g[i - 1] PROVE f[i] = g[i]
  <2>1. f[i] = LiquidityAfter(f[i - 1], Swings(C), C[i], i)
    BY <1>1, LiquidityLoop
  <2>2. g[i] = LiquidityAfter(g[i - 1], Swings(B), B[i], i)
    BY <1>1, LiquidityLoop
  <2> HIDE DEF f, g
  <2> QED
    BY <1>3, <2>1, <2>2, PoolTurnStays
<1> HIDE DEF f, g
<1>4. \A i \in 0 .. Len(B) : f[i] = g[i]
  BY <1>1, <1>2, <1>3, SameTurns
<1> QED
  BY <1>4 DEF f, g

\* A pool is kept by the candle more.
LEMMA PoolGoesOn ==
  ASSUME NEW B, NEW C, Later(B, C), NEW p \in Liquidity(B, Swings(B)).pools
  PROVE  \E q \in Liquidity(C, Swings(C)).pools : PoolKept(p, q)
<1> DEFINE n     == Len(B)
           i     == n + 1
           early == LiquidityAt(B, Swings(B))[n]
           late  == LiquidityAt(C, Swings(C))[i]
<1>1. n \in Nat /\ Len(C) = i /\ B \in Seq(Candle) /\ C \in Seq(Candle)
  BY LaterFacts
<1>2. i \in 1 .. Len(C) /\ i - 1 = n /\ n \in 0 .. n /\ n \in 0 .. Len(C)
  BY <1>1
<1>3. p \in early.pools /\ Liquidity(C, Swings(C)) = late
  BY <1>1, LiquidityIs
<1>4. LiquidityAt(C, Swings(C))[n] = early
  BY <1>2, PoolsStay
<1>5. LiquidityInv(C, n, Confirmed(C, n), early)
  BY <1>1, <1>2, <1>4, LiquidityKept
<1>6. late = LiquidityAfter(early, Swings(C), C[i], i)
  <2>1. LiquidityAt(C, Swings(C))[i] =
          LiquidityAfter(LiquidityAt(C, Swings(C))[i - 1], Swings(C), C[i], i)
    BY <1>1, <1>2, LiquidityLoop
  <2> QED
    BY <1>2, <1>4, <2>1
<1> HIDE DEF early, late, n
<1>7. CandleKeeps(C, i, Confirmed(C, i), early, late)
  <2> HIDE DEF i
  <2>1. LiquidityInv(C, i - 1, Confirmed(C, i - 1), early)
    BY <1>2, <1>5
  <2> QED
    BY <1>1, <1>2, <1>6, <2>1, LiquidityStep
<1> QED
  BY <1>3, <1>7 DEF CandleKeeps

-----------------------------------------------------------------------------

\* A gap stays.
LEMMA GapsStay ==
  ASSUME NEW B, NEW C, Later(B, C)
  PROVE  Gaps(B) \subseteq Gaps(C)
<1>1. Len(B) \in Nat /\ Len(C) = Len(B) + 1 /\ \A j \in 1 .. Len(B) : C[j] = B[j]
  BY LaterFacts
<1>2. \A i \in 3 .. Len(B) : i \in 3 .. Len(C) /\ C[i] = B[i] /\ C[i - 2] = B[i - 2]
  <2>1. \A i \in 3 .. Len(B) : i \in 3 .. Len(C) /\ i \in 1 .. Len(B) /\ i - 2 \in 1 .. Len(B)
    BY <1>1
  <2> QED
    BY <1>1, <2>1
<1> QED
  BY <1>2 DEF Gaps

\* With its state after every candle.
LEMMA GapStatesStay ==
  ASSUME NEW B, NEW C, Later(B, C)
  PROVE  \A i \in 0 .. Len(B) : GapsAfter(B)[i] \subseteq GapsAfter(C)[i]
<1> DEFINE f == GapsAfter(C)
           g == GapsAfter(B)
           K == {i \in 0 .. Len(B) : ~(g[i] \subseteq f[i])}
<1>1. /\ Len(B) \in Nat /\ B \in Seq(Candle) /\ C \in Seq(Candle)
      /\ \A i \in 1 .. Len(B) : i \in 1 .. Len(C) /\ C[i] = B[i]
  BY LaterFacts
<1>2. g[0] \subseteq f[0]
  <2>1. f[0] = {FreshGap(gap) : gap \in Gaps(C)} /\ g[0] = {FreshGap(gap) : gap \in Gaps(B)}
    BY <1>1, GapLoop
  <2>2. Gaps(B) \subseteq Gaps(C)
    BY GapsStay
  <2> HIDE DEF f, g
  <2> QED
    BY <2>1, <2>2
<1>3. ASSUME NEW i \in 1 .. Len(B), g[i - 1] \subseteq f[i - 1] PROVE g[i] \subseteq f[i]
  <2>1. f[i] = {GapAfter(state, C[i], i) : state \in f[i - 1]}
    BY <1>1, GapLoop
  <2>2. g[i] = {GapAfter(state, B[i], i) : state \in g[i - 1]}
    BY <1>1, GapLoop
  <2>3. C[i] = B[i]
    BY <1>1
  <2> HIDE DEF f, g
  <2> QED
    BY <1>3, <2>1, <2>2, <2>3
<1> SUFFICES ASSUME K # {} PROVE FALSE
  OBVIOUS
<1>4. PICK i \in K : \A m \in K : i <= m
  <2>1. K \subseteq 0 .. Len(B) /\ 0 \in Int /\ Len(B) \in Int
    BY <1>1
  <2> HIDE DEF K
  <2> QED
    BY <2>1, FirstOf
<1>5. i \in 0 .. Len(B) /\ ~(g[i] \subseteq f[i])
  OBVIOUS
<1>6. i # 0
  BY <1>2, <1>5
<1>7. i \in 1 .. Len(B) /\ i - 1 \in 0 .. Len(B) /\ ~(i <= i - 1)
  BY <1>1, <1>5, <1>6
<1>8. g[i - 1] \subseteq f[i - 1]
  <2>1. i - 1 \notin K
    <3> HIDE DEF K
    <3> QED
      BY <1>4, <1>7
  <2> QED
    BY <1>7, <2>1
<1> HIDE DEF f, g
<1> QED
  BY <1>3, <1>5, <1>7, <1>8

\* A gap keeps its first touch, and a filled one stays as it is.
LEMMA GapGoesOn ==
  ASSUME NEW B, NEW C, Later(B, C), NEW g \in GapStates(B)
  PROVE  \E h \in GapStates(C) :
           /\ h.zone = g.zone
           /\ g.touched # 0 => h.touched = g.touched
           /\ g.status = "FILLED" => h = g
<1> DEFINE n == Len(B)
           i == n + 1
           h == GapAfter(g, C[i], i)
<1>1. n \in Nat /\ Len(C) = i /\ B \in Seq(Candle) /\ C \in Seq(Candle)
  BY LaterFacts
<1>2. i \in 1 .. Len(C) /\ i - 1 = n /\ n \in 0 .. n
  BY <1>1
<1>3. g \in GapsAfter(C)[n]
  <2>1. g \in GapsAfter(B)[n]
    BY GapStatesAre
  <2> QED
    BY <1>2, <2>1, GapStatesStay
<1>4. h \in GapStates(C)
  <2>1. GapStates(C) = GapsAfter(C)[i]
    BY <1>1, GapStatesAre
  <2>2. GapsAfter(C)[i] = {GapAfter(state, C[i], i) : state \in GapsAfter(C)[i - 1]}
    BY <1>1, <1>2, GapLoop
  <2> HIDE DEF n, i
  <2> QED
    BY <1>2, <1>3, <2>1, <2>2
<1>5. GapInv(B, n, g)
  BY <1>1, GapsHold
<1>6. /\ g = [zone |-> g.zone, status |-> g.status, touched |-> g.touched, ended |-> g.ended]
      /\ g.status = "OPEN" => g.touched = 0
  BY <1>5 DEF GapInv
<1>7. /\ h.zone = g.zone
      /\ \/ h = g /\ (~GapTouchable(g, i) \/ ~Covers(g.zone, C[i]))
         \/ h.status = "FILLED" /\ GapTouchable(g, i)
            /\ (g.touched # 0 => h.touched = g.touched)
         \/ h.status = "TOUCHED" /\ g.status = "OPEN" /\ ~Covers(g.zone, C[i])
  BY <1>6, GapAfterFacts
<1> HIDE DEF h, i
<1>8. g.touched # 0 => h.touched = g.touched
  BY <1>6, <1>7
<1>9. g.status = "FILLED" => h = g
  BY <1>7 DEF GapTouchable
<1> QED
  BY <1>4, <1>7, <1>8, <1>9

-----------------------------------------------------------------------------

\* A block stays.
LEMMA BlocksStay ==
  ASSUME NEW B, NEW C, Later(B, C)
  PROVE  OrderBlocks(B, LegsOf(B)) \subseteq OrderBlocks(C, LegsOf(C))
<1>1. Len(B) \in Nat /\ B \in Seq(Candle) /\ \A j \in 1 .. Len(B) : C[j] = B[j]
  BY LaterFacts
<1> SUFFICES ASSUME NEW block \in OrderBlocks(B, LegsOf(B))
             PROVE  block \in OrderBlocks(C, LegsOf(C))
  OBVIOUS
<1>2. PICK leg \in LegsOf(B) :
        /\ Sources(B, leg) # {}
        /\ block = [direction |-> leg.direction, formed |-> leg.formed, leg |-> leg,
                    source |-> Greatest(Sources(B, leg)),
                    lower |-> ZoneOf(B[Greatest(Sources(B, leg))])[1],
                    upper |-> ZoneOf(B[Greatest(Sources(B, leg))])[2]]
  BY DEF OrderBlocks
<1>3. leg \in LegsOf(C)
  BY LegsStay
<1>4. leg.origin \in Swings(B) /\ leg.formed \in 1 .. Len(B)
  BY <1>1, LegFacts DEF LegsOf
<1>5. leg.origin.pivot \in 2 .. Len(B) - 1
  BY <1>1, <1>4, SwingFacts
<1> DEFINE P == Sources(B, leg)
           X == leg.origin.pivot .. leg.formed - 1
<1>6. /\ leg.origin.pivot \in Int /\ leg.formed - 1 \in Int
      /\ \A i \in X : i \in 1 .. Len(B)
  BY <1>1, <1>4, <1>5
<1>7. Sources(C, leg) = P
  BY <1>1, <1>6 DEF Sources
<1>8. Greatest(P) \in P
  <2>1. P \subseteq X
    BY DEF Sources
  <2>2. IsFiniteSet(X) /\ X \subseteq Int
    BY <1>6, FS_Interval
  <2> HIDE DEF X
  <2>3. IsFiniteSet(P)
    BY <2>1, <2>2, FS_Subset
  <2>4. P \subseteq Int /\ P # {}
    BY <1>2, <2>1, <2>2
  <2> HIDE DEF P
  <2> QED
    BY <2>3, <2>4, GreatestIs
<1>9. Greatest(P) \in 1 .. Len(B)
  BY <1>6, <1>8 DEF Sources
<1>10. C[Greatest(P)] = B[Greatest(P)]
  BY <1>1, <1>9
<1> HIDE DEF P, X
<1>11. Sources(C, leg) # {}
  BY <1>2, <1>7 DEF P
<1>12. block = [direction |-> leg.direction, formed |-> leg.formed, leg |-> leg,
                source |-> Greatest(Sources(C, leg)),
                lower |-> ZoneOf(C[Greatest(Sources(C, leg))])[1],
                upper |-> ZoneOf(C[Greatest(Sources(C, leg))])[2]]
  BY <1>2, <1>7, <1>10 DEF P
<1> QED
  BY <1>3, <1>11, <1>12 DEF OrderBlocks

\* The first candle of a test, once there is one, stays the first.
LEMMA FirstStays ==
  ASSUME NEW B, NEW C, Later(B, C), NEW block, block.formed \in 1 .. Len(B),
         NEW T, NEW U, \A i \in 1 .. Len(B) : i \in T <=> i \in U
  PROVE  /\ FirstAfter(B, block, T) # 0 => FirstAfter(C, block, U) = FirstAfter(B, block, T)
         /\ U \subseteq 1 .. Len(B) => FirstAfter(C, block, U) = FirstAfter(B, block, T)
<1> DEFINE x == FirstAfter(B, block, T)
           y == FirstAfter(C, block, U)
           hitsB == {i \in block.formed + 1 .. Len(B) : i \in T}
           hitsC == {i \in block.formed + 1 .. Len(C) : i \in U}
<1>1. Len(B) \in Nat /\ Len(C) = Len(B) + 1 /\ B \in Seq(Candle) /\ C \in Seq(Candle)
  BY LaterFacts
<1>2. /\ x = 0 <=> hitsB = {}
      /\ x # 0 => x \in hitsB /\ \A i \in hitsB : x <= i
  BY <1>1, FirstAfterIs
<1>3. block.formed \in 1 .. Len(C)
  BY <1>1
<1>4. /\ y = 0 <=> hitsC = {}
      /\ y # 0 => y \in hitsC /\ \A i \in hitsC : y <= i
  BY <1>1, <1>3, FirstAfterIs
<1>5. \A i \in hitsB : i \in hitsC /\ i \in Int /\ i <= Len(B)
  BY <1>1
<1>6. \A i \in hitsC : i \in Int /\ (i <= Len(B) => i \in hitsB)
  BY <1>1
<1>7. U \subseteq 1 .. Len(B) => \A i \in hitsC : i <= Len(B)
  BY <1>1
<1> HIDE DEF hitsB, hitsC, x, y
<1>8. x # 0 => y = x
  <2> SUFFICES ASSUME x # 0 PROVE y = x
    OBVIOUS
  <2>1. x \in hitsB /\ x \in hitsC /\ x \in Int /\ x <= Len(B)
    BY <1>2, <1>5
  <2>2. y \in hitsC /\ y <= x /\ y \in Int
    BY <1>4, <1>6, <2>1
  <2>3. y \in hitsB
    BY <1>1, <1>6, <2>1, <2>2
  <2>4. x <= y
    BY <1>2, <2>3
  <2> QED
    BY <2>1, <2>2, <2>4
<1>9. U \subseteq 1 .. Len(B) => y = x
  <2> SUFFICES ASSUME U \subseteq 1 .. Len(B), x = 0 PROVE y = 0
    BY <1>8
  <2> QED
    BY <1>2, <1>4, <1>6, <1>7
<1> QED
  BY <1>8, <1>9 DEF x, y

\* A block keeps its first touch and mitigation, an invalidated one stays.
LEMMA BlockGoesOn ==
  ASSUME NEW B, NEW C, Later(B, C), NEW b \in BlockStates(B, OrderBlocks(B, LegsOf(B)))
  PROVE  \E c \in BlockStates(C, OrderBlocks(C, LegsOf(C))) :
           /\ c.zone = b.zone
           /\ b.touched # 0 => c.touched = b.touched
           /\ b.mitigated # 0 => c.mitigated = b.mitigated
           /\ b.status = "INVALIDATED" => c = b
<1>1. /\ Len(B) \in Nat /\ Len(C) = Len(B) + 1 /\ B \in Seq(Candle) /\ C \in Seq(Candle)
      /\ \A j \in 1 .. Len(B) : C[j] = B[j] /\ j \in 1 .. Len(C)
  BY LaterFacts
<1>2. PICK block \in OrderBlocks(B, LegsOf(B)) : b = BlockState(B, block)
  BY BlockStatesAre
<1>3. block \in OrderBlocks(C, LegsOf(C))
  BY BlocksStay
<1> DEFINE c == BlockState(C, block)
<1>4. c \in BlockStates(C, OrderBlocks(C, LegsOf(C)))
  BY <1>3, BlockStatesAre
<1>5. block.formed \in 1 .. Len(B)
  BY <1>1, BlockFacts
<1> DEFINE eB == BlockEnd(B, block)
           eC == BlockEnd(C, block)
           TB == {i \in 1 .. Len(B) : Invalidates(block, B[i])}
           TC == {i \in 1 .. Len(C) : Invalidates(block, C[i])}
<1>6. \A i \in 1 .. Len(B) : i \in TB <=> i \in TC
  BY <1>1
<1>7. eB # 0 => eC = eB
  <2>1. eB = FirstAfter(B, block, TB) /\ eC = FirstAfter(C, block, TC)
    BY DEF BlockEnd
  <2> HIDE DEF TB, TC, eB, eC
  <2> QED
    BY <1>5, <1>6, <2>1, FirstStays
<1>8. /\ eB = 0 \/ eB \in 1 .. Len(B)
      /\ eC = 0 \/ eC \in 1 .. Len(C)
      /\ eB = 0 => eC = 0 \/ eC = Len(C)
  <2>1. /\ eB = 0 <=> {i \in block.formed + 1 .. Len(B) : i \in TB} = {}
        /\ eB # 0 => eB \in {i \in block.formed + 1 .. Len(B) : i \in TB}
    <3> HIDE DEF TB
    <3> QED
      BY <1>1, <1>5, FirstAfterIs DEF BlockEnd, TB
  <2>2. eC # 0 => eC \in {i \in block.formed + 1 .. Len(C) : i \in TC}
    <3>1. block.formed \in 1 .. Len(C)
      BY <1>1, <1>5
    <3> HIDE DEF TC
    <3> QED
      BY <1>1, <3>1, FirstAfterIs DEF BlockEnd, TC
  <2> HIDE DEF eB, eC, TB, TC
  <2>3. eB = 0 \/ eB \in 1 .. Len(B)
    BY <1>5, <2>1
  <2>4. eC = 0 \/ (eC \in 1 .. Len(C) /\ eC \in TC /\ eC \in block.formed + 1 .. Len(C))
    BY <1>1, <1>5, <2>2
  <2>5. ASSUME eB = 0, eC # 0, eC # Len(C) PROVE FALSE
    <3>1. eC \in block.formed + 1 .. Len(B) /\ eC \in 1 .. Len(B) /\ eC \in TC
      BY <1>1, <1>5, <2>4, <2>5
    <3>2. eC \in TB
      BY <1>6, <3>1
    <3> QED
      BY <2>1, <2>5, <3>1, <3>2
  <2> QED
    BY <2>3, <2>4, <2>5
<1> HIDE DEF eB, eC, TB, TC
<1> DEFINE sB == BlockSpan(B, block)
           sC == BlockSpan(C, block)
<1>9. /\ sB = IF eB = 0 THEN 1 .. Len(B) ELSE 1 .. eB
      /\ sC = IF eC = 0 THEN 1 .. Len(C) ELSE 1 .. eC
  BY DEF BlockSpan, eB, eC
<1>10. /\ \A i \in 1 .. Len(B) : i \in sB <=> i \in sC
       /\ eB # 0 => sC = sB /\ sC \subseteq 1 .. Len(B)
  <2> HIDE DEF sB, sC
  <2>1. CASE eB = 0
    <3>1. sB = 1 .. Len(B) /\ sC = 1 .. Len(C)
      BY <1>8, <1>9, <2>1
    <3> QED
      BY <1>1, <2>1, <3>1
  <2>2. CASE eB # 0
    <3>1. sB = 1 .. eB /\ sC = 1 .. eB /\ eB \in 1 .. Len(B)
      BY <1>7, <1>8, <1>9, <2>2
    <3> QED
      BY <1>1, <3>1
  <2> QED
    BY <2>1, <2>2
<1> HIDE DEF sB, sC
<1> DEFINE tB == {i \in sB : Touches(block, B[i])}
           tC == {i \in sC : Touches(block, C[i])}
           mB == {i \in sB : Satisfies(block, B[i])}
           mC == {i \in sC : Satisfies(block, C[i])}
<1>11. /\ \A i \in 1 .. Len(B) : i \in tB <=> i \in tC
       /\ \A i \in 1 .. Len(B) : i \in mB <=> i \in mC
       /\ eB # 0 => tC \subseteq 1 .. Len(B) /\ mC \subseteq 1 .. Len(B)
  BY <1>1, <1>10
<1> HIDE DEF tB, tC, mB, mC
<1>12. /\ FirstAfter(B, block, tB) # 0 =>
            FirstAfter(C, block, tC) = FirstAfter(B, block, tB)
       /\ eB # 0 => FirstAfter(C, block, tC) = FirstAfter(B, block, tB)
  BY <1>5, <1>11, FirstStays
<1>13. /\ FirstAfter(B, block, mB) # 0 =>
            FirstAfter(C, block, mC) = FirstAfter(B, block, mB)
       /\ eB # 0 => FirstAfter(C, block, mC) = FirstAfter(B, block, mB)
  BY <1>5, <1>11, FirstStays
<1>14. /\ BlockTouch(B, block) = FirstAfter(B, block, tB)
       /\ BlockTouch(C, block) = FirstAfter(C, block, tC)
       /\ BlockMitigation(B, block) = FirstAfter(B, block, mB)
       /\ BlockMitigation(C, block) = FirstAfter(C, block, mC)
  BY DEF BlockTouch, BlockMitigation, tB, tC, mB, mC, sB, sC
<1>15. /\ b.zone = block /\ c.zone = block
       /\ b.touched = BlockTouch(B, block) /\ c.touched = BlockTouch(C, block)
       /\ b.mitigated = BlockMitigation(B, block) /\ c.mitigated = BlockMitigation(C, block)
       /\ b.status = StatusOf(BlockTouch(B, block), BlockMitigation(B, block), eB)
  BY <1>2 DEF BlockState, eB
<1>16. b.status = "INVALIDATED" => eB # 0
  BY <1>15 DEF StatusOf
<1>17. eB # 0 => c = b
  <2> SUFFICES ASSUME eB # 0 PROVE c = b
    OBVIOUS
  <2>1. /\ BlockTouch(C, block) = BlockTouch(B, block)
        /\ BlockMitigation(C, block) = BlockMitigation(B, block)
        /\ BlockEnd(C, block) = BlockEnd(B, block)
    BY <1>7, <1>12, <1>13, <1>14 DEF eB, eC
  <2> QED
    BY <1>2, <2>1 DEF BlockState
<1> HIDE DEF c
<1> QED
  BY <1>4, <1>12, <1>13, <1>14, <1>15, <1>16, <1>17

\* A reading, with nothing new to read.
LEMMA KeptWhenSame ==
  ASSUME NEW B \in Seq(Candle)
  PROVE  Kept(Analysis(B), Analysis(B))
<1> DEFINE a == Analysis(B)
<1>1. Len(a.structure.breaks) \in Int
  <2>1. a.structure.breaks = AfterCandle(B)[Len(B)].breaks
    <3>1. a.structure = Structure(B)
      BY AnalysisIs
    <3>2. Structure(B).breaks = AfterCandle(B)[Len(B)].breaks
      BY StructureIs
    <3> HIDE DEF a
    <3> QED
      BY <3>1, <3>2
  <2>2. Len(B) \in 0 .. Len(B)
    OBVIOUS
  <2>3. AfterCandle(B)[Len(B)] \in StructureStates(B)
    BY <2>2, StructureKept DEF StructureInv
  <2>4. AfterCandle(B)[Len(B)].breaks \in Seq(Events(B))
    BY <2>3 DEF StructureStates
  <2> HIDE DEF a
  <2> QED
    BY <2>1, <2>4, LenProperties
<1> HIDE DEF a
<1>2. Len(a.structure.breaks) <= Len(a.structure.breaks)
  BY <1>1
<1>3. Kept(a, a)
  BY <1>2 DEF Kept
<1> QED
  BY <1>3 DEF a

\* A candle more changes nothing that was concluded.
LEMMA KeptWhenLater ==
  ASSUME NEW B, NEW C, Later(B, C)
  PROVE  Kept(Analysis(B), Analysis(C))
<1> DEFINE early == Analysis(B)
           late  == Analysis(C)
<1>1. /\ early.structure = Structure(B) /\ late.structure = Structure(C)
      /\ Structure(B).swings = Swings(B) /\ Structure(C).swings = Swings(C)
      /\ early.legs = LegsOf(B) /\ late.legs = LegsOf(C)
      /\ early.ranges = DealingRanges(B, Structure(B), LegsOf(B))
      /\ late.ranges = DealingRanges(C, Structure(C), LegsOf(C))
      /\ early.liquidity = Liquidity(B, Swings(B))
      /\ late.liquidity = Liquidity(C, Swings(C))
      /\ early.gaps = GapStates(B) /\ late.gaps = GapStates(C)
      /\ early.blocks = BlockStates(B, OrderBlocks(B, LegsOf(B)))
      /\ late.blocks = BlockStates(C, OrderBlocks(C, LegsOf(C)))
  BY AnalysisIs
<1> HIDE DEF early, late
<1>2. /\ early.structure.swings \subseteq late.structure.swings
      /\ \A s \in early.structure.swings :
           Relation(early.structure.swings, s) = Relation(late.structure.swings, s)
  <2>1. Swings(B) \subseteq Swings(C)
    BY SwingsStay
  <2>2. \A s \in Swings(B) : Relation(Swings(C), s) = Relation(Swings(B), s)
    BY RelationStays
  <2> QED
    BY <1>1, <2>1, <2>2
<1>3. /\ Len(early.structure.breaks) <= Len(late.structure.breaks)
      /\ \A n \in 1 .. Len(early.structure.breaks) :
           early.structure.breaks[n] = late.structure.breaks[n]
  BY <1>1, BreakListStays
<1>4. early.legs \subseteq late.legs
  BY <1>1, LegsStay
<1>5. \A r \in early.ranges : \E q \in late.ranges :
        q.leg = r.leg /\ (r.status = "SUPERSEDED" => q = r)
  BY <1>1, RangeGoesOn
<1>6. \A p \in early.liquidity.pools : \E q \in late.liquidity.pools :
        /\ q.founding = p.founding /\ q.formed = p.formed /\ p.members \subseteq q.members
        /\ PoolBoundary(q) = PoolBoundary(p)
        /\ p.status # "ACTIVE" => q = p
  <2>1. \A p \in early.liquidity.pools : \E q \in late.liquidity.pools : PoolKept(p, q)
    BY <1>1, PoolGoesOn
  <2> QED
    BY <2>1 DEF PoolKept
<1>7. \A g \in early.gaps : \E h \in late.gaps :
        /\ h.zone = g.zone
        /\ g.touched # 0 => h.touched = g.touched
        /\ g.status = "FILLED" => h = g
  BY <1>1, GapGoesOn
<1>8. \A b \in early.blocks : \E c \in late.blocks :
        /\ c.zone = b.zone
        /\ b.touched # 0 => c.touched = b.touched
        /\ b.mitigated # 0 => c.mitigated = b.mitigated
        /\ b.status = "INVALIDATED" => c = b
  BY <1>1, BlockGoesOn
<1>9. Kept(early, late)
  BY <1>2, <1>3, <1>4, <1>5, <1>6, <1>7, <1>8 DEF Kept
<1> QED
  BY <1>9 DEF early, late

\* What a timeframe sees after one more candle of the market: the same, or one
\* merged candle more.
LEMMA SeenNext ==
  ASSUME NEW S \in Seq(Candle), NEW bar \in Candle, NEW D \in Nat \ {0}
  PROVE  LET B == Observed(S, D)
             C == Observed(Append(S, bar), D)
         IN  C = B \/ Later(B, C)
<1> DEFINE E == Append(S, bar)
           B == Observed(S, D)
           C == Observed(E, D)
           n == Len(S)
           k == n \div D
           m == Len(E) \div D
<1>1. n \in Nat /\ E \in Seq(Candle) /\ Len(E) = n + 1
  <2> HIDE DEF Candle
  <2> QED
    BY AppendProperties
<1>2. /\ B \in Seq(Candle) /\ Len(B) = k /\ k \in Nat
      /\ \A j \in 1 .. k : B[j] = Merged(S, D, j)
  BY ObservedIsSeries
<1> HIDE DEF E
<1>3. /\ C \in Seq(Candle) /\ Len(C) = m /\ m \in Nat
      /\ \A j \in 1 .. m : C[j] = Merged(E, D, j)
  BY <1>1, ObservedIsSeries
<1>4. \A j \in 1 .. k : Merged(E, D, j) = Merged(S, D, j)
  BY MergedStays DEF E
<1>5. k * D <= n /\ n < k * D + D
  BY <1>1, DivFacts
<1>6. m * D <= n + 1 /\ n + 1 < m * D + D
  <2>1. Len(E) \in Nat
    BY <1>1
  <2>2. m * D <= Len(E) /\ Len(E) < m * D + D
    BY <2>1, DivFacts
  <2> HIDE DEF m, n
  <2> QED
    BY <1>1, <2>2
<1> HIDE DEF k, m, n, B, C
<1>7. m = k \/ m = k + 1
  <2>1. ASSUME m + 1 <= k PROVE FALSE
    <3>1. m + 1 \in Nat /\ (m + 1) * D <= k * D /\ (m + 1) * D = m * D + D
          /\ m * D \in Nat /\ k * D \in Nat
      BY <1>2, <1>3, <2>1, Products
    <3> DEFINE x == m * D
               y == k * D
               z == (m + 1) * D
    <3>2. z = x + D /\ z <= y /\ y <= n /\ n + 1 < x + D /\ x \in Nat /\ y \in Nat
      BY <1>5, <1>6, <3>1
    <3> HIDE DEF x, y, z
    <3> QED
      BY <1>1, <3>2
  <2>2. ASSUME k + 2 <= m PROVE FALSE
    <3>1. (k + 2) * D <= m * D /\ m * D \in Nat /\ (k + 2) * D \in Nat
      BY <1>2, <1>3, <2>2, Products
    <3>2. ((k + 1) + 1) * D = (k + 1) * D + D /\ (k + 1) * D = k * D + D /\ k * D \in Nat
          /\ (k + 1) * D \in Nat
      BY <1>2, Products
    <3>3. (k + 1) + 1 = k + 2
      BY <1>2
    <3> DEFINE x == k * D
               y == m * D
               z == (k + 2) * D
               w == (k + 1) * D
    <3>4. /\ x \in Nat /\ y \in Nat /\ z \in Nat /\ w \in Nat
          /\ z = w + D /\ w = x + D /\ z <= y /\ y <= n + 1 /\ n < x + D
      BY <1>5, <1>6, <3>1, <3>2, <3>3
    <3> HIDE DEF x, y, z, w
    <3> QED
      BY <1>1, <3>4
  <2> QED
    BY <1>2, <1>3, <2>1, <2>2
<1>8. CASE m = k
  <2>1. Len(C) = Len(B) /\ \A j \in 1 .. Len(B) : B[j] = C[j]
    BY <1>2, <1>3, <1>4, <1>8
  <2>2. C = B
    BY <1>2, <1>3, <2>1, SeqEqual
  <2> QED
    BY <2>2 DEF B, C, E
<1>9. CASE m = k + 1
  <2>1. \A j \in 1 .. Len(B) : C[j] = B[j]
    <3>1. \A j \in 1 .. k : j \in 1 .. m
      BY <1>2, <1>3, <1>9
    <3> QED
      BY <1>2, <1>3, <1>4, <3>1
  <2>2. Later(B, C)
    BY <1>2, <1>3, <1>9, <2>1 DEF Later
  <2> QED
    BY <2>2 DEF B, C, E
<1> QED
  BY <1>7, <1>8, <1>9

\* ReadingIs, of any market and its reading.
LEMMA ReadIs ==
  ASSUME NEW S \in Seq(Candle), NEW tf \in Timeframes
  PROVE  /\ Read(S)[tf] = Analysis(Observed(S, Duration(tf)))
         /\ Observed(S, Duration(tf)) \in Seq(Candle)
<1> DEFINE f == Forming(S[Len(S)].close)
<1>1. Duration(tf) \in Nat \ {0}
  BY DurationFacts
<1> HIDE DEF f
<1>2. Read(S)[tf] = Analysis(Closed(Series(Append(S, f), tf), Len(S) \div Duration(tf)))
  BY DEF Read, Composite, f
<1>3. Closed(Series(Append(S, f), tf), Len(S) \div Duration(tf)) = Observed(S, Duration(tf))
  BY ClosedIs
<1> QED
  BY <1>1, <1>2, <1>3, ObservedIsSeries

\* A close of M1 adds a candle to a timeframe or none.
LEMMA NothingRepainted ==
  ASSUME MarketInv, [Next]_vars, NEW tf \in Timeframes
  PROVE  UNCHANGED vars \/ Kept(reading[tf], reading'[tf])
<1>1. CASE UNCHANGED vars
  BY <1>1 DEF vars
<1>2. ASSUME NEW shape \in Shapes, Close(shape)
      PROVE  Kept(reading[tf], reading'[tf])
  <2> DEFINE last == bars[Len(bars)].close
             bar  == Follow(last, shape)
             D    == Duration(tf)
             B    == Observed(bars, D)
             C    == Observed(Append(bars, bar), D)
  <2>1. bars \in Seq(Candle) /\ last \in Int
    BY LastBar DEF MarketInv
  <2>2. bars' = Append(bars, bar)
    BY <1>2 DEF Close
  <2> HIDE DEF last
  <2>3. bar \in Candle
    BY <2>1, FollowIsCandle
  <2>4. reading[tf] = Analysis(B) /\ B \in Seq(Candle)
    BY ReadingIs DEF Seen
  <2>5. reading'[tf] = Analysis(C) /\ C \in Seq(Candle)
    <3>0. reading' = Read(bars')
      BY <1>2 DEF Close
    <3> HIDE DEF bar
    <3>1. reading' = Read(Append(bars, bar))
      BY <2>2, <3>0
    <3>2. Append(bars, bar) \in Seq(Candle)
      <4> HIDE DEF Candle, bar
      <4> QED
        BY <2>1, <2>3, AppendProperties
    <3> HIDE DEF bar
    <3>3. /\ Read(Append(bars, bar))[tf] = Analysis(Observed(Append(bars, bar), D))
          /\ Observed(Append(bars, bar), D) \in Seq(Candle)
      BY <3>2, ReadIs
    <3> QED
      BY <3>1, <3>3
  <2>6. C = B \/ Later(B, C)
    <3>1. D \in Nat \ {0}
      BY DurationFacts
    <3> HIDE DEF D, bar
    <3> QED
      BY <2>1, <2>3, <3>1, SeenNext
  <2> HIDE DEF B, C
  <2>7. CASE C = B
    BY <2>4, <2>5, <2>7, KeptWhenSame
  <2>8. CASE Later(B, C)
    BY <2>4, <2>5, <2>8, KeptWhenLater
  <2> QED
    BY <2>6, <2>7, <2>8
<1> QED
  BY <1>1, <1>2 DEF Next

-----------------------------------------------------------------------------
(* What holds of every market *)

\* Whatever the candles and however the market goes on, no check of the analysis
\* fails: the trade plan never loses its candidates to a ProtectedStructureError,
\* a DealingRangeError, an OrderBlockError, a candidate whose members disagree, a
\* source from the future, or two closing prices at one instant.
THEOREM NeverAbortsAlways == Spec => []AnalysisNeverAborts
<1>1. MarketInv => AnalysisNeverAborts
  BY NeverAborts
<1> QED
  BY <1>1, MarketHolds, PTL

\* Whatever the candles: a live swing has not been closed beyond, a swing is used
\* once, pools keep to the tolerance and to swings of their own and are untouched
\* while they live, and what a plan may name has not been used up
\* (analyse_structure, analyse_liquidity, analyse_fvg_lifecycle,
\* analyse_order_block_lifecycle).
THEOREM LevelsAlwaysSound == Spec => []LevelsAreSound
<1>1. MarketInv => LevelsAreSound
  BY LevelsHold
<1> QED
  BY <1>1, MarketHolds, PTL

\* Whatever the candles: what a plan is told of its candidates is consistent, the
\* EQUAL pairs, the two sides of a relation, and the places in a dealing range
\* (consolidate_candidates, _pair_relations, _range_context).
THEOREM FeaturesAlwaysAgree == Spec => []FeaturesAgree
<1>1. MarketInv => FeaturesAgree
  BY FeaturesHold
<1> QED
  BY <1>1, MarketHolds, PTL

\* Whatever the candles: a close never changes what the readings before it
\* concluded of swings, breaks, legs, ranges, pools, gaps and blocks, on any
\* timeframe (confirmed_swings, eligible_before, the touchable rules).
THEOREM NeverRepainted == Spec => NothingIsRepainted
<1>1. MarketInv /\ [Next]_vars
        => [\A tf \in Timeframes : Kept(reading[tf], reading'[tf])]_vars
  BY NothingRepainted
<1> QED
  BY <1>1, MarketHolds, PTL DEF Spec, NothingIsRepainted
=============================================================================
