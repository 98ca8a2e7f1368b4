---------------------------- MODULE InputProofs ----------------------------
(***************************************************************************)
(* Theorems of what the pipeline is given to write about: candles            *)
(* (MarketRead) and news (NewsCollection).  For any prices, timeframes,       *)
(* depths, limits and clock, any tape, and whatever the venue sends when: an  *)
(* observation is one instant of the market, the price reaction of a digest   *)
(* is true of what was traded, and the candles of a file are never guessed    *)
(* at.  For any channels, pages, budgets and ceiling: a collection that calls *)
(* itself complete has missed nothing but what its ceiling ranked last.       *)
(*                                                                         *)
(* One notion carries the first two.  A series is Sound for an instant if,   *)
(* of the candles that had closed by then, it has only real ones and, from   *)
(* its first one on, all of them; of later ones nothing is asked, they may   *)
(* still move.  What the venue answers is sound, a minute later it still is  *)
(* (a candle whose period is over stays as it is: RealStays), and so is what *)
(* later rows leave of earlier ones (OverlaidSound), however the socket cut  *)
(* them up and whatever was lost behind them; cutting at a clock and taking  *)
(* the newest keep it.  What a digest holds is besides Told: whatever was     *)
(* traded since its first candle is in one of them, be it a candle that is    *)
(* still open, so a window that none of them overlaps is quiet.  A file is    *)
(* another matter: its rows show candles, or what a clock said of them.       *)
(***************************************************************************)
EXTENDS MarketRead, NewsCollection, FiniteSetTheorems, FunctionTheorems,
        WellFoundedInduction, TLAPS

-----------------------------------------------------------------------------
(* Numbers and orders *)

\* A finite set of integers, unless it is empty, has a least element.
LEMMA FiniteLeast ==
  ASSUME NEW P, P \subseteq Int, P # {}, IsFiniteSet(P)
  PROVE  \E n \in P : \A m \in P : n <= m
<1> DEFINE Under(n) == {m \in P : m < n}
           T        == {Under(n) : n \in P}
<1>1. T \subseteq FiniteSubsetsOf(P)
  <2>1. ASSUME NEW n \in P PROVE Under(n) \in FiniteSubsetsOf(P)
    <3>1. Under(n) \in SUBSET P
      OBVIOUS
    <3>2. IsFiniteSet(Under(n))
      BY <3>1, FS_Subset
    <3> QED
      BY <3>1, <3>2 DEF FiniteSubsetsOf
  <2> QED
    BY <2>1
<1>2. PICK x \in T : \A y \in T : <<y, x>> \notin StrictSubsetOrdering(P)
  <2>1. T # {}
    OBVIOUS
  <2> HIDE DEF T
  <2> QED
    BY <1>1, <2>1, WFMin, FS_StrictSubsetOrderingWellFounded
<1>3. PICK n \in P : x = Under(n)
  OBVIOUS
<1>4. ASSUME NEW m \in P, m < n PROVE FALSE
  <2>1. Under(m) \in T
    OBVIOUS
  <2>2. /\ Under(m) \subseteq Under(n)
        /\ m \in Under(n)
        /\ m \notin Under(m)
    <3>1. m \in Int /\ n \in Int /\ \A k \in P : k \in Int
      OBVIOUS
    <3>2. \A k \in P : k < m => k < n
      BY <3>1, <1>4
    <3>3. Under(m) \subseteq Under(n)
      BY <3>2
    <3>4. m \in Under(n)
      BY <1>4
    <3>5. ~(m < m)
      BY <3>1
    <3>6. m \notin Under(m)
      BY <3>5
    <3> QED
      BY <3>3, <3>4, <3>6
  <2>3. <<Under(m), Under(n)>> \in StrictSubsetOrdering(P)
    BY <2>2 DEF StrictSubsetOrdering
  <2> HIDE DEF Under, T
  <2> QED
    BY <2>1, <2>3, <1>2, <1>3
<1> QED
  BY <1>4

\* And a greatest.
LEMMA FiniteGreatest ==
  ASSUME NEW P, P \subseteq Int, P # {}, IsFiniteSet(P)
  PROVE  \E n \in P : \A m \in P : n >= m
<1> DEFINE Over(n) == {m \in P : m > n}
           T       == {Over(n) : n \in P}
<1>1. T \subseteq FiniteSubsetsOf(P)
  <2>1. ASSUME NEW n \in P PROVE Over(n) \in FiniteSubsetsOf(P)
    <3>1. Over(n) \in SUBSET P
      OBVIOUS
    <3>2. IsFiniteSet(Over(n))
      BY <3>1, FS_Subset
    <3> QED
      BY <3>1, <3>2 DEF FiniteSubsetsOf
  <2> QED
    BY <2>1
<1>2. PICK x \in T : \A y \in T : <<y, x>> \notin StrictSubsetOrdering(P)
  <2>1. T # {}
    OBVIOUS
  <2> HIDE DEF T
  <2> QED
    BY <1>1, <2>1, WFMin, FS_StrictSubsetOrderingWellFounded
<1>3. PICK n \in P : x = Over(n)
  OBVIOUS
<1>4. ASSUME NEW m \in P, m > n PROVE FALSE
  <2>1. Over(m) \in T
    OBVIOUS
  <2>2. /\ Over(m) \subseteq Over(n)
        /\ m \in Over(n)
        /\ m \notin Over(m)
    <3>1. m \in Int /\ n \in Int /\ \A k \in P : k \in Int
      OBVIOUS
    <3>2. \A k \in P : k > m => k > n
      BY <3>1, <1>4
    <3>3. Over(m) \subseteq Over(n)
      BY <3>2
    <3>4. m \in Over(n)
      BY <1>4
    <3>5. ~(m > m)
      BY <3>1
    <3>6. m \notin Over(m)
      BY <3>5
    <3> QED
      BY <3>3, <3>4, <3>6
  <2>3. <<Over(m), Over(n)>> \in StrictSubsetOrdering(P)
    BY <2>2 DEF StrictSubsetOrdering
  <2> HIDE DEF Over, T
  <2> QED
    BY <2>1, <2>3, <1>2, <1>3
<1> QED
  BY <1>4

\* Min and Max of the community modules.
LEMMA MinIs ==
  ASSUME NEW P, P \subseteq Int, P # {}, IsFiniteSet(P)
  PROVE  Min(P) \in P /\ \A m \in P : Min(P) <= m
BY FiniteLeast DEF Min

LEMMA MaxIs ==
  ASSUME NEW P, P \subseteq Int, P # {}, IsFiniteSet(P)
  PROVE  Max(P) \in P /\ \A m \in P : Max(P) >= m
BY FiniteGreatest DEF Max

LEMMA PairFinite ==
  ASSUME NEW a, NEW b
  PROVE  IsFiniteSet({a, b})
<1>1. IsFiniteSet({a}) /\ IsFiniteSet({b})
  BY FS_Singleton
<1>2. {a, b} = {a} \cup {b}
  OBVIOUS
<1> QED
  BY <1>1, <1>2, FS_Union

LEMMA MinOfTwo ==
  ASSUME NEW a \in Int, NEW b \in Int
  PROVE  Min({a, b}) \in Int /\ Min({a, b}) <= a /\ Min({a, b}) <= b
<1>1. IsFiniteSet({a, b})
  BY PairFinite
<1> QED
  BY <1>1, MinIs

LEMMA MaxOfTwo ==
  ASSUME NEW a \in Int, NEW b \in Int
  PROVE  Max({a, b}) \in Int /\ a <= Max({a, b}) /\ b <= Max({a, b})
<1>1. IsFiniteSet({a, b})
  BY PairFinite
<1> QED
  BY <1>1, MaxIs

\* The values of a function on a finite set are finitely many.
LEMMA FiniteValues ==
  ASSUME NEW X, IsFiniteSet(X), NEW f, DOMAIN f = X, f = [x \in X |-> f[x]]
  PROVE  IsFiniteSet({f[x] : x \in X})
<1> DEFINE Y == {f[x] : x \in X}
<1>1. f \in Surjection(X, Y)
  BY DEF Surjection
<1> QED
  BY <1>1, FS_Surjection

\* Whole periods.
LEMMA DivFacts ==
  ASSUME NEW n \in Nat, NEW D \in Nat \ {0}
  PROVE  n \div D \in Nat /\ (n \div D) * D <= n /\ n < (n \div D) * D + D
OBVIOUS

LEMMA Products ==
  ASSUME NEW a \in Nat, NEW b \in Nat, NEW D \in Nat \ {0}
  PROVE  /\ a * D \in Nat /\ b * D \in Nat /\ (a + 1) * D = a * D + D
         /\ a <= b => a * D <= b * D
OBVIOUS

\* Periods that do not coincide follow each other.
LEMMA PeriodsApart ==
  ASSUME NEW a \in Nat, NEW b \in Nat, NEW D \in Nat \ {0}
  PROVE  /\ a * D < b * D + D => a <= b
         /\ a * D < b * D => a * D + D <= b * D
<1>1. ASSUME a * D < b * D + D PROVE a <= b
  <2>1. SUFFICES ASSUME ~(a <= b) PROVE FALSE
    OBVIOUS
  <2>2. b + 1 \in Nat /\ b + 1 <= a
    BY <2>1
  <2>3. (b + 1) * D <= a * D /\ (b + 1) * D = b * D + D
    BY <2>2, Products
  <2>4. a * D \in Nat /\ b * D \in Nat
    BY Products
  <2> QED
    BY <1>1, <2>3, <2>4
<1>2. ASSUME a * D < b * D PROVE a * D + D <= b * D
  <2>1. SUFFICES ASSUME ~(a + 1 <= b) PROVE FALSE
    <3>1. a + 1 \in Nat /\ (a + 1) * D = a * D + D /\ (a + 1 <= b => (a + 1) * D <= b * D)
      BY Products
    <3> QED
      BY <3>1
  <2>2. b <= a
    BY <2>1
  <2>3. b * D <= a * D /\ a * D \in Nat /\ b * D \in Nat
    BY <2>2, Products
  <2> QED
    BY <1>2, <2>3
<1> QED
  BY <1>1, <1>2

\* How many elements of a set are before one of its own, along a relation.
RankIn(S, R, x) == Cardinality({y \in S : <<y, x>> \in R})

\* Along a strict total order of a finite set, every rank is taken by one element.
LEMMA RankFacts ==
  ASSUME NEW S, IsFiniteSet(S), NEW R,
         \A x \in S : <<x, x>> \notin R,
         \A x, y \in S : x # y => <<x, y>> \in R \/ <<y, x>> \in R,
         \A x, y, z \in S : <<x, y>> \in R /\ <<y, z>> \in R => <<x, z>> \in R
  PROVE  /\ \A x \in S : RankIn(S, R, x) \in 0 .. Cardinality(S) - 1
         /\ \A x, y \in S : <<x, y>> \in R <=> RankIn(S, R, x) < RankIn(S, R, y)
         /\ \A x, y \in S : RankIn(S, R, x) = RankIn(S, R, y) => x = y
         /\ \A i \in 1 .. Cardinality(S) : \E x \in S : RankIn(S, R, x) = i - 1
<1> DEFINE n         == Cardinality(S)
           before(x) == {y \in S : <<y, x>> \in R}
           f         == [x \in S |-> RankIn(S, R, x)]
<1>1. n \in Nat
  BY FS_CardinalityType
<1>2. \A x \in S : RankIn(S, R, x) = Cardinality(before(x))
  BY DEF RankIn
<1>3. ASSUME NEW x \in S PROVE RankIn(S, R, x) \in 0 .. n - 1
  <2>1. before(x) \in SUBSET (S \ {x})
    OBVIOUS
  <2>2. IsFiniteSet(S \ {x}) /\ Cardinality(S \ {x}) = n - 1
    BY FS_RemoveElement
  <2> HIDE DEF before
  <2>3. IsFiniteSet(before(x)) /\ Cardinality(before(x)) <= n - 1
    BY <2>1, <2>2, FS_Subset
  <2>4. Cardinality(before(x)) \in Nat
    BY <2>3, FS_CardinalityType
  <2> QED
    BY <1>1, <1>2, <2>3, <2>4
<1>4. ASSUME NEW x \in S, NEW y \in S, <<x, y>> \in R
      PROVE  RankIn(S, R, x) < RankIn(S, R, y)
  <2>1. before(x) \in SUBSET before(y) /\ x \in before(y) /\ x \notin before(x)
    BY <1>4
  <2>2. before(y) \in SUBSET S
    OBVIOUS
  <2> HIDE DEF before
  <2>3. IsFiniteSet(before(y))
    BY <2>2, FS_Subset
  <2>4. /\ Cardinality(before(x)) <= Cardinality(before(y))
        /\ Cardinality(before(y)) = Cardinality(before(x)) => before(y) = before(x)
    BY <2>1, <2>3, FS_Subset
  <2>5. RankIn(S, R, x) \in Int /\ RankIn(S, R, y) \in Int
    BY <1>1, <1>3
  <2> QED
    BY <1>2, <2>1, <2>4, <2>5
<1>5. ASSUME NEW x \in S, NEW y \in S, ~(<<x, y>> \in R)
      PROVE  ~(RankIn(S, R, x) < RankIn(S, R, y))
  <2>1. RankIn(S, R, x) \in Int /\ RankIn(S, R, y) \in Int
    BY <1>1, <1>3
  <2>2. CASE x = y
    BY <2>1, <2>2
  <2>3. CASE x # y
    <3>1. <<y, x>> \in R
      BY <1>5, <2>3
    <3>2. RankIn(S, R, y) < RankIn(S, R, x)
      BY <1>4, <3>1
    <3> QED
      BY <2>1, <3>2
  <2> QED
    BY <2>2, <2>3
<1>6. ASSUME NEW x \in S, NEW y \in S, RankIn(S, R, x) = RankIn(S, R, y)
      PROVE  x = y
  <2>1. RankIn(S, R, x) \in Int
    BY <1>1, <1>3
  <2>2. <<x, y>> \notin R /\ <<y, x>> \notin R
    BY <1>4, <1>6, <2>1
  <2> QED
    BY <2>2
<1> HIDE DEF before
<1>7. f \in Injection(S, 0 .. n - 1)
  <2>1. f \in [S -> 0 .. n - 1]
    BY <1>3
  <2>2. \A x, y \in S : f[x] = f[y] => x = y
    BY <1>6
  <2> HIDE DEF f
  <2> QED
    BY <2>1, <2>2 DEF Injection, IsInjective
<1>8. IsFiniteSet(0 .. n - 1) /\ Cardinality(0 .. n - 1) = n
  <2>1. 0 \in Int /\ n - 1 \in Int
    BY <1>1
  <2>2. /\ IsFiniteSet(0 .. n - 1)
        /\ Cardinality(0 .. n - 1) = IF 0 > n - 1 THEN 0 ELSE (n - 1) - 0 + 1
    BY <2>1, FS_Interval
  <2> QED
    BY <1>1, <2>2
<1>9. f \in Surjection(S, 0 .. n - 1)
  <2> HIDE DEF f
  <2> QED
    BY <1>7, <1>8, FS_Injection
<1>10. ASSUME NEW i \in 1 .. n PROVE \E x \in S : RankIn(S, R, x) = i - 1
  <2>1. i - 1 \in 0 .. n - 1
    BY <1>1
  <2>2. PICK x \in S : f[x] = i - 1
    <3> HIDE DEF f
    <3> QED
      BY <1>9, <2>1 DEF Surjection
  <2> QED
    BY <2>2
<1> QED
  BY <1>3, <1>4, <1>5, <1>6, <1>10

-----------------------------------------------------------------------------
(* The venue's candles *)

Tapes == Seq(Prices \cup {Quiet})
Bars == [at : Nat, high : Nat, low : Nat, close : Nat]

\* What was traded in some minutes.
LEMMA TradedFacts ==
  ASSUME NEW T \in Tapes, NEW from \in Nat, NEW upto \in Int, upto <= Len(T)
  PROVE  /\ Traded(T, from, upto) \subseteq from + 1 .. upto
         /\ IsFiniteSet(Traded(T, from, upto))
         /\ \A m \in Traded(T, from, upto) : T[m] \in Prices /\ T[m] \in Nat \ {0}
         /\ IsFiniteSet({T[m] : m \in Traded(T, from, upto)})
<1>1. Traded(T, from, upto) \in SUBSET (from + 1 .. upto)
  BY DEF Traded
<1>2. IsFiniteSet(from + 1 .. upto)
  BY FS_Interval
<1>3. IsFiniteSet(Traded(T, from, upto))
  BY <1>1, <1>2, FS_Subset
<1>4. \A m \in Traded(T, from, upto) : T[m] \in Prices /\ T[m] \in Nat \ {0}
  <2>1. ASSUME NEW m \in Traded(T, from, upto) PROVE T[m] \in Prices
    <3>1. m \in 1 .. Len(T) /\ T[m] # Quiet
      BY DEF Traded, Tapes
    <3> QED
      BY <3>1 DEF Tapes
  <2>2. Prices \subseteq Nat \ {0}
    BY MarketAssumption DEF Quiet
  <2> QED
    BY <2>1, <2>2
<1>5. IsFiniteSet({T[m] : m \in Traded(T, from, upto)})
  <2> DEFINE X == Traded(T, from, upto)
             f == [m \in X |-> T[m]]
  <2>1. IsFiniteSet(X) /\ DOMAIN f = X /\ f = [m \in X |-> f[m]]
    BY <1>3
  <2>2. {T[m] : m \in X} = {f[m] : m \in X}
    OBVIOUS
  <2> HIDE DEF X, f
  <2>3. IsFiniteSet({f[m] : m \in X})
    BY <2>1, FiniteValues
  <2> QED
    BY <2>2, <2>3 DEF X
<1> QED
  BY <1>1, <1>3, <1>4, <1>5

PeriodEnd(T, d, o) == Min({o + d, Len(T)})

LEMMA PeriodEndIs ==
  ASSUME NEW T \in Tapes, NEW d \in Nat \ {0}, NEW o \in Nat
  PROVE  PeriodEnd(T, d, o) = IF o + d <= Len(T) THEN o + d ELSE Len(T)
<1>1. Len(T) \in Nat
  BY DEF Tapes
<1>2. {o + d, Len(T)} \subseteq Int /\ {o + d, Len(T)} # {} /\ IsFiniteSet({o + d, Len(T)})
  <2>1. IsFiniteSet({o + d}) /\ IsFiniteSet({Len(T)})
    BY FS_Singleton
  <2>2. {o + d, Len(T)} = {o + d} \cup {Len(T)}
    OBVIOUS
  <2>3. IsFiniteSet({o + d, Len(T)})
    BY <2>1, <2>2, FS_Union
  <2> QED
    BY <1>1, <2>3
<1>3. /\ Min({o + d, Len(T)}) \in {o + d, Len(T)}
      /\ \A m \in {o + d, Len(T)} : Min({o + d, Len(T)}) <= m
  BY <1>2, MinIs
<1> QED
  BY <1>1, <1>3 DEF PeriodEnd

\* A candle spans what was traded in its period.
LEMMA CandleAtFacts ==
  ASSUME NEW T \in Tapes, NEW d \in Nat \ {0}, NEW o \in Nat
  PROVE  LET minutes == Traded(T, o, PeriodEnd(T, d, o)) IN
         /\ CandleAt(T, d, o) = {} <=> minutes = {}
         /\ \A a, b \in CandleAt(T, d, o) : a = b
         /\ \A bar \in CandleAt(T, d, o) :
              /\ bar \in Bars /\ bar.at = o
              /\ bar.low \in Nat \ {0}
              /\ \A m \in minutes : bar.low <= T[m] /\ T[m] <= bar.high
<1> DEFINE minutes == Traded(T, o, PeriodEnd(T, d, o))
           prices  == {T[m] : m \in minutes}
           candle  == [at |-> o, high |-> Max(prices), low |-> Min(prices),
                       close |-> T[Max(minutes)]]
<1>1. PeriodEnd(T, d, o) \in Int /\ PeriodEnd(T, d, o) <= Len(T)
  <2>1. Len(T) \in Nat
    BY DEF Tapes
  <2>2. PeriodEnd(T, d, o) = IF o + d <= Len(T) THEN o + d ELSE Len(T)
    BY PeriodEndIs
  <2> HIDE DEF minutes
  <2> QED
    BY <2>1, <2>2
<1>2. /\ minutes \subseteq Int /\ IsFiniteSet(minutes) /\ IsFiniteSet(prices)
      /\ prices \subseteq Nat \ {0}
      /\ \A m \in minutes : T[m] \in Nat \ {0}
  <2>1. /\ minutes \subseteq o + 1 .. PeriodEnd(T, d, o)
        /\ IsFiniteSet(minutes) /\ IsFiniteSet(prices)
        /\ \A m \in minutes : T[m] \in Nat \ {0}
    BY <1>1, TradedFacts
  <2> HIDE DEF minutes
  <2>2. minutes \subseteq Int
    <3> SUFFICES ASSUME NEW m \in minutes PROVE m \in Int
      OBVIOUS
    <3>1. m \in o + 1 .. PeriodEnd(T, d, o)
      BY <2>1
    <3> QED
      BY <3>1, <1>1
  <2>3. prices \subseteq Nat \ {0}
    BY <2>1
  <2> QED
    BY <2>1, <2>2, <2>3
<1>3. CandleAt(T, d, o) = IF minutes = {} THEN {} ELSE {candle}
  BY DEF CandleAt, PeriodEnd
<1>4. ASSUME minutes # {}
      PROVE  /\ candle \in Bars /\ candle.at = o /\ candle.low \in Nat \ {0}
             /\ \A m \in minutes : candle.low <= T[m] /\ T[m] <= candle.high
  <2>1. prices # {} /\ prices \subseteq Int
    BY <1>2, <1>4
  <2> HIDE DEF prices
  <2>2. /\ Max(prices) \in prices /\ \A p \in prices : Max(prices) >= p
        /\ Min(prices) \in prices /\ \A p \in prices : Min(prices) <= p
    BY <1>2, <2>1, MaxIs, MinIs
  <2>3. Max(minutes) \in minutes
    <3> HIDE DEF minutes
    <3> QED
      BY <1>2, <1>4, MaxIs
  <2>4. T[Max(minutes)] \in Nat /\ Max(prices) \in Nat /\ Min(prices) \in Nat \ {0}
    BY <1>2, <2>2, <2>3
  <2>5. \A m \in minutes : T[m] \in prices
    BY DEF prices
  <2> HIDE DEF minutes
  <2> QED
    BY <2>2, <2>4, <2>5 DEF Bars
<1> HIDE DEF candle, prices
<1> QED
  BY <1>3, <1>4

\* A candle of the venue opens at a whole period, and something traded in it.
LEMMA RealFacts ==
  ASSUME NEW T \in Tapes, NEW d \in Nat \ {0}, NEW bar \in CandlesOf(T, d)
  PROVE  /\ bar \in Bars /\ bar.at \in Nat /\ bar.low \in Nat \ {0}
         /\ bar.at < Len(T)
         /\ bar \in CandleAt(T, d, bar.at)
         /\ \E k \in Nat : bar.at = k * d
<1>1. PICK k \in 0 .. Len(T) \div d : bar \in CandleAt(T, d, k * d)
  BY DEF CandlesOf
<1>2. k \in Nat /\ k * d \in Nat
  <2>1. Len(T) \in Nat
    BY DEF Tapes
  <2>2. Len(T) \div d \in Nat
    BY <2>1, DivFacts
  <2>3. k \in Nat
    BY <2>2
  <2> QED
    BY <2>3, Products
<1> DEFINE o == k * d
           minutes == Traded(T, o, PeriodEnd(T, d, o))
<1>3. o \in Nat /\ bar \in CandleAt(T, d, o)
  BY <1>1, <1>2
<1> HIDE DEF o
<1>4. /\ CandleAt(T, d, o) = {} <=> minutes = {}
      /\ bar \in Bars /\ bar.at = o /\ bar.low \in Nat \ {0}
  <2> HIDE DEF minutes
  <2>1. LET m == Traded(T, o, PeriodEnd(T, d, o)) IN
         /\ CandleAt(T, d, o) = {} <=> m = {}
         /\ \A b \in CandleAt(T, d, o) : b \in Bars /\ b.at = o /\ b.low \in Nat \ {0}
    BY <1>3, CandleAtFacts
  <2> QED
    BY <2>1, <1>3 DEF minutes
<1>5. o < Len(T)
  <2>1. PICK m : m \in minutes
    BY <1>3, <1>4
  <2>2. m \in o + 1 .. PeriodEnd(T, d, o)
    BY <2>1 DEF Traded
  <2>3. PeriodEnd(T, d, o) = IF o + d <= Len(T) THEN o + d ELSE Len(T)
    BY <1>3, PeriodEndIs
  <2>4. Len(T) \in Nat
    BY DEF Tapes
  <2> HIDE DEF minutes
  <2> QED
    BY <2>2, <2>3, <2>4, <1>3
<1>6. bar.at = k * d
  BY <1>4 DEF o
<1> QED
  BY <1>2, <1>3, <1>4, <1>5, <1>6

\* Two candles have two openings.
LEMMA RealOnce ==
  ASSUME NEW T \in Tapes, NEW d \in Nat \ {0}, NEW a \in CandlesOf(T, d),
         NEW b \in CandlesOf(T, d), a.at = b.at
  PROVE  a = b
<1>1. a \in CandleAt(T, d, a.at) /\ b \in CandleAt(T, d, a.at) /\ a.at \in Nat
  BY RealFacts
<1> QED
  BY <1>1, CandleAtFacts

\* What traded in a whole period makes a candle.
LEMMA RealIs ==
  ASSUME NEW T \in Tapes, NEW d \in Nat \ {0}, NEW k \in Nat,
         NEW bar \in CandleAt(T, d, k * d)
  PROVE  bar \in CandlesOf(T, d)
<1> DEFINE o == k * d
           q == Len(T) \div d
<1>1. o \in Nat /\ Len(T) \in Nat
  BY Products DEF Tapes
<1>2. o < Len(T)
  <2> HIDE DEF o
  <2>1. Traded(T, o, PeriodEnd(T, d, o)) # {}
    BY <1>1, CandleAtFacts DEF o
  <2>2. PICK m : m \in Traded(T, o, PeriodEnd(T, d, o))
    BY <2>1
  <2>3. m \in o + 1 .. PeriodEnd(T, d, o)
    BY <2>2 DEF Traded
  <2>4. PeriodEnd(T, d, o) = IF o + d <= Len(T) THEN o + d ELSE Len(T)
    BY <1>1, PeriodEndIs
  <2> QED
    BY <2>3, <2>4, <1>1
<1>3. q \in Nat /\ Len(T) < q * d + d
  BY <1>1, DivFacts
<1>4. q * d \in Nat
  BY <1>3, Products
<1>5. k * d < q * d + d
  <2> HIDE DEF q
  <2> QED
    BY <1>1, <1>2, <1>3, <1>4
<1>6. k <= q
  <2> HIDE DEF q
  <2> QED
    BY <1>3, <1>5, PeriodsApart
<1>7. k \in 0 .. Len(T) \div d
  BY <1>3, <1>6
<1> QED
  BY <1>7 DEF CandlesOf

\* Every trade is in one.
LEMMA TradeHasCandle ==
  ASSUME NEW T \in Tapes, NEW d \in Nat \ {0}, NEW m \in 1 .. Len(T), T[m] # Quiet
  PROVE  \E bar \in CandlesOf(T, d) :
           bar.at < m /\ m <= bar.at + d /\ bar.low <= T[m] /\ T[m] <= bar.high
<1> DEFINE k == (m - 1) \div d
           o == k * d
<1>1. m \in Nat \ {0} /\ m - 1 \in Nat /\ Len(T) \in Nat /\ m <= Len(T)
  BY DEF Tapes
<1>2. k \in Nat /\ o <= m - 1 /\ m - 1 < o + d
  BY <1>1, DivFacts
<1>3. o \in Nat
  <2> HIDE DEF k
  <2> QED
    BY <1>2, Products
<1> HIDE DEF k
<1>4. m \in Traded(T, o, PeriodEnd(T, d, o))
  <2> HIDE DEF o
  <2>1. PeriodEnd(T, d, o) = IF o + d <= Len(T) THEN o + d ELSE Len(T)
    BY <1>3, PeriodEndIs
  <2>2. m \in o + 1 .. PeriodEnd(T, d, o)
    BY <2>1, <1>1, <1>2, <1>3
  <2> QED
    BY <2>2 DEF Traded
<1>5. PICK bar \in CandleAt(T, d, o) : bar.at = o /\ bar.low <= T[m] /\ T[m] <= bar.high
  <2> HIDE DEF o
  <2>1. CandleAt(T, d, o) # {}
    BY <1>3, <1>4, CandleAtFacts
  <2> QED
    BY <1>3, <1>4, <2>1, CandleAtFacts
<1>6. bar \in CandlesOf(T, d)
  BY <1>2, <1>5, RealIs
<1>7. bar.at < m /\ m <= bar.at + d
  <2> HIDE DEF o
  <2> QED
    BY <1>1, <1>2, <1>3, <1>5
<1> QED
  BY <1>5, <1>6, <1>7

LEMMA RealFinite ==
  ASSUME NEW T \in Tapes, NEW d \in Nat \ {0}
  PROVE  IsFiniteSet(CandlesOf(T, d))
<1> DEFINE X == 0 .. Len(T) \div d
           f == [k \in X |-> CandleAt(T, d, k * d)]
<1>1. IsFiniteSet(X) /\ \A k \in X : k \in Nat /\ k * d \in Nat
  <2>1. Len(T) \in Nat
    BY DEF Tapes
  <2>2. Len(T) \div d \in Nat
    BY <2>1, DivFacts
  <2>3. IsFiniteSet(X)
    BY <2>2, FS_Interval
  <2>4. \A k \in X : k \in Nat
    BY <2>2
  <2> HIDE DEF X
  <2> QED
    BY <2>3, <2>4, Products
<1>2. \A k \in X : IsFiniteSet(f[k])
  <2> SUFFICES ASSUME NEW k \in X PROVE IsFiniteSet(f[k])
    OBVIOUS
  <2> DEFINE o == k * d
             C == CandleAt(T, d, o)
  <2>1. f[k] = C /\ o \in Nat
    BY <1>1
  <2> HIDE DEF f, o
  <2>2. \A a, b \in C : a = b
    BY <2>1, CandleAtFacts
  <2> HIDE DEF C
  <2>3. C = {} \/ \E a : C = {a}
    BY <2>2
  <2>4. IsFiniteSet(C)
    <3>1. CASE C = {}
      BY <3>1, FS_EmptySet
    <3>2. ASSUME NEW a, C = {a} PROVE IsFiniteSet(C)
      <4>1. IsFiniteSet({a})
        BY FS_Singleton
      <4> QED
        BY <3>2, <4>1
    <3> QED
      BY <2>3, <3>1, <3>2
  <2> QED
    BY <2>1, <2>4
<1>3. IsFiniteSet({f[k] : k \in X})
  <2>1. DOMAIN f = X /\ f = [k \in X |-> f[k]]
    OBVIOUS
  <2> HIDE DEF f, X
  <2> QED
    BY <2>1, <1>1, FiniteValues
<1>4. CandlesOf(T, d) = UNION {f[k] : k \in X}
  BY DEF CandlesOf
<1> HIDE DEF f, X
<1>5. \A S \in {f[k] : k \in X} : IsFiniteSet(S)
  BY <1>2
<1> QED
  BY <1>3, <1>4, <1>5, FS_UNION

\* A candle whose period is over stays as it is.
LEMMA RealStays ==
  ASSUME NEW T \in Tapes, NEW p \in Prices \cup {Quiet}, NEW d \in Nat \ {0},
         NEW bar, bar.at + d <= Len(T)
  PROVE  bar \in CandlesOf(Append(T, p), d) <=> bar \in CandlesOf(T, d)
<1> DEFINE U == Append(T, p)
<1>1. U \in Tapes /\ Len(U) = Len(T) + 1 /\ \A m \in 1 .. Len(T) : U[m] = T[m]
  BY DEF Tapes
<1>2. Len(T) \in Nat
  BY DEF Tapes
<1> HIDE DEF U
<1>3. ASSUME NEW o \in Nat, o + d <= Len(T) PROVE CandleAt(U, d, o) = CandleAt(T, d, o)
  <2>1. PeriodEnd(U, d, o) = o + d /\ PeriodEnd(T, d, o) = o + d
    <3>1. PeriodEnd(T, d, o) = IF o + d <= Len(T) THEN o + d ELSE Len(T)
      BY PeriodEndIs
    <3>2. PeriodEnd(U, d, o) = IF o + d <= Len(U) THEN o + d ELSE Len(U)
      BY <1>1, PeriodEndIs
    <3>3. o + d <= Len(U)
      BY <1>1, <1>2, <1>3
    <3> QED
      BY <3>1, <3>2, <3>3, <1>3
  <2> DEFINE E == o + d
             X == Traded(T, o, E)
  <2>2. \A m \in o + 1 .. E : U[m] = T[m]
    BY <1>1, <1>2, <1>3
  <2>3. Traded(U, o, E) = X
    <3> HIDE DEF E
    <3> QED
      BY <2>2 DEF Traded
  <2>4. \A m \in X : U[m] = T[m]
    BY <2>2 DEF Traded
  <2>5. X # {} => Max(X) \in X
    <3>1. X \subseteq o + 1 .. E /\ E \in Int
      BY DEF Traded
    <3>2. IsFiniteSet(X) /\ X \subseteq Int
      <4>1. IsFiniteSet(o + 1 .. E) /\ o + 1 .. E \subseteq Int
        BY <3>1, FS_Interval
      <4> HIDE DEF X
      <4> QED
        BY <3>1, <4>1, FS_Subset
    <3> HIDE DEF X
    <3> QED
      BY <3>2, MaxIs
  <2>6. CandleAt(T, d, o) =
          IF X = {} THEN {}
          ELSE {[at |-> o, high |-> Max({T[m] : m \in X}), low |-> Min({T[m] : m \in X}),
                 close |-> T[Max(X)]]}
    BY <2>1 DEF CandleAt, PeriodEnd
  <2>7. CandleAt(U, d, o) =
          IF X = {} THEN {}
          ELSE {[at |-> o, high |-> Max({U[m] : m \in X}), low |-> Min({U[m] : m \in X}),
                 close |-> U[Max(X)]]}
    BY <2>1, <2>3 DEF CandleAt, PeriodEnd
  <2> HIDE DEF X
  <2>8. {U[m] : m \in X} = {T[m] : m \in X}
    BY <2>4
  <2> QED
    BY <2>4, <2>5, <2>6, <2>7, <2>8
<1>4. ASSUME bar \in CandlesOf(U, d) PROVE bar \in CandlesOf(T, d)
  <2>1. PICK k \in Nat : bar.at = k * d
    BY <1>1, <1>4, RealFacts
  <2>2. bar \in CandleAt(U, d, bar.at) /\ bar.at \in Nat
    BY <1>1, <1>4, RealFacts
  <2>3. bar \in CandleAt(T, d, k * d)
    BY <2>1, <2>2, <1>3
  <2> QED
    BY <2>3, RealIs
<1>5. ASSUME bar \in CandlesOf(T, d) PROVE bar \in CandlesOf(U, d)
  <2>1. PICK k \in Nat : bar.at = k * d
    BY <1>5, RealFacts
  <2>2. bar \in CandleAt(T, d, bar.at) /\ bar.at \in Nat
    BY <1>5, RealFacts
  <2>3. bar \in CandleAt(U, d, k * d)
    BY <2>1, <2>2, <1>3
  <2> QED
    BY <1>1, <2>3, RealIs
<1> QED
  BY <1>4, <1>5 DEF U

-----------------------------------------------------------------------------
(* The newest of a series *)

\* What is newer than one of the newest is one of them.
LEMMA NewestUp ==
  ASSUME NEW R, IsFiniteSet(R), \A x \in R : x.at \in Int, NEW n \in Int,
         NEW b \in Newest(n, R), NEW c \in R, c.at >= b.at
  PROVE  c \in Newest(n, R)
<1> DEFINE over(x) == {y \in R : y.at > x.at}
<1>1. b \in R /\ Cardinality(over(b)) < n
  BY DEF Newest
<1>2. over(c) \in SUBSET over(b) /\ over(b) \in SUBSET R
  BY <1>1
<1>3. c \in Newest(n, R) <=> Cardinality(over(c)) < n
  BY DEF Newest
<1> HIDE DEF over
<1>4. IsFiniteSet(over(b))
  BY <1>2, FS_Subset
<1>5. IsFiniteSet(over(c)) /\ Cardinality(over(c)) <= Cardinality(over(b))
  BY <1>2, <1>4, FS_Subset
<1>6. Cardinality(over(c)) \in Nat /\ Cardinality(over(b)) \in Nat
  BY <1>4, <1>5, FS_CardinalityType
<1> QED
  BY <1>1, <1>3, <1>5, <1>6

\* The one newest is newer than the others.
LEMMA NewestOne ==
  ASSUME NEW R, IsFiniteSet(R), NEW b \in R
  PROVE  b \in Newest(1, R) <=> \A c \in R : ~(c.at > b.at)
<1> DEFINE over == {y \in R : y.at > b.at}
<1>1. b \in Newest(1, R) <=> Cardinality(over) < 1
  BY DEF Newest
<1>2. over \in SUBSET R
  OBVIOUS
<1>3. over = {} <=> \A c \in R : ~(c.at > b.at)
  OBVIOUS
<1> HIDE DEF over
<1>4. IsFiniteSet(over)
  BY <1>2, FS_Subset
<1>5. Cardinality(over) \in Nat /\ (Cardinality(over) = 0 <=> over = {})
  BY <1>4, FS_CardinalityType, FS_EmptySet
<1> QED
  BY <1>1, <1>3, <1>5

\* A series that has a candle has a newest one.
LEMMA NewestExists ==
  ASSUME NEW R, IsFiniteSet(R), R # {}, \A x \in R : x.at \in Int
  PROVE  \E b \in R : b \in Newest(1, R) /\ \A c \in R : c.at <= b.at
<1> DEFINE f == [x \in R |-> x.at]
           P == {f[x] : x \in R}
<1>1. P \subseteq Int /\ P # {}
  OBVIOUS
<1>2. IsFiniteSet(P)
  <2>1. DOMAIN f = R /\ f = [x \in R |-> f[x]]
    OBVIOUS
  <2> HIDE DEF f
  <2> QED
    BY <2>1, FiniteValues
<1>3. PICK n \in P : \A m \in P : n >= m
  <2> HIDE DEF P
  <2> QED
    BY <1>1, <1>2, FiniteGreatest
<1>4. PICK b \in R : b.at = n
  OBVIOUS
<1>5. \A c \in R : c.at \in P /\ c.at \in Int
  OBVIOUS
<1> HIDE DEF P
<1>6. \A c \in R : c.at <= b.at /\ ~(c.at > b.at)
  BY <1>1, <1>3, <1>4, <1>5
<1> QED
  BY <1>6, NewestOne

\* No two of its candles have one opening.
OneEach(R) == \A a, b \in R : a.at = b.at => a = b

\* Each of the first n candles has a number of older ones, and no two the same.
LEMMA InOrderFacts ==
  ASSUME NEW R, R \subseteq Bars, IsFiniteSet(R), OneEach(R)
  PROVE  /\ \A i \in 1 .. Cardinality(R) : InOrder(R, i) \in R
         /\ \A b \in R : \E i \in 1 .. Cardinality(R) : InOrder(R, i) = b
         /\ \A i, j \in 1 .. Cardinality(R) : i # j => InOrder(R, i) # InOrder(R, j)
<1> DEFINE n == Cardinality(R)
           E == {p \in R \X R : p[1].at < p[2].at}
<1>1. n \in Nat
  BY FS_CardinalityType
<1>2. \A b \in R : b.at \in Int
  BY DEF Bars
<1>3. \A b, c \in R : <<b, c>> \in E <=> b.at < c.at
  OBVIOUS
<1> HIDE DEF E
<1>4. /\ \A b \in R : <<b, b>> \notin E
      /\ \A b, c \in R : b # c => <<b, c>> \in E \/ <<c, b>> \in E
      /\ \A a, b, c \in R : <<a, b>> \in E /\ <<b, c>> \in E => <<a, c>> \in E
  <2>1. \A b \in R : <<b, b>> \notin E
    BY <1>2, <1>3
  <2>2. ASSUME NEW b \in R, NEW c \in R, b # c PROVE <<b, c>> \in E \/ <<c, b>> \in E
    <3>1. b.at # c.at
      BY <2>2 DEF OneEach
    <3> QED
      BY <1>2, <1>3, <3>1
  <2>3. ASSUME NEW a \in R, NEW b \in R, NEW c \in R, <<a, b>> \in E, <<b, c>> \in E
        PROVE  <<a, c>> \in E
    <3>1. a.at < b.at /\ b.at < c.at
      BY <1>3, <2>3
    <3> QED
      BY <1>2, <1>3, <3>1
  <2> QED
    BY <2>1, <2>2, <2>3
<1>5. /\ \A b \in R : RankIn(R, E, b) \in 0 .. n - 1
      /\ \A b, c \in R : RankIn(R, E, b) = RankIn(R, E, c) => b = c
      /\ \A i \in 1 .. n : \E b \in R : RankIn(R, E, b) = i - 1
  BY <1>4, RankFacts
<1>6. \A b \in R : Cardinality({c \in R : c.at < b.at}) = RankIn(R, E, b)
  <2> SUFFICES ASSUME NEW b \in R
               PROVE  Cardinality({c \in R : c.at < b.at}) = RankIn(R, E, b)
    OBVIOUS
  <2>1. {c \in R : c.at < b.at} = {c \in R : <<c, b>> \in E}
    BY <1>3
  <2> QED
    BY <2>1 DEF RankIn
<1>7. ASSUME NEW i \in 1 .. n
      PROVE  InOrder(R, i) \in R /\ RankIn(R, E, InOrder(R, i)) = i - 1
  <2>1. PICK b \in R : RankIn(R, E, b) = i - 1
    BY <1>5
  <2>2. b \in R /\ Cardinality({c \in R : c.at < b.at}) = i - 1
    BY <1>6, <2>1
  <2>3. InOrder(R, i) \in R /\ Cardinality({c \in R : c.at < InOrder(R, i).at}) = i - 1
    BY <2>2 DEF InOrder
  <2> QED
    BY <1>6, <2>3
<1>8. ASSUME NEW b \in R PROVE \E i \in 1 .. n : InOrder(R, i) = b
  <2> DEFINE i == RankIn(R, E, b) + 1
  <2>1. i \in 1 .. n /\ i - 1 = RankIn(R, E, b)
    BY <1>1, <1>5
  <2> HIDE DEF i
  <2>2. InOrder(R, i) \in R /\ RankIn(R, E, InOrder(R, i)) = RankIn(R, E, b)
    BY <1>7, <2>1
  <2>3. InOrder(R, i) = b
    BY <1>5, <2>2
  <2> QED
    BY <2>1, <2>3
<1>9. ASSUME NEW i \in 1 .. n, NEW j \in 1 .. n, InOrder(R, i) = InOrder(R, j) PROVE i = j
  <2>1. i - 1 = j - 1
    BY <1>7, <1>9
  <2> QED
    BY <1>1, <2>1
<1> QED
  BY <1>7, <1>8, <1>9


LEMMA RowFacts ==
  ASSUME NEW b \in Bars
  PROVE  /\ Row(b).at = b.at /\ Row(b).naive = FALSE /\ Row(b).symbol = ""
         /\ Row(b).open = b.close /\ Row(b).high = b.high /\ Row(b).low = b.low
         /\ Row(b).close = b.close
         /\ Utc(Row(b), FALSE) = b.at
         /\ Bar(Row(b), FALSE) = b
<1>1. b = [at |-> b.at, high |-> b.high, low |-> b.low, close |-> b.close]
  BY DEF Bars
<1>2. Utc(Row(b), FALSE) = b.at
  BY DEF Utc, Row
<1> QED
  BY <1>1, <1>2 DEF Row, Bar

\* The rows of candles are read back as those candles.
LEMMA RowsReadBack ==
  ASSUME NEW R, R \subseteq Bars, IsFiniteSet(R), OneEach(R)
  PROVE  Series(RowsOf(R), FALSE) = R
<1> DEFINE n == Cardinality(R)
           rows == RowsOf(R)
<1>1. n \in Nat
  BY FS_CardinalityType
<1>2. Len(rows) = n /\ \A i \in 1 .. n : rows[i] = Row(InOrder(R, i))
  BY <1>1 DEF RowsOf
<1> HIDE DEF rows
<1>3. /\ \A i \in 1 .. n : InOrder(R, i) \in R
      /\ \A b \in R : \E i \in 1 .. n : InOrder(R, i) = b
      /\ \A i, j \in 1 .. n : i # j => InOrder(R, i) # InOrder(R, j)
  BY InOrderFacts
<1> HIDE DEF n
<1>4. ASSUME NEW i \in 1 .. n
      PROVE  Utc(rows[i], FALSE) = InOrder(R, i).at /\ Bar(rows[i], FALSE) = InOrder(R, i)
  BY <1>2, <1>3, RowFacts
<1>5. ASSUME NEW k \in 1 .. n, NEW m \in k + 1 .. n
      PROVE  Utc(rows[m], FALSE) # Utc(rows[k], FALSE)
  <2>1. m \in 1 .. n /\ m # k
    BY <1>1
  <2>2. InOrder(R, m) # InOrder(R, k) /\ InOrder(R, m) \in R /\ InOrder(R, k) \in R
    BY <2>1, <1>3
  <2>3. InOrder(R, m).at # InOrder(R, k).at
    BY <2>2 DEF OneEach
  <2> QED
    BY <2>1, <2>3, <1>4
<1>6. Series(rows, FALSE) = {Bar(rows[i], FALSE) : i \in 1 .. n}
  BY <1>2, <1>5 DEF Series
<1>7. {Bar(rows[i], FALSE) : i \in 1 .. n} = R
  <2>1. \A i \in 1 .. n : Bar(rows[i], FALSE) \in R
    BY <1>3, <1>4
  <2>2. ASSUME NEW b \in R PROVE \E i \in 1 .. n : b = Bar(rows[i], FALSE)
    <3>1. PICK i \in 1 .. n : InOrder(R, i) = b
      BY <1>3
    <3> QED
      BY <3>1, <1>4
  <2> QED
    BY <2>1, <2>2
<1> QED
  BY <1>6, <1>7 DEF rows

-----------------------------------------------------------------------------
(* What a series read from the venue has in common with the tape *)

\* Of the candles that had closed by an instant: it has only real ones, and from
\* its first one on all of them.  What closed later may still be on the move.
Sound(T, at, d, R) ==
  /\ R \subseteq Bars /\ IsFiniteSet(R) /\ OneEach(R)
  /\ \A b \in R : b.at + d <= at => b \in CandlesOf(T, d)
  /\ \A b \in R, c \in CandlesOf(T, d) : c.at + d <= at /\ b.at <= c.at => c \in R

LEMMA NothingIsSound ==
  ASSUME NEW T, NEW at, NEW d
  PROVE  Sound(T, at, d, {})
<1>1. IsFiniteSet({})
  BY FS_EmptySet
<1> QED
  BY <1>1 DEF Sound, OneEach

\* A minute later it is as sound as it was.
LEMMA SoundStays ==
  ASSUME NEW T \in Tapes, NEW p \in Prices \cup {Quiet}, NEW d \in Nat \ {0},
         NEW at \in Int, at <= Len(T), NEW R, Sound(T, at, d, R)
  PROVE  Sound(Append(T, p), at, d, R)
<1> DEFINE U == Append(T, p)
<1>1. Len(T) \in Nat /\ U \in Tapes
  BY DEF Tapes
<1>2. ASSUME NEW b, b.at \in Int, b.at + d <= at
      PROVE  b \in CandlesOf(U, d) <=> b \in CandlesOf(T, d)
  <2>1. b.at + d <= Len(T)
    BY <1>1, <1>2
  <2> QED
    BY <2>1, RealStays
<1> HIDE DEF U
<1>3. \A c \in CandlesOf(U, d) : c.at \in Int
  BY <1>1, RealFacts
<1>4. \A b \in R : b.at \in Int
  BY DEF Sound, Bars
<1>5. \A b \in R : b.at + d <= at => b \in CandlesOf(U, d)
  BY <1>2, <1>4 DEF Sound
<1>6. \A b \in R, c \in CandlesOf(U, d) : c.at + d <= at /\ b.at <= c.at => c \in R
  BY <1>2, <1>3 DEF Sound
<1>7. Sound(U, at, d, R)
  BY <1>5, <1>6 DEF Sound
<1> QED
  BY <1>7 DEF U

\* So are the newest of a sound series, and those of it that have closed by now.
LEMMA NewestSound ==
  ASSUME NEW T \in Tapes, NEW d \in Nat \ {0}, NEW at \in Int, NEW R,
         Sound(T, at, d, R), NEW n \in Int
  PROVE  Sound(T, at, d, Newest(n, R))
<1>1. Newest(n, R) \in SUBSET R
  BY DEF Newest
<1>2. IsFiniteSet(Newest(n, R))
  BY <1>1, FS_Subset DEF Sound
<1>3. IsFiniteSet(R) /\ \A b \in R : b.at \in Int
  BY DEF Sound, Bars
<1>4. \A c \in CandlesOf(T, d) : c.at \in Int
  BY RealFacts
<1>5. ASSUME NEW b \in Newest(n, R), NEW c \in CandlesOf(T, d), c.at + d <= at, b.at <= c.at
      PROVE  c \in Newest(n, R)
  <2>1. b \in R /\ c \in R
    BY <1>1, <1>5 DEF Sound
  <2>2. c.at >= b.at
    BY <2>1, <1>3, <1>5
  <2> QED
    BY <2>1, <2>2, <1>3, <1>5, NewestUp
<1> QED
  BY <1>1, <1>2, <1>5 DEF Sound, OneEach

LEMMA ClosedSound ==
  ASSUME NEW T \in Tapes, NEW d \in Nat \ {0}, NEW at \in Int, NEW R,
         Sound(T, at, d, R), NEW moment \in Int, at <= moment
  PROVE  Sound(T, at, d, ClosedBy(R, d, moment))
<1>1. ClosedBy(R, d, moment) \in SUBSET R
  BY DEF ClosedBy
<1>2. IsFiniteSet(ClosedBy(R, d, moment))
  BY <1>1, FS_Subset DEF Sound
<1>3. \A c \in CandlesOf(T, d) : c.at \in Int
  BY RealFacts
<1>4. ASSUME NEW b \in ClosedBy(R, d, moment), NEW c \in CandlesOf(T, d),
             c.at + d <= at, b.at <= c.at
      PROVE  c \in ClosedBy(R, d, moment)
  <2>1. c \in R
    BY <1>1, <1>4 DEF Sound
  <2>2. c.at + d <= moment
    BY <1>3, <1>4
  <2> QED
    BY <2>1, <2>2 DEF ClosedBy, close_time
<1> QED
  BY <1>1, <1>2, <1>4 DEF Sound, OneEach

\* What the venue answers with is sound.
LEMMA VenueSound ==
  ASSUME NEW T \in Tapes, NEW d \in Nat \ {0}, NEW at \in Int
  PROVE  Sound(T, at, d, CandlesOf(T, d))
<1>1. CandlesOf(T, d) \subseteq Bars
  BY RealFacts
<1>2. IsFiniteSet(CandlesOf(T, d))
  BY RealFinite
<1>3. OneEach(CandlesOf(T, d))
  BY RealOnce DEF OneEach
<1> QED
  BY <1>1, <1>2, <1>3 DEF Sound

\* A row that is replaced is replaced by one with its opening.
LEMMA OverlaidHas ==
  ASSUME NEW n \in Nat, NEW sent, NEW i \in 0 .. n, NEW c \in sent[i]
  PROVE  \E e \in Overlaid(sent, n) : e.at = c.at /\ \E j \in 0 .. n : e \in sent[j]
<1> DEFINE P == {j \in 0 .. n : \E row \in sent[j] : row.at = c.at}
<1>1. P \subseteq Int /\ P # {} /\ IsFiniteSet(P)
  <2>1. P \in SUBSET (0 .. n) /\ i \in P
    OBVIOUS
  <2>2. IsFiniteSet(0 .. n)
    BY FS_Interval
  <2> HIDE DEF P
  <2>3. IsFiniteSet(P)
    BY <2>1, <2>2, FS_Subset
  <2> QED
    BY <2>1, <2>3
<1>2. PICK j \in P : \A m \in P : j >= m
  <2> HIDE DEF P
  <2> QED
    BY <1>1, FiniteGreatest
<1>3. PICK row \in sent[j] : row.at = c.at
  BY <1>2
<1>4. j \in 0 .. n
  BY <1>2
<1>5. ASSUME NEW m \in j + 1 .. n, NEW other \in sent[m], other.at = c.at PROVE FALSE
  <2>1. m \in 0 .. n /\ m > j
    BY <1>4
  <2>2. m \in P
    BY <1>5, <2>1
  <2> QED
    BY <2>1, <2>2, <1>2, <1>4
<1>6. row \in Overlaid(sent, n)
  BY <1>3, <1>4, <1>5 DEF Overlaid
<1> QED
  BY <1>3, <1>4, <1>6

\* And what is left when later rows have replaced earlier ones.
LEMMA OverlaidSound ==
  ASSUME NEW T \in Tapes, NEW d \in Nat \ {0}, NEW at \in Int, NEW n \in Nat,
         NEW sent, \A i \in 0 .. n : Sound(T, at, d, sent[i])
  PROVE  Sound(T, at, d, Overlaid(sent, n))
<1> DEFINE R == Overlaid(sent, n)
           Left(i) == {bar \in sent[i] : \A j \in i + 1 .. n :
                                           \A row \in sent[j] : row.at # bar.at}
           f == [i \in 0 .. n |-> Left(i)]
<1>1. \A b : b \in R <=> \E i \in 0 .. n : b \in Left(i)
  BY DEF Overlaid
<1>2. \A i \in 0 .. n : Left(i) \subseteq sent[i]
  OBVIOUS
<1>3. R \subseteq Bars
  BY <1>1, <1>2 DEF Sound
<1>4. IsFiniteSet(R)
  <2>1. \A i \in 0 .. n : IsFiniteSet(f[i])
    <3> SUFFICES ASSUME NEW i \in 0 .. n PROVE IsFiniteSet(Left(i))
      OBVIOUS
    <3>1. IsFiniteSet(sent[i])
      BY DEF Sound
    <3>2. Left(i) \in SUBSET sent[i]
      OBVIOUS
    <3> HIDE DEF Left
    <3> QED
      BY <3>1, <3>2, FS_Subset
  <2>2. R = UNION {f[i] : i \in 0 .. n}
    BY DEF Overlaid
  <2>3. DOMAIN f = 0 .. n /\ f = [i \in 0 .. n |-> f[i]]
    OBVIOUS
  <2>4. IsFiniteSet(0 .. n)
    BY FS_Interval
  <2> HIDE DEF f, R
  <2>5. IsFiniteSet({f[i] : i \in 0 .. n})
    BY <2>3, <2>4, FiniteValues
  <2>6. \A S \in {f[i] : i \in 0 .. n} : IsFiniteSet(S)
    BY <2>1
  <2> QED
    BY <2>2, <2>5, <2>6, FS_UNION
<1>5. \A b \in R : b.at + d <= at => b \in CandlesOf(T, d)
  BY <1>1, <1>2 DEF Sound
<1>6. ASSUME NEW i \in 0 .. n, NEW j \in 0 .. n, NEW a \in Left(i), NEW b \in Left(j),
             a.at = b.at, i < j
      PROVE  FALSE
  <2>1. j \in i + 1 .. n
    BY <1>6
  <2> QED
    BY <2>1, <1>2, <1>6
<1>7. OneEach(R)
  <2> SUFFICES ASSUME NEW a \in R, NEW b \in R, a.at = b.at PROVE a = b
    BY DEF OneEach
  <2>1. PICK i \in 0 .. n : a \in Left(i)
    BY <1>1
  <2>2. PICK j \in 0 .. n : b \in Left(j)
    BY <1>1
  <2>3. ~(i < j) /\ ~(j < i)
    BY <2>1, <2>2, <1>6
  <2>4. i = j
    BY <2>3
  <2>5. a \in sent[i] /\ b \in sent[i]
    BY <2>1, <2>2, <2>4
  <2> QED
    BY <2>5 DEF Sound, OneEach
<1>8. ASSUME NEW b \in R, NEW c \in CandlesOf(T, d), c.at + d <= at, b.at <= c.at
      PROVE  c \in R
  <2>1. PICK i \in 0 .. n : b \in Left(i)
    BY <1>1
  <2>2. c \in sent[i]
    BY <2>1, <1>2, <1>8 DEF Sound
  <2>3. PICK e \in R : e.at = c.at
    BY <2>1, <2>2, OverlaidHas
  <2>4. e.at + d <= at
    BY <2>3, <1>8
  <2>5. e \in CandlesOf(T, d)
    BY <2>4, <1>5
  <2>6. e = c
    BY <2>3, <2>5, RealOnce
  <2> QED
    BY <2>6
<1> HIDE DEF R
<1>9. Sound(T, at, d, R)
  BY <1>3, <1>4, <1>5, <1>7, <1>8 DEF Sound
<1> QED
  BY <1>9 DEF R

\* Of those candles it has, from its first one on, every one in which something
\* traded by the instant, though perhaps as it stood before it closed.
Told(T, at, d, candles, R) ==
  \A b \in R, c \in candles :
    b.at <= c.at /\ (\E m \in Traded(T, c.at, c.at + d) : m <= at) => \E e \in R : e.at = c.at

\* What is under way or lies there: sound, and of all candles there are.
Fresh(T, at, d, R) == Sound(T, at, d, R) /\ Told(T, at, d, CandlesOf(T, d), R)

LEMMA NothingIsFresh ==
  ASSUME NEW T, NEW at, NEW d
  PROVE  Fresh(T, at, d, {})
BY NothingIsSound DEF Fresh, Told

\* A trade belongs to one candle of a tape and of what it grows to.
LEMMA OnePeriod ==
  ASSUME NEW T \in Tapes, NEW U \in Tapes, NEW d \in Nat \ {0}, NEW m \in Int,
         NEW a \in CandlesOf(T, d), a.at < m, m <= a.at + d,
         NEW b \in CandlesOf(U, d), b.at < m, m <= b.at + d
  PROVE  a.at = b.at
<1>1. PICK j \in Nat : a.at = j * d
  BY RealFacts
<1>2. PICK k \in Nat : b.at = k * d
  BY RealFacts
<1>3. a.at \in Nat /\ b.at \in Nat
  BY RealFacts
<1>4. j * d < k * d + d /\ k * d < j * d + d
  BY <1>1, <1>2, <1>3
<1>5. j <= k /\ k <= j
  BY <1>4, PeriodsApart
<1>6. j = k
  BY <1>5
<1> QED
  BY <1>1, <1>2, <1>6

LEMMA FreshStays ==
  ASSUME NEW T \in Tapes, NEW p \in Prices \cup {Quiet}, NEW d \in Nat \ {0},
         NEW at \in Int, at <= Len(T), NEW R, Fresh(T, at, d, R)
  PROVE  Fresh(Append(T, p), at, d, R)
<1> DEFINE U == Append(T, p)
<1>1. /\ Len(T) \in Nat /\ U \in Tapes /\ Len(U) = Len(T) + 1
      /\ \A m \in 1 .. Len(T) : U[m] = T[m]
  BY DEF Tapes
<1> HIDE DEF U
<1>2. ASSUME NEW b \in R, NEW c \in CandlesOf(U, d), b.at <= c.at,
             NEW m \in Traded(U, c.at, c.at + d), m <= at
      PROVE  \E e \in R : e.at = c.at
  <2>1. c.at \in Nat
    BY <1>1, RealFacts
  <2>2. m \in Int /\ c.at < m /\ m <= c.at + d /\ U[m] # Quiet
    BY <2>1 DEF Traded
  <2>3. m \in 1 .. Len(T) /\ T[m] # Quiet
    BY <1>1, <1>2, <2>1, <2>2
  <2>4. PICK g \in CandlesOf(T, d) : g.at < m /\ m <= g.at + d
    BY <2>3, TradeHasCandle
  <2>5. g.at = c.at
    BY <1>1, <2>2, <2>4, OnePeriod
  <2>6. m \in Traded(T, g.at, g.at + d)
    BY <2>1, <2>2, <2>3, <2>5 DEF Traded
  <2>7. Told(T, at, d, CandlesOf(T, d), R)
    BY DEF Fresh
  <2> QED
    BY <1>2, <2>5, <2>6, <2>7 DEF Told
<1>3. Told(U, at, d, CandlesOf(U, d), R)
  BY <1>2 DEF Told
<1>4. Sound(U, at, d, R)
  BY SoundStays DEF Fresh, U
<1> QED
  BY <1>3, <1>4 DEF Fresh, U

LEMMA NewestTold ==
  ASSUME NEW T \in Tapes, NEW d \in Nat \ {0}, NEW at \in Int,
         NEW R, Sound(T, at, d, R), NEW candles \in SUBSET CandlesOf(T, d),
         Told(T, at, d, candles, R), NEW n \in Int
  PROVE  Told(T, at, d, candles, Newest(n, R))
<1>1. IsFiniteSet(R) /\ \A x \in R : x.at \in Int
  BY DEF Sound, Bars
<1>2. \A b \in Newest(n, R) : b \in R
  BY DEF Newest
<1>3. \A b \in Newest(n, R), e \in R : e.at >= b.at => e \in Newest(n, R)
  BY <1>1, NewestUp
<1>4. \A c \in candles : c.at \in Int
  BY RealFacts
<1> SUFFICES ASSUME NEW b \in Newest(n, R), NEW c \in candles, b.at <= c.at,
                    \E m \in Traded(T, c.at, c.at + d) : m <= at
             PROVE  \E e \in Newest(n, R) : e.at = c.at
  BY DEF Told
<1>5. PICK e \in R : e.at = c.at
  BY <1>2 DEF Told
<1>6. e.at >= b.at
  BY <1>1, <1>2, <1>4, <1>5
<1> QED
  BY <1>3, <1>5, <1>6

\* The venue has all there are, and sends the newest of them.
LEMMA VenueFresh ==
  ASSUME NEW T \in Tapes, NEW d \in Nat \ {0}, NEW at \in Int, NEW n \in Int
  PROVE  Fresh(T, at, d, Newest(n, CandlesOf(T, d)))
<1> DEFINE real == CandlesOf(T, d)
<1>1. Sound(T, at, d, real)
  BY VenueSound
<1>2. Told(T, at, d, real, real)
  BY DEF Told
<1>3. Sound(T, at, d, Newest(n, real)) /\ Told(T, at, d, real, Newest(n, real))
  BY <1>1, <1>2, NewestSound, NewestTold
<1> QED
  BY <1>3 DEF Fresh

LEMMA OverlaidFresh ==
  ASSUME NEW T \in Tapes, NEW d \in Nat \ {0}, NEW at \in Int, NEW n \in Nat,
         NEW sent, \A i \in 0 .. n : Fresh(T, at, d, sent[i])
  PROVE  Fresh(T, at, d, Overlaid(sent, n))
<1>1. ASSUME NEW b \in Overlaid(sent, n), NEW c \in CandlesOf(T, d), b.at <= c.at,
             \E m \in Traded(T, c.at, c.at + d) : m <= at
      PROVE  \E e \in Overlaid(sent, n) : e.at = c.at
  <2>1. PICK i \in 0 .. n : b \in sent[i]
    BY DEF Overlaid
  <2>2. Told(T, at, d, CandlesOf(T, d), sent[i])
    BY DEF Fresh
  <2>3. PICK g \in sent[i] : g.at = c.at
    BY <1>1, <2>1, <2>2 DEF Told
  <2>4. PICK e \in Overlaid(sent, n) : e.at = g.at
    BY <2>3, OverlaidHas
  <2> QED
    BY <2>3, <2>4
<1>2. Told(T, at, d, CandlesOf(T, d), Overlaid(sent, n))
  BY <1>1 DEF Told
<1>3. Sound(T, at, d, Overlaid(sent, n))
  BY OverlaidSound DEF Fresh
<1> QED
  BY <1>2, <1>3 DEF Fresh

\* Of what is fresh, the candles that have closed are told of by rows that have.
LEMMA ClosedTold ==
  ASSUME NEW T \in Tapes, NEW d \in Nat \ {0}, NEW at \in Int, NEW moment \in Int,
         NEW R, Fresh(T, at, d, R)
  PROVE  Told(T, at, d, ClosedBy(CandlesOf(T, d), d, moment), ClosedBy(R, d, moment))
<1> SUFFICES ASSUME NEW b \in ClosedBy(R, d, moment),
                    NEW c \in ClosedBy(CandlesOf(T, d), d, moment), b.at <= c.at,
                    \E m \in Traded(T, c.at, c.at + d) : m <= at
             PROVE  \E e \in ClosedBy(R, d, moment) : e.at = c.at
  BY DEF Told
<1>1. b \in R /\ c \in CandlesOf(T, d) /\ c.at + d <= moment
  BY DEF ClosedBy, close_time
<1>2. PICK e \in R : e.at = c.at
  BY <1>1 DEF Fresh, Told
<1>3. e \in ClosedBy(R, d, moment)
  BY <1>1, <1>2 DEF ClosedBy, close_time
<1> QED
  BY <1>2, <1>3

-----------------------------------------------------------------------------
(* The invariant *)

FileKinds == {"none", "timed", "monthly"}
Jobs == [kind : Kinds, at : Int, todo : Seq(Nat \ {0}), file : FileKinds]
Loads == [phase : {"idle", "reading", "read"}, attempt : Nat, deadline : Nat,
          rows : SUBSET Bars, messages : Int, sent : Nat, completed : BOOLEAN]
Packets == [kind : {"rows", "completed", "passed over"}, rows : SUBSET Bars]

MarketType ==
  /\ tape \in Tapes /\ job \in Jobs /\ job.at <= Len(tape)
  /\ load \in Loads /\ wire \in Seq(Packets)
  /\ DOMAIN series \subseteq Nat \ {0}
  /\ outcome \in {"PENDING", "FAILED", "DONE"}

\* What is left to read, and what has been.
JobInv ==
  /\ job.kind = "none" => /\ outcome = "PENDING" /\ load = NoLoad /\ wire = << >>
                          /\ DOMAIN series = {}
  /\ Active => job.todo # << >>
  /\ outcome = "DONE" => job.todo = << >>
  /\ job.kind = "observation" =>
       \A d \in FrameSet : d \in DOMAIN series \/ \E i \in 1 .. Len(job.todo) : job.todo[i] = d
  /\ job.kind \in {"digest", "analysis"} =>
       /\ Active => job.todo = <<DigestFrame>>
       /\ outcome = "DONE" => DigestFrame \in DOMAIN series

\* What is being read is fresh as it lies there and as it is still under way.
LoadInv ==
  Active => /\ Fresh(tape, job.at, Frame, load.rows)
            /\ \A i \in 1 .. Len(wire) : Fresh(tape, job.at, Frame, wire[i].rows)

\* And what was read; an observation's candles have all closed by its instant.
SeriesInv ==
  \A d \in DOMAIN series :
    /\ job.kind \in {"observation", "digest"} => Sound(tape, job.at, d, series[d])
    /\ job.kind = "observation" =>
         series[d] # {} /\ \A b \in series[d] : b.at + d <= job.at

\* A digest's candles tell of all that had closed when they were read.
DigestInv ==
  outcome = "DONE" /\ job.kind = "digest" =>
    Told(tape, job.at, DigestFrame, ClosedBy(CandlesOf(tape, DigestFrame), DigestFrame, now),
         series[DigestFrame])

\* What may be said of the candles of a file.
Unguessed(T, kept, warned, kind) ==
  LET real == CandlesOf(T, DigestFrame)
      missing == {bar \in real : /\ bar.at \notin {b.at : b \in kept}
                                 /\ Earliest(kept).at < bar.at /\ bar.at < Latest(kept).at}
  IN /\ \A bar \in kept : bar \in real \/ bar.at \in Switch - Back .. Switch - 1
     /\ missing # {} /\ kind = "timed" => "BAR_GAPS" \in warned

FileInv ==
  job.file # "none" => /\ outcome = "DONE" /\ job.kind = "analysis"
                       /\ Unguessed(tape, series[DigestFrame], noted, job.file)

MarketInv == MarketType /\ JobInv /\ LoadInv /\ SeriesInv /\ DigestInv /\ FileInv

-----------------------------------------------------------------------------
(* What the constants are *)

LEMMA ConstantFacts ==
  /\ Frames \in Seq(Nat \ {0}) /\ Frames # << >>
  /\ DigestFrame \in Nat \ {0} /\ Depth \in Nat \ {0} /\ Lookback \in Nat \ {0}
  /\ SafetyMargin \in Nat /\ DigestExtra \in Nat /\ Timeout \in Nat /\ MaxLate \in Nat
  /\ Warm \in Nat
  /\ Past \in Tapes
BY MarketAssumption DEF Tapes

LEMMA FrameFacts ==
  ASSUME MarketType, job.todo # << >>
  PROVE  Frame \in Nat \ {0}
<1>1. job.todo \in Seq(Nat \ {0})
  BY DEF MarketType, Jobs
<1> QED
  BY <1>1 DEF Frame

LEMMA WantedFacts ==
  ASSUME MarketType
  PROVE  BarsWanted \in Int
<1>1. job.at \in Int /\ Window.start \in Int /\ Window.end \in Int
  BY ConstantFacts DEF MarketType, Jobs, Window
<1>2. digest_bar_count(Window, DigestFrame, DigestExtra) \in Int
  BY <1>1, ConstantFacts DEF digest_bar_count
<1> QED
  BY <1>2, ConstantFacts DEF BarsWanted

-----------------------------------------------------------------------------
(* The initial states, and the steps that leave the candles alone *)

LEMMA MarketInit ==
  ASSUME Init
  PROVE  MarketInv
<1>1. tape \in Tapes
  <2>1. PICK recent \in [1 .. Warm -> Prices \cup {Quiet}] : tape = Past \o recent
    BY DEF Init
  <2>2. recent \in Seq(Prices \cup {Quiet})
    BY <2>1, ConstantFacts
  <2> QED
    BY <2>1, <2>2, ConstantFacts DEF Tapes
<1>2. Len(tape) \in Nat
  BY <1>1 DEF Tapes
<1>3. MarketType
  BY <1>1, <1>2 DEF Init, MarketType, NoJob, NoLoad, Jobs, FileKinds, Loads, Kinds
<1>4. JobInv /\ LoadInv /\ SeriesInv /\ DigestInv /\ FileInv
  BY DEF Init, JobInv, LoadInv, SeriesInv, DigestInv, FileInv, NoJob, Active
<1> QED
  BY <1>3, <1>4 DEF MarketInv

LEMMA MinuteStep ==
  ASSUME MarketInv, NEW p \in Prices \cup {Quiet}, Minute(p)
  PROVE  MarketInv'
<1>1. /\ tape \in Tapes /\ Len(tape) \in Nat /\ tape' = Append(tape, p)
      /\ Len(tape') = Len(tape) + 1 /\ tape' \in Tapes
  BY DEF MarketInv, MarketType, Minute, Tapes
<1>2. job.at \in Int /\ job.at <= Len(tape) /\ job.at <= Len(tape')
  BY <1>1 DEF MarketInv, MarketType, Jobs
<1>3. UNCHANGED <<job, load, wire, series, noted, outcome>> /\ outcome = "PENDING"
  BY DEF Minute
<1>4. MarketType'
  BY <1>1, <1>2, <1>3 DEF MarketInv, MarketType
<1>5. JobInv'
  BY <1>3 DEF MarketInv, JobInv, Active
<1>6. LoadInv'
  <2> SUFFICES ASSUME Active'
               PROVE  /\ Fresh(tape', job.at, Frame, load.rows)
                      /\ \A i \in 1 .. Len(wire) : Fresh(tape', job.at, Frame, wire[i].rows)
    BY <1>3 DEF LoadInv, Frame
  <2>1. Active
    BY <1>3 DEF Active
  <2>2. Frame \in Nat \ {0}
    BY <2>1, FrameFacts DEF MarketInv, JobInv
  <2>3. /\ Fresh(tape, job.at, Frame, load.rows)
        /\ \A i \in 1 .. Len(wire) : Fresh(tape, job.at, Frame, wire[i].rows)
    BY <2>1 DEF MarketInv, LoadInv
  <2> QED
    BY <1>1, <1>2, <2>2, <2>3, FreshStays
<1>7. SeriesInv'
  <2>1. \A d \in DOMAIN series : d \in Nat \ {0}
    BY DEF MarketInv, MarketType
  <2>2. ASSUME NEW d \in DOMAIN series, job.kind \in {"observation", "digest"}
        PROVE  Sound(tape', job.at, d, series[d])
    <3>1. Sound(tape, job.at, d, series[d])
      BY <2>2 DEF MarketInv, SeriesInv
    <3> QED
      BY <1>1, <1>2, <2>1, <3>1, SoundStays
  <2> QED
    BY <1>3, <2>2 DEF MarketInv, SeriesInv
<1>8. DigestInv' /\ FileInv'
  BY <1>3 DEF MarketInv, DigestInv, FileInv
<1> QED
  BY <1>4, <1>5, <1>6, <1>7, <1>8 DEF MarketInv

LEMMA BeginStep ==
  ASSUME MarketInv, NEW kind \in Kinds \ {"none"}, NEW at \in Int, at <= now,
         NEW todo \in Seq(Nat \ {0}), todo # << >>,
         kind = "observation" => todo = Frames,
         kind \in {"digest", "analysis"} => todo = <<DigestFrame>>,
         Begin(kind, at, todo)
  PROVE  MarketInv'
<1>1. /\ job.kind = "none" /\ UNCHANGED <<tape, load, wire, series, noted, outcome>>
      /\ job'.kind = kind /\ job'.at = at /\ job'.todo = todo /\ job'.file = "none"
      /\ job' \in Jobs
  BY DEF Begin, NoJob, Jobs, FileKinds
<1>2. outcome = "PENDING" /\ load = NoLoad /\ wire = << >> /\ DOMAIN series = {}
  BY <1>1 DEF MarketInv, JobInv
<1>3. MarketType'
  BY <1>1 DEF MarketInv, MarketType, now
<1>4. JobInv'
  <2>1. kind = "observation" =>
          \A d \in FrameSet : \E i \in 1 .. Len(todo) : todo[i] = d
    BY DEF FrameSet
  <2> QED
    BY <1>1, <1>2, <2>1 DEF JobInv, Active
<1>5. LoadInv'
  <2>1. load'.rows = {} /\ Len(wire') = 0
    BY <1>1, <1>2 DEF NoLoad
  <2>2. \A T, x, d : Fresh(T, x, d, {})
    BY NothingIsFresh
  <2> QED
    BY <2>1, <2>2 DEF LoadInv
<1>6. SeriesInv'
  BY <1>1, <1>2 DEF SeriesInv
<1>7. DigestInv' /\ FileInv'
  BY <1>1, <1>2 DEF DigestInv, FileInv
<1> QED
  BY <1>3, <1>4, <1>5, <1>6, <1>7 DEF MarketInv

LEMMA FailStep ==
  ASSUME MarketInv, Active, Fail, tape' = tape
  PROVE  MarketInv'
<1>1. /\ outcome' = "FAILED" /\ load' = NoLoad /\ wire' = << >> /\ outcome = "PENDING"
      /\ UNCHANGED <<job, series, noted>> /\ job.kind # "none"
  BY DEF Fail, Active
<1>2. MarketType'
  BY <1>1 DEF MarketInv, MarketType, NoLoad, Loads
<1>3. JobInv' /\ LoadInv'
  BY <1>1 DEF MarketInv, JobInv, LoadInv, Active
<1>4. SeriesInv' /\ DigestInv' /\ FileInv'
  BY <1>1 DEF MarketInv, SeriesInv, DigestInv, FileInv
<1> QED
  BY <1>2, <1>3, <1>4 DEF MarketInv

\* The steps that have no say but in the load and the packets under way.
LEMMA LoadStep ==
  ASSUME MarketInv, Active, UNCHANGED <<tape, job, series, noted, outcome>>,
         load' \in Loads, wire' \in Seq(Packets),
         Fresh(tape, job.at, Frame, load'.rows),
         \A i \in 1 .. Len(wire') : Fresh(tape, job.at, Frame, wire'[i].rows)
  PROVE  MarketInv'
<1>1. MarketType'
  BY DEF MarketInv, MarketType
<1>2. JobInv'
  BY DEF MarketInv, JobInv, Active
<1>3. LoadInv'
  BY DEF LoadInv, Frame
<1>4. SeriesInv' /\ DigestInv' /\ FileInv'
  BY DEF MarketInv, SeriesInv, DigestInv, FileInv, Active
<1> QED
  BY <1>1, <1>2, <1>3, <1>4 DEF MarketInv

LEMMA RetryStep ==
  ASSUME MarketInv, Active, Retry, tape' = tape
  PROVE  MarketInv'
<1>1. CASE Fail
  BY <1>1, FailStep
<1>2. CASE ~Fail
  <2>1. /\ load' = [NoLoad EXCEPT !.attempt = NextAttempt(load.attempt)] /\ wire' = << >>
        /\ UNCHANGED <<job, series, noted, outcome>>
    BY <1>2 DEF Retry
  <2>2. load' \in Loads /\ load'.rows = {}
    <3>1. load.attempt + 1 \in Nat
      BY DEF MarketInv, MarketType, Loads
    <3>2. NoLoad \in Loads /\ NoLoad.rows = {}
      BY DEF NoLoad, Loads
    <3>3. load' = [NoLoad EXCEPT !.attempt = load.attempt + 1]
      BY <2>1 DEF NextAttempt
    <3> QED
      BY <3>1, <3>2, <3>3 DEF Loads
  <2>3. wire' \in Seq(Packets) /\ Len(wire') = 0
    BY <2>1
  <2>4. Fresh(tape, job.at, Frame, load'.rows)
    BY <2>2, NothingIsFresh
  <2> QED
    BY <2>1, <2>2, <2>3, <2>4, LoadStep
<1> QED
  BY <1>1, <1>2

-----------------------------------------------------------------------------
(* What comes from the venue *)

LEMMA OpenStep ==
  ASSUME MarketInv, Open
  PROVE  MarketInv'
<1>1. /\ Active /\ UNCHANGED <<tape, job, wire, series, noted, outcome>>
      /\ load' = [NoLoad EXCEPT !.phase = "reading", !.attempt = load.attempt,
                                !.deadline = Deadline]
  BY DEF Open
<1>2. load.attempt \in Nat /\ Deadline \in Nat
  <2>1. Len(tape) \in Nat
    BY DEF MarketInv, MarketType, Tapes
  <2>2. Deadline \in Nat
    BY <2>1, ConstantFacts DEF Deadline, now
  <2> QED
    BY <2>2 DEF MarketInv, MarketType, Loads
<1>3. load' \in Loads /\ load'.rows = {}
  <2>1. NoLoad \in Loads /\ NoLoad.rows = {}
    BY DEF NoLoad, Loads
  <2> QED
    BY <1>1, <1>2, <2>1 DEF Loads
<1>4. Fresh(tape, job.at, Frame, load'.rows)
  BY <1>3, NothingIsFresh
<1>5. /\ wire' \in Seq(Packets)
      /\ \A i \in 1 .. Len(wire') : Fresh(tape, job.at, Frame, wire'[i].rows)
  BY <1>1 DEF MarketInv, MarketType, LoadInv
<1> QED
  BY <1>1, <1>3, <1>4, <1>5, LoadStep

\* Of a piece, every packet but those behind "completed" replaces earlier rows.
LEMMA ReceiveStep ==
  ASSUME MarketInv, NEW n \in 1 .. Len(wire), Receive(n)
  PROVE  MarketInv'
<1> DEFINE ends == {i \in 1 .. n : wire[i].kind = "completed"}
           last == IF ends = {} THEN n ELSE Min(ends)
           head == SubSeq(wire, 1, last)
           sent == [i \in 0 .. Len(head) |-> IF i = 0 THEN load.rows ELSE head[i].rows]
<1>1. /\ Active /\ UNCHANGED <<tape, job, series, noted, outcome>>
      /\ wire' = SubSeq(wire, n + 1, Len(wire))
      /\ load' = [load EXCEPT !.phase = IF ends = {} THEN "reading" ELSE "read",
                              !.rows = Collected(load.rows, head),
                              !.messages = load.messages + last]
  BY DEF Receive
<1>2. /\ wire \in Seq(Packets) /\ Len(wire) \in Nat /\ load \in Loads
      /\ tape \in Tapes /\ job.at \in Int /\ job.at <= Len(tape)
  BY DEF MarketInv, MarketType, Jobs
<1>3. last \in 1 .. n
  <2>1. ends \in SUBSET (1 .. n) /\ ends \subseteq Int
    BY <1>2
  <2>2. IsFiniteSet(1 .. n)
    BY <1>2, FS_Interval
  <2> HIDE DEF ends
  <2>3. ends # {} => Min(ends) \in ends
    BY <2>1, <2>2, FS_Subset, MinIs
  <2>4. n \in 1 .. n
    BY <1>2
  <2> QED
    BY <2>1, <2>3, <2>4
<1> HIDE DEF last
<1>4. last \in Nat /\ last <= Len(wire)
  BY <1>2, <1>3
<1>5. Len(head) = last /\ \A i \in 1 .. last : head[i] = wire[i]
  BY <1>2, <1>3, <1>4
<1> HIDE DEF head
<1>6. Collected(load.rows, head) = Overlaid(sent, last)
  BY <1>5 DEF Collected
<1>7. /\ Fresh(tape, job.at, Frame, load.rows)
      /\ \A i \in 1 .. Len(wire) : Fresh(tape, job.at, Frame, wire[i].rows)
  BY <1>1 DEF MarketInv, LoadInv
<1>8. \A i \in 0 .. last : Fresh(tape, job.at, Frame, sent[i])
  <2> SUFFICES ASSUME NEW i \in 0 .. last PROVE Fresh(tape, job.at, Frame, sent[i])
    OBVIOUS
  <2>1. CASE i = 0
    BY <2>1, <1>5, <1>7
  <2>2. CASE i # 0
    <3>1. i \in 1 .. last /\ i \in 1 .. Len(wire) /\ i \in 0 .. Len(head)
      BY <2>2, <1>4, <1>5
    <3>2. sent[i] = wire[i].rows
      BY <2>2, <3>1, <1>5
    <3> HIDE DEF sent
    <3> QED
      BY <3>1, <3>2, <1>7
  <2> QED
    BY <2>1, <2>2
<1>9. Frame \in Nat \ {0}
  BY <1>1, FrameFacts DEF MarketInv, JobInv
<1>10. Fresh(tape, job.at, Frame, Collected(load.rows, head))
  <2> HIDE DEF sent
  <2> QED
    BY <1>2, <1>4, <1>6, <1>8, <1>9, OverlaidFresh
<1>11. Collected(load.rows, head) \in SUBSET Bars
  BY <1>10 DEF Fresh, Sound
<1> DEFINE rows == Collected(load.rows, head)
           phase == IF ends = {} THEN "reading" ELSE "read"
<1>12. phase \in {"idle", "reading", "read"}
  OBVIOUS
<1> HIDE DEF rows, phase, ends
<1>13. load.messages + last \in Int
  BY <1>2, <1>4 DEF Loads
<1>14. load' = [load EXCEPT !.phase = phase, !.rows = rows,
                            !.messages = load.messages + last]
  BY <1>1 DEF rows, phase
<1>15. load' \in Loads /\ load'.rows = rows
  BY <1>2, <1>11, <1>12, <1>13, <1>14 DEF Loads, rows
<1>16. /\ wire' \in Seq(Packets)
       /\ \A i \in 1 .. Len(wire') : \E j \in 1 .. Len(wire) : wire'[i] = wire[j]
  <2>1. n + 1 \in Nat /\ n \in Nat /\ n <= Len(wire)
    BY <1>2
  <2>2. /\ wire' \in Seq(Packets) /\ Len(wire') = Len(wire) - n
        /\ \A i \in 1 .. Len(wire') : wire'[i] = wire[n + i]
    <3>1. wire \in Seq(Packets) /\ wire' = SubSeq(wire, n + 1, Len(wire))
      BY <1>1, <1>2
    <3> QED
      BY <2>1, <3>1
  <2>3. \A i \in 1 .. Len(wire') : n + i \in 1 .. Len(wire)
    BY <2>1, <2>2
  <2> QED
    BY <2>2, <2>3
<1>17. \A i \in 1 .. Len(wire') : Fresh(tape, job.at, Frame, wire'[i].rows)
  BY <1>7, <1>16
<1>18. Fresh(tape, job.at, Frame, load'.rows)
  BY <1>10, <1>15 DEF rows
<1> QED
  BY <1>1, <1>15, <1>16, <1>17, <1>18, LoadStep

LEMMA SendsStep ==
  ASSUME MarketInv, NEW packet \in Packets, Sends(packet),
         Active => Fresh(tape, job.at, Frame, packet.rows),
         load' \in Loads, load'.rows = load.rows
  PROVE  MarketInv'
<1>1. /\ Active /\ wire' = Append(wire, packet)
      /\ UNCHANGED <<tape, job, series, noted, outcome>>
  BY DEF Sends
<1>2. wire \in Seq(Packets)
  BY DEF MarketInv, MarketType
<1>3. /\ Fresh(tape, job.at, Frame, load.rows)
      /\ \A i \in 1 .. Len(wire) : Fresh(tape, job.at, Frame, wire[i].rows)
  BY <1>1 DEF MarketInv, LoadInv
<1>4. wire' \in Seq(Packets)
  BY <1>1, <1>2
<1>5. \A i \in 1 .. Len(wire') : wire'[i] = packet \/ (i \in 1 .. Len(wire) /\ wire'[i] = wire[i])
  BY <1>1, <1>2
<1>6. \A i \in 1 .. Len(wire') : Fresh(tape, job.at, Frame, wire'[i].rows)
  BY <1>1, <1>3, <1>5
<1> QED
  BY <1>1, <1>3, <1>4, <1>6, LoadStep

LEMMA VenueStep ==
  ASSUME MarketInv, Venue
  PROVE  MarketInv'
<1>1. tape \in Tapes /\ Len(tape) \in Nat /\ load \in Loads /\ job.at \in Int
  BY DEF MarketInv, MarketType, Jobs, Tapes
<1>2. [load EXCEPT !.sent = now] \in Loads /\ [load EXCEPT !.sent = now].rows = load.rows
  BY <1>1 DEF Loads, now
<1>3. /\ [load EXCEPT !.completed = TRUE] \in Loads
      /\ [load EXCEPT !.completed = TRUE].rows = load.rows
  BY <1>1 DEF Loads
<1>4. ASSUME NEW m \in Int, Active
      PROVE  /\ Fresh(tape, job.at, Frame, Newest(m, CandlesOf(tape, Frame)))
             /\ Rows(Newest(m, CandlesOf(tape, Frame))) \in Packets
  <2>1. Frame \in Nat \ {0}
    BY <1>4, FrameFacts DEF MarketInv, JobInv
  <2>2. Fresh(tape, job.at, Frame, Newest(m, CandlesOf(tape, Frame)))
    BY <1>1, <2>1, VenueFresh
  <2> QED
    BY <2>2 DEF Fresh, Sound, Rows, Packets
<1>5. \A S : Rows(S).rows = S
  BY DEF Rows
<1>6. CASE Answer
  <2>1. /\ Sends(Rows(Newest(BarsWanted + SafetyMargin, CandlesOf(tape, Frame))))
        /\ load' = [load EXCEPT !.sent = now] /\ Active
    BY <1>6 DEF Answer, Sends
  <2>2. BarsWanted + SafetyMargin \in Int
    BY WantedFacts, ConstantFacts DEF MarketInv
  <2> QED
    BY <1>2, <1>4, <1>5, <2>1, <2>2, SendsStep
<1>7. CASE Update
  <2>1. /\ Sends(Rows(Newest(1, CandlesOf(tape, Frame))))
        /\ load' = [load EXCEPT !.sent = now] /\ Active
    BY <1>7 DEF Update, Sends
  <2> QED
    BY <1>2, <1>4, <1>5, <2>1, SendsStep
<1>8. \A kind \in {"completed", "passed over"} :
        /\ Other(kind) \in Packets
        /\ Fresh(tape, job.at, Frame, Other(kind).rows)
  <2>1. \A T, x, d : Fresh(T, x, d, {})
    BY NothingIsFresh
  <2> QED
    BY <2>1 DEF Other, Packets
<1>9. CASE Complete
  <2>1. Sends(Other("completed")) /\ load' = [load EXCEPT !.completed = TRUE]
    BY <1>9 DEF Complete
  <2> QED
    BY <1>3, <1>8, <2>1, SendsStep
<1>10. CASE Disturb
  <2>1. Sends(Other("passed over")) /\ load' = load
    BY <1>10 DEF Disturb
  <2> QED
    BY <1>1, <1>8, <2>1, SendsStep
<1> QED
  BY <1>6, <1>7, <1>9, <1>10 DEF Venue

-----------------------------------------------------------------------------
(* What a job keeps *)

KeptOf(frame, normal) ==
  IF job.kind = "observation" THEN ClosedBy(normal.bars, frame, ObservedAt) ELSE normal.bars

\* A read ends in failure or in what its one snapshot says.
LEMMA KeepFacts ==
  ASSUME NEW frame, NEW payload, NEW file, Keep(frame, payload, file), ~Fail
  PROVE  \E normal \in normalize_market_data(payload, frame, Moment) :
           /\ KeptOf(frame, normal) # {}
           /\ series' = [f \in DOMAIN series \cup {frame} |->
                           IF f = frame THEN KeptOf(frame, normal) ELSE series[f]]
           /\ noted' = IF job.kind = "analysis" THEN normal.warnings ELSE {}
           /\ job' = [job EXCEPT !.todo = Tail(job.todo), !.file = file]
           /\ outcome' = IF Len(job.todo) = 1 THEN "DONE" ELSE "PENDING"
           /\ load' = NoLoad /\ wire' = << >>
<1> DEFINE N == normalize_market_data(payload, frame, Moment)
<1>1. \A a, b \in N : a = b
  BY DEF normalize_market_data
<1> HIDE DEF N
<1>2. /\ ~ \A normal \in N : KeptOf(frame, normal) = {}
      /\ \E normal \in N :
           /\ series' = [f \in DOMAIN series \cup {frame} |->
                           IF f = frame THEN KeptOf(frame, normal) ELSE series[f]]
           /\ noted' = IF job.kind = "analysis" THEN normal.warnings ELSE {}
           /\ job' = [job EXCEPT !.todo = Tail(job.todo), !.file = file]
           /\ outcome' = IF Len(job.todo) = 1 THEN "DONE" ELSE "PENDING"
           /\ load' = NoLoad /\ wire' = << >>
  BY DEF Keep, N, KeptOf
<1> QED
  BY <1>1, <1>2 DEF N

LEMMA KeepStep ==
  ASSUME MarketInv, Active, tape' = tape, NEW payload, NEW file \in FileKinds,
         Keep(Frame, payload, file),
         job.kind # "analysis" =>
           \A normal \in normalize_market_data(payload, Frame, Moment) :
             Sound(tape, job.at, Frame, normal.bars),
         job.kind = "digest" =>
           \A normal \in normalize_market_data(payload, Frame, Moment) :
             Told(tape, job.at, Frame, ClosedBy(CandlesOf(tape, Frame), Frame, now),
                  normal.bars),
         file # "none" =>
           /\ job.kind = "analysis"
           /\ \A normal \in normalize_market_data(payload, Frame, Moment) :
                Unguessed(tape, normal.bars, normal.warnings, file)
  PROVE  MarketInv'
<1>1. CASE Fail
  BY <1>1, FailStep
<1>2. CASE ~Fail
  <2>1. PICK normal \in normalize_market_data(payload, Frame, Moment) :
           /\ KeptOf(Frame, normal) # {}
           /\ series' = [f \in DOMAIN series \cup {Frame} |->
                           IF f = Frame THEN KeptOf(Frame, normal) ELSE series[f]]
           /\ noted' = IF job.kind = "analysis" THEN normal.warnings ELSE {}
           /\ job' = [job EXCEPT !.todo = Tail(job.todo), !.file = file]
           /\ outcome' = IF Len(job.todo) = 1 THEN "DONE" ELSE "PENDING"
           /\ load' = NoLoad /\ wire' = << >>
    BY <1>2, KeepFacts
  <2> DEFINE kept == KeptOf(Frame, normal)
             todo == Tail(job.todo)
  <2>2. /\ job \in Jobs /\ job.todo \in Seq(Nat \ {0}) /\ job.todo # << >> /\ job.at \in Int
        /\ tape \in Tapes /\ job.at <= Len(tape) /\ outcome = "PENDING"
        /\ job.kind \in Kinds \ {"none"}
    BY DEF MarketInv, MarketType, JobInv, Jobs, Active
  <2>3. Frame \in Nat \ {0}
    BY <2>2, FrameFacts DEF MarketInv
  <2>4. /\ todo \in Seq(Nat \ {0}) /\ Len(job.todo) \in Nat \ {0}
        /\ Len(todo) = Len(job.todo) - 1
        /\ \A i \in 1 .. Len(job.todo) :
             job.todo[i] = Frame \/ \E k \in 1 .. Len(todo) : todo[k] = job.todo[i]
    <3>1. /\ todo \in Seq(Nat \ {0}) /\ Len(job.todo) \in Nat \ {0}
          /\ Len(todo) = Len(job.todo) - 1
          /\ \A k \in 1 .. Len(todo) : todo[k] = job.todo[k + 1]
      BY <2>2
    <3>2. Frame = job.todo[1]
      BY <2>2 DEF Frame
    <3> HIDE DEF todo
    <3>3. ASSUME NEW i \in 1 .. Len(job.todo), i # 1
          PROVE  \E k \in 1 .. Len(todo) : todo[k] = job.todo[i]
      <4>1. i - 1 \in 1 .. Len(todo) /\ (i - 1) + 1 = i
        BY <3>1, <3>3
      <4> QED
        BY <3>1, <4>1
    <3> QED
      BY <3>1, <3>2, <3>3
  <2>5. /\ job'.kind = job.kind /\ job'.at = job.at /\ job'.todo = todo
        /\ job'.file = file /\ job' \in Jobs
    <3> HIDE DEF todo
    <3>1. job' = [job EXCEPT !.todo = todo, !.file = file]
      BY <2>1 DEF todo
    <3> QED
      BY <2>2, <2>4, <3>1 DEF Jobs
  <2>6. /\ DOMAIN series' = DOMAIN series \cup {Frame}
        /\ series'[Frame] = kept
        /\ \A d \in DOMAIN series : d # Frame => series'[d] = series[d]
    <3> HIDE DEF kept
    <3>1. series' = [f \in DOMAIN series \cup {Frame} |->
                           IF f = Frame THEN kept ELSE series[f]]
      BY <2>1 DEF kept
    <3> QED
      BY <3>1
  <2>7. outcome' = IF Len(job.todo) = 1 THEN "DONE" ELSE "PENDING"
    BY <2>1
  <2>8. load' = NoLoad /\ wire' = << >>
    BY <2>1
  <2>9. outcome' = "DONE" <=> todo = << >>
    <3> HIDE DEF todo
    <3>1. ASSUME Len(todo) = 0 PROVE todo = << >>
      BY <2>4, <3>1
    <3>2. ASSUME todo = << >> PROVE Len(todo) = 0
      BY <3>2
    <3> QED
      BY <2>4, <2>7, <3>1, <3>2
  <2>10. job.kind # "analysis" => Sound(tape, job.at, Frame, normal.bars)
    BY <2>1
  <2>11. /\ job.kind \in {"observation", "digest"} => Sound(tape, job.at, Frame, kept)
         /\ job.kind = "observation" =>
              kept # {} /\ \A b \in kept : b.at + Frame <= job.at
    <3>1. CASE job.kind = "observation"
      <4>1. kept = ClosedBy(normal.bars, Frame, job.at)
        BY <3>1 DEF KeptOf, ObservedAt
      <4>2. job.at <= job.at
        BY <2>2
      <4>3. Sound(tape, job.at, Frame, kept)
        BY <2>2, <2>3, <2>10, <3>1, <4>1, <4>2, ClosedSound
      <4>4. \A b \in kept : b.at + Frame <= job.at
        BY <4>1 DEF ClosedBy, close_time
      <4> QED
        BY <2>1, <4>3, <4>4
    <3>2. CASE job.kind # "observation"
      BY <3>2, <2>10 DEF KeptOf
    <3> QED
      BY <3>1, <3>2
  <2>12. /\ file # "none" => Unguessed(tape, kept, noted', file)
         /\ job.kind = "digest" =>
              Told(tape, job.at, Frame, ClosedBy(CandlesOf(tape, Frame), Frame, now), kept)
    BY <2>1 DEF KeptOf
  <2>13. job.kind \in {"digest", "analysis"} => /\ Frame = DigestFrame /\ todo = << >>
    <3> SUFFICES ASSUME job.kind \in {"digest", "analysis"}
                 PROVE  Frame = DigestFrame /\ todo = << >>
      OBVIOUS
    <3>1. job.todo = <<DigestFrame>>
      BY DEF MarketInv, JobInv
    <3> QED
      BY <3>1 DEF Frame
  <2>16. /\ DOMAIN series \subseteq Nat \ {0}
         /\ job.kind = "observation" =>
              \A d \in FrameSet : d \in DOMAIN series \/ \E i \in 1 .. Len(job.todo) : job.todo[i] = d
    BY DEF MarketInv, JobInv, MarketType
  <2> HIDE DEF kept, todo
  <2>17. MarketType'
    <3>1. NoLoad \in Loads
      BY DEF NoLoad, Loads
    <3>2. << >> \in Seq(Packets)
      OBVIOUS
    <3> QED
      BY <2>2, <2>3, <2>5, <2>6, <2>7, <2>8, <2>16, <3>1, <3>2 DEF MarketType
  <2>18. JobInv'
    <3>1. job'.kind = "observation" =>
            \A d \in FrameSet : d \in DOMAIN series' \/ \E i \in 1 .. Len(todo) : todo[i] = d
      <4> SUFFICES ASSUME job'.kind = "observation", NEW d \in FrameSet
                   PROVE  d \in DOMAIN series' \/ \E i \in 1 .. Len(todo) : todo[i] = d
        OBVIOUS
      <4> HIDE DEF todo
      <4>1. \/ d \in DOMAIN series
            \/ \E i \in 1 .. Len(job.todo) : job.todo[i] = d
        BY <2>5, <2>16
      <4>2. CASE d \in DOMAIN series \/ d = Frame
        BY <2>6, <4>2
      <4>3. ASSUME NEW i \in 1 .. Len(job.todo), job.todo[i] = d
            PROVE  d = Frame \/ \E k \in 1 .. Len(todo) : todo[k] = d
        BY <2>4, <4>3
      <4> QED
        BY <4>1, <4>2, <4>3
    <3>2. outcome' \in {"DONE", "PENDING"}
      BY <2>7
    <3> QED
      BY <2>2, <2>5, <2>6, <2>9, <2>13, <3>1, <3>2 DEF JobInv, Active
  <2>19. LoadInv'
    <3>1. load'.rows = {} /\ Len(wire') = 0
      BY <2>8 DEF NoLoad
    <3>2. \A T, x, d : Fresh(T, x, d, {})
      BY NothingIsFresh
    <3> QED
      BY <3>1, <3>2 DEF LoadInv
  <2>20. SeriesInv'
    <3> SUFFICES ASSUME NEW d \in DOMAIN series'
                 PROVE  /\ job.kind \in {"observation", "digest"} =>
                             Sound(tape, job.at, d, series'[d])
                        /\ job.kind = "observation" =>
                             series'[d] # {} /\ \A b \in series'[d] : b.at + d <= job.at
      BY <2>5 DEF SeriesInv
    <3>1. CASE d = Frame
      BY <3>1, <2>6, <2>11
    <3>2. CASE d # Frame
      <4>1. d \in DOMAIN series /\ series'[d] = series[d]
        BY <3>2, <2>6
      <4> QED
        BY <4>1 DEF MarketInv, SeriesInv
    <3> QED
      BY <3>1, <3>2
  <2>21. FileInv'
    BY <2>5, <2>6, <2>9, <2>12, <2>13 DEF FileInv
  <2>22. DigestInv'
    <3> SUFFICES ASSUME outcome' = "DONE", job.kind = "digest"
                 PROVE  Told(tape, job.at, DigestFrame,
                             ClosedBy(CandlesOf(tape, DigestFrame), DigestFrame, now),
                             series'[DigestFrame])
      BY <2>5 DEF DigestInv, now
    <3> QED
      BY <2>6, <2>12, <2>13
  <2> QED
    BY <2>17, <2>18, <2>19, <2>20, <2>21, <2>22 DEF MarketInv
<1> QED
  BY <1>1, <1>2

\* What a snapshot says of a payload.
LEMMA NormalFacts ==
  ASSUME NEW payload, NEW d, NEW moment,
         NEW normal \in normalize_market_data(payload, d, moment)
  PROVE  /\ ~Rejected(payload)
         /\ normal.bars = Series(payload.bars, payload.zoned)
         /\ normal.warnings = Warnings(payload, normal.bars, d, moment)
<1> DEFINE bars     == Series(payload.bars, payload.zoned)
           warnings == Warnings(payload, bars, d, moment)
<1>1. ~Rejected(payload) /\ normal \in {[bars |-> bars, warnings |-> warnings]}
  BY DEF normalize_market_data
<1> HIDE DEF warnings
<1>2. normal.bars = bars /\ normal.warnings = warnings
  <2> HIDE DEF bars
  <2> QED
    BY <1>1
<1> QED
  BY <1>1, <1>2 DEF warnings

\* The adapters hand over candles, and the same candles are read back.
LEMMA AnsweredFacts ==
  ASSUME NEW R, R \subseteq Bars, IsFiniteSet(R), OneEach(R), NEW d, NEW moment,
         NEW normal \in normalize_market_data(Answered(R), d, moment)
  PROVE  normal.bars = R
<1>1. Answered(R).bars = RowsOf(R) /\ Answered(R).zoned = FALSE
  BY DEF Answered
<1>2. normal.bars = Series(RowsOf(R), FALSE)
  BY <1>1, NormalFacts
<1> QED
  BY <1>2, RowsReadBack

LEMMA SelectStep ==
  ASSUME MarketInv, Select
  PROVE  MarketInv'
<1> DEFINE closed == ClosedBy(load.rows, Frame, now)
           kept   == Newest(BarsWanted, closed)
<1>1. Active /\ tape' = tape /\ (Fail \/ Keep(Frame, Answered(kept), "none"))
  BY DEF Select
<1>2. /\ tape \in Tapes /\ Len(tape) \in Nat /\ job.at \in Int /\ job.at <= Len(tape)
      /\ job.todo # << >> /\ MarketType
  BY <1>1 DEF MarketInv, MarketType, JobInv, Jobs, Tapes
<1>3. Frame \in Nat \ {0} /\ BarsWanted \in Int
  BY <1>2, FrameFacts, WantedFacts
<1>4. Fresh(tape, job.at, Frame, load.rows)
  BY <1>1 DEF MarketInv, LoadInv
<1>5. now \in Int /\ job.at <= now
  BY <1>2 DEF now
<1> DEFINE real == ClosedBy(CandlesOf(tape, Frame), Frame, now)
<1>6. /\ Sound(tape, job.at, Frame, closed) /\ Told(tape, job.at, Frame, real, closed)
      /\ real \in SUBSET CandlesOf(tape, Frame)
  <2>1. Sound(tape, job.at, Frame, closed)
    BY <1>2, <1>3, <1>4, <1>5, ClosedSound DEF Fresh
  <2>2. Told(tape, job.at, Frame, real, closed)
    BY <1>2, <1>3, <1>4, <1>5, ClosedTold
  <2> QED
    BY <2>1, <2>2 DEF ClosedBy
<1> HIDE DEF closed, real
<1>7. Sound(tape, job.at, Frame, kept) /\ Told(tape, job.at, Frame, real, kept)
  BY <1>2, <1>3, <1>6, NewestSound, NewestTold
<1> HIDE DEF kept
<1>8. \A normal \in normalize_market_data(Answered(kept), Frame, Moment) : normal.bars = kept
  <2>1. kept \subseteq Bars /\ IsFiniteSet(kept) /\ OneEach(kept)
    BY <1>7 DEF Sound
  <2> QED
    BY <2>1, AnsweredFacts
<1>9. CASE Fail
  BY <1>1, <1>9, FailStep
<1>10. CASE Keep(Frame, Answered(kept), "none")
  BY <1>1, <1>7, <1>8, <1>10, KeepStep DEF real, FileKinds
<1> QED
  BY <1>1, <1>9, <1>10

LEMMA Mt5Step ==
  ASSUME MarketInv, Mt5Load \/ Mt5Fails
  PROVE  MarketInv'
<1>1. Active /\ tape' = tape /\ job.kind = "analysis"
  BY DEF Mt5Load, Mt5Fails
<1>2. Fail \/ Keep(Frame, Answered(Mt5Rates), "none")
  BY DEF Mt5Load, Mt5Fails
<1>3. CASE Fail
  BY <1>1, <1>3, FailStep
<1>4. CASE Keep(Frame, Answered(Mt5Rates), "none")
  BY <1>1, <1>4, KeepStep DEF FileKinds
<1> QED
  BY <1>2, <1>3, <1>4

-----------------------------------------------------------------------------
(* Files *)

FileRows == [at : Int, naive : BOOLEAN, symbol : {"", "other"}, open : Nat,
             high : Nat, low : Nat, close : Nat]

\* A row that shows a candle, stamped with an instant or with a clock's reading.
Shows(row, bar, naive) ==
  /\ row \in FileRows /\ row.naive = naive
  /\ row.at = (IF naive THEN Shown(bar.at) ELSE bar.at)
  /\ row.high = bar.high /\ row.low = bar.low /\ row.close = bar.close

\* A file whose rows all show candles of the venue, in any order.
Copied(file, real, naive) ==
  /\ file.bars \in Seq(FileRows)
  /\ \A i \in 1 .. Len(file.bars) : \E bar \in real : Shows(file.bars[i], bar, naive)

ShapedFile(file) ==
  file \in [symbol : {Symbol}, monthly : {FALSE}, zoned : BOOLEAN, bars : Seq(FileRows),
            latest : {{}}, range : {{}}, requested : {TRUE}]

LEMMA ClockFacts ==
  /\ Switch \in Nat /\ Back \in Nat /\ Back <= Switch
  /\ \A t \in Int : Shown(t) \in Int
BY NormalizationAssumption DEF Shown

LEMMA StampedFacts ==
  ASSUME NEW bar \in Bars, NEW naive \in BOOLEAN
  PROVE  Shows(Stamped(Row(bar), naive), bar, naive)
<1>1. bar.at \in Int /\ bar.high \in Nat /\ bar.low \in Nat /\ bar.close \in Nat
  BY DEF Bars
<1>2. Row(bar) \in FileRows
  BY <1>1 DEF Row, FileRows
<1> DEFINE at == IF naive THEN Shown(bar.at) ELSE bar.at
<1>3. at \in Int
  BY <1>1, ClockFacts
<1>4. Row(bar).at = bar.at
  BY DEF Row
<1> HIDE DEF at
<1>5. Stamped(Row(bar), naive) = [Row(bar) EXCEPT !.naive = naive, !.at = at]
  BY <1>4 DEF Stamped, at
<1>6. Row(bar).high = bar.high /\ Row(bar).low = bar.low /\ Row(bar).close = bar.close
  BY DEF Row
<1>7. /\ Stamped(Row(bar), naive) \in FileRows
      /\ Stamped(Row(bar), naive).naive = naive /\ Stamped(Row(bar), naive).at = at
      /\ Stamped(Row(bar), naive).high = bar.high /\ Stamped(Row(bar), naive).low = bar.low
      /\ Stamped(Row(bar), naive).close = bar.close
  BY <1>2, <1>3, <1>5, <1>6 DEF FileRows
<1> QED
  BY <1>7 DEF Shows, at

\* A whole file.
LEMMA ExportedFacts ==
  ASSUME NEW real, real \subseteq Bars, IsFiniteSet(real), OneEach(real),
         NEW bars \in SUBSET real, bars # {},
         NEW stamps \in {"instants", "zoned", "bare"}
  PROVE  LET file == Exported(bars, stamps) IN
         /\ Copied(file, real, stamps # "instants")
         /\ ShapedFile(file) /\ Len(file.bars) \in Nat \ {0}
<1> DEFINE naive == stamps # "instants"
           rows == [i \in 1 .. Cardinality(bars) |-> Stamped(Row(InOrder(bars, i)), naive)]
           file == Exported(bars, stamps)
<1>1. IsFiniteSet(bars) /\ bars \subseteq Bars /\ OneEach(bars)
  BY FS_Subset DEF OneEach
<1>2. Cardinality(bars) \in Nat /\ Cardinality(bars) # 0
  BY <1>1, FS_CardinalityType, FS_EmptySet
<1>3. \A i \in 1 .. Cardinality(bars) : InOrder(bars, i) \in bars
  BY <1>1, InOrderFacts
<1>4. naive \in BOOLEAN
  OBVIOUS
<1>5. ASSUME NEW i \in 1 .. Cardinality(bars)
      PROVE  InOrder(bars, i) \in real /\ Shows(rows[i], InOrder(bars, i), naive)
  <2>1. InOrder(bars, i) \in Bars /\ InOrder(bars, i) \in real
    BY <1>1, <1>3
  <2> HIDE DEF naive
  <2> QED
    BY <2>1, <1>4, StampedFacts
<1> DEFINE zoned == stamps = "zoned"
<1>6. file = [Answered(bars) EXCEPT !.bars = rows, !.zoned = zoned]
  BY DEF Exported
<1>7. zoned \in BOOLEAN
  OBVIOUS
<1> HIDE DEF rows, naive, zoned, file
<1>8. \A i \in 1 .. Cardinality(bars) : rows[i] \in FileRows
  BY <1>5 DEF Shows
<1>9. rows \in Seq(FileRows) /\ Len(rows) = Cardinality(bars)
  BY <1>2, <1>8 DEF rows
<1>10. file.bars = rows /\ ShapedFile(file)
  <2> DEFINE none == [symbol : {Symbol}, monthly : {FALSE}, zoned : BOOLEAN, bars : Seq(FileRows),
                      latest : {{}}, range : {{}}, requested : {TRUE}]
             start == [Answered(bars) EXCEPT !.bars = rows]
  <2>1. Answered(bars) = [symbol |-> Symbol, monthly |-> FALSE, zoned |-> FALSE, bars |-> RowsOf(bars),
                          latest |-> {}, range |-> {}, requested |-> TRUE]
    BY DEF Answered
  <2>2. Answered(bars) \in [symbol : {Symbol}, monthly : {FALSE}, zoned : BOOLEAN, bars : {RowsOf(bars)},
                            latest : {{}}, range : {{}}, requested : {TRUE}]
    BY <2>1
  <2>3. start \in none /\ start.bars = rows
    BY <1>9, <2>2
  <2>4. file = [start EXCEPT !.zoned = zoned]
    BY <1>6
  <2> HIDE DEF start
  <2>5. file \in none /\ file.bars = rows
    BY <1>7, <2>3, <2>4
  <2> QED
    BY <2>5 DEF ShapedFile
<1>11. Copied(file, real, naive)
  BY <1>5, <1>9, <1>10 DEF Copied
<1> QED
  BY <1>2, <1>9, <1>10, <1>11 DEF file, naive

\* With one thing about it that is out of the ordinary, it is refused or shows
\* the same candles.
LEMMA FlawedFacts ==
  ASSUME NEW real, \A bar \in real : bar.low \in Nat \ {0},
         NEW whole, NEW naive \in BOOLEAN, Copied(whole, real, naive), ShapedFile(whole),
         Len(whole.bars) \in Nat \ {0}, NEW file \in Flawed(whole), ~Rejected(file)
  PROVE  Copied(file, real, naive)
<1> DEFINE n == Len(whole.bars)
           last == Last(whole.bars)
<1>1. /\ n \in Nat \ {0} /\ whole.bars \in Seq(FileRows) /\ 1 \in 1 .. n /\ n \in 1 .. n
      /\ \A i \in 1 .. n : \E bar \in real : Shows(whole.bars[i], bar, naive)
  BY DEF Copied
<1>2. CASE file.bars = whole.bars
  BY <1>2 DEF Copied
<1>3. CASE file = [whole EXCEPT !.bars = Reverse(whole.bars)]
  <2>1. file.bars = Reverse(whole.bars)
    BY <1>3 DEF ShapedFile
  <2>2. /\ file.bars \in Seq(FileRows) /\ Len(file.bars) = n
        /\ \A i \in 1 .. n : n - i + 1 \in 1 .. n /\ file.bars[i] = whole.bars[n - i + 1]
    BY <1>1, <2>1 DEF Reverse
  <2> QED
    BY <1>1, <2>2 DEF Copied
<1>4. CASE file = [whole EXCEPT !.bars[1].high = Quiet]
  <2>1. file.bars = [whole.bars EXCEPT ![1].high = Quiet]
    BY <1>4 DEF ShapedFile
  <2>2. Len(file.bars) = n /\ file.bars[1] = [whole.bars[1] EXCEPT !.high = Quiet]
    BY <1>1, <2>1
  <2>3. whole.bars[1] \in FileRows /\ whole.bars[1].low \in Nat \ {0}
    BY <1>1 DEF Shows
  <2>4. file.bars[1].high = 0 /\ file.bars[1].low \in Nat \ {0}
    BY <2>2, <2>3 DEF FileRows, Quiet
  <2>5. ~Ordered(file.bars[1])
    BY <2>4 DEF Ordered
  <2> QED
    BY <1>1, <2>2, <2>5 DEF Rejected
<1>5. CASE file = [whole EXCEPT !.bars[1].symbol = "other"]
  <2>1. file.bars = [whole.bars EXCEPT ![1].symbol = "other"]
    BY <1>5 DEF ShapedFile
  <2> DEFINE row == [whole.bars[1] EXCEPT !.symbol = "other"]
  <2>2. whole.bars[1] \in FileRows
    BY <1>1
  <2>3. row \in FileRows /\ \A bar : Shows(whole.bars[1], bar, naive) => Shows(row, bar, naive)
    BY <2>2 DEF FileRows, Shows
  <2>4. /\ Len(file.bars) = n /\ file.bars[1] = row
        /\ \A i \in 1 .. n : i # 1 => file.bars[i] = whole.bars[i]
        /\ file.bars = [i \in 1 .. n |-> file.bars[i]]
    <3>1. DOMAIN whole.bars = 1 .. n /\ file.bars = [whole.bars EXCEPT ![1] = row]
      BY <1>1, <2>1
    <3> HIDE DEF row
    <3>2. /\ DOMAIN file.bars = 1 .. n /\ file.bars[1] = row
          /\ \A i \in 1 .. n : i # 1 => file.bars[i] = whole.bars[i]
          /\ file.bars = [i \in 1 .. n |-> file.bars[i]]
      BY <1>1, <3>1
    <3>3. n \in Nat
      BY <1>1
    <3> HIDE DEF n
    <3>4. Len(file.bars) = n
      BY <3>2, <3>3
    <3> QED
      BY <3>2, <3>4
  <2> HIDE DEF row
  <2>5. ASSUME NEW i \in 1 .. n PROVE file.bars[i] \in FileRows
    <3>1. whole.bars[i] \in FileRows
      BY <1>1
    <3> QED
      BY <2>3, <2>4, <3>1
  <2>6. file.bars \in Seq(FileRows)
    <3> DEFINE bars == file.bars
    <3>1. bars \in [1 .. n -> FileRows]
      <4>1. bars = [i \in 1 .. n |-> bars[i]]
        BY <2>4
      <4>2. \A i \in 1 .. n : bars[i] \in FileRows
        BY <2>5
      <4> HIDE DEF n, bars
      <4> QED
        BY <4>1, <4>2
    <3> HIDE DEF n, bars
    <3>2. bars \in Seq(FileRows)
      BY <3>1, <1>1
    <3> QED
      BY <3>2 DEF bars
  <2>7. \A i \in 1 .. n : \E bar \in real : Shows(file.bars[i], bar, naive)
    BY <1>1, <2>3, <2>4
  <2> QED
    BY <2>4, <2>6, <2>7 DEF Copied
<1>6. CASE file = [whole EXCEPT !.bars = << >>]
  <2>1. file.bars = << >>
    BY <1>6 DEF ShapedFile
  <2> QED
    BY <2>1 DEF Rejected
<1>7. ASSUME NEW price \in Prices,
             file = [whole EXCEPT !.bars = Append(whole.bars, Another(price, last))]
      PROVE  FALSE
  <2>1. file.bars = Append(whole.bars, Another(price, last))
    BY <1>7 DEF ShapedFile
  <2>2. last = whole.bars[n] /\ last \in FileRows
    BY <1>1 DEF Last
  <2>3. Another(price, last).at = last.at /\ Another(price, last).naive = last.naive
    BY <2>2 DEF Another, FileRows
  <2>4. /\ Len(file.bars) = n + 1 /\ file.bars[n] = last
        /\ file.bars[n + 1] = Another(price, last)
    BY <1>1, <2>1, <2>2
  <2>5. Utc(file.bars[n], file.zoned) = Utc(file.bars[n + 1], file.zoned)
    BY <2>3, <2>4 DEF Utc
  <2>6. Repeated(file.bars, file.zoned)
    <3>1. n \in 1 .. Len(file.bars) /\ n + 1 \in 1 .. Len(file.bars) /\ n # n + 1
      BY <1>1, <2>4
    <3> QED
      BY <3>1, <2>5 DEF Repeated
  <2> QED
    BY <2>6 DEF Rejected
<1>8. \/ file = [whole EXCEPT !.bars = Reverse(whole.bars)]
      \/ file = [whole EXCEPT !.bars[1].high = Quiet]
      \/ file = [whole EXCEPT !.bars[1].symbol = "other"]
      \/ file = [whole EXCEPT !.bars = << >>]
      \/ \E price \in Prices :
           file = [whole EXCEPT !.bars = Append(whole.bars, Another(price, last))]
      \/ file \in {[whole EXCEPT !.symbol = "other"], [whole EXCEPT !.latest = {last}],
                   [whole EXCEPT !.latest = {Head(whole.bars)}],
                   [whole EXCEPT !.range = {<<0, now>>}],
                   [whole EXCEPT !.requested = FALSE], [whole EXCEPT !.monthly = TRUE]}
  BY DEF Flawed
<1>9. ASSUME file \in {[whole EXCEPT !.symbol = "other"], [whole EXCEPT !.latest = {last}],
                   [whole EXCEPT !.latest = {Head(whole.bars)}],
                   [whole EXCEPT !.range = {<<0, now>>}],
                   [whole EXCEPT !.requested = FALSE], [whole EXCEPT !.monthly = TRUE]}
      PROVE  file.bars = whole.bars
  BY <1>9 DEF ShapedFile
<1> QED
  BY <1>2, <1>3, <1>4, <1>5, <1>6, <1>7, <1>8, <1>9

\* An hour shown twice is taken for the first.
ShownTwice(at, bar) ==
  Switch <= bar.at /\ bar.at < Switch + Back /\ at = bar.at - Back

\* A candle, or one whose opening the declared clock showed once more.
Placed(kept, real) ==
  \A bar \in kept : bar \in real \/ \E b \in real : ShownTwice(bar.at, b)

LEMMA PlacedFacts ==
  ASSUME NEW real, real \subseteq Bars, NEW file, NEW naive \in BOOLEAN,
         Copied(file, real, naive), ~Rejected(file)
  PROVE  LET kept == Series(file.bars, file.zoned) IN
         /\ kept # {} /\ IsFiniteSet(kept) /\ \A bar \in kept : bar.at \in Int
         /\ Placed(kept, real)
<1> DEFINE rows == file.bars
           n    == Len(rows)
           utc(i) == Utc(rows[i], file.zoned)
           lasting == {k \in 1 .. n : \A m \in k + 1 .. n : utc(m) # utc(k)}
           f       == [i \in lasting |-> Bar(rows[i], file.zoned)]
           kept == Series(rows, file.zoned)
<1>1. /\ rows \in Seq(FileRows) /\ n \in Nat
      /\ \A i \in 1 .. n : \E bar \in real : Shows(rows[i], bar, naive)
  BY DEF Copied
<1>2. n # 0 /\ \A i \in 1 .. n : ~Naive(rows[i], file.zoned)
  <2>1. rows # << >> /\ \A row \in Range(rows) : ~Naive(row, file.zoned)
    BY DEF Rejected
  <2>2. \A i \in 1 .. n : rows[i] \in Range(rows)
    BY <1>1 DEF Range
  <2>3. ASSUME n = 0 PROVE rows = << >>
    <3> HIDE DEF rows
    <3> QED
      BY <1>1, <2>3
  <2> QED
    BY <2>1, <2>2, <2>3
<1>3. kept = {f[i] : i \in lasting}
  BY DEF Series
<1>4. kept # {}
  <2>1. n \in lasting
    BY <1>1, <1>2
  <2> HIDE DEF lasting, kept, f
  <2> QED
    BY <1>3, <2>1
<1>5. IsFiniteSet(kept)
  <2>1. IsFiniteSet(1 .. n)
    BY <1>1, FS_Interval
  <2>2. lasting \in SUBSET (1 .. n)
    OBVIOUS
  <2> HIDE DEF lasting
  <2>3. IsFiniteSet(lasting)
    BY <2>1, <2>2, FS_Subset
  <2>4. DOMAIN f = lasting /\ f = [i \in lasting |-> f[i]]
    OBVIOUS
  <2> HIDE DEF f, kept
  <2> QED
    BY <1>3, <2>3, <2>4, FiniteValues
<1>6. ASSUME NEW i \in 1 .. n
      PROVE  /\ Bar(rows[i], file.zoned).at \in Int
             /\ \/ Bar(rows[i], file.zoned) \in real
                \/ \E b \in real : ShownTwice(Bar(rows[i], file.zoned).at, b)
  <2>1. PICK b \in real : Shows(rows[i], b, naive)
    BY <1>1
  <2>2. b \in Bars /\ b.at \in Nat
        /\ b = [at |-> b.at, high |-> b.high, low |-> b.low, close |-> b.close]
    BY <2>1 DEF Bars
  <2> DEFINE row == rows[i]
             bar == Bar(row, file.zoned)
  <2>3. bar = [at |-> Utc(row, file.zoned), high |-> b.high, low |-> b.low, close |-> b.close]
    BY <2>1 DEF Bar, Shows
  <2>4. ~(row.naive /\ ~file.zoned)
    BY <1>2 DEF Naive
  <2>5. row.naive = naive /\ row.at = (IF naive THEN Shown(b.at) ELSE b.at)
    BY <2>1 DEF Shows
  <2>6. bar.at = Utc(row, file.zoned)
    BY <2>3
  <2> HIDE DEF row, bar
  <2>7. CASE ~naive
    <3>1. Utc(row, file.zoned) = b.at
      BY <2>5, <2>7 DEF Utc
    <3>2. bar = b
      BY <2>2, <2>3, <3>1
    <3> QED
      BY <2>1, <2>2, <3>2 DEF bar, row
  <2>8. CASE naive
    <3>1. Utc(row, file.zoned) = FirstShown(Shown(b.at))
      BY <2>4, <2>5, <2>8 DEF Utc
    <3>2. CASE b.at < Switch
      <4>1. FirstShown(Shown(b.at)) = b.at
        BY <3>2 DEF FirstShown, Shown
      <4>2. bar = b
        BY <2>2, <2>3, <3>1, <4>1
      <4> QED
        BY <2>1, <2>2, <4>2 DEF bar, row
    <3>3. CASE ~(b.at < Switch)
      <4>1. Shown(b.at) = b.at - Back
        BY <3>3 DEF Shown
      <4>2. CASE b.at - Back < Switch
        <5>1. bar.at = b.at - Back
          BY <2>6, <3>1, <4>1, <4>2 DEF FirstShown
        <5>2. ShownTwice(bar.at, b) /\ bar.at \in Int
          BY <2>2, <3>3, <4>2, <5>1, ClockFacts DEF ShownTwice
        <5> QED
          BY <2>1, <5>2 DEF bar, row
      <4>3. CASE ~(b.at - Back < Switch)
        <5>1. FirstShown(Shown(b.at)) = (b.at - Back) + Back
          BY <4>1, <4>3 DEF FirstShown
        <5>2. (b.at - Back) + Back = b.at
          BY <2>2, ClockFacts
        <5>3. bar = b
          BY <2>2, <2>3, <3>1, <5>1, <5>2
        <5> QED
          BY <2>1, <2>2, <5>3 DEF bar, row
      <4> QED
        BY <4>2, <4>3
    <3> QED
      BY <3>2, <3>3
  <2> QED
    BY <2>7, <2>8
<1>7. \A bar \in kept : \E i \in 1 .. n : bar = Bar(rows[i], file.zoned)
  BY DEF Series
<1> HIDE DEF kept, f, lasting, n, rows
<1>8. \A bar \in kept : bar.at \in Int
  BY <1>6, <1>7
<1>9. Placed(kept, real)
  BY <1>6, <1>7 DEF Placed
<1> QED
  BY <1>4, <1>5, <1>8, <1>9 DEF kept, rows

-----------------------------------------------------------------------------
(* Holes *)

\* Two openings of a file with a real one between them are more than a candle
\* apart, though the clock went back.
LEMMA HoleIsSeen ==
  ASSUME NEW T \in Tapes, NEW d \in Nat \ {0},
         Back <= d \/ \E k \in Nat : Back = k * d,
         NEW m \in CandlesOf(T, d), NEW x \in Int, NEW y \in Int, x < m.at, m.at < y,
         \/ \E b \in CandlesOf(T, d) : x = b.at
         \/ \E b \in CandlesOf(T, d) : ShownTwice(x, b),
         \/ \E b \in CandlesOf(T, d) : y = b.at
         \/ \E b \in CandlesOf(T, d) : ShownTwice(y, b)
  PROVE  y > x + d
<1>1. \A a, b \in CandlesOf(T, d) : a.at \in Nat /\ (a.at < b.at => a.at + d <= b.at)
  <2> SUFFICES ASSUME NEW a \in CandlesOf(T, d), NEW b \in CandlesOf(T, d)
               PROVE  a.at \in Nat /\ (a.at < b.at => a.at + d <= b.at)
    OBVIOUS
  <2>1. PICK j \in Nat : a.at = j * d
    BY RealFacts
  <2>2. PICK k \in Nat : b.at = k * d
    BY RealFacts
  <2>3. a.at \in Nat
    BY RealFacts
  <2> QED
    BY <2>1, <2>2, <2>3, PeriodsApart
<1>2. m.at \in Nat
  BY <1>1
<1>3. CASE \E b \in CandlesOf(T, d) : x = b.at
  BY <1>1, <1>2, <1>3
<1>4. CASE \E b \in CandlesOf(T, d) : y = b.at
  BY <1>1, <1>2, <1>4
<1>5. ASSUME NEW b \in CandlesOf(T, d), ShownTwice(x, b),
             NEW c \in CandlesOf(T, d), ShownTwice(y, c)
      PROVE  y > x + d
  <2>1. /\ b.at \in Nat /\ c.at \in Nat /\ x = b.at - Back /\ y = c.at - Back
        /\ Switch <= b.at /\ c.at < Switch + Back
        /\ Switch \in Nat /\ Back \in Nat
    BY <1>1, <1>5, ClockFacts DEF ShownTwice
  <2>2. b.at + d <= c.at
    BY <1>1, <1>2, <1>5, <2>1
  <2>3. d < Back
    BY <2>1, <2>2
  <2>4. PICK k \in Nat : Back = k * d
    BY <2>1, <2>3
  <2>5. PICK i \in Nat : b.at = i * d
    BY RealFacts
  <2>6. PICK j \in Nat : m.at = j * d
    BY RealFacts
  <2>7. j + k \in Nat /\ (j + k) * d = j * d + k * d
    OBVIOUS
  <2>8. i * d < (j + k) * d => i * d + d <= (j + k) * d
    BY <2>7, PeriodsApart
  <2>9. b.at < m.at + Back => b.at + d <= m.at + Back
    BY <2>4, <2>5, <2>6, <2>7, <2>8
  <2> QED
    BY <1>2, <2>1, <2>9
<1> QED
  BY <1>3, <1>4, <1>5

LEMMA EndsExist ==
  ASSUME NEW K, K # {}, IsFiniteSet(K), \A b \in K : b.at \in Int
  PROVE  /\ Latest(K) \in K /\ \A b \in K : b.at <= Latest(K).at
         /\ Earliest(K) \in K /\ \A b \in K : b.at >= Earliest(K).at
<1> DEFINE f == [b \in K |-> b.at]
           P == {f[b] : b \in K}
<1>1. P \subseteq Int /\ P # {} /\ IsFiniteSet(P)
  <2>1. P \subseteq Int /\ P # {} /\ DOMAIN f = K /\ f = [b \in K |-> f[b]]
    OBVIOUS
  <2> HIDE DEF f
  <2>2. IsFiniteSet(P)
    BY <2>1, FiniteValues
  <2> QED
    BY <2>1, <2>2
<1>2. \A b \in K : b.at \in P
  OBVIOUS
<1>3. \A p \in P : \E b \in K : b.at = p
  OBVIOUS
<1> HIDE DEF P
<1>4. \E b \in K : \A c \in K : c.at <= b.at
  <2>1. PICK p \in P : \A q \in P : p >= q
    BY <1>1, FiniteGreatest
  <2>2. PICK b \in K : b.at = p
    BY <1>3
  <2>3. \A c \in K : c.at <= b.at
    BY <1>1, <1>2, <2>1, <2>2
  <2> QED
    BY <2>3
<1>5. \E b \in K : \A c \in K : c.at >= b.at
  <2>1. PICK p \in P : \A q \in P : p <= q
    BY <1>1, FiniteLeast
  <2>2. PICK b \in K : b.at = p
    BY <1>3
  <2>3. \A c \in K : c.at >= b.at
    BY <1>1, <1>2, <2>1, <2>2
  <2> QED
    BY <2>3
<1> QED
  BY <1>4, <1>5 DEF Latest, Earliest

LEMMA GapSeen ==
  ASSUME NEW T \in Tapes, NEW d \in Nat \ {0},
         Back <= d \/ \E k \in Nat : Back = k * d,
         NEW K, K # {}, IsFiniteSet(K), \A b \in K : b.at \in Int,
         Placed(K, CandlesOf(T, d)),
         NEW m \in CandlesOf(T, d), m.at \notin {b.at : b \in K},
         Earliest(K).at < m.at, m.at < Latest(K).at
  PROVE  Gaps(K, {d}) # {}
<1> DEFINE under == {b \in K : b.at < m.at}
           over  == {b \in K : m.at < b.at}
<1>1. m.at \in Int
  BY RealFacts
<1>2. under \in SUBSET K /\ over \in SUBSET K /\ under # {} /\ over # {}
  BY EndsExist
<1>3. IsFiniteSet(under) /\ IsFiniteSet(over)
  BY <1>2, FS_Subset
<1>4. (\A b \in under : b.at \in Int) /\ (\A b \in over : b.at \in Int)
  OBVIOUS
<1>5. /\ \A b \in under : b \in K /\ b.at < m.at
      /\ \A b \in over : b \in K /\ m.at < b.at
      /\ \A b \in K : b \in under \/ b \in over
  BY <1>1
<1> DEFINE x == Latest(under)
           y == Earliest(over)
<1> HIDE DEF under, over
<1>6. /\ x \in under /\ \A b \in under : b.at <= x.at
      /\ y \in over /\ \A b \in over : b.at >= y.at
  BY <1>2, <1>3, <1>4, EndsExist
<1> HIDE DEF x, y
<1>7. x \in K /\ y \in K /\ x.at \in Int /\ y.at \in Int /\ x.at < m.at /\ m.at < y.at
  BY <1>5, <1>6
<1>8. \A c \in K : c.at <= x.at \/ c.at >= y.at
  BY <1>5, <1>6
<1>9. y.at > x.at + d
  <2>1. /\ \/ \E b \in CandlesOf(T, d) : x.at = b.at
           \/ \E b \in CandlesOf(T, d) : ShownTwice(x.at, b)
        /\ \/ \E b \in CandlesOf(T, d) : y.at = b.at
           \/ \E b \in CandlesOf(T, d) : ShownTwice(y.at, b)
    BY <1>7 DEF Placed
  <2> QED
    BY <1>7, <2>1, HoleIsSeen
<1>10. x \in Gaps(K, {d})
  BY <1>7, <1>8, <1>9 DEF Gaps
<1> QED
  BY <1>10

-----------------------------------------------------------------------------
(* What is kept of a file *)

LEMMA FileStep ==
  ASSUME MarketInv, FileLoad
  PROVE  MarketInv'
<1>1. Active /\ tape' = tape /\ job.kind = "analysis"
  BY DEF FileLoad
<1>2. PICK file \in Files : Keep(Frame, file, FileKind(file))
  BY DEF FileLoad
<1>3. Frame = DigestFrame /\ tape \in Tapes /\ DigestFrame \in Nat \ {0}
  <2>1. job.todo = <<DigestFrame>>
    BY <1>1 DEF MarketInv, JobInv
  <2> QED
    BY <2>1, ConstantFacts DEF Frame, MarketInv, MarketType
<1> DEFINE real == CandlesOf(tape, DigestFrame)
<1>4. /\ real \subseteq Bars /\ IsFiniteSet(real) /\ OneEach(real)
      /\ \A bar \in real : bar.low \in Nat \ {0}
  BY <1>3, RealFacts, RealFinite, RealOnce DEF OneEach
<1>5. ASSUME ~Rejected(file) PROVE \E naive \in BOOLEAN : Copied(file, real, naive)
  <2>1. PICK bars \in SUBSET real, stamps \in {"instants", "zoned", "bare"} :
          bars # {} /\ (file = Exported(bars, stamps) \/ file \in Flawed(Exported(bars, stamps)))
    <3> DEFINE newest == Newest(MaxRows, CandlesOf(tape, Frame))
               W == {Exported(bars, stamps) : bars \in (SUBSET newest) \ {{}},
                                              stamps \in {"instants", "zoned", "bare"}}
    <3>1. newest \subseteq real
      BY <1>3 DEF Newest
    <3>2. file \in W \/ \E w \in W : file \in Flawed(w)
      BY DEF Files
    <3>3. PICK w \in W : file = w \/ file \in Flawed(w)
      <4> HIDE DEF W
      <4> QED
        BY <3>2
    <3> HIDE DEF newest
    <3>4. PICK bars \in (SUBSET newest) \ {{}}, stamps \in {"instants", "zoned", "bare"} :
            w = Exported(bars, stamps)
      OBVIOUS
    <3>5. bars \in SUBSET real /\ bars # {}
      BY <3>1
    <3> QED
      BY <3>3, <3>4, <3>5
  <2> DEFINE whole == Exported(bars, stamps)
             naive == stamps # "instants"
  <2> HIDE DEF real
  <2>2. LET w == Exported(bars, stamps) IN
          /\ Copied(w, real, stamps # "instants")
          /\ ShapedFile(w) /\ Len(w.bars) \in Nat \ {0}
    BY <1>4, <2>1, ExportedFacts
  <2>3. naive \in BOOLEAN
    OBVIOUS
  <2>4. Copied(whole, real, naive) /\ ShapedFile(whole) /\ Len(whole.bars) \in Nat \ {0}
    BY <2>2
  <2> HIDE DEF naive, whole
  <2>5. file = whole \/ file \in Flawed(whole)
    BY <2>1 DEF whole
  <2>6. Copied(file, real, naive)
    BY <1>4, <1>5, <2>3, <2>4, <2>5, FlawedFacts
  <2> QED
    BY <2>3, <2>6
<1>6. Back <= DigestFrame \/ \E k \in Nat : Back = k * DigestFrame
  <2>1. 0 .. Back \subseteq Nat
    BY ClockFacts
  <2> QED
    BY <2>1, ClockAssumption
<1>7. ASSUME NEW normal \in normalize_market_data(file, Frame, Moment)
      PROVE  Unguessed(tape, normal.bars, normal.warnings, FileKind(file))
  <2> DEFINE kept == normal.bars
  <2>1. /\ ~Rejected(file) /\ kept = Series(file.bars, file.zoned)
        /\ normal.warnings = Warnings(file, kept, DigestFrame, Moment)
    BY <1>3, NormalFacts
  <2>2. PICK naive \in BOOLEAN : Copied(file, real, naive)
    BY <1>5, <2>1
  <2> HIDE DEF real, kept
  <2>3. LET k == Series(file.bars, file.zoned) IN
          /\ k # {} /\ IsFiniteSet(k) /\ (\A bar \in k : bar.at \in Int)
          /\ Placed(k, real)
    BY <1>4, <2>1, <2>2, PlacedFacts
  <2>4. /\ kept # {} /\ IsFiniteSet(kept) /\ (\A bar \in kept : bar.at \in Int)
        /\ Placed(kept, real)
    BY <2>1, <2>3
  <2>5. ASSUME NEW bar \in kept
        PROVE  bar \in real \/ bar.at \in Switch - Back .. Switch - 1
    <3>1. CASE \E b \in real : ShownTwice(bar.at, b)
      <4>1. PICK b \in real : ShownTwice(bar.at, b)
        BY <3>1
      <4>2. b.at \in Nat
        BY <1>4 DEF Bars
      <4> QED
        BY <4>1, <4>2, ClockFacts DEF ShownTwice
    <3> QED
      BY <2>4, <3>1 DEF Placed
  <2> DEFINE missing == {bar \in real : /\ bar.at \notin {b.at : b \in kept}
                                 /\ Earliest(kept).at < bar.at /\ bar.at < Latest(kept).at}
  <2>6. ASSUME missing # {}, FileKind(file) = "timed" PROVE "BAR_GAPS" \in normal.warnings
    <3>1. PICK m \in missing : TRUE
      BY <2>6
    <3>2. /\ m \in CandlesOf(tape, DigestFrame) /\ m.at \notin {b.at : b \in kept}
          /\ Earliest(kept).at < m.at /\ m.at < Latest(kept).at
      BY <3>1 DEF real
    <3>3. Placed(kept, CandlesOf(tape, DigestFrame))
      BY <2>4 DEF real
    <3> HIDE DEF missing
    <3>4. Gaps(kept, Duration(file, DigestFrame)) # {}
      <4>1. Gaps(kept, {DigestFrame}) # {}
        BY <1>3, <1>6, <2>4, <3>2, <3>3, GapSeen
      <4>2. Duration(file, DigestFrame) = {DigestFrame}
        BY <2>6 DEF FileKind, Duration
      <4> QED
        BY <4>1, <4>2
    <3>5. "BAR_GAPS" \in Warnings(file, kept, DigestFrame, Moment)
      BY <3>4 DEF Warnings
    <3> QED
      BY <2>1, <3>5
  <2> QED
    BY <2>5, <2>6 DEF Unguessed, real, kept
<1>8. FileKind(file) \in FileKinds
  BY DEF FileKind, FileKinds
<1> HIDE DEF real
<1> QED
  BY <1>1, <1>2, <1>7, <1>8, KeepStep

-----------------------------------------------------------------------------
(* The invariant holds *)

LEMMA MarketNext ==
  ASSUME MarketInv, Next
  PROVE  MarketInv'
<1>1. tape \in Tapes /\ Len(tape) \in Nat
  BY DEF MarketInv, MarketType, Tapes
<1>2. CASE Start
  <2>1. now \in Int /\ now <= now
    BY <1>1 DEF now
  <2>2. <<DigestFrame>> \in Seq(Nat \ {0}) /\ <<DigestFrame>> # << >>
    BY ConstantFacts
  <2>3. CASE StartObservation
    <3>1. Begin("observation", now, Frames)
      BY <2>3 DEF StartObservation
    <3> QED
      BY <2>1, <3>1, ConstantFacts, BeginStep DEF Kinds
  <2>4. CASE StartDigest
    <3>1. PICK late \in 0 .. MaxLate : Begin("digest", now - late, <<DigestFrame>>)
      BY <2>4 DEF StartDigest
    <3>2. now - late \in Int /\ now - late <= now
      BY <2>1, ConstantFacts
    <3> QED
      BY <2>2, <3>1, <3>2, BeginStep DEF Kinds
  <2>5. CASE StartAnalysis
    <3>1. Begin("analysis", now, <<DigestFrame>>)
      BY <2>5 DEF StartAnalysis
    <3> QED
      BY <2>1, <2>2, <3>1, BeginStep DEF Kinds
  <2> QED
    BY <1>2, <2>3, <2>4, <2>5 DEF Start
<1>3. CASE Reader
  <2>1. CASE Open
    BY <2>1, OpenStep
  <2>2. CASE TimedOut
    BY <2>2, RetryStep DEF TimedOut
  <2>3. CASE TooManyMessages
    BY <2>3, FailStep DEF TooManyMessages
  <2>4. CASE Select
    BY <2>4, SelectStep
  <2>5. CASE Mt5Load
    BY <2>5, Mt5Step
  <2>6. CASE FileLoad
    BY <2>6, FileStep
  <2>7. ASSUME NEW n \in 1 .. Len(wire), Receive(n) PROVE MarketInv'
    BY <2>7, ReceiveStep
  <2> QED
    BY <1>3, <2>1, <2>2, <2>3, <2>4, <2>5, <2>6, <2>7 DEF Reader
<1>4. CASE Venue
  BY <1>4, VenueStep
<1>5. CASE Time
  BY <1>5, MinuteStep DEF Time
<1>6. CASE Broken
  BY <1>6, RetryStep DEF Broken
<1>7. CASE Refused
  BY <1>7, FailStep DEF Refused
<1>8. CASE Mt5Fails
  BY <1>8, Mt5Step
<1> QED
  BY <1>2, <1>3, <1>4, <1>5, <1>6, <1>7, <1>8 DEF Next

LEMMA MarketStutter ==
  ASSUME MarketInv, UNCHANGED vars
  PROVE  MarketInv'
<1>1. UNCHANGED <<tape, job, load, wire, series, noted, outcome>>
  BY DEF vars
<1>2. MarketType' /\ JobInv'
  BY <1>1 DEF MarketInv, MarketType, JobInv, Active
<1>3. LoadInv' /\ SeriesInv' /\ DigestInv' /\ FileInv'
  BY <1>1 DEF MarketInv, LoadInv, SeriesInv, DigestInv, FileInv, Active, Frame, now
<1> QED
  BY <1>2, <1>3 DEF MarketInv

LEMMA MarketAlways == Spec => []MarketInv
<1>1. Init => MarketInv
  BY MarketInit
<1>2. MarketInv /\ [Next]_vars => MarketInv'
  BY MarketNext, MarketStutter
<1> QED
  BY <1>1, <1>2, PTL DEF Spec

-----------------------------------------------------------------------------
(* What follows from it *)

LEMMA MinOfOpenings ==
  ASSUME NEW K, K # {}, K \subseteq Bars, IsFiniteSet(K)
  PROVE  \E b \in K : Min({x.at : x \in K}) = b.at /\ \A c \in K : b.at <= c.at
<1> DEFINE f == [b \in K |-> b.at]
           P == {f[b] : b \in K}
<1>1. P \subseteq Int /\ P # {} /\ DOMAIN f = K /\ f = [b \in K |-> f[b]]
  BY DEF Bars
<1>2. P = {x.at : x \in K}
  OBVIOUS
<1>3. \A b \in K : b.at \in P
  OBVIOUS
<1>4. \A p \in P : \E b \in K : b.at = p
  OBVIOUS
<1> HIDE DEF f
<1>5. IsFiniteSet(P)
  BY <1>1, FiniteValues
<1> HIDE DEF P
<1>6. Min(P) \in P /\ \A p \in P : Min(P) <= p
  BY <1>1, <1>5, MinIs
<1>7. PICK b \in K : b.at = Min(P)
  BY <1>4, <1>6
<1> QED
  BY <1>2, <1>3, <1>6, <1>7

LEMMA ObservationFollows == MarketInv => ObservationIsOneInstant
<1> SUFFICES ASSUME MarketInv, outcome = "DONE", job.kind = "observation", NEW d \in FrameSet
             PROVE  series[d] # {} /\ series[d] = Really(d, series[d], job.at)
  BY DEF ObservationIsOneInstant
<1> DEFINE kept == series[d]
           real == CandlesOf(tape, d)
<1>1. d \in DOMAIN series
  <2>1. job.todo = << >>
    BY DEF MarketInv, JobInv
  <2>2. ~ \E i \in 1 .. Len(job.todo) : job.todo[i] = d
    BY <2>1
  <2> QED
    BY <2>2 DEF MarketInv, JobInv
<1>2. /\ Sound(tape, job.at, d, kept)
      /\ kept # {} /\ \A b \in kept : b.at + d <= job.at
  BY <1>1 DEF MarketInv, SeriesInv
<1>3. /\ kept \subseteq Bars /\ IsFiniteSet(kept)
      /\ \A b \in kept : b \in real
      /\ \A b \in kept, c \in real : c.at + d <= job.at /\ b.at <= c.at => c \in kept
  BY <1>2 DEF Sound
<1>4. tape \in Tapes /\ d \in Nat \ {0}
  BY <1>1 DEF MarketInv, MarketType
<1>5. \A c \in real : c.at \in Nat
  BY <1>4, RealFacts
<1> DEFINE first == Min({x.at : x \in kept})
<1>6. PICK a \in kept : first = a.at /\ \A c \in kept : a.at <= c.at
  <2> HIDE DEF kept
  <2> QED
    BY <1>2, <1>3, MinOfOpenings
<1>7. Really(d, kept, job.at) = {bar \in real : bar.at + d <= job.at /\ bar.at >= first}
  BY DEF Really, ClosedBy, close_time
<1> HIDE DEF kept, real, first
<1>8. \A b \in kept : b \in Really(d, kept, job.at)
  <2> SUFFICES ASSUME NEW b \in kept PROVE b \in Really(d, kept, job.at)
    OBVIOUS
  <2>1. b \in real /\ a \in real /\ b.at \in Nat /\ a.at \in Nat /\ a.at <= b.at
    BY <1>3, <1>5, <1>6
  <2>2. b.at >= first
    BY <2>1, <1>6
  <2> QED
    BY <1>2, <1>7, <2>1, <2>2
<1>9. \A c \in Really(d, kept, job.at) : c \in kept
  <2> SUFFICES ASSUME NEW c \in Really(d, kept, job.at) PROVE c \in kept
    OBVIOUS
  <2>1. c \in real /\ c.at + d <= job.at /\ c.at >= a.at
    BY <1>6, <1>7
  <2>2. c.at \in Nat /\ a.at \in Nat
    BY <1>3, <1>5, <2>1
  <2>3. a.at <= c.at
    BY <2>1, <2>2
  <2> QED
    BY <1>3, <1>6, <2>1, <2>3
<1> QED
  BY <1>2, <1>8, <1>9 DEF kept

LEMMA FileFollows == MarketInv => FileIsNotGuessed
BY DEF MarketInv, FileInv, Unguessed, FileIsNotGuessed

-----------------------------------------------------------------------------
(* The price reaction *)

\* The newest of what is left of a series when its beginning is cut away.
LEMMA SameNewest ==
  ASSUME NEW B, IsFiniteSet(B), \A b \in B : b.at \in Int, NEW A, A \subseteq B, A # {},
         \A a \in A, b \in B : a.at <= b.at => b \in A
  PROVE  Newest(1, A) = Newest(1, B)
<1>1. IsFiniteSet(A)
  BY FS_Subset
<1>2. \A a \in A : a \in Newest(1, A) <=> \A c \in A : ~(c.at > a.at)
  BY <1>1, NewestOne
<1>3. \A b \in B : b \in Newest(1, B) <=> \A c \in B : ~(c.at > b.at)
  BY NewestOne
<1>4. Newest(1, A) \subseteq A /\ Newest(1, B) \subseteq B
  BY DEF Newest
<1>5. ASSUME NEW a \in Newest(1, A) PROVE a \in Newest(1, B)
  <2>1. a \in A /\ a \in B
    BY <1>4
  <2>2. ASSUME NEW c \in B, c.at > a.at PROVE FALSE
    <3>1. c \in A
      BY <2>1, <2>2
    <3> QED
      BY <1>2, <1>5, <2>1, <2>2, <3>1
  <2> QED
    BY <1>3, <2>1, <2>2
<1>6. ASSUME NEW b \in Newest(1, B) PROVE b \in Newest(1, A)
  <2>1. PICK a \in A : TRUE
    OBVIOUS
  <2>2. b \in B /\ a \in B /\ ~(a.at > b.at)
    BY <1>3, <1>4, <1>6, <2>1
  <2>3. a.at <= b.at
    BY <2>2
  <2>4. b \in A
    BY <2>2, <2>3
  <2> QED
    BY <1>2, <1>3, <1>6, <2>2, <2>4
<1> QED
  BY <1>5, <1>6

\* A series' range holds what lies in one of its candles.
LEMMA RangeHolds ==
  ASSUME NEW S, S \subseteq Bars, IsFiniteSet(S), NEW b \in S
  PROVE  /\ \E h \in High(S) : h \in Int /\ b.high <= h
         /\ \E l \in Low(S) : l \in Int /\ l <= b.low
<1> DEFINE fh == [x \in S |-> x.high]
           fl == [x \in S |-> x.low]
           H  == {fh[x] : x \in S}
           L  == {fl[x] : x \in S}
<1>1. /\ H \subseteq Int /\ H # {} /\ DOMAIN fh = S /\ fh = [x \in S |-> fh[x]]
      /\ L \subseteq Int /\ L # {} /\ DOMAIN fl = S /\ fl = [x \in S |-> fl[x]]
  BY DEF Bars
<1>2. High(S) = {Max(H)} /\ Low(S) = {Min(L)}
  <2>1. H = {x.high : x \in S} /\ L = {x.low : x \in S}
    OBVIOUS
  <2> HIDE DEF H, L
  <2> QED
    BY <2>1 DEF High, Low
<1>3. b.high \in H /\ b.low \in L
  OBVIOUS
<1> HIDE DEF fh, fl
<1>4. IsFiniteSet(H) /\ IsFiniteSet(L)
  BY <1>1, FiniteValues
<1> HIDE DEF H, L
<1>5. Max(H) \in H /\ (\A m \in H : Max(H) >= m) /\ \A m \in L : Min(L) <= m
  BY <1>1, <1>4, MaxIs, MinIs
<1>6. b.high <= Max(H) /\ Min(L) <= b.low /\ Max(H) \in Int /\ Min(L) \in Int
  BY <1>1, <1>3, <1>4, <1>5, MinIs
<1> QED
  BY <1>2, <1>6

\* What the closing times of one candle come to.
LEMMA MaxOfOne ==
  ASSUME NEW S, NEW b \in S, \A a, c \in S : a = c, NEW d \in Int, b.at + d \in Int
  PROVE  Max({close_time(x, d) : x \in S}) = b.at + d
<1>1. {close_time(x, d) : x \in S} = {b.at + d}
  BY DEF close_time
<1>2. {b.at + d} \subseteq Int /\ {b.at + d} # {} /\ IsFiniteSet({b.at + d})
  BY FS_Singleton
<1>3. Max({b.at + d}) \in {b.at + d}
  BY <1>2, MaxIs
<1> QED
  BY <1>1, <1>3

\* The references of a sound series are the market's.
LEMMA ReferenceFacts ==
  ASSUME NEW T \in Tapes, NEW d \in Nat \ {0}, NEW at \in Int, NEW R, Sound(T, at, d, R),
         NEW moment \in Int, moment <= at, ClosedBy(R, d, moment) # {}
  PROVE  /\ ReferenceAt(ClosedBy(R, d, at), d, moment) =
              Newest(1, ClosedBy(ClosedBy(CandlesOf(T, d), d, at), d, moment))
         /\ \E b \in R : /\ ReferenceAt(ClosedBy(R, d, at), d, moment) = {b}
                         /\ b \in CandlesOf(T, d) /\ b.at + d <= moment
<1> DEFINE A == ClosedBy(R, d, moment)
           B == ClosedBy(CandlesOf(T, d), d, moment)
<1>1. /\ \A b : b \in A <=> b \in R /\ b.at + d <= moment
      /\ \A b : b \in B <=> b \in CandlesOf(T, d) /\ b.at + d <= moment
  BY DEF ClosedBy, close_time
<1>2. \A c \in CandlesOf(T, d) : c \in Bars /\ c.at \in Int
  BY RealFacts
<1>3. /\ \A b \in R : b.at \in Int /\ (b.at + d <= at => b \in CandlesOf(T, d))
      /\ \A b \in R, c \in CandlesOf(T, d) : c.at + d <= at /\ b.at <= c.at => c \in R
      /\ IsFiniteSet(R)
  BY DEF Sound, Bars
<1>4. ClosedBy(ClosedBy(R, d, at), d, moment) = A
  <2>1. \A b \in R : b.at + d <= moment => b.at + d <= at
    BY <1>3
  <2> QED
    BY <2>1 DEF ClosedBy, close_time
<1>5. ClosedBy(ClosedBy(CandlesOf(T, d), d, at), d, moment) = B
  <2>1. \A b \in CandlesOf(T, d) : b.at + d <= moment => b.at + d <= at
    BY <1>2
  <2> QED
    BY <2>1 DEF ClosedBy, close_time
<1>6. IsFiniteSet(CandlesOf(T, d))
  BY RealFinite
<1>7. B \in SUBSET CandlesOf(T, d) /\ A \in SUBSET R
  BY <1>1
<1> HIDE DEF A, B
<1>8. IsFiniteSet(B) /\ IsFiniteSet(A)
  BY <1>3, <1>6, <1>7, FS_Subset
<1>9. A \subseteq B
  BY <1>1, <1>3
<1>10. \A a \in A, b \in B : a.at <= b.at => b \in A
  <2> SUFFICES ASSUME NEW a \in A, NEW b \in B, a.at <= b.at PROVE b \in A
    OBVIOUS
  <2>1. b \in CandlesOf(T, d) /\ b.at + d <= moment /\ b.at \in Int
    BY <1>1, <1>2
  <2>2. b.at + d <= at
    BY <2>1
  <2> QED
    BY <1>1, <1>3, <2>1, <2>2
<1>11. A # {}
  BY DEF A
<1>12. \A b \in B : b.at \in Int
  BY <1>1, <1>2
<1>13. Newest(1, A) = Newest(1, B)
  BY <1>8, <1>9, <1>10, <1>11, <1>12, SameNewest
<1>14. PICK b \in A : b \in Newest(1, A) /\ \A c \in A : c.at <= b.at
  BY <1>8, <1>9, <1>11, <1>12, NewestExists
<1>15. ASSUME NEW c \in Newest(1, A) PROVE c = b
  <2>1. c \in A /\ ~(b.at > c.at)
    BY <1>8, <1>14, <1>15, NewestOne DEF Newest
  <2>2. c.at <= b.at /\ c.at \in Int /\ b.at \in Int
    BY <1>9, <1>12, <1>14, <2>1
  <2>3. c.at = b.at
    BY <2>1, <2>2
  <2>4. c \in CandlesOf(T, d) /\ b \in CandlesOf(T, d)
    BY <1>1, <1>9, <1>14, <2>1
  <2> QED
    BY <2>3, <2>4, RealOnce
<1>16. Newest(1, A) = {b}
  BY <1>14, <1>15
<1> QED
  BY <1>1, <1>4, <1>5, <1>9, <1>13, <1>14, <1>16 DEF ReferenceAt

LEMMA ReactionFollows == MarketInv => ReactionIsTrue
<1> DEFINE d      == DigestFrame
           bars   == series[d]
           W      == Window
           closed == ClosedBy(bars, d, W.end)
           start  == ReferenceAt(closed, d, W.start)
           end    == ReferenceAt(closed, d, W.end)
           over   == {b \in closed : Overlaps(b, d, W)}
           finished == {b \in closed : Covers(W, close_time(b, d))}
<1> SUFFICES ASSUME MarketInv, outcome = "DONE", job.kind = "digest",
                    Reaction.activity # "INSUFFICIENT_HISTORY"
             PROVE  LET real == ClosedBy(CandlesOf(tape, DigestFrame), DigestFrame, job.at)
                        LastBy(moment) == Newest(1, ClosedBy(real, DigestFrame, moment))
                        since == Max({close_time(b, DigestFrame) : b \in LastBy(Window.start)})
                        upto  == Max({close_time(b, DigestFrame) : b \in LastBy(Window.end)})
                        traded == {tape[m] : m \in Traded(tape, Max({since, Window.start}), upto)}
                    IN /\ Reaction.start = LastBy(Window.start)
                       /\ Reaction.end = LastBy(Window.end)
                       /\ \A p \in traded :
                            \E h \in Reaction.high, l \in Reaction.low : l <= p /\ p <= h
                       /\ Reaction.activity = "NO_MARKET_ACTIVITY" =>
                            \A b \in ClosedBy(CandlesOf(tape, DigestFrame), DigestFrame, now) :
                              Traded(tape, Max({b.at, Window.start}),
                                     Min({close_time(b, DigestFrame), Window.end})) = {}
  BY DEF ReactionIsTrue
<1>0. Prices \subseteq Int /\ Quiet \in Int
  BY MarketAssumption DEF Quiet
<1>1. /\ tape \in Tapes /\ Len(tape) \in Nat /\ job.at \in Int /\ job.at <= Len(tape)
      /\ d \in Nat \ {0}
  BY ConstantFacts DEF MarketInv, MarketType, Jobs, Tapes
<1>2. /\ W.end = job.at /\ W.start = job.at - Lookback
      /\ W.start \in Int /\ W.end \in Int /\ W.start < W.end
  BY <1>1, ConstantFacts DEF Window
<1>3. Sound(tape, job.at, d, bars)
  BY DEF MarketInv, JobInv, SeriesInv
<1>4. Reaction = IF start = {}
     THEN [activity |-> "INSUFFICIENT_HISTORY", start |-> {}, end |-> {}, high |-> {}, low |-> {}]
     ELSE [activity |-> IF finished # {} THEN "NORMAL"
                        ELSE IF \E b \in bars : Overlaps(b, d, W) THEN "NO_NEW_CLOSED_BAR"
                        ELSE "NO_MARKET_ACTIVITY",
           start |-> start, end |-> end, high |-> High(over), low |-> Low(over)]
  BY DEF Reaction, calculate_price_reaction, AnyBarOverlaps
<1>5. /\ start # {}
      /\ Reaction.start = start /\ Reaction.end = end
      /\ Reaction.high = High(over) /\ Reaction.low = Low(over)
      /\ Reaction.activity = "NO_MARKET_ACTIVITY" => ~ \E b \in bars : Overlaps(b, d, W)
  <2> HIDE DEF start, end, over, finished, bars, W
  <2>1. CASE start = {}
    BY <1>4, <2>1
  <2>2. CASE start # {}
    <3>1. Reaction.activity = IF finished # {} THEN "NORMAL"
                        ELSE IF \E b \in bars : Overlaps(b, d, W) THEN "NO_NEW_CLOSED_BAR"
                        ELSE "NO_MARKET_ACTIVITY"
      BY <1>4, <2>2
    <3>2. /\ Reaction.start = start /\ Reaction.end = end
          /\ Reaction.high = High(over) /\ Reaction.low = Low(over)
      BY <1>4, <2>2
    <3> QED
      BY <2>2, <3>1, <3>2
  <2> QED
    BY <2>1, <2>2
<1> DEFINE real == ClosedBy(CandlesOf(tape, d), d, job.at)
           LastBy(moment) == Newest(1, ClosedBy(real, d, moment))
<1>6. \A b : b \in closed <=> b \in bars /\ b.at + d <= job.at
  BY <1>2 DEF ClosedBy, close_time
<1>7. \A b \in bars : b \in Bars /\ b.at \in Nat
  BY <1>3 DEF Sound, Bars
<1>8. /\ start = LastBy(W.start)
      /\ \E b \in bars : start = {b} /\ b \in CandlesOf(tape, d) /\ b.at + d <= W.start
  <2>1. ClosedBy(bars, d, W.start) # {}
    <3>1. PICK b \in start : TRUE
      BY <1>5
    <3>2. b \in bars /\ b.at + d <= W.start
      BY <1>6 DEF ReferenceAt, Newest, ClosedBy, close_time
    <3> QED
      BY <3>2 DEF ClosedBy, close_time
  <2>2. W.start <= job.at
    BY <1>1, <1>2
  <2>3. start = ReferenceAt(ClosedBy(bars, d, job.at), d, W.start)
    BY <1>2
  <2> HIDE DEF bars, W, start, d
  <2> QED
    BY <1>1, <1>2, <1>3, <2>1, <2>2, <2>3, ReferenceFacts
<1>9. PICK s \in bars : start = {s} /\ s \in CandlesOf(tape, d) /\ s.at + d <= W.start
  BY <1>8
<1>10. s.at \in Nat
  BY <1>1, <1>9, RealFacts
<1>11. /\ end = LastBy(W.end)
       /\ \E b \in bars : end = {b} /\ b \in CandlesOf(tape, d) /\ b.at + d <= W.end
  <2>1. s.at + d <= W.end
    BY <1>1, <1>2, <1>9, <1>10
  <2>2. ClosedBy(bars, d, W.end) # {}
    BY <1>9, <2>1 DEF ClosedBy, close_time
  <2>3. W.end <= job.at
    BY <1>1, <1>2
  <2>4. end = ReferenceAt(ClosedBy(bars, d, job.at), d, W.end)
    BY <1>2
  <2> HIDE DEF bars, W, end, d
  <2> QED
    BY <1>1, <1>2, <1>3, <2>2, <2>3, <2>4, ReferenceFacts
<1>12. PICK e \in bars : end = {e} /\ e \in CandlesOf(tape, d) /\ e.at + d <= W.end
  BY <1>11
<1>13. e.at \in Nat
  BY <1>1, <1>12, RealFacts
<1> DEFINE since == Max({close_time(b, d) : b \in LastBy(W.start)})
           upto  == Max({close_time(b, d) : b \in LastBy(W.end)})
           from  == Max({since, W.start})
<1>14. since = s.at + d
  <2> DEFINE S == LastBy(W.start)
  <2>1. S = {s}
    BY <1>8, <1>9
  <2> HIDE DEF S, d
  <2>2. s \in S /\ \A a, c \in S : a = c
    BY <2>1
  <2>3. Max({close_time(b, d) : b \in S}) = s.at + d
    <3>1. d \in Int /\ s.at + d \in Int
      BY <1>1, <1>10
    <3> QED
      BY <2>2, <3>1, MaxOfOne
  <2> QED
    BY <2>3 DEF S, d
<1>15. upto = e.at + d
  <2> DEFINE S == LastBy(W.end)
  <2>1. S = {e}
    BY <1>11, <1>12
  <2> HIDE DEF S, d
  <2>2. e \in S /\ \A a, c \in S : a = c
    BY <2>1
  <2>3. Max({close_time(b, d) : b \in S}) = e.at + d
    <3>1. d \in Int /\ e.at + d \in Int
      BY <1>1, <1>13
    <3> QED
      BY <2>2, <3>1, MaxOfOne
  <2> QED
    BY <2>3 DEF S, d
<1>16. from = W.start
  <2>1. since \in Int /\ since <= W.start
    BY <1>1, <1>2, <1>9, <1>10, <1>14
  <2> HIDE DEF since, W
  <2>2. IsFiniteSet({since, W.start})
    <3>1. IsFiniteSet({since}) /\ IsFiniteSet({W.start})
      BY FS_Singleton
    <3>2. {since, W.start} = {since} \cup {W.start}
      OBVIOUS
    <3> QED
      BY <3>1, <3>2, FS_Union
  <2>3. from \in {since, W.start} /\ \A m \in {since, W.start} : from >= m
    BY <1>2, <2>1, <2>2, MaxIs
  <2> QED
    BY <1>2, <2>1, <2>3
<1> HIDE DEF since, upto, from, LastBy, real, start, end
\* Every trade of those minutes is in a candle the window's range is taken of.
<1>17. ASSUME NEW m \in Traded(tape, from, upto)
       PROVE  /\ tape[m] \in Int
              /\ \E c \in over : c.low <= tape[m] /\ tape[m] <= c.high
  <2>1. m \in from + 1 .. upto /\ tape[m] # Quiet
    BY <1>17 DEF Traded
  <2> HIDE DEF bars, W, d, over, closed
  <2>2. m \in Int /\ W.start < m /\ m <= e.at + d
    BY <1>2, <1>15, <1>16, <2>1
  <2>3. s.at + d < m /\ m \in 1 .. Len(tape)
    BY <1>1, <1>2, <1>9, <1>10, <1>12, <1>13, <2>2
  <2>4. PICK c \in CandlesOf(tape, d) :
          c.at < m /\ m <= c.at + d /\ c.low <= tape[m] /\ tape[m] <= c.high
    BY <1>1, <2>1, <2>3, TradeHasCandle
  <2>5. c.at \in Nat
    BY <1>1, RealFacts
  <2>6. s.at <= c.at
    BY <1>1, <1>10, <2>2, <2>3, <2>4, <2>5
  <2>7. c.at <= e.at
    <3>1. PICK j \in Nat : c.at = j * d
      BY <1>1, RealFacts
    <3>2. PICK k \in Nat : e.at = k * d
      BY <1>1, <1>12, RealFacts
    <3>3. j * d < k * d + d
      BY <1>1, <1>13, <2>2, <2>4, <2>5, <3>1, <3>2
    <3>4. j <= k
      BY <1>1, <3>3, PeriodsApart
    <3> QED
      BY <1>1, <3>1, <3>2, <3>4, Products
  <2>8. c.at + d <= job.at
    BY <1>1, <1>2, <1>12, <1>13, <2>5, <2>7
  <2>9. c \in bars
    BY <1>3, <1>9, <2>6, <2>8 DEF Sound
  <2>10. c \in closed
    BY <1>6, <2>8, <2>9
  <2>11. Overlaps(c, d, W)
    <3>1. c.at + d > W.start /\ c.at < W.end
      BY <1>1, <1>2, <1>12, <1>13, <2>2, <2>4, <2>5
    <3> QED
      BY <3>1 DEF Overlaps, close_time
  <2>12. tape[m] \in Int
    <3>1. tape[m] \in Prices \cup {Quiet}
      BY <1>1, <2>3 DEF Tapes
    <3> QED
      BY <1>0, <3>1
  <2> QED
    BY <2>4, <2>10, <2>11, <2>12 DEF over
<1>18. over \subseteq Bars /\ IsFiniteSet(over)
  <2>1. over \in SUBSET bars
    BY <1>6
  <2>2. IsFiniteSet(bars) /\ bars \subseteq Bars
    BY <1>3 DEF Sound
  <2> HIDE DEF over, bars
  <2> QED
    BY <2>1, <2>2, FS_Subset
<1>19. Told(tape, job.at, d, ClosedBy(CandlesOf(tape, d), d, now), bars)
  BY DEF MarketInv, DigestInv
<1> DEFINE traded == {tape[m] : m \in Traded(tape, from, upto)}
<1> HIDE DEF over, bars, W, d, closed
<1>20. \A p \in traded : \E h \in High(over), l \in Low(over) : l <= p /\ p <= h
  <2> SUFFICES ASSUME NEW m \in Traded(tape, from, upto)
               PROVE  \E h \in High(over), l \in Low(over) : l <= tape[m] /\ tape[m] <= h
    OBVIOUS
  <2>1. PICK c \in over : c.low <= tape[m] /\ tape[m] <= c.high
    BY <1>17
  <2>2. PICK h \in High(over) : h \in Int /\ c.high <= h
    BY <1>18, RangeHolds
  <2>3. PICK l \in Low(over) : l \in Int /\ l <= c.low
    BY <1>18, RangeHolds
  <2>4. c.high \in Int /\ c.low \in Int /\ tape[m] \in Int
    BY <1>17, <1>18 DEF Bars
  <2> QED
    BY <2>1, <2>2, <2>3, <2>4
\* A candle that has closed and holds a trade of the window overlaps it.
<1>21. ASSUME Reaction.activity = "NO_MARKET_ACTIVITY",
              NEW c \in ClosedBy(CandlesOf(tape, d), d, now),
              NEW m \in Traded(tape, Max({c.at, W.start}), Min({close_time(c, d), W.end}))
       PROVE  FALSE
  <2> HIDE DEF W, d
  <2>1. c \in CandlesOf(tape, d) /\ c.at \in Nat /\ close_time(c, d) = c.at + d
    BY <1>1, RealFacts DEF ClosedBy, close_time
  <2>9. c.at \in Int /\ c.at + d \in Int
    BY <1>1, <2>1
  <2>2. /\ Max({c.at, W.start}) \in Int /\ c.at <= Max({c.at, W.start})
        /\ W.start <= Max({c.at, W.start})
    BY <1>2, <2>9, MaxOfTwo
  <2>3. /\ Min({c.at + d, W.end}) \in Int /\ Min({c.at + d, W.end}) <= c.at + d
        /\ Min({c.at + d, W.end}) <= W.end
    BY <1>2, <2>9, MinOfTwo
  <2>4. m \in Int /\ c.at < m /\ W.start < m /\ m <= c.at + d /\ m <= W.end /\ tape[m] # Quiet
    BY <1>1, <1>2, <2>1, <2>2, <2>3 DEF Traded
  <2>5. m \in Traded(tape, c.at, c.at + d) /\ m <= job.at
    BY <1>1, <1>2, <2>1, <2>4 DEF Traded
  <2>6. s.at <= c.at
    BY <1>1, <1>2, <1>9, <1>10, <2>1, <2>4
  <2>7. PICK g \in bars : g.at = c.at
    BY <1>9, <1>19, <1>21, <2>5, <2>6 DEF Told
  <2>8. Overlaps(g, d, W)
    BY <1>1, <1>2, <2>1, <2>4, <2>7 DEF Overlaps, close_time
  <2> QED
    BY <1>5, <1>21, <2>7, <2>8
<1> QED
  BY <1>5, <1>8, <1>11, <1>20, <1>21 DEF since, upto, from, LastBy, real, W, d

(***************************************************************************)
(* A collection of news.  Its walk of a channel goes backwards, and has of    *)
(* the window everything from its cursor on (WalkInv), so a walk that ends    *)
(* at the channel's beginning, or at a message before the window, has all     *)
(* (PageAdds): the channel publishes in order.  Merging goes through the      *)
(* items in order too, what joins a group is no earlier than it               *)
(* (GroupedTells), and no two groups are of one message (GroupedApart), so    *)
(* the ranking is total on them (AheadOrders) and the ceiling cuts at a rank  *)
(* (BestFacts).                                                              *)
(***************************************************************************)

-----------------------------------------------------------------------------
(* The merging of a collection's items (news_dedup.py) *)

Items == [channel : ChannelSet, id : Nat \ {0}, at : Nat, story : Stories]

\* A message is one item.
OneMessage(S) == \A x, y \in S : x.channel = y.channel /\ x.id = y.id => x = y

LEMMA IndexFacts ==
  ASSUME NEW c \in ChannelSet
  PROVE  ChannelIndex(c) \in 1 .. Len(Channels) /\ Channels[ChannelIndex(c)] = c
<1>1. \E i \in 1 .. Len(Channels) : Channels[i] = c
  BY DEF ChannelSet
<1> QED
  BY <1>1 DEF ChannelIndex

\* The canonical order is one of a set of items of different messages.
LEMMA BeforeOrders ==
  /\ \A x \in Items : ~Before(x, x)
  /\ \A x, y \in Items : Before(x, y) \/ Before(y, x) \/ (x.channel = y.channel /\ x.id = y.id)
  /\ \A x, y, z \in Items : Before(x, y) /\ Before(y, z) => Before(x, z)
<1>1. Len(Channels) \in Nat
  BY NewsAssumption
<1>2. \A x \in Items :
        /\ x.at \in Int /\ x.id \in Int
        /\ ChannelIndex(x.channel) \in Int
        /\ Channels[ChannelIndex(x.channel)] = x.channel
  <2> SUFFICES ASSUME NEW x \in Items
               PROVE  /\ x.at \in Int /\ x.id \in Int
                      /\ ChannelIndex(x.channel) \in Int
                      /\ Channels[ChannelIndex(x.channel)] = x.channel
    OBVIOUS
  <2>1. x.at \in Int /\ x.id \in Int /\ x.channel \in ChannelSet
    BY DEF Items
  <2>2. ChannelIndex(x.channel) \in 1 .. Len(Channels)
        /\ Channels[ChannelIndex(x.channel)] = x.channel
    BY <2>1, IndexFacts
  <2> QED
    BY <1>1, <2>1, <2>2
<1>3. ASSUME NEW x \in Items PROVE ~Before(x, x)
  BY <1>2 DEF Before
<1>4. ASSUME NEW x \in Items, NEW y \in Items, ~Before(x, y), ~Before(y, x)
      PROVE  x.channel = y.channel /\ x.id = y.id
  <2>1. x.at = y.at
    BY <1>2, <1>4 DEF Before
  <2>2. ChannelIndex(x.channel) = ChannelIndex(y.channel)
    BY <1>2, <1>4, <2>1 DEF Before
  <2>3. x.channel = y.channel
    BY <1>2, <2>2
  <2> QED
    BY <1>2, <1>4, <2>1, <2>3 DEF Before
<1>5. ASSUME NEW x \in Items, NEW y \in Items, NEW z \in Items, Before(x, y), Before(y, z)
      PROVE  Before(x, z)
  <2>1. /\ x.at \in Int /\ y.at \in Int /\ z.at \in Int
        /\ x.id \in Int /\ y.id \in Int /\ z.id \in Int
        /\ ChannelIndex(x.channel) \in Int /\ ChannelIndex(y.channel) \in Int
        /\ ChannelIndex(z.channel) \in Int
    BY <1>2
  <2> QED
    BY <1>5, <2>1 DEF Before
<1> QED
  BY <1>3, <1>4, <1>5

\* The first items of a set, in order: each is one of it, each is reached, and
\* none is earlier than those before it.
LEMMA CanonicalFacts ==
  ASSUME NEW S, S \subseteq Items, IsFiniteSet(S), OneMessage(S)
  PROVE  /\ Cardinality(S) \in Nat
         /\ \A i \in 1 .. Cardinality(S) : Canonical(S, i) \in S
         /\ \A x \in S : \E i \in 1 .. Cardinality(S) : Canonical(S, i) = x
         /\ \A i, j \in 1 .. Cardinality(S) :
              i <= j => Canonical(S, i).at <= Canonical(S, j).at
         /\ \A i, j \in 1 .. Cardinality(S) : Canonical(S, i) = Canonical(S, j) => i = j
<1> DEFINE n == Cardinality(S)
           R == {p \in S \X S : Before(p[1], p[2])}
<1>1. n \in Nat
  BY FS_CardinalityType
<1>2. \A x, y \in S : <<x, y>> \in R <=> Before(x, y)
  OBVIOUS
<1>3. \A x \in S : x \in Items
  OBVIOUS
<1> HIDE DEF R
<1>4. /\ \A x \in S : <<x, x>> \notin R
      /\ \A x, y \in S : x # y => <<x, y>> \in R \/ <<y, x>> \in R
      /\ \A x, y, z \in S : <<x, y>> \in R /\ <<y, z>> \in R => <<x, z>> \in R
  <2>1. \A x \in S : <<x, x>> \notin R
    BY <1>2, <1>3, BeforeOrders
  <2>2. \A x, y \in S : x # y => <<x, y>> \in R \/ <<y, x>> \in R
    BY <1>2, <1>3, BeforeOrders DEF OneMessage
  <2>3. ASSUME NEW x \in S, NEW y \in S, NEW z \in S, <<x, y>> \in R, <<y, z>> \in R
        PROVE  <<x, z>> \in R
    <3>1. Before(x, y) /\ Before(y, z)
      BY <1>2, <2>3
    <3>2. Before(x, z)
      BY <1>3, <3>1, BeforeOrders
    <3> QED
      BY <1>2, <3>2
  <2> QED
    BY <2>1, <2>2, <2>3
<1>5. /\ \A x \in S : RankIn(S, R, x) \in 0 .. n - 1
      /\ \A x, y \in S : <<x, y>> \in R <=> RankIn(S, R, x) < RankIn(S, R, y)
      /\ \A x, y \in S : RankIn(S, R, x) = RankIn(S, R, y) => x = y
      /\ \A i \in 1 .. n : \E x \in S : RankIn(S, R, x) = i - 1
  BY <1>4, RankFacts
<1>6. \A x \in S : Cardinality({m \in S : Before(m, x)}) = RankIn(S, R, x)
  <2> SUFFICES ASSUME NEW x \in S
               PROVE  Cardinality({m \in S : Before(m, x)}) = RankIn(S, R, x)
    OBVIOUS
  <2>1. {m \in S : Before(m, x)} = {m \in S : <<m, x>> \in R}
    BY <1>2
  <2> QED
    BY <2>1 DEF RankIn
<1>7. ASSUME NEW i \in 1 .. n
      PROVE  Canonical(S, i) \in S /\ RankIn(S, R, Canonical(S, i)) = i - 1
  <2>1. PICK x \in S : RankIn(S, R, x) = i - 1
    BY <1>5
  <2>2. x \in S /\ Cardinality({m \in S : Before(m, x)}) = i - 1
    BY <1>6, <2>1
  <2>3. Canonical(S, i) \in S /\ Cardinality({m \in S : Before(m, Canonical(S, i))}) = i - 1
    BY <2>2 DEF Canonical
  <2> QED
    BY <1>6, <2>3
<1>8. ASSUME NEW x \in S PROVE \E i \in 1 .. n : Canonical(S, i) = x
  <2> DEFINE i == RankIn(S, R, x) + 1
  <2>1. i \in 1 .. n /\ i - 1 = RankIn(S, R, x)
    BY <1>1, <1>5
  <2> HIDE DEF i
  <2>2. Canonical(S, i) \in S /\ RankIn(S, R, Canonical(S, i)) = RankIn(S, R, x)
    BY <1>7, <2>1
  <2>3. Canonical(S, i) = x
    BY <1>5, <2>2
  <2> QED
    BY <2>1, <2>3
<1>9. ASSUME NEW i \in 1 .. n, NEW j \in 1 .. n, i <= j
      PROVE  Canonical(S, i).at <= Canonical(S, j).at
  <2> DEFINE x == Canonical(S, i)
             y == Canonical(S, j)
  <2>1. x \in S /\ y \in S /\ RankIn(S, R, x) = i - 1 /\ RankIn(S, R, y) = j - 1
    BY <1>7
  <2> HIDE DEF x, y
  <2>2. x.at \in Int /\ y.at \in Int
    BY <1>3, <2>1 DEF Items
  <2>3. CASE i = j
    <3>1. x = y
      BY <1>5, <2>1, <2>3
    <3> QED
      BY <2>2, <3>1 DEF x, y
  <2>4. CASE i # j
    <3>1. i - 1 < j - 1
      BY <1>1, <1>9, <2>4
    <3>2. Before(x, y)
      BY <1>2, <1>5, <2>1, <3>1
    <3>3. x.at <= y.at
      BY <2>2, <3>2 DEF Before
    <3> QED
      BY <3>3 DEF x, y
  <2> QED
    BY <2>3, <2>4
<1>10. ASSUME NEW i \in 1 .. n, NEW j \in 1 .. n, Canonical(S, i) = Canonical(S, j)
       PROVE  i = j
  <2>1. i - 1 = j - 1
    BY <1>7, <1>10
  <2> QED
    BY <1>1, <2>1
<1> QED
  BY <1>1, <1>7, <1>8, <1>9, <1>10

\* What the loop of deduplicate has after each item.
Merging(S, after, k) ==
  after = [n \in 0 .. k |-> IF n = 0 THEN << >> ELSE Grouped(after[n - 1], Canonical(S, n))]

LEMMA MergingExists ==
  ASSUME NEW S, NEW k \in Nat
  PROVE  \E after : Merging(S, after, k)
<1> DEFINE K == {n \in 0 .. k : ~\E after : Merging(S, after, n)}
<1> SUFFICES ASSUME K # {} PROVE FALSE
  BY DEF K
<1>1. PICK n \in K : \A m \in K : n <= m
  <2>1. 0 \in Int /\ k \in Int
    OBVIOUS
  <2>2. K \in SUBSET (0 .. k) /\ IsFiniteSet(0 .. k)
    BY <2>1, FS_Interval
  <2>3. K \subseteq Int
    OBVIOUS
  <2> HIDE DEF K
  <2>4. IsFiniteSet(K)
    BY <2>2, FS_Subset
  <2> QED
    BY <2>3, <2>4, FiniteLeast
<1>2. n # 0
  <2>1. Merging(S, [m \in 0 .. 0 |-> << >>], 0)
    BY DEF Merging
  <2> QED
    BY <2>1
<1>3. PICK before : Merging(S, before, n - 1)
  <2>1. n - 1 \in 0 .. k /\ ~(n <= n - 1)
    BY <1>2
  <2> QED
    BY <1>1, <2>1
<1> DEFINE after == [m \in 0 .. n |-> IF m = n THEN Grouped(before[n - 1], Canonical(S, n))
                                              ELSE before[m]]
<1>4. ASSUME NEW m \in 0 .. n
      PROVE  after[m] = IF m = 0 THEN << >> ELSE Grouped(after[m - 1], Canonical(S, m))
  <2>1. CASE m = n
    <3>1. n - 1 \in 0 .. n /\ n - 1 # n
      BY <1>2
    <3>2. after[n - 1] = before[n - 1]
      BY <3>1
    <3>3. after[n] = Grouped(before[n - 1], Canonical(S, n))
      OBVIOUS
    <3> QED
      BY <1>2, <2>1, <3>2, <3>3
  <2>2. CASE m # n
    <3>1. m \in 0 .. n - 1
      BY <2>2
    <3>2. before[m] = IF m = 0 THEN << >> ELSE Grouped(before[m - 1], Canonical(S, m))
      BY <1>3, <3>1 DEF Merging
    <3>3. m # 0 => after[m - 1] = before[m - 1]
      BY <3>1
    <3> QED
      BY <2>2, <3>2, <3>3
  <2> QED
    BY <2>1, <2>2
<1>5. Merging(S, after, n)
  <2>1. after = [m \in 0 .. n |-> after[m]]
    OBVIOUS
  <2> HIDE DEF after
  <2> QED
    BY <1>4, <2>1 DEF Merging
<1> QED
  BY <1>5

\* A list of groups tells an item if one of them is of a story similar to its
\* own and no later.
Tells(groups, item) ==
  \E j \in 1 .. Len(groups) :
    /\ <<groups[j].story, item.story>> \in Similar
    /\ groups[j].at <= item.at

Groups == [channel : ChannelSet, id : Nat \ {0}, at : Nat, story : Stories,
           others : SUBSET ChannelSet]

\* One more item, no earlier than any group, leaves everything told and is told.
LEMMA GroupedTells ==
  ASSUME NEW groups \in Seq(Groups), NEW item \in Items,
         \A j \in 1 .. Len(groups) : groups[j].at <= item.at
  PROVE  LET next == Grouped(groups, item) IN
         /\ next \in Seq(Groups)
         /\ \A j \in 1 .. Len(next) : next[j].at <= item.at
         /\ \A x \in Items : Tells(groups, x) => Tells(next, x)
         /\ Tells(next, item)
<1> DEFINE next == Grouped(groups, item)
           n    == Len(groups)
           fits == {i \in 1 .. n : <<groups[i].story, item.story>> \in Similar}
           new  == [channel |-> item.channel, id |-> item.id, at |-> item.at,
                    story |-> item.story, others |-> {}]
<1>1. n \in Nat /\ \A j \in 1 .. n : groups[j] \in Groups
  OBVIOUS
<1>2. item.channel \in ChannelSet /\ item.id \in Nat \ {0} /\ item.at \in Nat
      /\ item.story \in Stories
  BY DEF Items
<1>3. CASE fits = {}
  <2>1. next = Append(groups, new)
    BY <1>3 DEF Grouped
  <2>2. new \in Groups /\ new.story = item.story /\ new.at = item.at
    BY <1>2 DEF Groups
  <2> HIDE DEF new
  <2>3. /\ next \in Seq(Groups) /\ Len(next) = n + 1 /\ next[n + 1] = new
        /\ \A j \in 1 .. n : next[j] = groups[j]
    BY <2>1, <2>2
  <2> HIDE DEF next, n
  <2>4. n + 1 \in 1 .. Len(next) /\ \A j \in 1 .. Len(next) : j \in 1 .. n \/ j = n + 1
    BY <1>1, <2>3
  <2>5. <<item.story, item.story>> \in Similar
    BY <1>2, NewsAssumption
  <2>6. item.at <= item.at
    BY <1>2
  <2>7. Tells(next, item)
    BY <2>2, <2>3, <2>4, <2>5, <2>6 DEF Tells
  <2>8. \A j \in 1 .. Len(next) : next[j].at <= item.at
    <3> SUFFICES ASSUME NEW j \in 1 .. Len(next) PROVE next[j].at <= item.at
      OBVIOUS
    <3>1. CASE j \in 1 .. n
      BY <2>3, <3>1 DEF n
    <3>2. CASE j = n + 1
      BY <2>2, <2>3, <2>6, <3>2
    <3> QED
      BY <2>4, <3>1, <3>2
  <2>9. ASSUME NEW x \in Items, Tells(groups, x) PROVE Tells(next, x)
    <3>1. PICK j \in 1 .. n : /\ <<groups[j].story, x.story>> \in Similar
                              /\ groups[j].at <= x.at
      BY <2>9 DEF Tells, n
    <3>2. j \in 1 .. Len(next) /\ next[j] = groups[j]
      BY <1>1, <2>3
    <3> QED
      BY <3>1, <3>2 DEF Tells
  <2> QED
    BY <2>3, <2>7, <2>8, <2>9 DEF next
<1>4. CASE fits # {}
  <2> DEFINE k     == Min(fits)
             joins == item.channel
  <2>1. k \in fits
    <3>1. 1 \in Int /\ n \in Int
      BY <1>1
    <3>2. IsFiniteSet(1 .. n) /\ fits \in SUBSET (1 .. n)
      BY <3>1, FS_Interval
    <3>3. fits \subseteq Int
      BY <1>1
    <3> HIDE DEF fits
    <3>4. IsFiniteSet(fits)
      BY <3>2, FS_Subset
    <3> QED
      BY <1>4, <3>3, <3>4, MinIs
  <2>2. k \in 1 .. n /\ <<groups[k].story, item.story>> \in Similar
    BY <2>1
  <2>3. next = [groups EXCEPT ![k].others = @ \cup ({item.channel} \ {groups[k].channel})]
    BY <1>4 DEF Grouped
  <2> HIDE DEF k, fits
  <2> DEFINE joined == [groups[k] EXCEPT !.others = @ \cup ({item.channel} \ {groups[k].channel})]
  <2>4. next = [groups EXCEPT ![k] = joined]
    BY <2>3
  <2>5. joined \in Groups /\ joined.story = groups[k].story /\ joined.at = groups[k].at
    <3>1. groups[k] \in Groups
      BY <1>1, <2>2
    <3> QED
      BY <1>2, <3>1 DEF Groups
  <2> HIDE DEF joined
  <2>6. /\ next \in Seq(Groups) /\ Len(next) = n
        /\ \A j \in 1 .. n : next[j] = IF j = k THEN joined ELSE groups[j]
    BY <2>2, <2>4, <2>5
  <2> HIDE DEF next, n
  <2>7. \A j \in 1 .. n : next[j].story = groups[j].story /\ next[j].at = groups[j].at
    BY <2>5, <2>6
  <2>8. \A j \in 1 .. Len(next) : next[j].at <= item.at
    BY <2>6, <2>7 DEF n
  <2>9. \A x \in Items : Tells(groups, x) => Tells(next, x)
    BY <2>6, <2>7 DEF Tells, n
  <2>10. Tells(next, item)
    <3>1. groups[k].at <= item.at
      BY <2>2 DEF n
    <3> QED
      BY <2>2, <2>6, <2>7, <3>1 DEF Tells
  <2> QED
    BY <2>6, <2>8, <2>9, <2>10 DEF next
<1> QED
  BY <1>3, <1>4

\* Two items, or groups, of the same message.
Same(x, y) == x.channel = y.channel /\ x.id = y.id
Apart(groups) == \A j, k \in 1 .. Len(groups) : Same(groups[j], groups[k]) => j = k

\* An item of another message than those groups begin with leaves them so.
LEMMA GroupedApart ==
  ASSUME NEW groups \in Seq(Groups), NEW item \in Items, Apart(groups),
         \A j \in 1 .. Len(groups) : ~Same(groups[j], item)
  PROVE  LET next == Grouped(groups, item) IN
         /\ Apart(next)
         /\ \A j \in 1 .. Len(next) :
              \/ Same(next[j], item)
              \/ \E k \in 1 .. Len(groups) : Same(next[j], groups[k])
<1> DEFINE next == Grouped(groups, item)
           n    == Len(groups)
           fits == {i \in 1 .. n : <<groups[i].story, item.story>> \in Similar}
           new  == [channel |-> item.channel, id |-> item.id, at |-> item.at,
                    story |-> item.story, others |-> {}]
<1>1. n \in Nat /\ \A j \in 1 .. n : groups[j] \in Groups
  OBVIOUS
<1>2. item.channel \in ChannelSet /\ item.id \in Nat \ {0} /\ item.at \in Nat
      /\ item.story \in Stories
  BY DEF Items
<1>3. CASE fits = {}
  <2>1. next = Append(groups, new)
    BY <1>3 DEF Grouped
  <2>2. new \in Groups /\ new.channel = item.channel /\ new.id = item.id
    BY <1>2 DEF Groups
  <2> HIDE DEF new
  <2>3. /\ Len(next) = n + 1 /\ next[n + 1] = new
        /\ \A j \in 1 .. n : next[j] = groups[j]
    BY <2>1, <2>2
  <2> HIDE DEF next
  <2>4. \A j \in 1 .. n + 1 : j \in 1 .. n \/ j = n + 1
    BY <1>1
  <2>5. \A j \in 1 .. n : ~Same(groups[j], new) /\ ~Same(new, groups[j])
    BY <2>2 DEF Same
  <2>6. \A j, k \in 1 .. n : Same(groups[j], groups[k]) => j = k
    BY DEF Apart
  <2> HIDE DEF n
  <2>7. Apart(next)
    BY <2>3, <2>4, <2>5, <2>6 DEF Apart
  <2>8. \A j \in 1 .. n + 1 : \/ Same(next[j], item)
                              \/ \E k \in 1 .. n : Same(next[j], groups[k])
    BY <2>2, <2>3, <2>4 DEF Same
  <2> QED
    BY <2>3, <2>7, <2>8 DEF next, n
<1>4. CASE fits # {}
  <2> DEFINE k == Min(fits)
  <2>1. next = [groups EXCEPT ![k].others = @ \cup ({item.channel} \ {groups[k].channel})]
    BY <1>4 DEF Grouped
  <2> HIDE DEF k, fits
  <2>2. /\ DOMAIN next = DOMAIN groups
        /\ \A j \in 1 .. n : next[j].channel = groups[j].channel /\ next[j].id = groups[j].id
    <3> SUFFICES ASSUME NEW j \in 1 .. n
                 PROVE  /\ DOMAIN next = DOMAIN groups
                        /\ next[j].channel = groups[j].channel /\ next[j].id = groups[j].id
      BY <2>1
    <3>1. groups[j] \in Groups
      BY <1>1
    <3> QED
      BY <1>2, <2>1, <3>1 DEF Groups
  <2>3. Len(next) = n
    <3>1. DOMAIN next = 1 .. n
      BY <2>2
    <3> HIDE DEF next
    <3> QED
      BY <1>1, <3>1
  <2> HIDE DEF next
  <2>4. Apart(next)
    BY <2>2, <2>3 DEF Apart, Same
  <2>5. \A j \in 1 .. n : Same(next[j], groups[j])
    BY <2>2 DEF Same
  <2> QED
    BY <2>3, <2>4, <2>5 DEF next
<1> QED
  BY <1>3, <1>4

\* Whatever is merged is told by one of the groups; they are of different messages.
LEMMA DeduplicateFacts ==
  ASSUME NEW S, S \subseteq Items, IsFiniteSet(S), OneMessage(S)
  PROVE  LET merged == Range(deduplicate(S)) IN
         /\ merged \subseteq Groups /\ IsFiniteSet(merged) /\ OneMessage(merged)
         /\ \A item \in S :
              \E g \in merged : <<g.story, item.story>> \in Similar /\ g.at <= item.at
<1> DEFINE n     == Cardinality(S)
           after == CHOOSE f : Merging(S, f, n)
<1>1. deduplicate(S) = after[n]
  BY DEF deduplicate, Merging
<1>2. /\ n \in Nat
      /\ \A i \in 1 .. n : Canonical(S, i) \in S
      /\ \A x \in S : \E i \in 1 .. n : Canonical(S, i) = x
      /\ \A i, j \in 1 .. n : i <= j => Canonical(S, i).at <= Canonical(S, j).at
      /\ \A i, j \in 1 .. n : Canonical(S, i) = Canonical(S, j) => i = j
  BY CanonicalFacts
<1>3. Merging(S, after, n)
  BY <1>2, MergingExists
<1> HIDE DEF after, n
<1>4. \A m \in 0 .. n :
        after[m] = IF m = 0 THEN << >> ELSE Grouped(after[m - 1], Canonical(S, m))
  BY <1>3 DEF Merging
<1> DEFINE Good(m) == /\ after[m] \in Seq(Groups)
                      /\ \A i \in m + 1 .. n : \A j \in 1 .. Len(after[m]) :
                           after[m][j].at <= Canonical(S, i).at
                      /\ \A i \in 1 .. m : Tells(after[m], Canonical(S, i))
                      /\ Apart(after[m])
                      /\ \A j \in 1 .. Len(after[m]) : \E i \in 1 .. m :
                           Same(after[m][j], Canonical(S, i))
           Bad     == {m \in 0 .. n : ~Good(m)}
<1>5. Bad = {}
  <2> SUFFICES ASSUME Bad # {} PROVE FALSE
    OBVIOUS
  <2>1. PICK m \in Bad : \A l \in Bad : m <= l
    <3>1. 0 \in Int /\ n \in Int
      BY <1>2
    <3>2. Bad \in SUBSET (0 .. n) /\ IsFiniteSet(0 .. n)
      BY <3>1, FS_Interval
    <3> HIDE DEF Bad
    <3>3. Bad \subseteq Int
      BY <3>1, <3>2
    <3>4. IsFiniteSet(Bad)
      BY <3>2, FS_Subset
    <3> QED
      BY <3>3, <3>4, FiniteLeast
  <2>2. m \in 0 .. n /\ ~Good(m)
    BY <2>1
  <2>3. CASE m = 0
    <3>1. after[0] = << >>
      <4> HIDE DEF Good, Bad
      <4>1. 0 \in 0 .. n
        BY <1>2
      <4>2. after[0] = IF 0 = 0 THEN << >> ELSE Grouped(after[0 - 1], Canonical(S, 0))
        BY <1>4, <4>1
      <4> QED
        BY <4>2
    <3>2. << >> \in Seq(Groups) /\ Len(<< >>) = 0
      OBVIOUS
    <3>3. Good(0)
      BY <3>1, <3>2 DEF Apart
    <3> QED
      BY <2>2, <2>3, <3>3
  <2>4. CASE m # 0
    <3>1. m - 1 \in 0 .. n /\ m \in 1 .. n /\ m - 1 \in Nat /\ ~(m <= m - 1)
      BY <1>2, <2>2, <2>4
    <3>2. Good(m - 1)
      <4>1. m - 1 \notin Bad
        BY <2>1, <3>1
      <4> HIDE DEF Good
      <4> QED
        BY <3>1, <4>1
    <3> DEFINE groups == after[m - 1]
               x      == Canonical(S, m)
    <3>3. x \in S /\ x \in Items
      BY <1>2, <3>1
    <3>4. after[m] = Grouped(groups, x)
      BY <1>4, <2>2, <2>4
    <3>5. m \in (m - 1) + 1 .. n
      BY <1>2, <3>1
    <3>6. groups \in Seq(Groups) /\ \A j \in 1 .. Len(groups) : groups[j].at <= x.at
      BY <3>2, <3>5
    <3>7. \A i \in 1 .. m - 1 : Tells(groups, Canonical(S, i))
      BY <3>2
    <3>12. /\ Apart(groups)
           /\ \A j \in 1 .. Len(groups) : \E i \in 1 .. m - 1 : Same(groups[j], Canonical(S, i))
      BY <3>2
    <3>13. ASSUME NEW i \in 1 .. m - 1 PROVE i \in 1 .. n /\ ~Same(Canonical(S, i), x)
      <4> HIDE DEF Good, Bad
      <4>1. i \in 1 .. n /\ i # m
        BY <1>2, <3>1
      <4>2. Canonical(S, i) \in S /\ Canonical(S, i) # x
        BY <1>2, <3>1, <4>1
      <4> QED
        BY <3>3, <4>1, <4>2 DEF OneMessage, Same
    <3> HIDE DEF groups, x
    <3>14. \A j \in 1 .. Len(groups) : ~Same(groups[j], x)
      BY <3>12, <3>13 DEF Same
    <3>8. /\ after[m] \in Seq(Groups)
          /\ \A j \in 1 .. Len(after[m]) : after[m][j].at <= x.at
          /\ \A y \in Items : Tells(groups, y) => Tells(after[m], y)
          /\ Tells(after[m], x)
      BY <3>3, <3>4, <3>6, GroupedTells
    <3>9. ASSUME NEW i \in m + 1 .. n, NEW j \in 1 .. Len(after[m])
          PROVE  after[m][j].at <= Canonical(S, i).at
      <4> HIDE DEF Good, Bad
      <4>1. i \in 1 .. n /\ m <= i
        BY <1>2, <3>1
      <4>2. x.at <= Canonical(S, i).at
        BY <1>2, <3>1, <4>1 DEF x
      <4>3. x.at \in Int /\ Canonical(S, i).at \in Int
        BY <1>2, <3>3, <4>1 DEF Items
      <4>4. after[m][j] \in Groups
        BY <3>8
      <4>5. after[m][j].at <= x.at
        BY <3>8
      <4>6. after[m][j].at \in Int
        BY <4>4 DEF Groups
      <4> QED
        BY <4>2, <4>3, <4>5, <4>6
    <3>10. ASSUME NEW i \in 1 .. m PROVE Tells(after[m], Canonical(S, i))
      <4>1. CASE i = m
        BY <3>8, <4>1 DEF x
      <4>2. CASE i # m
        <5>1. i \in 1 .. m - 1 /\ i \in 1 .. n
          BY <1>2, <3>1, <4>2
        <5>2. Canonical(S, i) \in Items
          BY <1>2, <5>1
        <5> QED
          BY <3>7, <3>8, <5>1, <5>2
      <4> QED
        BY <4>1, <4>2
    <3>15. /\ Apart(after[m])
           /\ \A j \in 1 .. Len(after[m]) :
                \/ Same(after[m][j], x)
                \/ \E k \in 1 .. Len(groups) : Same(after[m][j], groups[k])
      BY <3>3, <3>4, <3>6, <3>12, <3>14, GroupedApart
    <3>16. ASSUME NEW j \in 1 .. Len(after[m])
           PROVE  \E i \in 1 .. m : Same(after[m][j], Canonical(S, i))
      <4> HIDE DEF Good, Bad
      <4>1. CASE Same(after[m][j], x)
        BY <3>1, <4>1 DEF x
      <4>2. ASSUME NEW k \in 1 .. Len(groups), Same(after[m][j], groups[k])
            PROVE  \E i \in 1 .. m : Same(after[m][j], Canonical(S, i))
        <5>1. PICK i \in 1 .. m - 1 : Same(groups[k], Canonical(S, i))
          BY <3>12
        <5>2. i \in 1 .. m
          BY <3>1
        <5> QED
          BY <4>2, <5>1, <5>2 DEF Same
      <4> QED
        BY <3>15, <4>1, <4>2
    <3>11. Good(m)
      BY <3>8, <3>9, <3>10, <3>15, <3>16
    <3> QED
      BY <2>2, <3>11
  <2> QED
    BY <2>3, <2>4
<1>6. Good(n)
  <2>1. n \in 0 .. n
    BY <1>2
  <2> HIDE DEF Good
  <2> QED
    BY <1>5, <2>1
<1> DEFINE groups == after[n]
<1>7. groups \in Seq(Groups) /\ Apart(groups) /\ \A i \in 1 .. n : Tells(groups, Canonical(S, i))
  BY <1>6
<1> HIDE DEF groups, Good, Bad
<1>8. /\ Len(groups) \in Nat
      /\ Range(groups) = {groups[j] : j \in 1 .. Len(groups)}
      /\ DOMAIN groups = 1 .. Len(groups) /\ groups = [j \in 1 .. Len(groups) |-> groups[j]]
      /\ \A j \in 1 .. Len(groups) : groups[j] \in Groups
  BY <1>7 DEF Range
<1>9. IsFiniteSet(Range(groups))
  <2>1. 1 \in Int /\ Len(groups) \in Int
    BY <1>8
  <2>2. IsFiniteSet(1 .. Len(groups))
    BY <2>1, FS_Interval
  <2> QED
    BY <1>8, <2>2, FiniteValues
<1>10. OneMessage(Range(groups))
  BY <1>7, <1>8 DEF OneMessage, Apart, Same
<1>11. ASSUME NEW item \in S
       PROVE  \E g \in Range(groups) : <<g.story, item.story>> \in Similar /\ g.at <= item.at
  <2>1. PICK i \in 1 .. n : Canonical(S, i) = item
    BY <1>2
  <2>2. Tells(groups, item)
    BY <1>7, <2>1
  <2> QED
    BY <1>8, <2>2 DEF Tells
<1>12. Range(groups) \subseteq Groups
  BY <1>8
<1> QED
  BY <1>1, <1>9, <1>10, <1>11, <1>12 DEF groups

\* The ranking of groups of different messages.
LEMMA AheadOrders ==
  /\ \A x \in Groups : ~Ahead(x, x)
  /\ \A x, y \in Groups : Ahead(x, y) \/ Ahead(y, x) \/ Same(x, y)
  /\ \A x, y, z \in Groups : Ahead(x, y) /\ Ahead(y, z) => Ahead(x, z)
<1>1. \A x \in Groups :
        /\ Score[x.story] \in Int /\ x.at \in Int /\ x.id \in Int
        /\ Cardinality(x.others) \in Int
        /\ ChannelIndex(x.channel) \in Int
        /\ Channels[ChannelIndex(x.channel)] = x.channel
  <2> SUFFICES ASSUME NEW x \in Groups
               PROVE  /\ Score[x.story] \in Int /\ x.at \in Int /\ x.id \in Int
                      /\ Cardinality(x.others) \in Int
                      /\ ChannelIndex(x.channel) \in Int
                      /\ Channels[ChannelIndex(x.channel)] = x.channel
    OBVIOUS
  <2>1. /\ x.at \in Int /\ x.id \in Int /\ x.channel \in ChannelSet
        /\ x.story \in Stories /\ x.others \in SUBSET ChannelSet
    BY DEF Groups
  <2>2. Score[x.story] \in Int
    BY <2>1, NewsAssumption
  <2>3. /\ ChannelIndex(x.channel) \in 1 .. Len(Channels)
        /\ Channels[ChannelIndex(x.channel)] = x.channel
    BY <2>1, IndexFacts
  <2>4. Len(Channels) \in Nat /\ DOMAIN Channels = 1 .. Len(Channels)
        /\ Channels = [i \in 1 .. Len(Channels) |-> Channels[i]]
    BY NewsAssumption
  <2>5. IsFiniteSet(ChannelSet)
    <3>1. 1 \in Int /\ Len(Channels) \in Int
      BY <2>4
    <3>2. IsFiniteSet(1 .. Len(Channels))
      BY <3>1, FS_Interval
    <3>3. IsFiniteSet({Channels[i] : i \in 1 .. Len(Channels)})
      BY <2>4, <3>2, FiniteValues
    <3> QED
      BY <3>3 DEF ChannelSet
  <2>6. Cardinality(x.others) \in Nat
    <3>1. IsFiniteSet(x.others)
      BY <2>1, <2>5, FS_Subset
    <3> QED
      BY <3>1, FS_CardinalityType
  <2> QED
    BY <2>1, <2>2, <2>3, <2>4, <2>6
<1>2. ASSUME NEW x \in Groups PROVE ~Ahead(x, x)
  BY <1>1 DEF Ahead
<1>3. ASSUME NEW x \in Groups, NEW y \in Groups, ~Ahead(x, y), ~Ahead(y, x)
      PROVE  Same(x, y)
  <2>1. Score[x.story] = Score[y.story]
    BY <1>1, <1>3 DEF Ahead
  <2>2. x.at = y.at
    BY <1>1, <1>3, <2>1 DEF Ahead
  <2>3. Cardinality(x.others) = Cardinality(y.others)
    BY <1>1, <1>3, <2>1, <2>2 DEF Ahead
  <2>4. ChannelIndex(x.channel) = ChannelIndex(y.channel)
    BY <1>1, <1>3, <2>1, <2>2, <2>3 DEF Ahead
  <2>5. x.channel = y.channel
    BY <1>1, <2>4
  <2> QED
    BY <1>1, <1>3, <2>1, <2>2, <2>3, <2>5 DEF Ahead, Same
<1>4. ASSUME NEW x \in Groups, NEW y \in Groups, NEW z \in Groups, Ahead(x, y), Ahead(y, z)
      PROVE  Ahead(x, z)
  <2>1. /\ Score[x.story] \in Int /\ Score[y.story] \in Int /\ Score[z.story] \in Int
        /\ x.at \in Int /\ y.at \in Int /\ z.at \in Int
        /\ x.id \in Int /\ y.id \in Int /\ z.id \in Int
        /\ Cardinality(x.others) \in Int /\ Cardinality(y.others) \in Int
        /\ Cardinality(z.others) \in Int
        /\ ChannelIndex(x.channel) \in Int /\ ChannelIndex(y.channel) \in Int
        /\ ChannelIndex(z.channel) \in Int
    BY <1>1
  <2> QED
    BY <1>4, <2>1 DEF Ahead
<1> QED
  BY <1>2, <1>3, <1>4

\* What the ceiling cuts ranks behind all it leaves, and these are as many as it
\* allows.
LEMMA BestFacts ==
  ASSUME NEW M, M \subseteq Groups, IsFiniteSet(M), OneMessage(M), NEW g \in M, g \notin Best(M)
  PROVE  Cardinality(Best(M)) = MaxItems /\ \A h \in Best(M) : Ahead(h, g)
<1> DEFINE R == {p \in M \X M : Ahead(p[1], p[2])}
           n == Cardinality(M)
           B == Best(M)
<1>1. n \in Nat /\ MaxItems \in Nat \ {0}
  BY FS_CardinalityType, NewsAssumption
<1>2. \A x, y \in M : <<x, y>> \in R <=> Ahead(x, y)
  OBVIOUS
<1> HIDE DEF R
<1>3. /\ \A x \in M : <<x, x>> \notin R
      /\ \A x, y \in M : x # y => <<x, y>> \in R \/ <<y, x>> \in R
      /\ \A x, y, z \in M : <<x, y>> \in R /\ <<y, z>> \in R => <<x, z>> \in R
  <2>1. \A x \in M : <<x, x>> \notin R
    BY <1>2, AheadOrders
  <2>2. \A x, y \in M : x # y => <<x, y>> \in R \/ <<y, x>> \in R
    BY <1>2, AheadOrders DEF OneMessage, Same
  <2>3. ASSUME NEW x \in M, NEW y \in M, NEW z \in M, <<x, y>> \in R, <<y, z>> \in R
        PROVE  <<x, z>> \in R
    <3>1. Ahead(x, y) /\ Ahead(y, z) /\ x \in Groups /\ y \in Groups /\ z \in Groups
      BY <1>2, <2>3
    <3>2. Ahead(x, z)
      BY <3>1, AheadOrders
    <3> QED
      BY <1>2, <3>2
  <2> QED
    BY <2>1, <2>2, <2>3
<1>4. /\ \A x \in M : RankIn(M, R, x) \in 0 .. n - 1
      /\ \A x, y \in M : <<x, y>> \in R <=> RankIn(M, R, x) < RankIn(M, R, y)
      /\ \A x, y \in M : RankIn(M, R, x) = RankIn(M, R, y) => x = y
      /\ \A i \in 1 .. n : \E x \in M : RankIn(M, R, x) = i - 1
  BY <1>3, RankFacts
<1>5. \A x \in M : x \in B <=> RankIn(M, R, x) < MaxItems
  <2> SUFFICES ASSUME NEW x \in M PROVE x \in B <=> RankIn(M, R, x) < MaxItems
    OBVIOUS
  <2>1. {h \in M : Ahead(h, x)} = {h \in M : <<h, x>> \in R}
    BY <1>2
  <2> QED
    BY <2>1 DEF RankIn, Best
<1>6. B \subseteq M
  BY DEF Best
<1> HIDE DEF B
<1>7. RankIn(M, R, g) \in Int /\ MaxItems <= RankIn(M, R, g) /\ MaxItems < n
  <2>1. RankIn(M, R, g) \in 0 .. n - 1 /\ ~(RankIn(M, R, g) < MaxItems)
    BY <1>4, <1>5 DEF B
  <2> QED
    BY <1>1, <2>1
<1>8. ASSUME NEW h \in B PROVE Ahead(h, g)
  <2>1. h \in M /\ RankIn(M, R, h) < MaxItems /\ RankIn(M, R, h) \in Int
    BY <1>1, <1>4, <1>5, <1>6
  <2>2. RankIn(M, R, h) < RankIn(M, R, g)
    BY <1>1, <1>7, <2>1
  <2> QED
    BY <1>2, <1>4, <2>1, <2>2
<1> DEFINE T == 0 .. MaxItems - 1
           f == [x \in B |-> RankIn(M, R, x)]
<1>9. IsFiniteSet(T) /\ Cardinality(T) = MaxItems
  <2>1. 0 \in Int /\ MaxItems - 1 \in Int /\ ~(0 > MaxItems - 1) /\ (MaxItems - 1) - 0 + 1 = MaxItems
    BY <1>1
  <2> QED
    BY <2>1, FS_Interval
<1>10. f \in [B -> T]
  <2> SUFFICES ASSUME NEW x \in B PROVE RankIn(M, R, x) \in T
    OBVIOUS
  <2>1. RankIn(M, R, x) \in 0 .. n - 1 /\ RankIn(M, R, x) < MaxItems
    BY <1>4, <1>5, <1>6
  <2> QED
    BY <1>1, <2>1
<1>11. \A x, y \in B : f[x] = f[y] => x = y
  BY <1>4, <1>6
<1>12. ASSUME NEW i \in T PROVE \E x \in B : f[x] = i
  <2>1. i + 1 \in 1 .. n /\ (i + 1) - 1 = i /\ i < MaxItems
    BY <1>1, <1>7
  <2>2. PICK x \in M : RankIn(M, R, x) = (i + 1) - 1
    BY <1>4, <2>1
  <2>3. x \in B
    BY <1>5, <2>1, <2>2
  <2> QED
    BY <2>1, <2>2, <2>3
<1> HIDE DEF f, T
<1>13. f \in Injection(B, T) /\ f \in Surjection(B, T)
  BY <1>10, <1>11, <1>12 DEF Injection, IsInjective, Surjection
<1>14. Cardinality(B) = MaxItems
  BY <1>9, <1>13, FS_Injection
<1> QED
  BY <1>8, <1>14 DEF B

-----------------------------------------------------------------------------
(* The invariant of a collection *)

ItemOf(c, m) == [channel |-> c, id |-> m.id, at |-> m.at, story |-> m.story]
Wanted(m) == m.at \in request.since .. RequestedAt

StopReasons ==
  {"CUTOFF_REACHED", "SOURCE_EXHAUSTED", "FETCH_FAILED", "PARSE_FAILED", "PAGE_CAP_REACHED",
   "GLOBAL_BUDGET_REACHED", "REPEATED_CURSOR", "EMPTY_PAGE"}
Walks == [on : BOOLEAN, before : Nat, pages : Nat, seen : SUBSET Nat, items : SUBSET Items]
ReportsMade ==
  {Report(stop, pages, items) : stop \in StopReasons, pages \in Nat, items \in SUBSET Items}

NewsType ==
  /\ feed \in [ChannelSet -> Seq(RawMessages)]
  /\ request.since \in Nat
  /\ walk \in Walks
  /\ reports \in Seq(ReportsMade)
  /\ gathered \subseteq Items

\* A channel publishes in order, since the request as before.
FeedInv ==
  \A c \in ChannelSet : /\ Chronological(feed[c])
                        /\ \A m \in Messages(c) : m.at <= RequestedAt + 1

\* An item is a message of its channel.
Sourced(items) ==
  IsFiniteSet(items) /\ \A x \in items : \E m \in Messages(x.channel) : x = ItemOf(x.channel, m)
SourceInv == Sourced(gathered) /\ Sourced(walk.items)

\* A walk has everything of the window from its cursor on; when no walk is on,
\* every channel was walked, or none.
Has(c, cursor, items) ==
  \A m \in Messages(c) : Wanted(m) /\ m.id >= cursor => ItemOf(c, m) \in items
WalkInv ==
  IF walk.on
  THEN /\ Len(reports) < Len(Channels) /\ request.since > Undated
       /\ walk.before # 0 => Has(Channel, walk.before, walk.items)
  ELSE reports = << >> \/ Len(reports) = Len(Channels)

\* A channel reported as covered gave everything of the window.
ReportInv ==
  \A i \in 1 .. Len(reports) : reports[i].covered => Has(Channels[i], 0, gathered)

NewsInv == NewsType /\ FeedInv /\ SourceInv /\ WalkInv /\ ReportInv

-----------------------------------------------------------------------------
(* A channel and its pages *)

LEMMA ChannelFacts ==
  /\ Len(Channels) \in Nat /\ Len(Channels) > 0
  /\ \A i \in 1 .. Len(Channels) : Channels[i] \in ChannelSet
  /\ PageSize \in Nat \ {0} /\ RequestedAt \in Nat
  /\ Sinces \subseteq Nat \ {0}
BY NewsAssumption DEF ChannelSet, Undated

LEMMA MessageFacts ==
  ASSUME NewsType, FeedInv, NEW c \in ChannelSet
  PROVE  /\ IsFiniteSet(Messages(c)) /\ Messages(c) \subseteq RawMessages
         /\ \A m \in Messages(c) : \E i \in 1 .. Len(feed[c]) : m = feed[c][i]
         /\ \A m, n \in Messages(c) : m.id = n.id => m = n
         /\ \A m, n \in Messages(c) :
              m.id < n.id /\ m.at # Undated /\ n.at # Undated => m.at <= n.at
<1> DEFINE s == feed[c]
<1>1. s \in Seq(RawMessages)
  BY DEF NewsType
<1>2. Chronological(s)
  BY DEF FeedInv
<1>3. Messages(c) = {s[i] : i \in 1 .. Len(s)}
  <2>1. DOMAIN s = 1 .. Len(s)
    BY <1>1
  <2> HIDE DEF s
  <2>2. Range(s) = {s[i] : i \in 1 .. Len(s)}
    BY <2>1 DEF Range
  <2> QED
    BY <2>2 DEF Messages, s
<1> HIDE DEF s
<1>4. /\ Len(s) \in Nat
      /\ \A i \in 1 .. Len(s) : s[i] \in RawMessages /\ s[i].id \in Nat \ {0} /\ s[i].at \in Nat
  <2>1. Len(s) \in Nat /\ \A i \in 1 .. Len(s) : s[i] \in RawMessages
    BY <1>1
  <2>2. \A m \in RawMessages : m.id \in Nat \ {0} /\ m.at \in Nat
    BY DEF RawMessages
  <2> QED
    BY <2>1, <2>2
<1>5. IsFiniteSet(Messages(c))
  <2>1. IsFiniteSet(1 .. Len(s))
    BY <1>4, FS_Interval
  <2>2. DOMAIN s = 1 .. Len(s) /\ s = [i \in 1 .. Len(s) |-> s[i]]
    BY <1>1
  <2> QED
    BY <1>3, <2>1, <2>2, FiniteValues
<1>6. ASSUME NEW i \in 1 .. Len(s), NEW j \in 1 .. Len(s), s[i].id = s[j].id PROVE s[i] = s[j]
  <2>1. ~(i < j) /\ ~(j < i)
    BY <1>2, <1>4, <1>6 DEF Chronological
  <2>2. i = j
    BY <1>4, <2>1
  <2> QED
    BY <2>2
<1>7. ASSUME NEW i \in 1 .. Len(s), NEW j \in 1 .. Len(s), s[i].id < s[j].id,
             s[i].at # Undated, s[j].at # Undated
      PROVE  s[i].at <= s[j].at
  <2>1. i # j
    BY <1>4, <1>7
  <2>2. ~(j < i)
    BY <1>2, <1>4, <1>7 DEF Chronological
  <2>3. i < j
    BY <1>4, <2>1, <2>2
  <2> QED
    BY <1>2, <1>7, <2>3 DEF Chronological
<1> QED
  BY <1>3, <1>4, <1>5, <1>6, <1>7 DEF s

LEMMA IdsFinite ==
  ASSUME NEW P, IsFiniteSet(P)
  PROVE  IsFiniteSet(Ids(P))
<1> DEFINE f == [m \in P |-> m.id]
<1>1. DOMAIN f = P /\ f = [m \in P |-> f[m]] /\ Ids(P) = {f[m] : m \in P}
  BY DEF Ids
<1> HIDE DEF f
<1> QED
  BY <1>1, FiniteValues

\* The preview has nothing older only if there is nothing.
LEMMA EmptyPageFacts ==
  ASSUME NewsType, FeedInv, NEW c \in ChannelSet, NEW before \in Nat, Page(c, before) = {}
  PROVE  \A m \in Messages(c) : before # 0 /\ m.id >= before
<1> DEFINE older == {m \in Messages(c) : before = 0 \/ m.id < before}
<1>1. /\ IsFiniteSet(Messages(c)) /\ Messages(c) \subseteq RawMessages
      /\ \A m \in Messages(c) : m.id \in Nat
  BY MessageFacts DEF RawMessages
<1>2. older = {}
  <2> SUFFICES ASSUME older # {} PROVE FALSE
    OBVIOUS
  <2>1. IsFiniteSet(older)
    <3>1. older \in SUBSET Messages(c)
      OBVIOUS
    <3> QED
      BY <1>1, <3>1, FS_Subset
  <2>2. Ids(older) # {} /\ Ids(older) \subseteq Int
    BY <1>1 DEF Ids
  <2>3. \A m \in older : m.id \in Int /\ m.id \in Ids(older)
    BY <1>1 DEF Ids
  <2>4. Page(c, before) = {m \in older : Cardinality({n \in older : n.id > m.id}) < PageSize}
    BY DEF Page
  <2> HIDE DEF older
  <2>5. PICK x \in Ids(older) : \A y \in Ids(older) : x >= y
    BY <2>1, <2>2, IdsFinite, FiniteGreatest
  <2>6. PICK m \in older : x = m.id
    BY DEF Ids
  <2>7. {n \in older : n.id > m.id} = {}
    BY <2>3, <2>5, <2>6
  <2>8. Cardinality({n \in older : n.id > m.id}) = 0
    BY <2>7, FS_EmptySet
  <2>9. 0 < PageSize
    BY ChannelFacts
  <2>10. m \in {k \in older : Cardinality({n \in older : n.id > k.id}) < PageSize}
    BY <2>8, <2>9
  <2> QED
    BY <2>4, <2>10
<1> QED
  BY <1>1, <1>2

\* What a page leaves out is older than it, or at the cursor and after.
LEMMA PageFacts ==
  ASSUME NewsType, FeedInv, NEW c \in ChannelSet, NEW before \in Nat,
         NEW page \in Pages(c, before), page # {}
  PROVE  /\ page \subseteq Messages(c) /\ IsFiniteSet(page)
         /\ Min(Ids(page)) \in Nat \ {0}
         /\ \A m \in page : Min(Ids(page)) <= m.id
         /\ \A m \in Messages(c) :
              m.id >= Min(Ids(page)) => m \in page \/ (before # 0 /\ m.id >= before)
<1> DEFINE older == {m \in Messages(c) : before = 0 \/ m.id < before}
<1>1. /\ IsFiniteSet(Messages(c)) /\ Messages(c) \subseteq RawMessages
      /\ \A m \in Messages(c) : m.id \in Nat \ {0}
  BY MessageFacts DEF RawMessages
<1>2. Page(c, before) = {m \in older : Cardinality({n \in older : n.id > m.id}) < PageSize}
  BY DEF Page
<1>3. \/ page = Page(c, before)
      \/ Page(c, before) = {} /\ page = {m \in Messages(c) : m.id < before + PageSize}
  BY DEF Pages
<1>4. page \subseteq Messages(c) /\ IsFiniteSet(page)
  <2>1. page \in SUBSET Messages(c)
    BY <1>2, <1>3
  <2> QED
    BY <1>1, <2>1, FS_Subset
<1>5. /\ Min(Ids(page)) \in Ids(page)
      /\ \A x \in Ids(page) : Min(Ids(page)) <= x
  <2>1. Ids(page) \subseteq Int /\ Ids(page) # {}
    BY <1>1, <1>4 DEF Ids
  <2>2. IsFiniteSet(Ids(page))
    BY <1>4, IdsFinite
  <2> QED
    BY <2>1, <2>2, MinIs
<1>6. PICK first \in page : Min(Ids(page)) = first.id
  BY <1>5 DEF Ids
<1>7. \A m \in page : Min(Ids(page)) <= m.id
  BY <1>5 DEF Ids
<1>8. ASSUME NEW m \in Messages(c), m.id >= first.id, ~(before # 0 /\ m.id >= before)
      PROVE  m \in page
  <2>1. m \in older
    BY <1>1, <1>8
  <2>2. Page(c, before) # {}
    BY <1>8, EmptyPageFacts
  <2>3. page = Page(c, before)
    BY <1>3, <2>2
  <2>4. first \in older /\ Cardinality({n \in older : n.id > first.id}) < PageSize
    BY <1>2, <2>3
  <2>5. \A n \in older : n.id \in Int
    BY <1>1
  <2>6. first.id \in Int /\ m.id \in Int
    BY <1>1, <1>4
  <2>7. older \in SUBSET Messages(c)
    OBVIOUS
  <2> HIDE DEF older
  <2>8. IsFiniteSet(older)
    BY <1>1, <2>7, FS_Subset
  <2> DEFINE A == {n \in older : n.id > m.id}
             B == {n \in older : n.id > first.id}
  <2>9. A \in SUBSET B /\ B \in SUBSET older
    BY <1>8, <2>5, <2>6
  <2> HIDE DEF A, B
  <2>10. IsFiniteSet(B)
    BY <2>8, <2>9, FS_Subset
  <2>11. IsFiniteSet(A) /\ Cardinality(A) <= Cardinality(B)
    BY <2>9, <2>10, FS_Subset
  <2>12. Cardinality(A) \in Int /\ Cardinality(B) \in Int /\ PageSize \in Int
    BY <2>10, <2>11, FS_CardinalityType, ChannelFacts
  <2>13. Cardinality(A) < PageSize
    BY <2>4, <2>11, <2>12 DEF B
  <2> QED
    BY <1>2, <2>1, <2>3, <2>13 DEF A
<1>9. Min(Ids(page)) \in Nat \ {0}
  BY <1>1, <1>4, <1>6
<1> QED
  BY <1>4, <1>6, <1>7, <1>8, <1>9

-----------------------------------------------------------------------------
(* The steps of a collection *)

LEMMA NoWalkFacts == NoWalk \in Walks /\ Beginning \in Walks
                     /\ ~NoWalk.on /\ Beginning.on /\ Beginning.before = 0
                     /\ NoWalk.items = {} /\ Beginning.items = {}
BY DEF NoWalk, Beginning, Walks

LEMMA NothingSourced == Sourced({})
<1>1. IsFiniteSet({})
  BY FS_EmptySet
<1> QED
  BY <1>1 DEF Sourced

LEMMA BothSourced ==
  ASSUME NEW A, NEW B, Sourced(A), Sourced(B)
  PROVE  Sourced(A \cup B)
<1>1. IsFiniteSet(A \cup B)
  BY FS_Union DEF Sourced
<1> QED
  BY <1>1 DEF Sourced

LEMMA NewsStart == NewsInit => NewsInv
<1> SUFFICES ASSUME NewsInit PROVE NewsInv
  OBVIOUS
<1> USE DEF NewsInit
<1>1. /\ feed \in [ChannelSet -> Seq(RawMessages)]
      /\ \A c \in ChannelSet : Chronological(feed[c])
                              /\ \A m \in Range(feed[c]) : m.at <= RequestedAt
  BY NewsAssumption
<1>2. NewsType
  <2>1. request.since \in Nat
    BY ChannelFacts DEF NoRequest
  <2>2. reports \in Seq(ReportsMade)
    OBVIOUS
  <2> QED
    BY <1>1, <2>1, <2>2, NoWalkFacts DEF NewsType
<1>3. FeedInv
  <2> SUFFICES ASSUME NEW c \in ChannelSet, NEW m \in Messages(c) PROVE m.at <= RequestedAt + 1
    BY <1>1 DEF FeedInv
  <2>1. m \in Range(feed[c])
    BY DEF Messages
  <2>2. m.at <= RequestedAt
    BY <1>1, <2>1
  <2>3. feed[c] \in Seq(RawMessages)
    BY <1>1
  <2>4. m \in RawMessages
    <3>1. PICK i \in DOMAIN feed[c] : m = feed[c][i]
      BY <2>1 DEF Range
    <3> QED
      BY <2>3, <3>1
  <2>5. m.at \in Nat
    BY <2>4 DEF RawMessages
  <2> QED
    BY <2>2, <2>5, ChannelFacts
<1>4. SourceInv
  BY NothingSourced, NoWalkFacts DEF SourceInv
<1>5. WalkInv
  BY NoWalkFacts DEF WalkInv
<1>6. ReportInv
  BY DEF ReportInv
<1> QED
  BY <1>2, <1>3, <1>4, <1>5, <1>6 DEF NewsInv

\* The end of a walk: it has everything of the window, if that is its reason.
LEMMA StopStep ==
  ASSUME NewsInv, walk.on, NEW reason \in StopReasons, NEW pages \in Nat,
         NEW items \in SUBSET Items, Sourced(items),
         reason \in CoveringStops => Has(Channel, 0, items),
         Stop(reason, pages, items), UNCHANGED <<feed, request>>
  PROVE  NewsInv'
<1> DEFINE n == Len(reports)
           r == Report(reason, pages, items)
<1>1. NewsType /\ FeedInv /\ SourceInv /\ WalkInv /\ ReportInv
  BY DEF NewsInv
<1>2. reports \in Seq(ReportsMade) /\ r \in ReportsMade
  <2>1. \E s \in StopReasons, p \in Nat, i \in SUBSET Items : r = Report(s, p, i)
    OBVIOUS
  <2>2. r \in ReportsMade
    <3> HIDE DEF r
    <3> QED
      BY <2>1 DEF ReportsMade
  <2>3. reports \in Seq(ReportsMade)
    BY <1>1 DEF NewsType
  <2> QED
    BY <2>2, <2>3
<1>3. r.covered => reason \in CoveringStops
  BY DEF Report
<1>4. /\ reports' = Append(reports, r) /\ gathered' = gathered \cup items
      /\ walk' = IF Len(reports) + 1 < Len(Channels) THEN Beginning ELSE NoWalk
  BY DEF Stop
<1>5. n \in Nat /\ n < Len(Channels) /\ request.since > Undated
  BY <1>1, <1>2 DEF WalkInv
<1> HIDE DEF r
<1>6. /\ reports' \in Seq(ReportsMade) /\ Len(reports') = n + 1 /\ reports'[n + 1] = r
      /\ \A i \in 1 .. n : reports'[i] = reports[i]
  BY <1>2, <1>4
<1>7. NewsType'
  <2>1. walk' \in Walks
    BY <1>4, NoWalkFacts
  <2>2. gathered' \subseteq Items
    BY <1>1, <1>4 DEF NewsType
  <2> QED
    BY <1>1, <1>6, <2>1, <2>2 DEF NewsType
<1>8. FeedInv'
  BY <1>1 DEF FeedInv, Messages
<1>9. \A c : Messages(c)' = Messages(c)
  BY DEF Messages
<1>10. SourceInv'
  <2>1. Sourced(gathered \cup items)
    BY <1>1, BothSourced DEF SourceInv
  <2>2. walk'.items = {}
    BY <1>4, NoWalkFacts
  <2>3. IsFiniteSet({})
    BY FS_EmptySet
  <2>4. /\ IsFiniteSet(gathered')
        /\ \A x \in gathered' : \E m \in Messages(x.channel)' : x = ItemOf(x.channel, m)
    BY <1>4, <1>9, <2>1 DEF Sourced
  <2> QED
    BY <2>2, <2>3, <2>4 DEF SourceInv, Sourced, ItemOf
<1>11. WalkInv'
  <2>1. CASE n + 1 < Len(Channels)
    <3>1. walk' = Beginning
      BY <1>4, <2>1
    <3>2. walk'.on /\ walk'.before = 0
      BY <3>1, NoWalkFacts
    <3> QED
      BY <1>5, <1>6, <2>1, <3>2 DEF WalkInv
  <2>2. CASE ~(n + 1 < Len(Channels))
    <3>1. walk' = NoWalk
      BY <1>4, <2>2
    <3>2. ~walk'.on
      BY <3>1, NoWalkFacts
    <3>3. Len(reports') = Len(Channels)
      BY <1>5, <1>6, <2>2, ChannelFacts
    <3> QED
      BY <3>2, <3>3 DEF WalkInv
  <2> QED
    BY <2>1, <2>2
<1>12. ReportInv'
  <2> SUFFICES ASSUME NEW i \in 1 .. n + 1, reports'[i].covered,
                      NEW m \in Messages(Channels[i])', Wanted(m)', m.id >= 0
               PROVE  ItemOf(Channels[i], m) \in gathered'
    BY <1>6 DEF ReportInv, Has, ItemOf
  <2>1. m \in Messages(Channels[i]) /\ Wanted(m)
    BY DEF Messages, Wanted
  <2>2. CASE i \in 1 .. n
    <3>1. reports[i].covered
      BY <1>6, <2>2
    <3>2. Has(Channels[i], 0, gathered)
      BY <1>1, <2>2, <3>1 DEF ReportInv
    <3> QED
      BY <1>4, <2>1, <3>2 DEF Has
  <2>3. CASE i = n + 1
    <3>1. Channels[i] = Channel
      BY <2>3 DEF Channel
    <3>2. Has(Channel, 0, items)
      BY <1>3, <1>6, <2>3
    <3> QED
      BY <1>4, <2>1, <3>1, <3>2 DEF Has
  <2> QED
    BY <1>5, <2>2, <2>3
<1> QED
  BY <1>7, <1>8, <1>10, <1>11, <1>12 DEF NewsInv

\* What walk has at hand, wherever it stands.
LEMMA WalkFacts ==
  ASSUME NewsInv, walk.on
  PROVE  /\ NewsType /\ FeedInv /\ Channel \in ChannelSet
         /\ walk.items \in SUBSET Items /\ walk.pages \in Nat /\ walk.before \in Nat
         /\ Sourced(walk.items) /\ request.since \in Nat /\ request.since > Undated
         /\ walk.before # 0 => Has(Channel, walk.before, walk.items)
<1>1. NewsType /\ FeedInv /\ SourceInv /\ WalkInv
  BY DEF NewsInv
<1>2. reports \in Seq(ReportsMade)
  BY <1>1 DEF NewsType
<1>3. Len(reports) \in Nat /\ Len(reports) < Len(Channels)
  BY <1>1, <1>2 DEF WalkInv
<1>4. Channel \in ChannelSet
  BY <1>3, ChannelFacts DEF Channel
<1> QED
  BY <1>1, <1>4 DEF NewsType, SourceInv, WalkInv, Walks

LEMMA StopShortStep == NewsInv /\ StopShort => NewsInv'
<1> SUFFICES ASSUME NewsInv, StopShort PROVE NewsInv'
  OBVIOUS
<1>1. walk.on
  BY DEF StopShort, Walking
<1>2. PICK reason \in {"PAGE_CAP_REACHED", "GLOBAL_BUDGET_REACHED"} :
        Stop(reason, walk.pages, walk.items)
  BY DEF StopShort
<1>3. reason \in StopReasons /\ reason \notin CoveringStops
  BY <1>2 DEF StopReasons, CoveringStops
<1>4. UNCHANGED <<feed, request>>
  BY DEF StopShort
<1> QED
  BY <1>1, <1>2, <1>3, <1>4, WalkFacts, StopStep

LEMMA EmptyPageStep == NewsInv /\ EmptyPage => NewsInv'
<1> SUFFICES ASSUME NewsInv, EmptyPage PROVE NewsInv'
  OBVIOUS
<1>1. walk.on
  BY DEF EmptyPage, Walking
<1>2. PICK reason \in {"PARSE_FAILED", "EMPTY_PAGE"} : Stop(reason, walk.pages, walk.items)
  BY DEF EmptyPage
<1>3. reason \in StopReasons /\ reason \notin CoveringStops
  BY <1>2 DEF StopReasons, CoveringStops
<1>4. UNCHANGED <<feed, request>>
  BY DEF EmptyPage, Spend
<1> QED
  BY <1>1, <1>2, <1>3, <1>4, WalkFacts, StopStep

LEMMA FetchFailsStep == NewsInv /\ FetchFails => NewsInv'
<1> SUFFICES ASSUME NewsInv, FetchFails PROVE NewsInv'
  OBVIOUS
<1>1. walk.on
  BY DEF FetchFails, Spend, Walking
<1>2. Stop("FETCH_FAILED", walk.pages, walk.items)
  BY DEF FetchFails
<1>3. "FETCH_FAILED" \in StopReasons /\ "FETCH_FAILED" \notin CoveringStops
  BY DEF StopReasons, CoveringStops
<1>4. UNCHANGED <<feed, request>>
  BY DEF FetchFails, Spend
<1> QED
  BY <1>1, <1>2, <1>3, <1>4, WalkFacts, StopStep

\* A page is added to what a walk has: from its oldest message on nothing of the
\* window is missing, and nothing at all if it goes back beyond the window.
LEMMA PageAdds ==
  ASSUME NewsInv, walk.on, NEW page \in Pages(Channel, walk.before), page # {}
  PROVE  LET items == walk.items \cup Kept(Channel, page)
             cursor == Min(Ids(page)) IN
         /\ items \in SUBSET Items /\ Sourced(items)
         /\ cursor \in Nat \ {0}
         /\ Has(Channel, cursor, items)
         /\ cursor <= 1 => Has(Channel, 0, items)
         /\ (\E at \in {m.at : m \in page} \ {Undated} : at < request.since)
              => Has(Channel, 0, items)
<1> DEFINE kept   == Kept(Channel, page)
           items  == walk.items \cup kept
           cursor == Min(Ids(page))
<1>1. /\ NewsType /\ FeedInv /\ Channel \in ChannelSet
      /\ walk.items \in SUBSET Items /\ walk.before \in Nat
      /\ Sourced(walk.items) /\ request.since \in Nat /\ request.since > Undated
      /\ walk.before # 0 => Has(Channel, walk.before, walk.items)
  BY WalkFacts
<1>2. /\ page \subseteq Messages(Channel) /\ IsFiniteSet(page)
      /\ cursor \in Nat \ {0}
      /\ \A m \in page : cursor <= m.id
      /\ \A m \in Messages(Channel) :
           m.id >= cursor => m \in page \/ (walk.before # 0 /\ m.id >= walk.before)
  BY <1>1, PageFacts
<1>3. /\ \A m \in Messages(Channel) : m \in RawMessages
      /\ \A m, n \in Messages(Channel) :
           m.id < n.id /\ m.at # Undated /\ n.at # Undated => m.at <= n.at
  BY <1>1, MessageFacts
<1>4. \A m \in RawMessages : m.id \in Nat \ {0} /\ m.at \in Nat /\ m.story \in Stories
  BY DEF RawMessages
<1>5. kept = {ItemOf(Channel, m) : m \in {n \in page : n.at # Undated /\ n.at >= request.since}}
  BY DEF Kept, ItemOf
<1>6. \A m : ItemOf(Channel, m).channel = Channel
  BY DEF ItemOf
<1>7. \A m \in RawMessages : ItemOf(Channel, m) \in Items
  BY <1>1, <1>4 DEF ItemOf, Items
<1>8. RequestedAt \in Nat /\ Undated = 0
  BY ChannelFacts DEF Undated
<1> HIDE DEF kept, cursor
<1>9. Sourced(kept)
  <2> DEFINE shown == {n \in page : n.at # Undated /\ n.at >= request.since}
             f     == [m \in shown |-> ItemOf(Channel, m)]
  <2>1. IsFiniteSet(shown)
    <3>1. shown \in SUBSET page
      OBVIOUS
    <3> HIDE DEF shown
    <3> QED
      BY <1>2, <3>1, FS_Subset
  <2>2. \A m \in shown : m \in Messages(Channel)
    BY <1>2
  <2>3. kept = {ItemOf(Channel, m) : m \in shown}
    BY <1>5
  <2> HIDE DEF shown
  <2>4. DOMAIN f = shown /\ f = [m \in shown |-> f[m]] /\ kept = {f[m] : m \in shown}
    BY <2>3
  <2> HIDE DEF f
  <2>5. IsFiniteSet(kept)
    BY <2>1, <2>4, FiniteValues
  <2>6. \A x \in kept : \E m \in Messages(x.channel) : x = ItemOf(x.channel, m)
    BY <1>6, <2>2, <2>3
  <2> QED
    BY <2>5, <2>6 DEF Sourced
<1>10. kept \subseteq Items
  BY <1>2, <1>3, <1>5, <1>7
<1>11. Sourced(items)
  BY <1>1, <1>9, BothSourced
<1>12. ASSUME NEW m \in page, Wanted(m) PROVE ItemOf(Channel, m) \in items
  <2>1. m.at \in Nat /\ m.at >= request.since
    BY <1>1, <1>2, <1>3, <1>4, <1>8, <1>12 DEF Wanted
  <2>2. m.at # Undated
    BY <1>1, <1>8, <2>1
  <2> QED
    BY <1>5, <2>1, <2>2
<1>13. Has(Channel, cursor, items)
  <2> SUFFICES ASSUME NEW m \in Messages(Channel), Wanted(m), m.id >= cursor
               PROVE  ItemOf(Channel, m) \in items
    BY DEF Has
  <2>1. CASE m \in page
    BY <1>12, <2>1
  <2>2. CASE walk.before # 0 /\ m.id >= walk.before
    BY <1>1, <2>2 DEF Has
  <2> QED
    BY <1>2, <2>1, <2>2
<1>14. ASSUME \A m \in Messages(Channel) : Wanted(m) => m.id >= cursor
       PROVE  Has(Channel, 0, items)
  BY <1>13, <1>14 DEF Has
<1>15. ASSUME cursor <= 1 PROVE Has(Channel, 0, items)
  <2>1. \A m \in Messages(Channel) : m.id \in Nat \ {0}
    BY <1>3, <1>4
  <2>2. \A m \in Messages(Channel) : m.id >= cursor
    BY <1>2, <1>15, <2>1
  <2> QED
    BY <1>14, <2>2
<1>16. ASSUME NEW at \in {m.at : m \in page} \ {Undated}, at < request.since
       PROVE  Has(Channel, 0, items)
  <2>1. PICK old \in page : at = old.at
    OBVIOUS
  <2>2. old \in Messages(Channel) /\ old.at # Undated /\ old.at < request.since /\ old.id >= cursor
        /\ old.id \in Nat /\ old.at \in Nat
    BY <1>2, <1>3, <1>4, <1>16, <2>1
  <2> SUFFICES ASSUME NEW m \in Messages(Channel), Wanted(m) PROVE m.id >= cursor
    BY <1>14
  <2>3. m.at \in Nat /\ m.id \in Nat /\ m.at >= request.since
    BY <1>1, <1>3, <1>4, <1>8 DEF Wanted
  <2>4. m.at # Undated /\ ~(m.at <= old.at)
    BY <1>1, <1>8, <2>2, <2>3
  <2>5. ~(m.id < old.id)
    BY <1>3, <2>2, <2>4
  <2> QED
    BY <1>2, <2>2, <2>3, <2>5
<1> QED
  BY <1>1, <1>2, <1>10, <1>11, <1>13, <1>15, <1>16 DEF kept, cursor

LEMMA FetchPageStep == NewsInv /\ FetchPage => NewsInv'
<1> SUFFICES ASSUME NewsInv, FetchPage PROVE NewsInv'
  OBVIOUS
<1>1. walk.on
  BY DEF FetchPage, Walking
<1>2. PICK page \in Pages(Channel, walk.before) :
        LET items  == walk.items \cup Kept(Channel, page)
            stamps == {m.at : m \in page} \ {Undated}
            cursor == Min(Ids(page))
            goesOn == [walk EXCEPT !.before = cursor, !.pages = @ + 1,
                                   !.seen = @ \cup {cursor}, !.items = items]
        IN /\ page # {} /\ Spend
           /\ \/ /\ \E at \in stamps : at < request.since
                 /\ Stop("CUTOFF_REACHED", walk.pages + 1, items)
              \/ cursor <= 1 /\ Stop("SOURCE_EXHAUSTED", walk.pages + 1, items)
              \/ Stop("REPEATED_CURSOR", walk.pages + 1, items)
              \/ walk' = goesOn /\ UNCHANGED <<reports, gathered>>
  <2>1. PICK page \in Pages(Channel, walk.before) :
          LET items  == walk.items \cup Kept(Channel, page)
              stamps == {m.at : m \in page} \ {Undated}
              cursor == Min(Ids(page))
              goesOn == [walk EXCEPT !.before = cursor, !.pages = @ + 1,
                                     !.seen = @ \cup {cursor}, !.items = items]
          IN /\ page # {} /\ Spend
             /\ CASE \E at \in stamps : at < request.since ->
                       Stop("CUTOFF_REACHED", walk.pages + 1, items)
                  [] OTHER ->
                       IF cursor <= 1 THEN Stop("SOURCE_EXHAUSTED", walk.pages + 1, items)
                       ELSE IF cursor \in walk.seen
                            THEN Stop("REPEATED_CURSOR", walk.pages + 1, items)
                            ELSE walk' = goesOn /\ UNCHANGED <<reports, gathered>>
    BY DEF FetchPage
  <2> QED
    BY <2>1
<1> DEFINE items  == walk.items \cup Kept(Channel, page)
           cursor == Min(Ids(page))
<1>3. page # {} /\ UNCHANGED <<feed, request>>
  BY <1>2 DEF Spend
<1>4. /\ items \in SUBSET Items /\ Sourced(items)
      /\ cursor \in Nat \ {0}
      /\ Has(Channel, cursor, items)
      /\ cursor <= 1 => Has(Channel, 0, items)
      /\ (\E at \in {m.at : m \in page} \ {Undated} : at < request.since)
           => Has(Channel, 0, items)
  BY <1>1, <1>3, PageAdds
<1>5. walk.pages \in Nat /\ walk.pages + 1 \in Nat
  BY <1>1, WalkFacts
<1>6. CASE /\ \E at \in {m.at : m \in page} \ {Undated} : at < request.since
           /\ Stop("CUTOFF_REACHED", walk.pages + 1, items)
  <2>1. Has(Channel, 0, items)
    BY <1>4, <1>6
  <2>2. "CUTOFF_REACHED" \in StopReasons
    BY DEF StopReasons
  <2> HIDE DEF items
  <2> QED
    BY <1>1, <1>3, <1>4, <1>5, <1>6, <2>1, <2>2, StopStep
<1>7. CASE cursor <= 1 /\ Stop("SOURCE_EXHAUSTED", walk.pages + 1, items)
  <2>1. Has(Channel, 0, items)
    BY <1>4, <1>7
  <2>2. "SOURCE_EXHAUSTED" \in StopReasons
    BY DEF StopReasons
  <2> HIDE DEF items
  <2> QED
    BY <1>1, <1>3, <1>4, <1>5, <1>7, <2>1, <2>2, StopStep
<1>8. CASE Stop("REPEATED_CURSOR", walk.pages + 1, items)
  <2>1. "REPEATED_CURSOR" \in StopReasons /\ "REPEATED_CURSOR" \notin CoveringStops
    BY DEF StopReasons, CoveringStops
  <2> HIDE DEF items
  <2> QED
    BY <1>1, <1>3, <1>4, <1>5, <1>8, <2>1, StopStep
<1>9. CASE /\ walk' = [walk EXCEPT !.before = cursor, !.pages = @ + 1,
                                   !.seen = @ \cup {cursor}, !.items = items]
           /\ UNCHANGED <<reports, gathered>>
  <2>1. NewsType /\ FeedInv /\ SourceInv /\ WalkInv /\ ReportInv
    BY DEF NewsInv
  <2> HIDE DEF items, cursor
  <2>2. walk \in Walks
    BY <2>1 DEF NewsType
  <2>3. /\ walk' \in Walks /\ walk'.on = walk.on /\ walk'.before = cursor
        /\ walk'.items = items
    <3>1. /\ walk.on \in BOOLEAN /\ walk.pages \in Nat /\ walk.seen \in SUBSET Nat
          /\ walk = [on |-> walk.on, before |-> walk.before, pages |-> walk.pages,
                      seen |-> walk.seen, items |-> walk.items]
      BY <2>2 DEF Walks
    <3>2. walk' = [on |-> walk.on, before |-> cursor, pages |-> walk.pages + 1,
                   seen |-> walk.seen \cup {cursor}, items |-> items]
      BY <1>9, <3>1
    <3>3. walk.pages + 1 \in Nat /\ walk.seen \cup {cursor} \in SUBSET Nat /\ cursor \in Nat
      BY <1>4, <3>1
    <3> QED
      BY <1>4, <3>1, <3>2, <3>3 DEF Walks
  <2>4. \A c : Messages(c)' = Messages(c)
    BY <1>3 DEF Messages
  <2>5. NewsType'
    BY <1>3, <1>9, <2>1, <2>3 DEF NewsType
  <2>6. FeedInv'
    BY <1>3, <2>1 DEF FeedInv, Messages
  <2>7. SourceInv'
    BY <1>4, <1>9, <2>1, <2>3, <2>4 DEF SourceInv, Sourced, ItemOf
  <2>8. WalkInv'
    <3>1. Channel' = Channel
      BY <1>9 DEF Channel
    <3>2. \A m : Wanted(m)' <=> Wanted(m)
      BY <1>3 DEF Wanted
    <3>3. Has(Channel, walk.before, walk.items)'
      BY <1>4, <2>3, <2>4, <3>1, <3>2 DEF Has, ItemOf
    <3>4. Len(reports)' < Len(Channels) /\ request'.since > Undated
      BY <1>1, <1>3, <1>9, <2>1 DEF WalkInv
    <3> QED
      BY <1>1, <2>3, <3>3, <3>4 DEF WalkInv
  <2>9. ReportInv'
    BY <1>3, <1>9, <2>1, <2>4 DEF ReportInv, Has, ItemOf, Wanted
  <2> QED
    BY <2>5, <2>6, <2>7, <2>8, <2>9 DEF NewsInv
<1> QED
  BY <1>2, <1>6, <1>7, <1>8, <1>9

LEMMA RequestStep ==
  ASSUME NewsInv, NEW wanted \in Requests, NEW ahead, Request(wanted, ahead)
  PROVE  NewsInv'
<1>1. NewsType /\ FeedInv /\ SourceInv /\ WalkInv /\ ReportInv
  BY DEF NewsInv
<1>2. reports = << >> /\ UNCHANGED <<feed, reports, gathered>>
  BY DEF Request, Idle
<1>3. CASE UNCHANGED <<request, walk>>
  BY <1>1, <1>2, <1>3 DEF NewsInv, NewsType, FeedInv, SourceInv, Sourced, WalkInv, ReportInv, Has,
     Wanted, Messages, ItemOf, Channel
<1>4. CASE request' = wanted /\ walk' = Beginning
  <2>1. request'.since \in Nat /\ request'.since > Undated
    <3>1. wanted.since \in Sinces
      BY DEF Requests
    <3>2. wanted.since \in Nat \ {0}
      BY <3>1, ChannelFacts
    <3> QED
      BY <1>4, <3>2 DEF Undated
  <2>2. walk' \in Walks /\ walk'.on /\ walk'.before = 0 /\ walk'.items = {}
    BY <1>4, NoWalkFacts
  <2>3. NewsType'
    BY <1>1, <1>2, <2>1, <2>2 DEF NewsType
  <2>4. FeedInv'
    BY <1>1, <1>2 DEF FeedInv, Messages
  <2>5. SourceInv'
    <3>1. IsFiniteSet({})
      BY FS_EmptySet
    <3> QED
      BY <1>1, <1>2, <2>2, <3>1 DEF SourceInv, Sourced, Messages, ItemOf
  <2>6. WalkInv'
    <3>1. Len(reports') = 0
      BY <1>2
    <3> QED
      BY <2>1, <2>2, <3>1, ChannelFacts DEF WalkInv
  <2>7. ReportInv'
    <3>1. Len(reports') = 0
      BY <1>2
    <3> QED
      BY <3>1 DEF ReportInv
  <2> QED
    BY <2>3, <2>4, <2>5, <2>6, <2>7 DEF NewsInv
<1> QED
  BY <1>3, <1>4 DEF Request

LEMMA ProduceStep == NewsInv /\ Produce => NewsInv'
<1> SUFFICES ASSUME NewsInv, Produce PROVE NewsInv'
  OBVIOUS
<1>1. NewsType /\ FeedInv /\ SourceInv /\ WalkInv /\ ReportInv
  BY DEF NewsInv
<1>2. /\ ~walk.on /\ reports' = << >> /\ gathered' = {} /\ request' = NoRequest
      /\ UNCHANGED <<feed, walk>>
  BY DEF Produce, Walking
<1>3. NewsType'
  <2>1. request'.since \in Nat
    BY <1>2, ChannelFacts DEF NoRequest
  <2>2. << >> \in Seq(ReportsMade)
    OBVIOUS
  <2> QED
    BY <1>1, <1>2, <2>1, <2>2 DEF NewsType
<1>4. FeedInv'
  BY <1>1, <1>2 DEF FeedInv, Messages
<1>5. SourceInv'
  <2>1. IsFiniteSet({})
    BY FS_EmptySet
  <2> QED
    BY <1>1, <1>2, <2>1 DEF SourceInv, Sourced, Messages, ItemOf
<1>6. WalkInv'
  BY <1>2 DEF WalkInv
<1>7. ReportInv'
  BY <1>2 DEF ReportInv
<1> QED
  BY <1>3, <1>4, <1>5, <1>6, <1>7 DEF NewsInv

\* What is posted since the request changes nothing of the window.
LEMMA PostStep ==
  ASSUME NewsInv, NEW channel \in ChannelSet, NEW story \in Late, Post(channel, story)
  PROVE  NewsInv'
<1> DEFINE s   == feed[channel]
           new == [id |-> IF s = << >> THEN 1 ELSE Last(s).id + 1,
                   at |-> RequestedAt + 1, story |-> story]
           n   == Len(s)
<1>1. NewsType /\ FeedInv /\ SourceInv /\ WalkInv /\ ReportInv
  BY DEF NewsInv
<1>2. /\ feed' = [feed EXCEPT ![channel] = Append(s, new)]
      /\ UNCHANGED <<request, walk, reports, gathered>>
  BY DEF Post
<1>3. feed \in [ChannelSet -> Seq(RawMessages)]
  BY <1>1 DEF NewsType
<1>4. /\ s \in Seq(RawMessages) /\ n \in Nat
      /\ \A i \in 1 .. n : s[i] \in RawMessages /\ s[i].id \in Nat \ {0} /\ s[i].at \in Nat
  <2>1. s \in Seq(RawMessages)
    BY <1>3
  <2> HIDE DEF s
  <2>2. n \in Nat /\ \A i \in 1 .. n : s[i] \in RawMessages
    BY <2>1
  <2>3. \A m \in RawMessages : m.id \in Nat \ {0} /\ m.at \in Nat
    BY DEF RawMessages
  <2> QED
    BY <2>1, <2>2, <2>3
<1>5. Chronological(s) /\ \A m \in Messages(channel) : m.at <= RequestedAt + 1
  BY <1>1 DEF FeedInv
<1>6. RequestedAt \in Nat /\ story \in Stories
  BY ChannelFacts, NewsAssumption
<1>7. /\ new.at = RequestedAt + 1 /\ new.story = story
      /\ s = << >> => new.id = 1
      /\ s # << >> => new.id = s[n].id + 1
  BY DEF Last
<1>8. \A c \in ChannelSet \ {channel} : feed'[c] = feed[c]
  BY <1>2, <1>3
<1>9. feed'[channel] = Append(s, new)
  BY <1>2, <1>3
<1> HIDE DEF new, s
<1>10. \A i \in 1 .. n : s[i].at <= RequestedAt + 1
  <2> SUFFICES ASSUME NEW i \in 1 .. n PROVE s[i].at <= RequestedAt + 1
    OBVIOUS
  <2>1. DOMAIN s = 1 .. n
    BY <1>4
  <2>2. s[i] \in Messages(channel)
    BY <2>1 DEF Messages, Range, s
  <2> QED
    BY <1>5, <2>2
<1>11. /\ new.id \in Nat \ {0}
       /\ \A i \in 1 .. n : s[i].id < new.id
  <2>1. CASE s = << >>
    BY <1>7, <2>1
  <2>2. CASE s # << >>
    <3>1. n \in 1 .. n /\ s[n].id \in Nat \ {0} /\ new.id = s[n].id + 1
      BY <1>4, <1>7, <2>2
    <3>2. ASSUME NEW i \in 1 .. n PROVE s[i].id <= s[n].id
      <4>1. i = n \/ i < n
        BY <1>4
      <4>2. s[i].id \in Nat
        BY <1>4
      <4>3. i < n => s[i].id < s[n].id
        BY <1>5, <3>1 DEF Chronological
      <4> QED
        BY <3>1, <4>1, <4>2, <4>3
    <3>3. \A i \in 1 .. n : s[i].id \in Nat
      BY <1>4
    <3> HIDE DEF n
    <3> QED
      BY <3>1, <3>2, <3>3
  <2> QED
    BY <2>1, <2>2
<1>12. new \in RawMessages
  <2>1. new.id \in Nat \ {0} /\ new.at \in Nat /\ new.story \in Stories
    BY <1>6, <1>7, <1>11
  <2>2. new = [id |-> new.id, at |-> new.at, story |-> new.story]
    BY DEF new
  <2> QED
    BY <2>1, <2>2 DEF RawMessages
<1>13. /\ feed'[channel] \in Seq(RawMessages) /\ Len(feed'[channel]) = n + 1
       /\ feed'[channel][n + 1] = new
       /\ \A i \in 1 .. n : feed'[channel][i] = s[i]
  BY <1>4, <1>9, <1>12
<1>14. feed' \in [ChannelSet -> Seq(RawMessages)]
  <2>1. \A c \in ChannelSet : feed'[c] \in Seq(RawMessages)
    BY <1>3, <1>8, <1>13
  <2>2. feed' = [c \in ChannelSet |-> feed'[c]]
    BY <1>2, <1>3
  <2> QED
    BY <2>1, <2>2
<1>15. Messages(channel)' = Messages(channel) \cup {new}
  <2> DEFINE t == feed'[channel]
  <2>1. DOMAIN t = 1 .. n + 1 /\ DOMAIN s = 1 .. n
    BY <1>4, <1>13
  <2>2. Messages(channel)' = {t[i] : i \in 1 .. n + 1} /\ Messages(channel) = {s[i] : i \in 1 .. n}
    BY <2>1 DEF Messages, Range, s
  <2>3. t[n + 1] = new /\ \A i \in 1 .. n : t[i] = s[i]
    BY <1>13
  <2>4. \A i \in 1 .. n + 1 : i \in 1 .. n \/ i = n + 1
    BY <1>4
  <2>5. n + 1 \in 1 .. n + 1 /\ \A i \in 1 .. n : i \in 1 .. n + 1
    BY <1>4
  <2> HIDE DEF t, n
  <2> QED
    BY <2>2, <2>3, <2>4, <2>5
<1>16. \A c \in ChannelSet \ {channel} : Messages(c)' = Messages(c)
  BY <1>8 DEF Messages
<1>17. FeedInv'
  <2> SUFFICES ASSUME NEW c \in ChannelSet
               PROVE  Chronological(feed'[c]) /\ \A m \in Messages(c)' : m.at <= RequestedAt + 1
    BY DEF FeedInv, Chronological
  <2>1. CASE c # channel
    BY <1>1, <1>8, <1>16, <2>1 DEF FeedInv
  <2>2. CASE c = channel
    <3>1. ASSUME NEW m \in Messages(channel)' PROVE m.at <= RequestedAt + 1
      BY <1>5, <1>6, <1>7, <1>15
    <3>2. Chronological(feed'[channel])
      <4> DEFINE t == feed'[channel]
      <4> SUFFICES ASSUME NEW i \in 1 .. n + 1, NEW j \in 1 .. n + 1, i < j
                   PROVE  /\ t[i].id < t[j].id
                          /\ Undated \in {t[i].at, t[j].at} \/ t[i].at <= t[j].at
        BY <1>13 DEF Chronological
      <4>1. i \in 1 .. n /\ t[i] = s[i]
        BY <1>4, <1>13
      <4>2. CASE j = n + 1
        <5>1. t[j] = new
          BY <1>13, <4>2
        <5> HIDE DEF t, n
        <5> QED
          BY <1>7, <1>10, <1>11, <4>1, <5>1
      <4>3. CASE j # n + 1
        <5>1. j \in 1 .. n
          BY <1>4, <4>3
        <5>2. t[j] = s[j]
          BY <1>13, <5>1
        <5> HIDE DEF t
        <5> QED
          BY <1>5, <4>1, <5>1, <5>2 DEF Chronological
      <4> QED
        BY <4>2, <4>3
    <3> QED
      BY <2>2, <3>1, <3>2
  <2> QED
    BY <2>1, <2>2
<1>18. NewsType'
  BY <1>1, <1>2, <1>14 DEF NewsType
<1>19. \A c \in ChannelSet : Messages(c) \subseteq Messages(c)'
  BY <1>15, <1>16
<1>20. SourceInv'
  <2>1. \A x \in gathered \cup walk.items : x.channel \in ChannelSet
    <3>1. gathered \subseteq Items /\ walk.items \subseteq Items
      BY <1>1 DEF NewsType, Walks
    <3> QED
      BY <3>1 DEF Items
  <2>2. /\ IsFiniteSet(gathered) /\ IsFiniteSet(walk.items)
        /\ \A x \in gathered \cup walk.items : \E m \in Messages(x.channel) : x = ItemOf(x.channel, m)
    BY <1>1 DEF SourceInv, Sourced
  <2>3. \A x \in gathered \cup walk.items : \E m \in Messages(x.channel)' : x = ItemOf(x.channel, m)
    BY <1>19, <2>1, <2>2
  <2> QED
    BY <1>2, <2>2, <2>3 DEF SourceInv, Sourced, ItemOf
<1>21. ASSUME NEW c \in ChannelSet, NEW cursor, NEW items, Has(c, cursor, items)
       PROVE  \A m \in Messages(c)' : Wanted(m) /\ m.id >= cursor => ItemOf(c, m) \in items
  <2>1. ~Wanted(new)
    <3>1. \A a, b \in Nat : a + 1 \notin b .. a
      OBVIOUS
    <3>2. request.since \in Nat
      BY <1>1 DEF NewsType
    <3> QED
      BY <1>6, <1>7, <3>1, <3>2 DEF Wanted
  <2>2. \A m \in Messages(c)' : m \in Messages(c) \/ m = new
    BY <1>15, <1>16
  <2> QED
    BY <1>21, <2>1, <2>2 DEF Has
<1>22. \A m : Wanted(m)' <=> Wanted(m)
  BY <1>2 DEF Wanted
<1>23. WalkInv'
  <2>1. CASE ~walk.on
    BY <1>1, <1>2, <2>1 DEF WalkInv
  <2>2. CASE walk.on
    <3>1. /\ Channel \in ChannelSet
          /\ walk.before # 0 => Has(Channel, walk.before, walk.items)
      BY <2>2, WalkFacts
    <3>2. Channel' = Channel
      BY <1>2 DEF Channel
    <3>3. PICK c \in ChannelSet : c = Channel
      BY <3>1
    <3>4. ASSUME walk.before # 0
          PROVE  \A m \in Messages(c)' : Wanted(m) /\ m.id >= walk.before => ItemOf(c, m) \in walk.items
      <4>1. Has(c, walk.before, walk.items)
        BY <3>1, <3>3, <3>4
      <4> QED
        BY <1>21, <4>1
    <3>5. walk'.before # 0 => Has(Channel, walk.before, walk.items)'
      BY <1>2, <1>22, <3>2, <3>3, <3>4 DEF Has, ItemOf, Messages
    <3> QED
      BY <1>1, <1>2, <2>2, <3>5 DEF WalkInv
  <2> QED
    BY <2>1, <2>2
<1>24. ReportInv'
  <2> SUFFICES ASSUME NEW i \in 1 .. Len(reports), reports[i].covered,
                      NEW m \in Messages(Channels[i])', Wanted(m), m.id >= 0
               PROVE  ItemOf(Channels[i], m) \in gathered
    BY <1>2, <1>22 DEF ReportInv, Has, ItemOf
  <2>1. Channels[i] \in ChannelSet
    <3>1. Len(reports) \in Nat /\ Len(reports) <= Len(Channels)
      <4>1. reports \in Seq(ReportsMade)
        BY <1>1 DEF NewsType
      <4>2. Len(reports) \in Nat
        BY <4>1
      <4> QED
        BY <1>1, <4>2, ChannelFacts DEF WalkInv
    <3>2. i \in 1 .. Len(Channels)
      BY <3>1, ChannelFacts
    <3> QED
      BY <3>2, ChannelFacts
  <2>2. Has(Channels[i], 0, gathered)
    BY <1>1 DEF ReportInv
  <2> QED
    BY <1>21, <2>1, <2>2
<1> QED
  BY <1>17, <1>18, <1>20, <1>23, <1>24 DEF NewsInv

LEMMA NewsAlways == NewsSpec => []NewsInv
<1>1. NewsInv /\ [NewsNext]_newsVars => NewsInv'
  <2> SUFFICES ASSUME NewsInv, [NewsNext]_newsVars PROVE NewsInv'
    OBVIOUS
  <2>1. CASE \E wanted \in Requests, ahead \in BOOLEAN : Request(wanted, ahead)
    BY <2>1, RequestStep
  <2>2. CASE StopShort
    BY <2>2, StopShortStep
  <2>3. CASE FetchPage
    BY <2>3, FetchPageStep
  <2>4. CASE EmptyPage
    BY <2>4, EmptyPageStep
  <2>5. CASE FetchFails
    BY <2>5, FetchFailsStep
  <2>6. CASE Produce
    BY <2>6, ProduceStep
  <2>7. CASE \E channel \in ChannelSet, story \in Late : Post(channel, story)
    BY <2>7, PostStep
  <2>8. CASE UNCHANGED newsVars
    BY <2>8 DEF newsVars, NewsInv, NewsType, FeedInv, SourceInv, Sourced, WalkInv, ReportInv, Has,
       Wanted, Messages, ItemOf, Channel
  <2> QED
    BY <2>1, <2>2, <2>3, <2>4, <2>5, <2>6, <2>7, <2>8 DEF NewsNext
<1> QED
  BY <1>1, NewsStart, PTL DEF NewsSpec

-----------------------------------------------------------------------------
(* What a complete collection tells *)

LEMMA CollectionFollows == NewsInv => CompleteIsComplete
<1> SUFFICES ASSUME NewsInv, ~walk.on, reports # << >>, complete,
                    NEW channel \in ChannelSet, NEW m \in Messages(channel),
                    m.at \in request.since .. RequestedAt, m.story \in Relevant
             PROVE  \E item \in Merged :
                      /\ <<item.story, m.story>> \in Similar /\ item.at <= m.at
                      /\ \/ item \in Collection
                         \/ /\ Cardinality(Collection) = MaxItems
                            /\ \A other \in Collection : Ahead(other, item)
  BY DEF CompleteIsComplete, Walking
<1>1. NewsType /\ FeedInv /\ SourceInv /\ WalkInv /\ ReportInv
  BY DEF NewsInv
<1>2. reports \in Seq(ReportsMade) /\ gathered \subseteq Items
  BY <1>1 DEF NewsType
<1>3. Len(reports) = Len(Channels)
  BY <1>1 DEF WalkInv
<1>4. PICK i \in 1 .. Len(Channels) : channel = Channels[i]
  BY DEF ChannelSet
<1>5. reports[i].covered
  <2>1. reports[i] \in Range(reports)
    <3>1. DOMAIN reports = 1 .. Len(reports)
      BY <1>2
    <3> QED
      BY <1>3, <3>1 DEF Range
  <2> QED
    BY <2>1 DEF complete, Reports
<1>6. Has(channel, 0, gathered)
  BY <1>1, <1>3, <1>4, <1>5 DEF ReportInv
<1>7. m \in RawMessages /\ m.id \in Nat
  <2>1. m \in RawMessages
    BY <1>1, MessageFacts
  <2> QED
    BY <2>1 DEF RawMessages
<1> DEFINE item == ItemOf(channel, m)
           S    == {x \in gathered : x.story \in Relevant}
<1>8. item \in gathered
  BY <1>6, <1>7 DEF Has, Wanted
<1>9. item \in S /\ item.story = m.story /\ item.at = m.at
  BY <1>8 DEF ItemOf
<1>10. S \subseteq Items /\ IsFiniteSet(S)
  <2>1. S \in SUBSET gathered /\ IsFiniteSet(gathered)
    BY <1>1 DEF SourceInv, Sourced
  <2> HIDE DEF S
  <2> QED
    BY <1>2, <2>1, FS_Subset
<1>11. OneMessage(S)
  <2> SUFFICES ASSUME NEW x \in gathered, NEW y \in gathered, x.channel = y.channel, x.id = y.id
               PROVE  x = y
    BY DEF OneMessage
  <2>1. PICK a \in Messages(x.channel) : x = ItemOf(x.channel, a)
    BY <1>1 DEF SourceInv, Sourced
  <2>2. PICK b \in Messages(y.channel) : y = ItemOf(y.channel, b)
    BY <1>1 DEF SourceInv, Sourced
  <2>3. x.id = a.id /\ y.id = b.id
    BY <2>1, <2>2 DEF ItemOf
  <2>4. x.channel \in ChannelSet
    BY <1>2 DEF Items
  <2>5. a \in Messages(x.channel) /\ b \in Messages(x.channel) /\ a.id = b.id
    BY <2>1, <2>2, <2>3
  <2>6. \A c, d \in Messages(x.channel) : c.id = d.id => c = d
    BY <1>1, <2>4, MessageFacts
  <2>7. a = b
    BY <2>5, <2>6
  <2> QED
    BY <2>1, <2>2, <2>7
<1> HIDE DEF item, S
<1>12. /\ Merged \subseteq Groups /\ IsFiniteSet(Merged) /\ OneMessage(Merged)
       /\ \E g \in Merged : <<g.story, item.story>> \in Similar /\ g.at <= item.at
  <2>1. Merged = Range(deduplicate(S))
    BY DEF Merged, S
  <2> QED
    BY <1>9, <1>10, <1>11, <2>1, DeduplicateFacts
<1>13. PICK g \in Merged : <<g.story, item.story>> \in Similar /\ g.at <= item.at
  BY <1>12
<1>14. g \in Collection \/ (/\ Cardinality(Collection) = MaxItems
                            /\ \A other \in Collection : Ahead(other, g))
  BY <1>12, BestFacts DEF Collection
<1> QED
  BY <1>9, <1>13, <1>14

-----------------------------------------------------------------------------
(* The theorems *)

\* An observation that is done holds, of every timeframe, the final candles up to
\* the one instant it is about and no other, without a hole, whatever was traded,
\* sent, repeated or lost while its timeframes were read one after the other.
THEOREM ObservationsAreOneInstant == Spec => []ObservationIsOneInstant
BY MarketAlways, ObservationFollows, PTL

\* The references and the range a digest reports are those of the market in its
\* window, though the window ended before the candles were read; and a market it
\* calls quiet traded nothing in the window, but perhaps in a candle that was still
\* open when it was read.
THEOREM ReactionsAreTrue == Spec => []ReactionIsTrue
BY MarketAlways, ReactionFollows, PTL

\* Every candle an analysis keeps of a file is one of the venue's, but for an
\* hour its clock showed twice, and a hole between two of them is warned of,
\* unless the file declares calendar months.
THEOREM FilesAreNotGuessed == Spec => []FileIsNotGuessed
BY MarketAlways, FileFollows, PTL

\* A collection that calls itself complete has merged everything relevant that was
\* published in its window, for any channels, budgets and pages, and holds what
\* tells of it, or is full of items that rank ahead.
THEOREM CompletenessIsTrue == NewsSpec => []CompleteIsComplete
BY NewsAlways, CollectionFollows, PTL
=============================================================================
