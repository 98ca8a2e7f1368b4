----------------------------- MODULE IctStream -----------------------------
(***************************************************************************)
(* One market, read again after every candle: what the analysis of the      *)
(* services/ict_*.py modules says must hold from reading to reading.        *)
(***************************************************************************)
EXTENDS IctCandidates

CONSTANTS
  Histories,      \* the candles a market may start from
  Shapes,         \* how a candle may follow: its gap, body and wicks
  MaxBars,        \* bound: candles of M1
  Lowest,         \* bound: the prices
  Highest

\* OHLCBar: a candle's high and low contain its body.
Candle ==
  {bar \in [open : Int, close : Int, high : Int, low : Int] :
     /\ bar.low <= bar.open /\ bar.low <= bar.close
     /\ bar.high >= bar.open /\ bar.high >= bar.close}

ASSUME MarketAssumption ==
  /\ Histories \subseteq Seq(Candle) \ {<<>>}
  /\ Shapes \subseteq [gap : Int, body : Int, above : Nat, below : Nat]
  /\ MaxBars \in Nat /\ Lowest \in Int /\ Highest \in Int

VARIABLES
  bars,       \* the closed candles of M1
  reading     \* the composite analysis of them, taken at the last close

vars == <<bars, reading>>

\* The next candle of a market, from the last close.
Follow(close, shape) ==
  LET open  == close + shape.gap
      last  == open + shape.body
  IN  [open |-> open, close |-> last,
       high |-> Greatest({open, last}) + shape.above,
       low  |-> Least({open, last}) - shape.below]

\* A candle that is still forming when the market is read: it spans everything.
Forming(close) ==
  [open |-> close, close |-> Lowest, high |-> Highest, low |-> Lowest]

\* build_timeframe_snapshot and analyse_ict_composite: the provider's answer ends
\* with a candle that has not closed.
Read(closed) ==
  Composite(Append(closed, Forming(closed[Len(closed)].close)), Len(closed))

Init == bars \in Histories /\ reading = Read(bars)

Close(shape) ==
  LET bar == Follow(bars[Len(bars)].close, shape) IN
  /\ Len(bars) < MaxBars
  /\ bar.low >= Lowest /\ bar.high <= Highest
  /\ bars' = Append(bars, bar)
  /\ reading' = Read(bars')

Next == \E shape \in Shapes : Close(shape)

Spec == Init /\ [][Next]_vars

-----------------------------------------------------------------------------
(* Properties *)

Crossed(series, d, level, from) ==
  \E i \in from .. Len(series) : Beyond(d, series[i].close, level)
Reached(series, d, level, from) ==
  \E i \in from .. Len(series) : Beyond(d, Extreme(series[i], d), level)

\* None of the checks that abort an analysis can fail, whatever the candles: a
\* leg with an origin not known before it or that leads nowhere, a range without
\* width or against the bias, a block without a zone, two closing prices at one
\* instant, members of a candidate that disagree, a source from the future
\* (ProtectedStructureError, DealingRangeError, OrderBlockError,
\* CandidateSourceError, CandidateEligibilityError, CandidateConsolidationError,
\* CandidateFeatureError).  Any of them leaves the trade plan without candidates.
AnalysisNeverAborts ==
  LET prices     == ReferencePrices(reading)
      price      == CHOOSE p \in prices : TRUE
      decisions  == Decisions(reading, price)
      candidates == Consolidated(decisions)
  IN  /\ Cardinality(prices) = 1
      /\ \A tf \in Timeframes :
           /\ ~LegsBroken(reading[tf].legs)
           /\ ~RangesBroken(reading[tf].ranges, reading[tf].structure.bias)
           /\ ~BlocksBroken({b.zone : b \in reading[tf].blocks})
      /\ \A d \in decisions : ~GeometryBroken(d.source)
      /\ \A c \in candidates : ~Disagree(c) /\ ~Unborn(c, Len(bars))

\* A swing still live has never been closed beyond since it was confirmed, and a
\* swing is broken or cleared once: what the loop keeps candle by candle
\* (analyse_structure, _resolve_candidates, _also_cleared) against the candles.
\* And a break in the running direction that protects nothing never meets an
\* active range (_SAME_DIRECTION_NOTE, ict_range.py:459).
StructureIsSound ==
  \A tf \in Timeframes :
    LET st == reading[tf].structure IN
    /\ \A d \in Directions : \A s \in st.active[d] :
         ~Crossed(reading[tf].bars, d, s.price, s.at + 1)
    /\ \A m, n \in 1 .. Len(st.breaks) :
         m # n => ({st.breaks[m].swing} \cup st.breaks[m].cleared) \cap
                  ({st.breaks[n].swing} \cup st.breaks[n].cleared) = {}
    /\ \A e \in EventsOf(st), r \in reading[tf].ranges :
         e.class # "MSS" /\ e.opposite = {} =>
           ~(r.leg.formed < e.at /\ (r.status = "ACTIVE" \/ r.ended > e.at))

\* Pools stay what LiquidityConfig promises through every joining and absorbing:
\* at least two swings of one side within the tolerance, no swing in two pools
\* or also unpaired, and no live pool that price has traded beyond since it
\* formed.
PoolsAreSound ==
  \A tf \in Timeframes :
    LET liq == reading[tf].liquidity IN
    /\ \A p \in liq.pools :
         /\ Cardinality(p.members) > 1
         /\ PoolUpper(p) - PoolLower(p) <= Tolerance
         /\ p.members \cap liq.unpaired = {}
         /\ p.status = "ACTIVE" =>
              ~Reached(reading[tf].bars, p.side, PoolBoundary(p), p.formed + 1)
    /\ \A p, q \in liq.pools : p # q => p.members \cap q.members = {}

\* A candidate a plan may name has not been used up by the candles of its
\* timeframe: no candle since covered the gap, none closed through the block, none
\* traded beyond the target.
EligibleIsUnspent ==
  \A d \in Eligible(Decisions(reading, bars[Len(bars)].close)) :
    LET series == reading[d.source.tf].bars
        since  == d.source.index + 1
        x      == d.source.direction
    IN  CASE d.source.kind = "FAIR_VALUE_GAP" ->
               \A i \in since .. Len(series) : ~Covers(d.source, series[i])
          [] d.source.kind = "ORDER_BLOCK" ->
               ~Crossed(series, Opposite(x),
                        IF x = "BULLISH" THEN d.source.lower ELSE d.source.upper, since)
          [] OTHER -> ~Reached(series, x, LevelOf(d.source), since)

\* What the analysis keeps as live, swings, ranges, pools and what a plan may name,
\* is live in the candles (ict_structure.py:785, ict_liquidity.py:657).
LevelsAreSound == StructureIsSound /\ PoolsAreSound /\ EligibleIsUnspent

\* What a plan is told of its candidates is consistent: two that are EQUAL are a
\* buy and a sell, whatever timeframes support them; which of a pair comes first
\* does not matter; and in a dealing range a candidate's lower edge is never
\* placed above its middle, nor its middle above its upper edge
\* (consolidate_candidates, _pair_relations, _range_context, locate).
FeaturesAgree ==
  LET candidates == Consolidated(Decisions(reading, bars[Len(bars)].close))
      pairs      == PairRelations(candidates)
      depth(at)  == CHOOSE n \in 1 .. 5 :
        at = <<"BELOW_RANGE", "DISCOUNT", "EQUILIBRIUM", "PREMIUM", "ABOVE_RANGE">>[n]
  IN  /\ \A p \in pairs :
           /\ p.relation = "EQUAL" => p.first.side # p.second.side
           /\ RelateZones(p.second, p.first) = p.relation
      /\ \A tf \in Timeframes :
           \A c \in candidates, r \in ActiveRange(reading[tf].ranges) :
             LET at == RangeContext(c, r) IN
             depth(at[1]) <= depth(at[2]) /\ depth(at[2]) <= depth(at[3])

\* The later of two readings knows all the earlier one said: swings with their
\* labels, breaks in their order, legs, gaps and blocks are final, what ended
\* ended when it did, and a lifecycle only goes forward.
Kept(early, late) ==
  /\ early.structure.swings \subseteq late.structure.swings
  /\ \A s \in early.structure.swings :
       Relation(early.structure.swings, s) = Relation(late.structure.swings, s)
  /\ Len(early.structure.breaks) <= Len(late.structure.breaks)
  /\ \A n \in 1 .. Len(early.structure.breaks) :
       early.structure.breaks[n] = late.structure.breaks[n]
  /\ early.legs \subseteq late.legs
  /\ \A r \in early.ranges : \E q \in late.ranges :
       q.leg = r.leg /\ (r.status = "SUPERSEDED" => q = r)
  /\ \A p \in early.liquidity.pools : \E q \in late.liquidity.pools :
       /\ q.founding = p.founding /\ q.formed = p.formed /\ p.members \subseteq q.members
       /\ PoolBoundary(q) = PoolBoundary(p)
       /\ p.status # "ACTIVE" => q = p
  /\ \A g \in early.gaps : \E h \in late.gaps :
       /\ h.zone = g.zone
       /\ g.touched # 0 => h.touched = g.touched
       /\ g.status = "FILLED" => h = g
  /\ \A b \in early.blocks : \E c \in late.blocks :
       /\ c.zone = b.zone
       /\ b.touched # 0 => c.touched = b.touched
       /\ b.mitigated # 0 => c.mitigated = b.mitigated
       /\ b.status = "INVALIDATED" => c = b

\* No repainting: a candle more never changes what a reading concluded from the
\* candles before it (confirmed_swings, eligible_before and the touchable rules
\* exist for this).
NothingIsRepainted ==
  [][\A tf \in Timeframes : Kept(reading[tf], reading'[tf])]_vars
=============================================================================
