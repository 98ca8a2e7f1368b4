--------------------------- MODULE IctCandidates ---------------------------
(***************************************************************************)
(* From the analyses of several timeframes to the places a plan may name:   *)
(* services/ict_composite.py, ict_candidate_source.py,                      *)
(* ict_candidate_eligibility.py, ict_candidate_consolidation.py and         *)
(* ict_candidate_features.py.                                               *)
(*                                                                         *)
(* Two timeframes are observed: "M1", whose candles close at every instant, *)
(* and "M5", whose candles close at every Ratio-th one.                     *)
(***************************************************************************)
EXTENDS IctZones

CONSTANTS
  Ratio,                  \* M1 candles in an M5 candle
  AllowedBlockStatuses,   \* CandidateEligibilityConfig
  AllowedGapStatuses

ASSUME CandidateAssumption ==
  /\ Ratio \in Nat \ {0}
  /\ AllowedBlockStatuses \subseteq {"ACTIVE", "TOUCHED", "MITIGATED"}
  /\ AllowedGapStatuses \subseteq {"OPEN", "TOUCHED"}

Timeframes == {"M1", "M5"}
Duration(tf) == IF tf = "M1" THEN 1 ELSE Ratio

\* What the provider answers for a timeframe, given the candles of M1.
Series(bars, tf) ==
  LET first(j) == (j - 1) * Duration(tf) + 1
      span(j)  == first(j) .. j * Duration(tf)
  IN  [j \in 1 .. Len(bars) \div Duration(tf) |->
         [open |-> bars[first(j)].open, close |-> bars[j * Duration(tf)].close,
          high |-> Greatest({bars[i].high : i \in span(j)}),
          low  |-> Least({bars[i].low : i \in span(j)})]]

\* analyse_ict_timeframe
Analysis(bars) ==
  LET st     == Structure(bars)
      legs   == Legs(bars, st)
      blocks == OrderBlocks(bars, legs)
  IN  [bars |-> bars, structure |-> st, legs |-> legs,
       ranges |-> DealingRanges(bars, st, legs),
       liquidity |-> Liquidity(bars, st.swings),
       gaps |-> GapStates(bars),
       blocks |-> BlockStates(bars, blocks)]

\* A plausible bug: a timeframe is analysed with the candle still forming.
CompositeForming(bars, at) == [tf \in Timeframes |-> Analysis(Series(bars, tf))]

\* analyse_ict_composite, of the candles closed at an instant.
Composite(bars, at) ==
  [tf \in Timeframes |-> Analysis(Closed(Series(bars, tf), at \div Duration(tf)))]

-----------------------------------------------------------------------------
(* Sources, and the one price they are compared with *)

\* project_timeframe_sources
SourcesOf(analysis, tf) ==
  LET source(kind, x, direction, lower, upper, status) ==
        [tf |-> tf, kind |-> kind, formed |-> x.formed * Duration(tf), index |-> x.formed,
         direction |-> direction, lower |-> lower, upper |-> upper, status |-> status]
  IN  {source("ORDER_BLOCK", b.zone, b.zone.direction, b.zone.lower, b.zone.upper,
              b.status) : b \in analysis.blocks}
      \cup {source("FAIR_VALUE_GAP", g.zone, g.zone.direction, g.zone.lower,
                   g.zone.upper, g.status) : g \in analysis.gaps}
      \cup {source("LIQUIDITY_POOL", p, p.side, PoolLower(p), PoolUpper(p), p.status) :
              p \in analysis.liquidity.pools}

\* _check_geometry, CandidateSourceError: a zone has width, a pool may be a line.
GeometryBroken(source) ==
  IF source.kind = "LIQUIDITY_POOL" THEN source.upper < source.lower
  ELSE source.upper <= source.lower

\* resolve_reference_price: the newest close any timeframe holds.  The answer is
\* a set: CandidateEligibilityError unless it has one member.
ReferencePrices(composite) ==
  LET closed(tf) == Len(composite[tf].bars) * Duration(tf)
      latest     == Greatest({closed(tf) : tf \in Timeframes})
  IN  {composite[tf].bars[Len(composite[tf].bars)].close :
         tf \in {tf \in Timeframes : closed(tf) = latest}}

-----------------------------------------------------------------------------
(* Eligibility: every source is decided, none is dropped *)

IsEntry(source) == source.kind # "LIQUIDITY_POOL"

RoleOf(source) ==
  IF IsEntry(source) THEN "ENTRY_ZONE"
  ELSE IF source.direction = "BULLISH" THEN "UPPER_REFERENCE" ELSE "LOWER_REFERENCE"

LevelOf(source) ==
  IF source.direction = "BULLISH" THEN source.upper ELSE source.lower

RelationOf(lower, upper, price) ==
  CASE upper < price -> "BELOW"
    [] lower > price -> "ABOVE"
    [] OTHER         -> "OVERLAPS"

DistanceOf(lower, upper, price) ==
  CASE upper < price -> price - upper
    [] lower > price -> lower - price
    [] OTHER         -> 0

\* _entry_reasons: BAI buys at or below the price, SEO sells at or above it.
EntryReasons(source, relation) ==
  {reason \in {"ORDER_BLOCK_INVALIDATED", "ORDER_BLOCK_STATUS_NOT_ALLOWED",
               "FVG_FILLED", "FVG_STATUS_NOT_ALLOWED", "ENTRY_ZONE_WRONG_SIDE"} :
     CASE reason = "ORDER_BLOCK_INVALIDATED" ->
            source.kind = "ORDER_BLOCK" /\ source.status = "INVALIDATED"
       [] reason = "ORDER_BLOCK_STATUS_NOT_ALLOWED" ->
            /\ source.kind = "ORDER_BLOCK"
            /\ source.status \notin AllowedBlockStatuses \cup {"INVALIDATED"}
       [] reason = "FVG_FILLED" ->
            source.kind = "FAIR_VALUE_GAP" /\ source.status = "FILLED"
       [] reason = "FVG_STATUS_NOT_ALLOWED" ->
            /\ source.kind = "FAIR_VALUE_GAP"
            /\ source.status \notin AllowedGapStatuses \cup {"FILLED"}
       [] OTHER ->
            relation = IF source.direction = "BULLISH" THEN "ABOVE" ELSE "BELOW"}

\* A plausible bug: a taken pool is a target as long as price is short of it.
ReferenceReasonsAheadOnly(source, relation) ==
  IF relation = (IF source.direction = "BULLISH" THEN "ABOVE" ELSE "BELOW")
    THEN {} ELSE {"REFERENCE_NOT_AHEAD"}

\* _reference_reasons: an upper reference is ahead above the price.
ReferenceReasons(source, relation) ==
  (IF source.status \in {"SWEPT", "CLOSED_THROUGH"} THEN {"LIQUIDITY_TERMINAL"} ELSE {})
  \cup
  (IF relation = (IF source.direction = "BULLISH" THEN "ABOVE" ELSE "BELOW")
     THEN {} ELSE {"REFERENCE_NOT_AHEAD"})

\* _decide: a zone by its two edges, a pool by the level it would be taken at.
Decide(source, price) ==
  LET lower    == IF IsEntry(source) THEN source.lower ELSE LevelOf(source)
      upper    == IF IsEntry(source) THEN source.upper ELSE LevelOf(source)
      relation == RelationOf(lower, upper, price)
  IN  [source |-> source, role |-> RoleOf(source), lower |-> lower, upper |-> upper,
       side |-> IF ~IsEntry(source) THEN "NONE"
                ELSE IF source.direction = "BULLISH" THEN "BAI" ELSE "SEO",
       relation |-> relation, distance |-> DistanceOf(lower, upper, price),
       reasons |-> IF IsEntry(source) THEN EntryReasons(source, relation)
                   ELSE ReferenceReasons(source, relation)]

Decisions(composite, price) ==
  {Decide(source, price) :
     source \in UNION {SourcesOf(composite[tf], tf) : tf \in Timeframes}}

Eligible(decisions) == {d \in decisions : d.reasons = {}}

-----------------------------------------------------------------------------
(* Consolidation and features *)

\* A plausible bug: each timeframe makes its own candidate of a place.
GroupKeyPerTimeframe(d) ==
  [role |-> d.role, side |-> d.side, lower |-> d.lower, upper |-> d.upper,
   tf |-> d.source.tf]

\* _group_key: exactly the same place, never nearly.
GroupKey(d) == [role |-> d.role, side |-> d.side, lower |-> d.lower, upper |-> d.upper]

\* consolidate_candidates
Consolidated(decisions) ==
  {[key |-> k, support |-> {d \in Eligible(decisions) : GroupKey(d) = k}] :
     k \in {GroupKey(d) : d \in Eligible(decisions)}}

\* _require_agreement, CandidateConsolidationError.
Disagree(candidate) ==
  \E d, e \in candidate.support :
    <<d.relation, d.distance, d.side, d.lower, d.upper>> #
    <<e.relation, e.distance, e.side, e.lower, e.upper>>

\* _age_seconds, CandidateFeatureError: a source from after the observation.
Unborn(candidate, observed) == \E d \in candidate.support : d.source.formed > observed

\* relate_zones
RelateZones(a, b) ==
  LET lower == Greatest({a.lower, b.lower})
      upper == Least({a.upper, b.upper})
  IN  IF a.lower = b.lower /\ a.upper = b.upper THEN "EQUAL"
      ELSE IF lower > upper THEN "DISJOINT"
      ELSE IF lower = upper THEN "TOUCHING"
      ELSE "OVERLAPPING"

\* _pair_relations: of the entry zones only; which of a pair comes first is the
\* order of two digests, so both orders are here.
PairRelations(candidates) ==
  LET zones == {c.key : c \in {c \in candidates : c.key.role = "ENTRY_ZONE"}} IN
  UNION {{[first |-> a, second |-> b, relation |-> RelateZones(a, b)] :
            b \in zones \ {a}} : a \in zones}

\* _range_context: where a candidate's lower edge, middle and upper edge lie in
\* the active range of a timeframe, if it has one.
RangeContext(candidate, range) ==
  LET k == candidate.key IN
  <<Locate(range, 2 * k.lower), Locate(range, k.lower + k.upper), Locate(range, 2 * k.upper)>>
=============================================================================
