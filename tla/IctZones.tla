------------------------------ MODULE IctZones ------------------------------
(***************************************************************************)
(* The places services/ict_liquidity.py, ict_fvg.py, ict_order_block.py and *)
(* ict_order_block_lifecycle.py find on one timeframe, and what later       *)
(* candles did to them.                                                     *)
(***************************************************************************)
EXTENDS IctStructure

CONSTANTS
  Tolerance,        \* LiquidityConfig.price_tolerance
  ZoneBasis,        \* OrderBlockConfig.zone_basis
  MitigationRule    \* OrderBlockLifecycleConfig.mitigation_rule

ASSUME ZoneAssumption ==
  /\ Tolerance \in Nat
  /\ ZoneBasis \in {"FULL_CANDLE", "BODY"}
  /\ MitigationRule \in {"TOUCH", "MIDPOINT", "FULL_ZONE"}

Least(P) == CHOOSE p \in P : \A q \in P : p <= q
Greatest(P) == CHOOSE p \in P : \A q \in P : p >= q
Distance(x, y) == IF x > y THEN x - y ELSE y - x

-----------------------------------------------------------------------------
(* Liquidity pools: buy-side above swing highs, sell-side below swing lows *)

Prices(members) == {s.price : s \in members}
PoolLower(pool) == Least(Prices(pool.members))
PoolUpper(pool) == Greatest(Prices(pool.members))
PoolBoundary(pool) ==
  IF pool.side = "BULLISH" THEN PoolUpper(pool) ELSE PoolLower(pool)

SpanWith(members, price) ==
  LET P == Prices(members) \cup {price} IN Greatest(P) - Least(P)

Touchable(pool, i) == pool.status = "ACTIVE" /\ pool.formed < i

\* _events_for_bar: a close beyond the boundary outranks a wick beyond it.
StruckBy(pool, bar, i) ==
  IF ~Touchable(pool, i) THEN "NOT_STRUCK"
  ELSE IF Beyond(pool.side, bar.close, PoolBoundary(pool)) THEN "CLOSED_THROUGH"
  ELSE IF Beyond(pool.side, Extreme(bar, pool.side), PoolBoundary(pool)) THEN "SWEPT"
  ELSE "NOT_STRUCK"

AfterStrikes(pools, bar, i) ==
  {LET how == StruckBy(pool, bar, i) IN
   IF how = "NOT_STRUCK" THEN pool ELSE [pool EXCEPT !.status = how, !.ended = i] :
     pool \in pools}

\* Those x of X whose key f(x) is least.
Closest(X, f(_)) == {x \in X : \A y \in X : f(x) <= f(y)}

EligiblePools(pools, s) ==
  {pool \in pools :
     /\ pool.side = s.side
     /\ pool.status = "ACTIVE"
     /\ SpanWith(pool.members, s.price) <= Tolerance}

\* The tightest, then the one whose middle is nearest, then the newest.
BestPool(pools, s) ==
  LET span(pool)  == SpanWith(pool.members, s.price)
      off(pool)   == Distance(2 * s.price, PoolLower(pool) + PoolUpper(pool))
      older(pool) == 0 - pool.formed
  IN  Closest(Closest(Closest(EligiblePools(pools, s), span), off), older)

\* The nearest in price, then the earliest confirmed.
BestPartner(unpaired, s) ==
  LET off(t) == Distance(t.price, s.price)
      at(t)  == t.at
  IN  Closest(Closest({t \in unpaired :
                         t.side = s.side /\ off(t) <= Tolerance}, off), at)

\* A plausible bug: every unpaired swing near the newcomer joins the pool.
AbsorbedNear(members, older, s) ==
  members \cup {t \in older : Distance(t.price, s.price) <= Tolerance}

\* The rest of the unpaired join, oldest pivot first, while the pool stays tight.
Absorbed(members, older, s) ==
  LET n == Cardinality(older)
      nth(k) == CHOOSE t \in older :
                  Cardinality({u \in older : u.pivot < t.pivot}) = k - 1
      after[k \in 0 .. n] ==
        IF k = 0 THEN members
        ELSE IF SpanWith(after[k - 1], nth(k).price) <= Tolerance
             THEN after[k - 1] \cup {nth(k)} ELSE after[k - 1]
  IN  after[n]

\* _admit: join a pool, or found one with a partner, or wait for one.
Admitted(liq, s) ==
  LET joined  == BestPool(liq.pools, s)
      partner == BestPartner(liq.unpaired, s)
      older   == {t \in liq.unpaired \ partner : t.side = s.side}
      members == Absorbed({s} \cup partner, older, s)
  IN  IF joined # {} THEN
             [liq EXCEPT !.pools = {IF pool \in joined
                                    THEN [pool EXCEPT !.members = @ \cup {s}]
                                    ELSE pool : pool \in @}]
      ELSE IF partner # {} THEN
             [pools |-> liq.pools \cup
                {[side |-> s.side, formed |-> s.at, founding |-> {s} \cup partner,
                  members |-> members, status |-> "ACTIVE", ended |-> 0]},
              unpaired |-> liq.unpaired \ members]
      ELSE [liq EXCEPT !.unpaired = @ \cup {s}]

\* One candle of analyse_liquidity's loop: it strikes what stood before it, then
\* the swings it confirms are admitted, a high before a low.
LiquidityAfter(liq, S, bar, i) ==
  LET struck == [liq EXCEPT !.pools = AfterStrikes(@, bar, i)]
      new(d) == {s \in S : s.at = i /\ s.side = d}
      with(l, d) ==
        IF new(d) = {} THEN l ELSE Admitted(l, CHOOSE s \in new(d) : TRUE)
  IN  with(with(struck, "BULLISH"), "BEARISH")

Liquidity(bars, S) ==
  LET after[i \in 0 .. Len(bars)] ==
        IF i = 0 THEN [pools |-> {}, unpaired |-> {}]
        ELSE LiquidityAfter(after[i - 1], S, bars[i], i)
  IN  after[Len(bars)]

-----------------------------------------------------------------------------
(* Fair value gaps *)

\* fair_value_gaps: candle i left a gap over candle i - 2.
Gaps(bars) ==
  {[direction |-> "BULLISH", formed |-> i, lower |-> bars[i - 2].high,
    upper |-> bars[i].low] : i \in {i \in 3 .. Len(bars) : bars[i].low > bars[i - 2].high}}
  \cup
  {[direction |-> "BEARISH", formed |-> i, lower |-> bars[i].high,
    upper |-> bars[i - 2].low] : i \in {i \in 3 .. Len(bars) : bars[i].high < bars[i - 2].low}}

Covers(zone, bar) == bar.low <= zone.lower /\ bar.high >= zone.upper
\* Reaching an edge exactly is not entering.
Enters(zone, bar) == bar.high > zone.lower /\ bar.low < zone.upper

GapTouchable(state, i) == state.status # "FILLED" /\ state.zone.formed < i

\* _apply_bar: one candle has to cover the whole gap; parts do not add up.
GapAfter(state, bar, i) ==
  IF ~GapTouchable(state, i) THEN state
  ELSE IF Covers(state.zone, bar) THEN
         [state EXCEPT !.status = "FILLED", !.ended = i,
                       !.touched = IF @ = 0 THEN i ELSE @]
  ELSE IF Enters(state.zone, bar) /\ state.status = "OPEN" THEN
         [state EXCEPT !.status = "TOUCHED", !.touched = i]
  ELSE state

GapStates(bars) ==
  LET fresh(gap) == [zone |-> gap, status |-> "OPEN", touched |-> 0, ended |-> 0]
      after[i \in 0 .. Len(bars)] ==
        IF i = 0 THEN {fresh(gap) : gap \in Gaps(bars)}
        ELSE {GapAfter(state, bars[i], i) : state \in after[i - 1]}
  IN  after[Len(bars)]

-----------------------------------------------------------------------------
(* Order blocks *)

BodyDirection(bar) ==
  CASE bar.close < bar.open -> "BEARISH"
    [] bar.close > bar.open -> "BULLISH"
    [] OTHER                -> "NEUTRAL"

\* _source_candle: the last opposite body from the protected pivot to the break.
Sources(bars, leg) ==
  {i \in leg.origin.pivot .. leg.formed - 1 :
     BodyDirection(bars[i]) = Opposite(leg.direction)}

ZoneOf(bar) ==
  IF ZoneBasis = "FULL_CANDLE" THEN <<bar.low, bar.high>>
  ELSE <<Least({bar.open, bar.close}), Greatest({bar.open, bar.close})>>

OrderBlocks(bars, legs) ==
  {[direction |-> leg.direction, formed |-> leg.formed, leg |-> leg,
    source |-> Greatest(Sources(bars, leg)),
    lower |-> ZoneOf(bars[Greatest(Sources(bars, leg))])[1],
    upper |-> ZoneOf(bars[Greatest(Sources(bars, leg))])[2]] :
     leg \in {leg \in legs : Sources(bars, leg) # {}}}

\* OrderBlockError: a zone that is not one.
BlocksBroken(blocks) == \E block \in blocks : block.upper <= block.lower

\* Reaching an edge exactly is touching.
Touches(zone, bar) == bar.high >= zone.lower /\ bar.low <= zone.upper
ContainsMidpoint(zone, bar) ==
  2 * bar.low <= zone.lower + zone.upper /\ zone.lower + zone.upper <= 2 * bar.high
Satisfies(zone, bar) ==
  CASE MitigationRule = "TOUCH"    -> Touches(zone, bar)
    [] MitigationRule = "MIDPOINT" -> ContainsMidpoint(zone, bar)
    [] OTHER                       -> Covers(zone, bar)
Invalidates(block, bar) ==
  Beyond(Opposite(block.direction), bar.close,
         IF block.direction = "BULLISH" THEN block.lower ELSE block.upper)

\* The first candle, if any, after a block's break for which a test holds, 0 for
\* none.
FirstAfter(bars, block, T) ==
  LET hits == {i \in block.formed + 1 .. Len(bars) : i \in T} IN
  IF hits = {} THEN 0 ELSE Least(hits)

StatusOf(touched, mitigated, invalidated) ==
  IF invalidated # 0 THEN "INVALIDATED"
  ELSE IF mitigated # 0 THEN "MITIGATED"
  ELSE IF touched # 0 THEN "TOUCHED"
  ELSE "ACTIVE"

\* _state_for: the loop stops after the candle that invalidates.
BlockStates(bars, blocks) ==
  LET all(block) == 1 .. Len(bars)
      ended(block) ==
        FirstAfter(bars, block, {i \in all(block) : Invalidates(block, bars[i])})
      upTo(block) == IF ended(block) = 0 THEN all(block) ELSE 1 .. ended(block)
      touched(block) ==
        FirstAfter(bars, block, {i \in upTo(block) : Touches(block, bars[i])})
      mitigated(block) ==
        FirstAfter(bars, block, {i \in upTo(block) : Satisfies(block, bars[i])})
  IN  {[zone |-> block, touched |-> touched(block), mitigated |-> mitigated(block),
        ended |-> ended(block),
        status |-> StatusOf(touched(block), mitigated(block), ended(block))] :
         block \in blocks}
=============================================================================
