---------------------------- MODULE MCTradePlan ----------------------------
(* TradePlan around the price 4: nested, overlapping and touching zones.     *)
EXTENDS TradePlan

Zone(b, l, u) == [bucket |-> b, lower |-> l, upper |-> u]
SomeMenu ==
  {Zone("SEO", 4, 6), Zone("SEO", 5, 6), Zone("SEO", 6, 8), Zone("SEO", 5, 7),
   Zone("BAI", 2, 3), Zone("BAI", 1, 3), Zone("UPPER", 7, 7), Zone("UPPER", 9, 9),
   Zone("LOWER", 1, 1), Zone("LOWER", 0, 0)}
=============================================================================
