---------------------------- MODULE MCIctStream ----------------------------
(* IctStream on a handful of shapes, from markets that already have swings.  *)
EXTENDS IctStream

\* A candle that only has a body, and one with a wick on one side.
Body(gap, body)  == [gap |-> gap, body |-> body, above |-> 0, below |-> 0]
Wick(body, above, below) == [gap |-> 0, body |-> body, above |-> above, below |-> below]

SomeShapes ==
  {Body(0, 2), Body(0, -2), Body(-3, 1), Wick(1, 1, 0), Wick(-1, 0, 1)}

Candles(first, shapes) ==
  LET after[n \in 0 .. Len(shapes)] ==
        IF n = 0 THEN <<Follow(first, Body(0, 1))>>
        ELSE Append(after[n - 1], Follow(after[n - 1][n].close, shapes[n]))
  IN  after[Len(shapes)]

Markets == {Candles(4, <<>>)}
=============================================================================
