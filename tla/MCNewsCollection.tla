-------------------------- MODULE MCNewsCollection --------------------------
(* Two channels, one of which has lost its first message, and three stories  *)
(* of which the second is similar to both others.  The other begins with a    *)
(* fourth, so that three may be told where the ceiling is two.               *)
EXTENDS NewsCollection

MCChannels == <<"a", "b">>
MCSimilar == {<<"s", "s">>, <<"t", "t">>, <<"u", "u">>, <<"v", "v">>,
              <<"s", "t">>, <<"t", "s">>, <<"t", "u">>, <<"u", "t">>}

Letter == Sym("letter")
MCTextOf == [s |-> <<Space, Letter, Space, Newline, Letter>>,
             t |-> <<Letter, Sym("mark"), Sym("invisible"), Letter, Space>>,
             u |-> <<Sym("control"), Letter, Sym("return"), Newline, Newline, Letter>>,
             v |-> <<Letter, Space>>]
MCScore == [s |-> 1, t |-> 2, u |-> 1, v |-> 2]

Message(id, at, story) == [id |-> id, at |-> at, story |-> story]
\* Times grow; one message may be undated, one older than the shorter window.
MCFeeds ==
  {[a |-> <<Message(2, x[1], x[2]), Message(3, x[3], x[4])>>,
    b |-> <<Message(1, x[5], "v"), Message(2, 3, "u")>>] :
     x \in (0 .. 1) \X {"s", "t"} \X {2, 3} \X {"s", "u"} \X {1, 3}}
=============================================================================
