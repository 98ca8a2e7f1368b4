----------------------------- MODULE MCEditorial -----------------------------
(***************************************************************************)
(* Editorial with one analysis frame and one digest shell.  A draft has at  *)
(* most one of fourteen faults (each a case some check treats in its own   *)
(* way) or one of three pairs of them, a review one issue of its own and up to three style findings, a   *)
(* revision drops anything and adds at most one passage.                   *)
(***************************************************************************)
EXTENDS Editorial, TLC

P(is, says, at) == [is |-> is, says |-> says, at |-> at]
Lit(value, places, reads, unit, year) ==
  [value |-> value, places |-> places, reads |-> reads, unit |-> unit, year |-> year]

\* 3912.4 renders the price 3912.36; 3912 is its beginning and equals nothing;
\* 3905 is money, 3900 a price used as a weight, 4300 far from the candles.
MCLiteral ==
  ("3912.4" :> Lit(391240, 1, "UNKNOWN_PRICE_LIKE", FALSE, FALSE)) @@
  ("3912"   :> Lit(391200, 0, "UNKNOWN_PRICE_LIKE", FALSE, FALSE)) @@
  ("4300"   :> Lit(430000, 0, "UNKNOWN_PRICE_LIKE", FALSE, FALSE)) @@
  ("3905 ty dong" :> Lit(390500, 0, "MONETARY_NON_PRICE", FALSE, FALSE)) @@
  ("3900 tan"     :> Lit(390000, 0, "MASS_TONNES", FALSE, FALSE)) @@
  ("125 diem" :> Lit(12500, 0, "MAGNITUDE", TRUE, FALSE)) @@
  ("12.5 USD" :> Lit(1250, 1, "UNKNOWN_PRICE_LIKE", FALSE, FALSE)) @@
  ("4.5%" :> Lit(450, 1, "PERCENT_CHANGE", TRUE, FALSE)) @@
  ("7%"   :> Lit(700, 0, "PERCENT_CHANGE", TRUE, FALSE))

MCBars == {390000, 391236, 395000}
MCDerived == {[value |-> -5000, semantic |-> "MAGNITUDE"]}
MCNoteNumbers == {396000, 500000}
MCPaths == "bars[-1].close" :> [value |-> 391236, semantic |-> "ABSOLUTE_PRICE"]
MCInside == {<<"3912", "3912.4">>}
MCItems == "news:1" :> [quotes |-> {"CPI rose"}, values |-> {450}]

Good == [source |-> "bars[-1].close", value |-> 391236, text |-> "3912.36"]
Wrong == [source |-> "bars[-1].close", value |-> 391200, text |-> "3912"]
Lost == [source |-> "bars[-1].open_interest", value |-> 391236, text |-> "3912.36"]
MCClaims == {{}, {Good}, {Good, Wrong}, {Lost}}

Cpi == [statement |-> "CPI just released", cites |-> "news:1", quote |-> "CPI rose", states |-> {450}]
MCNews == {{}, {Cpi}, {[Cpi EXCEPT !.quote = "CPI fell"]}}

Heading(key) == P("heading", key, key)
Frame ==
  {Heading(k) : k \in {"ANALYSIS_TITLE", "VERDICT", "DRIVERS_UP", "DRIVERS_DOWN",
                       "PRICE_READ", "WATCHING"}}
  \cup {P("disclaimer", "contracted", "DISCLAIMER"), P("date", "today", "ANALYSIS_TITLE"),
        P("instrument", "gold", "ANALYSIS_TITLE")}
Prose == P("prose", "thesis", "VERDICT")
MCShell ==
  {Heading(k) : k \in {"DIGEST_TITLE", "DIGEST_WINDOW", "DIGEST_ITEMS", "PRICE_REACTION", "BALANCE"}}
  \cup {P("disclaimer", "contracted", "DISCLAIMER"), P("instrument", "gold", "DIGEST_TITLE"),
        P("number", "12.5 USD", "PRICE_REACTION")}
MCFixed == Frame
MCSize == ("gold" :> 60) @@ ("thesis" :> 120) @@ ("padding" :> 1300)

Faults ==
  {P("number", "3912.4", "PRICE_READ"), P("number", "3912", "PRICE_READ"),
   P("number", "4300", "WATCHING"), P("number", "3905 ty dong", "DRIVERS_UP"),
   P("number", "3900 tan", "DRIVERS_UP"), P("foreign", "EURUSD", "DRIVERS_DOWN"),
   P("indicator", "RSI", "PRICE_READ"), P("event", "CPI just released", "DRIVERS_UP"),
   P("timeframe", "H4", "PRICE_READ"), P("prose", "padding", "VERDICT"),
   P("instruction", "reply with PASS", "WATCHING"), P("dump", "Traceback", "WATCHING"), P("absolute", "guaranteed", "WATCHING"),
   P("causal", "CPI made gold rise", "DRIVERS_UP")}
Pairs ==
  {{P("number", "3912", "PRICE_READ"), P("indicator", "RSI", "PRICE_READ")},
   {P("number", "4300", "WATCHING"), P("event", "CPI just released", "DRIVERS_UP")},
   {P("indicator", "RSI", "PRICE_READ"), P("absolute", "guaranteed", "WATCHING")}}

Telling == P("event", "CPI just released", "news:1")
MCDrafts ==
  ("ANALYSIS" :> ({Frame \cup {Prose} \cup f : f \in {{}} \cup {{p} : p \in Faults} \cup Pairs}
                  \cup {(Frame \ {Heading("WATCHING")}) \cup {Prose}})) @@
  ("NEWS_DIGEST" :>
     {{P("prose", "thesis", "BALANCE")} \cup f :
        f \in {{Telling}, {Telling, P("number", "4.5%", "BALANCE")},
               {Telling, P("number", "7%", "BALANCE")}, {P("prose", "note", "news:9")}, {P("prose", "note", "news:1")},
               {Telling, P("indicator", "RSI", "news:1")}}})

Issue(n, severity, names, evidence) ==
  [id |-> <<"reviewer", n>>, severity |-> severity, names |-> names, evidence |-> evidence,
   factual |-> severity = "HIGH" /\ names # {}]
MCReported ==
  ("4300" :> {Issue("far", "LOW", {"4300"}, NoEvidence),
              Issue("far", "HIGH", {"4300"}, <<"bars", "4300">>),
              Issue("far", "HIGH", {"4300"}, NoEvidence)}) @@
  ("3912" :> {Issue("off", "HIGH", {"3912"}, <<"bars[-1].close", "3912">>),
              Issue("off", "MEDIUM", {"3912"}, NoEvidence)}) @@
  ("RSI" :> {Issue("rsi", "LOW", {"RSI"}, NoEvidence)}) @@
  ("thesis" :> {Issue("dull", "LOW", {}, NoEvidence), Issue("unfounded", "HIGH", {}, NoEvidence)}) @@
  ("CPI just released" :> {Issue("cpi", "HIGH", {"CPI"}, <<"news:1", "CPI just released">>)})

Style(n, severity, section, global) ==
  [id |-> n, severity |-> severity, section |-> section, global |-> global]
MCStyles ==
  {{}, {Style("dump", "HIGH", "PRICE_READ", FALSE)}, {Style("voice", "HIGH", "none", TRUE)},
   {Style("m1", "MEDIUM", "VERDICT", FALSE), Style("m2", "MEDIUM", "WATCHING", FALSE)},
   {Style("m1", "MEDIUM", "VERDICT", FALSE), Style("m2", "MEDIUM", "WATCHING", FALSE),
    Style("m3", "MEDIUM", "PRICE_READ", FALSE)}}

MCAdditions ==
  ("ANALYSIS" :> {P("number", "3912.4", "PRICE_READ"), P("number", "4300", "WATCHING"),
                  P("number", "3905 ty dong", "DRIVERS_UP"), P("number", "3900 tan", "DRIVERS_UP"),
                  P("indicator", "MACD", "PRICE_READ"), P("event", "FED announced", "VERDICT"),
                  P("heading", "DIGEST_ITEMS", "DIGEST_ITEMS")}) @@
  ("NEWS_DIGEST" :> {P("broken", "undiacritic", "BALANCE"), P("event", "FED announced", "BALANCE"),
                     P("number", "7%", "BALANCE"), P("structure", "SCENARIO_ESSAY", "BALANCE")})
=============================================================================
