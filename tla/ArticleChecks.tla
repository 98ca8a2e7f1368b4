---------------------------- MODULE ArticleChecks ----------------------------
(***************************************************************************)
(* What the deterministic checks see in an article: precheck.py and        *)
(* source_guard.py (numbers, symbols, indicators, certainties and recorded *)
(* claims), numeric_mentions.py (is a number used as what it is),          *)
(* article_contract_checks.py with causality_language.py (shape), content_ *)
(* safety.py (words no article may carry), news_provenance.py and          *)
(* digest_provenance.py (does a collected item say so).                    *)
(*                                                                         *)
(* An article is a set of passages.  A passage is what one of these checks *)
(* recognises (`is`), the text it recognises it by (`says`) and the place  *)
(* it stands in (`at`, a section, or an item of a digest).                 *)
(***************************************************************************)
EXTENDS Integers, FiniteSets, FiniteSetsExt

CONSTANTS
  Literal,     \* printed number -> [value, places, reads, unit, year]; hundredths
  Bars,        \* the prices of the context's candles
  Derived,     \* the window's derived values, [value, semantic]
  NoteNumbers, \* numbers of the analyst's note
  Paths,       \* path into the context -> [value, semantic] it resolves to
  Items,       \* collected item -> [quotes, values] of its text
  Inside,      \* <<a, b>>: the text a appears inside the text b
  Shell,       \* the passages code renders into every digest
  Hours,       \* the length of a digest's window, a quantity it may name
  Size         \* text -> its characters, where they matter

ASSUME ContextAssumption ==
  /\ Bars # {} /\ Bars \subseteq Nat
  /\ \A n \in DOMAIN Literal : Literal[n].value \in Nat /\ Literal[n].places \in 0 .. 2

Blocking == {"HIGH", "CRITICAL"}

\* The texts of one kind in an article.
Said(article, kind) == {p.says : p \in {q \in article : q.is = kind}}

Numbers(article) == Said(article, "number")       \* as precheck.py cuts them out
Mentions(article) == Said(article, "number")      \* as numeric_mentions.py does
Indicators(article) == Said(article, "indicator") \* by name, none is computed
Certainties(article) == Said(article, "absolute") \* "guaranteed", "no risk"
Events(article) == Said(article, "event")         \* "CPI was just released"
Causes(article) == Said(article, "causal")        \* the news moved the price
Structures(article) == Said(article, "structure")
Instructions(article) == Said(article, "instruction") \* to a model
Credentials(article) == Said(article, "credential")   \* the shape of a key or token
Dumps(article) == Said(article, "dump")           \* JSON, a traceback, a code block
Controls(article) == Said(article, "control")     \* characters no text has
Timeframes(article) == Said(article, "timeframe") \* other than the candles'
Dates(article) == Said(article, "date")           \* the authoritative one

\* A finding of a check, as far as anything depends on it.
Finding(code, severity, path, actual) ==
  [code |-> code, severity |-> severity, path |-> path, actual |-> actual]

-----------------------------------------------------------------------------
(***************************************************************************)
(* Numbers                                                                 *)
(***************************************************************************)

Low == Min(Bars)
High == Max(Bars)
Larger(a, b) == IF a > b THEN a ELSE b
Margin == Larger((High - Low) \div 4, High \div 200)
Outer == Larger((High - Low) \div 4, High \div 20)

\* A fact stands for a printed number if they are equal or, for one printed
\* with decimals, if the fact rounds to it.
RenderedAs(value, n) ==
  LET step == IF Literal[n].places = 1 THEN 10 ELSE 1
  IN  IF Literal[n].places = 0 \/ value < 0
      THEN value = Literal[n].value
      ELSE ((value + step \div 2) \div step) * step = Literal[n].value

Resolves(claim) == claim.source \in DOMAIN Paths
Verified(claims) ==
  {c \in claims : Resolves(c) /\ Paths[c.source].value = c.value}

KnownNumbers(claims) ==
  {[value |-> v, semantic |-> "ABSOLUTE_PRICE"] : v \in Bars}
  \cup {Paths[c.source] : c \in Verified(claims)}
  \cup Derived
  \cup {[d EXCEPT !.value = -@] : d \in {e \in Derived : e.semantic = "MAGNITUDE" /\ e.value < 0}}
  \cup {[value |-> v, semantic |-> "ABSOLUTE_PRICE"] :
          v \in {w \in NoteNumbers : Low - Margin <= w /\ w <= High + Margin}}

\* Accepted here whatever the number is used as: equality of value is all.
Accounted(n, known) == \E k \in known : k.value = Literal[n].value \/ RenderedAs(k.value, n)

PriceLike(n) == Literal[n].value >= 10000

Unaccounted(article, claims) ==
  {n \in Numbers(article) :
     PriceLike(n) /\ ~Accounted(n, KnownNumbers(claims)) /\ ~Literal[n].year /\ ~Literal[n].unit}

Far(n) == Literal[n].value < Low - Outer \/ Literal[n].value > High + Outer

NumberFindings(article, claims) ==
  {IF Far(n) THEN Finding("NUMBER_OUTSIDE_MARKET_RANGE", "HIGH", "none", n)
             ELSE Finding("UNKNOWN_PRICE_LIKE_NUMBER", "MEDIUM", "none", n) :
     n \in Unaccounted(article, claims)}

Family(semantic) ==
  CASE semantic = "PERCENT_CHANGE" -> "PERCENTAGE"
    [] semantic \in {"QUANTITY", "MASS_TONNES", "COUNT", "MONETARY_NON_PRICE"} -> "NON_MARKET_NUMBER"
    [] OTHER -> semantic

Compatible(reads, semantic) ==
  \/ reads \in {"UNKNOWN", "UNKNOWN_PRICE_LIKE"}
  \/ semantic = reads
  \/ Family(reads) = reads /\ Family(semantic) = reads

\* The second reading of a number, by what its sentence uses it as.
Resolution(n, facts) ==
  LET same == {f \in facts : f.value = Literal[n].value \/ RenderedAs(f.value, n)}
  IN  IF \E f \in same : Compatible(Literal[n].reads, f.semantic) THEN "RESOLVED"
      ELSE IF same # {} THEN "TYPE_MISMATCH" ELSE "UNRESOLVED"

AuthorisedFacts(claims, news) ==
  KnownNumbers(claims)
  \cup {[value |-> v, semantic |-> "NON_MARKET_NUMBER"] : v \in UNION {c.states : c \in news}}

-----------------------------------------------------------------------------
(***************************************************************************)
(* Prechecks                                                               *)
(***************************************************************************)

ClaimFindings(claims) ==
  IF claims = {} THEN {Finding("NO_SOURCE_CLAIMS", "MEDIUM", "none", "none")}
  ELSE {Finding("CLAIM_SOURCE_NOT_FOUND", "HIGH", c.source, c.text) :
          c \in {d \in claims : ~Resolves(d)}}
       \cup {Finding("CLAIM_VALUE_MISMATCH", "HIGH", c.source, c.text) :
               c \in {d \in claims : Resolves(d)} \ Verified(claims)}

SymbolFindings(article) ==
  {Finding("FOREIGN_SYMBOL_MENTIONED", "CRITICAL", "symbol", s) : s \in Said(article, "foreign")}
  \cup (IF Said(article, "instrument") # {} THEN {}
        ELSE {Finding("SYMBOL_NOT_MENTIONED", "LOW", "symbol", "none")})

WordFindings(article) ==
  {Finding("UNSUPPORTED_INDICATOR_MENTIONED", "HIGH", "none", s) : s \in Indicators(article)}
  \cup {Finding("ABSOLUTE_RISK_LANGUAGE", "HIGH", "none", s) : s \in Certainties(article)}

\* Of the article; the recorded claims are checked at the review only.
Prechecks(article, claims) ==
  NumberFindings(article, claims) \cup SymbolFindings(article) \cup WordFindings(article)

Key(finding) == <<finding.code, finding.actual>>
Severe(findings) == {f \in findings : f.severity \in Blocking}

\* Blocking findings of a text that an earlier text did not have.
Regressions(after, before) ==
  {f \in Severe(after) : Key(f) \notin {Key(g) : g \in before}}

-----------------------------------------------------------------------------
(***************************************************************************)
(* Shape                                                                   *)
(***************************************************************************)

Contract(type) ==
  IF type = "ANALYSIS"
  THEN [required |-> {"ANALYSIS_TITLE", "VERDICT", "DRIVERS_UP", "DRIVERS_DOWN",
                      "PRICE_READ", "WATCHING", "DISCLAIMER"},
        forbidden |-> {"SEO", "BAI", "PLAN_TITLE", "DIGEST_ITEMS", "DIGEST_WINDOW"},
        structures |-> {"TRADE_ZONE_LIST", "NEWS_ITEM_LIST"}, most |-> 1300]
  ELSE [required |-> {"DIGEST_TITLE", "DIGEST_WINDOW", "DIGEST_ITEMS", "PRICE_REACTION",
                      "BALANCE", "DISCLAIMER"},
        forbidden |-> {"SEO", "BAI", "PLAN_TITLE", "VERDICT", "WATCHING"},
        structures |-> {"TRADE_ZONE_LIST", "SCENARIO_ESSAY"}, most |-> 1900]

Chars(article) == MapThenSumSet(LAMBDA p : Size[p.says], {p \in article : p.says \in DOMAIN Size})

Sections(article) == Said(article, "heading") \cup {"DISCLAIMER" : s \in Said(article, "disclaimer")}
Disclaimers(article) == Cardinality({p \in article : p.is = "disclaimer"})

\* The codes of check_contract by severity, and of the causal claims.
HighContractCodes(article, type) ==
  LET c == Contract(type)
  IN  (IF Chars(article) > c.most THEN {"HARD_CAP_EXCEEDED"} ELSE {})
      \cup {"MISSING_REQUIRED_SECTION" : k \in c.required \ Sections(article)}
      \cup {"FORBIDDEN_SECTION_PRESENT" : k \in c.forbidden \cap Sections(article)}
      \cup {"FORBIDDEN_STRUCTURE_PRESENT" : k \in c.structures \cap Structures(article)}

ContractCodes(article, type) ==
  HighContractCodes(article, type)
  \cup (IF Disclaimers(article) # 1 THEN {"DISCLAIMER_COUNT_MISMATCH"} ELSE {})
  \cup {"UNATTRIBUTED_CAUSAL_CLAIM" : s \in Causes(article)}

\* Where an article can be cut at its required sections, what stands in each.
Segmentable(article, type) == Contract(type).required \subseteq Sections(article)
Body(article, key) == {p \in article : p.at = key}

-----------------------------------------------------------------------------
(***************************************************************************)
(* Sources of news                                                         *)
(***************************************************************************)

\* A news claim [statement, cites, quote, states] quotes its item honestly.
QuotesItem(claim) == claim.cites \in DOMAIN Items /\ claim.quote \in Items[claim.cites].quotes

\* A text is looked for anywhere in the article.
StillSays(article, text) == \E p \in article : p.says = text \/ <<text, p.says>> \in Inside

\* The same of a digest, whose items are at hand; put together, it must also
\* say what is claimed (no article: it is not put together yet).
SupportedClaim(claim, article) ==
  QuotesItem(claim) /\ (article # {} => StillSays(article, claim.statement))

\* A plausible bug: a claim covers its event whatever it quotes.
ClaimedEvents(article, news, producer) ==
  Events(article) \ (IF producer THEN {c.statement : c \in news} ELSE {})

\* Events the article asserts outside every verified claim's own words.
UncoveredEvents(article, news, producer) ==
  Events(article) \ (IF producer THEN {c.statement : c \in {d \in news : QuotesItem(d)}} ELSE {})

Values(article) == {Literal[n].value : n \in Numbers(article)}

\* Quantities of a digest's balance that no item and no rendered line states.
UnsupportedBalance(editorial) ==
  Values(Body(editorial, "BALANCE"))
    \ (UNION {Items[i].values : i \in DOMAIN Items} \cup Values(Shell) \cup {Hours})

\* The item a passage of a digest belongs to.
Chosen(editorial) == {p.at : p \in editorial} \ {"BALANCE"}

ValidEditorial(editorial, news, article) ==
  /\ Chosen(editorial) \subseteq DOMAIN Items
  /\ UnsupportedBalance(editorial) = {}
  /\ article # {} => Shell \subseteq article
  /\ \A c \in news : SupportedClaim(c, article)

\* An edit that is no Vietnamese text any more: decoded wrongly, or the old
\* field's sentence without its diacritics.
BrokenEdits(before, after) ==
  {p \in after : /\ p.is = "broken"
                 /\ p.says = "undiacritic" => Body(before, p.at) # {}}
=============================================================================
