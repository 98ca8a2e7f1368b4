----------------------------- MODULE TradePlan -----------------------------
(***************************************************************************)
(* From the candidates of one observation to a gated plan:                  *)
(* services/trade_analyst.py, trade_plan_selector.py, trade_plan_copy.py,   *)
(* trade_plan_presentation.py, trade_plan_stage.py and trade_plan_gate.py.  *)
(*                                                                         *)
(* A candidate is [bucket, lower, upper]; a level has lower = upper.  Its   *)
(* digest is the candidate itself.  A line of the page is what it says.     *)
(***************************************************************************)
EXTENDS Integers, Sequences, FiniteSets

CONSTANTS
  Menu,        \* the candidates an observation may offer
  Price,       \* the reference price
  MaxZones,    \* MAX_ENTRY_ZONES_PER_SIDE, of the selector
  MaxShown,    \* MAX_ZONES_PER_SIDE, of the presentation
  News,        \* the items of the curated news
  Unfit,       \* those whose headline the page cannot carry
  MaxNews,     \* MAX_NEWS_ITEMS
  MaxOffered   \* bound: candidates in one observation

Buckets == {"SEO", "BAI", "UPPER", "LOWER"}
Sides == {"SEO", "BAI"}
ReferenceBucket(side) == IF side = "SEO" THEN "UPPER" ELSE "LOWER"

\* Prices are whole numbers of the smallest step.  An eligible zone is not past
\* the price, an eligible level is ahead of it.
ASSUME MenuAssumption ==
  /\ Price \in Int
  /\ \A c \in Menu :
    /\ c.bucket \in Buckets /\ c.lower \in Int /\ c.upper \in Int
    /\ c.bucket = "SEO" => c.lower < c.upper /\ c.upper >= Price
    /\ c.bucket = "BAI" => c.lower < c.upper /\ c.lower <= Price
    /\ c.bucket = "UPPER" => c.lower = c.upper /\ c.lower > Price
    /\ c.bucket = "LOWER" => c.lower = c.upper /\ c.lower < Price

\* MaxZones and MaxShown are two constants of two modules, both 6.
ASSUME CountAssumption == MaxZones \in Nat \ {0} /\ MaxShown = MaxZones /\ MaxNews \in Nat

\* A headline is cut from what a channel wrote, and is held to none of the rules
\* for prose: with a control character, a backtick, a candidate's id or one of
\* the page's own fixed lines in it, validate_plan refuses the page that cites it.
ASSUME UnfitAssumption == Unfit \subseteq News

\* Of a note the checks see only how often it says MAIN_ZONE_PHRASE.
Notes == {"PLAIN", "MAIN", "MAIN_TWICE"}
Said(note) == CASE note = "MAIN" -> 1 [] note = "MAIN_TWICE" -> 2 [] OTHER -> 0

\* Of the market view and the notes together the page's checks see: nothing; that
\* one quotes a line the page has once (title, disclaimer, closing); that the
\* view opens like a side's heading or is the news heading; or that with them the
\* page is over MAX_PLAN_CHARS.
Texts == {"PLAIN", "FIXED", "HEADING", "LONG"}

Files == {"CANDIDATES", "RANKING", "SELECTION", "NEWS", "COPY", "PAGE"}

VARIABLES
  planStage,   \* of the Run and of the attempt under way
  offered,     \* the consolidated candidates
  ranking,     \* the analyst's answer
  selection,   \* what the selector made of it
  copy,        \* the copywriter's answer
  page,
  failure,     \* what the last attempt failed at
  edited,      \* committed files a person changed
  decision     \* of the gate

tradePlanVars == <<planStage, offered, ranking, selection, copy, page, failure, edited, decision>>

NoRanking == [b \in Buckets |-> <<>>]
NoSelection == [entries |-> [s \in Sides |-> <<>>], reference |-> [s \in Sides |-> {}]]
NoCopy == [notes |-> {}, text |-> "PLAIN", news |-> <<>>]
NoFailure == [at |-> "NONE", said |-> NoCopy]
NoPage == [blocks |-> [s \in Sides |-> <<>>], text |-> "PLAIN", news |-> <<>>]

TradePlanInit ==
  /\ planStage = "NORMALIZED"
  /\ offered = {} /\ ranking = NoRanking /\ selection = NoSelection
  /\ copy = NoCopy /\ page = NoPage
  /\ failure = NoFailure /\ edited = {} /\ decision = "NONE"

Values(s) == {s[n] : n \in 1 .. Len(s)}
Distinct(s) == \A m, n \in 1 .. Len(s) : m # n => s[m] # s[n]

\* Those x of X with no y of X before them.
First(X, Before(_, _)) == {x \in X : \A y \in X \ {x} : Before(x, y)}

-----------------------------------------------------------------------------
(* The analyst's ranking *)

\* expected_buckets
InBucket(o, b) == {c \in o : c.bucket = b}

\* parse_ranking: every candidate once, in its bucket, and nothing else.
Accepted(answer, o) ==
  \A b \in Buckets : Distinct(answer[b]) /\ Values(answer[b]) = InBucket(o, b)

Orders(S) == {s \in [1 .. Cardinality(S) -> S] : Distinct(s)}

\* A model orders each bucket as it likes, forgets one, repeats one, or names one
\* where it does not belong.
Answers(o) ==
  LET right == {[SEO |-> s, BAI |-> b, UPPER |-> u, LOWER |-> l] :
                  s \in Orders(InBucket(o, "SEO")), b \in Orders(InBucket(o, "BAI")),
                  u \in Orders(InBucket(o, "UPPER")), l \in Orders(InBucket(o, "LOWER"))}
      some  == CHOOSE a \in right : TRUE
  IN  right
      \cup {[some EXCEPT ![b] = Append(@, c)] : b \in Buckets, c \in Menu}
      \cup {[some EXCEPT ![b] = Tail(@)] : b \in {b \in Buckets : some[b] # <<>>}}

-----------------------------------------------------------------------------
(* The selection *)

Contains(outer, inner) == outer.lower <= inner.lower /\ outer.upper >= inner.upper
Redundant(a, b) == Contains(a, b) \/ Contains(b, a)

\* A plausible bug: the ceiling is off by one.
TakenOneMore(entries, zone) ==
  /\ Len(entries) <= MaxZones
  /\ \A n \in 1 .. Len(entries) : ~Redundant(zone, entries[n].zone)

\* _select_side, of one candidate: room is left and no chosen zone contains it or
\* lies in it.
Taken(entries, zone) ==
  /\ Len(entries) < MaxZones
  /\ \A n \in 1 .. Len(entries) : ~Redundant(zone, entries[n].zone)

SelectSide(ranked) ==
  LET after[n \in 0 .. Len(ranked)] ==
        IF n = 0 THEN <<>>
        ELSE IF Taken(after[n - 1], ranked[n])
             THEN Append(after[n - 1], [zone |-> ranked[n], rank |-> n])
             ELSE after[n - 1]
  IN  after[Len(ranked)]

\* _label_main: the best ranked of the selected.
Labelled(entries) ==
  [n \in 1 .. Len(entries) |->
     [zone |-> entries[n].zone, rank |-> entries[n].rank,
      main |-> \A m \in 1 .. Len(entries) : entries[n].rank <= entries[m].rank]]

Distance(zone) ==
  CASE zone.upper < Price -> Price - zone.upper
    [] zone.lower > Price -> zone.lower - Price
    [] OTHER -> 0

\* _display_order: the nearest first; among equally near ones the lower edge
\* leads for SEO, the upper edge for BAI.
Shown(side, a, b) ==
  LET x == IF side = "SEO" THEN a.lower ELSE 0 - a.upper
      y == IF side = "SEO" THEN b.lower ELSE 0 - b.upper
      v == IF side = "SEO" THEN a.upper ELSE 0 - a.lower
      w == IF side = "SEO" THEN b.upper ELSE 0 - b.lower
  IN  \/ Distance(a) < Distance(b)
      \/ Distance(a) = Distance(b) /\ (x < y \/ (x = y /\ v < w))

DisplayOrder(side, entries) ==
  CHOOSE s \in Orders(Values(entries)) :
    \A m, n \in 1 .. Len(s) : m < n => Shown(side, s[m].zone, s[n].zone)

\* A plausible bug: beyond the zone that leads the list is far enough.
FartherThanFirst(side, level, entries) ==
  IF side = "SEO" THEN level.lower > entries[1].zone.upper
  ELSE level.lower < entries[1].zone.lower

Farther(side, level, entries) ==
  \A n \in 1 .. Len(entries) :
    IF side = "SEO" THEN level.lower > entries[n].zone.upper
    ELSE level.lower < entries[n].zone.lower

\* _select_reference: the best ranked that lies beyond every zone shown.
SelectReference(side, ranked, entries) ==
  LET beyond == {n \in 1 .. Len(ranked) : entries # <<>> /\ Farther(side, ranked[n], entries)}
      first(m, n) == m < n
  IN  {ranked[n] : n \in First(beyond, first)}

\* select_trade_plan
Select(r) ==
  LET entries == [s \in Sides |-> DisplayOrder(s, Labelled(SelectSide(r[s])))] IN
  [entries |-> entries,
   reference |-> [s \in Sides |-> SelectReference(s, r[ReferenceBucket(s)], entries[s])]]

ZonesOf(sel, side) == {e.zone : e \in Values(sel.entries[side])}
Selected(sel) == UNION {ZonesOf(sel, s) \cup sel.reference[s] : s \in Sides}
Mains(sel) == UNION {{e.zone : e \in {e \in Values(sel.entries[s]) : e.main}} : s \in Sides}

-----------------------------------------------------------------------------
(* The copy and the page *)

\* A plausible bug: any zone may be called the main one.
CopyAcceptedAnyMain(answer, sel) ==
  /\ \A x \in answer.notes : x.on \in Selected(sel)
  /\ Distinct(answer.news) /\ Len(answer.news) <= MaxNews /\ Values(answer.news) \subseteq News

\* parse_plan_copy: notes on what was selected, only the main zone called that,
\* news that was offered and cited once.  An answer that breaks the contract in
\* any other way (a number, an id, an order, more than a text's length) stands
\* with those that do in this one.
CopyAccepted(answer, sel) ==
  /\ \A x \in answer.notes : x.on \in Selected(sel) /\ (Said(x.note) > 0 => x.on \in Mains(sel))
  /\ Distinct(answer.news) /\ Len(answer.news) <= MaxNews /\ Values(answer.news) \subseteq News

\* What a copywriter may answer: at most one note, on anything, any text, and news.
CopiesOf(o) ==
  {[notes |-> n, text |-> t, news |-> w] :
     n \in {{}} \cup {{[on |-> c, note |-> x]} : c \in o, x \in Notes},
     t \in Texts,
     w \in {<<>>} \cup {<<i>> : i \in News \cup {"UNOFFERED"}} \cup {<<i, j>> : i, j \in News}}

\* _parenthetical: the main zone is called so once, whether or not its note does.
Phrases(told, main) == IF main /\ told = 0 THEN 1 ELSE told

NoteOn(c, zone) ==
  LET on == {x \in c.notes : x.on = zone} IN
  IF on = {} THEN 0 ELSE Said((CHOOSE x \in on : TRUE).note)

\* _side_lines
SideLines(sel, c, side) ==
  LET entries == sel.entries[side]
      zones == [n \in 1 .. Len(entries) |->
                  [kind |-> "ZONE", position |-> n, prices |-> {entries[n].zone.lower, entries[n].zone.upper},
                   mains |-> Phrases(NoteOn(c, entries[n].zone), entries[n].main)]]
      deep(ref) == [kind |-> "DEEP", position |-> 0, prices |-> {ref.lower},
                    mains |-> NoteOn(c, ref)]
  IN  IF entries = <<>> THEN <<[kind |-> "EMPTY", position |-> 0, prices |-> {}, mains |-> 0]>>
      ELSE IF sel.reference[side] = {} THEN zones
      ELSE Append(zones, deep(CHOOSE ref \in sel.reference[side] : TRUE))

\* document_from_artifacts and render_plan
Render(sel, c) ==
  [blocks |-> [s \in Sides |-> SideLines(sel, c, s)], text |-> c.text, news |-> c.news]

\* selected_prices
Prices(sel) == UNION {{c.lower, c.upper} : c \in Selected(sel)}

\* _check_side
SideProblem(block) ==
  LET zones == {n \in 1 .. Len(block) : block[n].kind = "ZONE"}
      deeps == {n \in 1 .. Len(block) : block[n].kind = "DEEP"}
      told[n \in 0 .. Len(block)] == IF n = 0 THEN 0 ELSE told[n - 1] + block[n].mains
  IN  /\ Values(block) # {[kind |-> "EMPTY", position |-> 0, prices |-> {}, mains |-> 0]}
      /\ \/ zones = {}
         \/ Cardinality(zones) > MaxShown
         \/ \E n \in zones : block[n].position # n
         \/ Cardinality(deeps) > 1 \/ \E n \in deeps : n # Len(block)
         \/ told[Len(block)] > 1

\* validate_plan, of the page as a text: not too long (render_plan refuses that
\* too), no control character or backtick, each fixed line and heading once, no id.
TextProblem(p) ==
  \/ p.text \in {"LONG", "FIXED", "HEADING"}
  \/ Values(p.news) \cap Unfit # {}

\* validate_plan, of the rendering of sel and c.
PageProblem(p, sel, c) ==
  \/ TextProblem(p)
  \/ p # Render(sel, c)
  \/ \E s \in Sides : SideProblem(p.blocks[s])
  \/ UNION {UNION {line.prices : line \in Values(p.blocks[s])} : s \in Sides} # Prices(sel)
  \/ Len(p.news) > MaxNews \/ ~(Values(p.news) \subseteq News)

-----------------------------------------------------------------------------
(* write_trade_plan: nothing is kept of an attempt that fails *)

Attempting == planStage \in {"OBSERVED", "SELECTED"}

\* observe, and everything up to the consolidated candidates.
Observe(o) ==
  /\ planStage = "NORMALIZED"
  /\ planStage' = "OBSERVED" /\ offered' = o /\ failure' = NoFailure
  /\ UNCHANGED <<ranking, selection, copy, page, edited, decision>>

\* Back to where it began; the answer it failed at is remembered with the failure.
FailedAt(what, answer) ==
  /\ planStage' = "NORMALIZED" /\ failure' = [at |-> what, said |-> answer]
  /\ offered' = {} /\ ranking' = NoRanking /\ selection' = NoSelection /\ copy' = NoCopy
  /\ UNCHANGED page

Rank(answer) ==
  /\ planStage = "OBSERVED"
  /\ IF Accepted(answer, offered)
       THEN /\ planStage' = "SELECTED" /\ ranking' = answer /\ selection' = Select(answer)
            /\ UNCHANGED <<offered, copy, page, failure>>
       ELSE FailedAt("RANKING", NoCopy)
  /\ UNCHANGED <<edited, decision>>

\* parse_plan_copy, render_plan, validate_plan, then the files as one.
WritePlan(answer) ==
  /\ planStage = "SELECTED"
  /\ LET p == Render(selection, answer) IN
     CASE ~CopyAccepted(answer, selection) -> FailedAt("COPY", answer)
       [] CopyAccepted(answer, selection) /\ PageProblem(p, selection, answer) ->
            FailedAt("PAGE", answer)
       [] OTHER -> /\ planStage' = "FINALIZED" /\ copy' = answer /\ page' = p
                   /\ UNCHANGED <<offered, ranking, selection, failure>>
  /\ UNCHANGED <<edited, decision>>

\* The process dies, or a provider does not answer.
Abandon ==
  /\ Attempting
  /\ FailedAt("PROVIDER", NoCopy)
  /\ UNCHANGED <<edited, decision>>

\* A person changes a committed file; bound: one of them.
Edit(file) ==
  /\ planStage = "FINALIZED"
  /\ edited = {}
  /\ edited' = {file}
  /\ UNCHANGED <<planStage, offered, ranking, selection, copy, page, failure, decision>>

-----------------------------------------------------------------------------
(* gate_trade_plan *)

\* _check_integrity, by the digests of the manifest; nothing else is read after
\* it fails.
Intact == edited = {}

\* _check_geometry_provenance, _check_ranking_provenance, _check_copy_provenance.
Traceable ==
  /\ Selected(selection) \subseteq offered
  /\ UNION {Values(ranking[b]) : b \in Buckets} = offered
  /\ {x.on : x \in copy.notes} \subseteq Selected(selection)
  /\ Distinct(copy.news) /\ Values(copy.news) \subseteq News

GateObjects == ~Intact \/ ~Traceable \/ PageProblem(page, selection, copy)

Gate ==
  /\ planStage = "FINALIZED"
  /\ planStage' = "GATED"
  /\ decision' = IF GateObjects THEN "BLOCKED" ELSE "APPROVED"
  /\ UNCHANGED <<offered, ranking, selection, copy, page, failure, edited>>

TradePlanNext ==
  \/ \E o \in SUBSET Menu : IsFiniteSet(o) /\ Cardinality(o) <= MaxOffered /\ Observe(o)
  \/ \E answer \in Answers(offered) : Rank(answer)
  \/ \E answer \in CopiesOf(offered) : WritePlan(answer)
  \/ Abandon
  \/ \E file \in Files : Edit(file)
  \/ Gate

TradePlanSpec == TradePlanInit /\ [][TradePlanNext]_tradePlanVars

-----------------------------------------------------------------------------
(* Properties *)

Outranks(side, x, y) ==
  \E m, n \in 1 .. Len(ranking[side]) : m < n /\ ranking[side][m] = x /\ ranking[side][n] = y

\* What is selected is what the analyst's order and the price geometry leave, by
\* definition and not by the order the loop met them: no zone shown contains
\* another; one not shown is nested with a better ranked one that is, or better
\* ranked ones fill the side; the main zone is the analyst's first; the farther
\* level is beyond every zone shown and no better ranked one is; the list goes
\* away from the price.
SelectionIsJustified ==
  planStage \in {"SELECTED", "FINALIZED", "GATED"} =>
    \A side \in Sides :
      LET shown == ZonesOf(selection, side)
          all   == InBucket(offered, side)
          best  == {z \in all : \A y \in all \ {z} : Outranks(side, z, y)}
          list  == selection.entries[side]
          beyond(l) == \A z \in shown :
                         IF side = "SEO" THEN l.lower > z.upper ELSE l.upper < z.lower
      IN  /\ \A x, y \in shown : x # y => ~Contains(x, y)
          /\ Cardinality(shown) <= MaxZones
          /\ \A z \in all \ shown :
               \/ \E y \in shown : Outranks(side, y, z) /\ Redundant(y, z)
               \/ Cardinality({y \in shown : Outranks(side, y, z)}) = MaxZones
          /\ Mains(selection) \cap all = best
          /\ shown = {} => selection.reference[side] = {}
          /\ \A l \in selection.reference[side] :
               /\ beyond(l)
               /\ \A k \in InBucket(offered, ReferenceBucket(side)) :
                    Outranks(ReferenceBucket(side), k, l) => ~beyond(k)
          /\ \A n \in 1 .. Len(list) - 1 : Distance(list[n].zone) <= Distance(list[n + 1].zone)

\* Where the copy's checks and the page's differ, and nowhere else: the page of an
\* answer the copy's checks accepted is refused only for a note that names the
\* main zone twice (_notes, trade_plan_copy.py:253, against _check_side,
\* trade_plan_presentation.py:480), for prose that quotes a fixed line or opens
\* like a heading, for a headline that cannot be shown, or for its length, none of
\* which parse_plan_copy looks at.  What the selection, the numbering, the two
\* ceilings, the prices and the farther levels come to never costs an attempt
\* both providers were paid for.
AcceptedCopyIsShown ==
  failure.at = "PAGE" =>
    \/ \E x \in failure.said.notes : Said(x.note) > 1
    \/ failure.said.text # "PLAIN"
    \/ Values(failure.said.news) \cap Unfit # {}
=============================================================================
