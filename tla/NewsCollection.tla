--------------------------- MODULE NewsCollection ---------------------------
(***************************************************************************)
(* The internal producer (services/producer.py): the news of one request,    *)
(* collected from public channels page by page (news_collector.py), merged   *)
(* (news_dedup.py), written into a brief (producer_brief.py) and submitted.  *)
(*                                                                         *)
(* A message is [id, at, story]; ids and, where there is one, times grow.    *)
(* A story stands for a text: whether it is relevant and which others it is  *)
(* similar to is given, similarity need not be transitive.  Text is a        *)
(* sequence of symbols, for the brief's frame counts them.                   *)
(***************************************************************************)
EXTENDS Integers, Sequences, FiniteSets, FiniteSetsExt, SequencesExt

CONSTANTS
  Channels,     \* the sources, in the order they are walked, and of their names
  Stories,
  Relevant,     \* stories that pass the relevance threshold
  Similar,      \* pairs of stories whose token sets overlap enough
  TextOf,       \* what each story looks like
  Score,        \* how relevant each is
  Feeds,        \* bound: what the channels may hold when the request arrives
  PageSize,     \* the preview's messages per page
  PageCap,      \* max_pages_per_source
  Budget,       \* global_page_budget, shared by the sources of one collection
  MaxItems,     \* how many items a collection keeps
  CuratedItems, \* how many of them a brief carries
  ArticleTypes, \* what an operator may have selected
  Producible,   \* those of them the producer builds a brief for, and are ready
  Sinces,       \* where the window may start: requested_at - lookback
  RequestedAt,
  MaxBrief,     \* MAX_RAW_TEXT_CHARS
  MaxAsked,     \* bound: the request and its retries
  Late,         \* bound: what is posted since the request
  MaxPosts      \* bound: how often a channel posts since

Undated == 0

ChannelSet == {Channels[i] : i \in 1 .. Len(Channels)}

\* Ids grow, and with them the times, where there is one.
RawMessages == [id : Nat \ {0}, at : Nat, story : Stories]
Chronological(messages) ==
  \A i, j \in 1 .. Len(messages) : i < j =>
    /\ messages[i].id < messages[j].id
    /\ Undated \in {messages[i].at, messages[j].at} \/ messages[i].at <= messages[j].at

ASSUME NewsAssumption ==
  /\ Channels \in Seq(ChannelSet) /\ Channels # << >>
  /\ Relevant \subseteq Stories /\ Late \subseteq Stories
  /\ Score \in [Stories -> Nat]
  /\ Similar \subseteq Stories \X Stories
  /\ \A s \in Stories : <<s, s>> \in Similar
  /\ \A p \in Similar : <<p[2], p[1]>> \in Similar
  /\ Producible \subseteq ArticleTypes
  /\ RequestedAt \in Nat /\ Sinces \subseteq Undated + 1 .. RequestedAt - 1
  /\ Feeds \subseteq [ChannelSet -> Seq(RawMessages)]
  /\ \A f \in Feeds, channel \in ChannelSet :
       /\ Chronological(f[channel])
       /\ \A m \in Range(f[channel]) : m.at <= RequestedAt
  /\ {PageSize, PageCap, Budget, MaxItems, CuratedItems, MaxAsked, MaxBrief} \subseteq Nat \ {0}
  /\ MaxPosts \in Nat

VARIABLES
  feed,     \* the messages of each channel
  request,  \* the request being answered, as the stored preferences make it
  walk,     \* collect_source of the channel being walked
  reports,  \* the sources of this collection that are done, in order
  gathered, \* the items they gave
  left,     \* pages left of the global budget
  asked,    \* how often the request was made
  event,    \* what the inbox or the ledger holds for the request: at most one event
  answers   \* what the producer answered, in order
newsVars == <<feed, request, walk, reports, gathered, left, asked, event, answers>>

Messages(channel) == Range(feed[channel])
Ids(page) == {m.id : m \in page}

NoWalk == [on |-> FALSE, before |-> 0, pages |-> 0, seen |-> {}, items |-> {}]
Beginning == [NoWalk EXCEPT !.on = TRUE]

Requests == [type : ArticleTypes, since : Sinces]
NoRequest == [type |-> "none", since |-> RequestedAt]

NewsInit ==
  /\ feed \in Feeds /\ request = NoRequest
  /\ walk = NoWalk /\ reports = << >> /\ gathered = {} /\ left = 0
  /\ asked = 0 /\ event = {} /\ answers = << >>

-----------------------------------------------------------------------------
(* Paging one source *)

Walking == walk.on
Channel == Channels[Len(reports) + 1]

\* The preview's newest page, or the one before a cursor.
Page(channel, before) ==
  LET older == {m \in Messages(channel) : before = 0 \/ m.id < before}
  IN {m \in older : Cardinality({n \in older : n.id > m.id}) < PageSize}
\* A cursor past the beginning is answered with nothing or with the same page.
Pages(channel, before) ==
  LET page == Page(channel, before)
  IN {page} \cup
     IF page = {} THEN {{m \in Messages(channel) : m.id < before + PageSize}} ELSE {}

\* Mutant: a source counts as covered when the others had spent the budget.
SpentCovers == {"CUTOFF_REACHED", "SOURCE_EXHAUSTED", "GLOBAL_BUDGET_REACHED"}
CoveringStops == {"CUTOFF_REACHED", "SOURCE_EXHAUSTED"}
Failures == {"FETCH_FAILED", "PARSE_FAILED"}

Report(stop, pages, items) ==
  [stop    |-> stop,
   pages   |-> pages,
   count   |-> Cardinality(items),
   covered |-> stop \in CoveringStops,
   outcome |-> CASE stop \in Failures /\ items = {} -> "FAILED"
                 [] stop \in CoveringStops          -> "OK"
                 [] OTHER                           -> "INCOMPLETE"]

\* The next source is walked with what is left of the budget.
Stop(reason, pages, items) ==
  /\ reports' = Append(reports, Report(reason, pages, items))
  /\ gathered' = gathered \cup items
  /\ walk' = IF Len(reports) + 1 < Len(Channels) THEN Beginning ELSE NoWalk

\* The two bounds are looked at before a page is asked for, the cap first.
StopShort ==
  /\ Walking
  /\ walk.pages >= PageCap \/ left = 0
  /\ Stop(IF walk.pages >= PageCap THEN "PAGE_CAP_REACHED" ELSE "GLOBAL_BUDGET_REACHED",
          walk.pages, walk.items)
  /\ UNCHANGED <<feed, request, left, asked, event, answers>>

Spend ==
  /\ Walking /\ walk.pages < PageCap /\ left > 0
  /\ left' = left - 1
  /\ UNCHANGED <<feed, request, asked, event, answers>>

\* An undated message is skipped; nothing is too new.
Kept(channel, page) ==
  {[channel |-> channel, id |-> m.id, at |-> m.at, story |-> m.story] :
     m \in {n \in page : n.at # Undated /\ n.at >= request.since}}

FetchPage == Walking /\ \E page \in Pages(Channel, walk.before) :
  LET items  == walk.items \cup Kept(Channel, page)
      stamps == {m.at : m \in page} \ {Undated}
      cursor == Min(Ids(page))
      goesOn == [walk EXCEPT !.before = cursor, !.pages = @ + 1,
                             !.seen = @ \cup {cursor}, !.items = items]
      StopFor(reason) == Stop(reason, walk.pages + 1, items)
  IN /\ page # {}
     /\ Spend
     /\ CASE \E at \in stamps : at < request.since -> StopFor("CUTOFF_REACHED")
          [] OTHER ->
               IF cursor <= 1 THEN StopFor("SOURCE_EXHAUSTED")
               ELSE IF cursor \in walk.seen THEN StopFor("REPEATED_CURSOR")
               ELSE
                      walk' = goesOn /\ UNCHANGED <<reports, gathered>>

\* A page without messages does not parse: of a first page that is a failure.
EmptyPage ==
  /\ Walking
  /\ {} \in Pages(Channel, walk.before)
  /\ Spend
  /\ Stop(IF walk.pages = 0 THEN "PARSE_FAILED" ELSE "EMPTY_PAGE", walk.pages, walk.items)

\* RATE_LIMITED is one of these: the source is left at once, without a retry.
FetchFails == Spend /\ Stop("FETCH_FAILED", walk.pages, walk.items)

-----------------------------------------------------------------------------
(* The collection *)

ChannelIndex(channel) == CHOOSE i \in 1 .. Len(Channels) : Channels[i] = channel

\* Canonical order: by time, then channel, then id.
Before(m, n) ==
  \/ m.at < n.at
  \/ m.at = n.at /\ ChannelIndex(m.channel) < ChannelIndex(n.channel)
  \/ m.at = n.at /\ m.channel = n.channel /\ m.id < n.id

\* Each item joins the first group whose representative it is similar to.
Grouped(groups, item) ==
  LET fits == {i \in 1 .. Len(groups) : <<groups[i].story, item.story>> \in Similar}
  IN IF fits = {}
     THEN Append(groups, [channel |-> item.channel, id |-> item.id, at |-> item.at,
                          story |-> item.story, others |-> {}])
     ELSE [groups EXCEPT ![Min(fits)].others = @ \cup ({item.channel} \ {groups[Min(fits)].channel})]

Canonical(items, i) ==
  CHOOSE item \in items : Cardinality({m \in items : Before(m, item)}) = i - 1

deduplicate(items) ==
  LET groups[n \in 0 .. Cardinality(items)] ==
        IF n = 0 THEN << >> ELSE Grouped(groups[n - 1], Canonical(items, n))
  IN groups[Cardinality(items)]

Merged == Range(deduplicate({item \in gathered : item.story \in Relevant}))

\* The rank of an item: the more relevant first, then the more recent, then the
\* better corroborated.
Ahead(m, n) ==
  LET worth(g) == <<Score[g.story], g.at, Cardinality(g.others)>> IN
  \/ Score[m.story] > Score[n.story]
  \/ Score[m.story] = Score[n.story] /\ m.at > n.at
  \/ /\ Score[m.story] = Score[n.story] /\ m.at = n.at
     /\ Cardinality(m.others) > Cardinality(n.others)
  \/ /\ worth(m) = worth(n)
     /\ \/ ChannelIndex(m.channel) < ChannelIndex(n.channel)
        \/ m.channel = n.channel /\ m.id < n.id

\* Mutant: the ceiling cuts what was merged before it is ranked.
OldestFew(merged) ==
  {g \in merged : Cardinality({h \in merged : Before(h, g)}) < MaxItems}
\* What the ceiling leaves of what was merged.
Best(merged) ==
  {g \in merged : Cardinality({h \in merged : Ahead(h, g)}) < MaxItems}

\* The items of the collection.
Collection == Best(Merged)
Curated ==
  LET ranked == SetToSortSeq(Collection, Ahead)
  IN SubSeq(ranked, 1, Min({CuratedItems, Len(ranked)}))

Reports == Range(reports)
\* Of the walks alone: what the ceiling cuts does not count (schemas/news.py:225).
complete == \A r \in Reports : r.covered
CollectionOutcome ==
  IF \A r \in Reports : r.outcome = "FAILED" THEN "FAILED"
  ELSE IF \E r \in Reports : r.outcome = "FAILED" \/ ~r.covered THEN "PARTIAL"
  ELSE "OK"

-----------------------------------------------------------------------------
(* The brief *)

Sym(kind) == [kind |-> kind, n |-> 0]
Header(n) == [kind |-> "header", n |-> n]   \* an item's header: it frames n symbols
Newline == Sym("newline")
Space == Sym("space")
End == Sym("end marker")

\* Line ends are unified and a letter takes the mark that follows it (NFC).
Compose(text, s) ==
  LET previous == IF text = << >> THEN "" ELSE Last(text).kind IN
  CASE s.kind = "newline" /\ previous = "return" -> Front(text) \o <<Newline>>
    [] s.kind = "mark" /\ previous = "letter"    -> Front(text) \o <<Sym("accented")>>
    [] OTHER                                     -> Append(text, s)
Unified(text) ==
  LET composed == FoldLeft(Compose, << >>, text)
  IN [i \in 1 .. Len(composed) |->
        IF composed[i].kind = "return" THEN Newline ELSE composed[i]]

Visible(s) == s.kind \notin {"invisible", "control"}

\* Spaces wait for what follows them: before a line end they are dropped.
RightStrip(acc, s) ==
  CASE s = Space   -> [acc EXCEPT !.spaces = Append(@, s)]
    [] s = Newline -> [out |-> Append(acc.out, s), spaces |-> << >>]
    [] OTHER       -> [out |-> acc.out \o acc.spaces \o <<s>>, spaces |-> << >>]
RightStripped(text) == FoldLeft(RightStrip, [out |-> << >>, spaces |-> << >>], text).out

Strip(text) ==
  LET ink == {i \in 1 .. Len(text) : text[i] \notin {Space, Newline}}
  IN IF ink = {} THEN << >> ELSE SubSeq(text, Min(ink), Max(ink))

sanitize_analysis_text(text) ==
  Strip(RightStripped(SelectSeq(Unified(text), Visible)))

ItemRecord(text) == <<Header(Len(text))>> \o text \o <<Newline, Newline>>

\* Mutant: the count is taken of the text as it was collected.
CollectedText(text) == text
\* The count is taken of the sanitized text.
sanitized_item_text(text) == sanitize_analysis_text(text)

render_brief(texts) ==
  FlattenSeq([i \in 1 .. Len(texts) |-> ItemRecord(sanitized_item_text(texts[i]))]) \o <<End>>

\* One frame: cursor moves past it, or is 0 for good.
Unframe(document, acc) ==
  LET at    == acc.cursor
      start == at + 1
      past  == start + document[at].n
  IN IF \/ at = 0 \/ document[at].kind # "header"
        \/ past + 1 > Len(document)
        \/ SubSeq(document, past, past + 1) # <<Newline, Newline>>
     THEN [acc EXCEPT !.cursor = 0]
     ELSE [cursor |-> past + 2,
           texts |-> Append(acc.texts, SubSeq(document, start, past - 1))]

\* The texts of a brief that declares how many it holds, or nothing.
parse_brief(document, declared) ==
  LET parsed == FoldLeft(LAMBDA acc, i : Unframe(document, acc),
                         [cursor |-> 1, texts |-> << >>], [i \in 1 .. declared |-> i])
  IN IF parsed.cursor = Len(document) /\ Last(document) = End THEN {parsed.texts} ELSE {}

-----------------------------------------------------------------------------
(* Producing *)

Idle == asked < MaxAsked /\ ~Walking /\ reports = << >>

\* The cheapest refusals come first: a window that ends in the future, a type
\* nothing produces.
RefusalOf(wanted, ahead) ==
  IF ahead THEN "INVALID_REQUEST"
  ELSE IF wanted.type \notin Producible THEN "ARTICLE_TYPE_NOT_READY"
  ELSE "none"

\* The preferences are read once, at the request; it may be a retry.
Request(wanted, ahead) ==
  /\ Idle
  /\ asked' = asked + 1
  /\ IF RefusalOf(wanted, ahead) = "none"
     THEN /\ request' = wanted /\ walk' = Beginning /\ left' = Budget
          /\ UNCHANGED answers
     ELSE /\ answers' = Append(answers, RefusalOf(wanted, ahead))
          /\ UNCHANGED <<request, walk, left>>
  /\ UNCHANGED <<feed, reports, gathered, event>>

Texts == [i \in 1 .. Len(Curated) |-> TextOf[Curated[i].story]]

Oversized == Len(render_brief(Texts)) > MaxBrief

\* What the event says: the request, the items and, for each source, how its
\* walk went.
Payload == [request |-> request, items |-> Curated, sources |-> reports]

\* Submitted as the request's one event (admission is modelled in Admission).
ProducerAnswer ==
  IF CollectionOutcome = "FAILED" THEN "NEWS_COLLECTION_FAILED"
  ELSE IF Oversized THEN "BRIEF_TOO_LARGE"
  ELSE IF event = {} THEN "SUBMITTED"
  ELSE IF event = {Payload} THEN "ALREADY_SUBMITTED"
  ELSE "CONFLICT"

\* The walk is over: the collection is refused or submitted.
Produce ==
  /\ ~Walking /\ reports # << >>
  /\ answers' = Append(answers, ProducerAnswer)
  /\ event' = IF ProducerAnswer = "SUBMITTED" THEN {Payload} ELSE event
  /\ reports' = << >> /\ gathered' = {} /\ request' = NoRequest
  /\ UNCHANGED <<feed, walk, left, asked>>

-----------------------------------------------------------------------------
Posted(channel) ==
  Cardinality({m \in Messages(channel) : m.at > RequestedAt})

\* A channel goes on publishing.
Post(channel, story) ==
  /\ asked > 0
  /\ Posted(channel) < MaxPosts
  /\ feed' = [feed EXCEPT ![channel] =
       Append(@, [id |-> IF @ = << >> THEN 1 ELSE Last(@).id + 1,
                  at |-> RequestedAt + 1, story |-> story])]
  /\ UNCHANGED <<request, walk, reports, gathered, left, asked, event, answers>>

NewsNext ==
  \/ \E wanted \in Requests, ahead \in BOOLEAN : Request(wanted, ahead)
  \/ StopShort \/ FetchPage \/ EmptyPage \/ FetchFails \/ Produce
  \/ \E channel \in ChannelSet, story \in Late : Post(channel, story)
NewsSpec == NewsInit /\ [][NewsNext]_newsVars

-----------------------------------------------------------------------------
(* Properties *)

\* A collection that calls itself complete has missed nothing: every dated,
\* relevant message of every channel that was published inside the window is
\* told by a merged item, no later than the message, however the pages were cut
\* and the budget shared (news_collector.py:207, news_dedup.py:18).  That item is
\* one of the collection's, unless the ceiling cut it (news_collector.py:401):
\* then the collection is full, of items that all rank ahead of it.
CompleteIsComplete ==
  ~Walking /\ reports # << >> /\ complete =>
    \A channel \in ChannelSet : \A m \in Messages(channel) :
      m.at \in request.since .. RequestedAt /\ m.story \in Relevant =>
        \E item \in Merged :
          /\ <<item.story, m.story>> \in Similar /\ item.at <= m.at
          /\ \/ item \in Collection
             \/ /\ Cardinality(Collection) = MaxItems
                /\ \A other \in Collection : Ahead(other, item)

\* What was written is what arrives: the brief, once the pipeline has sanitized
\* it as a whole, still parses, and into the texts of the items it was rendered
\* from (producer_brief.py:125).
BriefArrives ==
  ~Walking /\ reports # << >> =>
    parse_brief(sanitize_analysis_text(render_brief(Texts)), Len(Texts)) =
      {[i \in 1 .. Len(Texts) |-> sanitize_analysis_text(Texts[i])]}

\* The news of an event lies inside the window the event is about.
NewsIsInsideWindow ==
  \A e \in event : \A i \in 1 .. Len(e.items) : e.items[i].at \in e.request.since .. RequestedAt
=============================================================================
