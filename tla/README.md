# Verification of the gold analysis pipeline

TLA+ models of `src/src/goldpipeline`, checked by TLC on small instances, with
theorems checked by TLAPS. Paths below are relative to `src/src/goldpipeline/`
unless they start with `src/`.

## The system

An external producer, a collector of news and a bot command drop analysis
events into an inbox. A worker, started every minute by Windows Task Scheduler,
turns each event into a *Run* (a directory with a manifest and write-once
artifacts), drives the Run through writer, reviewer, finalizer and publish gate,
shows it to an operator, and may publish the article to a Telegram channel.
Operators can do every step by hand. All state is files; processes meet only
there.

| Component | State | Operations | Hard because |
| --- | --- | --- | --- |
| Run lock, worker lock (`services/run_lock.py`) | a lock file with its holder's token | acquire, release | a killed holder leaves the file; a person removes it; most commands take no lock at all |
| Run store (`storage/`) | artifacts, `manifest.json` | `commit_artifacts`, `save_manifest`, `load_manifest` | check and rename are apart; manifest saved whole, after the files |
| Inbox and ledger (`services/inbox.py`) | folders of event files, one ledger entry per event | submit, claim, complete, release, reject; reserve, settle | claims race; renames overwrite; an entry exists before it is written |
| Ingestion (`services/ingestion.py`, `pipeline.py`) | in memory, between accesses | ingest, `create_run`, reconcile | a kill anywhere between reservation, Run and settlement |
| Admission, event intake (`services/admission.py`, `event_intake.py`) | none of its own | classify, submit | looks in several places one after another, while the worker moves the event |
| Orchestrator (`services/orchestrator.py`) | the Run's status | run, resume, one stage per turn | re-reads the manifest; failures end the invocation; three modes |
| Stages (`writer`, `reviewer`, `finalizer`, `digest_stage`, `trade_plan_stage`) | their artifacts | check inputs, ask a provider, commit, save | a stale manifest is held over a provider call; each stage checks what an earlier one left open |
| Gates (`publish_gate`, `trade_plan_gate`) | the decision | verify digests, re-read, judge, commit | files can change between the two readings |
| Publisher (`services/publisher.py`, `adapters/telegram_publisher.py`) | intent, result, channel | write-ahead intent, chunks with retries, result | lost replies, partial delivery, crash in between, no way to ask |
| Automation worker (`services/automation.py`, `automation_state.py`) | retry and deferral state | one tick: poll, fetch, reconcile, promote, resume, ingest, deliver | order of the steps, backoff, exhaustion, expiry |
| Plan command (`services/plan_command.py`, `plan_delivery.py`) | update offset, receipts, reply records | poll, submit, acknowledge, answer | at-least-once updates, at-most-once replies |
| Review delivery (`services/review_delivery.py`) | intent and result | show once | a crash between sending and recording; a publication meanwhile |
| Trade plan (`trade_plan_*.py`, `trade_analyst.py`) | one attempt | rank, select, copy, render, gate | a provider's answer is accepted in one place and refused in another |
| ICT analysis (`services/ict_*.py`) | none | swings, breaks, zones, candidates, features | what one reading concluded must survive the next candle |
| Market data (`adapters/*_market.py`, `normalizer.py`, `price_reaction.py`) | one load | read, select, normalize, compare | the venue trades on while several timeframes are read |
| News (`news_collector.py`, `news_dedup.py`, `producer*.py`) | one collection | page, merge, curate, render, submit | bounds shared by sources; the text is sanitized again after it was counted |
| Adapters, configuration, CLI | none that a protocol reads | providers, secrets | input and output |

What makes each correct, in a line: at most one holder acts on a Run; a manifest
never claims what is not on disk; one event becomes at most one Run and the
ledger says what became of it; a Run only moves forward; only what was reviewed
and approved is published, at most once, and the record says truthfully whether
it was; a request is answered once; what is read of the market is what the
market was. `PROJECT.json` lists the hazards behind each at their lines.

## Modules

`MC*` give model values, `*Proofs` hold the theorems. Definitions whose comment says "a plausible bug" or
"Mutant" are mutated forms of the definition below them; they show that a
property notices the bug, and nothing else uses them.

### Runs and their publication

`RunLock` - the lock file. `lockFile` is the token in it, `held` the processes
whose `RunLock` object thinks it owns the lock, `dead` the killed ones. A person
removes a lock only when its holder is dead (what `src/README.md` and the refusal
message ask for); release removes the file only when the token is the holder's.
`Publisher`, `Ingestion` and `RunPipeline` extend it with their own state.

`Publisher` - one Run from READY_TO_PUBLISH on. Processes are invocations:
`Pipelines` come through the orchestrator, `Clis` are the standalone `publish`
command. `pc` walks through `publish_run` and `_deliver`; each action is one
access to the disk or to Telegram, because that is where another process or a
kill can come between. A send is confirmed, answered with 429, refused or
ambiguous; an ambiguous one may or may not have reached the channel (`posted`).

`PublishOnce` - what publishing promises: nothing, then one attempt that may
post a prefix of the chunks, each once, then a recorded outcome that is
consistent with what was posted. `Publisher` implements it as long as every
invocation is orchestrated; `PlanCommand` implements it for each reply and
`ReviewDelivery` for the copy it shows.

`RunPipeline` - one Run from NORMALIZED to the gate's decision, of any article
type. `disk` holds for each file its writer (which stands for the digest), its
verdict and the digests it names; `manifest` the status and the recorded
digests. `mem` is the manifest an invocation loaded, which is what it later
saves. A stage is Load, Require, provider, CheckAbsent, Rename (one per file),
Save; an event is LoadEvent, SaveEvent. The file `plan` stands for the trade
plan's twelve artifacts other than the page. A gate verifies digests, then reads
the files again and judges them; the gate of a plan reads the page a third time
(`Sign`), and the decision names that last reading. The publish stage is where this
module ends and `Publisher` begins: both start from a saved status.

`ArticleChecks`, `ReviewPolicy`, `Editorial` - the content of a Run. An article
is a set of passages, each with the check that recognises it, its text and its
place. `ArticleChecks` are the deterministic checks (numbers against facts,
symbols, sections, sources of news), `ReviewPolicy` what a review decides and
which revision answers it, `Editorial` the four stages over them, with any
response of a provider from a small set. A response a stage refuses changes
nothing, as in the code.

`TradePlan` - one attempt after another at a plan: candidates offered, the
analyst's ranking accepted or refused, the selection, the copy, the page and the
plan's gate. Nothing of a failed attempt is kept but its failure. The words of a
copy are one of four kinds (`Texts`: nothing about them, they quote a line the page
has once, open like a heading, or make it too long), and a cited headline may be
`Unfit` (control character, backtick, an id), for the page is checked as a text
too (`TextProblem`). Its gate is one step here; the readings it makes one after
another are in `RunPipeline`.

### The inbox and the worker

`Ingestion` - an event id from the inbox to a Run. `box` is the folders,
`ledger` the index (`ABSENT`, `TORN` for an entry that exists and cannot be
parsed, `RESERVED`, `INGESTED`, `ABANDONED`), `run` the Runs by id. Processes are
ticks (under the worker lock), operators' commands and producers. One action per
access; `Raise` ends an invocation at any step.  TicksRecover is stated as long as
`OnlyTicks` ingest and reconcile; a command holds no worker lock.

`Admission` extends it with lookups: `look[p]` is where an invocation stands on
its way through the ledger and the folders, and `known` (a history variable)
whether the event was somewhere all the while, moving only ahead.

`Automation` - ticks, one after another, over many Runs and events. An event and
the Run it becomes share a number. An invocation of a Run and an ingestion are
one step each, with every outcome the orchestrator and the ingestion service can
report (`RunPipeline` and `Ingestion` look inside them); between steps people
submit analyses, drive Runs by hand and switch unattended publishing. There is
no absolute clock: a tick compares everything with the instant it started at, so
ages and waits are kept as of that instant, `lag` counts the minutes its calls
take, and `EndTick` lets them pass. Ages are kept up to one past their limit,
attempts up to one past the schedule: nothing the code compares can tell more.

`PlanCommand` - Telegram's updates `1 .. posted`, the durable `offset`,
`receipt` and reply records, and one tick's memory. The event's and the Run's
own way is the one variable `stage`. `ReviewDelivery` - the copy of an approved
Run shown to a human, with the manifest it saves twice from the copy it loaded
first, and an operator's publication in between.

### What is read

`IctStructure`, `IctZones`, `IctCandidates` are the ICT analysis as functions of
a series of candles (swings, breaks, dealing range; gaps and blocks with their
lifecycles; sources, eligibility, consolidation, features). `IctStream` appends
one candle after another and reads again, on two timeframes.

`Candles` - a tape of prices by the minute, the candles a venue makes of it, and
the price reaction over a window. `Normalization` - what the normalizer accepts
of a payload of rows and what it warns of; a payload may declare calendar months,
which have no duration and are therefore not looked at for holes or age. `MarketRead`
- one job that reads its candles from a venue that goes on trading, over a socket,
from a terminal or from a file. The model's months are as long as its timeframe,
which nothing in the code sees.

`NewsCollection` - the internal producer: channels walked page by page under a
cap and a shared budget, merged, ranked, cut at the collection's ceiling (`Best`),
curated, framed in a brief that is sanitized once more on arrival, and submitted,
possibly twice. `complete` is, as in the code, a word about the walks and not about
the ceiling: CompleteIsComplete says of a collection over it that what was cut ranks
behind all it kept.

## Runs

| Run | Instance | Shows |
| --- | --- | --- |
| `publish_mixed` | 3 orchestrated invocations, or one beside a publish command and an editor; 2 chunks | LockedPostsOnce, LockedIsConsistent, LockedKeepsPromise (refinement of `PublishOnce`) under the lock; OutcomeIsTruthful, OnlyApprovedText without it; InvocationsEnd |
| `publish_race` | 2 publish commands | **violated** AtMostOnce: a chunk is posted twice |
| `ingest_parties` | 2 ticks and a producer, each submitting with or without looking; or 2 commands at once over two contents of an event | TicksRecover, OneRunPerEvent, LedgerNamesEveryRun, LookupMissesNothing, MappingNeverRewritten |
| `pipeline_mixed` | 3 pipelines, 3 article types, 3 modes; or a pipeline, a stage command and one edit | ManifestIsTrue, RecordOnlyGrows, ApprovedIsReviewed, InvocationsEnd |
| `automation_ticks` | 2 event ids, 2 submissions or one and an invocation by hand, calls up to 2 minutes, a tick's time 1 | BacklogStaysPut, StaleAnalysisNeverIngested, NoRunStarves, EveryEventEnds |
| `plan_replies` | 2 updates, one a request; one kill, one change of settings, one failure | OneEventPerRequest, RepliesKeepPromise (`PublishOnce` per reply), EveryRequestAnswered |
| `review_shown` | 2 chunks, 2 kills, a publication meanwhile | ReviewKeepsPromise (`PublishOnce`), EveryIntentCloses |
| `ict_readings` | every market of up to ten candles of five shapes, read after each | AnalysisNeverAborts, LevelsAreSound, FeaturesAgree, NothingIsRepainted |
| `plan_pages` | offers of up to five of ten candidates around one price; copies of every kind of note and text; a headline that can be shown and one that cannot | SelectionIsJustified, AcceptedCopyIsShown |
| `editorial_revisions` | drafts with one of fourteen faults or one of three pairs, two article types | SevereFindingsAreRepaired, FinalizerForestallsGate, RevisionExists, ApprovedIsSourced |
| `market_reads` | two timeframes, a market of two prices and quiet minutes, eight minutes | ObservationIsOneInstant, ReactionIsTrue, FileIsNotGuessed, ReadingEnds |
| `news_windows` | two channels, four stories, one of them similar to two others; a ceiling of two items | CompleteIsComplete, BriefArrives |

No run checks a type invariant: those are theorems, where there are theorems,
and in the other modules the properties would not evaluate without the types.

### Bounds

Three invocations are the least that show a kill, a removal of the lock and two
that follow or race; the second chunk is what makes a partial delivery; one event
is enough for `Ingestion`, because entries and Runs of different events never
touch (its theorems hold for any number). The run uses renames that overwrite,
the more dangerous kind; the theorems hold for either. One edit by hand, one
change of settings, retries per chunk bounded by the code's own limit given
small. In `Automation` two events are what one Run needs to starve another. Its
limits and delays are small numbers in the code's order: the configuration delay
(4 for 30) longer than what a tick's calls take (`MaxLag`) and the rest between
two ticks (`MaxRest`) together, the age at which an analysis expires (2 for 60)
above the age at which an approved Run is no longer published (1 for 30). The
first is a real condition: with a configuration delay of 2 or 3 TLC finds an
older Run that fails in every tick, takes all its time, and starves the younger.

Ten candles are what a swing, its break, a retest and a second leg take with one
bar on each side. Five candidates fill a side beyond `MaxZones` and leave a
farther level. A draft's fault is a case some check treats in its own way, and
a pair is what one can hide behind. In `MarketRead` a tape of eight
minutes holds two candles of each timeframe before the job, and its clock goes
back within them; the digest's window ends inside a candle, which may close before
it is read. Of two complete walks in `MCNewsCollection` three stories can come, one
more than the ceiling. `MaxBrief` is small so that BRIEF_TOO_LARGE occurs, which the
code's own bounds leave unreachable; and the texts of `MCNewsCollection` exclude
an invisible character between a letter and its mark, for which BriefArrives is
false (a finding). Deadlock is not checked where a finite set of invocations, or
one job, just ends.

### Fairness

`Publisher`, `RunPipeline`: weak fairness of the steps of started invocations; a
provider call, a request or a file access returns or raises (the clients have
timeouts). `Automation`: a tick is started again and again, within `MaxRest`
minutes of the last one's end (`services/task_plan.py`), and ends; NoRunStarves
takes an invocation to report its failures as the orchestrator's own errors.
`PlanCommand`: ticks go on; polls do not fail for ever; time passes; a due retry
is attempted. `ReviewDelivery`: a tick looks at every Run. `MarketRead`: the
reader goes on and time passes, and nothing at all is expected of the venue; at
the model's horizon a deadline counts as passed. Nothing makes an invocation
start, a person remove a lock, or an error happen.

## Findings

`PROJECT.json` lists where the code and its documents disagree, each with its
line. One is a run of its own (`publish_race`). Others contradict a promise that
stays in its module as a definition no run checks, so that it can be tried:
`IngestedIsNormalized` (a CREATED Run counts as ingested), `DueStageCanRun` (a
kill before the manifest is saved strands the Run), `AdvanceForgetsFailures` (a
failure is counted on from those of a stage that has succeeded since),
`EveryRevisionExists` (scoped style findings can bind a revision to sections
other than the one a HIGH issue is in), `NewsIsInsideWindow` (what is posted
after the request is collected).

Four limit a property that is checked, which says so where it is stated. The gate
of a plan records the page as it reads it after its checks, so ApprovedIsReviewed
claims of a plan only what holds of a page an orchestrated stage wrote. The page's
checks see more than the copy's, so AcceptedCopyIsShown lists what of a copy's words
and headlines can still cost the attempt. A file of months is never warned of a hole
(FileIsNotGuessed asks for a timeframe of fixed length). A collection over its
ceiling remains complete.

## Proofs

A `*Proofs` module extends the module it is about. Everything in it is checked
by TLAPS to the last leaf, for every value of the constants that meets the named
assumptions of the module that declares them (sizes are natural numbers, the sets
of parties are disjoint, sentinels are no members; TLC evaluates them in every
run). `PROJECT.json` lists the theorems; what follows is the argument of each.

`PublisherProofs` - any invocations, chunks, retries and texts. *Under the lock*
(every invocation orchestrated) `LockedInv` is inductive: only the lock's owner
runs, and what it checked on disk earlier is still so when it acts. AtMostOnce
alone is not inductive: it needs that whoever sends chunk `idx` wrote the intent,
and that the channel has the chunks before it and no other. From it follow
PostedAtMostOnce, StatusAlwaysMatchesResult and the refinement of `PublishOnce`
(a step of `publish_run` is a step of the promise or none). *Without it*, two
more: RecordedOutcomeIsTrue (an invocation posts in order and only under its own
name, stops posting before it concludes, and whoever closes another's attempt
claims nothing of it) and ApprovedTextOnly (what an invocation holds in memory
was compared with the decision's digest).

`AdmissionProofs`, first part - any processes, events and contents, either kind of
rename. `MappingInv`: an entry is made by one exclusive create, so it has one writer until
it is settled; a Run is made only by who holds the reservation that names it; a
settle writes back the identity it read. AtMostOneRun, EveryRunNamed and WriteOnce
rest on that alone, and on neither the lock nor the claim.

`AdmissionProofs`, second part - ticks and lookups. As long as only ticks ingest and
reconcile (`OnlyTicks`, a condition of TicksRecover in `Ingestion`), the worker
lock leaves one at work (`Alone`), so a reservation that is nobody's is one a
killed tick left; per place a tick stands at, the invariant says which events it
has put in order (`Tidy`) and what it knows of the one in hand (`Knows`):
KilledTicksAreRecovered. A lookup reads five places one after another while the
event moves. It misses nothing because the places are read in the order an event
goes through them (`LookInv`: it is still ahead of who looks, or was found).

`RunPipelineProofs` - any pipelines, commands and article types. RecordIsTrue and
RecordOnlyAdds, as long as no command or hand is at work: the lock lets one
pipeline work at a time, so the manifest it holds is the one on disk or ahead of
it by what it has itself put there, and a roll-back removes only what was never
recorded. A saved manifest is `TrueOfDisk` and `Whole` because the files come
first. ApprovalIsOfTheReviewed uses, for articles, no lock and no such condition. A gate reads digests,
then the files again, and others may commit in between. The invariant follows
the digests `N` an approval names (`Evident(N)`): they belong together; the
review among them is a commit of one file, never rolled back, so once it is
replaced it does not return; a final article may return, rewritten by the same
pipeline, but then from the review that is on disk. Of a plan the approval names the
page as it was last read, and the argument is another: a plan in place is never
replaced by a stage, and whoever works under the lock and wrote the page had its
plan judged with it (`Page`, `PlanningInv`).

`AutomationProofs` - any events, delays and limits. A Run that was ready and too
old when the tick began is on no list the tick still goes through, and an
analysis it is about to ingest was young enough: BacklogIsLeftAlone and
StaleIsNeverIngested, with an invocation free to do whatever the orchestrator
can report.

`ReviewProofs`, first part, about `Editorial` - any drafts, claims, issues, style
findings and additions, and any context to compare with. The review answers for every
severe finding, at its severity or higher (`Represented`, from what `FindingsAsIssues`
does to findings with a code of one severity each), and its verdict is no milder than
they require (`Escalated`); a final text was passed through or accepted (`Passed`,
`Closed`). SevereIsRepaired, GateFindsReviewClosed and ApprovedTextIsSourced follow.
Its two assumptions say that a reported issue has the schema's fields, and that
the mark for "no text" is none.

`ReviewProofs`, second part, about `ReviewDelivery` - any chunks, retries and kills.
What the operator has is always the first chunks, each once; whoever finds an intent
sends nothing. CopyIsShownOnce is the refinement of `PublishOnce`. A manifest saved
over a publication's does not touch it: the copy's own intent and result are read.

`IctProofs` - any first candles, any shapes of the ones that follow, any number of
them, any tolerance, zone basis and mitigation rule: AnalysisNeverAborts,
LevelsAreSound, FeaturesAgree and NothingIsRepainted, all that `ict_readings` checks.
The one assumption on the market (`MarketAssumption`) is what `OHLCBar` validates: a
candle's high and low contain its body. The invariant of the variables is short
(`MarketInv`: the candles are candles, the reading is theirs); the weight is in the
analysis. Its four loops are shown to exist as functions of the candle they have
reached, and each has an invariant of its own. `StructureInv`: a swing that a close
went beyond is used up or has a newer one of its side in front of it, which the next
break clears with it (`Covered`, `SidesApart`), so the newest has not fallen.
`RangeInv`: while a range is active, the bias is its direction and its origin is
live, so a break without an anchor cannot meet it. `GapInv`: a gap not filled has
been covered by no candle since. `LiquidityInv`: pools are tight, share no swing with
each other or with those unpaired, and the live ones are untouched, whichever of the
three ways a swing is admitted (`AdmittedKeeps`). NothingIsRepainted compares a series
with the same series and a candle more (`Later`): a swing, once confirmed, stays,
what is eligible before a candle stays, so every loop agrees with itself on the
candles both have (`CandlesStay`, `RangesStay`, `PoolsStay`, `GapStatesStay`).

`PlanProofs`, first part, about `TradePlan` - any candidates, price, ranking, copy and counts. The invariant
is short (`SelectionInv`: the selection at hand is the one of an accepted ranking);
the weight lies in what `Select` returns. `SoFar` says what `_select_side` has
after each turn and why it left the others, and is followed turn by turn; the list
shown exists because a finite set has an order along any relation that is total on
it and transitive (`OrderExists`, `ShownOrders`). SelectionJustified follows. For
AcceptedIsShown (nothing but a note, the words or a headline costs an accepted copy
its page), `SidePlan` is what the page relies on, and of the lines of a side
only the main zone's says so (`MainsAre`, `OneLineSays`). Induction theorems cannot
be used, so a loop is followed to its least turn that goes wrong (`LeastElement`,
from the well-foundedness of finite subsets), and the recursive functions, which
TLA+ chooses, are shown to exist first.

`PlanProofs`, second part, about `PlanCommand` - any updates and settings. `BatchInv`:
what a poll returned is worked through from the offset on without a hole. `EventInv`:
a receipt and the event come before the offset moves, and a submission that is repeated
recognises the first. `ReplyInv`: a reply's record is on disk before it is made.
NothingLostOrRepeated, ToldOnce, and RepliesArePublishedOnce: each reply is an
instance `Once(k)` of `PublishOnce` with one chunk.

`InputProofs`, first part, about `MarketRead` - any prices, timeframes, depths, window
and retries, any tape, and whatever the venue sends when. `ConstantFacts` come from `MarketAssumption`. One
notion carries the first two properties: a series is `Sound` for an instant if, of
the candles that had closed by then, it has only real ones and, from its first on,
all of them; of later ones nothing is asked, for they still move. What the venue
answers is sound (`VenueSound`); a minute of trading later it still is, since a
candle whose period is over stays as it is (`RealStays`); laid over each other in
the order they came, sound rows stay sound, however the socket cut them up
(`OverlaidSound`); and so they do cut at a clock and to the newest (`ClosedSound`,
`NewestSound`). `MarketInv` says this of what was read, of the rows at hand and of
those still under way, so a retry that loses the latter does no harm.
ObservationsAreOneInstant follows, as a hole or a candle that was still open would
contradict it, and ReactionsAreTrue (`ReferenceFacts`: the candles a reference is
taken from are all there, though the window was over before anything was read). Its
clause on a quiet market needs more, for it is about candles that were open when the
window ended: a digest's series is also `Told`, every trade since its first candle is
in the period of one of its candles, be it still open. A candle across the window's
end that has closed since is then among them, and it overlaps the window.
FilesAreNotGuessed has no venue to rely on: a row shows a candle, or what a clock
said of it (`Shows`), two instants have one reading only in the hour shown twice, and
a missing candle leaves two neighbours further apart than a timeframe, which
`_check_gaps` sees if the timeframe has a length (`HoleIsSeen`). Here `ClockAssumption` is used: a clock goes back
by no more than a timeframe or by whole candles of it, as thirty or sixty minutes do
for the timeframes in use. Otherwise a row read an hour early could stand between two
candles, and hide that one is missing.

`InputProofs`, second part, about `NewsCollection` - any channels, pages, caps, budgets
and stories, and whatever is posted meanwhile. CompletenessIsTrue rests on what a walk
has at each page: everything of the window from its cursor on (`WalkInv`, `Has`). A page
adds what lies between two cursors, and what it leaves out is either older or ahead
of the cursor (`PageFacts`, `PageAdds`); a walk stops as covered only when nothing of the
window lies before the page (`StopStep`), and its report keeps that, though the channel
goes on publishing, as what it posts is later than the request (`FeedInv`). Here it
is assumed that a channel numbers and dates its messages in the same order
(`Chronological`, in `NewsAssumption`), which `collect_source` relies on when a page that
reaches back beyond the window ends the walk. Merging is followed in canonical order
(`CanonicalFacts`, from the number of items before each; `GroupedTells`): an item joins
a group of a similar story, whose representative came earlier, or begins its own, so
one of the groups tells of it either way, and no two are of one message
(`DeduplicateFacts`). The ranking is therefore total on them (`AheadOrders`), and the
ceiling leaves the first so many (`BestFacts`): a group it cut is behind them all.

Type invariants are proved and not run, in `Publisher`, `Ingestion`, `Admission`,
`RunPipeline`, `Automation`, `PlanCommand` and `ReviewDelivery`.

Only model-checked: the liveness properties (InvocationsEnd, NoRunStarves,
EveryEventEnds, EveryRequestAnswered, EveryIntentCloses, ReadingEnds), for liveness
and ENABLED are out of the prover's reach; RevisionExists, which is about the
responses at hand and not about all; and BriefArrives, which is about the texts at
hand: of a text in which an invisible character separates a letter from its mark it
is false (the finding at `normalizer.py:429`: normalized first, stripped of the
invisible after), so it is no theorem of all texts.

## Not modelled

Wording and layout; how a pattern recognises a passage in prose, style symptoms,
relevance and similarity of texts (given, not computed); the frames of the market
feed's socket, its session set-up, `market_comparison.py` and `market_facts.py`;
average true range; the remote transport of events and the acknowledgement there;
the dashboard and history files; configuration, secrets and the Windows task. In
`Automation`, a tick that is killed, two ticks at once and an event that cannot
be parsed are left to `Ingestion`, and an unauthorised destination, which refuses
every tick before any work, is taken not to last for ever. The reasons are with
each component in `PROJECT.json`.
