------------------------------ MODULE Editorial ------------------------------
(***************************************************************************)
(* The content of a Run from its draft to the gate's decision: writer.py   *)
(* and digest_stage.py write it, reviewer.py judges it, finalizer.py with  *)
(* digest_finalizer.py revises it or passes it through, publish_gate.py    *)
(* decides.  What the models return is any response of a small set; a      *)
(* response a stage refuses leaves the Run as it was, to be tried again.   *)
(* How the stages put their files on disk is RunPipeline's subject.        *)
(***************************************************************************)
EXTENDS ReviewPolicy

CONSTANTS
  Drafts,     \* type -> the texts a writer may return (a digest's editorial)
  Claims,     \* the sets of source claims it may record
  News,       \* the sets of news claims it may declare
  Reported,   \* text -> the issues a reviewer may report about it
  Styles,     \* the sets of style findings it may report
  Additions,  \* type -> passages a revision may add
  Fixed       \* passages no response drops: headings, date, disclaimer

Severities == {"LOW", "MEDIUM", "HIGH", "CRITICAL"}

\* A reported issue has the five fields a review's schema gives it.
ASSUME ReportedAssumption ==
  \A s \in DOMAIN Reported : \A i \in Reported[s] :
    /\ i = [id |-> i.id, severity |-> i.severity, names |-> i.names,
            evidence |-> i.evidence, factual |-> i.factual]
    /\ i.severity \in Severities

\* "none" is no text: it stands for the absence of one.
ASSUME WordsAssumption ==
  /\ \A t \in DOMAIN Drafts : \A d \in Drafts[t] : \A p \in d : p.says # "none"
  /\ \A claims \in Claims : \A c \in claims : c.text # "none"

VARIABLES
  type,      \* manifest.provenance.article_type
  producer,  \* the Run's input is an authentic producer brief
  status,    \* manifest.status
  draft,     \* claude_draft.md with claude_writer.json
  review,    \* gpt_review.json
  final,     \* claude_final.md with claude_finalizer.json
  blockers   \* publish_decision.json's blockers

editorialVars == <<type, producer, status, draft, review, final, blockers>>

Digest == type = "NEWS_DIGEST"

NoDraft == [article |-> {}, claims |-> {}, news |-> {}]
NoReview == [status |-> "none", issues |-> {}, style |-> {}]
NoFinal == [article |-> {}, mode |-> "none", answered |-> {}, applied |-> {}]

EditorialInit ==
  /\ type \in DOMAIN Drafts
  /\ producer \in {TRUE} \cup {type = "NEWS_DIGEST"}
  /\ status = "NORMALIZED"
  /\ draft = NoDraft /\ review = NoReview /\ final = NoFinal
  /\ blockers = {}

-----------------------------------------------------------------------------
(***************************************************************************)
(* Writer                                                                  *)
(***************************************************************************)

WriterAccepts(d) ==
  /\ Chars(d.article) >= MinChars
  /\ \A c \in d.claims : Resolves(c)
  /\ ContractCodes(d.article, "ANALYSIS") = {}
  /\ Dates(d.article) # {}

Write(d) ==
  /\ status = "NORMALIZED" /\ ~Digest
  /\ WriterAccepts(d)
  /\ draft' = d
  /\ status' = "DRAFTED"
  /\ UNCHANGED <<type, producer, review, final, blockers>>

\* The digest's lines of fact are code's; the model's part goes between them.
WriteDigest(d) ==
  /\ status = "NORMALIZED" /\ Digest
  /\ d.claims = {}
  /\ ValidEditorial(d.article, d.news, {})
  /\ draft' = [d EXCEPT !.article = @ \cup Shell]
  /\ status' = "DRAFTED"
  /\ UNCHANGED <<type, producer, review, final, blockers>>

-----------------------------------------------------------------------------
(***************************************************************************)
(* Reviewer                                                                *)
(***************************************************************************)

\* Of a digest only its own checks are run, and must find nothing; here they
\* look for what is claimed in the article, which the writer's did not.
ReviewFindings ==
  IF Digest THEN {}
  ELSE Prechecks(draft.article, draft.claims) \cup ClaimFindings(draft.claims)

Review(r) ==
  /\ status = "DRAFTED"
  /\ Digest => ValidEditorial(draft.article \ Shell, draft.news, draft.article)
  /\ ValidResponse(r)
  /\ review' = [status |-> EffectiveStatus(r.status, ReviewFindings),
                issues |-> FindingsAsIssues(ReviewFindings, r.issues),
                style  |-> r.style]
  /\ status' = "REVIEWED"
  /\ UNCHANGED <<type, producer, draft, final, blockers>>

-----------------------------------------------------------------------------
(***************************************************************************)
(* Finalizer                                                               *)
(***************************************************************************)

PassThrough ==
  /\ status = "REVIEWED" /\ EffectiveAction(review) = "PASS_THROUGH"
  /\ final' = [article |-> draft.article, mode |-> "PASSTHROUGH", answered |-> {}, applied |-> {}]
  /\ status' = "FINALIZED"
  /\ UNCHANGED <<type, producer, draft, review, blockers>>

Accepts(out) ==
  IF Digest THEN AcceptsDigest(out, draft, review) ELSE AcceptsRevision(out, draft, review)

\* The digest's revised news claims are written to a file of their own; the
\* writer's, in claude_writer.json, stay the ones the gate reads.
Revise(out) ==
  /\ status = "REVIEWED" /\ EffectiveAction(review) = "FINALIZE"
  /\ Accepts(out)
  /\ final' = [article |-> out.article, mode |-> "REVISED",
               answered |-> out.answered, applied |-> out.applied]
  /\ status' = "FINALIZED"
  /\ UNCHANGED <<type, producer, draft, review, blockers>>

-----------------------------------------------------------------------------
(***************************************************************************)
(* Gate                                                                    *)
(***************************************************************************)

\* The checks that ask whether the review was closed.
ClosureBlockers ==
  (IF review.status = "REJECT" THEN {"IMPOSSIBLE_REVIEW_STATE"} ELSE {})
  \cup {"UNRESOLVED_REVIEW_ISSUE" :
          i \in {j \in review.issues :
                   j.id \notin final.answered
                   \/ (j.severity \in Blocking /\ j.id \notin final.applied)}}
  \cup {"CORRECTION_NOT_APPLIED" : i \in Uncorrected(review, final.article)}
  \cup {"NEW_REGRESSION_SINCE_DRAFT" :
          f \in Regressions(Prechecks(final.article, draft.claims),
                            Prechecks(draft.article, draft.claims))}

StructureBlockers(article) ==
  (IF Chars(article) < 100 THEN {"ARTICLE_TOO_SHORT"} ELSE {})
  \cup (IF Chars(article) > 8000 THEN {"ARTICLE_TOO_LONG"} ELSE {})
  \cup {"ARTICLE_CONTAINS_A_DUMP" : s \in Dumps(article)}

SafetyBlockers(article) ==
  {"ARTICLE_CONTROL_CHARACTERS" : s \in Controls(article)}
  \cup {"INSTRUCTION_SHAPED_TEXT" : s \in Instructions(article)}
  \cup {"POSSIBLE_CREDENTIAL_EXPOSURE" : s \in Credentials(article)}

\* The checks of the text itself; an unaccounted price is severe here.
TextBlockers(article) ==
  {f.code : f \in {g \in Prechecks(article, draft.claims) :
                     g.severity \in Blocking \/ g.code = "UNKNOWN_PRICE_LIKE_NUMBER"}}
  \cup {"EXTERNAL_FACT_WITHOUT_SOURCE" : s \in UncoveredEvents(article, draft.news, producer)}
  \cup {"TIMEFRAME_CONTRADICTS_CONTEXT" : s \in Timeframes(article)}
  \cup StructureBlockers(article) \cup SafetyBlockers(article)

Gate ==
  /\ status = "FINALIZED"
  /\ blockers' = ClosureBlockers \cup TextBlockers(final.article)
  /\ status' = IF blockers' = {} THEN "READY_TO_PUBLISH" ELSE "PUBLISH_BLOCKED"
  /\ UNCHANGED <<type, producer, draft, review, final>>

-----------------------------------------------------------------------------
(***************************************************************************)
(* What the models may return                                              *)
(***************************************************************************)

Written == [article : Drafts[type], claims : Claims, news : News]

\* A review reports at most one issue of its own, about any text of the draft.
Reviews ==
  [status : {"PASS", "NEEDS_REVISION", "REJECT"}, score : {85, 95}, instructions : BOOLEAN,
   issues : {{}} \cup {{i} : i \in UNION {Reported[s] : s \in {p.says : p \in draft.article}
                                                             \cap DOMAIN Reported}},
   style : Styles]

\* A revision drops any of the draft's passages and adds at most one; it
\* answers all issues or none, and applies all or none of them.
Rewritten ==
  {(draft.article \ out) \cup new :
     out \in SUBSET (draft.article \ (Fixed \cup Shell)),
     new \in {{}} \cup {{p} : p \in Additions[type]}}

Revisions ==
  [article : Rewritten, answered : {{}, Ids(review.issues)}, applied : {{}, Ids(review.issues)},
   styled : {Ids(StyleRepairs(review.style))}, unresolved : {{}},
   news : IF Digest THEN News ELSE {{}}]

EditorialNext ==
  \/ \E d \in Written : Write(d) \/ WriteDigest(d)
  \/ \E r \in Reviews : Review(r)
  \/ PassThrough
  \/ \E out \in Revisions : Revise(out)
  \/ Gate

EditorialSpec == EditorialInit /\ [][EditorialNext]_editorialVars

-----------------------------------------------------------------------------
(***************************************************************************)
(* Properties                                                              *)
(***************************************************************************)

\* What the deterministic checks found severe in a draft is out of the final
\* text, and its issue was applied: no verdict of the reviewer, no issue about
\* the same text it called minor, no claimed repair gets past it; a critical
\* finding ends the Run unrevised.
SevereFindingsAreRepaired ==
  final.mode # "none" /\ ~Digest =>
    \A f \in Severe(ReviewFindings) :
      /\ f.severity # "CRITICAL"
      /\ Key(f) \notin {Key(g) : g \in Prechecks(final.article, draft.claims)}
      /\ \E i \in review.issues : /\ Represents(f, i)
                                  /\ Rank(i.severity) >= Rank(f.severity)
                                  /\ i.id \in final.applied

\* For a revised analysis the gate's questions about the review are asked for
\* the second time: the finalizer's own checks leave them nothing to find.
FinalizerForestallsGate ==
  status = "FINALIZED" /\ final.mode = "REVISED" /\ ~Digest => ClosureBlockers = {}

\* A review that asks for a revision asks for something that exists: some
\* response is accepted and approved.  (Not when style findings bind the
\* revision to other sections than the rest of the review needs.)
Answerable == \E out \in Revisions : Accepts(out)

RevisionExists ==
  /\ status = "REVIEWED" /\ EffectiveAction(review) = "FINALIZE" /\ ~Digest
  /\ \A f \in StyleRepairs(review.style) : f.global
  => Answerable

\* The same of every review, as the finalizer's postcheck means it: a rule no
\* revision can satisfy would be one "that only a refusal can satisfy".
EveryRevisionExists ==
  status = "REVIEWED" /\ EffectiveAction(review) = "FINALIZE" /\ ~Digest => Answerable

\* An approved text asserts no event that a collected item does not report in
\* the words of a claim the writer made, also where the text was revised.
ApprovedIsSourced ==
  status = "READY_TO_PUBLISH" =>
    /\ \A s \in Events(final.article) :
         producer /\ \E c \in draft.news : c.statement = s /\ QuotesItem(c)
    /\ \A n \in Numbers(final.article) :
         PriceLike(n) => \/ Accounted(n, KnownNumbers(draft.claims))
                         \/ Literal[n].year \/ Literal[n].unit
=============================================================================
