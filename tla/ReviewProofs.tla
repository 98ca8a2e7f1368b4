---------------------------- MODULE ReviewProofs ----------------------------
(***************************************************************************)
(* Theorems of the two places where a Run is judged: by the stages that     *)
(* review and revise it (Editorial) and by the operator it is shown to      *)
(* (ReviewDelivery).                                                        *)
(***************************************************************************)
EXTENDS Editorial, ReviewDelivery, TLAPS

(***************************************************************************)
(* Theorems of Editorial, for any drafts, claims, reported issues, styles   *)
(* and additions, and any context the checks compare an article with: what  *)
(* the deterministic checks find severe is repaired whatever the reviewer   *)
(* says, the finalizer leaves the gate's questions about the review nothing *)
(* to find, and what is approved is sourced.                                *)
(*                                                                         *)
(* One invariant carries them from stage to stage: the review answers for   *)
(* every severe finding at its severity or a higher one (Represented) and   *)
(* its verdict is no milder than they require (Escalated); the final text   *)
(* was passed through, or accepted as a revision (Passed, Closed).  That a  *)
(* repaired finding cannot return under a milder name rests on each code    *)
(* having one severity (CodesHaveOneSeverity).                              *)
(***************************************************************************)

Verdicts == {"PASS", "NEEDS_REVISION", "REJECT"}

\* The texts of an analysis are texts.
Worded ==
  ~Digest /\ status # "NORMALIZED" =>
    /\ \A p \in draft.article : p.says # "none"
    /\ \A c \in draft.claims : c.text # "none"

Judged == ~Digest /\ status \notin {"NORMALIZED", "DRAFTED"}

\* An issue of the review answers for a finding.
Answers(i, f) ==
  Represents(f, i) /\ i.severity \in Severities /\ Rank(i.severity) >= Rank(f.severity)

Represented ==
  Judged => \A f \in Severe(ReviewFindings) : \E i \in review.issues : Answers(i, f)

Escalated ==
  Judged => /\ review.status \in Verdicts
            /\ StatusRank(review.status) >= StatusRank(RequiredBy(ReviewFindings))

Unfinished ==
  status \in {"NORMALIZED", "DRAFTED", "REVIEWED"} => final.mode = "none"

Finished == final.mode \in {"none", "PASSTHROUGH", "REVISED"}

Passed ==
  final.mode = "PASSTHROUGH" => EffectiveAction(review) = "PASS_THROUGH"

Closed ==
  final.mode = "REVISED" /\ ~Digest =>
    /\ EffectiveAction(review) = "FINALIZE"
    /\ final.answered = Ids(review.issues)
    /\ Ids(Severe(review.issues)) \subseteq final.applied
    /\ Severe(Prechecks(final.article, draft.claims)) = {}
    /\ Uncorrected(review, final.article) = {}

Cleared == status = "READY_TO_PUBLISH" => TextBlockers(final.article) = {}

EditorialInv ==
  /\ type \in DOMAIN Drafts
  /\ Worded /\ Represented /\ Escalated
  /\ Unfinished /\ Finished /\ Passed /\ Closed /\ Cleared

-----------------------------------------------------------------------------
(* Severities and findings *)

\* The worst of some severities is one of them, and none is worse.
LEMMA WorstIsWorst ==
  ASSUME NEW S, S \subseteq Severities, S # {}
  PROVE  Worst(S) \in S /\ \A s \in S : Rank(s) <= Rank(Worst(S))
<1>1. \E s \in S : \A t \in S : Rank(t) <= Rank(s)
  <2>1. CASE "CRITICAL" \in S
    BY <2>1 DEF Severities, Rank
  <2>2. CASE "CRITICAL" \notin S /\ "HIGH" \in S
    BY <2>2 DEF Severities, Rank
  <2>3. CASE "CRITICAL" \notin S /\ "HIGH" \notin S /\ "MEDIUM" \in S
    BY <2>3 DEF Severities, Rank
  <2>4. CASE "CRITICAL" \notin S /\ "HIGH" \notin S /\ "MEDIUM" \notin S
    BY <2>4 DEF Severities, Rank
  <2> QED
    BY <2>1, <2>2, <2>3, <2>4
<1> QED
  BY <1>1 DEF Worst

\* The severities are ranked from 0 to 3, the blocking ones from 2.
LEMMA Ranks ==
  \A s \in Severities : Rank(s) \in 0 .. 3 /\ (s \in Blocking <=> Rank(s) >= 2)
BY DEF Severities, Rank, Blocking

MediumCodes == {"UNKNOWN_PRICE_LIKE_NUMBER", "NO_SOURCE_CLAIMS"}
LowCodes == {"SYMBOL_NOT_MENTIONED"}

\* The code of a finding says how severe it is.
OfItsCode(f) ==
  /\ f.severity \in Severities
  /\ f.code \in MediumCodes <=> f.severity = "MEDIUM"
  /\ f.code \in LowCodes <=> f.severity = "LOW"

LEMMA CodesHaveOneSeverity ==
  ASSUME NEW article, NEW claims
  PROVE  \A f \in Prechecks(article, claims) \cup ClaimFindings(claims) : OfItsCode(f)
<1>1. \A f \in NumberFindings(article, claims) : OfItsCode(f)
  BY DEF NumberFindings, Finding, OfItsCode, MediumCodes, LowCodes, Severities
<1>2. \A f \in SymbolFindings(article) : OfItsCode(f)
  BY DEF SymbolFindings, Finding, OfItsCode, MediumCodes, LowCodes, Severities
<1>3. \A f \in WordFindings(article) : OfItsCode(f)
  BY DEF WordFindings, Finding, OfItsCode, MediumCodes, LowCodes, Severities
<1>4. \A f \in ClaimFindings(claims) : OfItsCode(f)
  BY DEF ClaimFindings, Finding, OfItsCode, MediumCodes, LowCodes, Severities
<1> QED
  BY <1>1, <1>2, <1>3, <1>4 DEF Prechecks

\* A severe finding names a text, if the article's passages and claims do.
LEMMA SevereNamesText ==
  ASSUME NEW article, NEW claims,
         \A p \in article : p.says # "none",
         \A c \in claims : c.text # "none"
  PROVE  \A f \in Severe(Prechecks(article, claims) \cup ClaimFindings(claims)) :
           f.actual # "none"
<1>1. \A f \in NumberFindings(article, claims) : f.actual # "none"
  BY DEF NumberFindings, Finding, Unaccounted, Numbers, Said
<1>2. \A f \in SymbolFindings(article) : f.actual # "none" \/ f.severity = "LOW"
  BY DEF SymbolFindings, Finding, Said
<1>3. \A f \in WordFindings(article) : f.actual # "none"
  BY DEF WordFindings, Finding, Indicators, Certainties, Said
<1>4. \A f \in ClaimFindings(claims) : f.actual # "none" \/ f.severity = "MEDIUM"
  BY DEF ClaimFindings, Finding, Verified
<1> QED
  BY <1>1, <1>2, <1>3, <1>4 DEF Prechecks, Severe, Blocking

\* A finding nobody reported is promoted; a reported one raises its issue.
LEMMA SevereIsAnswered ==
  ASSUME NEW findings, NEW issues,
         \A f \in Severe(findings) : f.severity \in Severities /\ f.actual # "none",
         \A i \in issues :
           /\ i = [id |-> i.id, severity |-> i.severity, names |-> i.names,
                   evidence |-> i.evidence, factual |-> i.factual]
           /\ i.severity \in Severities
  PROVE  \A f \in Severe(findings) :
           \E i \in FindingsAsIssues(findings, issues) : Answers(i, f)
<1> SUFFICES ASSUME NEW f \in Severe(findings)
             PROVE  \E i \in FindingsAsIssues(findings, issues) : Answers(i, f)
  OBVIOUS
<1> DEFINE severe == Severe(findings)
           promoted == {g \in severe : ~\E i \in issues : Represents(g, i)}
<1>1. ASSUME NEW j \in issues, Represents(f, j)
      PROVE  \E i \in FindingsAsIssues(findings, issues) : Answers(i, f)
  <2> DEFINE S == {j.severity} \cup {g.severity : g \in {h \in severe : Represents(h, j)}}
             i == Raised(j, severe)
  <2>1. S \subseteq Severities /\ f.severity \in S
    BY <1>1
  <2>2. Worst(S) \in Severities /\ Rank(f.severity) <= Rank(Worst(S))
    BY <2>1, WorstIsWorst
  <2>3. i = [j EXCEPT !.severity = Worst(S)]
    BY DEF Raised
  <2>4. i.severity = Worst(S) /\ i.names = j.names /\ i.evidence = j.evidence
    BY <2>3
  <2>5. Answers(i, f)
    <3>1. Represents(f, i)
      BY <1>1, <2>4 DEF Represents
    <3>2. Rank(i.severity) >= Rank(f.severity)
      BY <2>1, <2>2, <2>4, Ranks
    <3> QED
      BY <2>2, <2>4, <3>1, <3>2 DEF Answers
  <2> QED
    BY <2>5 DEF FindingsAsIssues
<1>2. ASSUME ~\E j \in issues : Represents(f, j)
      PROVE  \E i \in FindingsAsIssues(findings, issues) : Answers(i, f)
  <2> DEFINE S == {g.severity : g \in {h \in promoted : h.actual = f.actual}}
             i == [id |-> <<"precheck", f.actual>>, severity |-> Worst(S),
                   names |-> {f.actual}, evidence |-> NoEvidence, factual |-> FALSE]
  <2>1. S \subseteq Severities /\ f.severity \in S
    BY <1>2
  <2>2. Worst(S) \in Severities /\ Rank(f.severity) <= Rank(Worst(S))
    BY <2>1, WorstIsWorst
  <2>3. i \in Promoted(promoted)
    <3>1. f \in promoted
      BY <1>2
    <3> HIDE DEF promoted
    <3>2. f.actual \in {g.actual : g \in promoted}
      BY <3>1
    <3> QED
      BY ZenonT(60), <3>2 DEF Promoted
  <2>4. Answers(i, f)
    <3>1. Represents(f, i)
      BY DEF Represents
    <3>2. Rank(i.severity) >= Rank(f.severity)
      BY <2>1, <2>2, Ranks
    <3> QED
      BY <2>2, <3>1, <3>2 DEF Answers
  <2> QED
    BY <2>3, <2>4 DEF FindingsAsIssues
<1> QED
  BY <1>1, <1>2

\* The verdict in force is a verdict, and no milder than the findings require.
LEMMA EscalatedToRequired ==
  ASSUME NEW verdict \in Verdicts, NEW findings
  PROVE  /\ EffectiveStatus(verdict, findings) \in Verdicts
         /\ StatusRank(EffectiveStatus(verdict, findings)) >= StatusRank(RequiredBy(findings))
BY DEF Verdicts, EffectiveStatus, RequiredBy, StatusRank

\* What a verdict that ends in a text leaves of the findings.
LEMMA VerdictForbids ==
  ASSUME NEW verdict \in Verdicts, NEW findings,
         StatusRank(verdict) >= StatusRank(RequiredBy(findings)), verdict # "REJECT"
  PROVE  /\ \A f \in findings : f.severity # "CRITICAL"
         /\ verdict = "PASS" => Severe(findings) = {}
<1>1. RequiredBy(findings) # "REJECT"
  BY DEF Verdicts, RequiredBy, StatusRank
<1>2. \A f \in findings : f.severity # "CRITICAL"
  BY <1>1 DEF RequiredBy
<1>3. ASSUME verdict = "PASS" PROVE Severe(findings) = {}
  <2>1. RequiredBy(findings) = "PASS"
    BY <1>1, <1>3 DEF RequiredBy, StatusRank
  <2>2. \A f \in findings : f.severity # "HIGH"
    BY <1>2, <2>1 DEF RequiredBy
  <2> QED
    BY <1>2, <2>2 DEF Severe, Blocking
<1> QED
  BY <1>2, <1>3

-----------------------------------------------------------------------------
(* The invariant *)

LEMMA EditorialInvInit == EditorialInit => EditorialInv
<1> SUFFICES ASSUME EditorialInit PROVE EditorialInv
  OBVIOUS
<1> USE DEF EditorialInit
<1>1. Worded /\ Represented /\ Escalated /\ Cleared
  BY DEF Worded, Judged, Represented, Escalated, Cleared
<1>2. Unfinished /\ Finished /\ Passed /\ Closed
  BY DEF Unfinished, Finished, Passed, Closed, NoFinal
<1> QED
  BY <1>1, <1>2 DEF EditorialInv

\* Only the text and the claims of the draft decide what is found in it.
LEMMA FindingsStay ==
  UNCHANGED <<type, draft>> => UNCHANGED <<Digest, ReviewFindings>>
BY DEF Digest, ReviewFindings

\* A draft enters worded, before anything is judged.
LEMMA WriterStep ==
  ASSUME EditorialInv, NEW d \in Written, Write(d) \/ WriteDigest(d)
  PROVE  EditorialInv'
<1>1. /\ status = "NORMALIZED" /\ status' = "DRAFTED"
      /\ UNCHANGED <<type, producer, review, final, blockers>>
  BY DEF Write, WriteDigest
<1>2. final.mode = "none"
  BY <1>1 DEF EditorialInv, Unfinished
<1>3. Worded'
  <2>1. CASE Write(d)
    BY <2>1, WordsAssumption DEF EditorialInv, Write, Written, Worded, Digest
  <2>2. CASE WriteDigest(d)
    BY <2>2 DEF WriteDigest, Worded, Digest
  <2> QED
    BY <2>1, <2>2
<1>4. Represented' /\ Escalated' /\ Cleared'
  BY <1>1 DEF Judged, Represented, Escalated, Cleared
<1>5. Unfinished' /\ Finished' /\ Passed' /\ Closed'
  BY <1>1, <1>2 DEF Unfinished, Finished, Passed, Closed
<1> QED
  BY <1>1, <1>3, <1>4, <1>5 DEF EditorialInv

\* The review is escalated to its findings and answers for them.
LEMMA ReviewerStep ==
  ASSUME EditorialInv, NEW r \in Reviews, Review(r)
  PROVE  EditorialInv'
<1>1. /\ status = "DRAFTED" /\ status' = "REVIEWED"
      /\ UNCHANGED <<type, producer, draft, final, blockers>>
      /\ review' = [status |-> EffectiveStatus(r.status, ReviewFindings),
                    issues |-> FindingsAsIssues(ReviewFindings, r.issues),
                    style  |-> r.style]
  BY DEF Review
<1>2. final.mode = "none"
  BY <1>1 DEF EditorialInv, Unfinished
<1>3. UNCHANGED <<Digest, ReviewFindings>>
  BY <1>1, FindingsStay
<1>4. Worded'
  BY <1>1 DEF EditorialInv, Worded, Digest
<1>5. Escalated'
  <2>1. r.status \in Verdicts
    BY DEF Reviews, Verdicts
  <2> QED
    BY <1>1, <1>3, <2>1, EscalatedToRequired DEF Escalated
<1>6. Represented'
  <2> SUFFICES ASSUME ~Digest
               PROVE  \A f \in Severe(ReviewFindings) :
                        \E i \in FindingsAsIssues(ReviewFindings, r.issues) : Answers(i, f)
    BY <1>1, <1>3 DEF Represented, Judged
  <2>1. \A i \in r.issues :
          /\ i = [id |-> i.id, severity |-> i.severity, names |-> i.names,
                  evidence |-> i.evidence, factual |-> i.factual]
          /\ i.severity \in Severities
    BY ReportedAssumption DEF Reviews
  <2>2. /\ \A p \in draft.article : p.says # "none"
        /\ \A c \in draft.claims : c.text # "none"
    BY <1>1 DEF EditorialInv, Worded
  <2>3. ReviewFindings = Prechecks(draft.article, draft.claims) \cup ClaimFindings(draft.claims)
    BY DEF ReviewFindings
  <2>4. \A f \in Severe(ReviewFindings) : f.severity \in Severities /\ f.actual # "none"
    BY <2>2, <2>3, CodesHaveOneSeverity, SevereNamesText DEF Severe, OfItsCode
  <2> QED
    BY <2>1, <2>4, SevereIsAnswered
<1>7. Unfinished' /\ Finished' /\ Passed' /\ Closed' /\ Cleared'
  BY <1>1, <1>2 DEF Unfinished, Finished, Passed, Closed, Cleared
<1> QED
  BY <1>1, <1>4, <1>5, <1>6, <1>7 DEF EditorialInv

\* Once reviewed, what the draft and the review are to each other stays.
LEMMA JudgementStays ==
  ASSUME EditorialInv, status \in {"REVIEWED", "FINALIZED"},
         status' \notin {"NORMALIZED", "DRAFTED"}, UNCHANGED <<type, draft, review>>
  PROVE  (type \in DOMAIN Drafts)' /\ Worded' /\ Represented' /\ Escalated'
<1>1. UNCHANGED <<Digest, ReviewFindings>>
  BY FindingsStay
<1>2. Worded'
  BY <1>1 DEF EditorialInv, Worded
<1>3. Represented' /\ Escalated'
  BY <1>1 DEF EditorialInv, Judged, Represented, Escalated
<1> QED
  BY <1>2, <1>3 DEF EditorialInv

\* The draft is passed through as it stands.
LEMMA PassThroughStep ==
  ASSUME EditorialInv, PassThrough PROVE EditorialInv'
<1>1. /\ status = "REVIEWED" /\ status' = "FINALIZED"
      /\ EffectiveAction(review) = "PASS_THROUGH" /\ final'.mode = "PASSTHROUGH"
      /\ UNCHANGED <<type, producer, draft, review, blockers>>
  BY DEF PassThrough
<1>2. (type \in DOMAIN Drafts)' /\ Worded' /\ Represented' /\ Escalated'
  BY <1>1, JudgementStays
<1>3. Unfinished' /\ Finished' /\ Passed' /\ Closed' /\ Cleared'
  BY <1>1 DEF Unfinished, Finished, Passed, Closed, Cleared
<1> QED
  BY <1>2, <1>3 DEF EditorialInv

\* Of an analysis, a revision is what the finalizer's checks accept.
LEMMA ReviseStep ==
  ASSUME EditorialInv, NEW out \in Revisions, Revise(out) PROVE EditorialInv'
<1>1. /\ status = "REVIEWED" /\ status' = "FINALIZED"
      /\ EffectiveAction(review) = "FINALIZE"
      /\ final' = [article |-> out.article, mode |-> "REVISED",
                   answered |-> out.answered, applied |-> out.applied]
      /\ UNCHANGED <<type, producer, draft, review, blockers>>
  BY DEF Revise
<1>2. (type \in DOMAIN Drafts)' /\ Worded' /\ Represented' /\ Escalated'
  BY <1>1, JudgementStays
<1>3. Closed'
  <2>1. ~Digest => AcceptsRevision(out, draft, review)
    BY DEF Revise, Accepts
  <2>2. ~Digest => /\ out.answered = Ids(review.issues)
                   /\ Ids(Severe(review.issues)) \subseteq out.applied
                   /\ Severe(Prechecks(out.article, draft.claims)) = {}
                   /\ Uncorrected(review, out.article) = {}
    BY <2>1 DEF AcceptsRevision, AccountsForIssues, CleanFindings
  <2>3. UNCHANGED Digest
    BY <1>1 DEF Digest
  <2> QED
    BY <1>1, <2>2, <2>3 DEF Closed
<1>4. Unfinished' /\ Finished' /\ Passed' /\ Cleared'
  BY <1>1 DEF Unfinished, Finished, Passed, Cleared
<1> QED
  BY <1>2, <1>3, <1>4 DEF EditorialInv

\* The gate approves what no check of the text blocks.
LEMMA GateStep ==
  ASSUME EditorialInv, Gate PROVE EditorialInv'
<1>1. /\ status = "FINALIZED" /\ status' \in {"READY_TO_PUBLISH", "PUBLISH_BLOCKED"}
      /\ UNCHANGED <<type, producer, draft, review, final>>
      /\ status' = "READY_TO_PUBLISH" => ClosureBlockers \cup TextBlockers(final.article) = {}
  BY DEF Gate
<1>2. (type \in DOMAIN Drafts)' /\ Worded' /\ Represented' /\ Escalated'
  BY <1>1, JudgementStays
<1>3. TextBlockers(final.article)' = TextBlockers(final.article)
  BY <1>1 DEF TextBlockers
<1>4. Cleared'
  BY <1>1, <1>3 DEF Cleared
<1>5. Unfinished' /\ Finished' /\ Passed' /\ Closed'
  BY <1>1 DEF EditorialInv, Unfinished, Finished, Passed, Closed, Digest
<1> QED
  BY <1>2, <1>4, <1>5 DEF EditorialInv

LEMMA EditorialInvStep == EditorialInv /\ [EditorialNext]_editorialVars => EditorialInv'
<1> SUFFICES ASSUME EditorialInv, [EditorialNext]_editorialVars PROVE EditorialInv'
  OBVIOUS
<1>1. CASE UNCHANGED editorialVars
  <2>1. UNCHANGED <<Digest, ReviewFindings, TextBlockers(final.article)>>
    BY <1>1, FindingsStay DEF editorialVars, TextBlockers
  <2> QED
    BY <1>1, <2>1 DEF editorialVars, EditorialInv, Judged, Worded, Represented, Escalated, Unfinished,
       Finished, Passed, Closed, Cleared
<1>2. CASE \E d \in Written : Write(d) \/ WriteDigest(d)
  BY <1>2, WriterStep
<1>3. CASE \E r \in Reviews : Review(r)
  BY <1>3, ReviewerStep
<1>4. CASE PassThrough
  BY <1>4, PassThroughStep
<1>5. CASE \E out \in Revisions : Revise(out)
  BY <1>5, ReviseStep
<1>6. CASE Gate
  BY <1>6, GateStep
<1> QED
  BY <1>1, <1>2, <1>3, <1>4, <1>5, <1>6 DEF EditorialNext

\* From the writer to the gate: the review answers for every severe finding,
\* and what follows it is what its verdict asks for.
THEOREM EditorialCorrect == EditorialSpec => []EditorialInv
<1> QED
  BY EditorialInvInit, EditorialInvStep, PTL DEF EditorialSpec

-----------------------------------------------------------------------------
(* What follows *)

LEMMA Repaired == EditorialInv => SevereFindingsAreRepaired
<1> SUFFICES ASSUME EditorialInv, final.mode # "none", ~Digest, NEW f \in Severe(ReviewFindings)
             PROVE  /\ f.severity # "CRITICAL"
                    /\ Key(f) \notin {Key(g) : g \in Prechecks(final.article, draft.claims)}
                    /\ \E i \in review.issues : /\ Represents(f, i)
                                                /\ Rank(i.severity) >= Rank(f.severity)
                                                /\ i.id \in final.applied
  BY DEF SevereFindingsAreRepaired
<1>1. Judged
  BY DEF EditorialInv, Unfinished, Judged
<1>2. ReviewFindings = Prechecks(draft.article, draft.claims) \cup ClaimFindings(draft.claims)
  BY DEF ReviewFindings
<1>3. \A g \in ReviewFindings : OfItsCode(g)
  BY <1>2, CodesHaveOneSeverity
<1>4. review.status # "REJECT"
  BY DEF EditorialInv, Finished, Passed, Closed, EffectiveAction
<1>5. /\ f.severity # "CRITICAL"
      /\ review.status # "PASS"
  BY <1>1, <1>4, VerdictForbids DEF EditorialInv, Escalated, Severe
<1>6. final.mode = "REVISED"
  BY <1>4, <1>5 DEF EditorialInv, Finished, Passed, EffectiveAction
<1>7. Key(f) \notin {Key(g) : g \in Prechecks(final.article, draft.claims)}
  <2> SUFFICES ASSUME NEW g \in Prechecks(final.article, draft.claims), Key(f) = Key(g)
               PROVE  FALSE
    OBVIOUS
  <2>1. f.code = g.code
    BY DEF Key
  <2>2. OfItsCode(f) /\ OfItsCode(g)
    BY <1>3, CodesHaveOneSeverity DEF Severe
  <2>3. g.severity \in Blocking
    BY <2>1, <2>2 DEF OfItsCode, Severe, Blocking, Severities
  <2> QED
    BY <1>6, <2>3 DEF EditorialInv, Closed, Severe
<1>8. PICK i \in review.issues : Answers(i, f)
  BY <1>1 DEF EditorialInv, Represented
<1>9. i.severity \in Blocking
  <2>1. f.severity \in Severities /\ f.severity \in Blocking
    BY <1>3 DEF Severe, OfItsCode
  <2> QED
    BY <1>8, <2>1, Ranks DEF Answers
<1>10. i.id \in final.applied
  BY <1>6, <1>8, <1>9 DEF EditorialInv, Closed, Ids, Severe
<1> QED
  BY <1>5, <1>7, <1>8, <1>10 DEF Answers

\* What the checks found severe in an analysis is out of its final text and
\* its issue was applied, whatever the reviewer made of it (review_policy.py
\* promotes and raises, finalizer_policy.py searches the revision again).
THEOREM SevereIsRepaired == EditorialSpec => []SevereFindingsAreRepaired
<1> QED
  BY EditorialCorrect, Repaired, PTL

LEMMA Forestalled == EditorialInv => FinalizerForestallsGate
<1> SUFFICES ASSUME EditorialInv, final.mode = "REVISED", ~Digest PROVE ClosureBlockers = {}
  BY DEF FinalizerForestallsGate
<1>1. review.status # "REJECT"
  BY DEF EditorialInv, Closed, EffectiveAction
<1>2. \A j \in review.issues :
        j.id \in final.answered /\ (j.severity \in Blocking => j.id \in final.applied)
  BY DEF EditorialInv, Closed, Ids, Severe
<1>3. Uncorrected(review, final.article) = {}
  BY DEF EditorialInv, Closed
<1>4. Regressions(Prechecks(final.article, draft.claims),
                  Prechecks(draft.article, draft.claims)) = {}
  BY DEF EditorialInv, Closed, Regressions
<1> QED
  BY <1>1, <1>2, <1>3, <1>4 DEF ClosureBlockers

\* The gate's questions about the review find a revised analysis closed: the
\* finalizer's checks imply each of them (publish_gate.py asks them again).
THEOREM GateFindsReviewClosed == EditorialSpec => []FinalizerForestallsGate
<1> QED
  BY EditorialCorrect, Forestalled, PTL

LEMMA Sourced == EditorialInv => ApprovedIsSourced
<1> SUFFICES ASSUME EditorialInv, status = "READY_TO_PUBLISH" PROVE ApprovedIsSourced
  BY DEF ApprovedIsSourced
<1>1. TextBlockers(final.article) = {}
  BY DEF EditorialInv, Cleared
<1>2. UncoveredEvents(final.article, draft.news, producer) = {}
  BY <1>1 DEF TextBlockers
<1>3. \A s \in Events(final.article) :
        producer /\ \E c \in draft.news : c.statement = s /\ QuotesItem(c)
  BY <1>2 DEF UncoveredEvents
<1>4. Unaccounted(final.article, draft.claims) = {}
  <2> SUFFICES ASSUME NEW n \in Unaccounted(final.article, draft.claims) PROVE FALSE
    OBVIOUS
  <2>1. PICK f \in NumberFindings(final.article, draft.claims) :
          f.severity \in Blocking \/ f.code = "UNKNOWN_PRICE_LIKE_NUMBER"
    <3> DEFINE f == IF Far(n) THEN Finding("NUMBER_OUTSIDE_MARKET_RANGE", "HIGH", "none", n)
                    ELSE Finding("UNKNOWN_PRICE_LIKE_NUMBER", "MEDIUM", "none", n)
    <3>1. f \in NumberFindings(final.article, draft.claims)
      BY DEF NumberFindings
    <3>2. f.severity \in Blocking \/ f.code = "UNKNOWN_PRICE_LIKE_NUMBER"
      BY DEF Finding, Blocking
    <3> QED
      BY <3>1, <3>2
  <2> QED
    BY <1>1, <2>1 DEF TextBlockers, Prechecks
<1>5. \A n \in Numbers(final.article) :
        PriceLike(n) => \/ Accounted(n, KnownNumbers(draft.claims))
                        \/ Literal[n].year \/ Literal[n].unit
  BY <1>4 DEF Unaccounted
<1> QED
  BY <1>3, <1>5 DEF ApprovedIsSourced

\* No approved text asserts an event no collected item reports, or a price that
\* nothing in the context accounts for, revised or not (publish_gate.py).
THEOREM ApprovedTextIsSourced == EditorialSpec => []ApprovedIsSourced
<1> QED
  BY EditorialCorrect, Sourced, PTL

(***************************************************************************)
(* Theorems of ReviewDelivery, for any number of chunks, retries and kills, *)
(* with or without a publication in between: the types of its variables,    *)
(* and that the copy an operator is shown keeps the promise of PublishOnce. *)
(*                                                                         *)
(* What the operator has is always the first chunks, each once (Prefix): the*)
(* intent is on disk before the first of them, and whoever finds an intent  *)
(* sends nothing.  A tick that sends knows how many came (Sending); the one *)
(* that closes an intent it found claims to know nothing (Concluding).      *)
(***************************************************************************)

Chunks == 1 .. NChunks

\* The first k chunks are there, each once, and no other.
Shown(k) == \A c \in Chunks : inbox[c] = IF c <= k THEN 1 ELSE 0

Prefix == \E k \in 0 .. NChunks : Shown(k)

\* What an outcome says of what is there.
TrueOf(s) ==
  /\ s = "DELIVERED" => Shown(NChunks)
  /\ s = "FAILED" => Shown(0)
  /\ s = "PARTIAL" => \E k \in 1 .. NChunks - 1 : Shown(k)

Types ==
  /\ manifest \in Manifest
  /\ intent \in BOOLEAN
  /\ result \in Delivery \cup {"NONE"}
  /\ old \in BOOLEAN
  /\ inbox \in [Chunks -> Nat]
  /\ pc \in {"idle", "commit", "record_intent", "send", "result", "record_result"}
  /\ copy \in Manifest
  /\ confirmed \in 0 .. NChunks
  /\ retries \in 0 .. MaxRetries
  /\ outcome \in Delivery
  /\ pub \in {"idle", "begin", "end", "done"}
  /\ pubCopy \in Manifest
  /\ crashes \in 0 .. MaxCrashes

Untold == ~intent => Shown(0) /\ result = "NONE"

Sending ==
  /\ pc = "commit" => ~intent
  /\ pc \in {"record_intent", "send"} =>
       intent /\ result = "NONE" /\ Shown(confirmed) /\ confirmed < NChunks

Concluding ==
  /\ pc = "result" => intent /\ result = "NONE" /\ TrueOf(outcome)
  /\ pc \in {"idle", "commit", "record_intent"} => outcome = "UNCERTAIN" /\ confirmed = 0

Inv == Types /\ Prefix /\ Untold /\ Sending /\ Concluding

\* What the invariant speaks of beside the types.
shownVars == <<intent, result, inbox, pc, confirmed, outcome>>

-----------------------------------------------------------------------------
LEMMA NoneShown == Init => Shown(0) /\ Prefix
<1> SUFFICES ASSUME Init PROVE Shown(0) /\ Prefix
  OBVIOUS
<1>1. Shown(0)
  BY DEF Init, Shown, Chunks
<1> QED
  BY <1>1, SizeAssumption DEF Prefix

LEMMA InvInit == Init => Inv
<1> SUFFICES ASSUME Init PROVE Inv
  OBVIOUS
<1>1. Ready \in Manifest
  BY DEF Ready, Manifest, Statuses, Records
<1>2. Types
  <2>1. inbox \in [Chunks -> Nat]
    BY DEF Init, Chunks
  <2>2. 0 \in 0 .. NChunks /\ 0 \in 0 .. MaxRetries /\ 0 \in 0 .. MaxCrashes
    BY SizeAssumption
  <2> QED
    BY <1>1, <2>1, <2>2 DEF Init, Types, Delivery
<1> QED
  BY <1>2, NoneShown DEF Init, Inv, Untold, Sending, Concluding

\* Where nothing it speaks of changes, the invariant is about types alone.
LEMMA InvRests ==
  ASSUME Inv, Types', UNCHANGED shownVars
  PROVE  Inv'
BY DEF Inv, Prefix, Shown, Untold, Sending, Concluding, TrueOf, shownVars

\* One more chunk after the first ones.
LEMMA NextShown ==
  ASSUME Types, NEW k \in 0 .. NChunks - 1, Shown(k), Came(k + 1)
  PROVE  /\ inbox' \in [Chunks -> Nat]
         /\ \A c \in Chunks : inbox'[c] = IF c <= k + 1 THEN 1 ELSE 0
<1>1. k + 1 \in Chunks
  BY SizeAssumption DEF Chunks
<1>2. inbox' \in [Chunks -> Nat] /\ inbox'[k + 1] = inbox[k + 1] + 1
      /\ \A d \in Chunks \ {k + 1} : inbox'[d] = inbox[d]
  BY <1>1 DEF Types, Came
<1>3. inbox[k + 1] = 0
  BY <1>1, SizeAssumption DEF Shown
<1>4. ASSUME NEW c \in Chunks
      PROVE  inbox'[c] = IF c <= k + 1 THEN 1 ELSE 0
  <2>1. CASE c = k + 1
    BY <1>2, <1>3, <2>1
  <2>2. CASE c # k + 1
    BY <1>2, <2>2, SizeAssumption DEF Shown, Chunks
  <2> QED
    BY <2>1, <2>2
<1> QED
  BY <1>2, <1>4

LEMMA OpenStep == ASSUME Inv, Open PROVE Inv'
<1>1. Types'
  BY DEF Open, Goto, Inv, Types, diskVars, pubVars
<1>2. UNCHANGED <<intent, result, inbox, confirmed, outcome>> /\ pc = "idle"
  BY DEF Open, diskVars
<1>3. \/ pc' = "commit" /\ ~intent
      \/ pc' = "result" /\ intent /\ result = "NONE"
  BY DEF Open, Eligible, Orphan, Goto
<1>4. outcome = "UNCERTAIN" /\ confirmed = 0
  BY <1>2 DEF Inv, Concluding
<1> QED
  BY <1>1, <1>2, <1>3, <1>4
  DEF Inv, Prefix, Shown, Untold, Sending, Concluding, TrueOf

LEMMA CommitStep == ASSUME Inv, Commit PROVE Inv'
<1>1. [copy EXCEPT !.artifacts = @ \cup {"review_intent"}] \in Manifest
  BY DEF Inv, Types, Manifest, Records
<1>2. Types'
  BY <1>1 DEF Commit, Goto, Inv, Types, pubVars
<1>3. /\ UNCHANGED <<result, inbox, confirmed, outcome>>
      /\ pc = "commit" /\ pc' = "record_intent" /\ intent'
  BY DEF Commit, Goto
<1>4. Shown(0) /\ result = "NONE" /\ confirmed = 0 /\ outcome = "UNCERTAIN"
  BY <1>3 DEF Inv, Untold, Sending, Concluding
<1>5. 0 < NChunks
  BY SizeAssumption
<1> QED
  BY <1>2, <1>3, <1>4, <1>5 DEF Inv, Prefix, Shown, Untold, Sending, Concluding

LEMMA RecordIntentStep == ASSUME Inv, RecordIntent PROVE Inv'
<1>1. Types'
  BY DEF RecordIntent, Save, Goto, Inv, Types, pubVars
<1>2. /\ UNCHANGED <<intent, result, inbox, confirmed, outcome>>
      /\ pc = "record_intent" /\ pc' = "send"
  BY DEF RecordIntent, Goto
<1> QED
  BY <1>1, <1>2 DEF Inv, Prefix, Shown, Untold, Sending, Concluding

LEMMA SendStep == ASSUME Inv, Send PROVE Inv'
<1>1. /\ pc = "send" /\ UNCHANGED <<diskVars, old, copy, pubVars, crashes>>
      /\ Confirmed \/ Flooded \/ Refused \/ Ambiguous
  BY DEF Send
<1>2. intent /\ result = "NONE" /\ Shown(confirmed) /\ confirmed \in 0 .. NChunks - 1
  BY <1>1, SizeAssumption DEF Inv, Types, Sending
<1>3. ASSUME Came(confirmed + 1)
      PROVE  /\ inbox' \in [Chunks -> Nat]
             /\ \A c \in Chunks : inbox'[c] = IF c <= confirmed + 1 THEN 1 ELSE 0
             /\ Prefix'
  <2>1. PICK k \in 0 .. NChunks - 1 : k = confirmed
    BY <1>2
  <2>2. /\ inbox' \in [Chunks -> Nat]
        /\ \A c \in Chunks : inbox'[c] = IF c <= k + 1 THEN 1 ELSE 0
    BY <1>2, <1>3, <2>1, NextShown DEF Inv
  <2>3. k + 1 \in 0 .. NChunks
    BY SizeAssumption
  <2>4. Prefix'
    BY <2>2, <2>3 DEF Prefix, Shown
  <2> QED
    BY <2>1, <2>2, <2>4
<1>4. SomeOrNone \in {"PARTIAL", "FAILED"} /\ TrueOf(SomeOrNone)
  <2>1. CASE confirmed > 0
    BY <1>2, <2>1, SizeAssumption DEF SomeOrNone, TrueOf
  <2>2. CASE confirmed = 0
    BY <1>2, <2>2 DEF SomeOrNone, TrueOf
  <2> QED
    BY <1>2, <2>1, <2>2
<1>5. CASE Confirmed
  <2>1. /\ inbox' \in [Chunks -> Nat] /\ Prefix'
        /\ \A c \in Chunks : inbox'[c] = IF c <= confirmed + 1 THEN 1 ELSE 0
    BY <1>3, <1>5 DEF Confirmed
  <2>2. confirmed' = confirmed + 1 /\ confirmed' \in 0 .. NChunks
        /\ retries' \in 0 .. MaxRetries
    BY <1>2, <1>5, SizeAssumption DEF Confirmed
  <2>3. Shown(confirmed)' /\ Prefix'
    BY <2>1, <2>2 DEF Shown
  <2>4. CASE confirmed + 1 = NChunks
    <3>1. outcome' = "DELIVERED" /\ pc' = "result"
      BY <1>5, <2>4 DEF Confirmed, Ended, Goto
    <3>2. Types'
      BY <1>1, <2>1, <2>2, <3>1 DEF Inv, Types, diskVars, pubVars, Delivery
    <3>3. TrueOf(outcome)'
      BY <2>2, <2>3, <2>4, <3>1 DEF TrueOf, Shown
    <3> QED
      BY <1>1, <1>2, <2>3, <3>1, <3>2, <3>3 DEF Inv, Untold, Sending, Concluding, diskVars
  <2>5. CASE confirmed + 1 # NChunks
    <3>1. outcome' = outcome /\ pc' = "send"
      BY <1>1, <1>5, <2>5 DEF Confirmed
    <3>2. Types'
      BY <1>1, <2>1, <2>2, <3>1 DEF Inv, Types, diskVars, pubVars, Delivery
    <3>3. confirmed' < NChunks
      BY <1>2, <2>2, <2>5, SizeAssumption
    <3> QED
      BY <1>1, <1>2, <2>3, <3>1, <3>2, <3>3 DEF Inv, Untold, Sending, Concluding, diskVars
  <2> QED
    BY <2>4, <2>5
<1>6. ASSUME UNCHANGED <<inbox, confirmed>>, pc' = "result", TrueOf(outcome'),
             outcome' \in Delivery, retries' = retries
      PROVE  Inv'
  <2>1. Types'
    BY <1>1, <1>6 DEF Inv, Types, diskVars, pubVars
  <2>2. TrueOf(outcome)'
    BY <1>6 DEF TrueOf, Shown
  <2> QED
    BY <1>1, <1>2, <1>6, <2>1, <2>2
    DEF Inv, Prefix, Shown, Untold, Sending, Concluding, diskVars
<1>7. CASE Flooded \/ Refused
  <2>1. CASE Flooded /\ retries < MaxRetries
    <3>1. UNCHANGED shownVars /\ retries' \in 0 .. MaxRetries
      BY <1>1, <2>1, SizeAssumption DEF Flooded, shownVars, Inv, Types, diskVars
    <3>2. Types'
      BY <1>1, <3>1 DEF Inv, Types, diskVars, pubVars, shownVars
    <3> QED
      BY <3>1, <3>2, InvRests
  <2>2. CASE Refused \/ (Flooded /\ ~(retries < MaxRetries))
    BY <1>4, <1>6, <2>2 DEF Refused, Flooded, Ended, Goto, Delivery
  <2> QED
    BY <1>7, <2>1, <2>2
<1>8. CASE Ambiguous
  <2>1. CASE UNCHANGED inbox
    BY <1>6, <1>8, <2>1 DEF Ambiguous, Ended, Goto, Delivery, TrueOf
  <2>2. CASE Came(confirmed + 1)
    <3>1. inbox' \in [Chunks -> Nat] /\ Prefix'
      BY <1>3, <2>2
    <3>2. outcome' = "UNCERTAIN" /\ pc' = "result" /\ UNCHANGED <<confirmed, retries>>
      BY <1>8 DEF Ambiguous, Ended, Goto
    <3>3. Types'
      BY <1>1, <3>1, <3>2 DEF Inv, Types, diskVars, pubVars, Delivery
    <3> QED
      BY <1>1, <1>2, <3>1, <3>2, <3>3
      DEF Inv, Untold, Sending, Concluding, TrueOf, diskVars
  <2> QED
    BY <1>8, <2>1, <2>2 DEF Ambiguous
<1> QED
  BY <1>1, <1>5, <1>7, <1>8

LEMMA RecordersStep ==
  ASSUME Inv, CommitResult \/ RecordResult \/ Interrupted
  PROVE  Inv'
<1>1. CASE CommitResult
  <2>1. [copy EXCEPT !.artifacts = @ \cup {"review_result"}] \in Manifest
    BY DEF Inv, Types, Manifest, Records
  <2>2. Types'
    BY <1>1, <2>1 DEF CommitResult, Goto, Inv, Types, pubVars
  <2>3. /\ UNCHANGED <<intent, inbox, confirmed, outcome>> /\ pc = "result"
        /\ pc' = "record_result" /\ result' = outcome
    BY <1>1 DEF CommitResult, Goto
  <2>4. intent
    BY <2>3 DEF Inv, Concluding
  <2> QED
    BY <2>2, <2>3, <2>4 DEF Inv, Prefix, Shown, Untold, Sending, Concluding
<1>2. CASE RecordResult \/ Interrupted
  <2>1. /\ UNCHANGED <<intent, result, inbox>> /\ pc' = "idle"
        /\ confirmed' = 0 /\ outcome' = "UNCERTAIN" /\ retries' = 0 /\ copy' = Ready
        /\ manifest' \in {manifest, copy} /\ crashes' \in {crashes, crashes + 1}
        /\ crashes' = crashes \/ crashes < MaxCrashes
        /\ UNCHANGED <<old, pubVars>>
    BY <1>2 DEF RecordResult, Interrupted, Leave, Goto, Save, diskVars
  <2>2. Ready \in Manifest /\ "UNCERTAIN" \in Delivery
    BY DEF Ready, Manifest, Statuses, Records, Delivery
  <2>3. Types'
    BY <2>1, <2>2, SizeAssumption DEF Inv, Types, pubVars
  <2> QED
    BY <2>1, <2>3 DEF Inv, Prefix, Shown, Untold, Sending, Concluding
<1> QED
  BY <1>1, <1>2

\* Time, and the operator's publication, touch none of it.
LEMMA PublicationStep ==
  ASSUME Inv, GrowOld \/ PublishLoad \/ PublishBegin \/ PublishEnd \/ UNCHANGED vars
  PROVE  Inv'
<1>1. UNCHANGED shownVars
  BY DEF GrowOld, PublishLoad, PublishBegin, PublishEnd, vars, shownVars, diskVars,
     tickVars
<1>2. CASE GrowOld \/ PublishLoad \/ UNCHANGED vars
  <2>1. Types'
    BY <1>2 DEF GrowOld, PublishLoad, Inv, Types, vars, diskVars, tickVars, pubVars
  <2> QED
    BY <1>1, <2>1, InvRests
<1>3. CASE PublishBegin \/ PublishEnd
  <2>1. pubCopy' \in Manifest /\ manifest' = pubCopy' /\ pub' \in {"end", "done"}
        /\ UNCHANGED <<intent, result, old, inbox, tickVars, crashes>>
    BY <1>3 DEF PublishBegin, PublishEnd, Inv, Types, Manifest, Statuses, Records
  <2>2. Types'
    BY <2>1 DEF Inv, Types, tickVars
  <2> QED
    BY <1>1, <2>2, InvRests
<1> QED
  BY <1>2, <1>3

LEMMA InvStep == ASSUME Inv, [Next]_vars PROVE Inv'
BY OpenStep, CommitStep, RecordIntentStep, SendStep, RecordersStep, PublicationStep
DEF Next, Tick

LEMMA AlwaysInv == Spec => []Inv
<1>1. Inv /\ [Next]_vars => Inv'
  BY InvStep
<1> QED
  BY <1>1, InvInit, PTL DEF Spec

\* The delivery's files and a tick's memory keep their types, and a tick that
\* sends has its intent on disk and no result.
THEOREM TypeCorrect == Spec => []TypeOK
<1>1. Inv => TypeOK
  BY DEF Inv, Types, Sending, TypeOK, Chunks
<1> QED
  BY <1>1, AlwaysInv, PTL

-----------------------------------------------------------------------------
(* The promise *)

\* The first k messages, each once.
First(k) == {m \in [chunk : Chunks, nth : {1}] : m.chunk <= k}

\* What a box holds that has the first k chunks once.
LEMMA CopiesOf ==
  ASSUME NEW k \in 0 .. NChunks, NEW box,
         \A c \in Chunks : box[c] = IF c <= k THEN 1 ELSE 0
  PROVE  UNION {[chunk : {c}, nth : 1 .. box[c]] : c \in 1 .. NChunks} = First(k)
<1>1. ASSUME NEW c \in Chunks
      PROVE  [chunk : {c}, nth : 1 .. box[c]]
               = IF c <= k THEN {[chunk |-> c, nth |-> 1]} ELSE {}
  <2>1. CASE c <= k
    <3>1. 1 .. box[c] = {1}
      BY <2>1
    <3>2. \A m \in [chunk : {c}, nth : {1}] : m = [chunk |-> c, nth |-> 1]
      OBVIOUS
    <3>3. [chunk |-> c, nth |-> 1] \in [chunk : {c}, nth : {1}]
      OBVIOUS
    <3>4. [chunk : {c}, nth : {1}] = {[chunk |-> c, nth |-> 1]}
      BY <3>2, <3>3
    <3> QED
      BY <2>1, <3>1, <3>4
  <2>2. CASE ~(c <= k)
    <3>1. 1 .. box[c] = {}
      BY <2>2
    <3> QED
      BY <2>2, <3>1
  <2> QED
    BY <2>1, <2>2
<1>2. ASSUME NEW m, m \in First(k)
      PROVE  m \in UNION {[chunk : {c}, nth : 1 .. box[c]] : c \in 1 .. NChunks}
  <2>1. m = [chunk |-> m.chunk, nth |-> 1] /\ m.chunk \in Chunks /\ m.chunk <= k
    BY <1>2 DEF First
  <2>2. m \in [chunk : {m.chunk}, nth : 1 .. box[m.chunk]]
    BY <1>1, <2>1
  <2> QED
    BY <2>1, <2>2 DEF Chunks
<1>3. ASSUME NEW c \in Chunks, NEW m \in [chunk : {c}, nth : 1 .. box[c]]
      PROVE  m \in First(k)
  <2>1. c <= k /\ m = [chunk |-> c, nth |-> 1]
    BY <1>1, <1>3
  <2> QED
    BY <2>1 DEF First
<1> QED
  BY <1>2, <1>3 DEF Chunks

\* Readers have seen the first k chunks.
LEMMA SeenOf ==
  ASSUME NEW k \in 0 .. NChunks
  PROVE  {m.chunk : m \in First(k)} = 1 .. k
<1>1. ASSUME NEW c \in 1 .. k
      PROVE  c \in {m.chunk : m \in First(k)}
  <2>1. [chunk |-> c, nth |-> 1] \in First(k)
    BY SizeAssumption DEF First, Chunks
  <2> QED
    BY <2>1
<1>2. ASSUME NEW m \in First(k)
      PROVE  m.chunk \in 1 .. k
  BY SizeAssumption DEF First, Chunks
<1> QED
  BY <1>1, <1>2

LEMMA PromiseInit == Init => Promise!Init
<1> SUFFICES ASSUME Init PROVE Promise!Init
  OBVIOUS
<1>1. Copies = First(0)
  BY NoneShown, CopiesOf, SizeAssumption DEF Shown, Copies
<1>2. First(0) = {}
  BY DEF First, Chunks
<1> QED
  BY <1>1, <1>2 DEF Init, Promise!Init

LEMMA PromiseStep == ASSUME Inv, [Next]_vars PROVE [Promise!Next]_(Promise!vars)
<1>1. CASE UNCHANGED <<intent, result, inbox>>
  BY <1>1 DEF Promise!vars, Copies
<1>2. CASE Commit
  <2>1. ~intent /\ intent' /\ result = "NONE" /\ UNCHANGED <<result, inbox>>
    BY <1>2 DEF Commit, Inv, Sending, Untold
  <2>2. Promise!Begin
    BY <2>1 DEF Promise!Begin, Copies
  <2> QED
    BY <2>2 DEF Promise!Next
<1>3. CASE Send
  <2>1. /\ pc = "send" /\ UNCHANGED <<intent, result>>
        /\ UNCHANGED inbox \/ Came(confirmed + 1)
    BY <1>3 DEF Send, Confirmed, Flooded, Refused, Ambiguous, diskVars
  <2>2. CASE Came(confirmed + 1)
    <3>1. PICK k \in 0 .. NChunks - 1 : k = confirmed
      BY <2>1, SizeAssumption DEF Inv, Types, Sending
    <3>2. intent /\ result = "NONE" /\ Shown(k)
      BY <2>1, <3>1 DEF Inv, Sending
    <3>3. \A c \in Chunks : inbox'[c] = IF c <= k + 1 THEN 1 ELSE 0
      BY <2>2, <3>1, <3>2, NextShown DEF Inv
    <3>4. k \in 0 .. NChunks /\ k + 1 \in 0 .. NChunks /\ k + 1 \in Chunks
      BY SizeAssumption DEF Chunks
    <3>5. Copies = First(k)
      BY <3>2, <3>4, CopiesOf DEF Shown, Copies
    <3>6. Copies' = First(k + 1)
      BY <3>3, <3>4, CopiesOf DEF Copies
    <3> DEFINE new == [chunk |-> k + 1, nth |-> 1]
    <3>7. First(k + 1) = First(k) \cup {new}
      <4>1. \A m \in First(k + 1) : m.chunk = k + 1 => m = new
        BY DEF First
      <4>2. \A m \in First(k + 1) : m.chunk # k + 1 => m \in First(k)
        BY <3>4 DEF First, Chunks
      <4>3. new \in First(k + 1)
        BY <3>4 DEF First
      <4>4. First(k) \subseteq First(k + 1)
        BY <3>4 DEF First, Chunks
      <4> QED
        BY <4>1, <4>2, <4>3, <4>4
    <3>8. Promise!Seen = 1 .. new.chunk - 1
      BY <3>4, <3>5, SeenOf DEF Promise!Seen
    <3>9. new \in [chunk : 1 .. NChunks, nth : 1 .. 2]
      BY <3>4 DEF Chunks
    <3>10. Promise!Deliver
      BY <2>1, <3>2, <3>5, <3>6, <3>7, <3>8, <3>9 DEF Promise!Deliver
    <3> QED
      BY <3>10 DEF Promise!Next
  <2> QED
    BY <1>1, <2>1, <2>2
<1>4. CASE CommitResult
  <2>1. /\ intent /\ result = "NONE" /\ result' = outcome /\ TrueOf(outcome)
        /\ outcome \in Delivery /\ UNCHANGED <<intent, inbox>>
    BY <1>4 DEF CommitResult, Inv, Types, Concluding
  <2>2. PICK k \in 0 .. NChunks : Shown(k)
    BY DEF Inv, Prefix
  <2>3. \A n \in 0 .. NChunks : Shown(n) => Promise!Seen = 1 .. n
    BY CopiesOf, SeenOf DEF Shown, Copies, Promise!Seen
  <2>4. outcome # "NONE" /\ Copies' = Copies
    BY <2>1 DEF Delivery, Copies
  <2>5. CASE outcome = "DELIVERED"
    <3>1. Promise!Seen = 1 .. NChunks
      BY <2>1, <2>3, <2>5, SizeAssumption DEF TrueOf
    <3> QED
      BY <2>1, <2>4, <2>5, <3>1 DEF Promise!Close, Promise!Next
  <2>6. CASE outcome = "FAILED"
    <3>1. Promise!Seen = {}
      BY <2>1, <2>3, <2>6, SizeAssumption DEF TrueOf
    <3> QED
      BY <2>1, <2>4, <2>6, <3>1 DEF Promise!Close, Promise!Next
  <2>7. CASE outcome = "PARTIAL"
    <3>1. PICK n \in 1 .. NChunks - 1 : Shown(n)
      BY <2>1, <2>7 DEF TrueOf
    <3>2. Promise!Seen = 1 .. n
      BY <2>3, <3>1, SizeAssumption
    <3>3. 1 \in 1 .. n /\ NChunks \notin 1 .. n /\ NChunks \in 1 .. NChunks
      BY <3>1, SizeAssumption
    <3>4. Promise!Seen \notin {{}, 1 .. NChunks}
      BY <3>2, <3>3
    <3> QED
      BY <2>1, <2>4, <2>7, <3>4 DEF Promise!Close, Promise!Next
  <2>8. CASE outcome = "UNCERTAIN"
    BY <2>1, <2>4, <2>8 DEF Promise!Close, Promise!Next
  <2> QED
    BY <2>1, <2>5, <2>6, <2>7, <2>8 DEF Delivery
<1> QED
  BY <1>1, <1>2, <1>3, <1>4
  DEF Next, Tick, Open, RecordIntent, RecordResult, Interrupted, GrowOld, PublishLoad,
      PublishBegin, PublishEnd, diskVars, vars

\* Whatever fails, is killed or is published in between, the copy is recorded
\* before its first message, shown in order and once, in one attempt, and what is
\* recorded of it is true of what the operator sees (services/review_delivery.py).
THEOREM CopyIsShownOnce == Spec => ReviewKeepsPromise
<1>1. Inv /\ [Next]_vars => [Promise!Next]_(Promise!vars)
  BY PromiseStep
<1> QED
  BY <1>1, AlwaysInv, PromiseInit, PTL DEF Spec, ReviewKeepsPromise, Promise!Spec
=============================================================================
