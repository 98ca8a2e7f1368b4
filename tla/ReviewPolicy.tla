---------------------------- MODULE ReviewPolicy -----------------------------
(***************************************************************************)
(* What a review decides and what may answer it: review_policy.py (which   *)
(* responses are a review, and what deterministic findings make of one),   *)
(* style_review.py, review_action.py (what happens next), and              *)
(* finalizer_policy.py with final_postcheck.py (which revision is          *)
(* accepted).                                                              *)
(*                                                                         *)
(* An issue is [id, severity, names, evidence]: the texts its message      *)
(* names, and the <<path, text>> it cites.  A style finding is             *)
(* [id, severity, section, global].  A revision is [article, answered,     *)
(* applied, styled, unresolved]: the issues it answers, those it says it   *)
(* applied, the style findings it answers and leaves unresolved.           *)
(***************************************************************************)
EXTENDS ArticleChecks

CONSTANTS MediumLimit,  \* MEDIUM style findings that ask for a revision: 3
          MinChars      \* the shortest article a model may return: 40

NoEvidence == <<"none", "none">>

Rank(severity) ==
  CASE severity = "LOW" -> 0 [] severity = "MEDIUM" -> 1 [] severity = "HIGH" -> 2 [] OTHER -> 3
StatusRank(status) ==
  CASE status = "PASS" -> 0 [] status = "NEEDS_REVISION" -> 1 [] OTHER -> 2

Worst(severities) == CHOOSE s \in severities : \A t \in severities : Rank(t) <= Rank(s)

-----------------------------------------------------------------------------
(***************************************************************************)
(* The review                                                              *)
(***************************************************************************)

\* A response [status, score, issues, instructions, style] that is a review.
ValidResponse(r) ==
  /\ r.status = "PASS" => /\ Severe(r.issues) = {}
                          /\ ~r.instructions
                          /\ r.score >= 90
  /\ r.status # "PASS" => r.issues # {}
  /\ \A i \in Severe(r.issues) : i.factual => i.evidence # NoEvidence

Represents(finding, issue) ==
  \/ issue.evidence = <<finding.path, finding.actual>>
  \/ finding.actual # "none" /\ finding.actual \in issue.names

\* A plausible bug: the reviewer's word on the severity stands.
LeftAsReported(issue, findings) == issue

\* An issue is at least as severe as the findings it stands for.
Raised(issue, findings) ==
  [issue EXCEPT !.severity =
     Worst({@} \cup {f.severity : f \in {g \in findings : Represents(g, issue)}})]

\* A severe finding nobody reported becomes an issue; two about one text, one.
Promoted(findings) ==
  {[id |-> <<"precheck", text>>,
    severity |-> Worst({f.severity : f \in {g \in findings : g.actual = text}}),
    names |-> {text}, evidence |-> NoEvidence, factual |-> FALSE] :
      text \in {f.actual : f \in findings}}

FindingsAsIssues(findings, issues) ==
  LET severe == Severe(findings)
  IN  {Raised(i, severe) : i \in issues}
      \cup Promoted({f \in severe : ~\E i \in issues : Represents(f, i)})

RequiredBy(findings) ==
  IF \E f \in findings : f.severity = "CRITICAL" THEN "REJECT"
  ELSE IF \E f \in findings : f.severity = "HIGH" THEN "NEEDS_REVISION"
  ELSE "PASS"

\* Escalated to what the findings require, never lowered.
EffectiveStatus(status, findings) ==
  IF StatusRank(RequiredBy(findings)) > StatusRank(status) THEN RequiredBy(findings) ELSE status

\* The verdict on the style is counted here, not asked of the model; what is
\* to be repaired is everything but the LOW findings.
StyleRepairs(style) ==
  IF \/ \E f \in style : f.severity = "HIGH"
     \/ Cardinality({f \in style : f.severity = "MEDIUM"}) >= MediumLimit
  THEN {f \in style : f.severity \in {"HIGH", "MEDIUM"}}
  ELSE {}

\* Both types a model reviews have a revision path and an active style review;
\* a trade plan is never reviewed.
EffectiveAction(review) ==
  IF review.status = "REJECT" THEN "REJECT"
  ELSE IF review.status # "PASS" \/ StyleRepairs(review.style) # {} THEN "FINALIZE"
  ELSE "PASS_THROUGH"

-----------------------------------------------------------------------------
(***************************************************************************)
(* The revision                                                            *)
(***************************************************************************)

Ids(records) == {r.id : r \in records}

\* Every issue is answered, no other, and the severe ones by being applied.
AccountsForIssues(out, review) ==
  /\ out.answered = Ids(review.issues)
  /\ Ids(Severe(review.issues)) \subseteq out.applied

\* Every finding of the style to be repaired is answered and none left open.
AccountsForStyle(out, repairs) ==
  repairs # {} => /\ out.styled = Ids(repairs)
                  /\ out.unresolved = {}

\* A short text the review cited as wrong that the article still holds.
Uncorrected(review, article) ==
  {i \in review.issues : i.evidence # NoEvidence /\ StillSays(article, i.evidence[2])}

\* A plausible bug: a repair is taken at its word.
CleanButUncorrected(out, draft, review) == Severe(Prechecks(out.article, draft.claims)) = {}

\* No severe finding in the revision, whether the draft had it or not, and
\* no cited error left in the text.
CleanFindings(out, draft, review) ==
  /\ Severe(Prechecks(out.article, draft.claims)) = {}
  /\ Uncorrected(review, out.article) = {}

Unsupported(article, draft) ==
  {n \in Mentions(article) :
     /\ Literal[n].reads \in {"ABSOLUTE_PRICE", "UNKNOWN_PRICE_LIKE"}
     /\ Resolution(n, AuthorisedFacts(draft.claims, draft.news)) = "UNRESOLVED"}
Mistyped(article, draft) ==
  {n \in Mentions(article) :
     Resolution(n, AuthorisedFacts(draft.claims, draft.news)) = "TYPE_MISMATCH"}

ChangedSections(after, before, type) ==
  IF Segmentable(after, type) /\ Segmentable(before, type)
  THEN {k \in Sections(after) \cup Sections(before) : Body(after, k) # Body(before, k)}
  ELSE {}

\* A plausible bug: a finding about the whole article licenses no section.
LicensedByScope(repairs, key) == repairs = {} \/ \E f \in repairs : f.section = key

\* A scoped style finding licenses its section; without style findings, or with
\* one about the whole article, every section is.
Licensed(repairs, key) ==
  \/ repairs = {}
  \/ \E f \in repairs : f.global \/ f.section = key

UnexpectedSections(out, draft, repairs) ==
  {k \in ChangedSections(out.article, draft.article, "ANALYSIS") : ~Licensed(repairs, k)}

\* What a revision may not add to the draft's own faults.
CleanFinal(out, draft, repairs) ==
  /\ ContractCodes(out.article, "ANALYSIS") \subseteq ContractCodes(draft.article, "ANALYSIS")
  /\ Dates(draft.article) \subseteq Dates(out.article)
  /\ Unsupported(out.article, draft) \subseteq Unsupported(draft.article, draft)
  /\ Mistyped(out.article, draft) \subseteq Mistyped(draft.article, draft)
  /\ UnexpectedSections(out, draft, repairs) = {}

AcceptsRevision(out, draft, review) ==
  LET repairs == StyleRepairs(review.style)
  IN  /\ Chars(out.article) >= MinChars
      /\ AccountsForIssues(out, review)
      /\ AccountsForStyle(out, repairs)
      /\ CleanFindings(out, draft, review)
      /\ CleanFinal(out, draft, repairs)

\* A digest is revised through its editorial content and rendered again; its
\* text is searched neither for severe findings nor for the cited errors.
AcceptsDigest(out, draft, review) ==
  /\ AccountsForIssues(out, review)
  /\ AccountsForStyle(out, StyleRepairs(review.style))
  /\ ValidEditorial(out.article \ Shell, out.news, {})
  /\ BrokenEdits(draft.article \ Shell, out.article \ Shell) = {}
  /\ HighContractCodes(out.article, "NEWS_DIGEST") = {}
=============================================================================
