--------------------------- MODULE CritiqueBoundary ---------------------------
(***************************************************************************)
(* One attempt of a reviewer, Adapters.Review of internal/localagent: the  *)
(* model's answer is canonicalised, cut down to the claims it was asked    *)
(* about, corrected where Go holds authority of its own, and asked for     *)
(* once more when it leaves claims out, before it becomes a report.        *)
(*                                                                         *)
(* A body is the model's answer: its decision, the claims it lists as      *)
(* approved and as rejected, and the claims each of its issues refers to.  *)
(* Issues are told apart by those claims only, and lists are sets: every   *)
(* list of a body has its duplicates removed before it is read.            *)
(***************************************************************************)
EXTENDS Naturals, FiniteSets, CritiqueReports

CONSTANTS
  Claims,         \* claims of the packets under review
  Deterministic,  \* those computed or extracted by Go
  Scenarios,      \* hypotheses that stay within declared assumptions
  Invented,       \* identifiers the model makes up
  MaxIssues       \* bound of the model: issues in one body

ASSUME ClaimAssumption ==
  /\ Deterministic \subseteq Claims
  /\ Scenarios \subseteq Claims
  /\ Invented \cap Claims = {}
  /\ MaxIssues \in Nat

VARIABLES
  stage,    \* "asked", "truncated", "incomplete", "reported" or "failed"
  said,     \* the body the report was made of
  report    \* the report

boundaryVars == <<stage, said, report>>

\* The decision of an answer may be missing or misspelt.
Spoken == Decisions \cup {""}
Named == Claims \cup Invented
Bodies ==
  [decision : Spoken, approved : SUBSET Named, rejected : SUBSET Named,
   issues : SUBSET SUBSET Named]
Answers ==
  [decision : Spoken, approved : SUBSET Named, rejected : SUBSET Named,
   issues : {i \in SUBSET SUBSET Named : Cardinality(i) <= MaxIssues}]

-----------------------------------------------------------------------------
(* normalizeCritiqueForInput, pass by pass.                                *)

\* normalizeCritiqueBody: rejection wins every overlap, an approval that
\* rejects something is downgraded, and so is a rejection that approves.
Downgraded(b) ==
  CASE b.decision = "narrow" /\ b.approved = {} -> "reject"
    [] b.decision = "reject" /\ b.approved # {} /\ b.rejected # {} -> "narrow"
    [] OTHER -> b.decision
Disputed(b) == b.rejected \cup UNION b.issues
ApprovalWins(b) == [b EXCEPT !.rejected = @ \ b.approved]
                                               \* mutant of NormalizeBody
NormalizeBody(b) ==
  IF b.decision = "approve" /\ b.rejected = {} THEN b
  ELSE LET disputed == [b EXCEPT
             !.decision = IF @ = "approve" THEN "narrow" ELSE @,
             !.issues = IF b.decision = "approve" THEN @ \cup {Disputed(b)} ELSE @,
             !.rejected = Disputed(b),
             !.approved = @ \ Disputed(b)]
       IN  [disputed EXCEPT !.decision = Downgraded(disputed)]

\* dropUnauthorizedCritiqueReferences.
DropUnauthorized(b) ==
  [b EXCEPT !.approved = @ \cap Claims,
            !.rejected = @ \cap Claims,
            !.issues = {i \cap Claims : i \in @}]

\* protectClaimSet: a reviewer cannot reject what Go vouches for.
Protect(b, protected) ==
  IF protected = {} THEN b
  ELSE LET spared == [b EXCEPT !.approved = @ \cup protected,
                               !.rejected = @ \ protected,
                               !.issues = {i \ protected : i \in @} \ {{}}]
       IN  IF spared.rejected = {} /\ spared.issues = {}
           THEN [spared EXCEPT !.decision = "approve"] ELSE spared

\* completeApprovedComplement: what was not rejected counts as approved.
Complemented(b) ==
  IF b.decision = "approve"
  THEN b.approved # {} /\ b.rejected = {} /\ b.issues = {}
  ELSE /\ b.decision \in Decisions
       /\ b.rejected # {} /\ b.issues # {} /\ {} \notin b.issues
AlwaysComplement(b) == [b EXCEPT !.approved = Claims \ b.rejected]
                                          \* mutant of CompleteComplement
CompleteComplement(b) ==
  IF Complemented(b) THEN [b EXCEPT !.approved = Claims \ b.rejected] ELSE b

\* normalizeCritiqueAgainstPackets: rejecting a part is narrowing.
StillReject(b) == b                                  \* mutant of NarrowPartial
NarrowPartial(b) ==
  IF b.decision = "reject" /\ b.rejected \notin {{}, Claims}
  THEN [b EXCEPT !.decision = "narrow"] ELSE b

ProtectScenariosOnly(b) ==                           \* mutant of Normalize
  NarrowPartial(CompleteComplement(
    Protect(DropUnauthorized(NormalizeBody(b)), Scenarios)))
Normalize(b) ==
  NarrowPartial(CompleteComplement(
    Protect(Protect(DropUnauthorized(NormalizeBody(b)), Deterministic),
            Scenarios)))

\* unclassifiedCritiqueClaims.
Missing(b) == Claims \ (b.approved \cup b.rejected)

\* rejectPersistentlyOmittedCritiqueClaims, for a body that classified some.
RejectOmitted(b) ==
  LET rejected == b.rejected \cup Missing(b)
  IN  [b EXCEPT
         !.rejected = rejected,
         !.issues = ({i \cap rejected : i \in @} \ {{}}) \cup {Missing(b)},
         !.decision = IF b.approved # {} THEN "narrow" ELSE "reject"]

\* authorizeCritiqueClaims and ValidateCritiqueReport.
Acceptable(b) ==
  /\ b.approved \cap b.rejected = {}
  /\ Claims # {}
  /\ IF b.decision = "approve" THEN b.approved # {}
     ELSE b.decision \in Decisions /\ b.issues # {}

-----------------------------------------------------------------------------
(* Review.                                                                 *)

NoBody == [decision |-> "", approved |-> {}, rejected |-> {}, issues |-> {}]

Init ==
  /\ stage = "asked"
  /\ said = NoBody
  /\ report = NoBody

\* A body becomes the report of the attempt, or the attempt fails.
Conclude(raw, b) ==
  IF Acceptable(b)
  THEN stage' = "reported" /\ said' = raw /\ report' = b
  ELSE stage' = "failed" /\ UNCHANGED <<said, report>>

\* The model answers; an answer that leaves claims out is asked for again.
Answer ==
  /\ stage \in {"asked", "truncated"}
  /\ \E raw \in Answers :
       LET b == Normalize(raw)
       IN  IF Missing(b) = {} THEN Conclude(raw, b)
           ELSE stage' = "incomplete" /\ UNCHANGED <<said, report>>

\* The second answer is final: what it omits too is rejected.
AnswerAgain ==
  /\ stage = "incomplete"
  /\ \E raw \in Answers :
       LET b == Normalize(raw)
       IN  CASE Missing(b) = {} -> Conclude(raw, b)
             [] Missing(b) # {} /\ b.approved \cup b.rejected # {} ->
                  Conclude(raw, RejectOmitted(b))
             [] OTHER -> stage' = "failed" /\ UNCHANGED <<said, report>>

\* The first answer breaks off inside its JSON: one more call, with room.
Truncate ==
  /\ stage = "asked"
  /\ stage' = "truncated"
  /\ UNCHANGED <<said, report>>

\* A call fails, or an answer cannot be decoded.
FailReview ==
  /\ stage \in {"asked", "truncated", "incomplete"}
  /\ stage' = "failed"
  /\ UNCHANGED <<said, report>>

Next ==
  \/ Answer
  \/ AnswerAgain
  \/ Truncate
  \/ FailReview

Spec == Init /\ [][Next]_boundaryVars

-----------------------------------------------------------------------------
(* Properties.                                                             *)

TypeOK ==
  /\ stage \in {"asked", "truncated", "incomplete", "reported", "failed"}
  /\ said \in Bodies
  /\ report \in Bodies

Protected == Deterministic \cup Scenarios

\* A report that leaves the adapter is one the orchestrator is modelled
\* against: every claim classified once, no approval that rejects, no partial
\* rejection, and no issue about a claim it does not reject unless it
\* approves (authorizeCritiqueClaims, narrowContextPackets).
ReportKeepsContract ==
  stage = "reported" =>
    /\ [reviewer |-> 1, pass |-> 0, decision |-> report.decision,
        approved |-> report.approved, rejected |-> report.rejected]
          \in Reports(1, 0, Claims)
    /\ report.decision # "approve" => UNION report.issues \subseteq report.rejected

\* Rejection wins: a claim the model rejected or, unless its answer approves
\* and rejects nothing, raised an issue about, and that Go does not vouch
\* for, is never approved, whatever else the answer says of it
\* (normalizeCritiqueBody, completeApprovedComplement).
Objected(b) ==
  IF b.decision = "approve" /\ b.rejected = {} THEN {} ELSE Disputed(b)
RejectionWins ==
  stage = "reported" => (Objected(said) \ Protected) \cap report.approved = {}

\* What Go vouches for survives every answer, the omission rule included
\* (protectDeterministicFindings, rejectPersistentlyOmittedCritiqueClaims).
VouchedForSurvives == stage = "reported" => Protected \subseteq report.approved

\* An empty or invented decision is never expanded into authority: a claim Go
\* does not vouch for is approved only by an answer that names some claim of
\* the packets, to approve of it or to object (completeApprovedComplement).
EmptyDecisionGainsNothing ==
  stage = "reported" /\ report.approved \ Protected # {} =>
    (said.approved \cup Disputed(said)) \cap Claims # {}
=============================================================================
