----------------------------- MODULE CritiqueProofs -----------------------------
(***************************************************************************)
(* What TLAPS proves of CritiqueBoundary for every set of claims, every    *)
(* choice of what Go vouches for and every answer of the model.  Each pass *)
(* of normalizeCritiqueForInput has a lemma; they are chained in           *)
(* NormalizeShapes, and the reports of the two answers follow from it.     *)
(* And what it proves of Synthesizer, the other adapter that repairs what  *)
(* a model wrote before it judges it, for any packets and any draft: again *)
(* a lemma for each pass, chained in RepairedIsMended.                     *)
(***************************************************************************)
EXTENDS CritiqueBoundary, Synthesizer, FiniteSetTheorems, WellFoundedInduction, TLAPS

\* A body that reads the way the rest of Review relies on: an approval rejects
\* nothing, and an objection is about what is rejected.
Shaped(b) ==
  /\ b \in Bodies
  /\ b.decision = "approve" => b.rejected = {}
  /\ b.decision # "approve" => UNION b.issues \subseteq b.rejected

\* The claims o that the model objected to are still rejected, and none of
\* them is approved.
Rejects(b, o) == o \subseteq b.rejected /\ o \cap b.approved = {}

\* What the body may still speak about once it has been authorised.
Authorised(b) ==
  /\ b.approved \subseteq Claims
  /\ b.rejected \subseteq Claims

\* The objections no pass may lose.
Standing(raw) == (Objected(raw) \cap Claims) \ Protected

\* The report keeps all the promises at once.
Kept(raw, b) ==
  /\ Shaped(b)
  /\ Authorised(b)
  /\ Protected \subseteq b.approved
  /\ Standing(raw) \cap b.approved = {}
  /\ b.decision = "reject" => b.rejected \in {{}, Claims}

-----------------------------------------------------------------------------
(* The passes.                                                             *)

\* An answer within the model's bound is a body.
LEMMA AnswersAreBodies == Answers \subseteq Bodies
BY DEF Answers, Bodies

\* What is rejected or objected to are claims the model named.
LEMMA DisputedNamed ==
  ASSUME NEW b \in Bodies
  PROVE  Disputed(b) \subseteq Named
BY DEF Disputed, Bodies

\* normalizeCritiqueBody: rejection wins every overlap.
LEMMA NormalizeBodyShapes ==
  ASSUME NEW raw \in Bodies
  PROVE  /\ Shaped(NormalizeBody(raw))
         /\ Rejects(NormalizeBody(raw), Objected(raw))
<1>1. CASE raw.decision = "approve" /\ raw.rejected = {}
  BY <1>1 DEF NormalizeBody, Shaped, Rejects, Objected
<1>2. CASE ~(raw.decision = "approve" /\ raw.rejected = {})
  <2> DEFINE downgraded == IF raw.decision = "approve" THEN "narrow" ELSE raw.decision
             issues == IF raw.decision = "approve"
                       THEN raw.issues \cup {Disputed(raw)} ELSE raw.issues
             disputed == [raw EXCEPT !.decision = downgraded,
                                     !.issues = issues,
                                     !.rejected = Disputed(raw),
                                     !.approved = @ \ Disputed(raw)]
             final == [disputed EXCEPT !.decision = Downgraded(disputed)]
  <2>1. NormalizeBody(raw) = final
    BY <1>2 DEF NormalizeBody
  <2>2. issues \in SUBSET SUBSET Named /\ downgraded \in Spoken
    <3>1. downgraded \in Spoken
      BY DEF Bodies, Spoken, Decisions
    <3>2. raw.issues \in SUBSET SUBSET Named
      BY DEF Bodies
    <3>3. {Disputed(raw)} \in SUBSET SUBSET Named
      BY DisputedNamed
    <3> QED  BY <3>1, <3>2, <3>3
  <2>3. UNION issues \subseteq Disputed(raw)
    BY DEF Disputed
  <2>4. downgraded # "approve"
    OBVIOUS
  <2> HIDE DEF issues, downgraded
  <2>5. /\ disputed \in Bodies
        /\ disputed.decision = downgraded
        /\ disputed.approved = raw.approved \ Disputed(raw)
        /\ disputed.rejected = Disputed(raw)
        /\ disputed.issues = issues
    BY <2>2, DisputedNamed DEF Bodies
  <2> HIDE DEF disputed
  <2>6. Downgraded(disputed) \in Spoken \ {"approve"}
    BY <2>2, <2>4, <2>5 DEF Downgraded, Spoken, Decisions
  <2>7. /\ final \in Bodies
        /\ final.decision # "approve"
        /\ final.approved = raw.approved \ Disputed(raw)
        /\ final.rejected = Disputed(raw)
        /\ final.issues = issues
    BY <2>5, <2>6 DEF Bodies
  <2> HIDE DEF final
  <2>8. Shaped(final)
    BY <2>3, <2>7 DEF Shaped
  <2>9. Rejects(final, Objected(raw))
    BY <1>2, <2>7 DEF Rejects, Objected
  <2> QED  BY <2>1, <2>8, <2>9
<1> QED  BY <1>1, <1>2

\* dropUnauthorizedCritiqueReferences leaves only claims of the packets.
LEMMA DropShapes ==
  ASSUME NEW b \in Bodies, NEW o, Shaped(b), Rejects(b, o)
  PROVE  /\ Shaped(DropUnauthorized(b))
         /\ Authorised(DropUnauthorized(b))
         /\ Rejects(DropUnauthorized(b), o \cap Claims)
<1> DEFINE issues == {i \cap Claims : i \in b.issues}
           dropped == [b EXCEPT !.approved = @ \cap Claims,
                                !.rejected = @ \cap Claims,
                                !.issues = issues]
<1>1. DropUnauthorized(b) = dropped
  BY DEF DropUnauthorized
<1>2. issues \in SUBSET SUBSET Named
  BY DEF Bodies, Named
<1>3. b.decision # "approve" => UNION issues \subseteq b.rejected \cap Claims
  BY DEF Shaped
<1> HIDE DEF issues
<1>4. /\ dropped \in Bodies
      /\ dropped.decision = b.decision
      /\ dropped.approved = b.approved \cap Claims
      /\ dropped.rejected = b.rejected \cap Claims
      /\ dropped.issues = issues
  BY <1>2 DEF Bodies
<1> HIDE DEF dropped
<1> QED  BY <1>1, <1>3, <1>4 DEF Shaped, Authorised, Rejects

\* protectClaimSet adds what Go vouches for and spares every other objection.
LEMMA ProtectShapes ==
  ASSUME NEW b \in Bodies, NEW o, NEW p \in SUBSET Claims, o \cap p = {},
         Shaped(b), Authorised(b), Rejects(b, o)
  PROVE  /\ Shaped(Protect(b, p))
         /\ Authorised(Protect(b, p))
         /\ Rejects(Protect(b, p), o)
         /\ Protect(b, p).approved = b.approved \cup p
         /\ Protect(b, p).rejected = b.rejected \ p
<1>1. CASE p = {}
  BY <1>1 DEF Protect
<1>2. CASE p # {}
  <2> DEFINE issues == {i \ p : i \in b.issues} \ {{}}
             spared == [b EXCEPT !.approved = @ \cup p,
                                 !.rejected = @ \ p,
                                 !.issues = issues]
             cleared == [spared EXCEPT !.decision = "approve"]
  <2>1. Protect(b, p) = IF spared.rejected = {} /\ spared.issues = {}
                        THEN cleared ELSE spared
    BY <1>2 DEF Protect
  <2>2. issues \in SUBSET SUBSET Named
    BY DEF Bodies
  <2>3. b.decision # "approve" => UNION issues \subseteq b.rejected \ p
    BY DEF Shaped
  <2> HIDE DEF issues
  <2>4. /\ spared \in Bodies
        /\ spared.decision = b.decision
        /\ spared.approved = b.approved \cup p
        /\ spared.rejected = b.rejected \ p
        /\ spared.issues = issues
    BY <2>2 DEF Bodies, Named
  <2> HIDE DEF spared
  <2>5. /\ cleared \in Bodies
        /\ cleared.decision = "approve"
        /\ cleared.approved = b.approved \cup p
        /\ cleared.rejected = b.rejected \ p
    BY <2>4 DEF Bodies, Spoken, Decisions
  <2> HIDE DEF cleared
  <2>6. Shaped(spared)
    BY <2>3, <2>4 DEF Shaped
  <2>7. spared.rejected = {} => Shaped(cleared)
    BY <2>4, <2>5 DEF Shaped
  <2>8. Shaped(Protect(b, p))
    BY <2>1, <2>6, <2>7
  <2>9. /\ Protect(b, p).approved = b.approved \cup p
        /\ Protect(b, p).rejected = b.rejected \ p
    BY <2>1, <2>4, <2>5
  <2> QED  BY <2>8, <2>9 DEF Authorised, Rejects
<1> QED  BY <1>1, <1>2

\* completeApprovedComplement approves what is not rejected, and nothing else.
LEMMA ComplementShapes ==
  ASSUME NEW b \in Bodies, NEW o \in SUBSET Claims, NEW p \in SUBSET Claims,
         Shaped(b), Authorised(b), Rejects(b, o),
         p \subseteq b.approved, p \cap b.rejected = {}
  PROVE  /\ Shaped(CompleteComplement(b))
         /\ Authorised(CompleteComplement(b))
         /\ Rejects(CompleteComplement(b), o)
         /\ p \subseteq CompleteComplement(b).approved
<1> DEFINE completed == [b EXCEPT !.approved = Claims \ b.rejected]
<1>1. CompleteComplement(b) \in {b, completed}
  BY DEF CompleteComplement
<1>2. /\ completed \in Bodies
      /\ completed.decision = b.decision
      /\ completed.approved = Claims \ b.rejected
      /\ completed.rejected = b.rejected
      /\ completed.issues = b.issues
  BY DEF Bodies, Named
<1> HIDE DEF completed
<1>3. /\ Shaped(completed)
      /\ Authorised(completed)
      /\ Rejects(completed, o)
      /\ p \subseteq completed.approved
  BY <1>2 DEF Shaped, Authorised, Rejects
<1> QED  BY <1>1, <1>3

\* normalizeCritiqueAgainstPackets leaves no partial rejection.
LEMMA NarrowShapes ==
  ASSUME NEW b \in Bodies, NEW o, Shaped(b), Authorised(b), Rejects(b, o)
  PROVE  /\ Shaped(NarrowPartial(b))
         /\ Authorised(NarrowPartial(b))
         /\ Rejects(NarrowPartial(b), o)
         /\ NarrowPartial(b).approved = b.approved
         /\ NarrowPartial(b).decision = "reject" =>
              NarrowPartial(b).rejected \in {{}, Claims}
<1> DEFINE narrowed == [b EXCEPT !.decision = "narrow"]
<1>1. /\ narrowed \in Bodies
      /\ narrowed.decision = "narrow"
      /\ narrowed.approved = b.approved
      /\ narrowed.rejected = b.rejected
      /\ narrowed.issues = b.issues
  BY DEF Bodies, Spoken, Decisions
<1>2. NarrowPartial(b) = IF b.decision = "reject" /\ b.rejected \notin {{}, Claims}
                         THEN narrowed ELSE b
  BY DEF NarrowPartial
<1> HIDE DEF narrowed
<1>3. CASE b.decision = "reject" /\ b.rejected \notin {{}, Claims}
  BY <1>1, <1>2, <1>3 DEF Shaped, Authorised, Rejects
<1>4. CASE ~(b.decision = "reject" /\ b.rejected \notin {{}, Claims})
  BY <1>2, <1>4
<1> QED  BY <1>3, <1>4

\* normalizeCritiqueForInput as a whole: whatever the model says.
LEMMA NormalizeKeeps ==
  ASSUME NEW raw \in Bodies
  PROVE  Kept(raw, Normalize(raw))
<1> USE ClaimAssumption
<1> DEFINE canonical == NormalizeBody(raw)
           dropped == DropUnauthorized(canonical)
           vouched == Protect(dropped, Deterministic)
           spared == Protect(vouched, Scenarios)
           completed == CompleteComplement(spared)
<1>1. Normalize(raw) = NarrowPartial(completed)
  BY DEF Normalize
<1> DEFINE o == Standing(raw)
<1>2. o \subseteq Claims /\ o \cap Deterministic = {} /\ o \cap Scenarios = {}
  BY DEF Standing, Protected
<1>3. Shaped(canonical) /\ Rejects(canonical, Objected(raw)) /\ canonical \in Bodies
  BY NormalizeBodyShapes DEF Shaped
<1> HIDE DEF canonical
<1>4. /\ Shaped(dropped) /\ Authorised(dropped) /\ dropped \in Bodies
      /\ Rejects(dropped, Objected(raw) \cap Claims)
  BY <1>3, DropShapes DEF Shaped
<1>5. Rejects(dropped, o)
  BY <1>4 DEF Rejects, Standing
<1> HIDE DEF dropped, o
<1>6. /\ Shaped(vouched) /\ Authorised(vouched) /\ vouched \in Bodies
      /\ Rejects(vouched, o)
      /\ vouched.approved = dropped.approved \cup Deterministic
      /\ vouched.rejected = dropped.rejected \ Deterministic
  BY <1>2, <1>4, <1>5, ProtectShapes DEF Shaped
<1> HIDE DEF vouched
<1>7. /\ Shaped(spared) /\ Authorised(spared) /\ spared \in Bodies
      /\ Rejects(spared, o)
      /\ spared.approved = vouched.approved \cup Scenarios
      /\ spared.rejected = vouched.rejected \ Scenarios
  BY <1>2, <1>6, ProtectShapes DEF Shaped
<1>8. Protected \subseteq spared.approved /\ Protected \cap spared.rejected = {}
  BY <1>6, <1>7 DEF Protected
<1> HIDE DEF spared
<1>9. /\ Shaped(completed) /\ Authorised(completed) /\ completed \in Bodies
      /\ Rejects(completed, o)
      /\ Protected \subseteq completed.approved
  <2>1. Protected \in SUBSET Claims /\ o \in SUBSET Claims
    BY <1>2 DEF Protected
  <2> QED  BY <2>1, <1>7, <1>8, ComplementShapes DEF Shaped
<1> HIDE DEF completed
<1>10. /\ Shaped(NarrowPartial(completed))
       /\ Authorised(NarrowPartial(completed))
       /\ Rejects(NarrowPartial(completed), o)
       /\ NarrowPartial(completed).approved = completed.approved
       /\ NarrowPartial(completed).decision = "reject" =>
            NarrowPartial(completed).rejected \in {{}, Claims}
  BY <1>9, NarrowShapes
<1> QED  BY <1>1, <1>9, <1>10 DEF Kept, Rejects, o

\* rejectPersistentlyOmittedCritiqueClaims only adds rejections of what the
\* body left out.
LEMMA OmittedKeeps ==
  ASSUME NEW raw \in Bodies, NEW b \in Bodies, Kept(raw, b),
         b.approved \cap b.rejected = {}
  PROVE  Kept(raw, RejectOmitted(b))
<1> DEFINE rejected == b.rejected \cup Missing(b)
           issues == ({i \cap rejected : i \in b.issues} \ {{}}) \cup {Missing(b)}
           decided == IF b.approved # {} THEN "narrow" ELSE "reject"
           completed == [b EXCEPT !.rejected = rejected, !.issues = issues,
                                  !.decision = decided]
<1>1. RejectOmitted(b) = completed
  BY DEF RejectOmitted
<1>2. rejected = Claims \ b.approved
  BY DEF Missing, Kept, Authorised
<1>3. rejected \in SUBSET Named /\ Missing(b) \in SUBSET Named
  BY <1>2 DEF Missing, Named
<1>4. issues \in SUBSET SUBSET Named /\ UNION issues \subseteq rejected
  BY <1>3
<1> HIDE DEF rejected, issues
<1>5. /\ completed \in Bodies
      /\ completed.decision = decided
      /\ completed.approved = b.approved
      /\ completed.rejected = rejected
      /\ completed.issues = issues
  BY <1>3, <1>4 DEF Bodies, Spoken, Decisions
<1> HIDE DEF completed
<1>6. Shaped(completed)
  BY <1>4, <1>5 DEF Shaped
<1>7. /\ Authorised(completed)
      /\ Protected \subseteq completed.approved
      /\ Standing(raw) \cap completed.approved = {}
  BY <1>2, <1>5 DEF Kept, Authorised
<1>8. completed.decision = "reject" => completed.rejected \in {{}, Claims}
  BY <1>2, <1>5
<1> QED  BY <1>1, <1>6, <1>7, <1>8 DEF Kept

-----------------------------------------------------------------------------
(* The reports of a reviewer.                                              *)

\* A report comes from an answer, was accepted and keeps every promise.
Sound ==
  stage = "reported" =>
    Kept(said, report) /\ Missing(report) = {} /\ Acceptable(report)
BoundaryInv == TypeOK /\ Sound

\* Concluding with such a body keeps the invariant, accepted or not.
LEMMA ConcludeSound ==
  ASSUME NEW raw \in Bodies, NEW b, BoundaryInv, Conclude(raw, b),
         Acceptable(b) => Kept(raw, b) /\ Missing(b) = {}
  PROVE  BoundaryInv'
<1>1. CASE Acceptable(b)
  <2>1. stage' = "reported" /\ said' = raw /\ report' = b
    BY <1>1 DEF Conclude
  <2>2. Kept(raw, b) /\ Missing(b) = {}
    BY <1>1
  <2>3. b \in Bodies
    BY <2>2 DEF Kept, Shaped
  <2>4. TypeOK'
    BY <2>1, <2>3 DEF TypeOK
  <2>5. Sound'
    BY <2>1, <2>2, <1>1 DEF Sound
  <2> QED  BY <2>4, <2>5 DEF BoundaryInv
<1>2. CASE ~Acceptable(b)
  <2>1. stage' = "failed" /\ said' = said /\ report' = report
    BY <1>2 DEF Conclude
  <2> QED  BY <2>1 DEF BoundaryInv, TypeOK, Sound
<1> QED  BY <1>1, <1>2

\* An attempt that ends without a report, or goes on, promises nothing.
LEMMA SilentSound ==
  ASSUME BoundaryInv, UNCHANGED <<said, report>>,
         stage' \in {"truncated", "incomplete", "failed"}
  PROVE  BoundaryInv'
BY DEF BoundaryInv, TypeOK, Sound

\* Every step of the attempt keeps the invariant.
LEMMA StepSound == BoundaryInv /\ [Next]_boundaryVars => BoundaryInv'
<1> SUFFICES ASSUME BoundaryInv, [Next]_boundaryVars PROVE BoundaryInv'
  OBVIOUS
<1>1. ASSUME Answer PROVE BoundaryInv'
  <2>1. PICK raw \in Answers :
          IF Missing(Normalize(raw)) = {} THEN Conclude(raw, Normalize(raw))
          ELSE stage' = "incomplete" /\ UNCHANGED <<said, report>>
    BY <1>1 DEF Answer
  <2>2. raw \in Bodies
    BY AnswersAreBodies
  <2>3. Kept(raw, Normalize(raw))
    BY <2>2, NormalizeKeeps
  <2>4. CASE Missing(Normalize(raw)) = {}
    BY <2>1, <2>2, <2>3, <2>4, ConcludeSound
  <2>5. CASE Missing(Normalize(raw)) # {}
    BY <2>1, <2>5, SilentSound
  <2> QED  BY <2>4, <2>5
<1>2. ASSUME AnswerAgain PROVE BoundaryInv'
  <2>1. PICK raw \in Answers :
          LET b == Normalize(raw)
          IN  CASE Missing(b) = {} -> Conclude(raw, b)
                [] Missing(b) # {} /\ b.approved \cup b.rejected # {} ->
                     Conclude(raw, RejectOmitted(b))
                [] OTHER -> stage' = "failed" /\ UNCHANGED <<said, report>>
    BY <1>2 DEF AnswerAgain
  <2> DEFINE b == Normalize(raw)
  <2>2. raw \in Bodies
    BY AnswersAreBodies
  <2>3. Kept(raw, b) /\ b \in Bodies
    BY <2>2, NormalizeKeeps DEF Kept, Shaped
  <2> HIDE DEF b
  <2>4. CASE Missing(b) = {}
    <3>1. Conclude(raw, b)
      BY <2>1, <2>4 DEF b
    <3> QED  BY <3>1, <2>2, <2>3, <2>4, ConcludeSound
  <2>5. CASE Missing(b) # {} /\ b.approved \cup b.rejected # {}
    <3>1. Conclude(raw, RejectOmitted(b))
      BY <2>1, <2>5 DEF b
    <3>2. /\ RejectOmitted(b).approved = b.approved
          /\ RejectOmitted(b).rejected = b.rejected \cup Missing(b)
      BY <2>3 DEF RejectOmitted, Bodies
    <3>3. Missing(RejectOmitted(b)) = {}
      BY <3>2 DEF Missing
    <3>4. Acceptable(RejectOmitted(b)) => b.approved \cap b.rejected = {}
      BY <3>2 DEF Acceptable
    <3> QED  BY <3>1, <3>3, <3>4, <2>2, <2>3, OmittedKeeps, ConcludeSound
  <2>6. CASE Missing(b) # {} /\ b.approved \cup b.rejected = {}
    <3>1. stage' = "failed" /\ UNCHANGED <<said, report>>
      BY <2>1, <2>6 DEF b
    <3> QED  BY <3>1, SilentSound
  <2> QED  BY <2>4, <2>5, <2>6
<1>3. ASSUME Truncate PROVE BoundaryInv'
  BY <1>3, SilentSound DEF Truncate
<1>4. ASSUME FailReview PROVE BoundaryInv'
  BY <1>4, SilentSound DEF FailReview
<1>5. ASSUME UNCHANGED boundaryVars PROVE BoundaryInv'
  BY <1>5 DEF boundaryVars, BoundaryInv, TypeOK, Sound
<1> QED  BY <1>1, <1>2, <1>3, <1>4, <1>5 DEF Next

\* Every reachable state of an attempt is well typed, and its report sound.
THEOREM BoundaryInvariant == Spec => []BoundaryInv
<1>1. NoBody \in Bodies
  BY DEF NoBody, Bodies, Spoken
<1>2. Init => BoundaryInv
  BY <1>1 DEF Init, BoundaryInv, TypeOK, Sound
<1> QED  BY <1>2, StepSound, PTL DEF Spec

\* Whatever the packets hold and the model answers, a report that leaves the
\* adapter is one that Orchestrator is modelled and proved against.
THEOREM ReportKeepsContractHolds == Spec => []ReportKeepsContract
<1>1. BoundaryInv => ReportKeepsContract
  <2> SUFFICES ASSUME BoundaryInv, stage = "reported" PROVE
        /\ [reviewer |-> 1, pass |-> 0, decision |-> report.decision,
            approved |-> report.approved, rejected |-> report.rejected]
              \in Reports(1, 0, Claims)
        /\ report.decision # "approve" => UNION report.issues \subseteq report.rejected
    BY DEF ReportKeepsContract
  <2>1. Kept(said, report) /\ Missing(report) = {} /\ Acceptable(report)
    BY DEF BoundaryInv, Sound
  <2>2. report.decision \in Decisions
    BY <2>1 DEF Acceptable, Decisions
  <2>3. /\ report.approved \in SUBSET Claims
        /\ report.rejected = Claims \ report.approved
    BY <2>1 DEF Kept, Authorised, Missing, Acceptable
  <2>4. /\ report.decision = "approve" => report.rejected = {}
        /\ report.decision = "reject" => report.rejected \in {{}, Claims}
        /\ report.decision # "approve" => UNION report.issues \subseteq report.rejected
    BY <2>1 DEF Kept, Shaped
  <2> QED  BY <2>2, <2>3, <2>4 DEF Reports
<1> QED  BY <1>1, BoundaryInvariant, PTL

\* Whatever the packets hold, what the model objected to stays rejected unless
\* Go vouches for it.
THEOREM RejectionWinsHolds == Spec => []RejectionWins
<1>1. BoundaryInv => RejectionWins
  <2> SUFFICES ASSUME BoundaryInv, stage = "reported"
               PROVE  (Objected(said) \ Protected) \cap report.approved = {}
    BY DEF RejectionWins
  <2>1. Kept(said, report)
    BY DEF BoundaryInv, Sound
  <2> QED  BY <2>1 DEF Kept, Standing, Authorised
<1> QED  BY <1>1, BoundaryInvariant, PTL

\* No answer of the model, and no omission, costs a claim Go vouches for.
THEOREM VouchedForSurvivesHolds == Spec => []VouchedForSurvives
<1>1. BoundaryInv => VouchedForSurvives
  BY DEF BoundaryInv, Sound, Kept, VouchedForSurvives
<1> QED  BY <1>1, BoundaryInvariant, PTL

-----------------------------------------------------------------------------
(* What the protection of claims costs the complement.                     *)

\* The answer names some claim of the packets.
Speaks(raw) == (raw.approved \cup Disputed(raw)) \cap Claims # {}

\* Where Go vouches for nothing, an answer that names no claim approves none.
LEMMA SilenceApprovesNothing ==
  ASSUME NEW raw \in Bodies, Protected = {}, Normalize(raw).approved # {}
  PROVE  Speaks(raw)
<1> DEFINE canonical == NormalizeBody(raw)
           dropped == DropUnauthorized(canonical)
<1>1. Deterministic = {} /\ Scenarios = {}
  BY DEF Protected
<1>2. Normalize(raw) = NarrowPartial(CompleteComplement(dropped))
  BY <1>1 DEF Normalize, Protect
<1>3. /\ canonical.approved \subseteq raw.approved
      /\ canonical.rejected \subseteq Disputed(raw)
  BY DEF NormalizeBody, Disputed, Bodies
<1>4. canonical \in Bodies
  BY NormalizeBodyShapes DEF Shaped
<1> HIDE DEF canonical
<1>5. /\ dropped.approved = canonical.approved \cap Claims
      /\ dropped.rejected = canonical.rejected \cap Claims
  BY <1>4 DEF DropUnauthorized, Bodies
<1>6. dropped \in Bodies
  <2>1. Shaped(canonical) /\ Rejects(canonical, Objected(raw))
    BY NormalizeBodyShapes DEF canonical
  <2> QED  BY <2>1, <1>4, DropShapes DEF Shaped
<1> HIDE DEF dropped
<1>7. CompleteComplement(dropped).approved # {}
  <2>1. CompleteComplement(dropped) \in Bodies
    BY <1>6 DEF CompleteComplement, Bodies, Named
  <2> QED  BY <1>2, <2>1 DEF NarrowPartial, Bodies
<1>8. dropped.approved \cup dropped.rejected # {}
  BY <1>7 DEF CompleteComplement, Complemented
<1> QED  BY <1>3, <1>5, <1>8 DEF Speaks

\* Where Go vouches for nothing, an empty or invented decision is never
\* expanded into authority.  Where it does, this fails: protectClaimSet fills
\* the approval that completeApprovedComplement then takes for the model's.
THEOREM UnvouchedSilenceGainsNothing ==
  ASSUME Protected = {}
  PROVE  Spec => []EmptyDecisionGainsNothing
<1> DEFINE Earned == stage = "reported" /\ report.approved # {} => Speaks(said)
<1>1. Init => Earned
  BY DEF Init
<1>2. Earned /\ [Next]_boundaryVars => Earned'
  <2> SUFFICES ASSUME Earned, [Next]_boundaryVars PROVE Earned'
    OBVIOUS
  <2>1. ASSUME NEW raw \in Bodies, NEW b, Conclude(raw, b),
               b.approved = Normalize(raw).approved
        PROVE  Earned'
    <3>1. CASE Acceptable(b)
      <4>1. said' = raw /\ report' = b
        BY <2>1, <3>1 DEF Conclude
      <4> QED  BY <4>1, <2>1, SilenceApprovesNothing DEF Speaks, Disputed
    <3>2. CASE ~Acceptable(b)
      BY <2>1, <3>2 DEF Conclude
    <3> QED  BY <3>1, <3>2
  <2>2. ASSUME Answer PROVE Earned'
    <3>1. PICK raw \in Answers :
            \/ Conclude(raw, Normalize(raw))
            \/ stage' = "incomplete"
      BY <2>2 DEF Answer
    <3>2. raw \in Bodies
      BY AnswersAreBodies
    <3> QED  BY <3>1, <3>2, <2>1
  <2>3. ASSUME AnswerAgain PROVE Earned'
    <3>1. PICK raw \in Answers :
            \/ Conclude(raw, Normalize(raw))
            \/ Conclude(raw, RejectOmitted(Normalize(raw)))
            \/ stage' = "failed"
      BY <2>3 DEF AnswerAgain
    <3>2. raw \in Bodies
      BY AnswersAreBodies
    <3>3. Normalize(raw) \in Bodies
      BY <3>2, NormalizeKeeps DEF Kept, Shaped
    <3>4. RejectOmitted(Normalize(raw)).approved = Normalize(raw).approved
      BY <3>3 DEF RejectOmitted, Bodies
    <3> QED  BY <3>1, <3>2, <3>4, <2>1
  <2>4. ASSUME Truncate \/ FailReview PROVE Earned'
    BY <2>4 DEF Truncate, FailReview
  <2>5. ASSUME UNCHANGED boundaryVars PROVE Earned'
    BY <2>5 DEF boundaryVars, Speaks, Disputed
  <2> QED  BY <2>2, <2>3, <2>4, <2>5 DEF Next
<1>3. Earned => EmptyDecisionGainsNothing
  BY DEF EmptyDecisionGainsNothing, Speaks
<1> QED  BY <1>1, <1>2, <1>3, PTL DEF Spec

-----------------------------------------------------------------------------
(* The answer writer, for any packets and any draft of the model.          *)

\* A sequence, whatever it is of.
Listing(s) == \E n \in Nat : DOMAIN s = 1 .. n

\* A synthesis of some kind of answer out of some packets.
Asked == Listing(writing.packets) /\ writing.intent \in Intents

\* A draft of any sections, that say and cite anything.
Draft(b) ==
  /\ b = [sections |-> b.sections, limitations |-> b.limitations]
  /\ Listing(b.sections) /\ b.sections = [k \in DOMAIN b.sections |-> b.sections[k]]
  /\ \A k \in DOMAIN b.sections :
       b.sections[k] = [type |-> b.sections[k].type, text |-> b.sections[k].text,
                        refs |-> b.sections[k].refs]

LEMMA Least ==
  ASSUME NEW S \in SUBSET Nat, S # {}
  PROVE  Min(S) \in S /\ \A n \in S : Min(S) <= n
<1>1. PICK N \in S : TRUE
  OBVIOUS
<1> DEFINE UpTo(n) == 0 .. n
           Initials == {UpTo(n) : n \in S \cap (0 .. N)}
<1>2. Initials \subseteq SUBSET (0 .. N) /\ Initials # {}
  BY <1>1
<1>3. IsWellFoundedOn(StrictSubsetOrdering(0 .. N), SUBSET (0 .. N))
  <2>1. IsFiniteSet(0 .. N)
    BY <1>1, FS_Interval
  <2> QED BY <2>1, FS_StrictSubsetOrderingWellFounded, FS_FiniteSubsetsOfFinite
<1>4. PICK P \in Initials :
        \A Q \in Initials : <<Q, P>> \notin StrictSubsetOrdering(0 .. N)
  <2> HIDE DEF Initials
  <2> QED BY <1>2, <1>3, WFMin
<1>5. PICK m \in S \cap (0 .. N) : P = UpTo(m)
  OBVIOUS
<1>6. ASSUME NEW n \in S, n < m PROVE FALSE
  <2>1. n \in S \cap (0 .. N)
    BY <1>1, <1>6
  <2>2. UpTo(n) \subseteq UpTo(m) /\ UpTo(n) # UpTo(m)
    BY <1>6
  <2>3. UpTo(n) \in SUBSET (0 .. N) /\ UpTo(m) \in SUBSET (0 .. N)
    BY <1>1, <2>1
  <2>4. <<UpTo(n), UpTo(m)>> \in StrictSubsetOrdering(0 .. N)
    BY <2>2, <2>3 DEF StrictSubsetOrdering
  <2> QED BY <1>4, <1>5, <2>1, <2>4
<1>7. m \in S /\ \A n \in S : m <= n
  BY <1>6
<1> QED BY <1>7 DEF Min

LEMMA MaterialIsNumbered == ASSUME Asked PROVE Material \subseteq Nat
BY DEF Asked, Listing, Material

\* The first of the claims that pass a test is one of them.
LEMMA FirstBy ==
  ASSUME Asked, NEW role
  PROVE  /\ By(role) \subseteq {i \in Material : ClaimOf(i).role = role}
         /\ (\E i \in Material : ClaimOf(i).role = role) => By(role) # {}
<1> DEFINE S == {i \in Material : ClaimOf(i).role = role}
<1>1. By(role) = {i \in S : \A j \in S : i <= j}
  BY DEF By, First
<1>2. S \in SUBSET Nat
  BY MaterialIsNumbered
<1> HIDE DEF S
<1>3. S # {} => Min(S) \in S /\ \A j \in S : Min(S) <= j
  BY <1>2, Least
<1> QED BY <1>1, <1>3 DEF S

LEMMA FirstOfCounters ==
  ASSUME Asked
  PROVE  FirstCounter \subseteq Counters /\ (Counters # {} => FirstCounter # {})
<1>1. FirstCounter = {i \in Counters : \A j \in Counters : i <= j}
  BY DEF FirstCounter, First, Counters
<1>2. Counters \in SUBSET Nat
  BY MaterialIsNumbered DEF Counters
<1>3. Counters # {} => Min(Counters) \in Counters /\ \A j \in Counters : Min(Counters) <= j
  BY <1>2, Least
<1> QED BY <1>1, <1>3

\* Whatever a rule looks for is approved material.
LEMMA FirstIsMaterial ==
  ASSUME NEW role, NEW topic
  PROVE  By(role) \cup SupportedBy(role) \cup About(topic) \subseteq Material
BY DEF By, SupportedBy, About, First

LEMMA OutputsTell ==
  ASSUME Asked
  PROVE  /\ Listing(SectionsAsked) /\ 1 \in DOMAIN SectionsAsked
         /\ IsInjective(SectionsAsked)
         /\ \A n \in DOMAIN SectionsAsked :
              /\ SectionsAsked[n] = "comparison" => writing.intent = "company_comparison"
              /\ SectionsAsked[n] \in {"transmission_mechanisms", "scenarios"} =>
                   writing.intent = "economic_transmission"
              /\ SectionsAsked[n] = "market_measurement" => writing.intent = "market_behavior"
              /\ SectionsAsked[n] \in Opposing => writing.intent = "thesis_review"
<1> DEFINE R == SectionsRequired
<1>1. writing.intent \in {"valuation", "company_comparison", "economic_transmission",
                          "market_behavior", "thesis_review"}
  BY DEF Asked, Intents, SectionsRequired
<1>2. /\ R["valuation"] =
           <<"assumptions", "valuation_range", "sensitivity", "evidence", "limitations">>
      /\ R["company_comparison"] = <<"comparison", "evidence", "limitations">>
      /\ R["economic_transmission"] =
           <<"transmission_mechanisms", "scenarios", "evidence", "limitations">>
      /\ R["market_behavior"] = <<"market_measurement", "evidence", "limitations">>
      /\ R["thesis_review"] = <<"thesis", "counterevidence", "invalidation_conditions",
                                "evidence", "limitations">>
  BY DEF SectionsRequired
<1>3. SectionsAsked = R[writing.intent]
  BY DEF SectionsAsked
<1> HIDE DEF R
<1> DEFINE Told(o) ==
             /\ Listing(o) /\ 1 \in DOMAIN o
             /\ IsInjective(o)
             /\ \A n \in DOMAIN o :
                  /\ o[n] = "comparison" => writing.intent = "company_comparison"
                  /\ o[n] \in {"transmission_mechanisms", "scenarios"} =>
                       writing.intent = "economic_transmission"
                  /\ o[n] = "market_measurement" => writing.intent = "market_behavior"
                  /\ o[n] \in Opposing => writing.intent = "thesis_review"
<1>4. CASE writing.intent = "valuation"
  <2> DEFINE o == <<"assumptions", "valuation_range", "sensitivity", "evidence", "limitations">>
  <2>1. DOMAIN o = 1 .. 5
    OBVIOUS
  <2>2. o[1] = "assumptions" /\ o[2] = "valuation_range" /\ o[3] = "sensitivity" /\ o[4] = "evidence" /\ o[5] = "limitations"
    OBVIOUS
  <2> HIDE DEF o
  <2>3. \A n \in DOMAIN o : n = 1 \/ n = 2 \/ n = 3 \/ n = 4 \/ n = 5
    BY <2>1
  <2>4. Told(o)
    BY <1>4, <2>1, <2>2, <2>3 DEF Listing, IsInjective, Opposing
  <2> QED BY <1>2, <1>3, <1>4, <2>4 DEF o
<1>5. CASE writing.intent = "company_comparison"
  <2> DEFINE o == <<"comparison", "evidence", "limitations">>
  <2>1. DOMAIN o = 1 .. 3
    OBVIOUS
  <2>2. o[1] = "comparison" /\ o[2] = "evidence" /\ o[3] = "limitations"
    OBVIOUS
  <2> HIDE DEF o
  <2>3. \A n \in DOMAIN o : n = 1 \/ n = 2 \/ n = 3
    BY <2>1
  <2>4. Told(o)
    BY <1>5, <2>1, <2>2, <2>3 DEF Listing, IsInjective, Opposing
  <2> QED BY <1>2, <1>3, <1>5, <2>4 DEF o
<1>6. CASE writing.intent = "economic_transmission"
  <2> DEFINE o == <<"transmission_mechanisms", "scenarios", "evidence", "limitations">>
  <2>1. DOMAIN o = 1 .. 4
    OBVIOUS
  <2>2. o[1] = "transmission_mechanisms" /\ o[2] = "scenarios" /\ o[3] = "evidence" /\ o[4] = "limitations"
    OBVIOUS
  <2> HIDE DEF o
  <2>3. \A n \in DOMAIN o : n = 1 \/ n = 2 \/ n = 3 \/ n = 4
    BY <2>1
  <2>4. Told(o)
    BY <1>6, <2>1, <2>2, <2>3 DEF Listing, IsInjective, Opposing
  <2> QED BY <1>2, <1>3, <1>6, <2>4 DEF o
<1>7. CASE writing.intent = "market_behavior"
  <2> DEFINE o == <<"market_measurement", "evidence", "limitations">>
  <2>1. DOMAIN o = 1 .. 3
    OBVIOUS
  <2>2. o[1] = "market_measurement" /\ o[2] = "evidence" /\ o[3] = "limitations"
    OBVIOUS
  <2> HIDE DEF o
  <2>3. \A n \in DOMAIN o : n = 1 \/ n = 2 \/ n = 3
    BY <2>1
  <2>4. Told(o)
    BY <1>7, <2>1, <2>2, <2>3 DEF Listing, IsInjective, Opposing
  <2> QED BY <1>2, <1>3, <1>7, <2>4 DEF o
<1>8. CASE writing.intent = "thesis_review"
  <2> DEFINE o == <<"thesis", "counterevidence", "invalidation_conditions", "evidence", "limitations">>
  <2>1. DOMAIN o = 1 .. 5
    OBVIOUS
  <2>2. o[1] = "thesis" /\ o[2] = "counterevidence" /\ o[3] = "invalidation_conditions" /\ o[4] = "evidence" /\ o[5] = "limitations"
    OBVIOUS
  <2> HIDE DEF o
  <2>3. \A n \in DOMAIN o : n = 1 \/ n = 2 \/ n = 3 \/ n = 4 \/ n = 5
    BY <2>1
  <2>4. Told(o)
    BY <1>8, <2>1, <2>2, <2>3 DEF Listing, IsInjective, Opposing
  <2> QED BY <1>2, <1>3, <1>8, <2>4 DEF o
<1> QED BY <1>1, <1>4, <1>5, <1>6, <1>7, <1>8

\* What Go repairs in a draft that says nothing worse than a number or an internal name,
\* and that only where Go will look for it.
Kinds == {"number", "identifier"}
Tidy(b) ==
  /\ Draft(b)
  /\ b.limitations \subseteq {"plain"} \cup Kinds
  /\ \A k \in DOMAIN b.sections :
       /\ b.sections[k].text # {}
       /\ b.sections[k].text \subseteq {"plain"} \cup Kinds
       /\ b.sections[k].type \notin GovernedTypes \cup {"evidence"} =>
            b.sections[k].text \subseteq {"plain"}

\* What the passes establish, one after the other.
Countered(b) ==
  \A k \in DOMAIN b.sections :
    b.sections[k].type \in Opposing /\ Counters # {} => b.sections[k].refs \cap Counters # {}
Backed(b) ==
  \A k \in DOMAIN b.sections :
    b.sections[k].type \in GovernedTypes => RequiredAuthority(b.sections[k].type) \subseteq b.sections[k].refs
Listed(b) ==
  \A k \in DOMAIN b.sections : b.sections[k].type = "evidence" => b.sections[k].text = {"plain"}
Nameless(b) ==
  /\ "identifier" \notin b.limitations
  /\ \A k \in DOMAIN b.sections : "identifier" \notin b.sections[k].text

\* A pass that leaves the types alone and loses none of it.
Keeps(b, c) ==
  /\ Tidy(c) /\ Types(c) = Types(b)
  /\ Countered(b) => Countered(c)
  /\ Backed(b) => Backed(c)
  /\ Listed(b) => Listed(c)
  /\ Nameless(b) => Nameless(c)

\* Changes(b, c): section by section, only plain sentences are new, and only sections
\* that Go owns lose citations.
Changes(b, c) ==
  /\ Draft(c) /\ DOMAIN c.sections = DOMAIN b.sections
  /\ c.limitations \subseteq {"plain"} \cup b.limitations
  /\ \A k \in DOMAIN b.sections :
       /\ c.sections[k].type = b.sections[k].type
       /\ b.sections[k].type \notin Owned => b.sections[k].refs \subseteq c.sections[k].refs
       /\ c.sections[k].text # {}
       /\ c.sections[k].text \subseteq {"plain"} \cup b.sections[k].text

LEMMA ChangesKeep ==
  ASSUME NEW b, NEW c, Tidy(b), Changes(b, c)
  PROVE  Keeps(b, c)
<1>1. Tidy(c)
  BY DEF Tidy, Changes
<1>2. Types(c) = Types(b)
  BY DEF Types, Changes
<1>3. Countered(b) => Countered(c)
  BY DEF Countered, Changes, Opposing, Owned
<1>4. Backed(b) => Backed(c)
  BY DEF Backed, Changes, GovernedTypes, Owned
<1>5. Listed(b) => Listed(c)
  BY DEF Listed, Changes
<1>6. Nameless(b) => Nameless(c)
  BY DEF Nameless, Changes
<1> QED BY <1>1, <1>2, <1>3, <1>4, <1>5, <1>6 DEF Keeps

LEMMA Citing ==
  ASSUME NEW b, Draft(b), NEW k \in DOMAIN b.sections, NEW claims, NEW sentences
  PROVE  Cite(b.sections[k], claims, sentences) =
           [type |-> b.sections[k].type, text |-> b.sections[k].text \cup sentences,
            refs |-> b.sections[k].refs \cup claims]
BY DEF Cite, Section

\* A pass rewrites each section of a draft, without losing what it was called.
LEMMA PassOf ==
  ASSUME NEW b, Tidy(b), NEW S, NEW L, NEW c,
         c = [sections |-> S, limitations |-> L],
         L \subseteq {"plain"} \cup b.limitations,
         S = [k \in DOMAIN b.sections |-> S[k]],
         \A k \in DOMAIN b.sections : \E x, r :
           /\ S[k] = [type |-> b.sections[k].type, text |-> x, refs |-> r]
           /\ x # {} /\ x \subseteq {"plain"} \cup b.sections[k].text
           /\ b.sections[k].type \notin Owned => b.sections[k].refs \subseteq r
  PROVE  Keeps(b, c) /\ c.sections = S
<1>1. c.sections = S /\ c.limitations = L /\ DOMAIN S = DOMAIN b.sections
  OBVIOUS
<1>2. c = [sections |-> c.sections, limitations |-> c.limitations]
  BY <1>1
<1>3. Listing(c.sections) /\ c.sections = [k \in DOMAIN c.sections |-> c.sections[k]]
  <2>1. Listing(b.sections)
    BY DEF Tidy, Draft
  <2> QED BY <1>1, <2>1 DEF Listing
<1>4. ASSUME NEW k \in DOMAIN b.sections
      PROVE  /\ c.sections[k] = [type |-> c.sections[k].type, text |-> c.sections[k].text,
                                 refs |-> c.sections[k].refs]
             /\ c.sections[k].type = b.sections[k].type
             /\ c.sections[k].text # {}
             /\ c.sections[k].text \subseteq {"plain"} \cup b.sections[k].text
             /\ b.sections[k].type \notin Owned => b.sections[k].refs \subseteq c.sections[k].refs
  <2>1. PICK x, r : /\ S[k] = [type |-> b.sections[k].type, text |-> x, refs |-> r]
                    /\ x # {} /\ x \subseteq {"plain"} \cup b.sections[k].text
                    /\ b.sections[k].type \notin Owned => b.sections[k].refs \subseteq r
    OBVIOUS
  <2>2. c.sections[k].type = b.sections[k].type /\ c.sections[k].text = x
        /\ c.sections[k].refs = r
    BY <1>1, <2>1
  <2>3. c.sections[k] = [type |-> c.sections[k].type, text |-> c.sections[k].text,
                         refs |-> c.sections[k].refs]
    BY <1>1, <2>1, <2>2
  <2> QED BY <2>1, <2>2, <2>3
<1>5. Draft(c)
  BY <1>1, <1>2, <1>3, <1>4 DEF Draft
<1>6. Changes(b, c)
  BY <1>1, <1>4, <1>5 DEF Changes
<1> QED BY <1>1, <1>6, ChangesKeep

LEMMA CounterevidencePlaced ==
  ASSUME Asked, NEW b, Tidy(b)
  PROVE  Keeps(b, PlaceCounterevidence(b)) /\ Countered(PlaceCounterevidence(b))
<1> DEFINE c == PlaceCounterevidence(b)
           S == [k \in DOMAIN b.sections |->
                   IF b.sections[k].type \in Opposing /\ b.sections[k].refs \cap Counters = {}
                   THEN Cite(b.sections[k], FirstCounter, {}) ELSE b.sections[k]]
<1>1. Draft(b)
  BY DEF Tidy
<1>2. c = [sections |-> S, limitations |-> b.limitations]
  BY <1>1 DEF PlaceCounterevidence, EachSection, Draft
<1>3. ASSUME NEW k \in DOMAIN b.sections
      PROVE  \E x, r :
               /\ S[k] = [type |-> b.sections[k].type, text |-> x, refs |-> r]
               /\ x = b.sections[k].text
               /\ b.sections[k].refs \subseteq r
               /\ b.sections[k].type \in Opposing /\ Counters # {} => r \cap Counters # {}
  <2>1. Cite(b.sections[k], FirstCounter, {}) =
          [type |-> b.sections[k].type, text |-> b.sections[k].text,
           refs |-> b.sections[k].refs \cup FirstCounter]
    BY <1>1, Citing
  <2>2. b.sections[k] = [type |-> b.sections[k].type, text |-> b.sections[k].text,
                         refs |-> b.sections[k].refs]
    BY <1>1 DEF Draft
  <2>3. CASE b.sections[k].type \in Opposing /\ b.sections[k].refs \cap Counters = {}
    <3>1. S[k] = [type |-> b.sections[k].type, text |-> b.sections[k].text,
                  refs |-> b.sections[k].refs \cup FirstCounter]
      BY <2>1, <2>3
    <3> HIDE DEF S
    <3> QED BY <3>1, FirstOfCounters
  <2>4. CASE ~(b.sections[k].type \in Opposing /\ b.sections[k].refs \cap Counters = {})
    <3>1. S[k] = [type |-> b.sections[k].type, text |-> b.sections[k].text,
                  refs |-> b.sections[k].refs]
      BY <2>2, <2>4
    <3> HIDE DEF S
    <3> QED BY <2>4, <3>1
  <2> QED BY <2>3, <2>4
<1>4. DOMAIN S = DOMAIN b.sections /\ S = [k \in DOMAIN b.sections |-> S[k]]
  OBVIOUS
<1> HIDE DEF c, S
<1>5. ASSUME NEW k \in DOMAIN b.sections
      PROVE  \E x, r :
               /\ S[k] = [type |-> b.sections[k].type, text |-> x, refs |-> r]
               /\ x # {} /\ x \subseteq {"plain"} \cup b.sections[k].text
               /\ b.sections[k].type \notin Owned => b.sections[k].refs \subseteq r
  BY <1>3 DEF Tidy
<1>6. Keeps(b, c) /\ c.sections = S
  <2>1. b.limitations \subseteq {"plain"} \cup b.limitations
    OBVIOUS
  <2> QED BY <1>2, <1>4, <1>5, <2>1, PassOf
<1>7. Countered(c)
  <2> SUFFICES ASSUME NEW k \in DOMAIN c.sections,
                      c.sections[k].type \in Opposing, Counters # {}
               PROVE  c.sections[k].refs \cap Counters # {}
    BY DEF Countered
  <2>1. PICK x, r : /\ S[k] = [type |-> b.sections[k].type, text |-> x, refs |-> r]
                    /\ b.sections[k].type \in Opposing /\ Counters # {} => r \cap Counters # {}
    BY <1>3, <1>4, <1>6
  <2> QED BY <1>6, <2>1
<1> QED BY <1>6, <1>7 DEF c

LEMMA AuthorityPlaced ==
  ASSUME NEW b, Tidy(b)
  PROVE  Keeps(b, PlaceAuthority(b)) /\ Backed(PlaceAuthority(b))
<1> DEFINE c == PlaceAuthority(b)
           S == [k \in DOMAIN b.sections |->
                   IF b.sections[k].type \in GovernedTypes
                   THEN Cite(b.sections[k], RequiredAuthority(b.sections[k].type), {"plain"})
                   ELSE b.sections[k]]
<1>1. Draft(b)
  BY DEF Tidy
<1>2. c = [sections |-> S, limitations |-> b.limitations]
  BY <1>1 DEF PlaceAuthority, EachSection, Draft
<1>3. ASSUME NEW k \in DOMAIN b.sections
      PROVE  \E x, r :
               /\ S[k] = [type |-> b.sections[k].type, text |-> x, refs |-> r]
               /\ x \in {b.sections[k].text, b.sections[k].text \cup {"plain"}}
               /\ b.sections[k].refs \subseteq r
               /\ b.sections[k].type \in GovernedTypes => RequiredAuthority(b.sections[k].type) \subseteq r
  <2>1. Cite(b.sections[k], RequiredAuthority(b.sections[k].type), {"plain"}) =
          [type |-> b.sections[k].type, text |-> b.sections[k].text \cup {"plain"},
           refs |-> b.sections[k].refs \cup RequiredAuthority(b.sections[k].type)]
    BY <1>1, Citing
  <2>2. b.sections[k] = [type |-> b.sections[k].type, text |-> b.sections[k].text,
                         refs |-> b.sections[k].refs]
    BY <1>1 DEF Draft
  <2>3. CASE b.sections[k].type \in GovernedTypes
    <3>1. S[k] = [type |-> b.sections[k].type, text |-> b.sections[k].text \cup {"plain"},
                  refs |-> b.sections[k].refs \cup RequiredAuthority(b.sections[k].type)]
      BY <2>1, <2>3
    <3> HIDE DEF S
    <3> QED BY <3>1
  <2>4. CASE b.sections[k].type \notin GovernedTypes
    <3>1. S[k] = [type |-> b.sections[k].type, text |-> b.sections[k].text,
                  refs |-> b.sections[k].refs]
      BY <2>2, <2>4
    <3> HIDE DEF S
    <3> QED BY <2>4, <3>1
  <2> QED BY <2>3, <2>4
<1>4. DOMAIN S = DOMAIN b.sections /\ S = [k \in DOMAIN b.sections |-> S[k]]
  OBVIOUS
<1> HIDE DEF c, S
<1>5. ASSUME NEW k \in DOMAIN b.sections
      PROVE  \E x, r :
               /\ S[k] = [type |-> b.sections[k].type, text |-> x, refs |-> r]
               /\ x # {} /\ x \subseteq {"plain"} \cup b.sections[k].text
               /\ b.sections[k].type \notin Owned => b.sections[k].refs \subseteq r
  BY <1>3 DEF Tidy
<1>6. Keeps(b, c) /\ c.sections = S
  <2>1. b.limitations \subseteq {"plain"} \cup b.limitations
    OBVIOUS
  <2> QED BY <1>2, <1>4, <1>5, <2>1, PassOf
<1>7. Backed(c)
  <2> SUFFICES ASSUME NEW k \in DOMAIN c.sections, c.sections[k].type \in GovernedTypes
               PROVE  RequiredAuthority(c.sections[k].type) \subseteq c.sections[k].refs
    BY DEF Backed
  <2>1. PICK x, r : /\ S[k] = [type |-> b.sections[k].type, text |-> x, refs |-> r]
                    /\ b.sections[k].type \in GovernedTypes =>
                         RequiredAuthority(b.sections[k].type) \subseteq r
    BY <1>3, <1>4, <1>6
  <2> QED BY <1>6, <2>1
<1> QED BY <1>6, <1>7 DEF c

\* The claims whose numbers section k is given.
Placed(b, k) ==
  LET shown == UNION {s.refs : s \in {s \in ToSet(b.sections) : Presents(s.type)}}
      types == ToSet(Types(b))
      wanted(i) == Preference(ClaimOf(i).role)
      places(i) == {n \in DOMAIN wanted(i) : wanted(i)[n] \in types}
      placed == {i \in Material : Numeric(i) /\ i \notin shown /\ places(i) # {}}
      target(i) == Min(Of(b, wanted(i)[Min(places(i))]))
  IN {i \in placed : target(i) = k}

LEMMA NumbersCited ==
  ASSUME NEW b, Draft(b)
  PROVE  PlaceNumbers(b) =
           [sections |-> [k \in DOMAIN b.sections |-> Cite(b.sections[k], Placed(b, k), {})],
            limitations |-> b.limitations]
<1> DEFINE shown == UNION {s.refs : s \in {s \in ToSet(b.sections) : Presents(s.type)}}
           types == ToSet(Types(b))
           wanted(i) == Preference(ClaimOf(i).role)
           places(i) == {n \in DOMAIN wanted(i) : wanted(i)[n] \in types}
           placed == {i \in Material : Numeric(i) /\ i \notin shown /\ places(i) # {}}
           target(i) == Min(Of(b, wanted(i)[Min(places(i))]))
           placements == {<<i, target(i)>> : i \in placed}
<1>1. PlaceNumbers(b) =
        [b EXCEPT !.sections =
           [k \in DOMAIN b.sections |->
              Cite(b.sections[k], {i \in placed : <<i, k>> \in placements}, {})]]
  BY DEF PlaceNumbers
<1>2. \A k : Placed(b, k) = {i \in placed : target(i) = k}
  BY DEF Placed
<1> HIDE DEF placed, target
<1>3. \A k : {i \in placed : <<i, k>> \in placements} = Placed(b, k)
  BY <1>2
<1> HIDE DEF placements
<1> QED BY <1>1, <1>3 DEF Draft

LEMMA NumbersPlaced ==
  ASSUME NEW b, Tidy(b)
  PROVE  Keeps(b, PlaceNumbers(b))
<1> DEFINE c == PlaceNumbers(b)
           S == [k \in DOMAIN b.sections |-> Cite(b.sections[k], Placed(b, k), {})]
<1>1. Draft(b)
  BY DEF Tidy
<1>2. c = [sections |-> S, limitations |-> b.limitations]
  BY <1>1, NumbersCited
<1>3. ASSUME NEW k \in DOMAIN b.sections
      PROVE  \E x, r :
               /\ S[k] = [type |-> b.sections[k].type, text |-> x, refs |-> r]
               /\ x # {} /\ x \subseteq {"plain"} \cup b.sections[k].text
               /\ b.sections[k].type \notin Owned => b.sections[k].refs \subseteq r
  <2>1. S[k] = [type |-> b.sections[k].type, text |-> b.sections[k].text,
                refs |-> b.sections[k].refs \cup Placed(b, k)]
    BY <1>1, Citing
  <2> HIDE DEF S
  <2> QED BY <2>1 DEF Tidy
<1>4. DOMAIN S = DOMAIN b.sections /\ S = [k \in DOMAIN b.sections |-> S[k]]
  OBVIOUS
<1> HIDE DEF c, S
<1>5. b.limitations \subseteq {"plain"} \cup b.limitations
  OBVIOUS
<1> QED BY <1>2, <1>3, <1>4, <1>5, PassOf DEF c

LEMMA OwnedNormalized ==
  ASSUME NEW b, Tidy(b)
  PROVE  Keeps(b, NormalizeOwned(b)) /\ Listed(NormalizeOwned(b))
<1> DEFINE c == NormalizeOwned(b)
           own(s) == CASE s.type = "evidence" -> Section(s.type, {"plain"}, Balanced)
                       [] s.type \in {"assumptions", "limitations"} -> [s EXCEPT !.refs = {}]
                       [] OTHER -> s
           S == [k \in DOMAIN b.sections |-> own(b.sections[k])]
<1>1. Draft(b)
  BY DEF Tidy
<1>2. c = [sections |-> S, limitations |-> b.limitations]
  <2>1. c = [b EXCEPT !.sections = S]
    BY DEF NormalizeOwned, EachSection
  <2> HIDE DEF c, S
  <2> QED BY <1>1, <2>1 DEF Draft
<1>3. ASSUME NEW k \in DOMAIN b.sections
      PROVE  \E x, r :
               /\ S[k] = [type |-> b.sections[k].type, text |-> x, refs |-> r]
               /\ x # {} /\ x \subseteq {"plain"} \cup b.sections[k].text
               /\ b.sections[k].type \notin Owned => b.sections[k].refs \subseteq r
               /\ b.sections[k].type = "evidence" => x = {"plain"}
  <2>1. b.sections[k] = [type |-> b.sections[k].type, text |-> b.sections[k].text,
                         refs |-> b.sections[k].refs]
    BY <1>1 DEF Draft
  <2>2. S[k] = own(b.sections[k])
    OBVIOUS
  <2> HIDE DEF S
  <2>3. b.sections[k].text # {}
    BY DEF Tidy
  <2>4. CASE b.sections[k].type = "evidence"
    <3>1. own(b.sections[k]) = Section(b.sections[k].type, {"plain"}, Balanced)
      BY <2>4, Zenon
    <3> HIDE DEF own
    <3> QED BY <2>2, <2>4, <3>1 DEF Section, Owned
  <2>5. CASE b.sections[k].type \in {"assumptions", "limitations"}
    <3>1. b.sections[k].type # "evidence"
      BY <2>5
    <3>2. own(b.sections[k]) = [b.sections[k] EXCEPT !.refs = {}]
      BY <2>5, <3>1, Zenon
    <3>3. [b.sections[k] EXCEPT !.refs = {}] =
            [type |-> b.sections[k].type, text |-> b.sections[k].text, refs |-> {}]
      <4> HIDE DEF own
      <4> QED BY <2>1
    <3>4. S[k] = [type |-> b.sections[k].type, text |-> b.sections[k].text, refs |-> {}]
      BY <2>2, <3>2, <3>3
    <3>5. b.sections[k].type \in Owned
      BY <2>5 DEF Owned
    <3> HIDE DEF own
    <3> QED BY <2>3, <3>1, <3>4, <3>5
  <2>6. CASE b.sections[k].type \notin Owned
    <3>1. own(b.sections[k]) = b.sections[k]
      BY <2>6, Zenon DEF Owned
    <3> HIDE DEF own
    <3> QED BY <2>1, <2>2, <2>3, <2>6, <3>1 DEF Owned
  <2> QED BY <2>4, <2>5, <2>6 DEF Owned
<1>4. DOMAIN S = DOMAIN b.sections /\ S = [k \in DOMAIN b.sections |-> S[k]]
  OBVIOUS
<1> HIDE DEF c, S
<1>5. b.limitations \subseteq {"plain"} \cup b.limitations
  OBVIOUS
<1>6. ASSUME NEW k \in DOMAIN b.sections
      PROVE  \E x, r :
               /\ S[k] = [type |-> b.sections[k].type, text |-> x, refs |-> r]
               /\ x # {} /\ x \subseteq {"plain"} \cup b.sections[k].text
               /\ b.sections[k].type \notin Owned => b.sections[k].refs \subseteq r
  BY <1>3
<1>7. Keeps(b, c) /\ c.sections = S
  BY <1>2, <1>4, <1>5, <1>6, PassOf
<1>8. Listed(c)
  <2> SUFFICES ASSUME NEW k \in DOMAIN c.sections, c.sections[k].type = "evidence"
               PROVE  c.sections[k].text = {"plain"}
    BY DEF Listed
  <2>1. PICK x, r : /\ S[k] = [type |-> b.sections[k].type, text |-> x, refs |-> r]
                    /\ b.sections[k].type = "evidence" => x = {"plain"}
    BY <1>3, <1>4, <1>7
  <2> QED BY <1>7, <2>1
<1> QED BY <1>7, <1>8 DEF c

LEMMA AvailabilityRepaired ==
  ASSUME NEW b, Tidy(b)
  PROVE  Keeps(b, RepairAvailability(b))
<1>1. Draft(b)
  BY DEF Tidy
<1>2. "denial" \notin b.limitations /\ \A k \in DOMAIN b.sections : "denial" \notin b.sections[k].text
  BY DEF Tidy, Kinds
<1>3. Keeps(b, b)
  BY DEF Keeps
<1>4. CASE ~writing.receipts
  BY <1>3, <1>4 DEF RepairAvailability
<1>5. CASE writing.receipts
  <2> DEFINE own(s) == IF "denial" \in s.text
                       THEN [s EXCEPT !.text = (@ \ {"denial"}) \cup {"operation"}] ELSE s
             S == [k \in DOMAIN b.sections |-> own(b.sections[k])]
             L == {IF l = "denial" THEN "plain" ELSE l : l \in b.limitations}
  <2>1. S = b.sections
    <3>1. S = [k \in DOMAIN b.sections |-> b.sections[k]]
      BY <1>2
    <3>2. b.sections = [k \in DOMAIN b.sections |-> b.sections[k]]
      BY <1>1 DEF Draft
    <3> QED BY <3>1, <3>2
  <2>2. L = b.limitations
    BY <1>2
  <2>3. RepairAvailability(b) = [[b EXCEPT !.sections = S] EXCEPT !.limitations = L]
    <3>1. RepairAvailability(b) =
            [[b EXCEPT !.sections = S]
               EXCEPT !.limitations = {IF l = "denial" THEN "plain" ELSE l : l \in @}]
      BY <1>5 DEF RepairAvailability, EachSection
    <3>2. [b EXCEPT !.sections = S].limitations = b.limitations
      <4> HIDE DEF S
      <4> QED BY <1>1 DEF Draft
    <3> HIDE DEF S
    <3> QED BY <3>1, <3>2
  <2> HIDE DEF S, L
  <2>4. RepairAvailability(b) = b
    BY <1>1, <2>1, <2>2, <2>3 DEF Draft
  <2> QED BY <1>3, <2>4
<1> QED BY <1>4, <1>5

LEMMA ReferencesNeutralized ==
  ASSUME NEW b, Tidy(b)
  PROVE  Keeps(b, NeutralizeReferences(b)) /\ Nameless(NeutralizeReferences(b))
<1> DEFINE c == NeutralizeReferences(b)
           S == [k \in DOMAIN b.sections |-> [b.sections[k] EXCEPT !.text = Neutralized(@)]]
           L == Neutralized(b.limitations)
<1>1. Draft(b)
  BY DEF Tidy
<1>2. c = [sections |-> S, limitations |-> L]
  <2>1. c = [[b EXCEPT !.sections = S] EXCEPT !.limitations = Neutralized(@)]
    BY DEF NeutralizeReferences, EachSection
  <2> HIDE DEF c, S
  <2>2. [b EXCEPT !.sections = S] = [sections |-> S, limitations |-> b.limitations]
    BY <1>1 DEF Draft
  <2> QED BY <2>1, <2>2
<1>3. ASSUME NEW x
      PROVE  /\ "identifier" \notin Neutralized(x)
             /\ Neutralized(x) \subseteq {"plain"} \cup x
             /\ x # {} => Neutralized(x) # {}
  BY DEF Neutralized
<1>4. ASSUME NEW k \in DOMAIN b.sections
      PROVE  \E x, r :
               /\ S[k] = [type |-> b.sections[k].type, text |-> x, refs |-> r]
               /\ x # {} /\ x \subseteq {"plain"} \cup b.sections[k].text
               /\ b.sections[k].type \notin Owned => b.sections[k].refs \subseteq r
               /\ "identifier" \notin x
  <2> DEFINE x == Neutralized(b.sections[k].text)
  <2>1. b.sections[k] = [type |-> b.sections[k].type, text |-> b.sections[k].text,
                         refs |-> b.sections[k].refs]
    BY <1>1 DEF Draft
  <2>2. S[k] = [b.sections[k] EXCEPT !.text = x]
    OBVIOUS
  <2>3. /\ x # {} /\ x \subseteq {"plain"} \cup b.sections[k].text
        /\ "identifier" \notin x
    BY <1>3 DEF Tidy
  <2> HIDE DEF S, x
  <2>4. S[k] = [type |-> b.sections[k].type, text |-> x, refs |-> b.sections[k].refs]
    BY <2>1, <2>2
  <2> QED BY <2>3, <2>4
<1>5. DOMAIN S = DOMAIN b.sections /\ S = [k \in DOMAIN b.sections |-> S[k]]
  OBVIOUS
<1>6. L \subseteq {"plain"} \cup b.limitations /\ "identifier" \notin L
  BY <1>3
<1> HIDE DEF c, S, L
<1>7. ASSUME NEW k \in DOMAIN b.sections
      PROVE  \E x, r :
               /\ S[k] = [type |-> b.sections[k].type, text |-> x, refs |-> r]
               /\ x # {} /\ x \subseteq {"plain"} \cup b.sections[k].text
               /\ b.sections[k].type \notin Owned => b.sections[k].refs \subseteq r
  BY <1>4
<1>8. Keeps(b, c) /\ c.sections = S
  BY <1>2, <1>5, <1>6, <1>7, PassOf
<1>9. Nameless(c)
  <2>1. c.limitations = L
    BY <1>2
  <2>2. ASSUME NEW k \in DOMAIN c.sections PROVE "identifier" \notin c.sections[k].text
    <3>1. PICK x, r : /\ S[k] = [type |-> b.sections[k].type, text |-> x, refs |-> r]
                      /\ "identifier" \notin x
      BY <1>4, <1>5, <1>8
    <3> QED BY <1>8, <3>1
  <2> QED BY <1>6, <2>1, <2>2 DEF Nameless
<1> QED BY <1>8, <1>9 DEF c

LEMMA BoundaryShown ==
  ASSUME NEW b, Tidy(b)
  PROVE  Keeps(b, ShowBoundary(b))
<1>1. Draft(b)
  BY DEF Tidy
<1>2. Keeps(b, b)
  BY DEF Keeps
<1>3. CASE writing.intent = "company_comparison"
  <2> DEFINE c == ShowBoundary(b)
             L == b.limitations \cup {"plain"}
  <2>1. c = [sections |-> b.sections, limitations |-> L]
    <3>1. c = [b EXCEPT !.limitations = L]
      BY <1>3 DEF ShowBoundary
    <3> HIDE DEF c, L
    <3> QED BY <1>1, <3>1 DEF Draft
  <2>2. L \subseteq {"plain"} \cup b.limitations
    OBVIOUS
  <2> HIDE DEF c, L
  <2>3. ASSUME NEW k \in DOMAIN b.sections
        PROVE  \E x, r :
                 /\ b.sections[k] = [type |-> b.sections[k].type, text |-> x, refs |-> r]
                 /\ x # {} /\ x \subseteq {"plain"} \cup b.sections[k].text
                 /\ b.sections[k].type \notin Owned => b.sections[k].refs \subseteq r
    <3>1. b.sections[k] = [type |-> b.sections[k].type, text |-> b.sections[k].text,
                           refs |-> b.sections[k].refs]
      BY <1>1 DEF Draft
    <3>2. b.sections[k].text # {}
      BY DEF Tidy
    <3> QED BY <3>1, <3>2
  <2>4. b.sections = [k \in DOMAIN b.sections |-> b.sections[k]]
    BY <1>1 DEF Draft
  <2> QED BY <2>1, <2>2, <2>3, <2>4, PassOf DEF c
<1>4. CASE writing.intent # "company_comparison"
  BY <1>2, <1>4 DEF ShowBoundary
<1> QED BY <1>3, <1>4

LEMMA CausesNeutralized ==
  ASSUME NEW b, Tidy(b)
  PROVE  Keeps(b, NeutralizeCauses(b))
<1> DEFINE own(s) == IF s.type \in {"transmission_mechanisms", "market_measurement"} /\ "cause" \in s.text
                     THEN [s EXCEPT !.text = (@ \ {"cause"}) \cup {"plain"}] ELSE s
           S == [k \in DOMAIN b.sections |-> own(b.sections[k])]
<1>1. Draft(b) /\ \A k \in DOMAIN b.sections : "cause" \notin b.sections[k].text
  BY DEF Tidy, Kinds
<1>2. S = b.sections
  <2>1. S = [k \in DOMAIN b.sections |-> b.sections[k]]
    BY <1>1
  <2>2. b.sections = [k \in DOMAIN b.sections |-> b.sections[k]]
    BY <1>1 DEF Draft
  <2> QED BY <2>1, <2>2
<1>3. NeutralizeCauses(b) = [b EXCEPT !.sections = S]
  BY DEF NeutralizeCauses, EachSection
<1> HIDE DEF S
<1>4. NeutralizeCauses(b) = b
  BY <1>1, <1>2, <1>3 DEF Draft
<1> QED BY <1>4 DEF Keeps

\* What the eight passes leave.
Mended(b) == Tidy(b) /\ Countered(b) /\ Backed(b) /\ Listed(b) /\ Nameless(b)

LEMMA RepairedIsMended ==
  ASSUME Asked, NEW b, Tidy(b)
  PROVE  Mended(Repaired(b)) /\ Types(Repaired(b)) = Types(b)
<1> DEFINE c1 == PlaceCounterevidence(b)
           c2 == PlaceAuthority(c1)
           c3 == PlaceNumbers(c2)
           c4 == NormalizeOwned(c3)
           c5 == RepairAvailability(c4)
           c6 == NeutralizeReferences(c5)
           c7 == ShowBoundary(c6)
           c8 == NeutralizeCauses(c7)
<1>1. Repaired(b) = c8
  BY DEF Repaired
<1>2. Keeps(b, c1) /\ Countered(c1)
  BY CounterevidencePlaced
<1>3. Tidy(c1)
  BY <1>2 DEF Keeps
<1> HIDE DEF c1
<1>4. Keeps(c1, c2) /\ Backed(c2)
  BY <1>3, AuthorityPlaced
<1>5. Tidy(c2)
  BY <1>4 DEF Keeps
<1> HIDE DEF c2
<1>6. Keeps(c2, c3)
  BY <1>5, NumbersPlaced
<1>7. Tidy(c3)
  BY <1>6 DEF Keeps
<1> HIDE DEF c3
<1>8. Keeps(c3, c4) /\ Listed(c4)
  BY <1>7, OwnedNormalized
<1>9. Tidy(c4)
  BY <1>8 DEF Keeps
<1> HIDE DEF c4
<1>10. Keeps(c4, c5)
  BY <1>9, AvailabilityRepaired
<1>11. Tidy(c5)
  BY <1>10 DEF Keeps
<1> HIDE DEF c5
<1>12. Keeps(c5, c6) /\ Nameless(c6)
  BY <1>11, ReferencesNeutralized
<1>13. Tidy(c6)
  BY <1>12 DEF Keeps
<1> HIDE DEF c6
<1>14. Keeps(c6, c7)
  BY <1>13, BoundaryShown
<1>15. Tidy(c7)
  BY <1>14 DEF Keeps
<1> HIDE DEF c7
<1>16. Keeps(c7, c8)
  BY <1>15, CausesNeutralized
<1> HIDE DEF c8
<1> QED BY <1>1, <1>2, <1>4, <1>6, <1>8, <1>10, <1>12, <1>14, <1>16 DEF Keeps, Mended

\* Only sections that Go writes are missing, and none is unasked for or there twice.
Covers(b) ==
  /\ IsInjective(Types(b))
  /\ ToSet(Types(b)) \subseteq ToSet(SectionsAsked)
  /\ ToSet(SectionsAsked) \ Owned \subseteq ToSet(Types(b))

LEMMA CompletedIsRequested ==
  ASSUME Asked, Balanced # {}, NEW b, Mended(b), Covers(b)
  PROVE  Mended(CompletedDraft(b)) /\ RequestedSet(CompletedDraft(b))
<1>1. CASE RequestedSet(b)
  BY <1>1 DEF CompletedDraft
<1>2. CASE ~RequestedSet(b)
  <2> DEFINE own(t) == Section(t, {"plain"}, IF t = "evidence" THEN Balanced ELSE {})
             S == [k \in DOMAIN SectionsAsked |->
                     IF Of(b, SectionsAsked[k]) = {} THEN own(SectionsAsked[k])
                     ELSE b.sections[Min(Of(b, SectionsAsked[k]))]]
             c == Rebuilt(b)
  <2>1. Rebuildable(b)
    BY <1>2 DEF Rebuildable, RequestedSet, Covers
  <2>2. CompletedDraft(b) = c
    BY <1>2, <2>1 DEF CompletedDraft
  <2>3. c = [sections |-> S, limitations |-> b.limitations]
    <3>1. c = [b EXCEPT !.sections = S]
      BY DEF Rebuilt
    <3> HIDE DEF c, S
    <3> QED BY <3>1 DEF Mended, Tidy, Draft
  <2>4. Listing(SectionsAsked) /\ IsInjective(SectionsAsked)
    BY OutputsTell
  <2>5. ASSUME NEW k \in DOMAIN SectionsAsked
        PROVE  \E x, r :
                 /\ S[k] = [type |-> SectionsAsked[k], text |-> x, refs |-> r]
                 /\ x # {} /\ x \subseteq {"plain"} \cup Kinds
                 /\ SectionsAsked[k] \notin GovernedTypes \cup {"evidence"} => x \subseteq {"plain"}
                 /\ SectionsAsked[k] \in Opposing /\ Counters # {} => r \cap Counters # {}
                 /\ SectionsAsked[k] \in GovernedTypes => RequiredAuthority(SectionsAsked[k]) \subseteq r
                 /\ SectionsAsked[k] = "evidence" => x = {"plain"}
                 /\ "identifier" \notin x
    <3>1. CASE Of(b, SectionsAsked[k]) = {}
      <4>1. SectionsAsked[k] \notin ToSet(Types(b))
        BY <3>1 DEF Of, ToSet, Types
      <4>2. SectionsAsked[k] \in Owned
        BY <4>1 DEF Covers, ToSet
      <4>3. SectionsAsked[k] \notin Opposing \cup GovernedTypes
        BY <4>2 DEF Owned, Opposing, GovernedTypes
      <4>4. \E r : S[k] = [type |-> SectionsAsked[k], text |-> {"plain"}, refs |-> r]
        BY <3>1 DEF Section
      <4> HIDE DEF S
      <4> QED BY <4>3, <4>4
    <3>2. CASE Of(b, SectionsAsked[k]) # {}
      <4>1. DOMAIN b.sections \subseteq Nat
        BY DEF Mended, Tidy, Draft, Listing
      <4>2. Of(b, SectionsAsked[k]) \in SUBSET Nat
        BY <4>1 DEF Of
      <4>3. Min(Of(b, SectionsAsked[k])) \in Of(b, SectionsAsked[k])
        BY <3>2, <4>2, Least
      <4>4. PICK j \in DOMAIN b.sections :
              j = Min(Of(b, SectionsAsked[k])) /\ b.sections[j].type = SectionsAsked[k]
        BY <4>3 DEF Of
      <4>5. S[k] = b.sections[j]
        BY <3>2, <4>4
      <4>6. S[k] = [type |-> SectionsAsked[k], text |-> b.sections[j].text, refs |-> b.sections[j].refs]
        BY <4>4, <4>5 DEF Mended, Tidy, Draft
      <4> HIDE DEF S
      <4> QED BY <4>4, <4>6 DEF Mended, Tidy, Countered, Backed, Listed, Nameless
    <3> QED BY <3>1, <3>2
  <2>6. DOMAIN S = DOMAIN SectionsAsked /\ S = [k \in DOMAIN SectionsAsked |-> S[k]]
    OBVIOUS
  <2> HIDE DEF S, c
  <2>7. c.sections = S /\ c.limitations = b.limitations
    BY <2>3
  <2>8. ASSUME NEW k \in DOMAIN SectionsAsked
        PROVE  /\ c.sections[k] = [type |-> c.sections[k].type, text |-> c.sections[k].text,
                                   refs |-> c.sections[k].refs]
               /\ c.sections[k].type = SectionsAsked[k]
               /\ c.sections[k].text # {} /\ c.sections[k].text \subseteq {"plain"} \cup Kinds
               /\ SectionsAsked[k] \notin GovernedTypes \cup {"evidence"} => c.sections[k].text \subseteq {"plain"}
               /\ SectionsAsked[k] \in Opposing /\ Counters # {} => c.sections[k].refs \cap Counters # {}
               /\ SectionsAsked[k] \in GovernedTypes => RequiredAuthority(SectionsAsked[k]) \subseteq c.sections[k].refs
               /\ SectionsAsked[k] = "evidence" => c.sections[k].text = {"plain"}
               /\ "identifier" \notin c.sections[k].text
    <3>1. PICK x, r :
                 /\ S[k] = [type |-> SectionsAsked[k], text |-> x, refs |-> r]
                 /\ x # {} /\ x \subseteq {"plain"} \cup Kinds
                 /\ SectionsAsked[k] \notin GovernedTypes \cup {"evidence"} => x \subseteq {"plain"}
                 /\ SectionsAsked[k] \in Opposing /\ Counters # {} => r \cap Counters # {}
                 /\ SectionsAsked[k] \in GovernedTypes => RequiredAuthority(SectionsAsked[k]) \subseteq r
                 /\ SectionsAsked[k] = "evidence" => x = {"plain"}
                 /\ "identifier" \notin x
      BY <2>5
    <3>2. c.sections[k].type = SectionsAsked[k] /\ c.sections[k].text = x /\ c.sections[k].refs = r
      BY <2>7, <3>1
    <3>3. c.sections[k] = [type |-> c.sections[k].type, text |-> c.sections[k].text,
                           refs |-> c.sections[k].refs]
      BY <2>7, <3>1, <3>2
    <3> QED BY <3>1, <3>2, <3>3
  <2>9. DOMAIN c.sections = DOMAIN SectionsAsked
    BY <2>6, <2>7
  <2>10. Draft(c)
    <3>1. c = [sections |-> c.sections, limitations |-> c.limitations]
      BY <2>3, <2>7
    <3>2. Listing(c.sections)
      BY <2>4, <2>9 DEF Listing
    <3>3. c.sections = [k \in DOMAIN c.sections |-> c.sections[k]]
      BY <2>6, <2>7
    <3> QED BY <2>8, <2>9, <3>1, <3>2, <3>3 DEF Draft
  <2>11. Tidy(c)
    BY <2>7, <2>8, <2>9, <2>10 DEF Mended, Tidy
  <2>12. Countered(c) /\ Backed(c) /\ Listed(c)
    BY <2>8, <2>9 DEF Countered, Backed, Listed
  <2>13. Nameless(c)
    BY <2>7, <2>8, <2>9 DEF Nameless, Mended
  <2>14. RequestedSet(c)
    <3>1. DOMAIN Types(c) = DOMAIN SectionsAsked /\ \A k \in DOMAIN SectionsAsked : Types(c)[k] = SectionsAsked[k]
      BY <2>8, <2>9 DEF Types
    <3>2. IsInjective(Types(c))
      BY <2>4, <3>1 DEF IsInjective
    <3>3. ToSet(Types(c)) = ToSet(SectionsAsked)
      BY <3>1 DEF ToSet
    <3> QED BY <3>2, <3>3 DEF RequestedSet
  <2> QED BY <2>2, <2>11, <2>12, <2>13, <2>14 DEF Mended
<1> QED BY <1>1, <1>2

LEMMA AuthorityTells ==
  /\ RequiredAuthority("comparison") =
       By("business") \cup By("accounting") \cup By("quality") \cup About("fiscal")
  /\ RequiredAuthority("transmission_mechanisms") =
       By("economics") \cup About("macro") \cup SupportedBy("economics")
  /\ RequiredAuthority("market_measurement") = By("market")
  /\ RequiredAuthority("valuation_range") = SupportedBy("valuation")
  /\ RequiredAuthority("sensitivity") = SupportedBy("valuation")
  /\ RequiredAuthority("scenarios") =
       By("economics") \cup SupportedBy("economics") \cup About("macro")
<1>1. RequiredAuthority("comparison") =
        By("business") \cup By("accounting") \cup By("quality") \cup About("fiscal")
  BY Zenon DEF RequiredAuthority
<1>2. RequiredAuthority("transmission_mechanisms") =
        By("economics") \cup About("macro") \cup SupportedBy("economics")
  BY Zenon DEF RequiredAuthority
<1>3. RequiredAuthority("market_measurement") = By("market")
  BY Zenon DEF RequiredAuthority
<1>4. RequiredAuthority("valuation_range") = SupportedBy("valuation")
  BY Zenon DEF RequiredAuthority
<1>5. RequiredAuthority("sensitivity") = SupportedBy("valuation")
  BY Zenon DEF RequiredAuthority
<1>6. RequiredAuthority("scenarios") =
        By("economics") \cup SupportedBy("economics") \cup About("macro")
  BY Zenon DEF RequiredAuthority
<1> QED BY <1>1, <1>2, <1>3, <1>4, <1>5, <1>6

LEMMA AuthorityIsMaterial ==
  ASSUME NEW type \in GovernedTypes
  PROVE  RequiredAuthority(type) \subseteq Material
BY AuthorityTells, FirstIsMaterial DEF GovernedTypes

\* Every governed section has a claim to cite.
Authorized(b) ==
  \A k \in DOMAIN b.sections :
    b.sections[k].type \in GovernedTypes => RequiredAuthority(b.sections[k].type) # {}

\* Nothing is left to say but what is plain.
Plain(b) ==
  /\ b.limitations \subseteq {"plain"}
  /\ \A k \in DOMAIN b.sections : b.sections[k].text = {"plain"}

LEMMA QuietIsPlain ==
  ASSUME NEW b, Mended(b), Authorized(b)
  PROVE  Keeps(b, Quiet(b)) /\ Plain(Quiet(b))
<1>1. Draft(b) /\ Tidy(b)
  BY DEF Mended, Tidy
<1>2. ASSUME NEW k \in DOMAIN b.sections
      PROVE  b.sections[k].text # {} /\ b.sections[k].text \subseteq {"plain", "number"}
  BY DEF Mended, Tidy, Nameless, Kinds
<1>3. b.limitations \subseteq {"plain", "number"}
  BY DEF Mended, Tidy, Nameless, Kinds
<1>4. CASE Silent(b)
  <2>1. "number" \notin b.limitations /\ \A k \in DOMAIN b.sections : "number" \notin b.sections[k].text
    BY <1>4 DEF Silent, ToSet
  <2>2. Plain(b)
    BY <1>2, <1>3, <2>1 DEF Plain
  <2> QED BY <1>1, <1>4, <2>2 DEF Quiet, Keeps
<1>5. CASE ~Silent(b)
  <2>1. Silenceable(b)
    <3> SUFFICES ASSUME NEW k \in DOMAIN b.sections, "number" \in b.sections[k].text
                 PROVE  b.sections[k].refs \cap Material # {}
      BY DEF Silenceable, ToSet
    <3>1. b.sections[k].type \in GovernedTypes
      BY DEF Mended, Tidy, Listed
    <3>2. RequiredAuthority(b.sections[k].type) \subseteq Material
      BY <3>1, AuthorityIsMaterial
    <3> QED BY <3>1, <3>2 DEF Mended, Backed, Authorized
  <2> DEFINE L == OrPlain(b.limitations \ {"number"})
             silence(s) == CASE s.type = "assumptions" -> Section(s.type, {"plain"}, {})
                             [] s.type = "limitations" -> Section(s.type, L, {})
                             [] s.type \notin {"assumptions", "limitations"} /\ "number" \in s.text ->
                                  [s EXCEPT !.text = OrPlain(@ \ {"number"})]
                             [] OTHER -> s
             S == [k \in DOMAIN b.sections |-> silence(b.sections[k])]
             c == Silenced(b)
  <2>2. Quiet(b) = c
    BY <1>5, <2>1 DEF Quiet
  <2>3. L = {"plain"}
    BY <1>3 DEF OrPlain
  <2>4. c = [sections |-> S, limitations |-> L]
    <3>1. c = [[b EXCEPT !.sections = S] EXCEPT !.limitations = L]
      BY DEF Silenced, EachSection
    <3> HIDE DEF c, S, L
    <3>2. [b EXCEPT !.sections = S] = [sections |-> S, limitations |-> b.limitations]
      BY <1>1 DEF Draft
    <3> QED BY <3>1, <3>2
  <2> HIDE DEF L
  <2>5. ASSUME NEW k \in DOMAIN b.sections
        PROVE  \E r : /\ S[k] = [type |-> b.sections[k].type, text |-> {"plain"}, refs |-> r]
                      /\ b.sections[k].type \notin Owned => b.sections[k].refs \subseteq r
    <3>1. b.sections[k] = [type |-> b.sections[k].type, text |-> b.sections[k].text,
                           refs |-> b.sections[k].refs]
      BY <1>1 DEF Draft
    <3>2. S[k] = silence(b.sections[k])
      OBVIOUS
    <3> HIDE DEF S
    <3>3. CASE b.sections[k].type = "assumptions"
      <4>1. silence(b.sections[k]) = Section(b.sections[k].type, {"plain"}, {})
        BY <3>3, Zenon
      <4> HIDE DEF silence
      <4> QED BY <3>2, <3>3, <4>1 DEF Section, Owned
    <3>4. CASE b.sections[k].type = "limitations"
      <4>1. b.sections[k].type # "assumptions"
        BY <3>4
      <4>2. silence(b.sections[k]) = Section(b.sections[k].type, L, {})
        BY <3>4, <4>1, Zenon
      <4> HIDE DEF silence
      <4> QED BY <2>3, <3>2, <3>4, <4>2 DEF Section, Owned
    <3>5. CASE /\ b.sections[k].type \notin {"assumptions", "limitations"}
               /\ "number" \in b.sections[k].text
      <4> DEFINE x == OrPlain(b.sections[k].text \ {"number"})
      <4>1. silence(b.sections[k]) = [b.sections[k] EXCEPT !.text = x]
        BY <3>5, Zenon
      <4>2. x = {"plain"}
        BY <1>2 DEF OrPlain
      <4> HIDE DEF silence, x
      <4>3. silence(b.sections[k]) = [type |-> b.sections[k].type, text |-> {"plain"},
                                      refs |-> b.sections[k].refs]
        BY <3>1, <4>1, <4>2
      <4> QED BY <3>2, <4>3
    <3>6. CASE /\ b.sections[k].type \notin {"assumptions", "limitations"}
               /\ "number" \notin b.sections[k].text
      <4>1. silence(b.sections[k]) = b.sections[k]
        BY <3>6, Zenon
      <4>2. b.sections[k].text = {"plain"}
        BY <1>2, <3>6
      <4> HIDE DEF silence
      <4> QED BY <3>1, <3>2, <4>1, <4>2
    <3> QED BY <3>3, <3>4, <3>5, <3>6
  <2>6. DOMAIN S = DOMAIN b.sections /\ S = [k \in DOMAIN b.sections |-> S[k]]
    OBVIOUS
  <2> HIDE DEF c, S
  <2>7. L \subseteq {"plain"} \cup b.limitations
    BY <2>3
  <2>8. ASSUME NEW k \in DOMAIN b.sections
        PROVE  \E x, r :
                 /\ S[k] = [type |-> b.sections[k].type, text |-> x, refs |-> r]
                 /\ x # {} /\ x \subseteq {"plain"} \cup b.sections[k].text
                 /\ b.sections[k].type \notin Owned => b.sections[k].refs \subseteq r
    BY <2>5
  <2>9. Keeps(b, c) /\ c.sections = S
    BY <1>1, <2>4, <2>6, <2>7, <2>8, PassOf
  <2>10. Plain(c)
    <3>1. c.limitations = {"plain"}
      BY <2>3, <2>4
    <3>2. ASSUME NEW k \in DOMAIN c.sections PROVE c.sections[k].text = {"plain"}
      <4>1. PICK r : S[k] = [type |-> b.sections[k].type, text |-> {"plain"}, refs |-> r]
        BY <2>5, <2>6, <2>9
      <4> QED BY <2>9, <4>1
    <3> QED BY <3>1, <3>2 DEF Plain
  <2> QED BY <2>2, <2>9, <2>10
<1> QED BY <1>4, <1>5

\* Who must be quoted can be.
LEMMA AnswerableTells ==
  ASSUME Asked, Answerable
  PROVE  /\ writing.intent = "company_comparison" =>
              \A r \in {"business", "accounting", "quality"} :
                \E i \in Material : ClaimOf(i).role = r
         /\ writing.intent = "economic_transmission" => \E i \in Material : ClaimOf(i).role = "economics"
         /\ writing.intent = "market_behavior" => \E i \in Material : ClaimOf(i).role = "market"
         /\ writing.intent = "thesis_review" => Counters # {}
<1> DEFINE roles == {ClaimOf(i).role : i \in Material}
<1>1. CASE writing.intent = "company_comparison"
  <2>1. {"business", "accounting", "quality"} \subseteq roles
    BY <1>1, Zenon DEF Answerable
  <2> QED BY <1>1, <2>1
<1>2. CASE writing.intent = "economic_transmission"
  <2>1. "economics" \in roles
    BY <1>2, Zenon DEF Answerable
  <2> QED BY <1>2, <2>1
<1>3. CASE writing.intent = "market_behavior"
  <2>1. "market" \in roles
    BY <1>3, Zenon DEF Answerable
  <2> QED BY <1>3, <2>1
<1>4. CASE writing.intent = "thesis_review"
  <2>1. Counters # {}
    BY <1>4, Zenon DEF Answerable
  <2> QED BY <1>4, <2>1
<1> QED BY <1>1, <1>2, <1>3, <1>4

LEMMA PlainIsAccepted ==
  ASSUME Asked, Answerable, NEW b, Mended(b), Plain(b), RequestedSet(b)
  PROVE  Accepted(b)
<1>1. Silent(b)
  BY DEF Silent, Plain, ToSet
<1>2. Fit(b)
  <2> DEFINE sentences == UNION {s.text : s \in ToSet(b.sections)}
  <2>1. sentences \subseteq {"plain"}
    BY DEF Plain, ToSet
  <2> HIDE DEF sentences
  <2>2. sentences \cup b.limitations \subseteq {"plain"}
    BY <2>1 DEF Plain
  <2>3. /\ (sentences \cup b.limitations) \cap {"advice", "identifier", "operation", "malformed"} = {}
        /\ "direction" \notin sentences
        /\ "denial" \notin sentences \cup b.limitations
    BY <2>2
  <2> QED BY <2>3 DEF Fit, sentences
<1>3. Decisive(b)
  <2> SUFFICES ASSUME NEW k \in DOMAIN b.sections
               PROVE  LET s == b.sections[k] IN
                      /\ s.type \in Opposing => /\ s.refs \cap Counters # {}
                                                /\ s.text # {} /\ "vague" \notin s.text
                      /\ s.type = "comparison" => \A r \in {"business", "accounting", "quality"} : Cites(s, r)
                      /\ s.type \in {"transmission_mechanisms", "scenarios"} => Cites(s, "economics")
                      /\ s.type = "market_measurement" => Cites(s, "market")
                      /\ s.type \in {"transmission_mechanisms", "market_measurement"} => "cause" \notin s.text
    BY DEF Decisive, ToSet
  <2> DEFINE s == b.sections[k]
  <2>1. PICK n \in DOMAIN SectionsAsked : SectionsAsked[n] = s.type
    BY DEF RequestedSet, ToSet, Types
  <2>2. s.text = {"plain"}
    BY DEF Plain
  <2>3. s.type \in GovernedTypes => RequiredAuthority(s.type) \subseteq s.refs
    BY DEF Mended, Backed
  <2>4. s.type \in Opposing => s.refs \cap Counters # {}
    BY <2>1, OutputsTell, AnswerableTells DEF Mended, Countered
  <2>5. ASSUME NEW role, By(role) \subseteq s.refs, \E i \in Material : ClaimOf(i).role = role
        PROVE  Cites(s, role)
    BY <2>5, FirstBy DEF Cites
  <2> HIDE DEF s
  <2>6. s.type = "comparison" => \A r \in {"business", "accounting", "quality"} : Cites(s, r)
    BY <2>1, <2>3, <2>5, OutputsTell, AnswerableTells, AuthorityTells DEF GovernedTypes
  <2>7. s.type \in {"transmission_mechanisms", "scenarios"} => Cites(s, "economics")
    BY <2>1, <2>3, <2>5, OutputsTell, AnswerableTells, AuthorityTells DEF GovernedTypes
  <2>8. s.type = "market_measurement" => Cites(s, "market")
    BY <2>1, <2>3, <2>5, OutputsTell, AnswerableTells, AuthorityTells DEF GovernedTypes
  <2> QED BY <2>2, <2>4, <2>6, <2>7, <2>8 DEF s
<1> QED BY <1>1, <1>2, <1>3 DEF Accepted

\* What Go repairs it does not have to refuse: out of any packets, any draft that falls
\* short only of what Go writes, cites and rewrites itself is accepted once repaired.
\* No repair undoes what an earlier one did, and none writes what the checks refuse.
THEOREM AnyRepairSuffices ==
  ASSUME Asked, NEW b, Draft(b), OnlyShortOf(b, {"number", "identifier"})
  PROVE  Accepted(Prepared(b))
<1> DEFINE r == Repaired(b)
           q == CompletedDraft(r)
<1>1. Tidy(b)
  <2>1. ASSUME NEW k \in DOMAIN b.sections
        PROVE  /\ b.sections[k].text # {}
               /\ b.sections[k].text \subseteq
                    {"plain"} \cup (IF b.sections[k].type \in GovernedTypes \cup {"evidence"}
                                    THEN {"number", "identifier"} ELSE {})
    BY DEF OnlyShortOf, ToSet
  <2>2. b.limitations \subseteq {"plain"} \cup Kinds
    BY DEF OnlyShortOf, Kinds
  <2> QED BY <2>1, <2>2 DEF Tidy, Kinds
<1>2. Answerable /\ Balanced # {} /\ Covers(b)
  BY DEF OnlyShortOf, Covers
<1>3. Mended(r) /\ Types(r) = Types(b)
  BY <1>1, RepairedIsMended
<1>4. Covers(r)
  BY <1>2, <1>3 DEF Covers
<1> HIDE DEF r
<1>5. Mended(q) /\ RequestedSet(q)
  BY <1>2, <1>3, <1>4, CompletedIsRequested
<1> HIDE DEF q
<1>6. Authorized(q)
  <2> SUFFICES ASSUME NEW k \in DOMAIN q.sections, q.sections[k].type \in GovernedTypes
               PROVE  RequiredAuthority(q.sections[k].type) # {}
    BY DEF Authorized
  <2>1. q.sections[k].type \in ToSet(SectionsAsked)
    BY <1>5 DEF RequestedSet, ToSet, Types
  <2>2. q.sections[k].type \notin Owned
    BY DEF Owned, GovernedTypes
  <2>3. q.sections[k].type \in ToSet(Types(b))
    BY <1>2, <2>1, <2>2 DEF Covers
  <2>4. PICK j \in DOMAIN b.sections : b.sections[j].type = q.sections[k].type
    BY <2>3 DEF ToSet, Types
  <2>5. b.sections[j] \in ToSet(b.sections)
    BY DEF ToSet
  <2> QED BY <2>4, <2>5 DEF OnlyShortOf
<1>7. Keeps(q, Quiet(q)) /\ Plain(Quiet(q))
  BY <1>5, <1>6, QuietIsPlain
<1>8. Mended(Quiet(q)) /\ RequestedSet(Quiet(q))
  BY <1>5, <1>7 DEF Keeps, Mended, RequestedSet
<1>9. Prepared(b) = Quiet(q)
  BY DEF Prepared, q, r
<1> QED BY <1>2, <1>7, <1>8, <1>9, PlainIsAccepted

LEMMA DraftsAreDrafts ==
  ASSUME Asked
  PROVE  \A d \in ModelDrafts : Draft(d)
<1> DEFINE cited == {{}, {Min(Material)}, {Max(Material)}}
           Paper == [type : ToSet(SectionsAsked) \cup {"concept"},
                     text : SUBSET ({"plain"} \cup DraftFlaws), refs : cited]
           whole(refs) == [k \in DOMAIN SectionsAsked |-> Section(SectionsAsked[k], {"plain"}, refs)]
           shaped(refs) == {RemoveAt(whole(refs), k) : k \in DOMAIN SectionsAsked} \cup {whole(refs)}
                           \cup {Append(whole(refs), Section(t, {"plain"}, refs)) : t \in {SectionsAsked[1], "concept"}}
           flawed(refs) == {[whole(refs) EXCEPT ![k] = Section(SectionsAsked[k], t, refs)] :
                              k \in DOMAIN SectionsAsked, t \in {{}} \cup {{f} : f \in DraftFlaws}}
           draft(s, l) == [sections |-> s, limitations |-> l]
<1>1. PICK n \in Nat : DOMAIN SectionsAsked = 1 .. n
  BY OutputsTell DEF Listing
<1>2. 1 \in DOMAIN SectionsAsked
  BY OutputsTell
<1>3. SectionsAsked[1] \in ToSet(SectionsAsked)
  BY <1>2 DEF ToSet
<1>4. ASSUME NEW refs \in cited
      PROVE  whole(refs) \in [1 .. n -> Paper] /\ whole(refs) \in Seq(Paper)
  <2>1. \A k \in DOMAIN SectionsAsked : Section(SectionsAsked[k], {"plain"}, refs) \in Paper
    BY DEF Section, ToSet
  <2>2. whole(refs) \in [1 .. n -> Paper]
    <3> HIDE DEF Paper
    <3> QED BY <1>1, <2>1
  <2> HIDE DEF Paper, whole
  <2> QED BY <2>2
<1>5. ASSUME NEW refs \in cited, NEW s \in shaped(refs) PROVE s \in Seq(Paper)
  <2>1. whole(refs) \in Seq(Paper)
    BY <1>4
  <2>2. \A t \in {SectionsAsked[1], "concept"} : Section(t, {"plain"}, refs) \in Paper
    BY <1>3 DEF Section
  <2>3. Len(whole(refs)) = n
    BY <1>1, <2>1
  <2> HIDE DEF Paper, whole, cited
  <2>4. \A k \in DOMAIN SectionsAsked : RemoveAt(whole(refs), k) \in Seq(Paper)
    BY <1>1, <2>1, <2>3 DEF RemoveAt
  <2>5. \A t \in {SectionsAsked[1], "concept"} :
          Append(whole(refs), Section(t, {"plain"}, refs)) \in Seq(Paper)
    BY <2>1, <2>2
  <2> QED BY <2>1, <2>4, <2>5
<1>6. ASSUME NEW refs \in cited, NEW s \in flawed(refs) PROVE s \in Seq(Paper)
  <2> DEFINE w == whole(refs)
             spoilt(k, t) == [w EXCEPT ![k] = Section(SectionsAsked[k], t, refs)]
  <2>1. PICK k \in DOMAIN SectionsAsked, t \in {{}} \cup {{f} : f \in DraftFlaws} : s = spoilt(k, t)
    <3>1. flawed(refs) = {spoilt(k, t) : k \in DOMAIN SectionsAsked, t \in {{}} \cup {{f} : f \in DraftFlaws}}
      OBVIOUS
    <3> HIDE DEF spoilt, flawed
    <3> QED BY <3>1
  <2>2. w \in [1 .. n -> Paper]
    <3> HIDE DEF whole, Paper, cited
    <3> QED BY <1>4
  <2>3. t \in SUBSET ({"plain"} \cup DraftFlaws)
    OBVIOUS
  <2>4. Section(SectionsAsked[k], t, refs) \in Paper
    BY <2>3 DEF Section, ToSet
  <2>5. s \in [1 .. n -> Paper]
    <3> HIDE DEF Paper, w
    <3> QED BY <1>1, <2>1, <2>2, <2>4
  <2> HIDE DEF Paper
  <2> QED BY <2>5
<1>7. ASSUME NEW s \in Seq(Paper), NEW l PROVE Draft(draft(s, l))
  <2>1. Listing(s) /\ s = [k \in DOMAIN s |-> s[k]]
    <3> HIDE DEF Paper
    <3> QED BY DEF Listing
  <2>2. \A k \in DOMAIN s : s[k] \in Paper
    <3> HIDE DEF Paper
    <3> QED OBVIOUS
  <2>3. \A k \in DOMAIN s : s[k] = [type |-> s[k].type, text |-> s[k].text, refs |-> s[k].refs]
    BY <2>2
  <2> QED BY <2>1, <2>3 DEF Draft
<1>8. ModelDrafts =
        {draft(s, l) : s \in UNION {shaped(refs) : refs \in cited},
                       l \in {{}, {"plain"}, {"number"}, {"denial"}}}
        \cup {draft(s, l) : s \in flawed({}) \cup flawed({Max(Material)}),
                            l \in {{"plain"}, {"number"}}}
  BY DEF ModelDrafts
<1>9. {} \in cited /\ {Max(Material)} \in cited
  OBVIOUS
<1> HIDE DEF Paper, shaped, flawed, cited, draft
<1> SUFFICES ASSUME NEW d \in ModelDrafts PROVE Draft(d)
  OBVIOUS
<1>10. \E s, l : d = draft(s, l) /\ \E refs \in cited : s \in shaped(refs) \/ s \in flawed(refs)
  BY <1>8, <1>9
<1> QED BY <1>5, <1>6, <1>7, <1>10

\* What a draft lacks is read off the packets and the request alone.
LEMMA ShortfallStays ==
  ASSUME writing'.packets = writing.packets, writing'.intent = writing.intent, NEW b, NEW kinds
  PROVE  OnlyShortOf(b, kinds)' = OnlyShortOf(b, kinds)
<1>1. Material' = Material /\ \A i : ClaimOf(i)' = ClaimOf(i)
  BY DEF Material, ClaimOf
<1>2. \A i : IsSupported(i)' = IsSupported(i)
  BY <1>1 DEF IsSupported
<1>3. Counters' = Counters
  BY <1>1 DEF Counters
<1>4. ASSUME NEW role PROVE By(role)' = By(role)
  <2>1. By(role) = {i \in Material : /\ ClaimOf(i).role = role
                                     /\ \A j \in Material : ClaimOf(j).role = role => i <= j}
    BY DEF By, First
  <2>2. By(role)' = {i \in Material' : /\ ClaimOf(i)'.role = role
                                       /\ \A j \in Material' : ClaimOf(j)'.role = role => i <= j}
    BY DEF By, First
  <2> QED BY <1>1, <2>1, <2>2
<1>5. ASSUME NEW role PROVE SupportedBy(role)' = SupportedBy(role)
  <2>1. SupportedBy(role) =
          {i \in Material : /\ ClaimOf(i).role = role /\ IsSupported(i)
                            /\ \A j \in Material : ClaimOf(j).role = role /\ IsSupported(j) => i <= j}
    BY DEF SupportedBy, First
  <2>2. SupportedBy(role)' =
          {i \in Material' : /\ ClaimOf(i)'.role = role /\ IsSupported(i)'
                             /\ \A j \in Material' : ClaimOf(j)'.role = role /\ IsSupported(j)' => i <= j}
    BY DEF SupportedBy, First
  <2> QED BY <1>1, <1>2, <2>1, <2>2
<1>6. ASSUME NEW topic PROVE About(topic)' = About(topic)
  <2>1. About(topic) =
          {i \in Material : /\ ClaimOf(i).about = topic /\ ClaimOf(i).support = "evidence"
                            /\ \A j \in Material : ClaimOf(j).about = topic
                                 /\ ClaimOf(j).support = "evidence" => i <= j}
    BY DEF About, First
  <2>2. About(topic)' =
          {i \in Material' : /\ ClaimOf(i)'.about = topic /\ ClaimOf(i)'.support = "evidence"
                             /\ \A j \in Material' : ClaimOf(j)'.about = topic
                                  /\ ClaimOf(j)'.support = "evidence" => i <= j}
    BY DEF About, First
  <2> QED BY <1>1, <2>1, <2>2
<1>7. Balanced' = Balanced
  <2> DEFINE supported == {i \in Material : IsSupported(i)}
             leaders == {i \in supported :
                           \A j \in supported : ClaimOf(j).role = ClaimOf(i).role => i <= j}
             before(j, i) == IF (j \in leaders) = (i \in leaders) THEN j < i ELSE j \in leaders
             ahead(i) == {j \in supported : before(j, i)}
             early(i) == Cardinality(ahead(i)) < EvidenceLimit
  <2>1. supported' = supported
    BY <1>1, <1>2
  <2>2. leaders' = leaders
    <3> HIDE DEF supported
    <3> QED BY <1>1, <2>1
  <2>3. \A i : ahead(i)' = ahead(i)
    <3> HIDE DEF supported, leaders
    <3> QED BY <2>1, <2>2
  <2>4. \A i : early(i)' = early(i)
    <3> HIDE DEF ahead
    <3> QED BY <2>3
  <2>5. Balanced = {i \in supported : early(i)}
    BY DEF Balanced
  <2>6. Balanced' = {i \in supported' : early(i)'}
    BY DEF Balanced
  <2> HIDE DEF supported, early
  <2> QED BY <2>1, <2>4, <2>5, <2>6
<1>8. \A type : RequiredAuthority(type)' = RequiredAuthority(type)
  BY <1>4, <1>5, <1>6, Zenon DEF RequiredAuthority
<1>9. SectionsAsked' = SectionsAsked
  BY DEF SectionsAsked
<1>10. Answerable' = Answerable
  <2> DEFINE roles == {ClaimOf(i).role : i \in Material}
  <2>1. roles' = roles
    BY <1>1
  <2> HIDE DEF roles
  <2> QED BY <1>3, <2>1, Zenon DEF Answerable, roles
<1> QED BY <1>7, <1>8, <1>9, <1>10 DEF OnlyShortOf, Types

\* Once asked, a synthesis is of some packets for some kind of answer, and stays so.
WritingInv ==
  /\ writing.stage # "idle" => Asked
  /\ RepairsSuffice

LEMMA PacketsAreListed == \A p \in PacketsOf : Listing(p)
<1>1. DOMAIN Packets = 1 .. 6
  BY DEF Packets
<1>2. ASSUME NEW i, NEW x
      PROVE  /\ DOMAIN [Packets EXCEPT ![i].approved = x] = 1 .. 6
             /\ DOMAIN [Packets EXCEPT ![i].support = x] = 1 .. 6
  BY <1>1
<1> DEFINE denied(i) == [Packets EXCEPT ![i].approved = FALSE]
           bare(i) == [Packets EXCEPT ![i].support = "none"]
           second == [Packets EXCEPT ![1].support = "number"]
<1>3. PacketsOf = {Packets, second} \cup {denied(i) : i \in DOMAIN Packets} \cup {bare(i) : i \in {1, 4, 6}}
  BY DEF PacketsOf
<1>4. DOMAIN second = 1 .. 6 /\ \A i : DOMAIN denied(i) = 1 .. 6 /\ DOMAIN bare(i) = 1 .. 6
  BY <1>2
<1> HIDE DEF second, denied, bare
<1>5. \A p \in PacketsOf : DOMAIN p = 1 .. 6
  BY <1>1, <1>3, <1>4
<1> QED BY <1>5 DEF Listing

LEMMA WritingGoesOn ==
  ASSUME WritingInv, [SynthesizerNext]_writing
  PROVE  WritingInv'
<1> USE DEF WritingInv
<1>1. CASE BeginSynthesis
  <2>1. PICK intent \in Intents, packets \in PacketsOf, receipts \in BOOLEAN :
          writing' = [stage |-> "asking", intent |-> intent, packets |-> packets,
                      receipts |-> receipts, asked |-> 1, body |-> << >>, final |-> << >>]
    BY <1>1 DEF BeginSynthesis
  <2>2. writing'.stage = "asking" /\ writing'.intent = intent /\ writing'.packets = packets
    BY <2>1
  <2>3. Asked'
    BY <2>2, PacketsAreListed DEF Asked, Listing
  <2> QED BY <2>2, <2>3 DEF RepairsSuffice
<1>2. ASSUME NEW reached, NEW asked, NEW body, NEW final, writing.stage # "idle",
             writing' = Turn(reached, asked, body, final)
      PROVE  /\ writing'.stage = reached /\ writing'.body = body /\ writing'.final = final
             /\ writing'.packets = writing.packets /\ writing'.intent = writing.intent
             /\ Asked'
  BY <1>2 DEF Turn, Asked, Listing
<1>3. ASSUME writing.stage = "asking", SynthesisFails PROVE WritingInv'
  BY <1>2, <1>3 DEF SynthesisFails, RepairsSuffice
<1>4. CASE NoAnswer
  BY <1>3, <1>4 DEF NoAnswer
<1>5. CASE Truncated
  <2>1. CASE writing.asked = 1
    BY <1>2, <1>5, <2>1 DEF Truncated, RepairsSuffice
  <2>2. CASE writing.asked # 1
    BY <1>3, <1>5, <2>2 DEF Truncated
  <2> QED BY <2>1, <2>2
<1>6. CASE DraftArrives
  <2>1. PICK draft \in ModelDrafts : \E outcome :
          /\ writing' = Turn(outcome, writing.asked, draft, Prepared(draft))
          /\ outcome = "refused" => ~Accepted(Prepared(draft))
    BY <1>6 DEF DraftArrives
  <2>2. writing.stage = "asking" /\ Asked
    BY <1>6 DEF DraftArrives
  <2> PICK outcome : /\ writing' = Turn(outcome, writing.asked, draft, Prepared(draft))
                     /\ outcome = "refused" => ~Accepted(Prepared(draft))
    BY <2>1
  <2>3. /\ writing'.stage = outcome /\ writing'.body = draft
        /\ writing'.packets = writing.packets /\ writing'.intent = writing.intent
        /\ Asked'
    BY <1>2, <2>1, <2>2
  <2>4. RepairsSuffice'
    <3> SUFFICES ASSUME outcome = "refused", OnlyShortOf(draft, {"number", "identifier"})'
                 PROVE  FALSE
      BY <2>3 DEF RepairsSuffice
    <3>1. OnlyShortOf(draft, {"number", "identifier"})
      BY <2>3, ShortfallStays
    <3> QED BY <2>1, <2>2, <3>1, DraftsAreDrafts, AnyRepairSuffices
  <2> QED BY <2>3, <2>4
<1>7. CASE AskOnceMore
  BY <1>2, <1>7 DEF AskOnceMore, RepairsSuffice
<1>8. CASE UNCHANGED writing
  <2>1. \A b : OnlyShortOf(b, {"number", "identifier"})' = OnlyShortOf(b, {"number", "identifier"})
    BY <1>8, ShortfallStays
  <2> QED BY <1>8, <2>1 DEF Asked, Listing, RepairsSuffice
<1> QED BY <1>1, <1>4, <1>5, <1>6, <1>7, <1>8 DEF SynthesizerNext

\* No draft that Go could have put right is sent back or refused, for any limit of the
\* evidence cited.
THEOREM RepairsAlwaysSuffice == SynthesizerSpec => []RepairsSuffice
<1>1. SynthesizerInit => WritingInv
  BY DEF SynthesizerInit, WritingInv, RepairsSuffice
<1>2. WritingInv /\ [SynthesizerNext]_writing => WritingInv'
  BY WritingGoesOn
<1>3. WritingInv => RepairsSuffice
  BY DEF WritingInv
<1> QED BY <1>1, <1>2, <1>3, PTL DEF SynthesizerSpec

--------------------------------------------------------------------------------
(* Whatever the draft, what Go made of it is a draft again, and shows every *)
(* approved number.                                                        *)

SectionForm(s) == s = [type |-> s.type, text |-> s.text, refs |-> s.refs]

LEMMA FormsOf ==
  /\ \A t, x, r : SectionForm(Section(t, x, r))
  /\ \A s, claims, sentences : SectionForm(Cite(s, claims, sentences))
  /\ \A s, x : SectionForm(s) => SectionForm([s EXCEPT !.text = x]) /\ SectionForm([s EXCEPT !.refs = x])
<1>1. \A t, x, r : SectionForm(Section(t, x, r))
  BY DEF Section, SectionForm
<1>2. \A s, claims, sentences : SectionForm(Cite(s, claims, sentences))
  BY <1>1 DEF Cite
<1>3. ASSUME NEW s, SectionForm(s), NEW x
      PROVE  SectionForm([s EXCEPT !.text = x]) /\ SectionForm([s EXCEPT !.refs = x])
  BY <1>3 DEF SectionForm
<1> QED BY <1>1, <1>2, <1>3

LEMMA Redrafted ==
  ASSUME NEW b, Draft(b), NEW S, NEW L, NEW n \in Nat,
         S = [k \in 1 .. n |-> S[k]], \A k \in 1 .. n : SectionForm(S[k])
  PROVE  Draft([sections |-> S, limitations |-> L])
<1> DEFINE c == [sections |-> S, limitations |-> L]
<1>1. c.sections = S /\ c.limitations = L /\ DOMAIN S = 1 .. n
  OBVIOUS
<1>2. Listing(S) /\ S = [k \in DOMAIN S |-> S[k]]
  BY <1>1 DEF Listing
<1>3. c = [sections |-> c.sections, limitations |-> c.limitations]
  BY <1>1
<1> HIDE DEF c
<1> QED BY <1>1, <1>2, <1>3 DEF Draft, SectionForm, c

LEMMA RepairsRedraft ==
  ASSUME NEW b, Draft(b)
  PROVE  /\ Draft(PlaceCounterevidence(b))
         /\ Draft(PlaceAuthority(b))
         /\ Draft(PlaceNumbers(b))
         /\ Draft(NormalizeOwned(b))
         /\ Draft(RepairAvailability(b))
         /\ Draft(NeutralizeReferences(b))
         /\ Draft(ShowBoundary(b))
         /\ Draft(NeutralizeCauses(b))
<1>1. PICK n \in Nat : DOMAIN b.sections = 1 .. n
  BY DEF Draft, Listing
<1>2. \A k \in DOMAIN b.sections : SectionForm(b.sections[k])
  BY DEF Draft, SectionForm
<1>3. Draft(b)
  OBVIOUS
<1>4. ASSUME NEW S, NEW L, S = [k \in 1 .. n |-> S[k]], \A k \in 1 .. n : SectionForm(S[k])
      PROVE  Draft([sections |-> S, limitations |-> L])
  BY <1>4, Redrafted
<1>6. Draft(PlaceCounterevidence(b))
  <2> DEFINE own(s) == IF s.type \in Opposing /\ s.refs \cap Counters = {}
                       THEN Cite(s, FirstCounter, {}) ELSE s
             S == [k \in DOMAIN b.sections |-> own(b.sections[k])]
  <2>1. PlaceCounterevidence(b) = [b EXCEPT !.sections = S]
    BY DEF PlaceCounterevidence, EachSection
  <2>2. S = [k \in 1 .. n |-> S[k]] /\ \A k \in 1 .. n : SectionForm(S[k])
    BY <1>1, <1>2, FormsOf
  <2> HIDE DEF S
  <2>3. PlaceCounterevidence(b) = [sections |-> S, limitations |-> b.limitations]
    BY <1>3, <2>1 DEF Draft
  <2> QED BY <1>4, <2>2, <2>3
<1>7. Draft(PlaceAuthority(b))
  <2> DEFINE own(s) == IF s.type \in GovernedTypes THEN Cite(s, RequiredAuthority(s.type), {"plain"}) ELSE s
             S == [k \in DOMAIN b.sections |-> own(b.sections[k])]
  <2>1. PlaceAuthority(b) = [b EXCEPT !.sections = S]
    BY DEF PlaceAuthority, EachSection
  <2>2. S = [k \in 1 .. n |-> S[k]] /\ \A k \in 1 .. n : SectionForm(S[k])
    BY <1>1, <1>2, FormsOf
  <2> HIDE DEF S
  <2>3. PlaceAuthority(b) = [sections |-> S, limitations |-> b.limitations]
    BY <1>3, <2>1 DEF Draft
  <2> QED BY <1>4, <2>2, <2>3
<1>8. Draft(PlaceNumbers(b))
  <2> DEFINE S == [k \in DOMAIN b.sections |-> Cite(b.sections[k], Placed(b, k), {})]
  <2>1. PlaceNumbers(b) = [sections |-> S, limitations |-> b.limitations]
    BY NumbersCited
  <2>2. S = [k \in 1 .. n |-> S[k]] /\ \A k \in 1 .. n : SectionForm(S[k])
    BY <1>1, FormsOf
  <2> HIDE DEF S
  <2> QED BY <1>4, <2>1, <2>2
<1>9. Draft(NormalizeOwned(b))
  <2> DEFINE own(s) == CASE s.type = "evidence" -> Section(s.type, {"plain"}, Balanced)
                         [] s.type \in {"assumptions", "limitations"} -> [s EXCEPT !.refs = {}]
                         [] OTHER -> s
             S == [k \in DOMAIN b.sections |-> own(b.sections[k])]
  <2>1. NormalizeOwned(b) = [b EXCEPT !.sections = S]
    BY DEF NormalizeOwned, EachSection
  <2>2. ASSUME NEW s, SectionForm(s) PROVE SectionForm(own(s))
    <3>1. CASE s.type = "evidence"
      <4>1. own(s) = Section(s.type, {"plain"}, Balanced)
        BY <3>1, Zenon
      <4> HIDE DEF own
      <4> QED BY <4>1, FormsOf
    <3>2. CASE s.type \in {"assumptions", "limitations"}
      <4>1. s.type # "evidence"
        BY <3>2
      <4>2. own(s) = [s EXCEPT !.refs = {}]
        BY <3>2, <4>1, Zenon
      <4> HIDE DEF own
      <4>3. [s EXCEPT !.refs = {}] = [type |-> s.type, text |-> s.text, refs |-> {}]
        BY <2>2 DEF SectionForm
      <4> QED BY <4>2, <4>3 DEF SectionForm
    <3>3. CASE s.type \notin {"evidence", "assumptions", "limitations"}
      <4>1. own(s) = s
        BY <3>3, Zenon
      <4> HIDE DEF own
      <4> QED BY <2>2, <4>1
    <3> QED BY <3>1, <3>2, <3>3
  <2> HIDE DEF own
  <2>3. S = [k \in 1 .. n |-> S[k]] /\ \A k \in 1 .. n : SectionForm(S[k])
    BY <1>1, <1>2, <2>2
  <2> HIDE DEF S
  <2>4. NormalizeOwned(b) = [sections |-> S, limitations |-> b.limitations]
    BY <1>3, <2>1 DEF Draft
  <2> QED BY <1>4, <2>3, <2>4
<1>10. Draft(RepairAvailability(b))
  <2>1. CASE ~writing.receipts
    BY <2>1 DEF RepairAvailability
  <2>2. CASE writing.receipts
    <3> DEFINE own(s) == IF "denial" \in s.text
                         THEN [s EXCEPT !.text = (@ \ {"denial"}) \cup {"operation"}] ELSE s
               S == [k \in DOMAIN b.sections |-> own(b.sections[k])]
    <3>1. RepairAvailability(b) =
            [[b EXCEPT !.sections = S]
               EXCEPT !.limitations = {IF l = "denial" THEN "plain" ELSE l : l \in @}]
      BY <2>2 DEF RepairAvailability, EachSection
    <3>2. S = [k \in 1 .. n |-> S[k]] /\ \A k \in 1 .. n : SectionForm(S[k])
      BY <1>1, <1>2, FormsOf
    <3> HIDE DEF S
    <3>3. [b EXCEPT !.sections = S] = [sections |-> S, limitations |-> b.limitations]
      BY <1>3 DEF Draft
    <3>4. \E L : RepairAvailability(b) = [sections |-> S, limitations |-> L]
      BY <3>1, <3>3
    <3> QED BY <1>4, <3>2, <3>4
  <2> QED BY <2>1, <2>2
<1>11. Draft(NeutralizeReferences(b))
  <2> DEFINE S == [k \in DOMAIN b.sections |-> [b.sections[k] EXCEPT !.text = Neutralized(@)]]
  <2>1. NeutralizeReferences(b) = [[b EXCEPT !.sections = S] EXCEPT !.limitations = Neutralized(@)]
    BY DEF NeutralizeReferences, EachSection
  <2>2. S = [k \in 1 .. n |-> S[k]] /\ \A k \in 1 .. n : SectionForm(S[k])
    BY <1>1, <1>2, FormsOf
  <2> HIDE DEF S
  <2>3. [b EXCEPT !.sections = S] = [sections |-> S, limitations |-> b.limitations]
    BY <1>3 DEF Draft
  <2>4. \E L : NeutralizeReferences(b) = [sections |-> S, limitations |-> L]
    BY <2>1, <2>3
  <2> QED BY <1>4, <2>2, <2>4
<1>12. Draft(ShowBoundary(b))
  <2>1. CASE writing.intent = "company_comparison"
    <3>1. ShowBoundary(b) = [b EXCEPT !.limitations = @ \cup {"plain"}]
      BY <2>1 DEF ShowBoundary
    <3>2. ShowBoundary(b) = [sections |-> b.sections, limitations |-> b.limitations \cup {"plain"}]
      BY <3>1 DEF Draft
    <3>3. b.sections = [k \in 1 .. n |-> b.sections[k]]
      BY <1>1 DEF Draft
    <3> QED BY <1>1, <1>2, <1>4, <3>2, <3>3
  <2>2. CASE writing.intent # "company_comparison"
    BY <2>2 DEF ShowBoundary
  <2> QED BY <2>1, <2>2
<1>13. Draft(NeutralizeCauses(b))
  <2> DEFINE own(s) == IF s.type \in {"transmission_mechanisms", "market_measurement"} /\ "cause" \in s.text
                       THEN [s EXCEPT !.text = (@ \ {"cause"}) \cup {"plain"}] ELSE s
             S == [k \in DOMAIN b.sections |-> own(b.sections[k])]
  <2>1. NeutralizeCauses(b) = [b EXCEPT !.sections = S]
    BY DEF NeutralizeCauses, EachSection
  <2>2. S = [k \in 1 .. n |-> S[k]] /\ \A k \in 1 .. n : SectionForm(S[k])
    BY <1>1, <1>2, FormsOf
  <2> HIDE DEF S
  <2>3. NeutralizeCauses(b) = [sections |-> S, limitations |-> b.limitations]
    BY <1>3, <2>1 DEF Draft
  <2> QED BY <1>4, <2>2, <2>3
<1> QED BY <1>6, <1>7, <1>8, <1>9, <1>10, <1>11, <1>12, <1>13

LEMMA PreparedIsADraft ==
  ASSUME Asked, NEW b, Draft(b)
  PROVE  Draft(Prepared(b))
<1>1. Draft(Repaired(b))
  BY RepairsRedraft DEF Repaired
<1>2. ASSUME NEW d, Draft(d) PROVE Draft(CompletedDraft(d))
  <2>1. CASE RequestedSet(d) \/ ~Rebuildable(d)
    BY <1>2, <2>1 DEF CompletedDraft
  <2>2. CASE ~RequestedSet(d) /\ Rebuildable(d)
    <3> DEFINE own(t) == Section(t, {"plain"}, IF t = "evidence" THEN Balanced ELSE {})
               S == [k \in DOMAIN SectionsAsked |->
                       IF Of(d, SectionsAsked[k]) = {} THEN own(SectionsAsked[k])
                       ELSE d.sections[Min(Of(d, SectionsAsked[k]))]]
    <3>1. CompletedDraft(d) = [d EXCEPT !.sections = S]
      BY <2>2 DEF CompletedDraft, Rebuilt
    <3>2. PICK n \in Nat : DOMAIN SectionsAsked = 1 .. n
      BY OutputsTell DEF Listing
    <3>3. ASSUME NEW k \in 1 .. n PROVE SectionForm(S[k])
      <4>1. CASE Of(d, SectionsAsked[k]) = {}
        <5>1. S[k] = own(SectionsAsked[k])
          BY <3>2, <4>1
        <5> HIDE DEF S
        <5> QED BY <5>1, FormsOf
      <4>2. CASE Of(d, SectionsAsked[k]) # {}
        <5>1. Of(d, SectionsAsked[k]) \in SUBSET Nat
          BY <1>2 DEF Draft, Listing, Of
        <5>2. Min(Of(d, SectionsAsked[k])) \in DOMAIN d.sections
          BY <4>2, <5>1, Least DEF Of
        <5>3. S[k] = d.sections[Min(Of(d, SectionsAsked[k]))]
          BY <3>2, <4>2
        <5> HIDE DEF S
        <5> QED BY <1>2, <5>2, <5>3 DEF Draft, SectionForm
      <4> QED BY <4>1, <4>2
    <3>4. S = [k \in 1 .. n |-> S[k]]
      BY <3>2
    <3> HIDE DEF S
    <3>5. CompletedDraft(d) = [sections |-> S, limitations |-> d.limitations]
      BY <1>2, <3>1 DEF Draft
    <3> QED BY <1>2, <3>3, <3>4, <3>5, Redrafted
  <2> QED BY <2>1, <2>2
<1>3. ASSUME NEW d, Draft(d) PROVE Draft(Quiet(d))
  <2>1. CASE Silent(d) \/ ~Silenceable(d)
    BY <1>3, <2>1 DEF Quiet
  <2>2. CASE ~Silent(d) /\ Silenceable(d)
    <3> DEFINE L == OrPlain(d.limitations \ {"number"})
               silence(s) == CASE s.type = "assumptions" -> Section(s.type, {"plain"}, {})
                               [] s.type = "limitations" -> Section(s.type, L, {})
                               [] s.type \notin {"assumptions", "limitations"} /\ "number" \in s.text ->
                                    [s EXCEPT !.text = OrPlain(@ \ {"number"})]
                               [] OTHER -> s
               S == [k \in DOMAIN d.sections |-> silence(d.sections[k])]
    <3>1. Quiet(d) = [[d EXCEPT !.sections = S] EXCEPT !.limitations = L]
      BY <2>2 DEF Quiet, Silenced, EachSection
    <3> HIDE DEF L
    <3>2. ASSUME NEW s, SectionForm(s) PROVE SectionForm(silence(s))
      <4>1. CASE s.type = "assumptions"
        <5>1. silence(s) = Section(s.type, {"plain"}, {})
          BY <4>1, Zenon
        <5> HIDE DEF silence
        <5> QED BY <5>1, FormsOf
      <4>2. CASE s.type = "limitations"
        <5>1. s.type # "assumptions"
          BY <4>2
        <5>2. silence(s) = Section(s.type, L, {})
          BY <4>2, <5>1, Zenon
        <5> HIDE DEF silence
        <5> QED BY <5>2, FormsOf
      <4>3. CASE s.type \notin {"assumptions", "limitations"} /\ "number" \in s.text
        <5> DEFINE x == OrPlain(s.text \ {"number"})
        <5>1. silence(s) = [s EXCEPT !.text = x]
          BY <4>3, Zenon
        <5> HIDE DEF silence, x
        <5>2. [s EXCEPT !.text = x] = [type |-> s.type, text |-> x, refs |-> s.refs]
          BY <3>2 DEF SectionForm
        <5> QED BY <5>1, <5>2 DEF SectionForm
      <4>4. CASE s.type \notin {"assumptions", "limitations"} /\ "number" \notin s.text
        <5>1. silence(s) = s
          BY <4>4, Zenon
        <5> HIDE DEF silence
        <5> QED BY <3>2, <5>1
      <4> QED BY <4>1, <4>2, <4>3, <4>4
    <3> HIDE DEF silence
    <3>3. PICK n \in Nat : DOMAIN d.sections = 1 .. n
      BY <1>3 DEF Draft, Listing
    <3>4. S = [k \in 1 .. n |-> S[k]] /\ \A k \in 1 .. n : SectionForm(S[k])
      <4>1. \A k \in 1 .. n : SectionForm(d.sections[k])
        BY <1>3, <3>3 DEF Draft, SectionForm
      <4> QED BY <3>2, <3>3, <4>1
    <3> HIDE DEF S
    <3>5. [d EXCEPT !.sections = S] = [sections |-> S, limitations |-> d.limitations]
      BY <1>3 DEF Draft
    <3>6. Quiet(d) = [sections |-> S, limitations |-> L]
      BY <3>1, <3>5
    <3> QED BY <1>3, <3>4, <3>6, Redrafted
  <2> QED BY <2>1, <2>2
<1> QED BY <1>1, <1>2, <1>3 DEF Prepared

LEMMA PreferenceTells ==
  ASSUME NEW role
  PROVE  /\ Listing(Preference(role))
         /\ \A n \in DOMAIN Preference(role) : Presents(Preference(role)[n])
<1>1. \/ Preference(role) = <<"valuation_range", "sensitivity", "scenarios", "comparison", "thesis">>
      \/ Preference(role) = <<"comparison", "thesis", "scenarios">>
      \/ Preference(role) = <<"market_measurement", "comparison", "thesis", "scenarios">>
  <2>1. CASE role = "valuation"
    BY <2>1, Zenon DEF Preference
  <2>2. CASE role \in {"quality", "accounting"}
    <3>1. role # "valuation" /\ role # "market"
      BY <2>2
    <3>2. Preference(role) = <<"comparison", "thesis", "scenarios">>
      BY <2>2, <3>1, Zenon DEF Preference
    <3> QED BY <3>2
  <2>3. CASE role = "market"
    BY <2>3, Zenon DEF Preference
  <2>4. CASE role \notin {"valuation", "quality", "accounting", "market"}
    BY <2>4, Zenon DEF Preference
  <2> QED BY <2>1, <2>2, <2>3, <2>4
<1> DEFINE Shows(o) == Listing(o) /\ \A n \in DOMAIN o : Presents(o[n])
<1>2. Shows(<<"valuation_range", "sensitivity", "scenarios", "comparison", "thesis">>)
  <2> DEFINE o == <<"valuation_range", "sensitivity", "scenarios", "comparison", "thesis">>
  <2>1. DOMAIN o = 1 .. 5 /\ o[1] = "valuation_range" /\ o[2] = "sensitivity"
        /\ o[3] = "scenarios" /\ o[4] = "comparison" /\ o[5] = "thesis"
    OBVIOUS
  <2> HIDE DEF o
  <2>2. \A n \in DOMAIN o : n = 1 \/ n = 2 \/ n = 3 \/ n = 4 \/ n = 5
    BY <2>1
  <2>3. Shows(o)
    BY <2>1, <2>2 DEF Listing, Presents, Owned, Opposing
  <2> QED BY <2>3 DEF o
<1>3. Shows(<<"comparison", "thesis", "scenarios">>)
  <2> DEFINE o == <<"comparison", "thesis", "scenarios">>
  <2>1. DOMAIN o = 1 .. 3 /\ o[1] = "comparison" /\ o[2] = "thesis" /\ o[3] = "scenarios"
    OBVIOUS
  <2> HIDE DEF o
  <2>2. \A n \in DOMAIN o : n = 1 \/ n = 2 \/ n = 3
    BY <2>1
  <2>3. Shows(o)
    BY <2>1, <2>2 DEF Listing, Presents, Owned, Opposing
  <2> QED BY <2>3 DEF o
<1>4. Shows(<<"market_measurement", "comparison", "thesis", "scenarios">>)
  <2> DEFINE o == <<"market_measurement", "comparison", "thesis", "scenarios">>
  <2>1. DOMAIN o = 1 .. 4 /\ o[1] = "market_measurement" /\ o[2] = "comparison"
        /\ o[3] = "thesis" /\ o[4] = "scenarios"
    OBVIOUS
  <2> HIDE DEF o
  <2>2. \A n \in DOMAIN o : n = 1 \/ n = 2 \/ n = 3 \/ n = 4
    BY <2>1
  <2>3. Shows(o)
    BY <2>1, <2>2 DEF Listing, Presents, Owned, Opposing
  <2> QED BY <2>3 DEF o
<1> HIDE DEF Shows
<1>5. Shows(Preference(role))
  BY <1>1, <1>2, <1>3, <1>4
<1> QED BY <1>5 DEF Shows

\* An approved number that some section asked for can show is cited by such a section
\* of the answer, out of any packets and whatever the draft cited: the section that
\* cites it already, or the best of those that are there.
THEOREM AnyNumberIsShown ==
  ASSUME Asked, NEW b, Draft(b), RequestedSet(b),
         NEW i \in Material, Numeric(i),
         ToSet(Preference(ClaimOf(i).role)) \cap ToSet(SectionsAsked) # {}
  PROVE  \E s \in ToSet(Final(b)) : s.type \notin Owned \cup Opposing /\ i \in s.refs
<1> DEFINE p == PlaceNumbers(b)
           wanted == Preference(ClaimOf(i).role)
<1>1. /\ DOMAIN p.sections = DOMAIN b.sections
      /\ \A k \in DOMAIN b.sections :
           /\ p.sections[k].type = b.sections[k].type
           /\ p.sections[k].refs = b.sections[k].refs \cup Placed(b, k)
  <2> DEFINE S == [k \in DOMAIN b.sections |-> Cite(b.sections[k], Placed(b, k), {})]
  <2>1. p = [sections |-> S, limitations |-> b.limitations]
    BY NumbersCited
  <2> HIDE DEF p
  <2>2. p.sections = S
    <3> HIDE DEF S
    <3> QED BY <2>1
  <2>3. ASSUME NEW k \in DOMAIN b.sections
        PROVE  S[k].type = b.sections[k].type /\ S[k].refs = b.sections[k].refs \cup Placed(b, k)
    <3>1. S[k] = [type |-> b.sections[k].type, text |-> b.sections[k].text,
                  refs |-> b.sections[k].refs \cup Placed(b, k)]
      BY Citing
    <3> HIDE DEF S
    <3> QED BY <3>1
  <2>4. DOMAIN S = DOMAIN b.sections
    OBVIOUS
  <2> HIDE DEF S
  <2> QED BY <2>2, <2>3, <2>4
<1> HIDE DEF p
<1>2. DOMAIN b.sections \subseteq Nat
  BY DEF Draft, Listing
<1>3. PICK k \in DOMAIN b.sections : Presents(b.sections[k].type) /\ i \in p.sections[k].refs
  <2> DEFINE shown == UNION {s.refs : s \in {s \in ToSet(b.sections) : Presents(s.type)}}
             types == ToSet(Types(b))
             places == {n \in DOMAIN wanted : wanted[n] \in types}
             best == wanted[Min(places)]
             target == Min(Of(b, best))
  <2>1. CASE i \in shown
    <3>1. PICK k \in DOMAIN b.sections : Presents(b.sections[k].type) /\ i \in b.sections[k].refs
      BY <2>1 DEF ToSet
    <3> QED BY <1>1, <3>1
  <2>2. CASE i \notin shown
    <3>1. places \in SUBSET Nat
      BY PreferenceTells DEF Listing
    <3>2. places # {}
      BY DEF RequestedSet, ToSet
    <3>3. Min(places) \in places
      BY <3>1, <3>2, Least
    <3>4. best \in types /\ Presents(best)
      BY <3>3, PreferenceTells
    <3>5. Of(b, best) \in SUBSET Nat /\ Of(b, best) # {}
      BY <1>2, <3>4 DEF Of, ToSet, Types
    <3>6. target \in Of(b, best)
      BY <3>5, Least
    <3>7. i \in Placed(b, target)
      BY <2>2, <3>2 DEF Placed
    <3> HIDE DEF target, best
    <3>8. target \in DOMAIN b.sections /\ b.sections[target].type = best
      BY <3>6 DEF Of
    <3> QED BY <1>1, <3>4, <3>7, <3>8
  <2> QED BY <2>1, <2>2
<1> DEFINE t == b.sections[k].type
<1>4. PICK n \in DOMAIN SectionsAsked : SectionsAsked[n] = t
  BY DEF RequestedSet, ToSet, Types
<1>5. Of(p, t) = {k}
  BY <1>1 DEF Of, RequestedSet, IsInjective, Types
<1>6. Min(Of(p, t)) = k
  <2>1. {k} \in SUBSET Nat /\ {k} # {}
    BY <1>2
  <2> QED BY <1>5, <2>1, Least
<1>7. t # "assumptions" /\ t # "limitations" /\ t \notin Owned \cup Opposing
  BY <1>3 DEF Presents, Owned
<1>8. Final(b)[n] = p.sections[k] /\ n \in DOMAIN Final(b)
  <2> DEFINE section(u) == p.sections[Min(Of(p, u))]
             own(s) == CASE s.type = "assumptions" -> Section(s.type, {"plain"}, {})
                         [] s.type = "limitations" -> Section(s.type, p.limitations, {})
                         [] OTHER -> s
  <2>1. Final(b) = [j \in DOMAIN SectionsAsked |-> own(section(SectionsAsked[j]))]
    BY DEF Final, p
  <2>2. section(t) = p.sections[k]
    BY <1>6
  <2>3. p.sections[k].type = t
    BY <1>1
  <2> HIDE DEF t
  <2>4. own(p.sections[k]) = p.sections[k]
    BY <1>7, <2>3, Zenon
  <2> HIDE DEF own, section
  <2> QED BY <1>4, <2>1, <2>2, <2>4
<1> QED BY <1>1, <1>3, <1>7, <1>8 DEF ToSet

\* What the answer shows is read off the packets, the request and what Go made of the draft.
LEMMA ShowingStays ==
  ASSUME writing'.packets = writing.packets, writing'.intent = writing.intent, NEW b
  PROVE  /\ Material' = Material /\ SectionsAsked' = SectionsAsked
         /\ \A i : Numeric(i)' = Numeric(i) /\ ClaimOf(i)' = ClaimOf(i)
         /\ Final(b)' = Final(b)
<1>1. Material' = Material /\ SectionsAsked' = SectionsAsked /\ \A i : ClaimOf(i)' = ClaimOf(i)
  BY DEF Material, ClaimOf, SectionsAsked
<1>2. \A i : Numeric(i)' = Numeric(i)
  BY <1>1 DEF Numeric
<1>3. PlaceNumbers(b)' = PlaceNumbers(b)
  <2> DEFINE shown == UNION {s.refs : s \in {s \in ToSet(b.sections) : Presents(s.type)}}
             wanted(i) == Preference(ClaimOf(i).role)
             places(i) == {n \in DOMAIN wanted(i) : wanted(i)[n] \in ToSet(Types(b))}
             placed == {i \in Material : Numeric(i) /\ i \notin shown /\ places(i) # {}}
             target(i) == Min(Of(b, wanted(i)[Min(places(i))]))
             placements == {<<i, target(i)>> : i \in placed}
             S == [k \in DOMAIN b.sections |->
                     Cite(b.sections[k], {i \in placed : <<i, k>> \in placements}, {})]
  <2>1. PlaceNumbers(b) = [b EXCEPT !.sections = S] /\ PlaceNumbers(b)' = [b EXCEPT !.sections = S']
    BY DEF PlaceNumbers
  <2>2. \A i : wanted(i)' = wanted(i)
    BY <1>1
  <2>3. \A i : places(i)' = places(i)
    <3> HIDE DEF wanted
    <3> QED BY <2>2
  <2>4. \A i : target(i)' = target(i)
    <3> HIDE DEF wanted, places
    <3> QED BY <2>2, <2>3
  <2>5. placed' = placed
    <3> HIDE DEF places
    <3> QED BY <1>1, <1>2, <2>3
  <2>6. placements' = placements
    <3> HIDE DEF placed, target
    <3> QED BY <2>4, <2>5
  <2>7. S' = S
    <3> HIDE DEF placed, placements
    <3> QED BY <2>5, <2>6
  <2> HIDE DEF S
  <2> QED BY <2>1, <2>7
<1>4. Final(b)' = Final(b)
  <2> DEFINE placed == PlaceNumbers(b)
             own(s) == CASE s.type = "assumptions" -> Section(s.type, {"plain"}, {})
                         [] s.type = "limitations" -> Section(s.type, placed.limitations, {})
                         [] OTHER -> s
             section(t) == placed.sections[Min(Of(placed, t))]
             F == [k \in DOMAIN SectionsAsked |-> own(section(SectionsAsked[k]))]
  <2>1. Final(b) = F /\ Final(b)' = F'
    BY DEF Final
  <2>2. placed' = placed
    BY <1>3
  <2> HIDE DEF placed
  <2>3. \A s : own(s)' = own(s)
    BY <2>2, Zenon
  <2>4. \A t : section(t)' = section(t)
    BY <2>2
  <2> HIDE DEF own, section
  <2>5. F' = F
    BY <1>1, <2>3, <2>4
  <2> QED BY <2>1, <2>5
<1> QED BY <1>1, <1>2, <1>4

ShowingInv == (writing.stage # "idle" => Asked) /\ NumbersAreShown

\* However a draft spread its citations, no approved number that a section asked for can
\* show is missing from what is delivered.
THEOREM NumbersAreAlwaysShown == SynthesizerSpec => []NumbersAreShown
<1> DEFINE Shown(b) ==
             \A i \in Material :
               Numeric(i) /\ ToSet(Preference(ClaimOf(i).role)) \cap ToSet(SectionsAsked) # {} =>
                 \E s \in ToSet(Final(b)) : s.type \notin Owned \cup Opposing /\ i \in s.refs
<1>1. SynthesizerInit => ShowingInv
  BY DEF SynthesizerInit, ShowingInv, NumbersAreShown
<1>2. ASSUME ShowingInv, [SynthesizerNext]_writing PROVE NumbersAreShown'
  <2>1. ASSUME NEW reached, NEW asked, NEW body, NEW final,
               writing' = Turn(reached, asked, body, final), reached # "delivered"
        PROVE  NumbersAreShown'
    BY <2>1 DEF Turn, NumbersAreShown
  <2>2. CASE BeginSynthesis
    BY <2>2 DEF BeginSynthesis, NumbersAreShown
  <2>3. CASE NoAnswer
    BY <2>1, <2>3 DEF NoAnswer, SynthesisFails
  <2>4. CASE Truncated
    BY <2>1, <2>4 DEF Truncated, SynthesisFails
  <2>5. CASE DraftArrives
    <3>1. PICK draft \in ModelDrafts : \E outcome :
            /\ writing' = Turn(outcome, writing.asked, draft, Prepared(draft))
            /\ outcome = "delivered" => Accepted(Prepared(draft))
      BY <2>5 DEF DraftArrives
    <3> PICK outcome : /\ writing' = Turn(outcome, writing.asked, draft, Prepared(draft))
                       /\ outcome = "delivered" => Accepted(Prepared(draft))
      BY <3>1
    <3> DEFINE q == Prepared(draft)
    <3>2. Asked
      BY <1>2, <2>5 DEF DraftArrives, ShowingInv
    <3>3. /\ writing'.stage = outcome /\ writing'.final = q
          /\ writing'.packets = writing.packets /\ writing'.intent = writing.intent
      BY DEF Turn
    <3>4. outcome = "delivered" => Shown(q)
      <4>1. Draft(q)
        BY <3>2, DraftsAreDrafts, PreparedIsADraft
      <4>2. outcome = "delivered" => RequestedSet(q)
        BY DEF Accepted
      <4> HIDE DEF q
      <4> QED BY <3>2, <4>1, <4>2, AnyNumberIsShown
    <3>5. \A b : Shown(b)' <=> Shown(b)
      BY <3>3, ShowingStays
    <3> HIDE DEF Shown, q
    <3>6. writing'.stage = "delivered" => Shown(writing.final)'
      BY <3>3, <3>4, <3>5
    <3> QED BY <3>6 DEF Shown, NumbersAreShown
  <2>6. CASE AskOnceMore
    BY <2>1, <2>6 DEF AskOnceMore
  <2>7. CASE UNCHANGED writing
    <3>1. \A b : Shown(b)' <=> Shown(b)
      BY <2>7, ShowingStays
    <3>2. writing.stage = "delivered" => Shown(writing.final)
      BY <1>2 DEF ShowingInv, NumbersAreShown
    <3> HIDE DEF Shown
    <3>3. writing'.stage = "delivered" => Shown(writing.final)'
      BY <2>7, <3>1, <3>2
    <3> QED BY <3>3 DEF Shown, NumbersAreShown
  <2> QED BY <1>2, <2>2, <2>3, <2>4, <2>5, <2>6, <2>7 DEF SynthesizerNext
<1>3. SynthesizerSpec => []WritingInv
  <2>1. SynthesizerInit => WritingInv
    BY DEF SynthesizerInit, WritingInv, RepairsSuffice
  <2>2. WritingInv /\ [SynthesizerNext]_writing => WritingInv'
    BY WritingGoesOn
  <2> QED BY <2>1, <2>2, PTL DEF SynthesizerSpec
<1>4. WritingInv /\ NumbersAreShown => ShowingInv
  BY DEF WritingInv, ShowingInv
<1>5. ShowingInv => NumbersAreShown
  BY DEF ShowingInv
<1> QED BY <1>1, <1>2, <1>3, <1>4, <1>5, PTL DEF SynthesizerSpec
=============================================================================
