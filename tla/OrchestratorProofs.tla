-------------------------- MODULE OrchestratorProofs --------------------------
(***************************************************************************)
(* What TLAPS proves of Orchestrator for every plan, every set of claims   *)
(* and every bound on retries and repair passes that PlanAssumption        *)
(* admits.  TypeInv is inductive by itself; SafeInv needs TypeInv, and the *)
(* two of them together give the release properties and the refinement of  *)
(* ReleaseGate.                                                            *)
(***************************************************************************)
EXTENDS Orchestrator, TLAPS

-----------------------------------------------------------------------------
(* The inductive invariants.                                               *)

\* A report names a reviewer of the plan only because a review is entered at
\* one of them; the types of history and critiques rest on it.
TypeInv ==
  /\ TypeOK
  /\ phase = "review" => reviewer \in Reviewers

\* No specialist is at work outside the context phase, and a step that has
\* not delivered has no packet.
ContextInv ==
  /\ phase = "request" => \A i \in Contexts : step[i] = "pending"
  /\ phase # "contexts" => Joined
  /\ \A i \in Contexts : step[i] # "ok" => packet[i] = {}

\* The result is written once, and nothing is reviewed before the contexts
\* are over.
PhaseInv ==
  /\ phase # "done" => result = "none"
  /\ phase \in {"request", "contexts"} => reviewer = 0
  /\ phase \in {"review", "synthesis", "saving"} => reviewer # 0
  /\ result = "answered" => reviewer # 0
  /\ reviewer = 0 => critiques = {} /\ approved = [r \in Reviewers |-> {}]

\* The reviews that have returned an approval.
Past ==
  IF phase = "review" THEN {r \in Reviewers : r < reviewer}
  ELSE IF phase \in {"synthesis", "saving"} \/ result = "answered"
       THEN Reviewers ELSE {}

Verdict(r) ==
  \E rep \in critiques :
    /\ rep.reviewer = r
    /\ rep.decision = "approve"
    /\ rep.approved = approved[r]
    /\ \A other \in critiques : other.reviewer = r => other.pass <= rep.pass

\* Each of them left its closing report, which approves something.
VerdictInv == \A r \in Past : Verdict(r) /\ approved[r] # {}

\* The review in progress and those after it have handed nothing over yet,
\* and what the one in progress collected is older than its current pass.
ReviewInv ==
  phase = "review" =>
    /\ \A r \in Reviewers : r >= reviewer => approved[r] = {}
    /\ \A rep \in critiques : rep.reviewer < reviewer
    /\ \A rep \in history : rep.reviewer = reviewer /\ rep.pass < pass
    /\ \A rep \in history :
         rep.decision = "narrow" => rep.rejected \cap working = {}
    /\ working \subseteq packets

\* What was struck has left the packets for good.
StruckInv ==
  phase \in {"review", "synthesis", "saving"} \/ result = "answered" =>
    Struck \cap packets = {}

\* The answer cites only what every reviewer endorsed.
AnswerInv == phase = "saving" \/ result = "answered" => answer \subseteq Offered

ReleaseInv == VerdictInv /\ ReviewInv /\ StruckInv /\ AnswerInv

SafeInv == ContextInv /\ PhaseInv /\ ReleaseInv

-----------------------------------------------------------------------------
(* Events, traces and reports keep their types.                            *)

\* emit only appends.
LEMMA TraceGrows ==
  ASSUME NEW s \in Seq(Events), NEW t \in Seq(Events)
  PROVE  s \o t \in Seq(Events)
OBVIOUS

\* emit appends one event, ...
LEMMA OneEvent ==
  ASSUME NEW e \in Events
  PROVE  <<e>> \in Seq(Events)
OBVIOUS

\* ... two of them, as a verdict and the start of the next step do, ...
LEMMA TwoEvents ==
  ASSUME NEW e \in Events, NEW f \in Events
  PROVE  <<e, f>> \in Seq(Events)
OBVIOUS

\* ... or three, as the acceptance of a plan does.
LEMMA ThreeEvents ==
  ASSUME NEW e \in Events, NEW f \in Events, NEW g \in Events
  PROVE  <<e, f, g>> \in Seq(Events)
OBVIOUS

\* Reports builds reports about the claims it was given.
LEMMA ReportsType ==
  ASSUME NEW r \in Reviewers, NEW p \in 0 .. MaxRepairPasses,
         NEW c \in SUBSET Claims, NEW rep \in Reports(r, p, c)
  PROVE  /\ rep \in AllReports
         /\ rep.reviewer = r /\ rep.pass = p
         /\ rep.decision \in Decisions
         /\ rep.approved \subseteq c
         /\ rep.rejected = c \ rep.approved
         /\ rep.decision = "approve" => rep.rejected = {}
         /\ rep.decision = "reject" => rep.rejected \in {{}, c}
BY DEF Reports, AllReports

\* A failing attempt carries one of the failure codes of a Result.
LEMMA FaultCodes ==
  ASSUME NEW fault \in Faults
  PROVE  fault.code \in ResultCodes \ {"none", "answered"}
BY DEF Faults, ResultCodes

\* A fresh call is a position of the retry loop.
LEMMA FreshCall == Call(0) \in Positions
BY PlanAssumption DEF Call, Positions

\* One more attempt of a call that may be retried is within MaxRetries.
LEMMA RetriedCall ==
  ASSUME NEW c \in Positions, NEW fault \in Faults, MayRetry(c, fault)
  PROVE  Call(c.attempt + 1) \in Positions
BY PlanAssumption DEF Call, Positions, MayRetry

\* Runtime.fail leaves a well-typed result and trace.
LEMMA FailType ==
  ASSUME TypeInv, NEW before \in Seq(Events), NEW kind, NEW index \in Nat,
         NEW code \in ResultCodes, Ev(kind, index, "run", "failed") \in Events,
         Fail(before, kind, index, code),
         UNCHANGED <<ctx, contextVars, localVars, approved>>,
         packets' \subseteq Claims, critiques' \subseteq AllReports
  PROVE  TypeInv'
<1>1. trace' \in Seq(Events)
  BY OneEvent, TraceGrows DEF Fail, TypeInv, TypeOK
<1>2. result' \in ResultCodes
  BY DEF Fail, ResultCodes
<1> QED  BY <1>1, <1>2 DEF TypeInv, TypeOK, Fail, contextVars, localVars

-----------------------------------------------------------------------------
(* Type correctness.                                                       *)

\* A freshly called Run is well typed.
LEMMA InitType == Init => TypeInv
<1>1. NoCall \in Positions
  BY PlanAssumption DEF NoCall, Positions
<1>2. 0 \in 0 .. MaxRepairPasses
  BY PlanAssumption
<1>3. << >> \in Seq(Events)
  OBVIOUS
<1> QED  BY <1>1, <1>2, <1>3 DEF Init, TypeInv, TypeOK, ResultCodes

\* Opening a wave, spawning its first batch, keeps the types.
LEMMA OpenWaveType ==
  ASSUME TypeInv, NEW before \in Seq(Events), NEW w \in Waves,
         OpenWave(before, w)
  PROVE  /\ wave' \in {0} \cup Waves
         /\ step' \in [Contexts -> {"pending", "spawned", "calling", "skipped",
                                    "ok", "failed"}]
         /\ trace' \in Seq(Events)
<1>1. w \in Nat
  BY DEF Waves
<1>2. Ev("wave", w, "wave", "started") \in Events
  BY <1>1 DEF Ev, Events
<1> QED
  BY <1>2, OneEvent, TraceGrows DEF OpenWave, Spawn, TypeInv, TypeOK

\* The event that ends a wave.
LEMMA WaveEndedType ==
  ASSUME TypeInv
  PROVE  WaveEnded \in Seq(Events)
<1>1. wave \in Nat
  BY DEF TypeInv, TypeOK, Waves
<1>2. WaveOutcome(wave) \in {"failed", "degraded", "completed"}
  BY DEF WaveOutcome
<1>3. Ev("wave", wave, "wave", WaveOutcome(wave)) \in Events
  BY <1>1, <1>2 DEF Ev, Events
<1> QED  BY <1>3, OneEvent DEF WaveEnded

\* The start of a review, in a well-typed state.
LEMMA EnterReviewType ==
  ASSUME NEW r \in Reviewers, NEW c \in SUBSET Claims, EnterReview(r, c)
  PROVE  /\ phase' = "review" /\ reviewer' \in Reviewers
         /\ pass' \in 0 .. MaxRepairPasses
         /\ call' \in Positions
         /\ working' \subseteq Claims /\ history' \subseteq AllReports
BY FreshCall, PlanAssumption DEF EnterReview

\* Closing a review with reports and verdicts about the claims of the run.
LEMMA CloseReviewType ==
  ASSUME TypeInv, phase = "review", NEW reports \in SUBSET AllReports,
         NEW kept \in SUBSET Claims, NEW verdict \in SUBSET Claims,
         NEW status, Reviewed(status) \in Events,
         CloseReview(reports, kept, verdict, status)
  PROVE  TypeInv'
<1>1. approved' \in [Reviewers -> SUBSET Claims]
  BY DEF CloseReview, TypeInv, TypeOK
<1>2. packets' \subseteq Claims /\ critiques' \subseteq AllReports
  BY DEF CloseReview, TypeInv, TypeOK
<1>3. CASE MoreReviews
  <2>1. reviewer + 1 \in Reviewers
    BY <1>3, PlanAssumption DEF MoreReviews, Reviewers, TypeInv
  <2>2. Ev("review", reviewer + 1, "review", "started") \in Events
    <3>1. reviewer + 1 \in Nat
      BY <2>1 DEF Reviewers
    <3> QED  BY <3>1 DEF Ev, Events
  <2>3. trace' \in Seq(Events)
    BY <1>3, <2>2, TwoEvents, TraceGrows DEF CloseReview, TypeInv, TypeOK
  <2> QED
    BY <1>1, <1>2, <1>3, <2>1, <2>3, EnterReviewType
    DEF CloseReview, TypeInv, TypeOK, contextVars, endVars
<1>4. CASE ~MoreReviews
  <2>1. Ev("synthesis", 0, "synthesis", "started") \in Events
    BY DEF Ev, Events
  <2>2. trace' \in Seq(Events)
    BY <1>4, <2>1, TwoEvents, TraceGrows DEF CloseReview, TypeInv, TypeOK
  <2> QED
    BY <1>1, <1>2, <1>4, <2>2, FreshCall
    DEF CloseReview, TypeInv, TypeOK, contextVars, endVars
<1> QED  BY <1>3, <1>4

\* The event a review leaves behind is one of the trace's.
LEMMA ReviewedType ==
  ASSUME TypeInv, phase = "review",
         NEW status \in {"approved_subset", "repair_requested", "narrowed",
                         "repair_unresolved"} \cup Decisions
  PROVE  Reviewed(status) \in Events
BY DEF Reviewed, Ev, Events, TypeInv, Reviewers

\* What a reply of the reviewer is, in a well-typed state.
LEMMA ReplyType ==
  ASSUME TypeInv, NEW rep, Replied(rep)
  PROVE  /\ phase = "review"
         /\ rep \in AllReports
         /\ rep.reviewer = reviewer /\ rep.pass = pass
         /\ rep.decision \in Decisions
         /\ rep.approved \subseteq working
         /\ rep.rejected = working \ rep.approved
         /\ rep.decision = "approve" => rep.rejected = {}
         /\ working # {}
BY ReportsType DEF Replied, TypeInv, TypeOK

\* Every step keeps the types: callers, goroutines and the clock included.
LEMMA StepType == TypeInv /\ [Next]_vars => TypeInv'
<1> SUFFICES ASSUME TypeInv, [Next]_vars PROVE TypeInv'
  OBVIOUS
<1> USE DEF contextVars, localVars, reviewVars, endVars
<1>1. CASE RefuseRequest
  <2>1. /\ Ev("request", 0, "run", "failed") \in Events
        /\ Ev("planning", 0, "run", "failed") \in Events
        /\ << >> \in Seq(Events)
        /\ {"invalid_request", "component_failure"} \subseteq ResultCodes
    BY DEF Ev, Events, ResultCodes
  <2> QED  BY <1>1, <2>1, FailType DEF RefuseRequest, TypeInv, TypeOK
<1>2. CASE AskClarification
  <2>1. /\ Ev("interpret-request", 0, "run", "failed") \in Events
        /\ Ev("interpret-request", 0, "interpretation",
              "clarification_required") \in Events
        /\ "clarification_required" \in ResultCodes
    BY DEF Ev, Events, ResultCodes
  <2> QED
    BY <1>2, <2>1, OneEvent, FailType DEF AskClarification, TypeInv, TypeOK
<1>3. CASE AcceptPlan
  <2>1. /\ Ev("interpret-request", 0, "interpretation", "completed") \in Events
        /\ Ev("build-plan", 0, "planning", "completed") \in Events
        /\ Ev("", 0, "plan", "accepted") \in Events
    BY DEF Ev, Events
  <2>2. <<Ev("interpret-request", 0, "interpretation", "completed"),
          Ev("build-plan", 0, "planning", "completed"),
          Ev("", 0, "plan", "accepted")>> \in Seq(Events)
    BY <2>1, ThreeEvents
  <2>3. /\ phase' = "contexts"
        /\ wave' \in {0} \cup Waves
        /\ step' \in [Contexts -> {"pending", "spawned", "calling", "skipped",
                                   "ok", "failed"}]
        /\ trace' \in Seq(Events)
    BY <1>3, <2>2, OpenWaveType DEF AcceptPlan
  <2> QED  BY <1>3, <2>3 DEF AcceptPlan, TypeInv, TypeOK
<1>4. ASSUME NEW i \in Contexts, StartContext(i) PROVE TypeInv'
  <2>1. Ev("context", i, "context", "started") \in Events
    BY DEF Ev, Events, Contexts
  <2>2. CASE ctx = "live"
    <3>1. trace' \in Seq(Events)
      BY <1>4, <2>1, <2>2 DEF StartContext, TypeInv, TypeOK
    <3>2. calls' \in [Contexts -> Positions]
      BY <1>4, <2>2, FreshCall DEF StartContext, TypeInv, TypeOK
    <3> QED  BY <1>4, <2>2, <3>1, <3>2 DEF StartContext, TypeInv, TypeOK
  <2>3. CASE ctx # "live"
    BY <1>4, <2>3 DEF StartContext, TypeInv, TypeOK
  <2> QED  BY <2>2, <2>3
<1>5. ASSUME NEW i \in Contexts, NEW claims \in SUBSET Claims,
             ContextDelivers(i, claims)
      PROVE  TypeInv'
  <2>1. Ev("context", i, "context", "completed") \in Events
    BY DEF Ev, Events, Contexts
  <2>2. NoCall \in Positions
    BY PlanAssumption DEF NoCall, Positions
  <2> QED  BY <1>5, <2>1, <2>2 DEF ContextDelivers, TypeInv, TypeOK
<1>6. ASSUME NEW i \in Contexts, RetryContext(i) PROVE TypeInv'
  <2>1. Call(calls[i].attempt + 1) \in Positions
    BY <1>6, RetriedCall DEF RetryContext, TypeInv, TypeOK
  <2> QED  BY <1>6, <2>1 DEF RetryContext, TypeInv, TypeOK
<1>7. ASSUME NEW i \in Contexts, ContextFails(i) PROVE TypeInv'
  <2>1. Ev("context", i, "context", "failed") \in Events
    BY DEF Ev, Events, Contexts
  <2>2. NoCall \in Positions
    BY PlanAssumption DEF NoCall, Positions
  <2> QED  BY <1>7, <2>1, <2>2 DEF ContextFails, TypeInv, TypeOK
<1>8. CASE NextBatch
  BY <1>8 DEF NextBatch, Spawn, TypeInv, TypeOK
<1>9. CASE NextWave
  BY <1>9, WaveEndedType, OpenWaveType DEF NextWave, TypeInv, TypeOK
<1>10. CASE ContextUnavailable
  <2>1. /\ Ev("context-wave", 0, "run", "failed") \in Events
        /\ "context_unavailable" \in ResultCodes
    BY DEF Ev, Events, ResultCodes
  <2> QED
    BY <1>10, <2>1, WaveEndedType, FailType
    DEF ContextUnavailable, TypeInv, TypeOK
<1>11. CASE StartReviews
  <2>1. 1 \in Reviewers
    BY PlanAssumption DEF Reviewers
  <2>2. Claimed \in SUBSET Claims
    BY DEF Claimed, TypeInv, TypeOK
  <2>3. Ev("review", 1, "review", "started") \in Events
    BY DEF Ev, Events
  <2>4. trace' \in Seq(Events)
    BY <1>11, <2>3, WaveEndedType, OneEvent, TraceGrows
    DEF StartReviews, TypeInv, TypeOK
  <2> QED
    BY <1>11, <2>1, <2>2, <2>4, EnterReviewType
    DEF StartReviews, TypeInv, TypeOK
<1>12. CASE RetryCall
  <2>1. call' \in Positions
    BY <1>12, RetriedCall DEF RetryCall, TypeInv, TypeOK
  <2> QED  BY <1>12, <2>1 DEF RetryCall, TypeInv, TypeOK
<1>13. CASE ReviewFails
  <2>1. reviewer \in Nat
    BY <1>13 DEF ReviewFails, TypeInv, Reviewers
  <2>2. Ev("review", reviewer, "run", "failed") \in Events
    BY <2>1 DEF Ev, Events
  <2>3. PICK fault \in Faults : Fail(<< >>, "review", reviewer, fault.code)
    BY <1>13 DEF ReviewFails
  <2> QED
    BY <1>13, <2>1, <2>2, <2>3, FaultCodes, FailType, << >> \in Seq(Events)
    DEF ReviewFails, TypeInv, TypeOK
<1>14. ASSUME NEW rep, ReviewApproves(rep) PROVE TypeInv'
  <2>1. /\ Replied(rep) /\ phase = "review" /\ Reviewed("approve") \in Events
        /\ rep \in AllReports /\ rep.approved \subseteq Claims
    BY <1>14, ReplyType, ReviewedType
    DEF ReviewApproves, Decisions, TypeInv, TypeOK
  <2>2. history \cup {rep} \in SUBSET AllReports
    BY <2>1 DEF TypeInv, TypeOK
  <2>3. working \in SUBSET Claims
    BY DEF TypeInv, TypeOK
  <2> QED
    BY <1>14, <2>1, <2>2, <2>3, CloseReviewType DEF ReviewApproves
<1>15. ASSUME NEW rep, ReviewApprovesSubset(rep) PROVE TypeInv'
  <2> DEFINE approval == [rep EXCEPT !.decision = "approve", !.rejected = {}]
  <2>1. /\ phase = "review" /\ Reviewed("approved_subset") \in Events
        /\ rep \in AllReports
    BY <1>15, ReplyType, ReviewedType DEF ReviewApprovesSubset
  <2>2. approval \in AllReports /\ approval.approved = rep.approved
    BY <2>1 DEF AllReports, Decisions
  <2>3. history \cup {rep, approval} \in SUBSET AllReports
    BY <2>1, <2>2 DEF TypeInv, TypeOK
  <2>4. working \cap rep.approved \in SUBSET Claims
    BY DEF TypeInv, TypeOK
  <2>5. rep.approved \in SUBSET Claims
    BY <2>1 DEF AllReports
  <2>6. CloseReview(history \cup {rep, approval}, working \cap rep.approved,
                    approval.approved, "approved_subset")
    BY <1>15 DEF ReviewApprovesSubset
  <2> HIDE DEF approval
  <2> QED  BY <2>1, <2>2, <2>3, <2>4, <2>5, <2>6, CloseReviewType
<1>16. ASSUME NEW rep, AsksRepair(rep) PROVE TypeInv'
  <2>1. /\ phase = "review" /\ Reviewed("repair_requested") \in Events
        /\ rep \in AllReports
    BY <1>16, ReplyType, ReviewedType DEF AsksRepair
  <2>2. pass + 1 \in 0 .. MaxRepairPasses
    BY <1>16, PlanAssumption DEF AsksRepair, FinalPass, TypeInv, TypeOK
  <2> QED
    BY <1>16, <2>1, <2>2, FreshCall DEF AsksRepair, TypeInv, TypeOK
<1>17. ASSUME NEW rep, Narrows(rep) PROVE TypeInv'
  <2>1. /\ phase = "review" /\ Reviewed("narrowed") \in Events
        /\ rep \in AllReports
    BY <1>17, ReplyType, ReviewedType DEF Narrows
  <2>2. pass + 1 \in 0 .. MaxRepairPasses
    BY <1>17, PlanAssumption DEF Narrows, FinalPass, TypeInv, TypeOK
  <2> QED
    BY <1>17, <2>1, <2>2, FreshCall DEF Narrows, Narrowed, TypeInv, TypeOK
<1>18. ASSUME NEW rep, ReviewRejects(rep) PROVE TypeInv'
  <2>1. /\ phase = "review" /\ rep \in AllReports
        /\ Reviewed(RejectedWith(rep)) \in Events
    BY <1>18, ReplyType, ReviewedType DEF ReviewRejects, RejectedWith
  <2>2. /\ packets' \subseteq Claims /\ critiques' \subseteq AllReports
        /\ reviewer \in Nat
    BY <1>18, <2>1 DEF ReviewRejects, TypeInv, TypeOK, Reviewers
  <2>3. /\ Ev("review", reviewer, "run", "failed") \in Events
        /\ "evidence_rejected" \in ResultCodes
    BY <2>2 DEF Ev, Events, ResultCodes
  <2> QED
    BY <1>18, <2>1, <2>2, <2>3, OneEvent, FailType DEF ReviewRejects
<1>19. ASSUME NEW cited \in SUBSET Claims, Synthesizes(cited) PROVE TypeInv'
  <2>1. /\ Ev("synthesis", 0, "synthesis", "passed") \in Events
        /\ Ev("synthesis", 0, "run", "completed") \in Events
    BY DEF Ev, Events
  <2> QED
    BY <1>19, <2>1, TwoEvents, TraceGrows DEF Synthesizes, TypeInv, TypeOK
<1>20. CASE SynthesisFails
  <2>1. Ev("synthesis", 0, "run", "failed") \in Events
    BY DEF Ev, Events
  <2> QED
    BY <1>20, <2>1, FaultCodes, FailType, << >> \in Seq(Events)
    DEF SynthesisFails, TypeInv, TypeOK
<1>21. CASE SaveTrace
  BY <1>21 DEF SaveTrace, TypeInv, TypeOK, ResultCodes
<1>22. CASE TraceLost
  <2>1. /\ Ev("trace", 0, "run", "failed") \in Events
        /\ "trace_persistence_failed" \in ResultCodes /\ << >> \in Seq(Events)
    BY DEF Ev, Events, ResultCodes
  <2> QED  BY <1>22, <2>1, FailType DEF TraceLost, TypeInv, TypeOK
<1>23. CASE Cancel \/ Expire
  BY <1>23 DEF Cancel, Expire, TypeInv, TypeOK
<1>24. CASE UNCHANGED vars
  BY <1>24 DEF vars, TypeInv, TypeOK
<1> QED
  BY <1>1, <1>2, <1>3, <1>4, <1>5, <1>6, <1>7, <1>8, <1>9, <1>10, <1>11,
     <1>12, <1>13, <1>14, <1>15, <1>16, <1>17, <1>18, <1>19, <1>20, <1>21,
     <1>22, <1>23, <1>24
  DEF Next, RunStep, ContextStep, WaveStep, ReviewReply, SynthesisStep

\* A run is well typed in every reachable state, and a review in progress is
\* one of the plan's.
THEOREM TypeInvariant == Spec => []TypeInv
BY InitType, StepType, PTL DEF Spec

\* In every reachable state of a run, retries and repair passes are within
\* their bounds and every field of the Result has its type.
THEOREM TypeCorrect == Spec => []TypeOK
BY TypeInvariant, PTL DEF TypeInv

-----------------------------------------------------------------------------
(* The contexts are over before anything is reviewed.                      *)

\* A freshly called Run has delivered, reviewed and struck nothing.
LEMMA InitSafe == Init => SafeInv
BY DEF Init, SafeInv, ContextInv, PhaseInv, ReleaseInv, VerdictInv, ReviewInv,
       StruckInv, AnswerInv, Joined, Past

\* A step of a specialist's goroutine finds it at work, so the run is in its
\* context phase.
LEMMA AtWork ==
  ASSUME ContextInv, NEW i \in Contexts, step[i] \in {"spawned", "calling"}
  PROVE  phase = "contexts"
BY DEF ContextInv, Joined

\* Every step keeps the specialists inside the context phase, and packets
\* with the specialists that delivered them.
LEMMA StepContextInv ==
  TypeInv /\ ContextInv /\ [Next]_vars => ContextInv'
<1> SUFFICES ASSUME TypeInv, ContextInv, [Next]_vars PROVE ContextInv'
  OBVIOUS
<1> USE DEF contextVars
<1>1. ASSUME NEW i \in Contexts, ContextStep(i) PROVE ContextInv'
  <2>1. phase = "contexts" /\ phase' = "contexts"
    BY <1>1, AtWork
    DEF ContextStep, StartContext, ContextDelivers, RetryContext, ContextFails
  <2>2. \A j \in Contexts : step'[j] # "ok" => packet'[j] = {}
    BY <1>1
    DEF ContextStep, StartContext, ContextDelivers, RetryContext, ContextFails,
        ContextInv, TypeInv, TypeOK
  <2> QED  BY <2>1, <2>2 DEF ContextInv
<1>2. CASE AcceptPlan \/ NextBatch \/ NextWave
  <2>1. /\ phase' = "contexts"
        /\ packet' = packet
        /\ \E batch : Spawn(batch)
    BY <1>2 DEF AcceptPlan, NextBatch, NextWave, WaveDone, OpenWave
  <2>2. \A j \in Contexts : step'[j] \in {step[j], "spawned"}
    BY <2>1 DEF Spawn
  <2>3. \A j \in Contexts : step[j] = "ok" => step'[j] = "ok"
    BY <1>2 DEF AcceptPlan, NextBatch, NextWave, WaveDone, OpenWave, Spawn,
                Batch, Pending
  <2> QED  BY <2>1, <2>2, <2>3 DEF ContextInv
<1>3. CASE phase' # "request" /\ UNCHANGED contextVars /\ Joined
  BY <1>3 DEF ContextInv, Joined
<1>4. CASE RefuseRequest \/ AskClarification
  <2>1. phase = "request" /\ phase' = "done" /\ UNCHANGED contextVars
    BY <1>4 DEF RefuseRequest, AskClarification, Fail
  <2> QED  BY <1>3, <2>1 DEF ContextInv, Joined
<1>5. CASE ContextUnavailable \/ StartReviews
  BY <1>3, <1>5
  DEF ContextUnavailable, StartReviews, EnterReview, WaveDone, Fail
<1>6. CASE RetryCall \/ ReviewFails
  BY <1>3, <1>6 DEF RetryCall, ReviewFails, Fail, ContextInv
<1>7. ASSUME NEW rep,
             \/ ReviewApproves(rep) \/ ReviewApprovesSubset(rep)
             \/ AsksRepair(rep) \/ Narrows(rep) \/ ReviewRejects(rep)
      PROVE  ContextInv'
  <2>1. Joined /\ UNCHANGED contextVars
    BY <1>7
    DEF ReviewApproves, ReviewApprovesSubset, AsksRepair, Narrows,
        ReviewRejects, CloseReview, Replied, ContextInv
  <2>2. phase' # "request"
    BY <1>7
    DEF ReviewApproves, ReviewApprovesSubset, AsksRepair, Narrows,
        ReviewRejects, CloseReview, EnterReview, Replied, Fail
  <2> QED  BY <1>3, <2>1, <2>2
<1>8. CASE SynthesisStep \/ SaveTrace \/ TraceLost
  BY <1>3, <1>8
  DEF SynthesisStep, Synthesizes, SynthesisFails, SaveTrace, TraceLost, Fail,
      ContextInv
<1>9. CASE Cancel \/ Expire \/ UNCHANGED vars
  BY <1>9 DEF Cancel, Expire, vars, ContextInv, Joined
<1> QED
  BY <1>1, <1>2, <1>4, <1>5, <1>6, <1>7, <1>8, <1>9
  DEF Next, RunStep, WaveStep, ReviewReply

-----------------------------------------------------------------------------
(* The result is written once, at the end.                                 *)

\* Every failure of a phase ends the run with a code that is no answer.
LEMMA FailuresEnd ==
  ASSUME TypeInv,
         \/ RefuseRequest \/ AskClarification \/ ContextUnavailable
         \/ ReviewFails \/ SynthesisFails \/ TraceLost
         \/ \E rep : ReviewRejects(rep)
  PROVE  phase' = "done" /\ result' # "answered" /\ reviewer' = reviewer
BY FaultCodes
   DEF RefuseRequest, AskClarification, ContextUnavailable, ReviewFails,
       SynthesisFails, TraceLost, ReviewRejects, Fail, localVars

\* Every step writes the result once, and reviews after the contexts.
LEMMA StepPhaseInv ==
  TypeInv /\ PhaseInv /\ [Next]_vars => PhaseInv'
<1> SUFFICES ASSUME TypeInv, PhaseInv, [Next]_vars PROVE PhaseInv'
  OBVIOUS
<1> USE DEF contextVars, localVars, reviewVars, endVars
<1>1. CASE UNCHANGED <<phase, result, reviewer, critiques, approved>>
  BY <1>1 DEF PhaseInv
<1>2. CASE \/ RefuseRequest \/ AskClarification \/ ContextUnavailable
           \/ ReviewFails \/ SynthesisFails \/ TraceLost
  <2>1. phase' = "done" /\ result' # "answered" /\ reviewer' = reviewer
    BY <1>2, FailuresEnd
  <2>2. UNCHANGED <<critiques, approved>>
    BY <1>2 DEF RefuseRequest, AskClarification, ContextUnavailable,
                ReviewFails, SynthesisFails, TraceLost
  <2> QED  BY <2>1, <2>2 DEF PhaseInv
<1>3. CASE AcceptPlan \/ NextBatch \/ NextWave
  BY <1>3 DEF AcceptPlan, NextBatch, NextWave, WaveDone, PhaseInv
<1>4. CASE StartReviews
  BY <1>4 DEF StartReviews, EnterReview, WaveDone, PhaseInv
<1>5. ASSUME NEW rep, ReviewRejects(rep) PROVE PhaseInv'
  <2>1. phase' = "done" /\ result' # "answered" /\ reviewer' = reviewer
    BY <1>5, FailuresEnd
  <2>2. reviewer # 0
    BY <1>5 DEF ReviewRejects, Replied, PhaseInv
  <2> QED  BY <2>1, <2>2 DEF PhaseInv
<1>6. ASSUME NEW rep, ReviewApproves(rep) \/ ReviewApprovesSubset(rep)
      PROVE  PhaseInv'
  <2>1. phase = "review" /\ UNCHANGED result
    BY <1>6 DEF ReviewApproves, ReviewApprovesSubset, CloseReview, Replied
  <2>2. phase' \in {"review", "synthesis"} /\ reviewer' \in {reviewer, reviewer + 1}
    BY <1>6
    DEF ReviewApproves, ReviewApprovesSubset, CloseReview, EnterReview
  <2> QED  BY <2>1, <2>2 DEF PhaseInv, TypeInv, Reviewers
<1>7. ASSUME NEW rep, AsksRepair(rep) \/ Narrows(rep) PROVE PhaseInv'
  BY <1>1, <1>7 DEF AsksRepair, Narrows
<1>8. CASE RetryCall \/ Cancel \/ Expire \/ UNCHANGED vars
  BY <1>1, <1>8 DEF RetryCall, Cancel, Expire, vars
<1>9. ASSUME NEW i \in Contexts, ContextStep(i) PROVE PhaseInv'
  BY <1>1, <1>9
  DEF ContextStep, StartContext, ContextDelivers, RetryContext, ContextFails
<1>10. CASE SaveTrace
  BY <1>10 DEF SaveTrace, PhaseInv
<1>11. ASSUME NEW cited, Synthesizes(cited) PROVE PhaseInv'
  BY <1>11 DEF Synthesizes, PhaseInv
<1> QED
  BY <1>2, <1>3, <1>4, <1>5, <1>6, <1>7, <1>8, <1>9, <1>10, <1>11
  DEF Next, RunStep, WaveStep, ReviewReply, SynthesisStep

-----------------------------------------------------------------------------
(* Reviews, what they strike and what the answer may cite.                 *)

\* A run that ended without an answer promises nothing more.
LEMMA EndedSafe ==
  ASSUME phase' = "done", result' # "answered"
  PROVE  ReleaseInv'
BY DEF ReleaseInv, VerdictInv, ReviewInv, StruckInv, AnswerInv, Past

\* Nothing is promised before the reviews begin.
LEMMA EarlySafe ==
  ASSUME phase' \in {"request", "contexts"}, result' = "none"
  PROVE  ReleaseInv'
BY DEF ReleaseInv, VerdictInv, ReviewInv, StruckInv, AnswerInv, Past

\* A step that touches neither a review nor the answer.
LEMMA QuietSafe ==
  ASSUME ReleaseInv,
         UNCHANGED <<phase, reviewer, pass, working, history, reviewVars,
                     answer, result>>
  PROVE  ReleaseInv'
<1>1. Past' = Past /\ (\A r : Verdict(r)' = Verdict(r))
  BY DEF Past, Verdict, reviewVars
<1>2. Struck' = Struck /\ Offered' = Offered
  BY DEF Struck, Offered, reviewVars
<1> QED
  BY <1>1, <1>2
  DEF ReleaseInv, VerdictInv, ReviewInv, StruckInv, AnswerInv, reviewVars

\* What a review that returns its approval has established: last is the report
\* it closes with, kept the claims it lets through.
Closing(reports, kept, last, status) ==
  /\ kept \in SUBSET working /\ reports \in SUBSET AllReports
  /\ last \in reports /\ last.decision = "approve"
  /\ last.reviewer = reviewer /\ last.approved # {}
  /\ \A rep \in reports : rep.reviewer = reviewer /\ rep.pass <= last.pass
  /\ \A rep \in reports :
       rep.decision = "narrow" \/ rep.pass = MaxRepairPasses =>
         rep.rejected \cap kept = {}
  /\ CloseReview(reports, kept, last.approved, status)

\* Such a review keeps what the earlier ones have established.
LEMMA CloseSafe ==
  ASSUME TypeInv, ReleaseInv, phase = "review",
         NEW kept, NEW reports, NEW last, NEW status,
         Closing(reports, kept, last, status),
         UNCHANGED result, result # "answered"
  PROVE  ReleaseInv'
<1>0. /\ kept \in SUBSET working /\ reports \in SUBSET AllReports
      /\ last \in reports /\ last.decision = "approve"
      /\ last.reviewer = reviewer /\ last.approved # {}
      /\ \A rep \in reports : rep.reviewer = reviewer /\ rep.pass <= last.pass
      /\ \A rep \in reports :
           rep.decision = "narrow" \/ rep.pass = MaxRepairPasses =>
             rep.rejected \cap kept = {}
      /\ CloseReview(reports, kept, last.approved, status)
  BY DEF Closing
<1> USE <1>0
<1> USE DEF reviewVars
<1>1. /\ packets' = kept /\ critiques' = critiques \cup reports
      /\ approved' = [approved EXCEPT ![reviewer] = last.approved]
      /\ phase' \in {"review", "synthesis"}
      /\ reviewer \in Reviewers
      /\ Reviewers \subseteq Nat
  BY DEF CloseReview, EnterReview, TypeInv, Reviewers
<1>2. \A rep \in critiques : rep.reviewer < reviewer
  BY DEF ReleaseInv, ReviewInv
<1>3. ASSUME NEW r \in Reviewers, r <= reviewer
      PROVE  Verdict(r)' /\ approved'[r] # {}
  <2>1. CASE r = reviewer
    <3>1. \A other \in critiques' : other.reviewer = r => other.pass <= last.pass
      BY <1>1, <1>2, <2>1
    <3>2. last.approved = approved'[r]
      BY <1>1, <2>1 DEF TypeInv, TypeOK
    <3> QED  BY <1>1, <2>1, <3>1, <3>2 DEF Verdict
  <2>2. CASE r < reviewer
    <3>1. r \in Past
      BY <2>2 DEF Past
    <3>2. approved'[r] = approved[r] /\ approved[r] # {}
      BY <1>1, <2>2, <3>1 DEF ReleaseInv, VerdictInv, TypeInv, TypeOK
    <3>3. PICK rep \in critiques :
            /\ rep.reviewer = r /\ rep.decision = "approve"
            /\ rep.approved = approved[r]
            /\ \A other \in critiques :
                 other.reviewer = r => other.pass <= rep.pass
      BY <3>1 DEF ReleaseInv, VerdictInv, Verdict
    <3>4. \A other \in critiques' :
            other.reviewer = r => other.pass <= rep.pass
      BY <1>1, <2>2, <3>3
    <3> QED  BY <1>1, <3>2, <3>3, <3>4 DEF Verdict
  <2> QED  BY <1>1, <1>3, <2>1, <2>2
<1>4. \A r \in Past' : r \in Reviewers /\ r <= reviewer
  <2>1. CASE MoreReviews
    BY <1>1, <2>1 DEF CloseReview, EnterReview, Past
  <2>2. CASE ~MoreReviews
    BY <1>1, <2>2, PlanAssumption
    DEF CloseReview, Past, MoreReviews, Reviewers
  <2> QED  BY <2>1, <2>2
<1>5. VerdictInv'
  BY <1>3, <1>4 DEF VerdictInv
<1>6. ReviewInv'
  <2>1. CASE MoreReviews
    <3>1. reviewer' = reviewer + 1 /\ history' = {} /\ working' = packets'
      BY <1>1, <2>1 DEF CloseReview, EnterReview
    <3>2. \A r \in Reviewers : r >= reviewer' => approved'[r] = {}
      BY <1>1, <3>1 DEF ReleaseInv, ReviewInv, TypeInv, TypeOK
    <3>3. \A rep \in critiques' : rep.reviewer < reviewer'
      <4>1. \A rep \in critiques : rep.reviewer \in Nat
        BY DEF AllReports, Reviewers, TypeInv, TypeOK
      <4> QED  BY <1>1, <1>2, <3>1, <4>1
    <3> QED  BY <3>1, <3>2, <3>3 DEF ReviewInv
  <2>2. CASE ~MoreReviews
    BY <2>2 DEF CloseReview, ReviewInv
  <2> QED  BY <2>1, <2>2
<1>7. StruckInv'
  <2>1. kept \subseteq packets /\ Struck \cap packets = {}
    BY DEF ReleaseInv, ReviewInv, StruckInv
  <2>2. ASSUME NEW c \in Struck', c \in kept PROVE FALSE
    <3>1. PICK rep \in critiques' :
            /\ rep.decision = "narrow" \/ rep.pass = MaxRepairPasses
            /\ c \in rep.rejected
      BY <2>2 DEF Struck
    <3>2. CASE rep \in critiques
      BY <2>1, <2>2, <3>1, <3>2 DEF Struck
    <3>3. CASE rep \in reports
      BY <2>2, <3>1, <3>3
    <3> QED  BY <1>1, <3>1, <3>2, <3>3
  <2> QED  BY <1>1, <2>2 DEF StruckInv
<1>8. AnswerInv'
  BY <1>1 DEF AnswerInv
<1> QED  BY <1>5, <1>6, <1>7, <1>8 DEF ReleaseInv

\* Every step keeps what the reviews have established so far, and an answer
\* within it.
LEMMA StepReleaseInv ==
  TypeInv /\ PhaseInv /\ ReleaseInv /\ [Next]_vars => ReleaseInv'
<1> SUFFICES ASSUME TypeInv, PhaseInv, ReleaseInv, [Next]_vars
             PROVE  ReleaseInv'
  OBVIOUS
<1> USE DEF contextVars, localVars, reviewVars, endVars
<1>1. CASE \/ RefuseRequest \/ AskClarification \/ ContextUnavailable
           \/ ReviewFails \/ SynthesisFails \/ TraceLost
           \/ \E rep : ReviewRejects(rep)
  BY <1>1, FailuresEnd, EndedSafe
<1>2. CASE AcceptPlan \/ NextBatch \/ NextWave
  BY <1>2, EarlySafe DEF AcceptPlan, NextBatch, NextWave, WaveDone, PhaseInv
<1>3. CASE \/ \E i \in Contexts : ContextStep(i)
           \/ Cancel \/ Expire \/ UNCHANGED vars
  BY <1>3, QuietSafe
  DEF ContextStep, StartContext, ContextDelivers, RetryContext, ContextFails,
      Cancel, Expire, vars
<1>4. CASE RetryCall
  BY <1>4, QuietSafe DEF RetryCall
<1>5. CASE StartReviews
  <2>1. /\ phase' = "review" /\ reviewer' = 1 /\ history' = {}
        /\ working' = packets' /\ critiques' = {}
        /\ approved' = [r \in Reviewers |-> {}] /\ result' = "none"
    BY <1>5 DEF StartReviews, WaveDone, EnterReview, PhaseInv
  <2>2. Past' = {} /\ Struck' = {}
    BY <2>1 DEF Past, Struck, Reviewers
  <2> QED
    BY <2>1, <2>2 DEF ReleaseInv, VerdictInv, ReviewInv, StruckInv, AnswerInv
<1>6. ASSUME NEW rep, ReviewApproves(rep) PROVE ReleaseInv'
  <2>1. /\ phase = "review" /\ rep \in AllReports /\ rep.reviewer = reviewer
        /\ rep.pass = pass /\ rep.decision = "approve" /\ rep.rejected = {}
        /\ rep.approved = working /\ working # {}
    BY <1>6, ReplyType DEF ReviewApproves
  <2>2. /\ history \subseteq AllReports /\ pass \in 0 .. MaxRepairPasses
        /\ MaxRepairPasses \in Nat
    BY PlanAssumption DEF TypeInv, TypeOK
  <2>3. \A r \in history : r.pass \in Nat /\ r.pass < pass /\ r.reviewer = reviewer
    BY <2>1, <2>2 DEF ReleaseInv, ReviewInv, AllReports
  <2>4. \A r \in history \cup {rep} :
          r.reviewer = reviewer /\ r.pass <= rep.pass
    BY <2>1, <2>2, <2>3
  <2>5. \A r \in history \cup {rep} :
          r.decision = "narrow" \/ r.pass = MaxRepairPasses =>
            r.rejected \cap working = {}
    BY <2>1, <2>2, <2>3 DEF ReleaseInv, ReviewInv
  <2>6. CloseReview(history \cup {rep}, working, rep.approved, "approve")
    BY <1>6 DEF ReviewApproves
  <2>7. UNCHANGED result /\ result # "answered"
    BY <2>1, <2>6 DEF CloseReview, PhaseInv
  <2>8. /\ history \cup {rep} \in SUBSET AllReports
        /\ rep \in history \cup {rep}
        /\ working \in SUBSET working
        /\ rep.approved # {}
    BY <2>1, <2>2
  <2>9. Closing(history \cup {rep}, working, rep, "approve")
    BY <2>1, <2>4, <2>5, <2>6, <2>8 DEF Closing
  <2> QED  BY <2>1, <2>7, <2>9, CloseSafe
<1>7. ASSUME NEW rep, ReviewApprovesSubset(rep) PROVE ReleaseInv'
  <2> DEFINE approval == [rep EXCEPT !.decision = "approve", !.rejected = {}]
             kept == working \cap rep.approved
  <2>1. /\ phase = "review" /\ rep \in AllReports /\ rep.reviewer = reviewer
        /\ rep.pass = pass /\ rep.approved # {}
        /\ rep.rejected = working \ rep.approved
    BY <1>7, ReplyType DEF ReviewApprovesSubset
  <2>2. /\ history \subseteq AllReports /\ pass \in 0 .. MaxRepairPasses
        /\ MaxRepairPasses \in Nat
    BY PlanAssumption DEF TypeInv, TypeOK
  <2>3. /\ approval \in AllReports /\ approval.reviewer = reviewer
        /\ approval.pass = pass /\ approval.decision = "approve"
        /\ approval.rejected = {} /\ approval.approved = rep.approved
    BY <2>1 DEF AllReports, Decisions
  <2>4. \A r \in history : r.pass \in Nat /\ r.pass < pass /\ r.reviewer = reviewer
    BY <2>1, <2>2 DEF ReleaseInv, ReviewInv, AllReports
  <2>5. CloseReview(history \cup {rep, approval}, kept, approval.approved,
                    "approved_subset")
    BY <1>7 DEF ReviewApprovesSubset
  <2>6. UNCHANGED result /\ result # "answered"
    BY <2>1, <2>5 DEF CloseReview, PhaseInv
  <2> HIDE DEF approval
  <2>7. \A r \in history \cup {rep, approval} :
          r.reviewer = reviewer /\ r.pass <= approval.pass
    BY <2>1, <2>2, <2>3, <2>4
  <2>8. \A r \in history \cup {rep, approval} :
          r.decision = "narrow" \/ r.pass = MaxRepairPasses =>
            r.rejected \cap kept = {}
    BY <2>1, <2>2, <2>3, <2>4 DEF ReleaseInv, ReviewInv
  <2>9. /\ history \cup {rep, approval} \in SUBSET AllReports
        /\ approval \in history \cup {rep, approval}
        /\ kept \in SUBSET working
        /\ approval.approved # {}
    BY <2>1, <2>2, <2>3
  <2> HIDE DEF kept
  <2>10. Closing(history \cup {rep, approval}, kept, approval, "approved_subset")
    BY <2>1, <2>3, <2>5, <2>7, <2>8, <2>9 DEF Closing
  <2> QED  BY <2>1, <2>6, <2>10, CloseSafe
<1>8. ASSUME NEW rep, AsksRepair(rep) \/ Narrows(rep) PROVE ReleaseInv'
  <2>1. /\ phase = "review" /\ rep \in AllReports /\ rep.reviewer = reviewer
        /\ rep.pass = pass /\ pass \in Nat
        /\ rep.rejected = working \ rep.approved
    BY <1>8, ReplyType, PlanAssumption DEF AsksRepair, Narrows, TypeInv, TypeOK
  <2>2. /\ pass' = pass + 1 /\ history' = history \cup {rep}
        /\ working' \subseteq working
        /\ rep.decision = "narrow" => rep.rejected \cap working' = {}
        /\ UNCHANGED <<phase, reviewer, reviewVars, answer, result>>
    BY <1>8 DEF AsksRepair, Narrows, Narrowed
  <2>3. \A r \in history' : r.reviewer = reviewer /\ r.pass < pass'
    <3>1. \A r \in history : r.reviewer = reviewer /\ r.pass < pass /\ r.pass \in Nat
      BY <2>1, PlanAssumption DEF ReleaseInv, ReviewInv, TypeInv, TypeOK, AllReports
    <3> QED  BY <2>1, <2>2, <3>1
  <2>4. \A r \in history' : r.decision = "narrow" => r.rejected \cap working' = {}
    BY <2>1, <2>2 DEF ReleaseInv, ReviewInv
  <2>5. ReviewInv'
    BY <2>1, <2>2, <2>3, <2>4 DEF ReleaseInv, ReviewInv
  <2>6. /\ Past' = Past /\ (\A r : Verdict(r)' = Verdict(r))
        /\ Struck' = Struck /\ Offered' = Offered
    BY <2>2 DEF Past, Verdict, Struck, Offered
  <2> QED
    BY <2>2, <2>5, <2>6 DEF ReleaseInv, VerdictInv, StruckInv, AnswerInv
<1>9. ASSUME NEW cited, Synthesizes(cited) PROVE ReleaseInv'
  <2>1. /\ phase = "synthesis" /\ phase' = "saving" /\ answer' \subseteq Offered
        /\ UNCHANGED <<localVars, reviewVars, result>>
    BY <1>9 DEF Synthesizes
  <2>2. Past' = Past /\ (\A r : Verdict(r)' = Verdict(r))
    BY <2>1 DEF Past, Verdict
  <2>3. Struck' = Struck /\ Offered' = Offered
    BY <2>1 DEF Struck, Offered
  <2> QED
    BY <2>1, <2>2, <2>3
    DEF ReleaseInv, VerdictInv, ReviewInv, StruckInv, AnswerInv
<1>10. CASE SaveTrace
  <2>1. /\ phase = "saving" /\ phase' = "done" /\ result' = "answered"
        /\ UNCHANGED <<localVars, reviewVars, answer>>
    BY <1>10 DEF SaveTrace
  <2>2. Past' = Past /\ (\A r : Verdict(r)' = Verdict(r))
    BY <2>1 DEF Past, Verdict
  <2>3. Struck' = Struck /\ Offered' = Offered
    BY <2>1 DEF Struck, Offered
  <2> QED
    BY <2>1, <2>2, <2>3
    DEF ReleaseInv, VerdictInv, ReviewInv, StruckInv, AnswerInv
<1> QED
  BY <1>1, <1>2, <1>3, <1>4, <1>5, <1>6, <1>7, <1>8, <1>9, <1>10
  DEF Next, RunStep, WaveStep, ReviewReply, SynthesisStep

-----------------------------------------------------------------------------
(* What a caller of Run may rely on.                                       *)

\* The strengthened invariant holds of every run, whatever the plan.
THEOREM SafeInvariant == Spec => [](TypeInv /\ SafeInv)
<1>1. Init => TypeInv /\ SafeInv
  BY InitType, InitSafe
<1>2. (TypeInv /\ SafeInv) /\ [Next]_vars => (TypeInv /\ SafeInv)'
  BY StepType, StepContextInv, StepPhaseInv, StepReleaseInv DEF SafeInv
<1> QED  BY <1>1, <1>2, PTL DEF Spec

\* Whatever the plan, an answer is returned only with the approval of every
\* mandatory reviewer for every claim it cites.
THEOREM UnanimousReleaseHolds == Spec => []UnanimousRelease
<1>1. TypeInv /\ SafeInv => UnanimousRelease
  <2> SUFFICES ASSUME TypeInv, SafeInv, result = "answered", NEW r \in Reviewers
               PROVE  \E rep \in critiques :
                        /\ rep.reviewer = r
                        /\ rep.decision = "approve"
                        /\ answer \subseteq rep.approved
                        /\ \A other \in critiques :
                             other.reviewer = r => other.pass <= rep.pass
    BY DEF UnanimousRelease
  <2>1. r \in Past
    BY DEF Past, SafeInv, PhaseInv
  <2>2. Verdict(r)
    BY <2>1 DEF SafeInv, ReleaseInv, VerdictInv
  <2>3. answer \subseteq approved[r]
    BY DEF SafeInv, ReleaseInv, AnswerInv, Offered
  <2> QED  BY <2>2, <2>3 DEF Verdict
<1> QED  BY <1>1, SafeInvariant, PTL

\* Whatever the plan, a struck claim is never cited.
THEOREM StruckNeverCitedHolds == Spec => []StruckNeverCited
<1>1. SafeInv => StruckNeverCited
  BY DEF SafeInv, ReleaseInv, StruckInv, AnswerInv, Offered, StruckNeverCited
<1> QED  BY <1>1, SafeInvariant, PTL

-----------------------------------------------------------------------------
(* A run implements ReleaseGate.                                           *)

\* A step that leaves what the gate shows alone is a stutter of the gate.
LEMMA GateStutters ==
  ASSUME UNCHANGED <<reviewer, packets, approved, answer, result>>,
         reviewer = 0 => Claimed' = Claimed,
         phase' = "done" <=> phase = "done"
  PROVE  UNCHANGED Gate!gateVars
BY DEF Gate!gateVars

\* A step that ends the run without an answer withholds it.
LEMMA GateWithholds ==
  ASSUME TypeInv, phase # "done", result # "answered", phase' = "done",
         result' # "answered", UNCHANGED <<reviewer, approved, contextVars>>,
         reviewer = 0 => packets' = packets,
         reviewer # 0 => packets' \subseteq packets
  PROVE  Gate!Next
<1>1. Claimed' = Claimed /\ Claimed \subseteq Claims
  BY DEF Claimed, contextVars, TypeInv, TypeOK
<1> DEFINE kept == IF reviewer = 0 THEN Claimed ELSE packets'
<1>2. kept \in SUBSET Claims
  BY <1>1 DEF TypeInv, TypeOK
<1>3. Gate!Withhold(kept)
  BY <1>1 DEF Gate!Withhold
<1> QED  BY <1>2, <1>3 DEF Gate!Next

\* The verdict of the review in progress endorses its claims.
LEMMA GateEndorses ==
  ASSUME TypeInv, PhaseInv, ReviewInv, phase = "review",
         NEW reports, NEW kept \in SUBSET working, NEW verdict \in SUBSET kept,
         NEW status, verdict # {}, CloseReview(reports, kept, verdict, status)
  PROVE  Gate!Next
<1>1. /\ reviewer \in Reviewers /\ reviewer # 0 /\ reviewer' # 0
      /\ working \subseteq packets /\ packets \subseteq Claims
      /\ approved[reviewer] = {} /\ result # "answered"
  BY DEF TypeInv, TypeOK, PhaseInv, ReviewInv, CloseReview, EnterReview, Reviewers
<1>2. /\ packets' = kept
      /\ approved' = [approved EXCEPT ![reviewer] = verdict]
      /\ phase' # "done" /\ UNCHANGED <<answer, result>>
  BY DEF CloseReview, EnterReview, endVars
<1>3. {r \in Reviewers : approved'[r] # {}}
        = {r \in Reviewers : approved[r] # {}} \cup {reviewer}
  BY <1>1, <1>2 DEF TypeInv, TypeOK
<1>4. Gate!Endorse(reviewer, verdict, kept)
  BY <1>1, <1>2, <1>3 DEF Gate!Endorse
<1>5. verdict \in SUBSET Claims /\ kept \in SUBSET Claims
  BY <1>1
<1> QED  BY <1>1, <1>4, <1>5 DEF Gate!Next

\* Init of a run is Init of the gate.
LEMMA GateInit == Init => Gate!Init
<1> SUFFICES ASSUME Init PROVE Gate!Init
  OBVIOUS
<1>1. Claimed = {} /\ {r \in Reviewers : approved[r] # {}} = {}
  BY DEF Init, Claimed
<1> QED  BY <1>1 DEF Init, Gate!Init

\* Every step of a run is a step of the gate or leaves it as it stands.
LEMMA GateStep ==
  TypeInv /\ SafeInv /\ [Next]_vars => [Gate!Next]_(Gate!gateVars)
<1> SUFFICES ASSUME TypeInv, SafeInv, [Next]_vars
             PROVE  Gate!Next \/ UNCHANGED Gate!gateVars
  OBVIOUS
<1> USE DEF contextVars, localVars, reviewVars, endVars
<1>1. ContextInv /\ PhaseInv /\ ReleaseInv
  BY DEF SafeInv
<1>2. CASE \/ RefuseRequest \/ AskClarification \/ ContextUnavailable
           \/ ReviewFails \/ SynthesisFails \/ TraceLost
  <2>1. phase' = "done" /\ result' # "answered" /\ reviewer' = reviewer
    BY <1>2, FailuresEnd
  <2>2. phase # "done" /\ UNCHANGED <<contextVars, packets, approved>>
    BY <1>2 DEF RefuseRequest, AskClarification, ContextUnavailable, WaveDone,
                ReviewFails, SynthesisFails, TraceLost
  <2> QED  BY <1>1, <2>1, <2>2, GateWithholds DEF PhaseInv
<1>3. ASSUME NEW rep, ReviewRejects(rep) PROVE Gate!Next
  <2>1. phase' = "done" /\ result' # "answered" /\ reviewer' = reviewer
    BY <1>3, FailuresEnd
  <2>2. /\ phase = "review" /\ reviewer # 0 /\ packets' \subseteq packets
        /\ UNCHANGED <<contextVars, approved>>
    BY <1>1, <1>3 DEF ReviewRejects, Replied, PhaseInv, ReleaseInv, ReviewInv
  <2> QED  BY <1>1, <2>1, <2>2, GateWithholds DEF PhaseInv
<1>4. CASE AcceptPlan \/ NextBatch \/ NextWave
  BY <1>4, GateStutters
  DEF AcceptPlan, NextBatch, NextWave, WaveDone, Claimed
<1>5. ASSUME NEW i \in Contexts,
             StartContext(i) \/ RetryContext(i) \/ ContextFails(i)
      PROVE  UNCHANGED Gate!gateVars
  BY <1>5, GateStutters DEF StartContext, RetryContext, ContextFails, Claimed
<1>6. ASSUME NEW i \in Contexts, NEW claims \in SUBSET Claims,
             ContextDelivers(i, claims)
      PROVE  Gate!Next
  <2>1. /\ phase = "contexts" /\ reviewer = 0 /\ result # "answered"
        /\ \A r \in Reviewers : approved[r] = {}
    BY <1>1, <1>6, AtWork DEF ContextDelivers, PhaseInv
  <2>2. /\ packet' = [packet EXCEPT ![i] = claims] /\ packet[i] = {}
        /\ UNCHANGED <<phase, reviewer, approved, result, answer>>
    BY <1>1, <1>6 DEF ContextDelivers, ContextInv
  <2>3. Claimed' = Claimed \cup claims
    <3>1. Claimed' \subseteq Claimed \cup claims
      BY <2>2 DEF Claimed, TypeInv, TypeOK
    <3>2. ASSUME NEW c \in Claimed PROVE c \in Claimed'
      <4>1. PICK j \in Contexts : c \in packet[j]
        BY DEF Claimed
      <4>2. c \in packet'[j]
        BY <2>2, <4>1 DEF TypeInv, TypeOK
      <4> QED  BY <4>2 DEF Claimed
    <3>3. claims \subseteq Claimed'
      BY <2>2 DEF Claimed, TypeInv, TypeOK
    <3> QED  BY <3>1, <3>2, <3>3
  <2>4. Gate!Gather(claims)
    BY <2>1, <2>2, <2>3 DEF Gate!Gather
  <2> QED  BY <2>4 DEF Gate!Next
<1>7. CASE StartReviews
  <2>1. /\ phase = "contexts" /\ phase' = "review" /\ reviewer = 0
        /\ reviewer' = 1 /\ packets' = Claimed /\ result # "answered"
        /\ UNCHANGED <<approved, answer, result>>
    BY <1>1, <1>7 DEF StartReviews, WaveDone, EnterReview, PhaseInv
  <2> QED  BY <2>1 DEF Gate!gateVars
<1>8. ASSUME NEW rep, ReviewApproves(rep) PROVE Gate!Next
  <2>1. phase = "review" /\ rep.approved = working /\ working # {}
    BY <1>8, ReplyType DEF ReviewApproves
  <2>2. CloseReview(history \cup {rep}, working, rep.approved, "approve")
    BY <1>8 DEF ReviewApproves
  <2>3. working \in SUBSET working /\ rep.approved \in SUBSET working
    BY <2>1
  <2> QED
    BY <1>1, <2>1, <2>2, <2>3, GateEndorses DEF ReleaseInv
<1>9. ASSUME NEW rep, ReviewApprovesSubset(rep) PROVE Gate!Next
  <2> DEFINE approval == [rep EXCEPT !.decision = "approve", !.rejected = {}]
             kept == working \cap rep.approved
  <2>1. /\ phase = "review" /\ rep.approved \subseteq working
        /\ rep.approved # {} /\ rep \in AllReports
    BY <1>9, ReplyType DEF ReviewApprovesSubset
  <2>2. approval.approved = rep.approved
    BY <2>1 DEF AllReports
  <2>3. CloseReview(history \cup {rep, approval}, kept, approval.approved,
                    "approved_subset")
    BY <1>9 DEF ReviewApprovesSubset
  <2>4. kept \in SUBSET working /\ approval.approved \in SUBSET kept
    BY <2>1, <2>2
  <2> HIDE DEF approval, kept
  <2> QED
    BY <1>1, <2>1, <2>2, <2>3, <2>4, GateEndorses DEF ReleaseInv
<1>10. ASSUME NEW rep, AsksRepair(rep) \/ Narrows(rep)
       PROVE  UNCHANGED Gate!gateVars
  BY <1>1, <1>10, GateStutters DEF AsksRepair, Narrows, Replied, Claimed
<1>11. CASE RetryCall \/ Cancel \/ Expire \/ UNCHANGED vars
  BY <1>11, GateStutters DEF RetryCall, Cancel, Expire, vars, Claimed
<1>12. ASSUME NEW cited, Synthesizes(cited) PROVE UNCHANGED Gate!gateVars
  BY <1>1, <1>12 DEF Synthesizes, PhaseInv, Claimed, Gate!gateVars
<1>13. CASE SaveTrace
  <2>1. /\ phase = "saving" /\ phase' = "done" /\ result = "none"
        /\ result' = "answered" /\ reviewer # 0
        /\ UNCHANGED <<reviewer, packets, approved, answer>>
    BY <1>1, <1>13 DEF SaveTrace, PhaseInv
  <2>2. \A r \in Reviewers : approved[r] # {}
    BY <1>1, <2>1 DEF ReleaseInv, VerdictInv, Past
  <2>3. answer \subseteq packets /\ \A r \in Reviewers : answer \subseteq approved[r]
    BY <1>1, <2>1 DEF ReleaseInv, AnswerInv, Offered
  <2>4. Gate!Release(answer)
    BY <2>1, <2>2, <2>3 DEF Gate!Release
  <2> QED  BY <2>4 DEF Gate!Next, TypeInv, TypeOK
<1> QED
  BY <1>2, <1>3, <1>4, <1>5, <1>6, <1>7, <1>8, <1>9, <1>10, <1>11, <1>12, <1>13
  DEF Next, RunStep, ContextStep, WaveStep, ReviewReply, SynthesisStep

\* Whatever the plan, a run keeps every promise of ReleaseGate.
THEOREM RunImplementsReleaseGate == Spec => ImplementsReleaseGate
BY GateInit, GateStep, SafeInvariant, PTL
DEF Spec, ImplementsReleaseGate, Gate!Spec
=============================================================================
