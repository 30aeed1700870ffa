----------------------------- MODULE Orchestrator -----------------------------
(***************************************************************************)
(* One research run of internal/orchestrator/runtime.go: Runtime.Run plans *)
(* the run, fans the context specialists out in waves of goroutines,       *)
(* passes their claims through the mandatory reviewers with at most        *)
(* MaxRepairPasses repair passes each, has one synthesizer write the       *)
(* answer and stores the trace.  The run's context may be cancelled by the *)
(* caller or expire at any moment.                                         *)
(*                                                                         *)
(* A packet is reduced to the claim identifiers it carries and a report to *)
(* the way it classifies them; the prose, the evidence and the numbers     *)
(* attached to a claim follow it and are left out here.                    *)
(***************************************************************************)
EXTENDS Naturals, Sequences, FiniteSets, CritiqueReports

CONSTANTS
  NumContexts,      \* context steps of the plan, in plan order
  NumReviews,       \* review steps of the plan, in plan order
  WaveOf,           \* the wave of each context step
  Limit,            \* min(plan.MaxParallelSpecialists, ContextConcurrency)
  MaxRetries,       \* roles.Role.MaxRetries, 0 or 1
  MaxRepairPasses,  \* plan.MaxRepairPasses, 0 or 1
  Claims,           \* claim identifiers
  ClaimsOf          \* the claims a context step may put in its packet

Contexts  == 1 .. NumContexts
Reviewers == 1 .. NumReviews
Waves     == 1 .. 4

\* ValidateResearchPlan (contracts/validate_research.go) and the role registry.
ASSUME PlanAssumption ==
  /\ NumContexts \in Nat \ {0}
  /\ NumReviews \in Nat \ {0}
  /\ WaveOf \in [Contexts -> Waves]
  /\ Limit \in Nat \ {0}
  /\ MaxRetries \in {0, 1}
  /\ MaxRepairPasses \in {0, 1}
  /\ ClaimsOf \in [Contexts -> SUBSET Claims]

VARIABLES
  phase,      \* where Runtime.Run stands
  ctx,        \* the run's context: live, cancelled by the caller or expired
  wave,       \* the wave runContextWaves is in
  step,       \* what the goroutine of each context step has come to
  packet,     \* claims in the packet of each successful context step
  calls,      \* the specialist call of each context step: see Call
  reviewer,   \* the review step in progress
  pass,       \* its repair pass
  call,       \* the reviewer or synthesizer call in progress: see Call
  working,    \* claims left in runReview's own packets
  history,    \* reports runReview has collected
  packets,    \* claims left in Run's packets
  critiques,  \* reports of the reviews that returned
  approved,   \* ApprovedClaims of each report in Run's approvedCritiques
  answer,     \* claims cited by the answer
  result,     \* "none", "answered" or the failure code of the Result
  stored,     \* did TraceStore.Save succeed
  trace       \* trace.Events, in the order emit appended them

contextVars == <<wave, step, packet, calls>>
localVars   == <<reviewer, pass, call, working, history>>
reviewVars  == <<packets, critiques, approved>>
endVars     == <<answer, result, stored>>
vars == <<phase, ctx, contextVars, localVars, reviewVars, endVars, trace>>

-----------------------------------------------------------------------------
(* Calls, faults and events; reports are those of CritiqueReports.         *)

\* A retry loop's position: the attempt, and whether that attempt was begun
\* under a live context.  One begun under a dead one can only fail: every
\* adapter sends its request with the context it was given.
DetachedCall(n) == [attempt |-> n, began |-> TRUE]   \* mutant of Call
Call(n) == [attempt |-> n, began |-> ctx = "live"]
NoCall == [attempt |-> 0, began |-> FALSE]

\* What an attempt can fail with: its failure code, and whether retryable
\* holds of it (context.DeadlineExceeded is temporary, context.Canceled not).
Faults ==
  {[code |-> "deadline_exceeded", temporary |-> TRUE],
   [code |-> "component_failure", temporary |-> TRUE],
   [code |-> "component_failure", temporary |-> FALSE]}
  \cup (IF ctx = "cancelled"
        THEN {[code |-> "cancelled", temporary |-> FALSE]} ELSE {})

OneRetryTooMany(c, fault) ==                         \* mutant of MayRetry
  fault.temporary /\ c.attempt <= MaxRetries
MayRetry(c, fault) == fault.temporary /\ c.attempt < MaxRetries

\* An event of the trace; kind and index name the plan step it is about.
Ev(kind, index, type, status) ==
  [kind |-> kind, index |-> index, type |-> type, status |-> status]

\* Runtime.fail: emit "run failed", save the trace, return the failure.  A
\* trace that cannot be saved replaces the failure's own code.
Fail(before, kind, index, code) ==
  /\ phase' = "done"
  /\ answer' = {}
  /\ stored' \in BOOLEAN
  /\ result' = IF stored' THEN code ELSE "trace_persistence_failed"
  /\ trace' = trace \o before \o <<Ev(kind, index, "run", "failed")>>

-----------------------------------------------------------------------------
(* Init and the request.                                                   *)

Init ==
  /\ phase = "request"
  /\ ctx = "live"
  /\ wave = 0
  /\ step = [i \in Contexts |-> "pending"]
  /\ packet = [i \in Contexts |-> {}]
  /\ calls = [i \in Contexts |-> NoCall]
  /\ reviewer = 0
  /\ pass = 0
  /\ call = NoCall
  /\ working = {}
  /\ history = {}
  /\ packets = {}
  /\ critiques = {}
  /\ approved = [r \in Reviewers |-> {}]
  /\ answer = {}
  /\ result = "none"
  /\ stored = FALSE
  /\ trace = << >>

\* ValidateResearchRequest refuses the request, or the planner fails.
RefuseRequest ==
  /\ phase = "request"
  /\ \/ Fail(<< >>, "request", 0, "invalid_request")
     \/ Fail(<< >>, "planning", 0, "component_failure")
  /\ UNCHANGED <<ctx, contextVars, localVars, reviewVars>>

AskClarification ==
  /\ phase = "request"
  /\ Fail(<<Ev("interpret-request", 0, "interpretation",
               "clarification_required")>>,
          "interpret-request", 0, "clarification_required")
  /\ UNCHANGED <<ctx, contextVars, localVars, reviewVars>>

-----------------------------------------------------------------------------
(* runContextWaves and runContextWave.                                     *)

InWave(w) == {i \in Contexts : WaveOf[i] = w}
Pending(w) == {i \in InWave(w) : step[i] = "pending"}
Succeeded(w) == {i \in InWave(w) : step[i] = "ok"}
Delivered == {i \in Contexts : step[i] = "ok"}
Claimed == UNION {packet[i] : i \in Contexts}

\* The next Limit steps of the wave, in plan order: one goroutine each.
OneTooMany(w) ==                                     \* mutant of Batch
  {i \in Pending(w) : Cardinality({j \in Pending(w) : j < i}) <= Limit}
Batch(w) ==
  {i \in Pending(w) : Cardinality({j \in Pending(w) : j < i}) < Limit}

\* wait.Wait(): every goroutine of the batch has returned.
NotWaiting == \A i \in Contexts : step[i] # "spawned"  \* mutant of Joined
EarlyReturnUnsignalled ==                            \* mutant of Joined
  \A i \in Contexts : step[i] \notin {"spawned", "calling", "skipped"}
Joined == \A i \in Contexts : step[i] \notin {"spawned", "calling"}

Spawn(batch) ==
  step' = [i \in Contexts |-> IF i \in batch THEN "spawned" ELSE step[i]]

\* The next wave that has steps; waves[wave] is empty for the others.
IsNextWave(w) ==
  /\ w > wave
  /\ InWave(w) # {}
  /\ \A v \in Waves : v > wave /\ v < w => InWave(v) = {}

WaveOutcome(w) ==
  IF Succeeded(w) = {} THEN "failed"
  ELSE IF Succeeded(w) # InWave(w) THEN "degraded" ELSE "completed"

OpenWave(before, w) ==
  /\ IsNextWave(w)
  /\ wave' = w
  /\ Spawn(Batch(w))
  /\ trace' = trace \o before \o <<Ev("wave", w, "wave", "started")>>

\* The plan is accepted, the deadline armed and the first wave opened.
AcceptPlan ==
  /\ phase = "request"
  /\ phase' = "contexts"
  /\ \E w \in Waves :
       OpenWave(<<Ev("interpret-request", 0, "interpretation", "completed"),
                  Ev("build-plan", 0, "planning", "completed"),
                  Ev("", 0, "plan", "accepted")>>, w)
  /\ UNCHANGED <<ctx, packet, calls, localVars, reviewVars, endVars>>

\* The goroutine of step i looks at the context before anything else: on a
\* dead one it reports the failure and leaves no event behind.
StartContext(i) ==
  /\ step[i] = "spawned"
  /\ IF ctx = "live"
     THEN /\ step' = [step EXCEPT ![i] = "calling"]
          /\ calls' = [calls EXCEPT ![i] = Call(0)]
          /\ trace' = Append(trace, Ev("context", i, "context", "started"))
     ELSE /\ step' = [step EXCEPT ![i] = "skipped"]
          /\ UNCHANGED <<calls, trace>>
  /\ UNCHANGED <<phase, ctx, wave, packet, localVars, reviewVars, endVars>>

\* The specialist answered, and its packet passed bindPacketAuthority and
\* validatePacket.
ContextDelivers(i, claims) ==
  /\ step[i] = "calling"
  /\ calls[i].began
  /\ claims \subseteq ClaimsOf[i]
  /\ step' = [step EXCEPT ![i] = "ok"]
  /\ packet' = [packet EXCEPT ![i] = claims]
  /\ calls' = [calls EXCEPT ![i] = NoCall]
  /\ trace' = Append(trace, Ev("context", i, "context", "completed"))
  /\ UNCHANGED <<phase, ctx, wave, localVars, reviewVars, endVars>>

RetryContext(i) ==
  /\ step[i] = "calling"
  /\ \E fault \in Faults : MayRetry(calls[i], fault)
  /\ calls' = [calls EXCEPT ![i] = Call(calls[i].attempt + 1)]
  /\ UNCHANGED <<phase, ctx, wave, step, packet, localVars, reviewVars,
                 endVars, trace>>

ContextFails(i) ==
  /\ step[i] = "calling"
  /\ \E fault \in Faults : ~MayRetry(calls[i], fault)
  /\ step' = [step EXCEPT ![i] = "failed"]
  /\ calls' = [calls EXCEPT ![i] = NoCall]
  /\ trace' = Append(trace, Ev("context", i, "context", "failed"))
  /\ UNCHANGED <<phase, ctx, wave, packet, localVars, reviewVars, endVars>>

\* The batch is joined and the wave has more steps than Limit.
NextBatch ==
  /\ phase = "contexts"
  /\ Joined
  /\ Pending(wave) # {}
  /\ Spawn(Batch(wave))
  /\ UNCHANGED <<phase, ctx, wave, packet, calls, localVars, reviewVars,
                 endVars, trace>>

WaveDone == phase = "contexts" /\ Joined /\ Pending(wave) = {}
WaveEnded == <<Ev("wave", wave, "wave", WaveOutcome(wave))>>
LastWave == ctx # "live" \/ ~\E w \in Waves : IsNextWave(w)

NextWave ==
  /\ WaveDone
  /\ ~LastWave
  /\ \E w \in Waves : OpenWave(WaveEnded, w)
  /\ UNCHANGED <<phase, ctx, packet, calls, localVars, reviewVars, endVars>>

\* No specialist delivered a packet.
ContextUnavailable ==
  /\ WaveDone
  /\ LastWave
  /\ Delivered = {}
  /\ Fail(WaveEnded, "context-wave", 0, "context_unavailable")
  /\ UNCHANGED <<ctx, contextVars, localVars, reviewVars>>

-----------------------------------------------------------------------------
(* runReview, once per review step.                                        *)

\* Entering the review step r with the claims that are left.
EnterReview(r, claims) ==
  /\ phase' = "review"
  /\ reviewer' = r
  /\ pass' = 0
  /\ call' = Call(0)
  /\ working' = claims
  /\ history' = {}

StartReviews ==
  /\ WaveDone
  /\ LastWave
  /\ Delivered # {}
  /\ packets' = Claimed
  /\ EnterReview(1, Claimed)
  /\ trace' = trace \o WaveEnded \o <<Ev("review", 1, "review", "started")>>
  /\ UNCHANGED <<ctx, contextVars, critiques, approved, endVars>>

\* callReviewer and, after the reviews, runSynthesis try again.
RetryCall ==
  /\ phase \in {"review", "synthesis"}
  /\ \E fault \in Faults : MayRetry(call, fault)
  /\ call' = Call(call.attempt + 1)
  /\ UNCHANGED <<phase, ctx, contextVars, reviewer, pass, working, history,
                 reviewVars, endVars, trace>>

\* The reviewer failed for good: the reports of its earlier passes and what
\* they narrowed are dropped with it.
ReviewFails ==
  /\ phase = "review"
  /\ \E fault \in Faults :
       /\ ~MayRetry(call, fault)
       /\ Fail(<< >>, "review", reviewer, fault.code)
  /\ UNCHANGED <<ctx, contextVars, localVars, reviewVars>>

\* A report came back and is valid.  A reviewer asked about no claim at all
\* fails instead.
Replied(rep) ==
  /\ phase = "review"
  /\ call.began
  /\ working # {}
  /\ rep \in Reports(reviewer, pass, working)

FinalPass == pass = MaxRepairPasses
Reviewed(status) == Ev("review", reviewer, "review", status)

NoMoreReviews == FALSE                               \* mutant of MoreReviews
MoreReviews == reviewer < NumReviews

\* The review returns an approving report: the next review, or the synthesis.
CloseReview(reports, kept, verdict, status) ==
  /\ packets' = kept
  /\ critiques' = critiques \cup reports
  /\ approved' = [approved EXCEPT ![reviewer] = verdict]
  /\ IF MoreReviews
     THEN /\ EnterReview(reviewer + 1, kept)
          /\ trace' = trace \o <<Reviewed(status),
                           Ev("review", reviewer + 1, "review", "started")>>
     ELSE /\ phase' = "synthesis"
          /\ call' = Call(0)
          /\ trace' = trace \o <<Reviewed(status),
                           Ev("synthesis", 0, "synthesis", "started")>>
          /\ UNCHANGED <<reviewer, pass, working, history>>
  /\ UNCHANGED <<ctx, contextVars, endVars>>

ReviewApproves(rep) ==
  /\ Replied(rep)
  /\ rep.decision = "approve"
  /\ CloseReview(history \cup {rep}, working, rep.approved, "approve")

\* closeExplicitlyApprovedSubset: on the final pass a report that asks for
\* more work stands for an approval of what it approved, and only that.
ReviewApprovesSubset(rep) ==
  /\ Replied(rep)
  /\ FinalPass
  /\ rep.decision \in {"repair", "narrow"}
  /\ rep.approved # {}
  /\ LET approval == [rep EXCEPT !.decision = "approve", !.rejected = {}]
     IN  CloseReview(history \cup {rep, approval}, working \cap rep.approved,
                     approval.approved, "approved_subset")

AsksRepair(rep) ==
  /\ Replied(rep)
  /\ ~FinalPass
  /\ rep.decision = "repair"
  /\ pass' = pass + 1
  /\ call' = Call(0)
  /\ history' = history \cup {rep}
  /\ trace' = Append(trace, Reviewed("repair_requested"))
  /\ UNCHANGED <<phase, ctx, contextVars, reviewer, working, reviewVars,
                 endVars>>

\* narrowContextPackets: the rejected claims leave the packets.
KeptAnyway(rep) == working                           \* mutant of Narrowed
Narrowed(rep) == working \ rep.rejected

Narrows(rep) ==
  /\ Replied(rep)
  /\ ~FinalPass
  /\ rep.decision = "narrow"
  /\ rep.rejected # {}
  /\ pass' = pass + 1
  /\ call' = Call(0)
  /\ working' = Narrowed(rep)
  /\ history' = history \cup {rep}
  /\ trace' = Append(trace, Reviewed("narrowed"))
  /\ UNCHANGED <<phase, ctx, contextVars, reviewer, reviewVars, endVars>>

\* The review returns without an approval and the run ends there.
RejectedWith(rep) ==
  IF rep.decision = "narrow" /\ ~FinalPass
  THEN "repair_unresolved" ELSE rep.decision

ReviewRejects(rep) ==
  /\ Replied(rep)
  /\ \/ rep.decision = "reject"
     \/ FinalPass /\ rep.decision \in {"repair", "narrow"} /\ rep.approved = {}
     \/ ~FinalPass /\ rep.decision = "narrow" /\ rep.rejected = {}
  /\ packets' = working
  /\ critiques' = critiques \cup history \cup {rep}
  /\ Fail(<<Reviewed(RejectedWith(rep))>>, "review", reviewer,
          "evidence_rejected")
  /\ UNCHANGED <<ctx, contextVars, localVars, approved>>

-----------------------------------------------------------------------------
(* runSynthesis and the end of Run.                                        *)

\* synthesisMaterialForPrompt and authorizeFinalReferences: the claims every
\* critique handed over approves.
Offered == {c \in packets : \A r \in Reviewers : c \in approved[r]}

SynthesisFails ==
  /\ phase = "synthesis"
  /\ \E fault \in Faults :
       /\ ~MayRetry(call, fault)
       /\ Fail(<< >>, "synthesis", 0, fault.code)
  /\ UNCHANGED <<ctx, contextVars, localVars, reviewVars>>

\* The run is announced as completed before its trace is stored.
Synthesizes(cited) ==
  /\ phase = "synthesis"
  /\ call.began
  /\ cited \subseteq Offered
  /\ phase' = "saving"
  /\ answer' = cited
  /\ trace' = trace \o <<Ev("synthesis", 0, "synthesis", "passed"),
                         Ev("synthesis", 0, "run", "completed")>>
  /\ UNCHANGED <<ctx, contextVars, localVars, reviewVars, result, stored>>

SaveTrace ==
  /\ phase = "saving"
  /\ phase' = "done"
  /\ result' = "answered"
  /\ stored' = TRUE
  /\ UNCHANGED <<ctx, contextVars, localVars, reviewVars, answer, trace>>

TraceLost ==
  /\ phase = "saving"
  /\ Fail(<< >>, "trace", 0, "trace_persistence_failed")
  /\ UNCHANGED <<ctx, contextVars, localVars, reviewVars>>

-----------------------------------------------------------------------------
(* The context, and the specification.                                     *)

\* The caller's cancel function, and the plan's deadline.
Cancel ==
  /\ phase # "done"
  /\ ctx = "live"
  /\ ctx' = "cancelled"
  /\ UNCHANGED <<phase, contextVars, localVars, reviewVars, endVars, trace>>

Expire ==
  /\ phase \notin {"request", "done"}
  /\ ctx = "live"
  /\ ctx' = "expired"
  /\ UNCHANGED <<phase, contextVars, localVars, reviewVars, endVars, trace>>

ContextStep(i) ==
  \/ StartContext(i)
  \/ \E claims \in SUBSET Claims : ContextDelivers(i, claims)
  \/ RetryContext(i)
  \/ ContextFails(i)

WaveStep == NextBatch \/ NextWave \/ ContextUnavailable \/ StartReviews

ReviewReply ==
  \E rep \in Reports(reviewer, pass, working) :
    \/ ReviewApproves(rep)
    \/ ReviewApprovesSubset(rep)
    \/ AsksRepair(rep)
    \/ Narrows(rep)
    \/ ReviewRejects(rep)

SynthesisStep ==
  \/ \E cited \in SUBSET Claims : Synthesizes(cited)
  \/ SynthesisFails

RunStep ==
  \/ RefuseRequest \/ AskClarification \/ AcceptPlan
  \/ \E i \in Contexts : ContextStep(i)
  \/ WaveStep
  \/ RetryCall \/ ReviewReply \/ ReviewFails
  \/ SynthesisStep
  \/ SaveTrace \/ TraceLost

Next == RunStep \/ Cancel \/ Expire

Spec == Init /\ [][Next]_vars

\* Every call carries a timeout, so it returns, and every goroutine runs.
FairSpec == Spec /\ WF_vars(RunStep)

-----------------------------------------------------------------------------
(* Properties.                                                             *)

ResultCodes ==
  {"none", "answered", "invalid_request", "clarification_required",
   "component_failure", "deadline_exceeded", "cancelled",
   "context_unavailable", "evidence_rejected", "trace_persistence_failed"}

Positions == [attempt : 0 .. MaxRetries, began : BOOLEAN]
AllReports ==
  [reviewer : Reviewers, pass : 0 .. MaxRepairPasses, decision : Decisions,
   approved : SUBSET Claims, rejected : SUBSET Claims]
Events ==
  [kind : {"", "request", "planning", "interpret-request", "build-plan", "wave",
           "context", "context-wave", "review", "synthesis", "trace"},
   index : Nat,
   type : {"interpretation", "planning", "plan", "wave", "context", "review",
           "synthesis", "run"},
   status : {"accepted", "started", "completed", "degraded", "failed", "passed",
             "clarification_required", "repair_requested", "narrowed",
             "approved_subset", "repair_unresolved"} \cup Decisions]

\* Type invariant.  The attempt and the pass of every retry loop stay within
\* MaxRetries and MaxRepairPasses (callSpecialist, callReviewer,
\* runSynthesis, runReview).
TypeOK ==
  /\ phase \in {"request", "contexts", "review", "synthesis", "saving", "done"}
  /\ ctx \in {"live", "cancelled", "expired"}
  /\ wave \in {0} \cup Waves
  /\ step \in [Contexts -> {"pending", "spawned", "calling", "skipped",
                            "ok", "failed"}]
  /\ packet \in [Contexts -> SUBSET Claims]
  /\ calls \in [Contexts -> Positions]
  /\ reviewer \in {0} \cup Reviewers
  /\ pass \in 0 .. MaxRepairPasses
  /\ call \in Positions
  /\ working \subseteq Claims
  /\ history \subseteq AllReports
  /\ packets \subseteq Claims
  /\ critiques \subseteq AllReports
  /\ approved \in [Reviewers -> SUBSET Claims]
  /\ answer \subseteq Claims
  /\ result \in ResultCodes
  /\ stored \in BOOLEAN
  /\ trace \in Seq(Events)

\* An answer leaves Run only when the last report of every mandatory reviewer
\* is an approval naming each claim the answer cites (Run's check of the
\* final report's decision, and authorizeFinalReferences).
UnanimousRelease ==
  result = "answered" =>
    \A r \in Reviewers : \E rep \in critiques :
      /\ rep.reviewer = r
      /\ rep.decision = "approve"
      /\ answer \subseteq rep.approved
      /\ \A other \in critiques :
           other.reviewer = r => other.pass <= rep.pass

\* A claim that a reviewer struck, by narrowing the packets or by leaving it
\* out of what it approved on its final pass, is never cited afterwards, not
\* even when a later reviewer would have approved it (narrowContextPackets,
\* closeExplicitlyApprovedSubset).
Struck ==
  UNION {rep.rejected : rep \in
    {r \in critiques : r.decision = "narrow" \/ r.pass = MaxRepairPasses}}
StruckNeverCited == result = "answered" => answer \cap Struck = {}

\* When the run announces itself completed every context step has told the
\* world how it ended.  A goroutine that finds the context dead says nothing,
\* and a wave that is never opened says nothing either: what keeps them out of
\* an answered run is only that later model calls cannot succeed.
Announced == \E k \in DOMAIN trace :
               trace[k].type = "run" /\ trace[k].status = "completed"
Told(i) == \E k \in DOMAIN trace :
             /\ trace[k].type = "context"
             /\ trace[k].index = i
             /\ trace[k].status \in {"completed", "failed"}
AnnouncedRunIsResolved == Announced => \A i \in Contexts : Told(i)

\* At most Limit specialists are in flight, and none of a later wave before
\* every step of the earlier waves is over (runContextWaves, runContextWave).
BoundedFanOut ==
  /\ Cardinality({i \in Contexts : step[i] \in {"spawned", "calling"}}) <= Limit
  /\ \A i, j \in Contexts :
       WaveOf[i] < WaveOf[j] /\ step[j] # "pending" =>
         step[i] \notin {"pending", "spawned", "calling"}

\* In the trace, which concurrent goroutines write, each event of a context
\* step lies between the start and the end of its own wave, and a step's
\* outcome follows its start (eventEmitter.emit, wait.Wait).
Before(k, type, index, statuses) ==
  \E j \in 1 .. k - 1 :
    trace[j].type = type /\ trace[j].index = index /\ trace[j].status \in statuses
TraceIsBracketed ==
  \A k \in DOMAIN trace : trace[k].type = "context" =>
    LET i == trace[k].index IN
    /\ Before(k, "wave", WaveOf[i], {"started"})
    /\ ~Before(k, "wave", WaveOf[i], {"completed", "degraded", "failed"})
    /\ ~Before(k, "context", i, {"completed", "failed"})
    /\ trace[k].status # "started" <=> Before(k, "context", i, {"started"})

\* A run whose context dies before the synthesis begins never returns an
\* answer, whichever calls were in flight (cancel of Run's context).
DeadContextNeverAnswers ==
  [](ctx # "live" /\ phase \in {"request", "contexts", "review"}
       => [](result # "answered"))

\* Every run ends: retries, repair passes and waves are all bounded.
Termination == <>(phase = "done")

\* The run implements what ReleaseGate promises.
Gate ==
  INSTANCE ReleaseGate WITH
    gate     <- IF phase # "done" THEN "open"
                ELSE IF result = "answered" THEN "released" ELSE "withheld",
    pool     <- IF reviewer = 0 THEN Claimed ELSE packets,
    heard    <- {r \in Reviewers : approved[r] # {}},
    endorsed <- approved,
    answer   <- IF result = "answered" THEN answer ELSE {}
ImplementsReleaseGate == Gate!Spec
=============================================================================
