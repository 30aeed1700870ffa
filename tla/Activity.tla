-------------------------------- MODULE Activity --------------------------------
(***************************************************************************)
(* What a step of the execution plan says of its own work, the part of     *)
(* internal/executionplan that ExecutionPlan leaves out: attempts, routes  *)
(* and checks.  Three programs write it.  The specialist or reviewer       *)
(* adapter calls its model, with bounded retries; the observer of model    *)
(* calls classifies each from the run record (classifyAttempt) and         *)
(* publishes it; the orchestrator publishes what was retrieved, calculated *)
(* and decided.  With a remote specialist (hybrid) every failure of the    *)
(* remote adapter is followed by the local one, and the orchestrator       *)
(* learns of retrieval and tools only from the packet.                     *)
(*                                                                         *)
(* One step: a context step, a review step, or the tool step that the      *)
(* calculations of a fixture create.  Labels, details and references are   *)
(* left out; a check's identity is the reference it is derived from, and   *)
(* a calculation's is its own record.                                      *)
(***************************************************************************)
EXTENDS Naturals, Sequences, SequencesExt, FiniteSetsExt

CONSTANT Tools        \* the calculations there may be for the step
VARIABLE work

MaxAttempts == 2      \* of a step of the plan

Shown == INSTANCE ExecutionPlan WITH PlanSteps <- {}

--------------------------------------------------------------------------------
\* The step of the plan (projectPlanStep, ensureSyntheticToolStep).
PlannedChecks(kind) ==
  CASE kind = "context" -> {"model-route", "evidence-authority", "context-contract"}
    [] kind = "review" -> {"model-route", "review-contract"}
    [] kind = "tool" -> {}

PlannedStep(kind) ==
  [status |-> "pending", attempt |-> 0, route |-> << >>,
   checks |-> [c \in PlannedChecks(kind) |-> "pending"]]

With(statuses, id, status) ==
  [i \in DOMAIN statuses \cup {id} |-> IF i = id THEN status ELSE statuses[i]]

\* upsertChecklist
Upsert(step, check, status) == [step EXCEPT !.checks = With(@, check, status)]

\* markChecklist: a check the step does not have stays absent.
Mark(step, marks) ==
  [step EXCEPT !.checks = [c \in DOMAIN @ |-> IF c \in DOMAIN marks THEN marks[c] ELSE @[c]]]

StartStep(step) ==
  [step EXCEPT !.status = Shown!StepAfter(@, "context", "started"),
               !.attempt = Min({@ + 1, MaxAttempts})]

--------------------------------------------------------------------------------
\* Model calls: what the run record knows of the step's calls, and the step.  A retry and a
\* repair differ in their labels only.
ClassifyByFailure(calls, route) ==                       \* mutant of Classify
  CASE calls.attempts = 0 -> "primary"
    [] calls.attempts > 0 -> IF calls.failed /\ calls.route # route THEN "fallback" ELSE "again"
Classify(calls, route) ==
  CASE calls.attempts = 0 -> "primary"
    [] calls.attempts > 0 -> IF calls.route # route THEN "fallback" ELSE "again"

\* applyModel; a step that is over ignores it.
ApplyModel(step, attempts, kind, route, ok) ==
  IF Shown!Terminal(step.status) THEN step
  ELSE [Mark(step, [c \in {"model-route"} |-> IF ok THEN "passed" ELSE "degraded"]) EXCEPT
          !.attempt = Min({attempts, MaxAttempts}),
          !.route = IF @ # << >> /\ kind = "fallback" /\ @ # <<route>> THEN Append(@, route)
                    ELSE IF @ = << >> \/ Last(@) # route THEN <<route>>
                    ELSE @]

\* Retrievals: the check is that of the first reference the event has.
BundleFirst(references) ==                               \* mutant of CheckOf
  IF "bundle" \in references THEN "bundle"
  ELSE IF "retrieval" \in references THEN "retrieval" ELSE "packet"
CheckOf(references) ==
  IF "retrieval" \in references THEN "retrieval"
  ELSE IF "bundle" \in references THEN "bundle" ELSE "packet"

ApplyRetrieval(step, references, status) ==
  IF Shown!Terminal(step.status) THEN step ELSE Upsert(step, CheckOf(references), status)

\* Tools: the step that exists only for them takes its status from their checks.
ToolStatuses(step) == {step.checks[c] : c \in DOMAIN step.checks \cap Tools}

PassIfAny(step) ==                                       \* mutant of RefreshToolStep
  [step EXCEPT !.attempt = 1,
               !.status = IF "passed" \in ToolStatuses(step) THEN "passed" ELSE "degraded"]
RefreshToolStep(step) ==
  LET status == Shown!Aggregate(ToolStatuses(step))
  IN  [step EXCEPT !.attempt = 1,
                   !.status = IF status \in {"failed", "unavailable"} THEN "degraded" ELSE status]

ApplyTool(step, kind, tool, status) ==
  LET told == Upsert(step, tool, status)
  IN  IF kind = "tool" THEN RefreshToolStep(told) ELSE told

\* The tools phase: the tool steps, or the checks of the other steps if there is none.
ToolsPhase(step, kind) ==
  IF kind = "tool" THEN step.status
  ELSE IF ToolStatuses(step) = {} THEN "skipped" ELSE Shown!Aggregate(ToolStatuses(step))

\* applyContext and applyReview: what the end of the step makes of its checks.
Passed == [c \in {"model-route", "evidence-authority", "context-contract"} |-> "passed"]
Unavailable == [c \in DOMAIN Passed |-> "unavailable"]
Reviewed(status) ==
  [c \in {"model-route", "review-contract"} |->
     IF c = "model-route" THEN "passed" ELSE Shown!StepAfter("running", "review", status)]

Close(step, type, status, marks) ==
  Mark([step EXCEPT !.status = Shown!StepAfter(@, type, status)], marks)

--------------------------------------------------------------------------------
ActivityInit ==
  \E kind \in {"context", "review", "tool"}, hybrid \in BOOLEAN :
    /\ hybrid => kind = "context"
    /\ work = [kind |-> kind, hybrid |-> hybrid, at |-> "waiting", step |-> PlannedStep(kind),
               calls |-> [attempts |-> 0, route |-> "", failed |-> FALSE],
               attempt |-> 0, pass |-> 0, variant |-> "base", retryable |-> FALSE,
               provider |-> IF hybrid THEN "radeon_api" ELSE "local_rocm",
               made |-> << >>, peak |-> 0, tools |-> << >>]

\* The step as it is shown next, and the highest attempt ever shown.
Show(w, step) == [w EXCEPT !.step = step, !.peak = Max({@, step.attempt})]

Goes(w, at) == work' = [w EXCEPT !.at = at]

\* The adapter loads material; of the local one's retrieval the orchestrator is told.
Open ==
  /\ work.kind \in {"context", "review"}
  /\ work.at = "waiting"
  /\ Goes(Show(work, StartStep(work.step)), IF work.kind = "context" THEN "loading" ELSE "asking")

Observe == work.at = "loading" /\ ~work.hybrid

StartRetrieval ==
  /\ Observe
  /\ Goes(Show(work, ApplyRetrieval(work.step, {"retrieval"}, "running")), "retrieving")

EndRetrieval(status) ==
  /\ work.at = "retrieving"
  /\ LET references == IF status = "failed" THEN {"retrieval"} ELSE {"retrieval", "bundle"}
         told == Show(work, ApplyRetrieval(work.step, references, status))
     IN  \E retryable \in IF status = "failed" THEN BOOLEAN ELSE {FALSE} :
           Goes([told EXCEPT !.retryable = retryable],
                IF status = "failed" THEN "erring" ELSE "asking")

LoadUnobserved ==
  /\ work.at = "loading"
  /\ work.hybrid
  /\ \/ Goes(work, "asking")
     \/ \E retryable \in BOOLEAN : Goes([work EXCEPT !.retryable = retryable], "erring")

\* One call of the model, and what the observer makes of it.
Ask(ok) ==
  /\ work.at = "asking"
  /\ LET kind == Classify(work.calls, work.provider)
         calls == [attempts |-> work.calls.attempts + 1, route |-> work.provider, failed |-> ~ok]
         told == Show(work, ApplyModel(work.step, calls.attempts, kind, work.provider, ok))
     IN  Goes([told EXCEPT !.calls = calls, !.made = Append(@, work.provider)],
              IF ok THEN "answered" ELSE "unanswered")

\* A packet out of the answer, or out of the material alone when there is none to use.
Compose ==
  /\ work.kind = "context"
  /\ \/ work.at = "answered"
     \/ work.at = "unanswered" /\ work.variant = "base"
  /\ Goes(work, "packet")

\* An answer that is cut off, and a review that forgets a claim, are asked for once more.
AskAgain ==
  /\ work.at = "answered"
  /\ \E variant \in {"truncated", "incomplete"} :
       /\ work.variant # variant
       /\ work.variant # "incomplete"
       /\ variant = "incomplete" => work.kind = "review"
       /\ Goes([work EXCEPT !.variant = variant], "asking")

GiveUp ==
  /\ work.at \in {"answered", "unanswered"}
  /\ \E retryable \in BOOLEAN : Goes([work EXCEPT !.retryable = retryable], "erring")

\* After an error: the local adapter for a remote one, the second attempt of a call that
\* may be repeated, or the end of the step (fallbackSpecialist, callSpecialist).
FallBack ==
  /\ work.at = "erring"
  /\ work.provider = "radeon_api"
  /\ Goes([work EXCEPT !.provider = "local_rocm", !.variant = "base"], "loading")

Exhausted == ~work.retryable \/ work.attempt = 1

Retry ==
  /\ work.at = "erring"
  /\ work.provider = "local_rocm"
  /\ ~Exhausted
  /\ Goes([work EXCEPT !.attempt = 1, !.variant = "base",
                       !.provider = IF work.hybrid THEN "radeon_api" ELSE @],
          IF work.kind = "context" THEN "loading" ELSE "asking")

FailContext ==
  /\ work.kind = "context"
  /\ \/ work.at = "erring" /\ work.provider = "local_rocm" /\ Exhausted
     \/ work.at = "packet"                                     \* bindPacketAuthority, validatePacket
  /\ Goes(Show(work, Close(work.step, "context", "failed", Unavailable)), "over")

\* The error of a reviewer ends the run, and with it the step (MarkFailed).
EndReview ==
  /\ work.kind = "review"
  /\ work.at = "erring"
  /\ Exhausted
  /\ Goes(Show(work, [work.step EXCEPT !.status = "failed"]), "over")

\* A packet whose work was not observed tells of it now.
TellPacket ==
  /\ work.at = "packet"
  /\ work.hybrid
  /\ Goes(Show(work, ApplyRetrieval(work.step, {"packet"}, "passed")), "told")

TellTool ==
  /\ work.at = "told"
  /\ \E tool \in Tools \ DOMAIN work.tools :
       Goes([Show(work, ApplyTool(work.step, work.kind, tool, "passed")) EXCEPT
               !.tools = With(@, tool, "passed")], "told")

CompleteContext ==
  /\ work.at = IF work.hybrid THEN "told" ELSE "packet"
  /\ work.kind = "context"
  /\ Goes(Show(work, Close(work.step, "context", "completed", Passed)), "over")

\* The decisions of a review pass (runReview); the one the plan does not know, a repair
\* that is asked for too late, leaves the step as it is until the run has failed.
DecideReview(status) ==
  /\ work.kind = "review"
  /\ work.at = "answered"
  /\ status \in {"repair_requested", "narrowed", "repair_unresolved"} => work.pass = 0
  /\ status \in {"approved_subset", "repair"} => work.pass = 1
  /\ CASE status \in {"repair_requested", "narrowed"} ->
            Goes([Show(work, [work.step EXCEPT !.status = "repairing",
                                               !.attempt = Min({@ + 1, MaxAttempts})])
                    EXCEPT !.pass = 1, !.attempt = 0, !.variant = "base"], "asking")
       [] status = "repair" -> Goes(Show(work, [work.step EXCEPT !.status = "failed"]), "over")
       [] OTHER -> Goes(Show(work, Close(work.step, "review", status, Reviewed(status))), "over")

\* The calculations of a fixture, each on its own record (fixtureCalculationEvents).
Calculate(status) ==
  /\ work.kind = "tool"
  /\ \E tool \in Tools \ DOMAIN work.tools :
       work' = [Show(work, ApplyTool(work.step, "tool", tool, status)) EXCEPT
                  !.tools = With(@, tool, status)]

ActivityNext ==
  \/ Open \/ StartRetrieval \/ LoadUnobserved
  \/ \E status \in {"passed", "degraded", "failed"} : EndRetrieval(status)
  \/ \E ok \in BOOLEAN : Ask(ok)
  \/ Compose \/ AskAgain \/ GiveUp
  \/ FallBack \/ Retry \/ FailContext \/ EndReview
  \/ TellPacket \/ TellTool \/ CompleteContext
  \/ \E status \in {"approve", "reject", "repair_requested", "narrowed", "repair_unresolved",
                    "approved_subset", "repair"} : DecideReview(status)
  \/ \E status \in {"passed", "failed"} : Calculate(status)

ActivitySpec == ActivityInit /\ [][ActivityNext]_work

--------------------------------------------------------------------------------
\* A route that is the way the calls really went: the routes they took, without
\* immediate repetitions.
TellsOf(route, made) ==
  LET changes == {i \in DOMAIN made : i = 1 \/ made[i] # made[i - 1]}
  IN  /\ Len(route) = Cardinality(changes)
      /\ \A i \in changes : route[Cardinality({j \in changes : j <= i})] = made[i]

\* What a step shows is what happened to it, although three programs tell of it: the
\* route is the way its calls went, its attempt never falls behind the calls or goes back,
\* nothing of a step that is over still runs, nothing of one that released something is
\* still to come, and the tools are shown as passed only if each did
\* (classifyAttempt, applyModel, applyRetrieval, applyTool).
ActivityIsTold ==
  LET step == work.step
      statuses == {step.checks[c] : c \in DOMAIN step.checks}
  IN  /\ TellsOf(step.route, work.made)
      /\ step.attempt >= Min({MaxAttempts, Len(work.made)}) /\ step.attempt = work.peak
      /\ work.at = "over" => "running" \notin statuses
      /\ work.at = "over" /\ step.status \in {"passed", "degraded"} => "pending" \notin statuses
      /\ DOMAIN work.tools # {} /\ ToolsPhase(step, work.kind) = "passed"
           => \A tool \in DOMAIN work.tools : work.tools[tool] = "passed"
=============================================================================
