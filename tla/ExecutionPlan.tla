----------------------------- MODULE ExecutionPlan -----------------------------
(***************************************************************************)
(* The projection of a run that clients watch, internal/executionplan:     *)
(* Apply folds one event of the run into the statuses of its steps.  A     *)
(* projection is reduced to its own status, the sequence number of the     *)
(* last event it took and the status of each step; Activity has its        *)
(* attempts, routes, checks and tool steps.  Labels, summaries, references *)
(* and timings are left out.                                               *)
(***************************************************************************)
EXTENDS Naturals, FiniteSetsExt

CONSTANT PlanSteps   \* the steps of the research plan, as <<kind, index>>

Interpret == <<"interpret-request", 0>>
BuildPlan == <<"build-plan", 0>>
Memory    == <<"memory-retention", 0>>
Synthesis == <<"synthesis", 0>>

Statuses == {"pending", "ready", "running", "passed", "failed", "degraded",
             "repairing", "skipped", "cancelled", "withheld", "unavailable"}
Terminal(s) == s \in Statuses \ {"pending", "ready", "running", "repairing"}

Pending ==
  [status |-> "pending", last |-> 0,
   steps |-> [id \in {Interpret, BuildPlan} |->
                IF id = Interpret THEN "running" ELSE "pending"]]

FromPlan ==
  [status |-> "running", last |-> 0,
   steps |-> [id \in PlanSteps \cup {Interpret, BuildPlan} |->
                IF id \in PlanSteps THEN "pending" ELSE "passed"]]

\* The event pairs Apply knows (validEventPair), for the events modelled.
Pairs ==
  [interpretation |-> {"completed", "clarification_required"},
   planning |-> {"completed"},
   plan |-> {"accepted"},
   wave |-> {"started", "completed", "degraded", "failed"},
   context |-> {"started", "completed", "failed"},
   review |-> {"started", "approve", "reject", "repair_requested", "narrowed",
               "approved_subset", "repair_unresolved"},
   synthesis |-> {"started", "passed", "completed"},
   run |-> {"completed", "failed"},
   retention |-> {"not_requested", "requested", "approved", "saved",
                  "unavailable", "failed", "deleted"},
   workspace |-> {"completed", "cancelled", "failed"}]

ForgetsSubset(type, status) ==                       \* mutant of ValidPair
  type \in DOMAIN Pairs /\ status \in Pairs[type] \ {"approved_subset"}
ValidPair(type, status) == type \in DOMAIN Pairs /\ status \in Pairs[type]

\* compatibleTerminalEvent: what a step that is over still takes.
Compatible(s, type, status) ==
  \/ type = "run" /\ status = "failed"
  \/ <<s, type, status>> \in
       {<<"passed", "interpretation", "completed">>,
        <<"passed", "planning", "completed">>,
        <<"passed", "context", "completed">>,
        <<"degraded", "context", "failed">>,
        <<"passed", "review", "approve">>,
        <<"degraded", "review", "approved_subset">>,
        <<"failed", "review", "reject">>,
        <<"failed", "review", "repair_unresolved">>,
        <<"passed", "synthesis", "passed">>,
        <<"passed", "synthesis", "completed">>,
        <<"passed", "run", "completed">>}

\* What applyInterpretation, applyContext, applyReview, applySynthesis and
\* applyRun make of the status of the step an event names.
StepAfter(s, type, status) ==
  CASE status = "started" /\ type \in {"context", "review", "synthesis"} ->
         IF s \in {"pending", "ready", "repairing"} THEN "running" ELSE s
    [] type = "interpretation" /\ status = "clarification_required" -> "withheld"
    [] type = "context" /\ status = "completed" -> "passed"
    [] type = "context" /\ status = "failed" -> "degraded"
    [] type = "review" /\ status \in {"repair_requested", "narrowed"} -> "repairing"
    [] type = "review" /\ status = "approve" -> "passed"
    [] type = "review" /\ status = "approved_subset" -> "degraded"
    [] type = "review" /\ status \in {"reject", "repair_unresolved"} -> "failed"
    [] type = "synthesis" /\ status \in {"passed", "completed"} -> "passed"
    [] type = "run" /\ status = "completed" -> "passed"
    [] OTHER -> s

\* applyRetention: the memory step, whatever its status was.
MemoryAfter ==
  [not_requested |-> "skipped", requested |-> "running", approved |-> "running",
   saved |-> "passed", unavailable |-> "unavailable", failed |-> "degraded",
   deleted |-> "passed"]

\* MarkFailed: the run stops as final; what ran stops with it, and what never
\* ran is unavailable.
StopsEverything(plan, final) ==                      \* mutant of MarkFailed
  [plan EXCEPT !.status = final,
               !.steps = [id \in DOMAIN plan.steps |-> final]]
MarkFailed(plan, final) ==
  [plan EXCEPT
     !.status = final,
     !.steps = [id \in DOMAIN plan.steps |->
                  CASE plan.steps[id] \in {"running", "repairing"} -> final
                    [] plan.steps[id] \in {"pending", "ready"} -> "unavailable"
                    [] OTHER -> plan.steps[id]]]

\* firstBlockingMandatoryStep: every step but the memory step is mandatory.
Unblocked(plan) ==
  \A id \in DOMAIN plan.steps \ {Memory} :
    plan.steps[id] \in {"passed", "degraded"}

\* MarkCompleted returns an error, and the caller keeps its projection, when a
\* step other than the synthesis blocks, or a finished synthesis does.
MarkCompleted(plan) ==
  LET steps == [id \in DOMAIN plan.steps |->
                  IF id = Synthesis /\ ~Terminal(plan.steps[id])
                  THEN "passed" ELSE plan.steps[id]]
      done  == [plan EXCEPT !.status = "passed", !.steps = steps]
  IN  IF Unblocked(done) THEN done ELSE plan

\* applyWorkspace: the terminal event of the run record.
Finish(plan, status) ==
  IF status = "completed"
  THEN IF Unblocked(plan)
       THEN [plan EXCEPT !.status = "passed"]
       ELSE MarkFailed(plan, "failed")
  ELSE MarkFailed(plan, status)

--------------------------------------------------------------------------------
\* The phases clients see are derived from the steps (recalculatePhases): the first of
\* these that one of its steps has.
Precedence == <<"failed", "withheld", "cancelled", "unavailable", "repairing", "running",
                "degraded", "ready", "pending">>

PassedFirst(statuses) ==                             \* mutant of Aggregate
  IF "passed" \in statuses THEN "passed" ELSE CHOOSE s \in statuses : TRUE
Aggregate(statuses) ==
  LET found == {i \in DOMAIN Precedence : Precedence[i] \in statuses}
  IN  CASE found # {} -> Precedence[Min(found)]
        [] found = {} /\ statuses = {"skipped"} -> "skipped"
        [] OTHER -> "passed"

Phases == {"interpretation", "planning", "context", "tools", "review", "synthesis", "memory", "release"}
PhaseOf(id) ==
  CASE id = Interpret -> "interpretation"
    [] id = BuildPlan -> "planning"
    [] id = Memory -> "memory"
    [] OTHER -> id[1]

ReleasePhase(plan) ==
  CASE Terminal(plan.status) -> plan.status
    [] ~Terminal(plan.status) /\ Synthesis \in DOMAIN plan.steps ->
         IF Terminal(plan.steps[Synthesis]) THEN "running" ELSE "pending"
    [] OTHER -> "pending"

PhaseStatus(plan, phase) ==
  LET statuses == {plan.steps[id] : id \in {s \in DOMAIN plan.steps : PhaseOf(s) = phase}}
  IN  CASE phase = "release" -> ReleasePhase(plan)
        [] phase # "release" /\ statuses # {} -> Aggregate(statuses)
        [] OTHER -> IF Terminal(plan.status) THEN "skipped" ELSE "pending"

--------------------------------------------------------------------------------
\* The body of Apply, for an event it accepts.
Effect(plan, id, type, status) ==
  LET known == id \in DOMAIN plan.steps
      stepped == IF known
                 THEN [plan EXCEPT !.steps[id] = StepAfter(@, type, status)]
                 ELSE plan
      over == known /\ Terminal(plan.steps[id])
                    /\ ~Compatible(plan.steps[id], type, status)
  IN  CASE type = "plan" -> [plan EXCEPT !.status = "running"]
        [] type # "plan" /\ over -> plan
        [] type = "retention" /\ ~over ->
             [plan EXCEPT !.steps =
                [i \in DOMAIN plan.steps \cup {Memory} |->
                   IF i = Memory THEN MemoryAfter[status] ELSE plan.steps[i]]]
        [] type = "workspace" /\ ~over -> Finish(plan, status)
        [] type = "run" /\ status = "failed" /\ ~over -> MarkFailed(plan, "failed")
        [] OTHER -> stepped

\* validateStructure, for what a projection is reduced to.  Apply refuses an event that
\* would leave anything else; Accepts does not ask, because no event does (PlanAgrees).
Valid(plan) ==
  /\ plan.status \in Statuses
  /\ \A id \in DOMAIN plan.steps : plan.steps[id] \in Statuses /\ PhaseOf(id) \in Phases
  /\ plan.status = "passed" => Unblocked(plan)

\* Apply takes the next event of a known kind, ignores one it has taken
\* already and returns an error for the rest.
Accepts(plan, sequence, type, status) ==
  \/ sequence <= plan.last
  \/ sequence = plan.last + 1 /\ ValidPair(type, status)

Apply(plan, sequence, id, type, status) ==
  IF sequence <= plan.last THEN plan
  ELSE [Effect(plan, id, type, status) EXCEPT !.last = sequence]
=============================================================================
