-------------------------------- MODULE LiveRun --------------------------------
(***************************************************************************)
(* A live run as the workspace server keeps it (internal/workspace):       *)
(* executeLive admits the run and drives the orchestrator; every event of  *)
(* its trace is published at once, under the server's lock, into the       *)
(* execution plan clients see; complete or fail then end the run record,   *)
(* saving the case when the user asked for it, while another request may   *)
(* be deleting that case.                                                  *)
(***************************************************************************)
EXTENDS Orchestrator

CONSTANTS Retain,          \* did the request ask for the case to be kept
          StoreAvailable   \* is a case store configured

ASSUME RetentionAssumption == Retain \in BOOLEAN /\ StoreAvailable \in BOOLEAN

VARIABLES
  stage,      \* where executeLive stands
  record,     \* runRecord: execution, nextSequence, retentionSet, and the
              \* events publish has refused
  status,     \* view.Status
  retention,  \* view.Retention.Status
  saved,      \* complete's local retention result
  kept,       \* is the case in the store
  deletion    \* where a request deleting the case stands

caseVars == <<saved, kept, deletion>>
liveVars == <<vars, stage, record, status, retention, caseVars>>

Plan == INSTANCE ExecutionPlan WITH
  PlanSteps <- {<<"context", i>> : i \in Contexts}
               \cup {<<"review", r>> : r \in Reviewers}
               \cup {<<"synthesis", 0>>}

-----------------------------------------------------------------------------
(* The run record.                                                         *)

\* publish: the next sequence number is used up only if the plan takes the
\* event.
Publish(rec, event) ==
  LET next == rec.nextSequence + 1
  IN  IF Plan!Accepts(rec.execution, next, event.type, event.status)
      THEN [rec EXCEPT
              !.nextSequence = next,
              !.execution = Plan!Apply(@, next, <<event.kind, event.index>>,
                                       event.type, event.status)]
      ELSE [rec EXCEPT !.refused = @ \cup {event}]

PublishAll(rec, events) ==
  LET after[n \in 0 .. Len(events)] ==
        IF n = 0 THEN rec ELSE Publish(after[n - 1], events[n])
  IN  after[Len(events)]

Retention(what) == Ev("", 0, "retention", what)

RetentionEvents ==
  IF ~Retain THEN <<Retention("not_requested")>>
  ELSE <<Retention("requested"),
         Retention(IF StoreAvailable THEN "approved" ELSE "unavailable")>>

InitializeRetention(rec) ==
  IF rec.retentionSet THEN rec
  ELSE PublishAll([rec EXCEPT !.retentionSet = TRUE], RetentionEvents)

\* runSink.AcceptPlan: the plan's own projection replaces the pending one.
AdoptTooLate(rec) ==                                 \* mutant of Adopt
  [InitializeRetention(rec) EXCEPT !.execution = Plan!FromPlan]
Adopt(rec) == InitializeRetention([rec EXCEPT !.execution = Plan!FromPlan])

RetentionInitialStatus ==
  IF ~Retain THEN "not_requested"
  ELSE IF StoreAvailable THEN "pending" ELSE "unavailable"

\* newRun.
LiveInit ==
  /\ Init
  /\ stage = "queued"
  /\ record = [execution |-> Plan!Pending, nextSequence |-> 0,
               retentionSet |-> FALSE, refused |-> {}]
  /\ status = "running"
  /\ retention = RetentionInitialStatus
  /\ saved = "none"
  /\ kept = FALSE
  /\ deletion = "none"

\* The terminal event and the read model change under one lock, and only if
\* the plan takes the event; terminalOnce leaves no second chance.
Terminate(rec, outcome, shown) ==
  LET ended == Publish(rec, Ev("", 0, "workspace", outcome))
      taken == ended.nextSequence # rec.nextSequence
  IN  /\ stage' = "ended"
      /\ record' = ended
      /\ status' = IF taken THEN outcome ELSE status
      /\ retention' = IF taken THEN shown ELSE retention

-----------------------------------------------------------------------------
(* executeLive.                                                            *)

\* A slot is free, the breaker allows and the request can be prepared.
Admit ==
  /\ stage = "queued"
  /\ stage' = "running"
  /\ UNCHANGED <<vars, record, status, retention, caseVars>>

\* The queue timed out, the breaker is open, the request is out of scope or
\* the run cannot be set up; or the caller cancelled a waiting run.
Refuse ==
  /\ stage = "queued"
  /\ \E outcome \in {"failed"} \cup
                    (IF ctx = "cancelled" THEN {"cancelled"} ELSE {}) :
       Terminate(InitializeRetention(record), outcome, retention)
  /\ UNCHANGED <<vars, caseVars>>

\* One step of Runtime.Run; runSink takes the events it emits.
Emitted == SubSeq(trace', Len(trace) + 1, Len(trace'))

Execute ==
  /\ stage = "running"
  /\ RunStep
  /\ record' = PublishAll(IF phase = "request" /\ phase' = "contexts"
                          THEN Adopt(record) ELSE record, Emitted)
  /\ UNCHANGED <<stage, status, retention, caseVars>>

ContextDies ==
  /\ stage \in {"queued", "running"}
  /\ Cancel \/ Expire
  /\ UNCHANGED <<stage, record, status, retention, caseVars>>

\* The result is a failure, or the answer cannot be projected (Project).
FailRun ==
  /\ stage = "running"
  /\ phase = "done"
  /\ Terminate(InitializeRetention(record), "failed", retention)
  /\ UNCHANGED <<vars, caseVars>>

Keeping == Retain /\ StoreAvailable

\* complete, up to CaseStore.Save.
KeepCase ==
  /\ stage = "running"
  /\ phase = "done"
  /\ result = "answered"
  /\ stage' = "committing"
  /\ record' = [record EXCEPT !.execution = Plan!MarkCompleted(@)]
  /\ IF Keeping
     THEN \E ok \in BOOLEAN : kept' = ok /\ saved' = IF ok THEN "saved" ELSE "failed"
     ELSE saved' = RetentionInitialStatus /\ UNCHANGED kept
  /\ UNCHANGED <<vars, status, retention, deletion>>

\* complete, after CaseStore.Save.
CommitRun ==
  /\ stage = "committing"
  /\ Terminate(IF Keeping THEN Publish(record, Retention(saved)) ELSE record,
               "completed", saved)
  /\ UNCHANGED <<vars, caseVars>>

-----------------------------------------------------------------------------
(* handleDeleteCase, for the case of this run.                             *)

DeleteCase ==
  /\ deletion = "none"
  /\ kept
  /\ kept' = FALSE
  /\ deletion' = "removed"
  /\ UNCHANGED <<vars, stage, record, status, retention, saved>>

\* markCaseDeleted looks for the run whose view carries the case.
MarkCaseDeleted ==
  /\ deletion = "removed"
  /\ IF retention = "saved"
     THEN /\ record' = Publish(record, Retention("deleted"))
          /\ deletion' = "published"
     ELSE /\ deletion' = "answered"
          /\ UNCHANGED record
  /\ UNCHANGED <<vars, stage, status, retention, saved, kept>>

ShowDeleted ==
  /\ deletion = "published"
  /\ deletion' = "answered"
  /\ retention' = "deleted"
  /\ UNCHANGED <<vars, stage, record, status, saved, kept>>

ServerStep ==
  \/ Admit \/ Refuse \/ Execute
  \/ FailRun \/ KeepCase \/ CommitRun
  \/ MarkCaseDeleted \/ ShowDeleted

LiveNext == ServerStep \/ ContextDies \/ DeleteCase

LiveSpec == LiveInit /\ [][LiveNext]_liveVars /\ WF_liveVars(ServerStep)

-----------------------------------------------------------------------------
(* Properties.                                                             *)

Steps == record.execution.steps

\* What clients are told of the run and what the signed plan says agree once
\* the run is over: in particular a run shown as completed never carries a
\* plan that stopped on an unfinished mandatory step (publishWithCommit,
\* applyWorkspace).
ViewMatchesPlan ==
  /\ status = "completed" => record.execution.status = "passed"
  /\ status = "failed" => record.execution.status = "failed"
  /\ status = "cancelled" => record.execution.status = "cancelled"

\* While the orchestrator works, the plan shows each context and review step
\* as it really stands, although goroutines write it concurrently and a step
\* that is over absorbs what comes late (Apply).
ContextShown ==
  [pending |-> "pending", spawned |-> "pending", skipped |-> "pending",
   calling |-> "running", ok |-> "passed", failed |-> "degraded"]
PlanMirrorsRun ==
  phase \notin {"request", "done"} =>
    /\ \A i \in Contexts : Steps[<<"context", i>>] = ContextShown[step[i]]
    /\ \A r \in Reviewers :
         Steps[<<"review", r>>] \in
           IF approved[r] # {} THEN {"passed", "degraded"}
           ELSE IF r = reviewer THEN {"running", "repairing"}
           ELSE {"pending"}

\* The phases derived from the steps: one is shown as passed only when all its steps are
\* over, as degraded never while one works (one may still wait), and once the run is over
\* no phase works or waits; a run shown as completed then passed or degraded in every
\* phase it had to (recalculatePhases, aggregateStatuses, releasePhaseState).  No event
\* ever leaves a projection that validateStructure would refuse.
PhasesFollowSteps ==
  LET plan == record.execution
      Phase(p) == Plan!PhaseStatus(plan, p)
  IN  /\ Plan!Valid(plan)
      /\ \A id \in DOMAIN Steps :
           /\ Phase(Plan!PhaseOf(id)) = "passed" => Plan!Terminal(Steps[id])
           /\ Phase(Plan!PhaseOf(id)) = "degraded" => Steps[id] \notin {"running", "repairing"}
      /\ status # "running" => \A p \in Plan!Phases : Plan!Terminal(Phase(p))
      /\ status = "completed" =>
           \A p \in Plan!Phases \ {"tools", "memory"} : Phase(p) \in {"passed", "degraded"}

\* The three together: the plan agrees with the run while it works, with what clients are
\* told of it once it is over, and with itself (applyWorkspace, publishWithCommit).
PlanAgrees == PlanMirrorsRun /\ ViewMatchesPlan /\ PhasesFollowSteps

\* The plan and the stream count the same events; a plan adopted after events
\* were numbered would refuse everything that follows (AcceptPlan, Apply).
PlanKeepsPace == record.execution.last = record.nextSequence

\* A step that is over keeps its status, whatever is published afterwards;
\* only the memory step may turn, from what was asked to what was done.
SettledStepsStay ==
  [][\A id \in DOMAIN Steps \ {Plan!Memory} :
       Plan!Terminal(Steps[id]) => Steps'[id] = Steps[id]]_liveVars

\* Every run record reaches a terminal status: its terminal event, published
\* once, is never refused (terminalOnce, publishWithCommit).
RunIsReported == <>(status # "running")

\* plan.go says of an event it does not know that it remains visible in the
\* stream; an event the run emits is then never lost to its clients.
EventsRemainVisible == record.refused = {}

\* After a successful DELETE the run shows its case as deleted, as the
\* lifecycle test of the server expects.
DeletedCaseIsShown == deletion = "answered" => retention # "saved"
=============================================================================
