------------------------------ MODULE WebClient ------------------------------
(***************************************************************************)
(* The web client following a run (web/src/hooks/useResearchRun.ts and     *)
(* executionPlanReducer.ts) over the server's event stream.  Every         *)
(* callback is one step: an event, a stream error, a timer, the answer to  *)
(* a GET; answers arrive in any order and may fail.                        *)
(***************************************************************************)
EXTENDS RunStream

VARIABLES
  view,   \* the run state of the hook: [run, ended], run 0 for null
  exec,   \* the reducer's state: run, plan (its run and last_sequence),
          \* observed, need (refreshNeeded), connection
  timer,  \* the run executionRefreshTimer will fetch the plan of, or 0
  asks,   \* GETs in flight: [kind, run, since], since the events the run
          \* had when the GET was sent
  posted, \* the run a POST has created and not yet returned, or 0
  overtaken \* an answer about an earlier run closed the stream (history)

clientVars == <<view, exec, timer, asks, posted, overtaken>>
vars == <<published, stream, breaks, clientVars>>

SavedCase == MaxRuns + 1   \* the run of a case opened from the store

TypeOK ==
  /\ StreamTypeOK
  /\ view \in [run : 0 .. MaxRuns, ended : BOOLEAN]
  /\ exec \in [run : 0 .. SavedCase, planRun : 0 .. SavedCase, plan : 0 .. Last,
               observed : 0 .. Last, need : BOOLEAN,
               connection : {"idle", "live", "recovering", "unavailable"}]
  /\ timer \in 0 .. SavedCase
  /\ asks \subseteq [kind : {"run", "plan"}, run : Runs, since : 0 .. Last]
  /\ posted \in 0 .. MaxRuns
  /\ overtaken \in BOOLEAN

Init ==
  /\ StreamInit
  /\ view = [run |-> 0, ended |-> FALSE]
  /\ exec = [run |-> 0, planRun |-> 0, plan |-> 0, observed |-> 0,
             need |-> FALSE, connection |-> "idle"]
  /\ timer = 0 /\ asks = {} /\ posted = 0 /\ overtaken = FALSE

-----------------------------------------------------------------------------
(* executionPlanReducer.                                                   *)

Reset(r, last) == [run |-> r, planRun |-> r, plan |-> last, observed |-> last,
                   need |-> FALSE, connection |-> "live"]

Foreign(state, r) == state.run # 0 /\ r # state.run

SnapshotOfAnyRun(state, r, last) ==                 \* mutant of Snapshot
  LET observed == Max({state.observed, last})
  IN  [state EXCEPT !.planRun = r, !.plan = last, !.observed = observed,
                    !.need = last < observed]
SnapshotOfAnyAge(state, r, last) ==                 \* mutant of Snapshot
  LET observed == Max({state.observed, last})
  IN  IF Foreign(state, r) THEN state
      ELSE [state EXCEPT !.run = r, !.planRun = r, !.plan = last,
                         !.observed = observed, !.need = last < observed]
SnapshotSettles(state, r, last) ==                  \* mutant of Snapshot
  IF Foreign(state, r) \/ (state.planRun = r /\ last < state.plan) THEN state
  ELSE [state EXCEPT !.run = r, !.planRun = r, !.plan = last, !.need = FALSE]
Snapshot(state, r, last) ==
  LET observed == Max({state.observed, last})
      need == last < observed
  IN  IF Foreign(state, r) \/ (state.planRun = r /\ last < state.plan) THEN state
      ELSE [run |-> r, planRun |-> r, plan |-> last, observed |-> observed,
            need |-> need, connection |-> IF need THEN "recovering" ELSE "live"]

Observe(state, r, n) ==
  IF Foreign(state, r) \/ n <= state.observed THEN state
  ELSE [state EXCEPT !.run = r, !.observed = n, !.need = TRUE,
                     !.connection = IF n = state.observed + 1 THEN "live"
                                    ELSE "recovering"]

Unavailable(state, r) ==
  IF Foreign(state, r) THEN state
  ELSE [state EXCEPT !.run = r, !.need = TRUE, !.connection = "unavailable"]

\* dispatchExecution, and the effect that re-arms the timer when what it
\* depends on has changed.
Watches(state) == <<state.need, state.run, state.observed, state.plan>>
Dispatch(state) ==
  /\ exec' = state
  /\ timer' = IF Watches(state) = Watches(exec) THEN timer
              ELSE IF state.need THEN state.run ELSE 0

-----------------------------------------------------------------------------
(* useResearchRun.                                                         *)

Ask(kind, r) == [kind |-> kind, run |-> r, since |-> published[r]]

\* What the server may have read under its lock (snapshotRunView,
\* handleExecutionPlan) between the request and the arrival of its answer.
Answers(ask) == ask.since .. published[ask.run]

\* start or askFollowUp: the buttons are disabled while a run is shown as
\* running.  The POST creates the run...
Post(r) ==
  /\ view.run = 0 \/ view.ended
  /\ posted = 0
  /\ NewRun(r)
  /\ posted' = r
  /\ UNCHANGED <<stream, breaks, view, exec, timer, asks, overtaken>>

\* ...and its answer, with the plan as created, makes the client follow it.
Follow ==
  /\ posted # 0
  /\ view' = [run |-> posted, ended |-> FALSE]
  /\ Dispatch(Reset(posted, 0))
  /\ stream' = Opened(posted)
  /\ posted' = 0
  /\ UNCHANGED <<serverVars, asks, overtaken>>

\* loadProjection shows a stored case instead.
OpenCase ==
  /\ exec.run # SavedCase
  /\ view' = [run |-> 0, ended |-> FALSE]
  /\ Dispatch(Reset(SavedCase, Last))
  /\ stream' = Closed
  /\ UNCHANGED <<serverVars, asks, posted, overtaken>>

\* A progress event; the terminal one makes the client read the run.
Deliver ==
  /\ Sendable
  /\ stream' = Sent
  /\ Dispatch(Observe(exec, stream.run, NextEvent))
  /\ asks' = IF NextEvent = Last THEN asks \cup {Ask("run", stream.run)} ELSE asks
  /\ UNCHANGED <<serverVars, view, posted, overtaken>>

\* The connection ends, because the handler returned or because it broke:
\* the browser reconnects by itself, and onerror reads the run.
GiveUpStream ==                                     \* mutant of StreamError
  /\ HandlerReturns
  /\ stream' = Closed
  /\ Dispatch(Unavailable(exec, stream.run))
  /\ UNCHANGED <<serverVars, view, asks, posted, overtaken>>
StreamError ==
  /\ \/ HandlerReturns /\ UNCHANGED breaks
     \/ /\ stream.state # "closed" /\ breaks < MaxBreaks
        /\ breaks' = breaks + 1
  /\ stream' = [stream EXCEPT !.state = "connecting", !.due = {}, !.channel = {},
                              !.subscribed = FALSE]
  /\ Dispatch(Unavailable(exec, stream.run))
  /\ asks' = asks \cup {Ask("run", stream.run)}
  /\ UNCHANGED <<published, view, posted, overtaken>>

\* The timer fetches the signed plan.
FetchPlan ==
  /\ timer # 0
  /\ asks' = asks \cup {Ask("plan", timer)}
  /\ timer' = 0
  /\ UNCHANGED <<serverVars, stream, view, exec, posted, overtaken>>

\* refresh: whatever run the answer is about is shown, and an ended one
\* closes whatever stream is current.
RunAnswered(ask) ==
  /\ ask \in asks /\ ask.kind = "run"
  /\ asks' = asks \ {ask}
  /\ \E n \in Answers(ask) :
       /\ view' = [run |-> ask.run, ended |-> n = Last]
       /\ Dispatch(Snapshot(exec, ask.run, n))
       /\ stream' = IF n = Last THEN Closed ELSE stream
       /\ overtaken' = (overtaken \/ (n = Last /\ stream.run \notin {0, ask.run}))
  /\ UNCHANGED <<serverVars, posted>>

PlanAnswered(ask) ==
  /\ ask \in asks /\ ask.kind = "plan"
  /\ asks' = asks \ {ask}
  /\ \E n \in Answers(ask) : Dispatch(Snapshot(exec, ask.run, n))
  /\ UNCHANGED <<serverVars, stream, view, posted, overtaken>>

\* A GET that fails: refresh shows an error, the plan becomes unavailable.
\* Failures share the bound of the broken connections.
AskFails(ask) ==
  /\ ask \in asks /\ breaks < MaxBreaks
  /\ breaks' = breaks + 1
  /\ asks' = asks \ {ask}
  /\ IF ask.kind = "plan" THEN Dispatch(Unavailable(exec, ask.run))
     ELSE UNCHANGED <<exec, timer>>
  /\ UNCHANGED <<published, stream, view, posted, overtaken>>

Server ==
  \/ (\E r \in Runs : Publish(r)) /\ UNCHANGED clientVars
  \/ Connect /\ UNCHANGED clientVars

Client ==
  \/ Follow \/ Deliver \/ FetchPlan
  \/ \E ask \in asks : RunAnswered(ask) \/ PlanAnswered(ask)
  \/ StreamError

User == OpenCase \/ \E r \in Runs : Post(r)

Network == \E ask \in asks : AskFails(ask)

Next == Server \/ Client \/ User \/ Network

Fairness ==
  /\ \A r \in Runs : WF_vars(Publish(r) /\ UNCHANGED clientVars)
  /\ WF_vars(Connect /\ UNCHANGED clientVars)
  /\ WF_vars(Follow) /\ WF_vars(Deliver) /\ WF_vars(FetchPlan)
  /\ WF_vars(HandlerReturns /\ StreamError)
  /\ \A kind \in {"run", "plan"}, r \in Runs :
       WF_vars(\E ask \in asks : ask.kind = kind /\ ask.run = r
                                  /\ (RunAnswered(ask) \/ PlanAnswered(ask)))

Spec == Init /\ [][Next]_vars /\ Fairness

-----------------------------------------------------------------------------
(* Properties.                                                             *)

\* A client with nothing left to fetch shows a plan at least as new as the
\* last event it saw: gaps and failed fetches keep it asking.
QuietMeansCurrent == ~exec.need => exec.plan >= exec.observed

\* The plan shown is the plan of the run the reducer follows, whatever answers
\* of earlier runs still arrive, and it never goes back, although the answers
\* to two kinds of requests arrive in any order (executionReducer).
PlanFollowsRun ==
  [][/\ exec'.planRun = exec'.run
     /\ exec'.run = exec.run => exec'.plan >= exec.plan]_vars

\* A client that keeps following a run that ended comes to show its final
\* plan and that it is over, through lost events, broken connections and
\* failed requests; unless its channel lost the terminal event or the late
\* answer about an earlier run closed its stream.
ClientLearnsTheEnd ==
  \A r \in Runs :
    (stream.run = r /\ RunEnded(r)) ~>
      \/ exec.plan = Last /\ view = [run |-> r, ended |-> TRUE]
      \/ exec.run # r \/ Starved \/ overtaken
=============================================================================
