------------------------------ MODULE Workspace ------------------------------
(***************************************************************************)
(* The workspace server over many runs (internal/workspace/server.go):     *)
(* requests create runs, follow up on them, cancel them and watch them; a  *)
(* goroutine per run waits for one of the live slots, passes the circuit   *)
(* breaker (internal/resilience) and executes; ended runs are evicted from *)
(* a bounded window, oldest first.  What one run does while it executes is *)
(* LiveRun's business: here it returns an answer, a failure receipt or an  *)
(* error.                                                                  *)
(***************************************************************************)
EXTENDS Integers, FiniteSets

CONSTANTS MaxRuns,     \* bound: how many runs are created
          MaxReaders,  \* bound: how many runs are read at a time
          MaxStored,   \* maximumStoredRuns
          Slots,       \* LiveRunConcurrency
          Threshold,   \* NewBreaker: failures that open the breaker
          Cooldown,    \* NewBreaker: how long it stays open
          MaxTime      \* bound on the clock of the model

ASSUME WorkspaceAssumption ==
  /\ MaxStored \in Nat /\ Slots \in Nat \ {0} /\ Threshold \in Nat \ {0}
  /\ Cooldown \in Nat \ {0} /\ MaxTime \in Nat
  /\ MaxRuns \in Nat /\ MaxReaders \in Nat

\* Runs in the order of their creation; 0 is no run.
Runs == 1 .. MaxRuns

VARIABLES
  mode,      \* "live" or "fixture"
  stage,     \* where the goroutine of each run stands
  status,    \* view.Status, "none" before newRun
  outcome,   \* the status complete or fail is about to publish
  stored,    \* server.runs
  parent,    \* parentRunID
  asked,     \* runs whose cancel function was called
  watched,   \* runs with a subscriber
  asking,    \* parents a follow-up request has read and not yet used
  holders,   \* runs holding a token of liveRuns
  breaker,   \* failures and openUntil (0: the zero time)
  now,
  spared,    \* runs the last eviction had to keep (history)
  streak     \* model failures since the last answer (history)

requestVars == <<mode, parent, asking>>
viewVars == <<status, outcome>>
slotVars == <<holders, breaker, now, streak>>
windowVars == <<stored, spared>>
vars == <<requestVars, viewVars, stage, asked, watched, slotVars, windowVars>>

Stages == {"absent", "created", "rejected", "queued", "admitted", "working",
           "ending", "sweeping", "over"}

Ended == {"completed", "failed", "cancelled"}

TypeOK ==
  /\ mode \in {"live", "fixture"}
  /\ stage \in [Runs -> Stages]
  /\ status \in [Runs -> {"none", "running"} \cup Ended]
  /\ outcome \in [Runs -> {"none"} \cup Ended]
  /\ stored \subseteq Runs /\ asked \subseteq Runs
  /\ watched \subseteq Runs /\ asking \subseteq Runs /\ holders \subseteq Runs
  /\ parent \in [Runs -> {0} \cup Runs]
  /\ breaker \in [failures : Nat, openUntil : Nat]
  /\ now \in 0 .. MaxTime /\ streak \in Nat /\ spared \subseteq Runs

Init ==
  /\ mode \in {"live", "fixture"}
  /\ stage = [r \in Runs |-> "absent"]
  /\ status = [r \in Runs |-> "none"]
  /\ outcome = [r \in Runs |-> "none"]
  /\ stored = {} /\ asked = {}
  /\ watched = {} /\ asking = {} /\ holders = {}
  /\ parent = [r \in Runs |-> 0]
  /\ breaker = [failures |-> 0, openUntil |-> 0]
  /\ now = 0 /\ streak = 0 /\ spared = {}

-----------------------------------------------------------------------------
(* The window of runs.                                                     *)

Evictable(r) == status[r] # "running" /\ r \notin watched

\* How many of the runs that may go are at least as old as r.
Rank(window, r) == Cardinality({s \in window : Evictable(s) /\ s <= r})

\* evictCompletedRunsLocked walks runOrder, oldest first, and drops what it
\* may until the window, with the run that enters it, fits.
EvictAnything(window, entering) ==                  \* mutant of Evict
  {r \in window : Cardinality({s \in window : s <= r})
                    > Cardinality(window \cup entering) - MaxStored}
EvictNewest(window, entering) ==                    \* mutant of Evict
  {r \in window :
     \/ ~Evictable(r)
     \/ Cardinality({s \in window : Evictable(s) /\ s >= r})
          > Cardinality(window \cup entering) - MaxStored}
EvictLate(window, entering) ==                      \* mutant of Evict
  {r \in window : \/ ~Evictable(r)
                  \/ Rank(window, r) > Cardinality(window) - MaxStored}
Evict(window, entering) ==
  {r \in window : \/ ~Evictable(r)
                  \/ Rank(window, r) > Cardinality(window \cup entering) - MaxStored}

\* What an eviction had to keep, when the window still does not fit.
Spared(window, entering) ==
  IF Cardinality(Evict(window, entering) \cup entering) > MaxStored
  THEN {s \in window : ~Evictable(s)} \cup entering ELSE {}

\* newRun: a record in the running state enters the window.
NewRun(r, p) ==
  /\ stage[r] = "absent" /\ \A s \in 1 .. r - 1 : stage[s] # "absent"
  /\ status' = [status EXCEPT ![r] = "running"]
  /\ parent' = [parent EXCEPT ![r] = p]
  /\ stored' = Evict(stored, {r}) \cup {r}
  /\ spared' = Spared(stored, {r})

-----------------------------------------------------------------------------
(* Requests.                                                               *)

\* handleCreateRun.
CreateRun(r) ==
  /\ NewRun(r, 0)
  /\ stage' = [stage EXCEPT ![r] = IF mode = "live" THEN "created" ELSE "working"]
  /\ UNCHANGED <<mode, asking, outcome, asked, watched, slotVars>>

\* handleFollowUp reads the parent under the lock (a completed live run has
\* its report)...
ReadAnyParent(p) ==                                 \* mutant of ReadParent
  /\ mode = "live"
  /\ p \in stored
  /\ asking' = asking \cup {p}
  /\ UNCHANGED <<mode, parent, viewVars, stage, asked, watched, slotVars,
                 windowVars>>
ReadParent(p) ==
  /\ mode = "live"
  /\ p \in stored /\ status[p] = "completed"
  /\ asking' = asking \cup {p}
  /\ UNCHANGED <<mode, parent, viewVars, stage, asked, watched, slotVars,
                 windowVars>>

\* ...and creates the child later; a question that does not parse fails the
\* child, which never gets a goroutine.
FollowUp(r, p) ==
  /\ p \in asking
  /\ NewRun(r, p)
  /\ asking' = asking \ {p}
  /\ \E next \in {"created", "rejected"} : stage' = [stage EXCEPT ![r] = next]
  /\ UNCHANGED <<mode, outcome, asked, watched, slotVars>>

\* handleCancelRun: there is nothing to call before executeLive installs its
\* cancel function, nor in fixture mode.
CancelRun(r) ==
  /\ r \in stored /\ mode = "live"
  /\ status[r] = "running" /\ stage[r] \notin {"created", "rejected"}
  /\ asked' = asked \cup {r}
  /\ UNCHANGED <<requestVars, viewVars, stage, watched, slotVars, windowVars>>

\* handleEvents subscribes to a running run; the reader may leave any time.
Watch(r) ==
  /\ r \in stored /\ status[r] = "running"
  /\ Cardinality(watched) < MaxReaders
  /\ watched' = watched \cup {r}
  /\ UNCHANGED <<requestVars, viewVars, stage, asked, slotVars, windowVars>>

Unwatch(r) ==
  /\ r \in watched
  /\ watched' = watched \ {r}
  /\ UNCHANGED <<requestVars, viewVars, stage, asked, slotVars, windowVars>>

-----------------------------------------------------------------------------
(* executeLive.                                                            *)

Goto(r, next) == stage' = [stage EXCEPT ![r] = next]

Ending(r, how) ==
  /\ Goto(r, "ending")
  /\ outcome' = [outcome EXCEPT ![r] = how]

\* The cancel function is installed.
Start(r) ==
  /\ stage[r] = "created"
  /\ Goto(r, "queued")
  /\ UNCHANGED <<requestVars, viewVars, asked, watched, slotVars, windowVars>>

\* acquireLiveRun: select may take the token of a run already cancelled.
AcquireAnyway(r) ==                                 \* mutant of Acquire
  /\ stage[r] = "queued"
  /\ Goto(r, "admitted")
  /\ holders' = holders \cup {r}
  /\ UNCHANGED <<requestVars, viewVars, asked, watched, breaker, now, streak,
                 windowVars>>
Acquire(r) ==
  /\ stage[r] = "queued"
  /\ Cardinality(holders) < Slots
  /\ Goto(r, "admitted")
  /\ holders' = holders \cup {r}
  /\ UNCHANGED <<requestVars, viewVars, asked, watched, breaker, now, streak,
                 windowVars>>

\* The wait ends without a token: cancelled, or the queue timed out.
LeaveQueueCancelled(r) ==                           \* mutant of LeaveQueue
  /\ stage[r] = "queued"
  /\ Ending(r, "cancelled")
  /\ UNCHANGED <<requestVars, status, asked, watched, slotVars,
                 windowVars>>
LeaveQueue(r) ==
  /\ stage[r] = "queued"
  /\ Ending(r, IF r \in asked THEN "cancelled" ELSE "failed")
  /\ UNCHANGED <<requestVars, status, asked, watched, slotVars,
                 windowVars>>

\* Breaker.Allow: once the cooldown is over the breaker forgets.
Open == breaker.openUntil # 0
Allows == ~Open \/ now >= breaker.openUntil

Allow == breaker' = IF Open /\ Allows THEN [failures |-> 0, openUntil |-> 0]
                    ELSE breaker

\* The breaker refuses, or the request cannot be bound to the catalogue.
Refuse(r) ==
  /\ stage[r] = "admitted"
  /\ Allow
  /\ Ending(r, "failed")
  /\ UNCHANGED <<requestVars, status, asked, watched, holders, now,
                 streak, windowVars>>

Admit(r) ==
  /\ stage[r] = "admitted"
  /\ Allows /\ Allow
  /\ Goto(r, "working")
  /\ UNCHANGED <<requestVars, viewVars, asked, watched, holders, now, streak,
                 windowVars>>

\* golden.Run could not be set up: the breaker counts a failure.
SetupFails(r) ==
  /\ stage[r] = "working" /\ mode = "live"
  /\ LET failures == breaker.failures + 1
     IN  breaker' = [failures |-> failures,
                     openUntil |-> IF failures >= Threshold THEN now + Cooldown
                                   ELSE breaker.openUntil]
  /\ Ending(r, "failed")
  /\ UNCHANGED <<requestVars, status, asked, watched, holders, now,
                 streak, windowVars>>

\* golden.Run returned a report.  Breaker.Success whatever the report says: a
\* failure receipt (of the model, or of a cancelled context) ends the run as
\* failed; an answer still has to be projected.
Returns(r) ==
  /\ stage[r] = "working" /\ mode = "live"
  /\ breaker' = [failures |-> 0, openUntil |-> 0]
  /\ \/ /\ Ending(r, "failed")
        /\ streak' = IF r \in asked \/ streak = Threshold THEN streak ELSE streak + 1
     \/ /\ \E how \in {"completed", "failed"} : Ending(r, how)
        /\ streak' = 0
  /\ UNCHANGED <<requestVars, status, asked, watched, holders, now, windowVars>>

\* replayFixture publishes the recorded events of the fixture.
Replays(r) ==
  /\ stage[r] = "working" /\ mode = "fixture"
  /\ \E how \in {"completed", "failed"} : Ending(r, how)
  /\ UNCHANGED <<requestVars, status, asked, watched, slotVars,
                 windowVars>>

\* complete or fail: the view changes with the terminal event...
Terminate(r) ==
  /\ stage[r] \in {"ending", "rejected"}
  /\ Goto(r, "sweeping")
  /\ LET how == IF stage[r] = "rejected" THEN "failed" ELSE outcome[r]
     IN  /\ status' = [status EXCEPT ![r] = how]
         /\ outcome' = [outcome EXCEPT ![r] = "none"]
  /\ UNCHANGED <<requestVars, asked, watched, slotVars, windowVars>>

\* ...then the window is swept under a second lock and the deferred calls
\* give the token back and cancel what is left of the contexts.
KeepToken(r) ==                                     \* mutant of Leave
  /\ stage[r] = "sweeping"
  /\ Goto(r, "over")
  /\ stored' = Evict(stored, {}) /\ spared' = Spared(stored, {})
  /\ asked' = asked \ {r}
  /\ UNCHANGED <<requestVars, viewVars, watched, slotVars>>
Leave(r) ==
  /\ stage[r] = "sweeping"
  /\ Goto(r, "over")
  /\ stored' = Evict(stored, {}) /\ spared' = Spared(stored, {})
  /\ holders' = holders \ {r}
  /\ asked' = asked \ {r}
  /\ UNCHANGED <<requestVars, viewVars, watched, breaker, now, streak>>

Tick ==
  /\ now < MaxTime
  /\ now' = now + 1
  /\ UNCHANGED <<requestVars, viewVars, stage, asked, watched, holders, breaker,
                 streak, windowVars>>

Works(r) ==
  \/ Start(r) \/ Acquire(r) \/ LeaveQueue(r) \/ Refuse(r) \/ Admit(r)
  \/ SetupFails(r) \/ Returns(r) \/ Replays(r)
  \/ Terminate(r) \/ Leave(r)

Requests(r) ==
  \/ CreateRun(r) \/ ReadParent(r) \/ CancelRun(r) \/ Watch(r) \/ Unwatch(r)
  \/ \E p \in Runs : FollowUp(r, p)

Next == Tick \/ \E r \in Runs : Works(r) \/ Requests(r)

\* Every goroutine is scheduled; waits and executions have deadlines.
Spec == Init /\ [][Next]_vars /\ \A r \in Runs : WF_vars(Works(r))

-----------------------------------------------------------------------------
(* Properties.                                                             *)

\* A run that has not ended can always be found, cancelled and watched: the
\* window of maximumStoredRuns never pushes it out, nor a run someone is
\* still reading (evictCompletedRunsLocked).
LiveRunsAreFound ==
  \A r \in Runs : status[r] = "running" \/ r \in watched => r \in stored

\* The tokens of liveRuns are held by the runs between acquireLiveRun and the
\* deferred release, whichever way they end, and never outnumber the slots.
TokensFollowRuns ==
  /\ Cardinality(holders) <= Slots
  /\ \A r \in Runs :
       /\ r \in holders => stage[r] \in {"admitted", "working", "ending",
                                         "sweeping"}
       /\ stage[r] \in {"admitted", "working"} /\ mode = "live" => r \in holders

\* A follow-up extends a live case that completed, although its parent is
\* read under one lock and used under another (handleFollowUp).
FollowUpsExtendAnswers ==
  \A r \in Runs : parent[r] # 0 =>
    status[parent[r]] = "completed" /\ parent[r] < r /\ mode = "live"

\* A run shows as cancelled only if its cancellation was asked for and it
\* never got a slot; cancelled while it executes it ends as failed.
CancelledBeforeAdmission ==
  [][\A r \in Runs : status'[r] = "cancelled" /\ status[r] # "cancelled" =>
       r \in asked /\ r \notin holders]_vars

\* An eviction takes what is older than whatever it could have taken instead, and
\* the window exceeds its bound only by what the last one had to keep; a reader who
\* leaves does not trigger another one, so no stronger bound holds (newRun,
\* complete, fail, handleEvents).
EvictionsAreDue ==
  /\ [](Cardinality(stored) > MaxStored => stored \subseteq spared)
  /\ [][\A r, s \in stored :
          r \notin stored' /\ s \in stored' /\ Evictable(s) => r < s]_vars

\* Every run that is created ends, and gives its slot back.
RunsEnd ==
  \A r \in Runs : status[r] = "running" ~> status[r] \in Ended /\ r \notin holders

\* The hardening matrix expects the breaker to open on repeated model
\* failures.
BreakerOpensOnModelFailures == streak >= Threshold => Open
=============================================================================
