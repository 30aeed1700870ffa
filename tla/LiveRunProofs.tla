----------------------------- MODULE LiveRunProofs -----------------------------
(***************************************************************************)
(* What TLAPS proves of a live run, for every plan and every choice of     *)
(* retention: the projection clients watch counts the events of the run,   *)
(* shows its steps as they stand, never takes back how a step ended, and   *)
(* agrees in the end with what clients are told.  LiveInv needs the        *)
(* invariants of Orchestrator: that an answered run has a verdict of every *)
(* reviewer and an outcome of every context step is what lets it be shown  *)
(* as completed.                                                           *)
(***************************************************************************)
EXTENDS LiveRun, OrchestratorFlowProofs, SequenceTheorems

-----------------------------------------------------------------------------
(* The inductive invariant.                                                *)

ContextId(i) == <<"context", i>>
ReviewId(r) == <<"review", r>>
PlanIds ==
  {ContextId(i) : i \in Contexts} \cup {ReviewId(r) : r \in Reviewers}
  \cup {Plan!Synthesis}
StepIds == PlanIds \cup {Plan!Interpret, Plan!BuildPlan, Plan!Memory}

LiveEvents ==
  Events \cup {Retention(what) : what \in Plan!Pairs.retention}
         \cup {Ev("", 0, "workspace", outcome) : outcome \in Plan!Pairs.workspace}

Projections ==
  [status : Plan!Statuses, last : Nat,
   steps : UNION {[ids -> Plan!Statuses] : ids \in SUBSET StepIds}]
Records ==
  [execution : Projections, nextSequence : Nat, retentionSet : BOOLEAN,
   refused : SUBSET LiveEvents]

\* A record counts with its plan, and a plan that passed has nothing left to do.
Paced ==
  {rec \in Records :
     /\ rec.execution.last = rec.nextSequence
     /\ rec.execution.status = "passed" => Plan!Unblocked(rec.execution)}

\* Nothing is published before the plan is accepted, and nothing but a
\* deletion after the end.
StageInv ==
  /\ stage \in {"queued", "running", "committing", "ended"}
  /\ stage = "queued" => phase = "request"
  /\ phase \notin {"request", "done"} => stage = "running"
  /\ stage \in {"queued", "running"} /\ phase = "request" =>
       /\ record.execution = Plan!Pending
       /\ record.nextSequence = 0
       /\ ~record.retentionSet
  /\ stage = "committing" => phase = "done" /\ result = "answered"
  /\ kept \/ deletion # "none" => stage \in {"committing", "ended"}

\* Only what was asked for and can be done is still to be done.
MemorySettled ==
  /\ record.retentionSet
  /\ ~Keeping => Plan!Terminal(Steps[Plan!Memory])

\* The steps of the plan, as the orchestrator knows them.
ReviewShown(r) ==
  IF approved[r] # {} THEN {"passed", "degraded"}
  ELSE IF r = reviewer THEN {"running", "repairing"} ELSE {"pending"}
SynthesisShown ==
  IF phase \in {"contexts", "review"} THEN "pending"
  ELSE IF phase = "synthesis" THEN "running" ELSE "passed"
Mirrors ==
  /\ DOMAIN Steps = StepIds
  /\ Steps[Plan!Interpret] = "passed" /\ Steps[Plan!BuildPlan] = "passed"
  /\ \A i \in Contexts : Steps[ContextId(i)] = ContextShown[step[i]]
  /\ \A r \in Reviewers : Steps[ReviewId(r)] \in ReviewShown(r)
  /\ Steps[Plan!Synthesis] = SynthesisShown
  /\ MemorySettled
MirrorInv ==
  stage = "running" /\ phase # "request" /\ (phase = "done" => result = "answered") => Mirrors

\* What complete leaves for its terminal event to find.
CommitInv ==
  stage = "committing" =>
    /\ DOMAIN Steps = StepIds
    /\ Plan!Unblocked(record.execution)
    /\ MemorySettled
    /\ saved \in IF Keeping THEN {"saved", "failed"} ELSE {RetentionInitialStatus}

\* What the terminal event leaves.
EndInv ==
  /\ stage # "ended" => status = "running"
  /\ stage = "ended" =>
       /\ status \in {"completed", "failed", "cancelled"}
       /\ ViewMatchesPlan
       /\ \A id \in DOMAIN Steps : Plan!Terminal(Steps[id])
       /\ status = "completed" => DOMAIN Steps = StepIds

\* An answer is only ever given of context steps that came to an outcome.
AnsweredInv == phase = "saving" \/ result = "answered" => Resolved

LiveInv == record \in Paced /\ AnsweredInv /\ StageInv /\ MirrorInv /\ CommitInv /\ EndInv

-----------------------------------------------------------------------------
(* One event and the plan.                                                 *)

\* A step whose status is known keeps a known one (StepAfter).
LEMMA StepAfterTyped ==
  ASSUME NEW s \in Plan!Statuses, NEW type, NEW what
  PROVE  Plan!StepAfter(s, type, what) \in Plan!Statuses
BY DEF Plan!StepAfter, Plan!Statuses

\* A projection stays one when its steps do (recalculate).
LEMMA ProjectionFrom ==
  ASSUME NEW plan \in Projections, NEW s \in Plan!Statuses,
         NEW ids \in SUBSET StepIds, NEW steps \in [ids -> Plan!Statuses]
  PROVE  /\ [plan EXCEPT !.status = s, !.steps = steps] \in Projections
         /\ [plan EXCEPT !.steps = steps] \in Projections
         /\ [plan EXCEPT !.status = s] \in Projections
         /\ DOMAIN plan.steps \subseteq StepIds
         /\ plan.steps \in [DOMAIN plan.steps -> Plan!Statuses]
         /\ plan.status \in Plan!Statuses
         /\ DOMAIN steps = ids
BY DEF Projections

\* What a projection is made of.
LEMMA ProjectionParts ==
  ASSUME NEW plan \in Projections
  PROVE  /\ DOMAIN plan.steps \in SUBSET StepIds
         /\ plan.steps \in [DOMAIN plan.steps -> Plan!Statuses]
         /\ plan.status \in Plan!Statuses
         /\ plan.last \in Nat
BY DEF Projections

\* A run that stops: nothing works or waits any more, and what was over stays
\* as it was (MarkFailed).
LEMMA StopsRun ==
  ASSUME NEW plan \in Projections, NEW final \in {"failed", "cancelled"}
  PROVE  LET stopped == Plan!MarkFailed(plan, final) IN
         /\ stopped \in Projections
         /\ stopped.status = final /\ stopped.last = plan.last
         /\ DOMAIN stopped.steps = DOMAIN plan.steps
         /\ \A id \in DOMAIN plan.steps :
              /\ Plan!Terminal(stopped.steps[id])
              /\ Plan!Terminal(plan.steps[id]) => stopped.steps[id] = plan.steps[id]
<1> DEFINE After(s) == CASE s \in {"running", "repairing"} -> final
                         [] s \in {"pending", "ready"} -> "unavailable"
                         [] OTHER -> s
           steps == [id \in DOMAIN plan.steps |-> After(plan.steps[id])]
<1>1. ASSUME NEW s \in Plan!Statuses
      PROVE  /\ After(s) \in Plan!Statuses /\ Plan!Terminal(After(s))
             /\ Plan!Terminal(s) => After(s) = s
  BY DEF Plan!Statuses, Plan!Terminal
<1>2. Plan!MarkFailed(plan, final) = [plan EXCEPT !.status = final, !.steps = steps]
  BY DEF Plan!MarkFailed
<1> HIDE DEF After
<1>3. steps \in [DOMAIN plan.steps -> Plan!Statuses] /\ DOMAIN plan.steps \in SUBSET StepIds
  BY <1>1, ProjectionParts
<1>4. final \in Plan!Statuses
  BY DEF Plan!Statuses
<1>5. Plan!MarkFailed(plan, final) \in Projections
  <2> HIDE DEF steps
  <2>1. [plan EXCEPT !.status = final, !.steps = steps] \in Projections
    BY <1>3, <1>4, ProjectionFrom
  <2> QED  BY <1>2, <2>1
<1>6. /\ Plan!MarkFailed(plan, final).steps = steps
      /\ Plan!MarkFailed(plan, final).status = final
      /\ Plan!MarkFailed(plan, final).last = plan.last
  BY <1>2 DEF Projections
<1> QED  BY <1>1, <1>3, <1>5, <1>6, ProjectionParts

\* A plan that passed has nothing left to do.
Sound(plan) == plan.status = "passed" => Plan!Unblocked(plan)

\* No step of the plan but the memory step is taken back.
Settled(plan, next) ==
  \A id \in DOMAIN plan.steps \ {Plan!Memory} :
    Plan!Terminal(plan.steps[id]) => next.steps[id] = plan.steps[id]

\* next is what one event, or several, may make of plan.
Follows(plan, next) ==
  /\ next \in Projections
  /\ next.last = plan.last
  /\ DOMAIN plan.steps \subseteq DOMAIN next.steps
  /\ DOMAIN next.steps \subseteq DOMAIN plan.steps \cup {Plan!Memory}
  /\ Settled(plan, next)
  /\ Sound(next)

\* A status is over when it is one of these.
LEMMA TerminalStatuses ==
  /\ \A s \in {"passed", "failed", "degraded", "skipped", "cancelled", "withheld",
               "unavailable"} : s \in Plan!Statuses /\ Plan!Terminal(s)
  /\ \A s \in {"pending", "ready", "running", "repairing"} :
       s \in Plan!Statuses /\ ~Plan!Terminal(s)
BY DEF Plan!Terminal, Plan!Statuses

\* The terminal event of a run: completed only if nothing is left to do (applyWorkspace).
LEMMA Finishes ==
  ASSUME NEW plan \in Projections, NEW outcome \in {"completed", "failed", "cancelled"}
  PROVE  LET ended == Plan!Finish(plan, outcome) IN
         /\ Follows(plan, ended)
         /\ DOMAIN ended.steps = DOMAIN plan.steps
         /\ outcome # "completed" =>
              /\ ended.status = outcome
              /\ \A id \in DOMAIN plan.steps : Plan!Terminal(ended.steps[id])
         /\ outcome = "completed" /\ Plan!Unblocked(plan) =>
              ended.status = "passed" /\ ended.steps = plan.steps
<1>1. CASE outcome = "completed" /\ Plan!Unblocked(plan)
  <2>1. Plan!Finish(plan, outcome) = [plan EXCEPT !.status = "passed"]
    BY <1>1 DEF Plan!Finish
  <2>2. [plan EXCEPT !.status = "passed"] \in Projections
    BY ProjectionFrom, ProjectionParts, TerminalStatuses
  <2>3. /\ [plan EXCEPT !.status = "passed"].steps = plan.steps
        /\ [plan EXCEPT !.status = "passed"].status = "passed"
        /\ [plan EXCEPT !.status = "passed"].last = plan.last
    BY DEF Projections
  <2> QED  BY <1>1, <2>1, <2>2, <2>3 DEF Follows, Settled, Sound, Plan!Unblocked
<1>2. CASE ~(outcome = "completed" /\ Plan!Unblocked(plan))
  <2>1. PICK final \in {"failed", "cancelled"} :
          /\ Plan!Finish(plan, outcome) = Plan!MarkFailed(plan, final)
          /\ outcome # "completed" => final = outcome
    BY <1>2 DEF Plan!Finish
  <2> QED  BY <1>2, <2>1, StopsRun DEF Follows, Settled, Sound
<1> QED  BY <1>1, <1>2

\* What a step that is over still takes leaves it as it is, but for the
\* failure of the run (compatibleTerminalEvent).
LEMMA CompatibleKeeps ==
  ASSUME NEW s, NEW type, NEW what, Plan!Compatible(s, type, what),
         ~(type = "run" /\ what = "failed")
  PROVE  Plan!StepAfter(s, type, what) = s
BY DEF Plan!Compatible, Plan!StepAfter

\* An event about one step changes that step alone, unless it is over.
StepTaken(steps, id, type, what) ==
  [j \in DOMAIN steps |->
     IF j = id /\ ~Plan!Terminal(steps[j]) THEN Plan!StepAfter(steps[j], type, what)
     ELSE steps[j]]

\* ... and so does the plan that takes the event.
LEMMA EffectOfStep ==
  ASSUME NEW plan \in Projections, NEW id, NEW type, NEW what,
         type \notin {"plan", "retention", "workspace"}, ~(type = "run" /\ what = "failed")
  PROVE  LET next == Plan!Effect(plan, id, type, what) IN
         /\ next \in Projections
         /\ next.status = plan.status /\ next.last = plan.last
         /\ next.steps = StepTaken(plan.steps, id, type, what)
<1> DEFINE steps == StepTaken(plan.steps, id, type, what)
<1>1. steps \in [DOMAIN plan.steps -> Plan!Statuses]
  BY StepAfterTyped, ProjectionParts DEF StepTaken
<1>2. Plan!Effect(plan, id, type, what) = [plan EXCEPT !.steps = steps]
  <2>1. plan = [plan EXCEPT !.steps = plan.steps]
    BY DEF Projections
  <2>2. CASE id \in DOMAIN plan.steps /\ Plan!Terminal(plan.steps[id])
    <3>1. steps = plan.steps
      BY <2>2, ProjectionParts DEF StepTaken
    <3>2. CASE ~Plan!Compatible(plan.steps[id], type, what)
      BY <2>1, <2>2, <3>1, <3>2 DEF Plan!Effect
    <3>3. CASE Plan!Compatible(plan.steps[id], type, what)
      <4>1. [plan.steps EXCEPT ![id] = Plan!StepAfter(@, type, what)] = plan.steps
        BY <2>2, <3>3, CompatibleKeeps, ProjectionParts
      <4>2. [plan EXCEPT !.steps[id] = Plan!StepAfter(@, type, what)]
              = [plan EXCEPT !.steps = [plan.steps EXCEPT ![id] = Plan!StepAfter(@, type, what)]]
        BY DEF Projections
      <4> QED  BY <2>2, <3>1, <3>3, <4>1, <4>2 DEF Plan!Effect
    <3> QED  BY <3>2, <3>3
  <2>3. CASE id \in DOMAIN plan.steps /\ ~Plan!Terminal(plan.steps[id])
    <3>1. [plan.steps EXCEPT ![id] = Plan!StepAfter(@, type, what)] = steps
      BY <2>3, ProjectionParts DEF StepTaken
    <3>2. [plan EXCEPT !.steps[id] = Plan!StepAfter(@, type, what)]
            = [plan EXCEPT !.steps = [plan.steps EXCEPT ![id] = Plan!StepAfter(@, type, what)]]
      BY DEF Projections
    <3> QED  BY <2>3, <3>1, <3>2 DEF Plan!Effect
  <2>4. CASE id \notin DOMAIN plan.steps
    <3>1. steps = plan.steps
      BY <2>4, ProjectionParts DEF StepTaken
    <3> QED  BY <2>1, <2>4, <3>1 DEF Plan!Effect
  <2> QED  BY <2>2, <2>3, <2>4
<1> HIDE DEF steps
<1>3. [plan EXCEPT !.steps = steps] \in Projections
  BY <1>1, ProjectionFrom, ProjectionParts
<1>4. /\ [plan EXCEPT !.steps = steps].steps = steps
      /\ [plan EXCEPT !.steps = steps].status = plan.status
      /\ [plan EXCEPT !.steps = steps].last = plan.last
  BY DEF Projections
<1> QED  BY <1>2, <1>3, <1>4 DEF steps

\* The step the event names is over and does not take it.
Over(plan, id, type, what) ==
  /\ id \in DOMAIN plan.steps /\ Plan!Terminal(plan.steps[id])
  /\ ~Plan!Compatible(plan.steps[id], type, what)

\* What becomes of the case changes the memory step alone (applyRetention).
LEMMA RetentionTaken ==
  ASSUME NEW plan \in Projections, NEW what \in Plan!Pairs.retention,
         NEW id, ~Over(plan, id, "retention", what)
  PROVE  LET next == Plan!Effect(plan, id, "retention", what) IN
         /\ next \in Projections
         /\ next.status = plan.status /\ next.last = plan.last
         /\ DOMAIN next.steps = DOMAIN plan.steps \cup {Plan!Memory}
         /\ \A j \in DOMAIN plan.steps \ {Plan!Memory} : next.steps[j] = plan.steps[j]
         /\ next.steps[Plan!Memory] = Plan!MemoryAfter[what]
<1> DEFINE steps == [j \in DOMAIN plan.steps \cup {Plan!Memory} |->
                       IF j = Plan!Memory THEN Plan!MemoryAfter[what] ELSE plan.steps[j]]
<1>1. Plan!Effect(plan, id, "retention", what) = [plan EXCEPT !.steps = steps]
  BY DEF Plan!Effect, Over
<1>2. Plan!MemoryAfter[what] \in Plan!Statuses
  BY DEF Plan!MemoryAfter, Plan!Statuses, Plan!Pairs
<1>3. /\ steps \in [DOMAIN plan.steps \cup {Plan!Memory} -> Plan!Statuses]
      /\ DOMAIN plan.steps \cup {Plan!Memory} \in SUBSET StepIds
  BY <1>2, ProjectionParts DEF StepIds
<1>4. /\ [plan EXCEPT !.steps = steps].steps = steps
      /\ [plan EXCEPT !.steps = steps].status = plan.status
      /\ [plan EXCEPT !.steps = steps].last = plan.last
  BY DEF Projections
<1>5. [plan EXCEPT !.steps = steps] \in Projections
  <2> HIDE DEF steps
  <2> QED  BY <1>3, ProjectionFrom, ProjectionParts
<1> QED  BY <1>1, <1>3, <1>4, <1>5

\* Whatever event the plan takes, it stays a plan, no step is taken back, and
\* a plan that passed has nothing left to do (Apply).
LEMMA EffectFollows ==
  ASSUME NEW plan \in Projections, Sound(plan), NEW id, NEW type, NEW what,
         Plan!ValidPair(type, what)
  PROVE  Follows(plan, Plan!Effect(plan, id, type, what))
<1> DEFINE next == Plan!Effect(plan, id, type, what)
<1>1. CASE type = "plan"
  <2>1. next = [plan EXCEPT !.status = "running"]
    BY <1>1 DEF Plan!Effect
  <2>2. [plan EXCEPT !.status = "running"] \in Projections
    BY ProjectionFrom, ProjectionParts, TerminalStatuses
  <2>3. /\ [plan EXCEPT !.status = "running"].steps = plan.steps
        /\ [plan EXCEPT !.status = "running"].status = "running"
        /\ [plan EXCEPT !.status = "running"].last = plan.last
    BY DEF Projections
  <2> QED  BY <2>1, <2>2, <2>3 DEF Follows, Settled, Sound
<1>2. CASE type = "retention" /\ ~Over(plan, id, type, what)
  <2>1. what \in Plan!Pairs.retention
    BY <1>2 DEF Plan!ValidPair, Plan!Pairs
  <2>2. /\ next \in Projections
        /\ next.status = plan.status /\ next.last = plan.last
        /\ DOMAIN next.steps = DOMAIN plan.steps \cup {Plan!Memory}
        /\ \A j \in DOMAIN plan.steps \ {Plan!Memory} : next.steps[j] = plan.steps[j]
    BY <1>2, <2>1, RetentionTaken
  <2> QED  BY <2>2 DEF Follows, Settled, Sound, Plan!Unblocked
<1>3. CASE type = "workspace" /\ ~Over(plan, id, type, what)
  <2>1. next = Plan!Finish(plan, what)
    BY <1>3 DEF Plan!Effect, Over
  <2>2. what \in {"completed", "failed", "cancelled"}
    BY <1>3 DEF Plan!ValidPair, Plan!Pairs
  <2> QED  BY <2>1, <2>2, Finishes
<1>4. CASE type = "run" /\ what = "failed"
  <2>1. next = Plan!MarkFailed(plan, "failed")
    BY <1>4 DEF Plan!Effect, Plan!Compatible
  <2> QED  BY <2>1, StopsRun DEF Follows, Settled, Sound
<1>5. CASE type \notin {"plan", "retention", "workspace"} /\ ~(type = "run" /\ what = "failed")
  <2>1. /\ next \in Projections
        /\ next.status = plan.status /\ next.last = plan.last
        /\ next.steps = StepTaken(plan.steps, id, type, what)
    BY <1>5, EffectOfStep
  <2>2. /\ DOMAIN next.steps = DOMAIN plan.steps
        /\ \A j \in DOMAIN plan.steps :
             Plan!Terminal(plan.steps[j]) => next.steps[j] = plan.steps[j]
    BY <2>1 DEF StepTaken
  <2>3. Sound(next)
    BY <2>1, <2>2, TerminalStatuses DEF Sound, Plan!Unblocked
  <2> QED  BY <2>1, <2>2, <2>3 DEF Follows, Settled
<1>6. CASE type # "plan" /\ Over(plan, id, type, what)
  <2>1. next = plan
    BY <1>6 DEF Plan!Effect, Over
  <2> QED  BY <2>1 DEF Follows, Settled
<1> QED  BY <1>1, <1>2, <1>3, <1>4, <1>5, <1>6

\* Following is following on.
LEMMA FollowsOn ==
  ASSUME NEW plan, NEW next, NEW last, Follows(plan, next), Follows(next, last)
  PROVE  Follows(plan, last)
<1>1. ASSUME NEW id \in DOMAIN plan.steps \ {Plan!Memory}, Plan!Terminal(plan.steps[id])
      PROVE  last.steps[id] = plan.steps[id]
  <2>1. id \in DOMAIN next.steps \ {Plan!Memory} /\ next.steps[id] = plan.steps[id]
    BY <1>1 DEF Follows, Settled
  <2> QED  BY <1>1, <2>1 DEF Follows, Settled
<1> QED  BY <1>1 DEF Follows, Settled

-----------------------------------------------------------------------------
(* One event and the record, then several.                                 *)

\* The types of the events a run emits, and of those the server adds, are
\* known; which of them the plan refuses depends on the status alone.
Taken(event) == Plan!ValidPair(event.type, event.status)

\* What publish makes of a record that counts with its plan: the event is
\* taken and both count it, or it is refused and neither does.
LEMMA Published ==
  ASSUME NEW rec \in Paced, NEW event \in LiveEvents
  PROVE  LET next == Publish(rec, event)
             id == <<event.kind, event.index>>
         IN
         /\ next \in Paced
         /\ next.retentionSet = rec.retentionSet
         /\ Taken(event) =>
              /\ next.nextSequence = rec.nextSequence + 1
              /\ next.execution.status
                   = Plan!Effect(rec.execution, id, event.type, event.status).status
              /\ next.execution.steps
                   = Plan!Effect(rec.execution, id, event.type, event.status).steps
         /\ ~Taken(event) =>
              next.nextSequence = rec.nextSequence /\ next.execution = rec.execution
<1> DEFINE plan == rec.execution
           number == rec.nextSequence + 1
           effect == Plan!Effect(plan, <<event.kind, event.index>>, event.type, event.status)
           applied == Plan!Apply(plan, number, <<event.kind, event.index>>,
                                 event.type, event.status)
<1>1. /\ rec \in Records /\ plan \in Projections /\ rec.nextSequence \in Nat
      /\ plan.last = rec.nextSequence /\ Sound(plan)
  BY DEF Paced, Records, Sound
<1>2. ~(number <= plan.last) /\ number = plan.last + 1
  BY <1>1
<1>3. Plan!Accepts(plan, number, event.type, event.status) <=> Taken(event)
  BY <1>2 DEF Plan!Accepts, Taken
<1>4. CASE Taken(event)
  <2>1. Follows(plan, effect)
    BY <1>1, <1>4, EffectFollows DEF Taken
  <2>2. applied = [effect EXCEPT !.last = number]
    BY <1>2 DEF Plan!Apply
  <2> HIDE DEF effect
  <2>3. /\ [effect EXCEPT !.last = number] \in Projections
        /\ [effect EXCEPT !.last = number].last = number
        /\ [effect EXCEPT !.last = number].status = effect.status
        /\ [effect EXCEPT !.last = number].steps = effect.steps
    BY <1>1, <2>1 DEF Follows, Projections
  <2>4. Sound([effect EXCEPT !.last = number])
    BY <2>1, <2>3 DEF Follows, Sound, Plan!Unblocked
  <2>5. Publish(rec, event) = [rec EXCEPT !.nextSequence = number, !.execution = applied]
    BY <1>3, <1>4 DEF Publish
  <2>8. applied \in Projections /\ number \in Nat
    BY <1>1, <2>2, <2>3
  <2> HIDE DEF applied, number
  <2>6. [rec EXCEPT !.nextSequence = number, !.execution = applied] \in Records
    BY <1>1, <2>8 DEF Records
  <2>7. /\ [rec EXCEPT !.nextSequence = number, !.execution = applied].nextSequence = number
        /\ [rec EXCEPT !.nextSequence = number, !.execution = applied].execution = applied
        /\ [rec EXCEPT !.nextSequence = number, !.execution = applied].retentionSet
             = rec.retentionSet
    BY <1>1 DEF Records
  <2>9. Publish(rec, event) \in Paced
    BY <2>2, <2>3, <2>4, <2>5, <2>6, <2>7 DEF Paced, Sound
  <2> QED  BY <1>4, <2>2, <2>3, <2>5, <2>7, <2>9 DEF effect, number
<1>5. CASE ~Taken(event)
  <2>1. Publish(rec, event) = [rec EXCEPT !.refused = @ \cup {event}]
    BY <1>3, <1>5 DEF Publish
  <2>2. /\ [rec EXCEPT !.refused = @ \cup {event}] \in Records
        /\ [rec EXCEPT !.refused = @ \cup {event}].execution = rec.execution
        /\ [rec EXCEPT !.refused = @ \cup {event}].nextSequence = rec.nextSequence
        /\ [rec EXCEPT !.refused = @ \cup {event}].retentionSet = rec.retentionSet
    BY <1>1 DEF Records
  <2> QED  BY <1>1, <1>5, <2>1, <2>2 DEF Paced, Sound
<1> QED  BY <1>4, <1>5

\* Some event of a sequence is the first to do what one of them does.
LEMMA FirstOf ==
  ASSUME NEW N \in Nat, NEW S \in SUBSET (0 .. N), S # {}
  PROVE  \E m \in S : \A n \in S : m <= n
<1> DEFINE UpTo(n) == 0 .. n
           Prefixes == {UpTo(n) : n \in S}
<1>1. Prefixes \subseteq SUBSET (0 .. N)
  OBVIOUS
<1>2. IsWellFoundedOn(StrictSubsetOrdering(0 .. N), SUBSET (0 .. N))
  <2>1. IsFiniteSet(0 .. N)
    BY FS_Interval
  <2> QED  BY <2>1, FS_StrictSubsetOrderingWellFounded, FS_FiniteSubsetsOfFinite
<1>3. PICK P \in Prefixes :
        \A Q \in Prefixes : <<Q, P>> \notin StrictSubsetOrdering(0 .. N)
  <2>1. Prefixes # {}
    OBVIOUS
  <2> HIDE DEF Prefixes
  <2> QED  BY <1>1, <1>2, <2>1, WFMin
<1>4. PICK m \in S : P = UpTo(m)
  OBVIOUS
<1>5. ASSUME NEW n \in S, n < m PROVE FALSE
  <2>1. UpTo(n) \subseteq UpTo(m) /\ UpTo(n) # UpTo(m)
    BY <1>5
  <2>2. UpTo(n) \in SUBSET (0 .. N) /\ UpTo(m) \in SUBSET (0 .. N)
    OBVIOUS
  <2>3. <<UpTo(n), UpTo(m)>> \in StrictSubsetOrdering(0 .. N)
    BY <2>1, <2>2 DEF StrictSubsetOrdering
  <2> QED  BY <1>3, <1>4, <2>3
<1> QED  BY <1>5

\* The record after each event of a sequence (emit calls the sink, event by event).
LEMMA OneByOne ==
  ASSUME NEW rec, NEW events \in Seq(LiveEvents)
  PROVE  \E after :
           /\ after[0] = rec
           /\ \A n \in 1 .. Len(events) : after[n] = Publish(after[n - 1], events[n])
           /\ PublishAll(rec, events) = after[Len(events)]
<1> DEFINE L == Len(events)
           Upto(f, N) == f = [n \in 0 .. N |-> IF n = 0 THEN rec
                                               ELSE Publish(f[n - 1], events[n])]
           Missing == {N \in 0 .. L : ~\E f : Upto(f, N)}
<1>1. L \in Nat
  OBVIOUS
<1>2. Missing = {}
  <2> SUFFICES ASSUME Missing # {} PROVE FALSE
    OBVIOUS
  <2>1. PICK m \in Missing : \A n \in Missing : m <= n
    <3> Missing \in SUBSET (0 .. L)
      OBVIOUS
    <3> HIDE DEF Missing
    <3> QED  BY <1>1, FirstOf
  <2>2. CASE m = 0
    <3>1. Upto([n \in 0 .. 0 |-> rec], 0)
      OBVIOUS
    <3> QED  BY <2>2, <3>1
  <2>3. CASE m # 0
    <3>1. m - 1 \in 0 .. L /\ m - 1 \notin Missing
      <4>1. m \in 0 .. L
        BY <2>1
      <4> HIDE DEF Missing, L
      <4> QED  BY <1>1, <2>1, <2>3, <4>1
    <3>2. PICK f : Upto(f, m - 1)
      BY <3>1
    <3> DEFINE g == [n \in 0 .. m |-> IF n = m THEN Publish(f[m - 1], events[m]) ELSE f[n]]
    <3>3. ASSUME NEW n \in 0 .. m
          PROVE  g[n] = IF n = 0 THEN rec ELSE Publish(g[n - 1], events[n])
      <4>1. CASE n = m
        BY <1>1, <2>3, <4>1
      <4>2. CASE n # m /\ n = 0
        BY <1>1, <3>2, <4>2
      <4>3. CASE n # m /\ n # 0
        <5>1. n \in 0 .. m - 1 /\ n - 1 \in 0 .. m /\ n - 1 # m
          BY <1>1, <4>3
        <5>2. f[n] = Publish(f[n - 1], events[n])
          BY <3>2, <4>3, <5>1
        <5> QED  BY <4>3, <5>1, <5>2
      <4> QED  BY <4>1, <4>2, <4>3
    <3>4. Upto(g, m)
      <4>1. g = [n \in 0 .. m |-> g[n]]
        OBVIOUS
      <4> HIDE DEF g
      <4> QED  BY <3>3, <4>1
    <3> QED  BY <3>4
  <2> QED  BY <2>2, <2>3
<1>3. \E f : Upto(f, L)
  BY <1>1, <1>2
<1> DEFINE after == CHOOSE f : Upto(f, L)
<1>4. Upto(after, L)
  BY <1>3
<1>5. PublishAll(rec, events) = after[L]
  BY DEF PublishAll
<1> HIDE DEF after
<1>6. /\ after[0] = rec
      /\ \A n \in 1 .. L : after[n] = Publish(after[n - 1], events[n])
  BY <1>1, <1>4
<1> QED  BY <1>5, <1>6

\* What one event keeps, several keep.
LEMMA AllKept ==
  ASSUME NEW Good, NEW rec \in Good, NEW events \in Seq(LiveEvents),
         \A r \in Good : \A n \in DOMAIN events : Publish(r, events[n]) \in Good
  PROVE  PublishAll(rec, events) \in Good
<1>1. PICK after :
        /\ after[0] = rec
        /\ \A n \in 1 .. Len(events) : after[n] = Publish(after[n - 1], events[n])
        /\ PublishAll(rec, events) = after[Len(events)]
  BY OneByOne
<1> DEFINE L == Len(events)
           Bad == {n \in 0 .. L : after[n] \notin Good}
<1>2. L \in Nat
  OBVIOUS
<1>3. Bad = {}
  <2> SUFFICES ASSUME Bad # {} PROVE FALSE
    OBVIOUS
  <2>1. PICK m \in Bad : \A n \in Bad : m <= n
    <3> Bad \in SUBSET (0 .. L)
      OBVIOUS
    <3> HIDE DEF Bad
    <3> QED  BY <1>2, FirstOf
  <2>2. m # 0 /\ m \in 1 .. L /\ m - 1 \in 0 .. L /\ m - 1 \notin Bad
    BY <1>1, <1>2, <2>1
  <2>3. after[m - 1] \in Good /\ m \in DOMAIN events
    BY <2>2
  <2>4. after[m] \in Good
    BY <1>1, <2>2, <2>3
  <2> QED  BY <2>1, <2>4
<1> QED  BY <1>1, <1>2, <1>3

\* No event, one, or two.
LEMMA FewPublished ==
  ASSUME NEW rec, NEW e \in LiveEvents, NEW f \in LiveEvents
  PROVE  /\ PublishAll(rec, << >>) = rec
         /\ PublishAll(rec, <<e>>) = Publish(rec, e)
         /\ PublishAll(rec, <<e, f>>) = Publish(Publish(rec, e), f)
<1>1. PublishAll(rec, << >>) = rec
  <2>1. << >> \in Seq(LiveEvents) /\ Len(<< >>) = 0
    OBVIOUS
  <2> QED  BY <2>1, OneByOne
<1>2. PublishAll(rec, <<e>>) = Publish(rec, e)
  <2> DEFINE one == <<e>>
  <2>1. one \in Seq(LiveEvents) /\ Len(one) = 1 /\ one[1] = e
    OBVIOUS
  <2> HIDE DEF one
  <2>2. PICK after :
          /\ after[0] = rec
          /\ \A n \in 1 .. Len(one) : after[n] = Publish(after[n - 1], one[n])
          /\ PublishAll(rec, one) = after[Len(one)]
    BY <2>1, OneByOne
  <2> QED  BY <2>1, <2>2 DEF one
<1>3. PublishAll(rec, <<e, f>>) = Publish(Publish(rec, e), f)
  <2> DEFINE two == <<e, f>>
  <2>1. two \in Seq(LiveEvents) /\ Len(two) = 2 /\ two[1] = e /\ two[2] = f
    OBVIOUS
  <2> HIDE DEF two
  <2>2. PICK after :
          /\ after[0] = rec
          /\ \A n \in 1 .. Len(two) : after[n] = Publish(after[n - 1], two[n])
          /\ PublishAll(rec, two) = after[Len(two)]
    BY <2>1, OneByOne
  <2> QED  BY <2>1, <2>2 DEF two
<1> QED  BY <1>1, <1>2, <1>3

-----------------------------------------------------------------------------
(* What the server publishes.                                              *)

\* An event that names no step of the plan.
LEMMA NoStep ==
  ASSUME NEW plan \in Projections
  PROVE  /\ <<"", 0>> \notin DOMAIN plan.steps
         /\ \A w \in Nat : <<"wave", w>> \notin DOMAIN plan.steps
<1>1. <<"", 0>> \notin StepIds /\ \A w \in Nat : <<"wave", w>> \notin StepIds
  BY DEF StepIds, PlanIds, ContextId, ReviewId, Plan!Synthesis, Plan!Interpret,
         Plan!BuildPlan, Plan!Memory
<1> QED  BY <1>1, ProjectionParts

\* What became of the case is shown by the memory step alone (publish).
LEMMA RetentionPublished ==
  ASSUME NEW rec \in Paced, NEW what \in Plan!Pairs.retention
  PROVE  LET next == Publish(rec, Retention(what)) IN
         /\ next \in Paced
         /\ next.retentionSet = rec.retentionSet
         /\ next.execution.status = rec.execution.status
         /\ DOMAIN next.execution.steps = DOMAIN rec.execution.steps \cup {Plan!Memory}
         /\ \A j \in DOMAIN rec.execution.steps \ {Plan!Memory} :
              next.execution.steps[j] = rec.execution.steps[j]
         /\ next.execution.steps[Plan!Memory] = Plan!MemoryAfter[what]
<1> DEFINE event == Retention(what)
           plan == rec.execution
           none == <<"", 0>>
           id == <<event.kind, event.index>>
           effect == Plan!Effect(plan, none, "retention", what)
           next == Publish(rec, event)
<1>1. event \in LiveEvents
  BY DEF LiveEvents
<1>2. event.type = "retention" /\ event.status = what /\ id = none
  BY DEF Retention, Ev
<1>3. Taken(event)
  BY <1>2 DEF Taken, Plan!ValidPair, Plan!Pairs
<1>4. plan \in Projections
  BY DEF Paced, Records
<1>5. ~Over(plan, none, "retention", what)
  BY <1>4, NoStep DEF Over
<1>6. /\ next \in Paced
      /\ next.retentionSet = rec.retentionSet
      /\ next.execution.status = Plan!Effect(plan, id, event.type, event.status).status
      /\ next.execution.steps = Plan!Effect(plan, id, event.type, event.status).steps
  <2> HIDE DEF event
  <2> QED  BY <1>1, <1>3, Published
<1>7. /\ effect.status = plan.status
      /\ DOMAIN effect.steps = DOMAIN plan.steps \cup {Plan!Memory}
      /\ \A j \in DOMAIN plan.steps \ {Plan!Memory} : effect.steps[j] = plan.steps[j]
      /\ effect.steps[Plan!Memory] = Plan!MemoryAfter[what]
  <2> HIDE DEF none, plan
  <2> QED  BY <1>4, <1>5, RetentionTaken
<1>8. Plan!Effect(plan, id, event.type, event.status) = effect
  BY <1>2
<1> HIDE DEF effect, id
<1> QED  BY <1>6, <1>7, <1>8

\* What was asked for the case is told once, before anything else is (initializeRetention).
LEMMA RetentionStarts ==
  ASSUME NEW rec \in Paced
  PROVE  LET next == InitializeRetention(rec) IN
         /\ next \in Paced
         /\ next.execution.status = rec.execution.status
         /\ DOMAIN rec.execution.steps \subseteq DOMAIN next.execution.steps
         /\ DOMAIN next.execution.steps \subseteq DOMAIN rec.execution.steps \cup {Plan!Memory}
         /\ \A j \in DOMAIN rec.execution.steps \ {Plan!Memory} :
              next.execution.steps[j] = rec.execution.steps[j]
         /\ next.retentionSet
         /\ ~rec.retentionSet =>
              /\ Plan!Memory \in DOMAIN next.execution.steps
              /\ ~Keeping => Plan!Terminal(next.execution.steps[Plan!Memory])
<1>1. CASE rec.retentionSet
  BY <1>1 DEF InitializeRetention
<1>2. CASE ~rec.retentionSet
  <2> DEFINE set == [rec EXCEPT !.retentionSet = TRUE]
  <2>1. /\ set \in Paced /\ set.execution = rec.execution /\ set.retentionSet
    BY DEF Paced, Records
  <2>2. InitializeRetention(rec) = PublishAll(set, RetentionEvents)
    BY <1>2 DEF InitializeRetention
  <2> HIDE DEF set
  <2>3. CASE ~Retain
    <3>1. Retention("not_requested") \in LiveEvents /\ "not_requested" \in Plan!Pairs.retention
      BY DEF LiveEvents, Plan!Pairs
    <3>2. RetentionEvents = <<Retention("not_requested")>>
      BY <2>3 DEF RetentionEvents
    <3>3. InitializeRetention(rec) = Publish(set, Retention("not_requested"))
      BY <2>2, <3>1, <3>2, FewPublished
    <3>4. Plan!Terminal(Plan!MemoryAfter["not_requested"])
      BY TerminalStatuses DEF Plan!MemoryAfter
    <3> QED  BY <2>1, <3>1, <3>3, <3>4, RetentionPublished
  <2>4. CASE Retain
    <3> DEFINE then == IF StoreAvailable THEN "approved" ELSE "unavailable"
               first == Publish(set, Retention("requested"))
    <3>1. /\ Retention("requested") \in LiveEvents /\ "requested" \in Plan!Pairs.retention
          /\ Retention(then) \in LiveEvents /\ then \in Plan!Pairs.retention
      BY DEF LiveEvents, Plan!Pairs
    <3>2. RetentionEvents = <<Retention("requested"), Retention(then)>>
      BY <2>4 DEF RetentionEvents
    <3>3. InitializeRetention(rec) = Publish(first, Retention(then))
      BY <2>2, <3>1, <3>2, FewPublished
    <3>4. ~Keeping => Plan!Terminal(Plan!MemoryAfter[then])
      BY <2>4, TerminalStatuses DEF Plan!MemoryAfter, Keeping
    <3>5. /\ first \in Paced /\ first.retentionSet
          /\ first.execution.status = rec.execution.status
          /\ DOMAIN first.execution.steps = DOMAIN rec.execution.steps \cup {Plan!Memory}
          /\ \A j \in DOMAIN rec.execution.steps \ {Plan!Memory} :
               first.execution.steps[j] = rec.execution.steps[j]
      BY <2>1, <3>1, RetentionPublished
    <3> HIDE DEF first, then
    <3> QED  BY <3>1, <3>3, <3>4, <3>5, RetentionPublished
  <2> QED  BY <2>3, <2>4
<1> QED  BY <1>1, <1>2

\* The terminal event is never refused: the run record ends as the event says,
\* with every step over (publishWithCommit, terminalOnce).
LEMMA Terminates ==
  ASSUME NEW rec \in Paced, NEW outcome \in {"completed", "failed", "cancelled"},
         NEW shown, Terminate(rec, outcome, shown)
  PROVE  /\ record' \in Paced
         /\ stage' = "ended" /\ status' = outcome /\ retention' = shown
         /\ DOMAIN Steps' = DOMAIN rec.execution.steps
         /\ Settled(rec.execution, record'.execution)
         /\ outcome # "completed" =>
              /\ record'.execution.status = outcome
              /\ \A id \in DOMAIN Steps' : Plan!Terminal(Steps'[id])
         /\ outcome = "completed" /\ Plan!Unblocked(rec.execution) =>
              record'.execution.status = "passed" /\ Steps' = rec.execution.steps
<1> DEFINE event == Ev("", 0, "workspace", outcome)
           plan == rec.execution
           none == <<"", 0>>
           id == <<event.kind, event.index>>
           ended == Plan!Finish(plan, outcome)
           next == Publish(rec, event)
<1>1. outcome \in Plan!Pairs.workspace
  BY DEF Plan!Pairs
<1>2. event \in LiveEvents
  BY <1>1 DEF LiveEvents
<1>3. event.type = "workspace" /\ event.status = outcome /\ id = none
  BY DEF Ev
<1>4. Taken(event)
  BY <1>1, <1>3 DEF Taken, Plan!ValidPair, Plan!Pairs
<1>5. plan \in Projections /\ rec.nextSequence \in Nat
  BY DEF Paced, Records
<1>6. Plan!Effect(plan, none, "workspace", outcome) = ended
  BY <1>5, NoStep DEF Plan!Effect
<1>7. /\ next \in Paced
      /\ next.nextSequence # rec.nextSequence
      /\ next.execution.status = Plan!Effect(plan, id, event.type, event.status).status
      /\ next.execution.steps = Plan!Effect(plan, id, event.type, event.status).steps
  <2> HIDE DEF event
  <2> QED  BY <1>2, <1>4, <1>5, Published
<1>8. Plan!Effect(plan, id, event.type, event.status) = ended
  BY <1>3, <1>6
<1> HIDE DEF id
<1>9. /\ record' = next
      /\ stage' = "ended" /\ status' = outcome /\ retention' = shown
  BY <1>7 DEF Terminate
<1>10. /\ Follows(plan, ended)
       /\ DOMAIN ended.steps = DOMAIN plan.steps
       /\ outcome # "completed" =>
            /\ ended.status = outcome
            /\ \A j \in DOMAIN plan.steps : Plan!Terminal(ended.steps[j])
       /\ outcome = "completed" /\ Plan!Unblocked(plan) =>
            ended.status = "passed" /\ ended.steps = plan.steps
  BY <1>5, Finishes
<1> HIDE DEF next, ended, plan
<1>11. /\ record' \in Paced
       /\ record'.execution.status = ended.status /\ Steps' = ended.steps
  BY <1>7, <1>8, <1>9 DEF Steps
<1> QED  BY <1>9, <1>10, <1>11 DEF Steps, Follows, Settled, plan

-----------------------------------------------------------------------------
(* What the run publishes.                                                 *)

\* Each step of a plan has an identity of its own.
LEMMA Apart ==
  /\ \A i, j \in Contexts : ContextId(i) = ContextId(j) => i = j
  /\ \A r, q \in Reviewers : ReviewId(r) = ReviewId(q) => r = q
  /\ \A i \in Contexts, r \in Reviewers : ContextId(i) # ReviewId(r)
  /\ \A i \in Contexts : ContextId(i) \notin {Plan!Interpret, Plan!BuildPlan, Plan!Memory,
                                              Plan!Synthesis}
  /\ \A r \in Reviewers : ReviewId(r) \notin {Plan!Interpret, Plan!BuildPlan, Plan!Memory,
                                              Plan!Synthesis}
  /\ Plan!Synthesis \notin {Plan!Interpret, Plan!BuildPlan, Plan!Memory}
  /\ Plan!Interpret \notin {Plan!BuildPlan, Plan!Memory}
  /\ Plan!BuildPlan # Plan!Memory
BY DEF ContextId, ReviewId, Plan!Interpret, Plan!BuildPlan, Plan!Memory, Plan!Synthesis

\* runSink is handed what was appended to the trace.
LEMMA EmittedIs ==
  ASSUME NEW s \in Seq(Events), trace \in Seq(Events), trace' = trace \o s
  PROVE  Emitted = s
<1>1. /\ Len(trace) \in Nat /\ Len(s) \in Nat
      /\ trace' \in Seq(Events) /\ Len(trace') = Len(trace) + Len(s)
      /\ \A n \in 1 .. Len(s) : trace'[Len(trace) + n] = s[n]
  OBVIOUS
<1>2. /\ Emitted \in Seq(Events) /\ Len(Emitted) = Len(s)
      /\ \A n \in 1 .. Len(s) : Emitted[n] = trace'[Len(trace) + n]
  BY <1>1 DEF Emitted
<1> QED  BY <1>1, <1>2

\* What a run emits the server knows how to publish.
LEMMA EventsAreLive ==
  /\ Events \subseteq LiveEvents
  /\ \A s \in Seq(Events) : s \in Seq(LiveEvents)
<1>1. Events \subseteq LiveEvents
  BY DEF LiveEvents
<1> HIDE DEF LiveEvents, Events
<1> QED  BY <1>1

\* An event about a step of the plan.
LEMMA StepPublished ==
  ASSUME NEW rec \in Paced, NEW kind, NEW index, NEW type, NEW what,
         Ev(kind, index, type, what) \in LiveEvents, Plan!ValidPair(type, what),
         type \notin {"plan", "retention", "workspace"}, ~(type = "run" /\ what = "failed")
  PROVE  LET next == Publish(rec, Ev(kind, index, type, what)) IN
         /\ next \in Paced
         /\ next.retentionSet = rec.retentionSet
         /\ next.execution.steps = StepTaken(rec.execution.steps, <<kind, index>>, type, what)
<1> DEFINE event == Ev(kind, index, type, what)
           plan == rec.execution
           next == Publish(rec, event)
           id == <<kind, index>>
<1>1. event.type = type /\ event.status = what /\ <<event.kind, event.index>> = id
  BY DEF Ev
<1>2. Taken(event)
  BY <1>1 DEF Taken
<1>3. plan \in Projections
  BY DEF Paced, Records
<1> DEFINE effect == Plan!Effect(plan, <<event.kind, event.index>>, event.type, event.status)
<1>0. event \in LiveEvents
  OBVIOUS
<1>4. /\ next \in Paced
      /\ next.retentionSet = rec.retentionSet
      /\ next.execution.steps = effect.steps
  <2> HIDE DEF event
  <2> QED  BY <1>0, <1>2, Published
<1>5. Plan!Effect(plan, id, type, what).steps = StepTaken(plan.steps, id, type, what)
  BY <1>3, EffectOfStep
<1>6. effect = Plan!Effect(plan, id, type, what)
  BY <1>1
<1> HIDE DEF effect
<1> QED  BY <1>4, <1>5, <1>6

\* An event about nothing, or about a step that is over, ...
Quiet(rec, event) ==
  \/ event.type = "plan"
  \/ /\ event.type \notin {"plan", "retention", "workspace"}
     /\ ~(event.type = "run" /\ event.status = "failed")
     /\ <<event.kind, event.index>> \in DOMAIN rec.execution.steps =>
          Plan!Terminal(rec.execution.steps[<<event.kind, event.index>>])

\* ... shows nothing.
LEMMA QuietPublished ==
  ASSUME NEW rec \in Paced, NEW event \in LiveEvents, Quiet(rec, event)
  PROVE  LET next == Publish(rec, event) IN
         /\ next \in Paced
         /\ next.retentionSet = rec.retentionSet
         /\ next.execution.steps = rec.execution.steps
<1> DEFINE plan == rec.execution
           next == Publish(rec, event)
           id == <<event.kind, event.index>>
           effect == Plan!Effect(plan, id, event.type, event.status)
<1>1. plan \in Projections
  BY DEF Paced, Records
<1>2. /\ next \in Paced
      /\ next.retentionSet = rec.retentionSet
      /\ Taken(event) => next.execution.steps = effect.steps
      /\ ~Taken(event) => next.execution = plan
  BY Published
<1>3. effect.steps = plan.steps
  <2>1. CASE event.type = "plan"
    <3>1. effect = [plan EXCEPT !.status = "running"]
      BY <2>1 DEF Plan!Effect
    <3> QED  BY <1>1, <3>1 DEF Projections
  <2>2. CASE event.type # "plan"
    <3>1. effect.steps = StepTaken(plan.steps, id, event.type, event.status)
      BY <1>1, <2>2, EffectOfStep DEF Quiet
    <3>2. StepTaken(plan.steps, id, event.type, event.status) = plan.steps
      BY <1>1, <2>2, ProjectionParts DEF StepTaken, Quiet
    <3> QED  BY <3>1, <3>2
  <2> QED  BY <2>1, <2>2
<1> HIDE DEF effect, next
<1>4. next.execution.steps = plan.steps
  BY <1>2, <1>3
<1> QED  BY <1>2, <1>4 DEF next

\* Whatever a run emits, the record stays one, and no step is taken back.
LEMMA AnyPublished ==
  ASSUME NEW rec \in Paced, NEW events \in Seq(LiveEvents)
  PROVE  LET next == PublishAll(rec, events) IN
         /\ next \in Paced
         /\ DOMAIN rec.execution.steps \subseteq DOMAIN next.execution.steps
         /\ Settled(rec.execution, next.execution)
<1> DEFINE Good == {r \in Paced :
                      /\ DOMAIN rec.execution.steps \subseteq DOMAIN r.execution.steps
                      /\ Settled(rec.execution, r.execution)}
<1>1. rec \in Good
  BY DEF Settled
<1>2. ASSUME NEW r \in Good, NEW n \in DOMAIN events
      PROVE  Publish(r, events[n]) \in Good
  <2> DEFINE event == events[n]
             effect == Plan!Effect(r.execution, <<event.kind, event.index>>,
                                   event.type, event.status)
             next == Publish(r, event)
  <2>1. event \in LiveEvents
    OBVIOUS
  <2>2. r \in Paced /\ r.execution \in Projections /\ Sound(r.execution)
    BY DEF Paced, Records, Sound
  <2>3. /\ next \in Paced
        /\ Taken(event) => next.execution.steps = effect.steps
        /\ ~Taken(event) => next.execution = r.execution
    <3> HIDE DEF event
    <3> QED  BY <2>1, <2>2, Published
  <2>4. CASE Taken(event)
    <3>1. Follows(r.execution, effect)
      BY <2>2, <2>4, EffectFollows DEF Taken
    <3>2. next.execution.steps = effect.steps
      BY <2>3, <2>4
    <3> HIDE DEF effect, next
    <3>3. DOMAIN r.execution.steps \subseteq DOMAIN next.execution.steps
      BY <3>1, <3>2 DEF Follows
    <3>4. Settled(rec.execution, next.execution)
      BY <3>1, <3>2 DEF Follows, Settled
    <3> QED  BY <2>3, <3>3, <3>4 DEF next
  <2>5. CASE ~Taken(event)
    BY <2>3, <2>5 DEF Settled
  <2> QED  BY <2>4, <2>5
<1> HIDE DEF Good
<1>3. PublishAll(rec, events) \in Good
  BY <1>1, <1>2, AllKept
<1> QED  BY <1>3 DEF Good

\* A step of the run that emits nothing, one event, or two (runSink).
Publishes(events) ==
  /\ record \in Paced
  /\ trace \in Seq(Events)
  /\ trace' = trace \o events
  /\ record' = PublishAll(record, Emitted)

\* A silent step leaves the record alone, ...
LEMMA NoneShown ==
  ASSUME record \in Paced, trace \in Seq(Events), trace' = trace,
         record' = PublishAll(record, Emitted)
  PROVE  record' = record
<1>1. << >> \in Seq(Events) /\ trace \o << >> = trace
  OBVIOUS
<1>2. Emitted = << >>
  BY <1>1, EmittedIs
<1>3. Ev("", 0, "workspace", "failed") \in LiveEvents
  BY DEF LiveEvents, Plan!Pairs
<1> QED  BY <1>2, <1>3, FewPublished

\* ... one that emits an event about a step of the plan moves that step, ...
LEMMA OneShown ==
  ASSUME NEW kind, NEW index, NEW type, NEW what,
         Ev(kind, index, type, what) \in Events, Plan!ValidPair(type, what),
         type \notin {"plan", "retention", "workspace"}, ~(type = "run" /\ what = "failed"),
         Publishes(<<Ev(kind, index, type, what)>>)
  PROVE  /\ record'.retentionSet = record.retentionSet
         /\ Steps' = StepTaken(Steps, <<kind, index>>, type, what)
<1> DEFINE event == Ev(kind, index, type, what)
<1>1. event \in Events /\ event \in LiveEvents
  BY EventsAreLive
<1>2. Emitted = <<event>>
  <2> HIDE DEF event
  <2>1. <<event>> \in Seq(Events)
    BY <1>1, OneEvent
  <2> QED  BY <2>1, EmittedIs DEF Publishes, event
<1>3. record' = Publish(record, event)
  <2> HIDE DEF event
  <2> QED  BY <1>1, <1>2, FewPublished DEF Publishes
<1> QED  BY <1>1, <1>3, StepPublished DEF Publishes, Steps

\* ... and one that emits two of them moves both, in order.
LEMMA TwoShown ==
  ASSUME NEW kind, NEW index, NEW type, NEW what,
         Ev(kind, index, type, what) \in Events, Plan!ValidPair(type, what),
         type \notin {"plan", "retention", "workspace"}, ~(type = "run" /\ what = "failed"),
         NEW kind2, NEW index2, NEW type2, NEW what2,
         Ev(kind2, index2, type2, what2) \in Events, Plan!ValidPair(type2, what2),
         type2 \notin {"plan", "retention", "workspace"}, ~(type2 = "run" /\ what2 = "failed"),
         Publishes(<<Ev(kind, index, type, what), Ev(kind2, index2, type2, what2)>>)
  PROVE  /\ record'.retentionSet = record.retentionSet
         /\ Steps' = StepTaken(StepTaken(Steps, <<kind, index>>, type, what),
                               <<kind2, index2>>, type2, what2)
<1> DEFINE event == Ev(kind, index, type, what)
           event2 == Ev(kind2, index2, type2, what2)
           first == Publish(record, event)
<1>1. event \in Events /\ event \in LiveEvents /\ event2 \in Events /\ event2 \in LiveEvents
  BY EventsAreLive
<1>2. Emitted = <<event, event2>>
  <2> HIDE DEF event, event2
  <2>1. <<event, event2>> \in Seq(Events)
    BY <1>1, TwoEvents
  <2> QED  BY <2>1, EmittedIs DEF Publishes, event, event2
<1>3. record' = Publish(first, event2)
  <2> HIDE DEF event, event2
  <2> QED  BY <1>1, <1>2, FewPublished DEF Publishes
<1>4. /\ first \in Paced
      /\ first.retentionSet = record.retentionSet
      /\ first.execution.steps = StepTaken(Steps, <<kind, index>>, type, what)
  BY <1>1, StepPublished DEF Publishes, Steps
<1> HIDE DEF first
<1>5. LET next == Publish(first, event2) IN
      /\ next.retentionSet = first.retentionSet
      /\ next.execution.steps
           = StepTaken(first.execution.steps, <<kind2, index2>>, type2, what2)
  BY <1>1, <1>4, StepPublished
<1> QED  BY <1>3, <1>4, <1>5 DEF Steps

\* What is shown of a step depends on that step alone.
LEMMA OthersShown ==
  ASSUME NEW steps, DOMAIN steps = StepIds, NEW id \in StepIds, NEW type, NEW what
  PROVE  /\ DOMAIN StepTaken(steps, id, type, what) = StepIds
         /\ \A j \in StepIds \ {id} : StepTaken(steps, id, type, what)[j] = steps[j]
         /\ StepTaken(steps, id, type, what)[id]
              = IF Plan!Terminal(steps[id]) THEN steps[id]
                ELSE Plan!StepAfter(steps[id], type, what)
BY DEF StepTaken

\* Every step of the plan has an identity.
LEMMA Identities ==
  /\ \A i \in Contexts : ContextId(i) \in StepIds
  /\ \A r \in Reviewers : ReviewId(r) \in StepIds
  /\ {Plan!Interpret, Plan!BuildPlan, Plan!Memory, Plan!Synthesis} \subseteq StepIds
BY DEF StepIds, PlanIds

\* What a goroutine tells of its step, and what the step has then come to.
CourseOf(i, what, now) ==
  <<step[i], what, now>> \in {<<"spawned", "started", "calling">>,
                              <<"calling", "completed", "ok">>,
                              <<"calling", "failed", "failed">>}

\* A goroutine tells what became of its step, and the plan shows it.
LEMMA ContextTold ==
  ASSUME Mirrors, NEW i \in Contexts, NEW what, NEW now,
         CourseOf(i, what, now),
         step \in [Contexts -> {"pending", "spawned", "calling", "skipped", "ok", "failed"}],
         step' = [step EXCEPT ![i] = now],
         UNCHANGED <<phase, approved, reviewer>>,
         record'.retentionSet = record.retentionSet,
         Steps' = StepTaken(Steps, ContextId(i), "context", what)
  PROVE  Mirrors'
<1>1. /\ DOMAIN Steps = StepIds /\ ContextId(i) \in StepIds
      /\ Steps[ContextId(i)] = ContextShown[step[i]]
  BY Identities DEF Mirrors
<1>2. /\ DOMAIN Steps' = StepIds
      /\ \A j \in StepIds \ {ContextId(i)} : Steps'[j] = Steps[j]
      /\ Steps'[ContextId(i)]
           = IF Plan!Terminal(Steps[ContextId(i)]) THEN Steps[ContextId(i)]
             ELSE Plan!StepAfter(Steps[ContextId(i)], "context", what)
  BY <1>1, OthersShown
<1>3. Steps'[ContextId(i)] = ContextShown[now]
  BY <1>1, <1>2, TerminalStatuses DEF CourseOf, ContextShown, Plan!StepAfter
<1>4. \A j \in Contexts : Steps'[ContextId(j)] = ContextShown[step'[j]]
  BY <1>1, <1>2, <1>3, Apart, Identities DEF Mirrors
<1>5. \A r \in Reviewers : Steps'[ReviewId(r)] \in ReviewShown(r)'
  BY <1>2, Apart, Identities DEF Mirrors, ReviewShown
<1>6. \A j \in {Plan!Interpret, Plan!BuildPlan, Plan!Memory, Plan!Synthesis} :
        Steps'[j] = Steps[j]
  BY <1>2, Apart, Identities
<1> QED  BY <1>2, <1>4, <1>5, <1>6 DEF Mirrors, MemorySettled, SynthesisShown

\* Waiting for a goroutine or for a call shows nothing new.
LEMMA NothingTold ==
  ASSUME Mirrors, Steps' = Steps, record'.retentionSet = record.retentionSet,
         \A i \in Contexts : ContextShown[step'[i]] = ContextShown[step[i]],
         SynthesisShown' = SynthesisShown, UNCHANGED <<approved, reviewer>>
  PROVE  Mirrors'
BY DEF Mirrors, MemorySettled, ReviewShown

\* A reviewer asks for repair or narrows, and its step is shown at repair.
LEMMA RepairTold ==
  ASSUME Mirrors, reviewer \in Reviewers, approved[reviewer] = {},
         NEW what \in {"repair_requested", "narrowed"},
         UNCHANGED <<phase, step, approved, reviewer>>,
         record'.retentionSet = record.retentionSet,
         Steps' = StepTaken(Steps, ReviewId(reviewer), "review", what)
  PROVE  Mirrors'
<1>1. /\ DOMAIN Steps = StepIds /\ ReviewId(reviewer) \in StepIds
      /\ Steps[ReviewId(reviewer)] \in {"running", "repairing"}
  BY Identities DEF Mirrors, ReviewShown
<1>2. /\ DOMAIN Steps' = StepIds
      /\ \A j \in StepIds \ {ReviewId(reviewer)} : Steps'[j] = Steps[j]
      /\ Steps'[ReviewId(reviewer)]
           = IF Plan!Terminal(Steps[ReviewId(reviewer)]) THEN Steps[ReviewId(reviewer)]
             ELSE Plan!StepAfter(Steps[ReviewId(reviewer)], "review", what)
  BY <1>1, OthersShown
<1>3. Steps'[ReviewId(reviewer)] = "repairing"
  BY <1>1, <1>2, TerminalStatuses DEF Plan!StepAfter
<1>4. \A r \in Reviewers : Steps'[ReviewId(r)] \in ReviewShown(r)'
  BY <1>2, <1>3, Apart, Identities DEF Mirrors, ReviewShown
<1>5. \A i \in Contexts : Steps'[ContextId(i)] = ContextShown[step'[i]]
  BY <1>2, Apart, Identities DEF Mirrors
<1>6. \A j \in {Plan!Interpret, Plan!BuildPlan, Plan!Memory, Plan!Synthesis} :
        Steps'[j] = Steps[j]
  BY <1>2, Apart, Identities
<1> QED  BY <1>2, <1>4, <1>5, <1>6 DEF Mirrors, MemorySettled, SynthesisShown

\* The first review begins, or a review closes and the next one begins.
LEMMA ReviewBegins ==
  ASSUME NEW steps, DOMAIN steps = StepIds, NEW r \in Reviewers,
         steps[ReviewId(r)] = "pending",
         Steps' = StepTaken(steps, ReviewId(r), "review", "started")
  PROVE  /\ DOMAIN Steps' = StepIds
         /\ \A j \in StepIds \ {ReviewId(r)} : Steps'[j] = steps[j]
         /\ Steps'[ReviewId(r)] = "running"
<1>1. ReviewId(r) \in StepIds
  BY Identities
<1>2. Plan!StepAfter("pending", "review", "started") = "running" /\ ~Plan!Terminal("pending")
  BY TerminalStatuses DEF Plan!StepAfter
<1> QED  BY <1>1, <1>2, OthersShown

\* A review closes: its step passed, or is degraded when it approved a subset.
LEMMA ReviewCloses ==
  ASSUME Mirrors, reviewer \in Reviewers, approved[reviewer] = {},
         NEW what \in {"approve", "approved_subset"}
  PROVE  LET steps == StepTaken(Steps, ReviewId(reviewer), "review", what) IN
         /\ DOMAIN steps = StepIds
         /\ \A j \in StepIds \ {ReviewId(reviewer)} : steps[j] = Steps[j]
         /\ steps[ReviewId(reviewer)] \in {"passed", "degraded"}
<1>1. /\ DOMAIN Steps = StepIds /\ ReviewId(reviewer) \in StepIds
      /\ Steps[ReviewId(reviewer)] \in {"running", "repairing"}
  BY Identities DEF Mirrors, ReviewShown
<1>2. \A s \in {"running", "repairing"} :
        Plan!StepAfter(s, "review", what) \in {"passed", "degraded"} /\ ~Plan!Terminal(s)
  BY TerminalStatuses DEF Plan!StepAfter
<1> QED  BY <1>1, <1>2, OthersShown

\* The synthesis begins when the last review closes.
LEMMA SynthesisBegins ==
  ASSUME NEW steps, DOMAIN steps = StepIds, steps[Plan!Synthesis] = "pending",
         Steps' = StepTaken(steps, Plan!Synthesis, "synthesis", "started")
  PROVE  /\ DOMAIN Steps' = StepIds
         /\ \A j \in StepIds \ {Plan!Synthesis} : Steps'[j] = steps[j]
         /\ Steps'[Plan!Synthesis] = "running"
<1>1. Plan!Synthesis \in StepIds
  BY Identities
<1>2. /\ Plan!StepAfter("pending", "synthesis", "started") = "running"
      /\ ~Plan!Terminal("pending")
  BY TerminalStatuses DEF Plan!StepAfter
<1> QED  BY <1>1, <1>2, OthersShown

\* Two events emitted one after the other are emitted.
LEMMA EmittedTogether ==
  ASSUME NEW s \in Seq(Events), NEW e \in Events, NEW f \in Events
  PROVE  s \o <<e>> \o <<f>> = s \o <<e, f>>
<1>1. <<e>> \in Seq(Events) /\ <<f>> \in Seq(Events)
  BY OneEvent
<1>2. <<e>> \o <<f>> = <<e, f>>
  <2> DEFINE one == <<e>>
             other == <<f>>
             both == <<e, f>>
  <2>1. /\ one \in Seq(Events) /\ Len(one) = 1 /\ one[1] = e
        /\ other \in Seq(Events) /\ Len(other) = 1 /\ other[1] = f
        /\ both \in Seq(Events) /\ Len(both) = 2 /\ both[1] = e /\ both[2] = f
    OBVIOUS
  <2> HIDE DEF one, other, both
  <2>2. /\ one \o other \in Seq(Events) /\ Len(one \o other) = 2
        /\ (one \o other)[1] = e /\ (one \o other)[2] = f
    <3>1. /\ one \o other \in Seq(Events)
          /\ Len(one \o other) = Len(one) + Len(other)
          /\ \A i \in 1 .. Len(one) + Len(other) :
               (one \o other)[i] = IF i <= Len(one) THEN one[i] ELSE other[i - Len(one)]
      BY <2>1, ConcatProperties
    <3> QED  BY <2>1, <3>1
  <2>3. one \o other = both
    BY <2>1, <2>2, SeqEqual
  <2> QED  BY <2>3 DEF one, other, both
<1>3. s \o <<e>> \o <<f>> = s \o (<<e>> \o <<f>>)
  BY <1>1, ConcatAssociative
<1> QED  BY <1>2, <1>3

\* A review closes and what comes next begins, in the run and in the plan.
LEMMA CloseTold ==
  ASSUME TypeInv, SafeInv, TypeInv', SafeInv', Mirrors, phase = "review",
         NEW reports, NEW left, NEW verdict, NEW what \in {"approve", "approved_subset"},
         CloseReview(reports, left, verdict, what),
         record \in Paced, record' = PublishAll(record, Emitted)
  PROVE  Mirrors'
<1>1. /\ reviewer \in Reviewers /\ reviewer \in Nat /\ approved[reviewer] = {}
      /\ approved \in [Reviewers -> SUBSET Claims]
      /\ trace \in Seq(Events)
  <2>1. /\ reviewer \in Reviewers /\ approved \in [Reviewers -> SUBSET Claims]
        /\ trace \in Seq(Events) /\ reviewer \in Nat
    BY PlanAssumption DEF TypeInv, TypeOK, Reviewers
  <2> QED  BY <2>1 DEF SafeInv, ReleaseInv, ReviewInv
<1> DEFINE closed == StepTaken(Steps, ReviewId(reviewer), "review", what)
<1>2. /\ DOMAIN closed = StepIds
      /\ \A j \in StepIds \ {ReviewId(reviewer)} : closed[j] = Steps[j]
      /\ closed[ReviewId(reviewer)] \in {"passed", "degraded"}
  BY <1>1, ReviewCloses
<1>3. /\ Ev("review", reviewer, "review", what) \in Events
      /\ Plan!ValidPair("review", what) /\ Plan!ValidPair("review", "started")
      /\ Plan!ValidPair("synthesis", "started")
      /\ Ev("synthesis", 0, "synthesis", "started") \in Events
  BY <1>1 DEF Ev, Events, Decisions, Plan!ValidPair, Plan!Pairs
<1>4. approved' = [approved EXCEPT ![reviewer] = verdict] /\ step' = step
  BY DEF CloseReview, contextVars
<1>5. CASE MoreReviews
  <2> DEFINE next == reviewer + 1
  <2>1. next \in Reviewers /\ next # reviewer /\ approved[next] = {}
    <3>1. next \in Reviewers /\ next # reviewer /\ next >= reviewer
      BY <1>1, <1>5, PlanAssumption DEF MoreReviews, Reviewers
    <3> QED  BY <3>1 DEF SafeInv, ReleaseInv, ReviewInv
  <2>2. /\ phase' = "review" /\ reviewer' = next
        /\ trace' = trace \o <<Ev("review", reviewer, "review", what),
                               Ev("review", next, "review", "started")>>
    BY <1>5 DEF CloseReview, EnterReview, Reviewed
  <2>3. Ev("review", next, "review", "started") \in Events
    <3>1. next \in Nat
      BY <1>1
    <3> HIDE DEF next
    <3> QED  BY <3>1 DEF Ev, Events
  <2>4. /\ record'.retentionSet = record.retentionSet
        /\ Steps' = StepTaken(closed, ReviewId(next), "review", "started")
    <3>1. Publishes(<<Ev("review", reviewer, "review", what),
                      Ev("review", next, "review", "started")>>)
      BY <1>1, <2>2 DEF Publishes
    <3>2. closed = StepTaken(Steps, <<"review", reviewer>>, "review", what)
      BY DEF ReviewId
    <3> HIDE DEF next, closed
    <3> QED  BY <1>3, <2>3, <3>1, <3>2, TwoShown DEF ReviewId
  <2>5. approved'[reviewer] # {}
    <3>1. reviewer \in Past'
      BY <1>1, <2>2 DEF Past
    <3> QED  BY <3>1 DEF SafeInv, ReleaseInv, VerdictInv
  <2> HIDE DEF closed, next
  <2>6. closed[ReviewId(next)] = "pending"
    BY <1>1, <1>2, <2>1, Apart, Identities DEF Mirrors, ReviewShown
  <2>7. /\ DOMAIN Steps' = StepIds
        /\ \A j \in StepIds \ {ReviewId(next)} : Steps'[j] = closed[j]
        /\ Steps'[ReviewId(next)] = "running"
    BY <1>2, <2>1, <2>4, <2>6, ReviewBegins
  <2>8. approved'[next] = {} /\ \A r \in Reviewers \ {reviewer} : approved'[r] = approved[r]
    BY <1>1, <1>4, <2>1
  <2>9. \A r \in Reviewers : Steps'[ReviewId(r)] \in ReviewShown(r)'
    <3> SUFFICES ASSUME NEW r \in Reviewers PROVE Steps'[ReviewId(r)] \in ReviewShown(r)'
      OBVIOUS
    <3>1. CASE r = next
      BY <2>2, <2>7, <2>8, <3>1 DEF ReviewShown
    <3>2. CASE r = reviewer
      BY <1>1, <1>2, <2>1, <2>5, <2>7, <3>2, Apart, Identities DEF ReviewShown
    <3>3. CASE r # next /\ r # reviewer
      <4>1. Steps'[ReviewId(r)] = Steps[ReviewId(r)]
        BY <1>1, <1>2, <2>1, <2>7, <3>3, Apart, Identities
      <4> QED  BY <2>2, <2>8, <3>3, <4>1 DEF Mirrors, ReviewShown
    <3> QED  BY <3>1, <3>2, <3>3
  <2>10. \A i \in Contexts : Steps'[ContextId(i)] = ContextShown[step'[i]]
    BY <1>1, <1>2, <1>4, <2>1, <2>7, Apart, Identities DEF Mirrors
  <2>11. \A j \in {Plan!Interpret, Plan!BuildPlan, Plan!Memory, Plan!Synthesis} :
           Steps'[j] = Steps[j]
    BY <1>1, <1>2, <2>1, <2>7, Apart, Identities
  <2> QED  BY <2>2, <2>4, <2>7, <2>9, <2>10, <2>11 DEF Mirrors, MemorySettled, SynthesisShown
<1>6. CASE ~MoreReviews
  <2>1. /\ phase' = "synthesis" /\ reviewer' = reviewer
        /\ trace' = trace \o <<Ev("review", reviewer, "review", what),
                               Ev("synthesis", 0, "synthesis", "started")>>
    BY <1>6 DEF CloseReview, Reviewed
  <2>2. /\ record'.retentionSet = record.retentionSet
        /\ Steps' = StepTaken(closed, Plan!Synthesis, "synthesis", "started")
    <3>1. Publishes(<<Ev("review", reviewer, "review", what),
                      Ev("synthesis", 0, "synthesis", "started")>>)
      BY <1>1, <2>1 DEF Publishes
    <3>2. closed = StepTaken(Steps, <<"review", reviewer>>, "review", what)
      BY DEF ReviewId
    <3> HIDE DEF closed
    <3> QED  BY <1>3, <3>1, <3>2, TwoShown DEF Plan!Synthesis
  <2> HIDE DEF closed
  <2>3. closed[Plan!Synthesis] = "pending"
    BY <1>1, <1>2, Apart, Identities DEF Mirrors, SynthesisShown
  <2>4. /\ DOMAIN Steps' = StepIds
        /\ \A j \in StepIds \ {Plan!Synthesis} : Steps'[j] = closed[j]
        /\ Steps'[Plan!Synthesis] = "running"
    BY <1>2, <2>2, <2>3, SynthesisBegins
  <2>5. \A r \in Reviewers : approved'[r] # {}
    BY <2>1 DEF Past, SafeInv, ReleaseInv, VerdictInv
  <2>6. \A r \in Reviewers : Steps'[ReviewId(r)] \in ReviewShown(r)'
    <3> SUFFICES ASSUME NEW r \in Reviewers PROVE Steps'[ReviewId(r)] \in {"passed", "degraded"}
      BY <2>5 DEF ReviewShown
    <3>1. CASE r = reviewer
      BY <1>1, <1>2, <2>4, <3>1, Apart, Identities
    <3>2. CASE r # reviewer
      <4>1. Steps'[ReviewId(r)] = Steps[ReviewId(r)]
        BY <1>1, <1>2, <2>4, <3>2, Apart, Identities
      <4>2. approved[r] # {}
        BY <1>1, <1>4, <2>5, <3>2
      <4> QED  BY <4>1, <4>2 DEF Mirrors, ReviewShown
    <3> QED  BY <3>1, <3>2
  <2>7. \A i \in Contexts : Steps'[ContextId(i)] = ContextShown[step'[i]]
    BY <1>1, <1>2, <1>4, <2>4, Apart, Identities DEF Mirrors
  <2>8. \A j \in {Plan!Interpret, Plan!BuildPlan, Plan!Memory} : Steps'[j] = Steps[j]
    BY <1>1, <1>2, <2>4, Apart, Identities
  <2> QED  BY <2>1, <2>2, <2>4, <2>6, <2>7, <2>8 DEF Mirrors, MemorySettled, SynthesisShown
<1> QED  BY <1>5, <1>6

\* A wave's end and what follows it, of which the plan shows no step of its own.
LEMMA WaveTold ==
  ASSUME TypeInv, record \in Paced, record' = PublishAll(record, Emitted),
         NEW e \in Events, trace' = trace \o WaveEnded \o <<e>>
  PROVE  /\ Ev("wave", wave, "wave", WaveOutcome(wave)) \in Events
         /\ Plan!ValidPair("wave", WaveOutcome(wave))
         /\ Publishes(<<Ev("wave", wave, "wave", WaveOutcome(wave)), e>>)
<1>1. trace \in Seq(Events) /\ wave \in Nat
  BY DEF TypeInv, TypeOK, Waves
<1>2. WaveOutcome(wave) \in {"failed", "degraded", "completed"}
  BY DEF WaveOutcome
<1>3. Ev("wave", wave, "wave", WaveOutcome(wave)) \in Events
  BY <1>1, <1>2 DEF Ev, Events
<1>4. Plan!ValidPair("wave", WaveOutcome(wave))
  BY <1>2 DEF Plan!ValidPair, Plan!Pairs
<1> DEFINE ended == Ev("wave", wave, "wave", WaveOutcome(wave))
<1>5. trace' = trace \o <<ended>> \o <<e>>
  BY DEF WaveEnded
<1> HIDE DEF ended
<1>6. trace' = trace \o <<ended, e>>
  BY <1>1, <1>3, <1>5, EmittedTogether DEF ended
<1> QED  BY <1>1, <1>3, <1>4, <1>6 DEF Publishes, ended

\* A wave names no step.
LEMMA WaveQuiet ==
  ASSUME record \in Paced, NEW w \in Nat, NEW what
  PROVE  StepTaken(Steps, <<"wave", w>>, "wave", what) = Steps
<1>1. record.execution \in Projections
  BY DEF Paced, Records
<1>2. <<"wave", w>> \notin DOMAIN Steps /\ Steps \in [DOMAIN Steps -> Plan!Statuses]
  BY <1>1, NoStep, ProjectionParts DEF Steps
<1> QED  BY <1>2 DEF StepTaken

\* The next wave opens: none of its steps works yet, and none is shown to.
LEMMA NextWaveTold ==
  ASSUME TypeInv, SafeInv, Mirrors, NextWave,
         record \in Paced, record' = PublishAll(record, Emitted)
  PROVE  Mirrors'
<1>1. PICK w \in Waves :
        /\ trace' = trace \o WaveEnded \o <<Ev("wave", w, "wave", "started")>>
        /\ Spawn(Batch(w))
  BY DEF NextWave, OpenWave
<1>2. w \in Nat /\ wave \in Nat
  BY DEF Waves, TypeInv, TypeOK
<1>3. Ev("wave", w, "wave", "started") \in Events /\ Plan!ValidPair("wave", "started")
  BY <1>2 DEF Ev, Events, Plan!ValidPair, Plan!Pairs
<1>4. /\ Ev("wave", wave, "wave", WaveOutcome(wave)) \in Events
      /\ Plan!ValidPair("wave", WaveOutcome(wave))
      /\ Publishes(<<Ev("wave", wave, "wave", WaveOutcome(wave)),
                     Ev("wave", w, "wave", "started")>>)
  BY <1>1, <1>3, WaveTold
<1>5. /\ record'.retentionSet = record.retentionSet
      /\ Steps' = StepTaken(StepTaken(Steps, <<"wave", wave>>, "wave", WaveOutcome(wave)),
                            <<"wave", w>>, "wave", "started")
  BY <1>3, <1>4, TwoShown
<1>6. Steps' = Steps
  BY <1>2, <1>5, WaveQuiet
<1>7. \A i \in Contexts : ContextShown[step'[i]] = ContextShown[step[i]]
  BY <1>1 DEF Spawn, Batch, Pending, ContextShown
<1>8. SynthesisShown' = SynthesisShown /\ UNCHANGED <<approved, reviewer>>
  BY DEF NextWave, SynthesisShown, localVars, reviewVars
<1> QED  BY <1>5, <1>6, <1>7, <1>8, NothingTold

\* The first review begins when the last wave is over.
LEMMA FirstReviewTold ==
  ASSUME TypeInv, SafeInv, Mirrors, StartReviews,
         record \in Paced, record' = PublishAll(record, Emitted)
  PROVE  Mirrors'
<1>1. /\ trace' = trace \o WaveEnded \o <<Ev("review", 1, "review", "started")>>
      /\ phase = "contexts" /\ phase' = "review" /\ reviewer' = 1
      /\ UNCHANGED <<step, approved>>
  BY DEF StartReviews, WaveDone, EnterReview, contextVars
<1>2. /\ Ev("review", 1, "review", "started") \in Events
      /\ Plan!ValidPair("review", "started")
      /\ 1 \in Reviewers /\ wave \in Nat
  <2>1. Ev("review", 1, "review", "started") \in Events
    BY DEF Ev, Events
  <2>2. Plan!ValidPair("review", "started")
    BY DEF Plan!ValidPair, Plan!Pairs
  <2>3. 1 \in Reviewers /\ wave \in Nat
    BY PlanAssumption DEF Reviewers, TypeInv, TypeOK, Waves
  <2> QED  BY <2>1, <2>2, <2>3
<1>3. /\ Ev("wave", wave, "wave", WaveOutcome(wave)) \in Events
      /\ Plan!ValidPair("wave", WaveOutcome(wave))
      /\ Publishes(<<Ev("wave", wave, "wave", WaveOutcome(wave)),
                     Ev("review", 1, "review", "started")>>)
  BY <1>1, <1>2, WaveTold
<1>4. /\ record'.retentionSet = record.retentionSet
      /\ Steps' = StepTaken(StepTaken(Steps, <<"wave", wave>>, "wave", WaveOutcome(wave)),
                            <<"review", 1>>, "review", "started")
  BY <1>2, <1>3, TwoShown
<1>5. Steps' = StepTaken(Steps, ReviewId(1), "review", "started")
  BY <1>2, <1>4, WaveQuiet DEF ReviewId
<1>6. \A r \in Reviewers : approved[r] = {} /\ r # reviewer
  BY <1>1, PlanAssumption DEF SafeInv, PhaseInv, Reviewers
<1>7. DOMAIN Steps = StepIds /\ \A r \in Reviewers : Steps[ReviewId(r)] = "pending"
  BY <1>6 DEF Mirrors, ReviewShown
<1>8. /\ DOMAIN Steps' = StepIds
      /\ \A j \in StepIds \ {ReviewId(1)} : Steps'[j] = Steps[j]
      /\ Steps'[ReviewId(1)] = "running"
  BY <1>2, <1>5, <1>7, ReviewBegins
<1>9. \A r \in Reviewers : Steps'[ReviewId(r)] \in ReviewShown(r)'
  BY <1>1, <1>2, <1>6, <1>7, <1>8, Apart, Identities DEF ReviewShown
<1>10. \A i \in Contexts : Steps'[ContextId(i)] = ContextShown[step'[i]]
  BY <1>1, <1>2, <1>8, Apart, Identities DEF Mirrors
<1>11. \A j \in {Plan!Interpret, Plan!BuildPlan, Plan!Memory, Plan!Synthesis} :
         Steps'[j] = Steps[j]
  BY <1>2, <1>8, Apart, Identities
<1> QED  BY <1>1, <1>4, <1>8, <1>9, <1>10, <1>11 DEF Mirrors, MemorySettled, SynthesisShown

\* The answer is written: the synthesis is shown as passed, and the run's own
\* event, which names the same step, does not take that back.
LEMMA AnswerTold ==
  ASSUME TypeInv, Mirrors, NEW cited, Synthesizes(cited),
         record \in Paced, record' = PublishAll(record, Emitted)
  PROVE  Mirrors'
<1>1. /\ trace' = trace \o <<Ev("synthesis", 0, "synthesis", "passed"),
                             Ev("synthesis", 0, "run", "completed")>>
      /\ phase = "synthesis" /\ phase' = "saving"
      /\ UNCHANGED <<step, reviewer, approved>>
  BY DEF Synthesizes, contextVars, localVars, reviewVars
<1>2. /\ Ev("synthesis", 0, "synthesis", "passed") \in Events
      /\ Ev("synthesis", 0, "run", "completed") \in Events
      /\ Plan!ValidPair("synthesis", "passed") /\ Plan!ValidPair("run", "completed")
  BY DEF Ev, Events, Plan!ValidPair, Plan!Pairs
<1>3. Publishes(<<Ev("synthesis", 0, "synthesis", "passed"),
                  Ev("synthesis", 0, "run", "completed")>>)
  BY <1>1 DEF Publishes, TypeInv, TypeOK
<1> DEFINE passed == StepTaken(Steps, Plan!Synthesis, "synthesis", "passed")
<1>4. /\ record'.retentionSet = record.retentionSet
      /\ Steps' = StepTaken(passed, Plan!Synthesis, "run", "completed")
  BY <1>2, <1>3, TwoShown DEF Plan!Synthesis
<1>5. DOMAIN Steps = StepIds /\ Steps[Plan!Synthesis] = "running" /\ Plan!Synthesis \in StepIds
  BY <1>1, Identities DEF Mirrors, SynthesisShown
<1>6. Plan!StepAfter("running", "synthesis", "passed") = "passed" /\ ~Plan!Terminal("running")
  BY TerminalStatuses DEF Plan!StepAfter
<1>7. /\ DOMAIN passed = StepIds
      /\ \A j \in StepIds \ {Plan!Synthesis} : passed[j] = Steps[j]
      /\ passed[Plan!Synthesis] = "passed"
  BY <1>5, <1>6, OthersShown
<1> HIDE DEF passed
<1>8. /\ DOMAIN Steps' = StepIds
      /\ \A j \in StepIds \ {Plan!Synthesis} : Steps'[j] = Steps[j]
      /\ Steps'[Plan!Synthesis] = "passed"
  BY <1>4, <1>5, <1>7, OthersShown, TerminalStatuses
<1>9. \A r \in Reviewers : Steps'[ReviewId(r)] \in ReviewShown(r)'
  BY <1>1, <1>8, Apart, Identities DEF Mirrors, ReviewShown
<1>10. \A i \in Contexts : Steps'[ContextId(i)] = ContextShown[step'[i]]
  BY <1>1, <1>8, Apart, Identities DEF Mirrors
<1>11. \A j \in {Plan!Interpret, Plan!BuildPlan, Plan!Memory} : Steps'[j] = Steps[j]
  BY <1>8, Apart, Identities
<1> QED  BY <1>1, <1>4, <1>8, <1>9, <1>10, <1>11 DEF Mirrors, MemorySettled, SynthesisShown

\* AcceptPlan puts the plan's own projection in place of the pending one while
\* no event is numbered yet.
LEMMA Adopted ==
  ASSUME record \in Paced, record.nextSequence = 0, ~record.retentionSet
  PROVE  LET plan == Adopt(record).execution IN
         /\ Adopt(record) \in Paced /\ Adopt(record).retentionSet
         /\ DOMAIN plan.steps = StepIds
         /\ plan.steps[Plan!Interpret] = "passed" /\ plan.steps[Plan!BuildPlan] = "passed"
         /\ \A id \in PlanIds : plan.steps[id] = "pending"
         /\ ~Keeping => Plan!Terminal(plan.steps[Plan!Memory])
<1> DEFINE first == [record EXCEPT !.execution = Plan!FromPlan]
           steps == [id \in PlanIds \cup {Plan!Interpret, Plan!BuildPlan} |->
                       IF id \in PlanIds THEN "pending" ELSE "passed"]
<1>1. Plan!FromPlan = [status |-> "running", last |-> 0, steps |-> steps]
  BY DEF Plan!FromPlan, PlanIds, ContextId, ReviewId, Plan!Synthesis
<1>2. /\ steps \in [PlanIds \cup {Plan!Interpret, Plan!BuildPlan} -> Plan!Statuses]
      /\ PlanIds \cup {Plan!Interpret, Plan!BuildPlan} \in SUBSET StepIds
  BY TerminalStatuses DEF StepIds
<1>3. "running" \in Plan!Statuses
  BY TerminalStatuses
<1>4. Plan!FromPlan \in Projections
  <2> HIDE DEF steps
  <2> QED  BY <1>1, <1>2, <1>3 DEF Projections
<1>5. /\ first \in Paced /\ first.execution = Plan!FromPlan /\ ~first.retentionSet
  BY <1>1, <1>4 DEF Paced, Records
<1>6. /\ DOMAIN Plan!FromPlan.steps = PlanIds \cup {Plan!Interpret, Plan!BuildPlan}
      /\ \A id \in PlanIds : Plan!FromPlan.steps[id] = "pending"
      /\ \A id \in {Plan!Interpret, Plan!BuildPlan} \ PlanIds : Plan!FromPlan.steps[id] = "passed"
  BY <1>1
<1>7. Plan!Interpret \notin PlanIds /\ Plan!BuildPlan \notin PlanIds /\ Plan!Memory \notin PlanIds
  BY Apart DEF PlanIds
<1>8. Plan!Memory \notin {Plan!Interpret, Plan!BuildPlan}
  BY Apart
<1> DEFINE next == InitializeRetention(first)
<1>9. /\ next \in Paced
      /\ DOMAIN first.execution.steps \subseteq DOMAIN next.execution.steps
      /\ DOMAIN next.execution.steps \subseteq DOMAIN first.execution.steps \cup {Plan!Memory}
      /\ \A j \in DOMAIN first.execution.steps \ {Plan!Memory} :
           next.execution.steps[j] = first.execution.steps[j]
      /\ next.retentionSet
      /\ Plan!Memory \in DOMAIN next.execution.steps
      /\ ~Keeping => Plan!Terminal(next.execution.steps[Plan!Memory])
  <2> HIDE DEF first
  <2> QED  BY <1>5, RetentionStarts
<1>10. Adopt(record) = next
  BY DEF Adopt
<1> HIDE DEF first, next
<1>11. DOMAIN next.execution.steps = StepIds
  BY <1>5, <1>6, <1>9 DEF StepIds
<1> QED  BY <1>5, <1>6, <1>7, <1>8, <1>9, <1>10, <1>11

\* The plan is accepted: what it announces of itself is already shown, and
\* the wave it opens has not begun to work.
LEMMA PlanTold ==
  ASSUME TypeInv, SafeInv, AcceptPlan,
         record \in Paced, record.nextSequence = 0, ~record.retentionSet,
         record' = PublishAll(Adopt(record), Emitted)
  PROVE  Mirrors'
<1> DEFINE start == Adopt(record)
           a == Ev("interpret-request", 0, "interpretation", "completed")
           b == Ev("build-plan", 0, "planning", "completed")
           c == Ev("", 0, "plan", "accepted")
           before == <<a, b, c>>
<1>1. /\ start \in Paced /\ start.retentionSet
      /\ DOMAIN start.execution.steps = StepIds
      /\ start.execution.steps[Plan!Interpret] = "passed"
      /\ start.execution.steps[Plan!BuildPlan] = "passed"
      /\ \A id \in PlanIds : start.execution.steps[id] = "pending"
      /\ ~Keeping => Plan!Terminal(start.execution.steps[Plan!Memory])
  BY Adopted
<1>2. PICK w \in Waves :
        /\ trace' = trace \o before \o <<Ev("wave", w, "wave", "started")>>
        /\ Spawn(Batch(w))
  BY DEF AcceptPlan, OpenWave
<1> DEFINE d == Ev("wave", w, "wave", "started")
           last == <<d>>
           events == before \o last
<1>3. w \in Nat
  BY DEF Waves
<1>4. a \in Events /\ b \in Events /\ c \in Events /\ d \in Events
  BY <1>3 DEF Ev, Events
<1>5. /\ before \in Seq(Events) /\ last \in Seq(Events)
      /\ trace \in Seq(Events) /\ trace' = trace \o before \o last
      /\ \A n \in DOMAIN before : before[n] \in {a, b, c}
      /\ \A n \in DOMAIN last : last[n] = d
  <2>1. before \in Seq(Events) /\ last \in Seq(Events)
    BY <1>4, OneEvent, ThreeEvents
  <2>2. trace \in Seq(Events)
    BY DEF TypeInv, TypeOK
  <2>3. ASSUME NEW n \in DOMAIN before PROVE before[n] \in {a, b, c}
    <3> HIDE DEF a, b, c
    <3> QED  BY <2>3, AmongThree
  <2>4. ASSUME NEW n \in DOMAIN last PROVE last[n] = d
    <3>1. n = 1
      OBVIOUS
    <3> QED  BY <3>1
  <2> HIDE DEF before, last
  <2>5. trace' = trace \o before \o last
    BY <1>2 DEF last
  <2> QED  BY <2>1, <2>2, <2>3, <2>4, <2>5
<1> HIDE DEF before, last
<1>6. /\ events \in Seq(Events) /\ Emitted = events
      /\ \A n \in DOMAIN events : events[n] \in {a, b, c, d}
  <2>1. events \in Seq(Events) /\ trace' = trace \o events
    <3> HIDE DEF a, b, c, d
    <3>1. before \o last \in Seq(Events)
      BY <1>5, ConcatProperties
    <3>2. (trace \o before) \o last = trace \o (before \o last)
      BY <1>5, ConcatAssociative
    <3> QED  BY <1>5, <3>1, <3>2
  <2>2. ASSUME NEW n \in DOMAIN events PROVE events[n] \in {a, b, c, d}
    <3> HIDE DEF a, b, c, d
    <3>1. \/ n \in DOMAIN before /\ events[n] = before[n]
          \/ n - Len(before) \in DOMAIN last /\ events[n] = last[n - Len(before)]
      BY <1>5, FromEither
    <3> QED  BY <1>5, <3>1
  <2>3. Emitted = events
    <3> HIDE DEF events
    <3> QED  BY <1>5, <2>1, EmittedIs
  <2> QED  BY <2>1, <2>2, <2>3
<1> HIDE DEF events
<1> DEFINE Good == {r \in Paced :
                      r.retentionSet /\ r.execution.steps = start.execution.steps}
<1>7. ASSUME NEW r \in Good, NEW e \in {a, b, c, d} PROVE Publish(r, e) \in Good
  <2>1. /\ r \in Paced /\ r.retentionSet
        /\ DOMAIN r.execution.steps = StepIds
        /\ r.execution.steps[Plan!Interpret] = "passed"
        /\ r.execution.steps[Plan!BuildPlan] = "passed"
        /\ r.execution \in Projections
    BY <1>1 DEF Paced, Records
  <2>2. e \in LiveEvents
    BY <1>4, EventsAreLive
  <2>3. <<"wave", w>> \notin DOMAIN r.execution.steps
    BY <1>3, <2>1, NoStep
  <2>4. Quiet(r, e)
    <3> HIDE DEF start, Good
    <3>1. Plan!Terminal("passed")
      BY TerminalStatuses
    <3>2. CASE e = a
      BY <2>1, <3>1, <3>2 DEF Quiet, Ev, Plan!Interpret
    <3>3. CASE e = b
      BY <2>1, <3>1, <3>3 DEF Quiet, Ev, Plan!BuildPlan
    <3>4. CASE e = c
      BY <3>4 DEF Quiet, Ev
    <3>5. CASE e = d
      BY <2>3, <3>5 DEF Quiet, Ev
    <3> QED  BY <3>2, <3>3, <3>4, <3>5
  <2> HIDE DEF start, a, b, c, d
  <2>5. /\ Publish(r, e) \in Paced
        /\ Publish(r, e).retentionSet = r.retentionSet
        /\ Publish(r, e).execution.steps = r.execution.steps
    BY <2>1, <2>2, <2>4, QuietPublished
  <2> QED  BY <2>1, <2>5
<1>8. record' \in Good
  <2>1. start \in Good /\ events \in Seq(LiveEvents)
    BY <1>1, <1>6, EventsAreLive
  <2> HIDE DEF Good, a, b, c, d
  <2>2. \A r \in Good : \A n \in DOMAIN events : Publish(r, events[n]) \in Good
    BY <1>6, <1>7
  <2>3. PublishAll(start, events) \in Good
    <3> HIDE DEF start
    <3> QED  BY <2>1, <2>2, AllKept
  <2> QED  BY <1>6, <2>3
<1>9. Steps' = start.execution.steps /\ record'.retentionSet
  BY <1>8 DEF Steps
<1> HIDE DEF start, Good
<1>10. /\ phase = "request" /\ phase' = "contexts" /\ UNCHANGED <<approved, reviewer>>
       /\ \A i \in Contexts : step'[i] \in {"pending", "spawned"}
  <2>1. \A i \in Contexts : step[i] = "pending"
    BY DEF AcceptPlan, SafeInv, ContextInv
  <2> QED  BY <1>2, <2>1 DEF AcceptPlan, Spawn, localVars, reviewVars
<1>11. \A r \in Reviewers : approved[r] = {} /\ r # reviewer
  BY <1>10, PlanAssumption DEF SafeInv, PhaseInv, Reviewers
<1>12. \A i \in Contexts : ContextId(i) \in PlanIds /\ ContextShown[step'[i]] = "pending"
  BY <1>10 DEF PlanIds, ContextShown
<1>13. \A r \in Reviewers : ReviewId(r) \in PlanIds /\ ReviewShown(r)' = {"pending"}
  BY <1>10, <1>11 DEF PlanIds, ReviewShown
<1>14. Plan!Synthesis \in PlanIds /\ SynthesisShown' = "pending"
  BY <1>10 DEF PlanIds, SynthesisShown
<1> QED  BY <1>1, <1>9, <1>12, <1>13, <1>14 DEF Mirrors, MemorySettled

\* A goroutine appends its event to the trace, and the server publishes it.
LEMMA GoroutineTold ==
  ASSUME TypeInv, Mirrors, NEW i \in Contexts, NEW what, NEW now,
         CourseOf(i, what, now),
         step' = [step EXCEPT ![i] = now],
         UNCHANGED <<phase, approved, reviewer>>,
         trace' = Append(trace, Ev("context", i, "context", what)),
         record \in Paced, record' = PublishAll(record, Emitted)
  PROVE  Mirrors'
<1> DEFINE event == Ev("context", i, "context", what)
<1>1. what \in {"started", "completed", "failed"}
  BY DEF CourseOf
<1>2. event \in Events /\ Plan!ValidPair("context", what)
  BY <1>1, PlanAssumption DEF Ev, Events, Contexts, Plan!ValidPair, Plan!Pairs
<1>3. Publishes(<<event>>)
  <2> HIDE DEF event
  <2>1. trace \in Seq(Events)
    BY DEF TypeInv, TypeOK
  <2>2. Append(trace, event) = trace \o <<event>>
    BY <1>2, <2>1
  <2> QED  BY <2>1, <2>2 DEF Publishes, event
<1>4. /\ record'.retentionSet = record.retentionSet
      /\ Steps' = StepTaken(Steps, ContextId(i), "context", what)
  BY <1>2, <1>3, OneShown DEF ContextId
<1>5. step \in [Contexts -> {"pending", "spawned", "calling", "skipped", "ok", "failed"}]
  BY DEF TypeInv, TypeOK
<1> HIDE DEF event
<1> QED  BY <1>4, <1>5, ContextTold

\* A step of the run that emits nothing and moves nothing clients see.
LEMMA Silent ==
  ASSUME TypeInv, Mirrors, UNCHANGED <<trace, approved, reviewer>>,
         \A i \in Contexts : ContextShown[step'[i]] = ContextShown[step[i]],
         SynthesisShown' = SynthesisShown,
         record \in Paced, record' = PublishAll(record, Emitted)
  PROVE  Mirrors'
<1>1. record' = record
  BY NoneShown DEF TypeInv, TypeOK
<1> QED  BY <1>1, NothingTold DEF Steps

\* A reviewer that asks for more work leaves its step at repair.
LEMMA WorkAsked ==
  ASSUME TypeInv, SafeInv, Mirrors, NEW rep, AsksRepair(rep) \/ Narrows(rep),
         record \in Paced, record' = PublishAll(record, Emitted)
  PROVE  Mirrors'
<1>1. PICK what \in {"repair_requested", "narrowed"} : trace' = Append(trace, Reviewed(what))
  BY DEF AsksRepair, Narrows
<1>2. /\ reviewer \in Reviewers /\ phase = "review" /\ reviewer \in Nat
      /\ approved[reviewer] = {}
      /\ UNCHANGED <<phase, step, approved, reviewer>>
  BY PlanAssumption
     DEF AsksRepair, Narrows, Replied, TypeInv, SafeInv, ReleaseInv, ReviewInv,
         contextVars, reviewVars, Reviewers
<1> DEFINE event == Ev("review", reviewer, "review", what)
<1>3. event \in Events /\ Plan!ValidPair("review", what)
  BY <1>1, <1>2 DEF Ev, Events, Plan!ValidPair, Plan!Pairs
<1>4. Publishes(<<event>>)
  <2>1. trace \in Seq(Events)
    BY DEF TypeInv, TypeOK
  <2>2. trace' = Append(trace, event)
    BY <1>1 DEF Reviewed
  <2> HIDE DEF event
  <2>3. Append(trace, event) = trace \o <<event>>
    BY <1>3, <2>1
  <2> QED  BY <2>1, <2>2, <2>3 DEF Publishes
<1>5. /\ record'.retentionSet = record.retentionSet
      /\ Steps' = StepTaken(Steps, ReviewId(reviewer), "review", what)
  BY <1>1, <1>3, <1>4, OneShown DEF ReviewId
<1> HIDE DEF event
<1> QED  BY <1>1, <1>2, <1>5, RepairTold

\* A step of the run that is no failure leaves a plan that mirrors it.
LEMMA StepMirrors ==
  ASSUME TypeInv, SafeInv, TypeInv', SafeInv', LiveInv, stage = "running", RunStep,
         phase' = "done" => result' = "answered",
         record' = PublishAll(IF phase = "request" /\ phase' = "contexts"
                              THEN Adopt(record) ELSE record, Emitted)
  PROVE  Mirrors'
<1> USE DEF contextVars, localVars, reviewVars, endVars
<1>1. CASE AcceptPlan
  <2>1. phase = "request" /\ phase' = "contexts"
    BY <1>1 DEF AcceptPlan
  <2>2. record \in Paced /\ record.nextSequence = 0 /\ ~record.retentionSet
    BY <2>1 DEF LiveInv, StageInv
  <2>3. record' = PublishAll(Adopt(record), Emitted)
    BY <2>1
  <2> QED  BY <1>1, <2>2, <2>3, PlanTold
<1>2. ASSUME ~AcceptPlan PROVE Mirrors'
  <2>1. ~RefuseRequest /\ ~AskClarification /\ ~ContextUnavailable /\ ~ReviewFails
        /\ ~SynthesisFails /\ ~TraceLost /\ ~\E rep : ReviewRejects(rep)
    BY FailuresEnd
  <2>2. phase \notin {"request", "done"}
    <3>1. \A i \in Contexts : ContextStep(i) => step[i] \in {"spawned", "calling"}
      BY DEF ContextStep, StartContext, ContextDelivers, RetryContext, ContextFails
    <3>2. \A i \in Contexts : ContextStep(i) => phase = "contexts"
      BY <3>1 DEF SafeInv, ContextInv, Joined
    <3>3. WaveStep => phase = "contexts"
      BY DEF WaveStep, NextBatch, NextWave, ContextUnavailable, StartReviews, WaveDone
    <3>4. RetryCall \/ ReviewReply => phase \in {"review", "synthesis"}
      BY DEF RetryCall, ReviewReply, ReviewApproves, ReviewApprovesSubset, AsksRepair,
             Narrows, ReviewRejects, Replied
    <3>5. SynthesisStep \/ SaveTrace => phase \in {"synthesis", "saving"}
      BY DEF SynthesisStep, Synthesizes, SynthesisFails, SaveTrace
    <3> QED  BY <1>2, <2>1, <3>2, <3>3, <3>4, <3>5 DEF RunStep
  <2>3. Mirrors /\ record \in Paced /\ record' = PublishAll(record, Emitted)
    BY <2>2 DEF LiveInv, MirrorInv
  <2>4. ASSUME NEW i \in Contexts, ContextStep(i) PROVE Mirrors'
    <3>1. CASE StartContext(i) /\ ctx = "live"
      <4>1. CourseOf(i, "started", "calling")
        BY <3>1 DEF CourseOf, StartContext
      <4> QED  BY <2>3, <3>1, <4>1, GoroutineTold DEF StartContext
    <3>2. CASE StartContext(i) /\ ctx # "live"
      <4>1. \A j \in Contexts : ContextShown[step'[j]] = ContextShown[step[j]]
        BY <3>2 DEF StartContext, ContextShown, TypeInv, TypeOK
      <4>2. SynthesisShown' = SynthesisShown
        BY <3>2 DEF StartContext, SynthesisShown
      <4> QED  BY <2>3, <3>2, <4>1, <4>2, Silent DEF StartContext
    <3>3. ASSUME NEW claims, ContextDelivers(i, claims) PROVE Mirrors'
      <4>1. CourseOf(i, "completed", "ok")
        BY <3>3 DEF CourseOf, ContextDelivers
      <4> QED  BY <2>3, <3>3, <4>1, GoroutineTold DEF ContextDelivers
    <3>4. CASE ContextFails(i)
      <4>1. CourseOf(i, "failed", "failed")
        BY <3>4 DEF CourseOf, ContextFails
      <4> QED  BY <2>3, <3>4, <4>1, GoroutineTold DEF ContextFails
    <3>5. CASE RetryContext(i)
      BY <2>3, <3>5, Silent DEF RetryContext, SynthesisShown
    <3> QED  BY <2>4, <3>1, <3>2, <3>3, <3>4, <3>5 DEF ContextStep
  <2>5. CASE NextBatch
    <3>1. \A j \in Contexts : ContextShown[step'[j]] = ContextShown[step[j]]
      BY <2>5 DEF NextBatch, Spawn, Batch, Pending, InWave, ContextShown, TypeInv, TypeOK
    <3>2. SynthesisShown' = SynthesisShown
      BY <2>5 DEF NextBatch, SynthesisShown
    <3> QED  BY <2>3, <2>5, <3>1, <3>2, Silent DEF NextBatch
  <2>6. CASE NextWave
    BY <2>3, <2>6, NextWaveTold
  <2>7. CASE StartReviews
    BY <2>3, <2>7, FirstReviewTold
  <2>8. CASE RetryCall
    BY <2>3, <2>8, Silent DEF RetryCall, SynthesisShown
  <2>9. ASSUME NEW rep, ReviewApproves(rep) PROVE Mirrors'
    <3>1. phase = "review" /\ CloseReview(history \cup {rep}, working, rep.approved, "approve")
      BY <2>9 DEF ReviewApproves, Replied
    <3> QED  BY <2>3, <3>1, CloseTold
  <2>10. ASSUME NEW rep, ReviewApprovesSubset(rep) PROVE Mirrors'
    <3> DEFINE approval == [rep EXCEPT !.decision = "approve", !.rejected = {}]
    <3>1. /\ phase = "review"
          /\ CloseReview(history \cup {rep, approval}, working \cap rep.approved,
                         approval.approved, "approved_subset")
      BY <2>10 DEF ReviewApprovesSubset, Replied
    <3> HIDE DEF approval
    <3> QED  BY <2>3, <3>1, CloseTold
  <2>11. ASSUME NEW rep, AsksRepair(rep) \/ Narrows(rep) PROVE Mirrors'
    BY <2>3, <2>11, WorkAsked
  <2>12. ASSUME NEW cited, Synthesizes(cited) PROVE Mirrors'
    BY <2>3, <2>12, AnswerTold
  <2>13. CASE SaveTrace
    BY <2>3, <2>13, Silent DEF SaveTrace, SynthesisShown
  <2> QED  BY <1>2, <2>1, <2>4, <2>5, <2>6, <2>7, <2>8, <2>9, <2>10, <2>11, <2>12, <2>13
           DEF RunStep, WaveStep, ReviewReply, SynthesisStep
<1> QED  BY <1>1, <1>2

\* A step of the server is a step of the run, or leaves the run alone.
LEMMA LiveStepIsStep == [LiveNext]_liveVars => [Next]_vars
BY DEF LiveNext, ServerStep, Admit, Refuse, Execute, ContextDies, FailRun, KeepCase,
       CommitRun, DeleteCase, MarkCaseDeleted, ShowDeleted, Next, liveVars

\* Only the synthesis leads to an answer, and a call of the synthesis that can
\* succeed was begun when every context step had come to an outcome.
LEMMA StepAnswered ==
  ASSUME TypeInv, SafeInv, FlowInv, AnsweredInv, [Next]_vars
  PROVE  AnsweredInv'
<1> USE DEF contextVars, localVars, reviewVars, endVars
<1>1. CASE UNCHANGED <<phase, step, result>>
  BY <1>1 DEF AnsweredInv, Resolved
<1>2. CASE RefuseRequest \/ AskClarification \/ ContextUnavailable \/ ReviewFails
           \/ SynthesisFails \/ TraceLost \/ \E rep : ReviewRejects(rep)
  BY <1>2, FailuresEnd DEF AnsweredInv
<1>3. CASE AcceptPlan \/ NextBatch \/ NextWave \/ StartReviews \/ WaveStep
           \/ \E i \in Contexts : ContextStep(i)
  <2>1. phase \in {"request", "contexts"}
    BY <1>3 DEF AcceptPlan, NextBatch, NextWave, StartReviews, WaveDone, WaveStep,
                ContextUnavailable, ContextStep, StartContext, ContextDelivers,
                RetryContext, ContextFails, SafeInv, ContextInv, Joined
  <2>2. \/ phase' \notin {"saving", "done"} /\ result' = result
        \/ ContextUnavailable
    BY <1>3, <2>1 DEF AcceptPlan, NextBatch, NextWave, StartReviews, WaveStep, EnterReview,
                ContextStep, StartContext, ContextDelivers, RetryContext, ContextFails
  <2>3. result # "answered"
    BY <2>1 DEF SafeInv, PhaseInv
  <2> QED  BY <1>2, <2>2, <2>3 DEF AnsweredInv
<1>4. CASE RetryCall \/ \E rep : ReviewApproves(rep) \/ ReviewApprovesSubset(rep)
                                 \/ AsksRepair(rep) \/ Narrows(rep)
  <2>1. phase \in {"review", "synthesis"} /\ phase' \in {"review", "synthesis"}
        /\ result' = result
    BY <1>4 DEF RetryCall, ReviewApproves, ReviewApprovesSubset, AsksRepair, Narrows,
                Replied, CloseReview, EnterReview
  <2> QED  BY <2>1 DEF AnsweredInv, SafeInv, PhaseInv
<1>5. ASSUME NEW cited, Synthesizes(cited) PROVE AnsweredInv'
  BY <1>5 DEF Synthesizes, AnsweredInv, FlowInv, CallInv, Resolved
<1>6. CASE SaveTrace
  BY <1>6 DEF SaveTrace, AnsweredInv, Resolved
<1> QED
  BY <1>1, <1>2, <1>3, <1>4, <1>5, <1>6
     DEF Next, RunStep, WaveStep, ReviewReply, SynthesisStep, Cancel, Expire, vars

\* Whatever a step of the run emits, the server can publish it.
LEMMA EmittedType ==
  ASSUME TypeInv, TypeInv'
  PROVE  Emitted \in Seq(LiveEvents)
<1>1. trace \in Seq(Events) /\ trace' \in Seq(Events)
  BY DEF TypeInv, TypeOK
<1> HIDE DEF Events
<1>2. Emitted \in Seq(Events)
  BY <1>1 DEF Emitted
<1> QED  BY <1>2, EventsAreLive

\* A run that ends without an answer is shown as it ended, whatever its plan
\* had come to.
LEMMA Stops ==
  ASSUME LiveInv, AnsweredInv', NEW outcome \in {"failed", "cancelled"},
         Terminate(InitializeRetention(record), outcome, retention),
         phase' \in {"request", "done"}, UNCHANGED caseVars
  PROVE  LiveInv'
<1> DEFINE rec == InitializeRetention(record)
<1>1. rec \in Paced
  BY RetentionStarts DEF LiveInv
<1> HIDE DEF rec
<1>2. /\ record' \in Paced
      /\ stage' = "ended" /\ status' = outcome
      /\ record'.execution.status = outcome
      /\ \A id \in DOMAIN Steps' : Plan!Terminal(Steps'[id])
  <2>1. Terminate(rec, outcome, retention)
    BY DEF rec
  <2> QED  BY <1>1, <2>1, Terminates
<1>3. StageInv'
  BY <1>2 DEF StageInv
<1>4. MirrorInv' /\ CommitInv'
  BY <1>2 DEF MirrorInv, CommitInv
<1>5. EndInv'
  BY <1>2 DEF EndInv, ViewMatchesPlan
<1> QED  BY <1>2, <1>3, <1>4, <1>5 DEF LiveInv

\* A step of Runtime.Run, and what the server publishes of it.
LEMMA ExecuteKeeps ==
  ASSUME TypeInv, SafeInv, TypeInv', SafeInv', LiveInv, AnsweredInv', Execute
  PROVE  LiveInv'
<1>1. /\ stage = "running" /\ RunStep
      /\ record' = PublishAll(IF phase = "request" /\ phase' = "contexts"
                              THEN Adopt(record) ELSE record, Emitted)
      /\ UNCHANGED <<stage, status, retention, saved, kept, deletion>>
  BY DEF Execute, caseVars
<1>2. record' \in Paced
  <2>1. CASE phase = "request" /\ phase' = "contexts"
    <3>1. record \in Paced /\ record.nextSequence = 0 /\ ~record.retentionSet
      BY <1>1, <2>1 DEF LiveInv, StageInv
    <3>2. Adopt(record) \in Paced
      BY <3>1, Adopted
    <3> QED  BY <1>1, <2>1, <3>2, EmittedType, AnyPublished
  <2>2. CASE ~(phase = "request" /\ phase' = "contexts")
    BY <1>1, <2>2, EmittedType, AnyPublished DEF LiveInv
  <2> QED  BY <2>1, <2>2
<1>3. phase' # "request"
  <2>1. \A i \in Contexts : ContextStep(i) => phase' = phase /\ phase # "request"
    BY DEF ContextStep, StartContext, ContextDelivers, RetryContext, ContextFails,
           SafeInv, ContextInv, Joined
  <2> QED
    BY <1>1, <2>1
       DEF RunStep, WaveStep, ReviewReply, SynthesisStep, RefuseRequest, AskClarification,
           AcceptPlan, NextBatch, NextWave, StartReviews, WaveDone, ContextUnavailable,
           RetryCall, ReviewApproves, ReviewApprovesSubset, AsksRepair, Narrows,
           ReviewRejects, Replied, CloseReview, EnterReview, ReviewFails, Synthesizes,
           SynthesisFails, SaveTrace, TraceLost, Fail
<1>4. MirrorInv'
  BY <1>1, StepMirrors DEF MirrorInv
<1>5. StageInv'
  BY <1>1, <1>3 DEF LiveInv, StageInv
<1>6. CommitInv' /\ EndInv'
  BY <1>1 DEF LiveInv, CommitInv, EndInv
<1> QED  BY <1>2, <1>4, <1>5, <1>6 DEF LiveInv

\* complete marks the plan: every step of an answered run passed or degraded,
\* so nothing is left for the terminal event to stop.
LEMMA KeepCaseKeeps ==
  ASSUME TypeInv, SafeInv, LiveInv, AnsweredInv', KeepCase
  PROVE  /\ LiveInv' /\ Steps' = Steps
<1> DEFINE plan == record.execution
           done == [plan EXCEPT !.status = "passed"]
<1>1. /\ stage = "running" /\ phase = "done" /\ result = "answered"
      /\ stage' = "committing"
      /\ record' = [record EXCEPT !.execution = Plan!MarkCompleted(plan)]
      /\ UNCHANGED <<vars, status, retention, deletion>>
  BY DEF KeepCase
<1>2. Mirrors /\ Resolved /\ record \in Paced
  BY <1>1 DEF LiveInv, MirrorInv, AnsweredInv
<1>3. plan \in Projections /\ DOMAIN plan.steps = StepIds /\ plan.steps[Plan!Synthesis] = "passed"
  BY <1>1, <1>2 DEF Paced, Records, Mirrors, Steps, SynthesisShown
<1>4. \A id \in StepIds \ {Plan!Memory} : plan.steps[id] \in {"passed", "degraded"}
  <2>1. \A i \in Contexts : plan.steps[ContextId(i)] \in {"passed", "degraded"}
    BY <1>2 DEF Mirrors, Steps, Resolved, ContextShown
  <2>2. \A r \in Reviewers : plan.steps[ReviewId(r)] \in {"passed", "degraded"}
    BY <1>1, <1>2 DEF Mirrors, Steps, ReviewShown, SafeInv, ReleaseInv, VerdictInv, Past
  <2>3. \A id \in {Plan!Interpret, Plan!BuildPlan, Plan!Synthesis} : plan.steps[id] = "passed"
    BY <1>2, <1>3 DEF Mirrors, Steps
  <2> QED  BY <2>1, <2>2, <2>3 DEF StepIds, PlanIds
<1>5. /\ done \in Projections /\ done.steps = plan.steps /\ done.status = "passed"
      /\ done.last = plan.last
  BY <1>3, ProjectionFrom, ProjectionParts, TerminalStatuses DEF Projections
<1>6. Plan!Unblocked(done)
  BY <1>3, <1>4, <1>5 DEF Plan!Unblocked
<1>7. Plan!MarkCompleted(plan) = done
  <2> DEFINE steps == [id \in DOMAIN plan.steps |->
                         IF id = Plan!Synthesis /\ ~Plan!Terminal(plan.steps[id])
                         THEN "passed" ELSE plan.steps[id]]
  <2>1. steps = plan.steps
    <3>1. plan.steps = [id \in DOMAIN plan.steps |-> plan.steps[id]]
      BY <1>3, ProjectionParts
    <3>2. \A id \in DOMAIN plan.steps : steps[id] = plan.steps[id]
      BY <1>3, TerminalStatuses
    <3> QED  BY <3>1, <3>2
  <2>2. [plan EXCEPT !.status = "passed", !.steps = plan.steps] = done
    BY <1>3 DEF Projections
  <2> HIDE DEF plan, done
  <2> QED  BY <1>6, <2>1, <2>2 DEF Plan!MarkCompleted
<1>8. /\ record' \in Paced /\ record'.execution = done
      /\ record'.retentionSet = record.retentionSet
  <2> HIDE DEF done
  <2> QED  BY <1>1, <1>2, <1>5, <1>6, <1>7 DEF Paced, Records
<1>9. Steps' = Steps /\ Plan!Unblocked(record'.execution)
  BY <1>5, <1>6, <1>8 DEF Steps
<1>10. saved' \in IF Keeping THEN {"saved", "failed"} ELSE {RetentionInitialStatus}
  BY DEF KeepCase
<1> HIDE DEF plan, done
<1>11. CommitInv'
  BY <1>2, <1>8, <1>9, <1>10 DEF CommitInv, Mirrors, MemorySettled, Keeping, RetentionInitialStatus
<1>12. StageInv' /\ MirrorInv' /\ EndInv'
  BY <1>1 DEF LiveInv, StageInv, MirrorInv, EndInv, vars, endVars
<1> QED  BY <1>8, <1>9, <1>11, <1>12 DEF LiveInv

\* The terminal event of an answered run finds nothing that blocks it, so the
\* run is shown as completed and its plan as passed.
LEMMA CommitKeeps ==
  ASSUME LiveInv, AnsweredInv', CommitRun
  PROVE  /\ LiveInv'
         /\ \A id \in DOMAIN Steps \ {Plan!Memory} : Steps'[id] = Steps[id]
<1> DEFINE rec == IF Keeping THEN Publish(record, Retention(saved)) ELSE record
<1>1. /\ stage = "committing" /\ Terminate(rec, "completed", saved)
      /\ UNCHANGED <<vars, caseVars>>
  BY DEF CommitRun
<1>2. /\ record \in Paced /\ DOMAIN Steps = StepIds
      /\ Plan!Unblocked(record.execution) /\ MemorySettled
      /\ saved \in IF Keeping THEN {"saved", "failed"} ELSE {RetentionInitialStatus}
  BY <1>1 DEF LiveInv, CommitInv
<1>3. /\ rec \in Paced /\ DOMAIN rec.execution.steps = StepIds
      /\ \A j \in StepIds \ {Plan!Memory} : rec.execution.steps[j] = Steps[j]
      /\ Plan!Terminal(rec.execution.steps[Plan!Memory])
  <2>1. CASE Keeping
    <3>1. saved \in {"saved", "failed"} /\ saved \in Plan!Pairs.retention
      BY <1>2, <2>1 DEF Plan!Pairs
    <3>2. Plan!Terminal(Plan!MemoryAfter[saved])
      BY <3>1, TerminalStatuses DEF Plan!MemoryAfter
    <3> DEFINE next == Publish(record, Retention(saved))
    <3>3. /\ next \in Paced
          /\ DOMAIN next.execution.steps = DOMAIN record.execution.steps \cup {Plan!Memory}
          /\ \A j \in DOMAIN record.execution.steps \ {Plan!Memory} :
               next.execution.steps[j] = record.execution.steps[j]
          /\ next.execution.steps[Plan!Memory] = Plan!MemoryAfter[saved]
      BY <1>2, <3>1, RetentionPublished
    <3>4. rec = next
      BY <2>1
    <3> HIDE DEF rec, next
    <3> QED  BY <1>2, <3>2, <3>3, <3>4, Identities DEF Steps
  <2>2. CASE ~Keeping
    BY <1>2, <2>2 DEF MemorySettled, Steps
  <2> QED  BY <2>1, <2>2
<1> HIDE DEF rec
<1>4. Plan!Unblocked(rec.execution)
  BY <1>2, <1>3 DEF Plan!Unblocked, Steps
<1>5. /\ record' \in Paced /\ stage' = "ended" /\ status' = "completed"
      /\ record'.execution.status = "passed" /\ Steps' = rec.execution.steps
  BY <1>1, <1>3, <1>4, Terminates
<1>6. DOMAIN Steps' = StepIds /\ \A id \in StepIds : Plan!Terminal(Steps'[id])
  BY <1>3, <1>4, <1>5, TerminalStatuses DEF Plan!Unblocked
<1>7. EndInv'
  BY <1>5, <1>6 DEF EndInv, ViewMatchesPlan
<1>8. StageInv' /\ MirrorInv' /\ CommitInv'
  BY <1>1, <1>5 DEF LiveInv, StageInv, MirrorInv, CommitInv, vars, caseVars
<1> QED  BY <1>2, <1>3, <1>5, <1>7, <1>8 DEF LiveInv

\* A deleted case is told of by the memory step alone.
LEMMA DeletionKeeps ==
  ASSUME LiveInv, AnsweredInv', DeleteCase \/ MarkCaseDeleted \/ ShowDeleted
  PROVE  /\ LiveInv'
         /\ \A id \in DOMAIN Steps \ {Plan!Memory} : Steps'[id] = Steps[id]
<1>1. UNCHANGED <<vars, stage, status, saved>>
  BY DEF DeleteCase, MarkCaseDeleted, ShowDeleted
<1>2. stage \in {"committing", "ended"}
  BY DEF LiveInv, StageInv, DeleteCase, MarkCaseDeleted, ShowDeleted
<1>3. StageInv'
  BY <1>1, <1>2 DEF LiveInv, StageInv, vars, endVars
<1>4. /\ record' \in Paced
      /\ record'.retentionSet = record.retentionSet
      /\ record'.execution.status = record.execution.status
      /\ \A j \in DOMAIN Steps \ {Plan!Memory} : Steps'[j] = Steps[j]
      /\ \/ Steps' = Steps
         \/ /\ DOMAIN Steps' = DOMAIN Steps \cup {Plan!Memory}
            /\ Plan!Terminal(Steps'[Plan!Memory])
  <2>1. CASE record' = record
    BY <2>1 DEF LiveInv, Steps
  <2>2. CASE record' = Publish(record, Retention("deleted"))
    <3>1. "deleted" \in Plan!Pairs.retention /\ Plan!MemoryAfter["deleted"] = "passed"
      BY DEF Plan!Pairs, Plan!MemoryAfter
    <3>2. record \in Paced
      BY DEF LiveInv
    <3> QED  BY <2>2, <3>1, <3>2, RetentionPublished, TerminalStatuses DEF Steps
  <2> QED  BY <2>1, <2>2 DEF DeleteCase, MarkCaseDeleted, ShowDeleted
<1>5. Plan!Memory \in StepIds
  BY Identities
<1>6. CommitInv'
  <2> SUFFICES ASSUME stage' = "committing" PROVE CommitInv'
    BY DEF CommitInv
  <2>1. /\ DOMAIN Steps = StepIds /\ Plan!Unblocked(record.execution) /\ MemorySettled
        /\ saved \in IF Keeping THEN {"saved", "failed"} ELSE {RetentionInitialStatus}
    BY <1>1 DEF LiveInv, CommitInv
  <2>2. DOMAIN Steps' = StepIds /\ Plan!Unblocked(record'.execution)
    BY <1>4, <1>5, <2>1 DEF Plan!Unblocked, Steps
  <2>3. MemorySettled'
    BY <1>4, <2>1 DEF MemorySettled, Keeping
  <2> QED  BY <1>1, <2>1, <2>2, <2>3 DEF CommitInv, Keeping, RetentionInitialStatus
<1>7. EndInv'
  <2>1. \A id \in DOMAIN Steps' :
          (\A j \in DOMAIN Steps : Plan!Terminal(Steps[j])) => Plan!Terminal(Steps'[id])
    BY <1>4
  <2>2. DOMAIN Steps = StepIds => DOMAIN Steps' = StepIds
    BY <1>4, <1>5
  <2> QED  BY <1>1, <1>4, <2>1, <2>2 DEF LiveInv, EndInv, ViewMatchesPlan
<1>8. MirrorInv'
  BY <1>1, <1>2 DEF MirrorInv
<1> QED  BY <1>3, <1>4, <1>6, <1>7, <1>8 DEF LiveInv

\* A run in the queue has a pending plan and counts from nothing (newRun).
LEMMA InitLive == LiveInit => LiveInv
<1> SUFFICES ASSUME LiveInit PROVE LiveInv
  OBVIOUS
<1>1. Plan!Pending \in Projections /\ Plan!Pending.last = 0 /\ Plan!Pending.status = "pending"
  <2> DEFINE steps == [id \in {Plan!Interpret, Plan!BuildPlan} |->
                         IF id = Plan!Interpret THEN "running" ELSE "pending"]
  <2>1. /\ Plan!Pending = [status |-> "pending", last |-> 0, steps |-> steps]
        /\ steps \in [{Plan!Interpret, Plan!BuildPlan} -> Plan!Statuses]
        /\ {Plan!Interpret, Plan!BuildPlan} \in SUBSET StepIds
    BY TerminalStatuses DEF Plan!Pending, StepIds
  <2> HIDE DEF steps
  <2> QED  BY <2>1, TerminalStatuses DEF Projections
<1>2. record \in Paced
  BY <1>1 DEF LiveInit, Paced, Records
<1>3. AnsweredInv /\ StageInv /\ MirrorInv /\ CommitInv /\ EndInv
  BY DEF LiveInit, Init, AnsweredInv, StageInv, MirrorInv, CommitInv, EndInv
<1> QED  BY <1>2, <1>3 DEF LiveInv

\* Every step of the run, of the server and of a deletion keeps LiveInv.
LEMMA StepLive ==
  ASSUME TypeInv, SafeInv, FlowInv, TypeInv', SafeInv', LiveInv, [LiveNext]_liveVars
  PROVE  LiveInv'
<1>1. AnsweredInv'
  BY LiveStepIsStep, StepAnswered DEF LiveInv
<1>2. CASE Admit
  BY <1>1, <1>2 DEF Admit, LiveInv, StageInv, MirrorInv, CommitInv, EndInv, ViewMatchesPlan,
                    vars, endVars, caseVars
<1>3. CASE Refuse
  <2>1. PICK outcome \in {"failed", "cancelled"} :
          Terminate(InitializeRetention(record), outcome, retention)
    BY <1>3 DEF Refuse
  <2>2. phase' \in {"request", "done"}
    BY <1>3 DEF Refuse, LiveInv, StageInv, vars
  <2> QED  BY <1>1, <1>3, <2>1, <2>2, Stops DEF Refuse
<1>4. CASE Execute
  BY <1>1, <1>4, ExecuteKeeps
<1>5. CASE ContextDies
  <2>1. UNCHANGED <<phase, step, approved, reviewer, result, stage, record, status, saved,
                    kept, deletion>>
    BY <1>5 DEF ContextDies, Cancel, Expire, contextVars, localVars, reviewVars, endVars,
                caseVars
  <2>2. (Mirrors => Mirrors') /\ (MemorySettled => MemorySettled')
    BY <2>1 DEF Mirrors, ReviewShown, SynthesisShown, MemorySettled, Steps, Keeping
  <2> QED  BY <1>1, <2>1, <2>2 DEF LiveInv, StageInv, MirrorInv, CommitInv, EndInv,
                                   ViewMatchesPlan, Steps, Keeping, RetentionInitialStatus
<1>6. CASE FailRun
  BY <1>1, <1>6, Stops DEF FailRun, vars
<1>7. CASE KeepCase
  BY <1>1, <1>7, KeepCaseKeeps
<1>8. CASE CommitRun
  BY <1>1, <1>8, CommitKeeps
<1>9. CASE DeleteCase \/ MarkCaseDeleted \/ ShowDeleted
  BY <1>1, <1>9, DeletionKeeps
<1>10. CASE UNCHANGED liveVars
  <2>1. UNCHANGED <<phase, step, approved, reviewer, result, stage, record, status, saved,
                    kept, deletion>>
    BY <1>10 DEF liveVars, vars, contextVars, localVars, reviewVars, endVars, caseVars
  <2>2. (Mirrors => Mirrors') /\ (MemorySettled => MemorySettled')
    BY <2>1 DEF Mirrors, ReviewShown, SynthesisShown, MemorySettled, Steps, Keeping
  <2> QED  BY <1>1, <2>1, <2>2 DEF LiveInv, StageInv, MirrorInv, CommitInv, EndInv,
                                   ViewMatchesPlan, Steps, Keeping, RetentionInitialStatus
<1> QED  BY <1>2, <1>3, <1>4, <1>5, <1>6, <1>7, <1>8, <1>9, <1>10 DEF LiveNext, ServerStep

-----------------------------------------------------------------------------
(* What the clients of a live run may rely on.                             *)

\* A live run is a run of the orchestrator, and whatever the plan and whatever
\* was asked of the case store, its record keeps LiveInv.
THEOREM LiveInvariant == LiveSpec => [](TypeInv /\ SafeInv /\ FlowInv /\ LiveInv)
<1>1. LiveInit => Init
  BY DEF LiveInit
<1>2. LiveSpec => [](TypeInv /\ SafeInv /\ FlowInv)
  BY <1>1, LiveStepIsStep, FlowInvariant, PTL DEF LiveSpec, Spec
<1>3. TypeInv /\ SafeInv /\ FlowInv /\ TypeInv' /\ SafeInv' /\ LiveInv
      /\ [LiveNext]_liveVars => LiveInv'
  BY StepLive
<1> QED  BY <1>2, <1>3, InitLive, PTL DEF LiveSpec

\* A live run, with its record, its projection and the operations of the case
\* store around it, still implements the release gate: an answer is released
\* only when every reviewer has endorsed, from claims all of them endorsed, and
\* a withheld one stays withheld (Runtime.Execute, as the workspace calls it).
THEOREM LiveRunImplementsReleaseGate == LiveSpec => ImplementsReleaseGate
<1>1. LiveInit => Init
  BY DEF LiveInit
<1> QED  BY <1>1, LiveStepIsStep, RunImplementsReleaseGate, PTL DEF LiveSpec, Spec

\* Whatever the run does, the plan and the stream count the same events
\* (runRecord.publish, Apply).
THEOREM PlanKeepsPaceHolds == LiveSpec => []PlanKeepsPace
<1>1. LiveInv => PlanKeepsPace
  BY DEF LiveInv, Paced, PlanKeepsPace
<1> QED  BY <1>1, LiveInvariant, PTL

\* No step that is over is taken back, by whatever the server publishes.
LEMMA StepSettles ==
  ASSUME TypeInv, SafeInv, FlowInv, TypeInv', SafeInv', LiveInv, [LiveNext]_liveVars
  PROVE  Settled(record.execution, record'.execution)
<1>1. record \in Paced /\ AnsweredInv'
  BY LiveStepIsStep, StepAnswered DEF LiveInv
<1>2. CASE Steps' = Steps
  BY <1>2 DEF Settled, Steps
<1>3. CASE Refuse \/ FailRun
  <2> DEFINE rec == InitializeRetention(record)
  <2>1. PICK outcome \in {"failed", "cancelled"} : Terminate(rec, outcome, retention)
    BY <1>3 DEF Refuse, FailRun
  <2>2. /\ rec \in Paced
        /\ DOMAIN record.execution.steps \subseteq DOMAIN rec.execution.steps
        /\ \A j \in DOMAIN record.execution.steps \ {Plan!Memory} :
             rec.execution.steps[j] = record.execution.steps[j]
    BY <1>1, RetentionStarts
  <2> HIDE DEF rec
  <2>3. Settled(rec.execution, record'.execution)
    BY <2>1, <2>2, Terminates
  <2> QED  BY <2>2, <2>3 DEF Settled
<1>4. CASE Execute /\ phase = "request" /\ phase' = "contexts"
  <2>1. record.execution = Plan!Pending
    BY <1>4 DEF Execute, LiveInv, StageInv
  <2>2. \A id \in DOMAIN Plan!Pending.steps : ~Plan!Terminal(Plan!Pending.steps[id])
    BY TerminalStatuses DEF Plan!Pending
  <2> QED  BY <2>1, <2>2 DEF Settled
<1>5. CASE Execute /\ ~(phase = "request" /\ phase' = "contexts")
  <2>1. record' = PublishAll(record, Emitted)
    BY <1>5 DEF Execute
  <2> QED  BY <1>1, <2>1, EmittedType, AnyPublished
<1>6. CASE KeepCase
  BY <1>1, <1>2, <1>6, KeepCaseKeeps
<1>7. CASE CommitRun
  BY <1>1, <1>7, CommitKeeps DEF Settled, Steps
<1>8. CASE DeleteCase \/ MarkCaseDeleted \/ ShowDeleted
  BY <1>1, <1>8, DeletionKeeps DEF Settled, Steps
<1>9. CASE Admit \/ ContextDies \/ UNCHANGED liveVars
  BY <1>2, <1>9 DEF Admit, ContextDies, liveVars, Steps
<1> QED  BY <1>3, <1>4, <1>5, <1>6, <1>7, <1>8, <1>9 DEF LiveNext, ServerStep

\* However late and in whatever order its events come, a step that is over
\* keeps its status (Apply, compatibleTerminalEvent, MarkFailed).
THEOREM SettledStepsHold == LiveSpec => SettledStepsStay
<1>1. TypeInv /\ SafeInv /\ FlowInv /\ LiveInv /\ TypeInv' /\ SafeInv' /\ [LiveNext]_liveVars
      => [\A id \in DOMAIN Steps \ {Plan!Memory} :
            Plan!Terminal(Steps[id]) => Steps'[id] = Steps[id]]_liveVars
  BY StepSettles DEF Settled, Steps
<1> QED  BY <1>1, LiveInvariant, PTL DEF LiveSpec, SettledStepsStay

-----------------------------------------------------------------------------
(* The phases, which are derived from the steps.                           *)

\* Aggregate takes the first status of Precedence that a step of the phase has.
LEMMA FirstFound ==
  ASSUME NEW found \in SUBSET DOMAIN Plan!Precedence, found # {}
  PROVE  /\ Plan!Min(found) \in found
         /\ \A n \in found : Plan!Min(found) <= n
<1>1. DOMAIN Plan!Precedence \subseteq 0 .. 9
  BY DEF Plan!Precedence
<1>2. \E m \in found : \A n \in found : m <= n
  BY <1>1, FirstOf
<1> QED  BY <1>2 DEF Plan!Min

\* A phase never hides that one of its steps still works (aggregateStatuses).
LEMMA AggregateTells ==
  ASSUME NEW S \in SUBSET Plan!Statuses
  PROVE  LET shown == Plan!Aggregate(S) IN
         /\ shown = "passed" => \A s \in S : Plan!Terminal(s)
         /\ shown = "degraded" => "running" \notin S /\ "repairing" \notin S
         /\ (\A s \in S : Plan!Terminal(s)) => Plan!Terminal(shown)
         /\ S \subseteq {"passed", "degraded"} => shown \in {"passed", "degraded"}
<1> DEFINE found == {i \in DOMAIN Plan!Precedence : Plan!Precedence[i] \in S}
           shown == Plan!Aggregate(S)
           m == Plan!Min(found)
<1>1. CASE found = {}
  <2>1. shown \in {"passed", "skipped"}
    BY <1>1 DEF Plan!Aggregate
  <2>2. \A i \in 1 .. 9 : Plan!Precedence[i] \notin S
    BY <1>1 DEF Plan!Precedence
  <2>3. S \subseteq {"passed", "skipped"}
    <3>1. /\ "failed" \notin S /\ "withheld" \notin S /\ "cancelled" \notin S
          /\ "unavailable" \notin S /\ "repairing" \notin S /\ "running" \notin S
          /\ "degraded" \notin S /\ "ready" \notin S /\ "pending" \notin S
      BY <2>2 DEF Plan!Precedence
    <3> QED  BY <3>1 DEF Plan!Statuses
  <2>4. S \subseteq {"passed", "degraded"} => shown = "passed"
    BY <1>1, <2>3 DEF Plan!Aggregate
  <2> HIDE DEF shown
  <2> QED  BY <2>1, <2>3, <2>4, TerminalStatuses DEF shown
<1>2. CASE found # {}
  <2>1. m \in found /\ \A n \in found : m <= n
    <3> HIDE DEF found
    <3>1. found \in SUBSET DOMAIN Plan!Precedence
      BY DEF found
    <3> QED  BY <1>2, <3>1, FirstFound
  <2>2. shown = Plan!Precedence[m]
    BY <1>2 DEF Plan!Aggregate
  <2> HIDE DEF m, shown
  <2>3. m \in 1 .. 9 /\ shown \in S
    BY <2>1, <2>2 DEF Plan!Precedence
  <2>4. shown # "passed"
    BY <2>2, <2>3 DEF Plan!Precedence
  <2>5. shown = "degraded" => m = 7
    BY <2>2, <2>3 DEF Plan!Precedence
  <2>6. ASSUME m = 7 PROVE "running" \notin S /\ "repairing" \notin S
    <3>1. 5 \notin found /\ 6 \notin found
      BY <2>1, <2>6
    <3> QED  BY <3>1 DEF Plan!Precedence
  <2> QED  BY <2>3, <2>4, <2>5, <2>6 DEF shown
<1> QED  BY <1>1, <1>2

\* The phase each step of a plan belongs to.
LEMMA PhasesOfSteps ==
  /\ Plan!PhaseOf(Plan!Interpret) = "interpretation"
  /\ Plan!PhaseOf(Plan!BuildPlan) = "planning"
  /\ Plan!PhaseOf(Plan!Memory) = "memory"
  /\ Plan!PhaseOf(Plan!Synthesis) = "synthesis"
  /\ \A i \in Contexts : Plan!PhaseOf(ContextId(i)) = "context"
  /\ \A r \in Reviewers : Plan!PhaseOf(ReviewId(r)) = "review"
  /\ \A id \in StepIds : Plan!PhaseOf(id) \in Plan!Phases \ {"release"}
<1>1. Plan!PhaseOf(Plan!Interpret) = "interpretation" /\ Plan!PhaseOf(Plan!BuildPlan) = "planning"
      /\ Plan!PhaseOf(Plan!Memory) = "memory"
  BY Apart DEF Plan!PhaseOf
<1>2. Plan!PhaseOf(Plan!Synthesis) = "synthesis"
  BY Apart DEF Plan!PhaseOf, Plan!Synthesis
<1>3. \A i \in Contexts : Plan!PhaseOf(ContextId(i)) = "context"
  BY Apart DEF Plan!PhaseOf, ContextId
<1>4. \A r \in Reviewers : Plan!PhaseOf(ReviewId(r)) = "review"
  BY Apart DEF Plan!PhaseOf, ReviewId
<1>5. {"interpretation", "planning", "memory", "synthesis", "context", "review"}
        \subseteq Plan!Phases \ {"release"}
  BY DEF Plan!Phases
<1> QED  BY <1>1, <1>2, <1>3, <1>4, <1>5 DEF StepIds, PlanIds

\* The statuses of the steps of a phase.
Of(plan, p) == {plan.steps[id] : id \in {j \in DOMAIN plan.steps : Plan!PhaseOf(j) = p}}

\* A phase with steps shows what they have come to.
LEMMA PhaseShown ==
  ASSUME NEW plan \in Projections, NEW p \in Plan!Phases \ {"release"}, Of(plan, p) # {}
  PROVE  /\ Of(plan, p) \in SUBSET Plan!Statuses
         /\ Plan!PhaseStatus(plan, p) = Plan!Aggregate(Of(plan, p))
<1>1. Of(plan, p) \in SUBSET Plan!Statuses
  BY ProjectionParts DEF Of
<1>2. Plan!PhaseStatus(plan, p) = Plan!Aggregate(Of(plan, p))
  BY DEF Plan!PhaseStatus, Of
<1> QED  BY <1>1, <1>2

\* The plan shows its phases as their steps stand, and none of them at work or
\* waiting once the run is over.
LEMMA PhasesFollow == LiveInv => PhasesFollowSteps
<1> SUFFICES ASSUME LiveInv PROVE PhasesFollowSteps
  OBVIOUS
<1> DEFINE plan == record.execution
           Phase(p) == Plan!PhaseStatus(plan, p)
<1>1. /\ plan \in Projections /\ Steps = plan.steps
      /\ plan.status = "passed" => Plan!Unblocked(plan)
  BY DEF LiveInv, Paced, Records, Steps
<1>2. /\ DOMAIN Steps \in SUBSET StepIds /\ Steps \in [DOMAIN Steps -> Plan!Statuses]
      /\ plan.status \in Plan!Statuses
  BY <1>1, ProjectionParts
<1> HIDE DEF plan
<1>3. Plan!Valid(plan)
  BY <1>1, <1>2, PhasesOfSteps DEF Plan!Valid
<1>4. ASSUME NEW id \in DOMAIN Steps
      PROVE  /\ Phase(Plan!PhaseOf(id)) = "passed" => Plan!Terminal(Steps[id])
             /\ Phase(Plan!PhaseOf(id)) = "degraded" => Steps[id] \notin {"running", "repairing"}
  <2> DEFINE p == Plan!PhaseOf(id)
  <2>1. p \in Plan!Phases \ {"release"} /\ Steps[id] \in Of(plan, p)
    BY <1>1, <1>2, PhasesOfSteps DEF Of
  <2> HIDE DEF p
  <2>2. Of(plan, p) \in SUBSET Plan!Statuses /\ Phase(p) = Plan!Aggregate(Of(plan, p))
    BY <1>1, <2>1, PhaseShown
  <2>3. /\ Phase(p) = "passed" => Plan!Terminal(Steps[id])
        /\ Phase(p) = "degraded" => Steps[id] \notin {"running", "repairing"}
    BY <2>1, <2>2, AggregateTells
  <2> QED  BY <2>3 DEF p
<1>5. ASSUME status # "running", NEW p \in Plan!Phases PROVE Plan!Terminal(Phase(p))
  <2>1. /\ \A id \in DOMAIN Steps : Plan!Terminal(Steps[id])
        /\ plan.status \in {"passed", "failed", "cancelled"}
    BY <1>5 DEF LiveInv, EndInv, ViewMatchesPlan, plan
  <2>2. Plan!Terminal(plan.status) /\ Plan!Terminal("skipped")
    BY <2>1, TerminalStatuses
  <2>3. CASE p = "release"
    BY <2>2, <2>3 DEF Plan!PhaseStatus, Plan!ReleasePhase
  <2>4. CASE p # "release" /\ Of(plan, p) # {}
    <3>1. Of(plan, p) \in SUBSET Plan!Statuses /\ Phase(p) = Plan!Aggregate(Of(plan, p))
      BY <1>1, <2>4, PhaseShown
    <3>2. \A s \in Of(plan, p) : Plan!Terminal(s)
      BY <1>1, <2>1 DEF Of
    <3> QED  BY <3>1, <3>2, AggregateTells
  <2>5. CASE p # "release" /\ Of(plan, p) = {}
    <3>1. Phase(p) = "skipped"
      BY <2>2, <2>5 DEF Plan!PhaseStatus, Of
    <3> QED  BY <2>2, <3>1
  <2> QED  BY <2>3, <2>4, <2>5
<1>6. ASSUME status = "completed", NEW p \in Plan!Phases \ {"tools", "memory"}
      PROVE  Phase(p) \in {"passed", "degraded"}
  <2>1. plan.status = "passed" /\ DOMAIN Steps = StepIds
    BY <1>6 DEF LiveInv, EndInv, ViewMatchesPlan, plan
  <2>2. \A id \in StepIds \ {Plan!Memory} : Steps[id] \in {"passed", "degraded"}
    BY <1>1, <2>1 DEF Plan!Unblocked
  <2>3. CASE p = "release"
    BY <2>1, <2>3, TerminalStatuses DEF Plan!PhaseStatus, Plan!ReleasePhase
  <2>4. CASE p # "release"
    <3>1. Of(plan, p) \subseteq {"passed", "degraded"}
      BY <1>1, <2>1, <2>2, PhasesOfSteps DEF Of
    <3>2. \E id \in StepIds : Plan!PhaseOf(id) = p
      <4>1. 1 \in Contexts /\ 1 \in Reviewers
        BY PlanAssumption DEF Contexts, Reviewers
      <4>2. p \in {"interpretation", "planning", "context", "review", "synthesis"}
        BY <2>4 DEF Plan!Phases
      <4> QED  BY <4>1, <4>2, PhasesOfSteps, Identities
    <3>3. Of(plan, p) # {}
      BY <1>1, <2>1, <3>2 DEF Of
    <3>4. Of(plan, p) \in SUBSET Plan!Statuses /\ Phase(p) = Plan!Aggregate(Of(plan, p))
      BY <1>1, <2>4, <3>3, PhaseShown
    <3> QED  BY <3>1, <3>4, AggregateTells
  <2> QED  BY <2>3, <2>4
<1> HIDE DEF Phase
<1>7. /\ Plan!Valid(plan)
      /\ \A id \in DOMAIN Steps :
           /\ Phase(Plan!PhaseOf(id)) = "passed" => Plan!Terminal(Steps[id])
           /\ Phase(Plan!PhaseOf(id)) = "degraded" => Steps[id] \notin {"running", "repairing"}
      /\ status # "running" => \A p \in Plan!Phases : Plan!Terminal(Phase(p))
      /\ status = "completed" =>
           \A p \in Plan!Phases \ {"tools", "memory"} : Phase(p) \in {"passed", "degraded"}
  BY <1>3, <1>4, <1>5, <1>6
<1> QED  BY <1>7 DEF PhasesFollowSteps, plan, Phase

\* Whatever the plan and however its goroutines interleave: what clients see
\* of a run is the run as it stands, what they are told of its end is what its
\* plan says, and no phase contradicts its steps (runRecord.publish, Apply,
\* publishWithCommit, recalculatePhases).
THEOREM PlanAgreesHolds == LiveSpec => []PlanAgrees
<1>1. ASSUME LiveInv PROVE PlanMirrorsRun
  <2> SUFFICES ASSUME phase \notin {"request", "done"}
               PROVE  /\ \A i \in Contexts : Steps[ContextId(i)] = ContextShown[step[i]]
                      /\ \A r \in Reviewers : Steps[ReviewId(r)] \in ReviewShown(r)
    BY DEF PlanMirrorsRun, ContextId, ReviewId, ReviewShown
  <2> QED  BY <1>1 DEF LiveInv, StageInv, MirrorInv, Mirrors
<1>2. LiveInv => ViewMatchesPlan
  BY DEF LiveInv, EndInv, ViewMatchesPlan
<1>3. LiveInv => PlanAgrees
  BY <1>1, <1>2, PhasesFollow DEF PlanAgrees
<1> QED  BY <1>3, LiveInvariant, PTL
=============================================================================
