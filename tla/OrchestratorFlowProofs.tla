------------------------- MODULE OrchestratorFlowProofs -------------------------
(***************************************************************************)
(* What TLAPS proves of the course of a run, for every plan: how many      *)
(* specialists are in flight, what the trace says of them, and what a dead *)
(* context rules out.  Each of these relates what one goroutine did to     *)
(* what the others or the trace show, so FlowInv has to say, for every     *)
(* step, where its wave stands, what the trace tells of it and what the    *)
(* call in progress could still achieve.                                   *)
(***************************************************************************)
EXTENDS OrchestratorProofs, FiniteSetTheorems

-----------------------------------------------------------------------------
(* The inductive invariants.                                               *)

InFlight == {i \in Contexts : step[i] \in {"spawned", "calling"}}

\* The waves before the one runContextWaves is in are over and those after it
\* have not begun; a batch fits.
WaveInv ==
  /\ phase = "request" => wave = 0
  /\ \A i \in Contexts :
       /\ WaveOf[i] < wave => step[i] \notin {"pending", "spawned", "calling"}
       /\ WaveOf[i] > wave => step[i] = "pending"
  /\ Cardinality(InFlight) <= Limit

\* Every step came to an outcome that it told.
Resolved == \A i \in Contexts : step[i] \in {"ok", "failed"}

\* A goroutine gives up silently only on a dead context.  A call that can
\* still succeed was begun by a live one, which had seen every step through.
CallInv ==
  /\ ctx = "live" => \A i \in Contexts : step[i] # "skipped"
  /\ phase \in {"review", "synthesis"} /\ (ctx = "live" \/ call.began) => Resolved
  /\ Announced => Resolved /\ phase \in {"saving", "done"}

\* Such an event is in the trace t.
Seen(t, type, index, statuses) ==
  \E j \in DOMAIN t :
    t[j].type = type /\ t[j].index = index /\ t[j].status \in statuses

Ended == {"completed", "degraded", "failed"}

\* TraceIsBracketed, of any trace.
Bracketed(t) ==
  \A k \in DOMAIN t : t[k].type = "context" =>
    LET i == t[k].index
        Earlier(type, index, statuses) ==
          \E j \in 1 .. k - 1 :
            t[j].type = type /\ t[j].index = index /\ t[j].status \in statuses
    IN  /\ Earlier("wave", WaveOf[i], {"started"})
        /\ ~Earlier("wave", WaveOf[i], Ended)
        /\ ~Earlier("context", i, {"completed", "failed"})
        /\ t[k].status # "started" <=> Earlier("context", i, {"started"})

\* The trace shows of each step and of each wave what became of it so far.
TraceInv ==
  /\ \A i \in Contexts :
       /\ Seen(trace, "context", i, {"completed", "failed"}) <=> step[i] \in {"ok", "failed"}
       /\ Seen(trace, "context", i, {"started"}) <=> step[i] \in {"calling", "ok", "failed"}
  /\ wave # 0 => Seen(trace, "wave", wave, {"started"})
  /\ phase \in {"request", "contexts"} =>
       \A w \in Waves : Seen(trace, "wave", w, Ended) => w < wave
  /\ Bracketed(trace)

FlowInv == WaveInv /\ CallInv /\ TraceInv

\* The context died before any call could bring about an answer.
Doomed ==
  /\ ctx # "live"
  /\ \/ phase \in {"request", "contexts", "review"}
     \/ phase = "synthesis" /\ ~call.began
     \/ phase = "done" /\ result # "answered"

-----------------------------------------------------------------------------
(* A batch of runContextWave fits Limit.                                   *)

\* The steps of a plan are finitely many.
LEMMA ContextsAreFinite == IsFiniteSet(Contexts)
BY PlanAssumption, FS_Interval DEF Contexts

\* A batch has a last step in plan order.
LEMMA LastOfBatch ==
  ASSUME NEW S \in SUBSET Contexts, S # {}
  PROVE  \E m \in S : \A s \in S : s <= m
<1> DEFINE From(s) == s .. NumContexts
           Suffixes == {From(s) : s \in S}
<1>1. Suffixes \subseteq SUBSET Contexts
  BY PlanAssumption DEF Contexts
<1>2. IsWellFoundedOn(StrictSubsetOrdering(Contexts), SUBSET Contexts)
  BY ContextsAreFinite, FS_StrictSubsetOrderingWellFounded, FS_FiniteSubsetsOfFinite
<1>3. PICK P \in Suffixes :
        \A Q \in Suffixes : <<Q, P>> \notin StrictSubsetOrdering(Contexts)
  <2>1. Suffixes # {}
    OBVIOUS
  <2> HIDE DEF Suffixes
  <2> QED  BY <1>1, <1>2, <2>1, WFMin
<1>4. PICK m \in S : P = From(m)
  OBVIOUS
<1>5. ASSUME NEW s \in S, s > m PROVE FALSE
  <2>1. From(s) \subseteq From(m) /\ From(s) # From(m)
    BY <1>5, PlanAssumption DEF Contexts
  <2>2. From(s) \in SUBSET Contexts /\ From(m) \in SUBSET Contexts
    BY PlanAssumption DEF Contexts
  <2>3. <<From(s), From(m)>> \in StrictSubsetOrdering(Contexts)
    BY <2>1, <2>2 DEF StrictSubsetOrdering
  <2> QED  BY <1>3, <1>4, <2>3
<1> QED  BY <1>5, PlanAssumption DEF Contexts

\* runContextWave never starts more than Limit goroutines at once: the last
\* step of a batch has fewer than Limit steps before it.
LEMMA BatchFits ==
  ASSUME NEW w
  PROVE  IsFiniteSet(Batch(w)) /\ Cardinality(Batch(w)) <= Limit
<1>1. Batch(w) \in SUBSET Contexts /\ IsFiniteSet(Batch(w))
  BY ContextsAreFinite, FS_Subset DEF Batch, Pending, InWave
<1>2. CASE Batch(w) = {}
  BY <1>1, <1>2, FS_EmptySet, PlanAssumption
<1>3. CASE Batch(w) # {}
  <2>1. PICK m \in Batch(w) : \A s \in Batch(w) : s <= m
    BY <1>1, <1>3, LastOfBatch
  <2> DEFINE before == {j \in Pending(w) : j < m}
             rest == Batch(w) \ {m}
  <2>2. Cardinality(before) < Limit
    BY DEF Batch
  <2>3. IsFiniteSet(before)
    BY ContextsAreFinite, FS_Subset DEF Pending, InWave
  <2>4. rest \in SUBSET before
    <3>1. ASSUME NEW s \in Batch(w), s # m PROVE s \in before
      BY <2>1, <3>1, PlanAssumption DEF Batch, Pending, InWave, Contexts
    <3> QED  BY <3>1
  <2>5. Cardinality(rest) = Cardinality(Batch(w)) - 1
    BY <1>1, FS_RemoveElement
  <2>6. Cardinality(rest) <= Cardinality(before)
    BY <2>3, <2>4, FS_Subset
  <2>7. /\ Cardinality(Batch(w)) \in Nat
        /\ Cardinality(before) \in Nat
    BY <1>1, <2>3, FS_CardinalityType
  <2> HIDE DEF rest, before
  <2> QED  BY <1>1, <2>2, <2>5, <2>6, <2>7, PlanAssumption
<1> QED  BY <1>2, <1>3

-----------------------------------------------------------------------------
(* What an appended event changes of what a trace shows.                   *)

\* An event of an extended trace is one of the trace or one of the extension.
LEMMA FromEither ==
  ASSUME NEW s \in Seq(Events), NEW t \in Seq(Events), NEW k \in DOMAIN (s \o t)
  PROVE  \/ k \in DOMAIN s /\ (s \o t)[k] = s[k]
         \/ k - Len(s) \in DOMAIN t /\ (s \o t)[k] = t[k - Len(s)]
OBVIOUS

\* emit only appends: what was shown stays, and only the new events are added.
LEMMA SeenAppended ==
  ASSUME NEW s \in Seq(Events), NEW t \in Seq(Events),
         NEW type, NEW index, NEW statuses
  PROVE  Seen(s \o t, type, index, statuses)
           <=> Seen(s, type, index, statuses) \/ Seen(t, type, index, statuses)
<1>1. ASSUME NEW j \in DOMAIN s PROVE j \in DOMAIN (s \o t) /\ (s \o t)[j] = s[j]
  OBVIOUS
<1>2. ASSUME NEW j \in DOMAIN t
      PROVE  /\ Len(s) + j \in DOMAIN (s \o t)
             /\ (s \o t)[Len(s) + j] = t[j]
  OBVIOUS
<1>3. ASSUME NEW j \in DOMAIN (s \o t), j \notin DOMAIN s
      PROVE  j - Len(s) \in DOMAIN t /\ (s \o t)[j] = t[j - Len(s)]
  BY <1>3
<1> QED  BY <1>1, <1>2, <1>3 DEF Seen

\* Events that are about no context step leave the brackets as they are.
LEMMA BracketsStay ==
  ASSUME NEW s \in Seq(Events), NEW t \in Seq(Events), Bracketed(s),
         \A k \in DOMAIN t : t[k].type # "context"
  PROVE  Bracketed(s \o t)
<1> SUFFICES ASSUME NEW k \in DOMAIN (s \o t), (s \o t)[k].type = "context"
             PROVE  /\ k \in DOMAIN s /\ (s \o t)[k] = s[k]
                    /\ \A j \in 1 .. k - 1 : (s \o t)[j] = s[j]
  BY DEF Bracketed
<1>1. k \in DOMAIN s
  <2> SUFFICES ASSUME k \notin DOMAIN s PROVE FALSE
    OBVIOUS
  <2>1. k - Len(s) \in DOMAIN t /\ (s \o t)[k] = t[k - Len(s)]
    OBVIOUS
  <2> QED  BY <2>1
<1> QED  BY <1>1

\* An event about a context step is bracketed when the trace before it shows
\* the start of its wave and not its end, and no outcome of the step.
LEMMA BracketsGrow ==
  ASSUME NEW s \in Seq(Events), NEW e \in Events, Bracketed(s),
         Seen(s, "wave", WaveOf[e.index], {"started"}),
         ~Seen(s, "wave", WaveOf[e.index], Ended),
         ~Seen(s, "context", e.index, {"completed", "failed"}),
         e.status # "started" <=> Seen(s, "context", e.index, {"started"})
  PROVE  Bracketed(Append(s, e))
<1> DEFINE t == Append(s, e)
<1> SUFFICES ASSUME NEW k \in DOMAIN t, t[k].type = "context"
             PROVE  LET i == t[k].index
                        Earlier(type, index, statuses) ==
                          \E j \in 1 .. k - 1 :
                            t[j].type = type /\ t[j].index = index
                              /\ t[j].status \in statuses
                    IN  /\ Earlier("wave", WaveOf[i], {"started"})
                        /\ ~Earlier("wave", WaveOf[i], Ended)
                        /\ ~Earlier("context", i, {"completed", "failed"})
                        /\ t[k].status # "started"
                             <=> Earlier("context", i, {"started"})
  BY DEF Bracketed
<1>1. CASE k \in DOMAIN s
  <2>1. t[k] = s[k] /\ \A j \in 1 .. k - 1 : t[j] = s[j]
    BY <1>1
  <2> QED  BY <1>1, <2>1 DEF Bracketed
<1>2. CASE k \notin DOMAIN s
  <2>1. t[k] = e /\ 1 .. k - 1 = DOMAIN s /\ \A j \in 1 .. k - 1 : t[j] = s[j]
    BY <1>2
  <2> HIDE DEF t
  <2> QED  BY <2>1 DEF Seen
<1> QED  BY <1>1, <1>2

-----------------------------------------------------------------------------
(* The steps, by what they do to the specialists.                          *)

\* A run that was just called has no specialist and an empty trace.
LEMMA InitFlow == Init => FlowInv
<1> SUFFICES ASSUME Init PROVE FlowInv
  OBVIOUS
<1>1. InFlight = {} /\ \A i \in Contexts : step[i] = "pending"
  BY DEF Init, InFlight
<1>2. Cardinality(InFlight) <= Limit
  BY <1>1, FS_EmptySet, PlanAssumption
<1>3. WaveInv
  BY <1>1, <1>2, PlanAssumption DEF Init, WaveInv, Waves
<1>4. CallInv
  BY <1>1 DEF Init, CallInv, Announced
<1>5. TraceInv
  BY <1>1 DEF Init, TraceInv, Seen, Bracketed
<1> QED  BY <1>3, <1>4, <1>5 DEF FlowInv

\* A step of Run after the specialists are joined: it announces no success,
\* and a call it begins can only succeed if every step was resolved.
LEMMA AfterContexts ==
  ASSUME TypeInv, FlowInv, UNCHANGED <<wave, step>>,
         NEW events \in Seq(Events), trace' = trace \o events,
         \A k \in DOMAIN events :
           /\ events[k].type # "context"
           /\ ~(events[k].type = "run" /\ events[k].status = "completed"),
         phase' \notin {"request", "contexts"},
         ctx' = "live" => ctx = "live",
         phase' \in {"review", "synthesis"} /\ (ctx' = "live" \/ call'.began)
           => Resolved,
         phase \in {"saving", "done"} => phase' \in {"saving", "done"}
  PROVE  FlowInv'
<1>1. trace \in Seq(Events)
  BY DEF TypeInv, TypeOK
<1>2. WaveInv'
  BY DEF FlowInv, WaveInv, InFlight
<1>3. Announced' => Announced
  BY <1>1 DEF Announced
<1>4. CallInv'
  BY <1>3 DEF FlowInv, CallInv, Resolved
<1>5. TraceInv'
  <2>1. \A i, st : ~Seen(events, "context", i, st)
    BY DEF Seen
  <2>2. \A i, st :
          Seen(trace', "context", i, st) <=> Seen(trace, "context", i, st)
    BY <1>1, <2>1, SeenAppended
  <2>3. \A w, st : Seen(trace, "wave", w, st) => Seen(trace', "wave", w, st)
    BY <1>1, SeenAppended
  <2>4. Bracketed(trace')
    BY <1>1, BracketsStay DEF FlowInv, TraceInv
  <2> QED  BY <2>2, <2>3, <2>4 DEF FlowInv, TraceInv
<1> QED  BY <1>2, <1>4, <1>5 DEF FlowInv

\* runContextWaves opens the next wave, all the earlier ones being over: the
\* trace shows its start, and of the earlier ones their ends at most.
LEMMA OpensWave ==
  ASSUME TypeInv, FlowInv, NEW w \in Waves,
         NEW before \in Seq(Events), OpenWave(before, w),
         \A k \in DOMAIN before :
           /\ before[k].type # "context"
           /\ before[k].type # "run"
           /\ before[k].type = "wave" => before[k].index = wave,
         Joined, Pending(wave) = {}, phase \in {"request", "contexts"},
         phase' = "contexts", ctx' = ctx
  PROVE  FlowInv'
<1> DEFINE events == before \o <<Ev("wave", w, "wave", "started")>>
<1>1. /\ w \in Nat /\ wave \in Nat /\ w > wave
      /\ \A i \in Contexts : WaveOf[i] \in Nat
  <2>1. wave \in Nat
    BY DEF TypeInv, TypeOK, Waves
  <2>2. \A i \in Contexts : WaveOf[i] \in Nat
    BY PlanAssumption DEF Waves
  <2> QED  BY <2>1, <2>2 DEF OpenWave, IsNextWave, Waves
<1>2. Ev("wave", w, "wave", "started") \in Events
  BY <1>1 DEF Ev, Events
<1>3. /\ <<Ev("wave", w, "wave", "started")>> \in Seq(Events)
      /\ events \in Seq(Events) /\ trace \in Seq(Events)
      /\ trace' = trace \o events
  BY <1>2, OneEvent, TraceGrows DEF OpenWave, TypeInv, TypeOK
<1>4. \A k \in DOMAIN events :
        /\ events[k].type # "context"
        /\ events[k].type # "run"
        /\ events[k].type = "wave" =>
             \/ events[k].index = w /\ events[k].status = "started"
             \/ events[k].index = wave
  <2>1. Ev("wave", w, "wave", "started").type = "wave"
          /\ Ev("wave", w, "wave", "started").index = w
          /\ Ev("wave", w, "wave", "started").status = "started"
    BY DEF Ev
  <2> QED  BY <1>3, <2>1
<1>5. Seen(events, "wave", w, {"started"})
  <2>1. Seen(<<Ev("wave", w, "wave", "started")>>, "wave", w, {"started"})
    BY DEF Seen, Ev
  <2> QED  BY <1>3, <2>1, SeenAppended
<1> HIDE DEF events
<1>6. /\ wave' = w
      /\ \A i \in Contexts : step'[i] = IF i \in Batch(w) THEN "spawned" ELSE step[i]
  BY DEF OpenWave, Spawn
<1>7. /\ \A i \in Batch(w) : step[i] = "pending" /\ WaveOf[i] = w
      /\ Batch(w) \subseteq Contexts
  BY DEF Batch, Pending, InWave
<1>8. \A i \in Contexts :
        /\ WaveOf[i] <= wave => step[i] \notin {"pending", "spawned", "calling"}
        /\ WaveOf[i] > wave => step[i] = "pending"
        /\ ~(WaveOf[i] > wave /\ WaveOf[i] < w)
  BY <1>1, PlanAssumption
  DEF FlowInv, WaveInv, Joined, Pending, InWave, OpenWave, IsNextWave
<1>9. WaveInv'
  <2>1. InFlight' = Batch(w)
    BY <1>6, <1>7 DEF InFlight, Joined
  <2>2. Cardinality(InFlight') <= Limit
    BY <2>1, BatchFits
  <2>3. \A i \in Contexts :
          /\ WaveOf[i] < w => step'[i] \notin {"pending", "spawned", "calling"}
          /\ WaveOf[i] > w => step'[i] = "pending"
    BY <1>1, <1>6, <1>7, <1>8
  <2> QED  BY <1>6, <2>2, <2>3 DEF WaveInv
<1>10. CallInv'
  <2>1. ~Announced /\ (ctx = "live" => \A i \in Contexts : step[i] # "skipped")
    BY DEF FlowInv, CallInv
  <2>2. ~Announced'
    BY <1>3, <1>4, <2>1 DEF Announced
  <2> QED  BY <1>6, <2>1, <2>2 DEF CallInv
<1>11. TraceInv'
  <2>1. \A i, st :
          Seen(trace', "context", i, st) <=> Seen(trace, "context", i, st)
    <3>1. \A i, st : ~Seen(events, "context", i, st)
      BY <1>4 DEF Seen
    <3> QED  BY <1>3, <3>1, SeenAppended
  <2>2. \A v \in Waves : Seen(trace', "wave", v, Ended) => v < w
    <3> SUFFICES ASSUME NEW v \in Waves, Seen(trace', "wave", v, Ended)
                 PROVE  v < w
      OBVIOUS
    <3>1. CASE Seen(trace, "wave", v, Ended)
      BY <1>1, <3>1 DEF FlowInv, TraceInv, Waves
    <3>2. CASE Seen(events, "wave", v, Ended)
      BY <1>1, <1>4, <3>2 DEF Seen, Ended
    <3> QED  BY <1>3, <3>1, <3>2, SeenAppended
  <2>3. Seen(trace', "wave", w, {"started"})
    BY <1>3, <1>5, SeenAppended
  <2>4. Bracketed(trace')
    BY <1>3, <1>4, BracketsStay DEF FlowInv, TraceInv
  <2>5. \A i \in Contexts :
          /\ step'[i] \in {"ok", "failed"} <=> step[i] \in {"ok", "failed"}
          /\ step'[i] \in {"calling", "ok", "failed"}
               <=> step[i] \in {"calling", "ok", "failed"}
    BY <1>6, <1>7
  <2> QED  BY <1>6, <2>1, <2>2, <2>3, <2>4, <2>5 DEF FlowInv, TraceInv
<1> QED  BY <1>9, <1>10, <1>11 DEF FlowInv

\* A step whose goroutine is at work belongs to the wave in progress, which
\* has begun and not ended.
LEMMA InItsWave ==
  ASSUME TypeInv, SafeInv, FlowInv, NEW i \in Contexts,
         step[i] \in {"spawned", "calling"}
  PROVE  /\ phase = "contexts" /\ WaveOf[i] = wave
         /\ Seen(trace, "wave", WaveOf[i], {"started"})
         /\ ~Seen(trace, "wave", WaveOf[i], Ended)
<1>1. phase = "contexts"
  BY DEF SafeInv, ContextInv, Joined, TypeInv, TypeOK
<1>2. WaveOf[i] = wave /\ WaveOf[i] \in Waves
  BY PlanAssumption DEF FlowInv, WaveInv, TypeInv, TypeOK, Waves
<1>3. ~Seen(trace, "wave", wave, Ended) /\ Seen(trace, "wave", wave, {"started"})
  BY <1>1, <1>2 DEF FlowInv, TraceInv, Waves
<1> QED  BY <1>1, <1>2, <1>3

\* A goroutine moves its step on and writes one event about it.
LEMMA GoroutineTells ==
  ASSUME TypeInv, SafeInv, FlowInv, NEW i \in Contexts, NEW next, NEW status,
         \/ step[i] = "spawned" /\ next = "calling" /\ status = "started"
         \/ step[i] = "calling" /\ next = "ok" /\ status = "completed"
         \/ step[i] = "calling" /\ next = "failed" /\ status = "failed",
         step' = [step EXCEPT ![i] = next],
         trace' = Append(trace, Ev("context", i, "context", status)),
         UNCHANGED <<phase, ctx, wave, call>>
  PROVE  FlowInv'
<1> DEFINE e == Ev("context", i, "context", status)
           events == <<e>>
<1>1. /\ e \in Events /\ e.type = "context" /\ e.index = i /\ e.status = status
      /\ trace \in Seq(Events)
  <2>1. status \in {"started", "completed", "failed"} /\ i \in Nat
    BY DEF Contexts
  <2> QED  BY <2>1 DEF Ev, Events, TypeInv, TypeOK
<1> HIDE DEF e
<1>0.  /\ events \in Seq(Events) /\ DOMAIN events = {1} /\ events[1] = e
      /\ trace' = trace \o events /\ trace' = Append(trace, e)
  BY <1>1 DEF e
<1> HIDE DEF events
<1>2. /\ phase = "contexts" /\ WaveOf[i] = wave
      /\ Seen(trace, "wave", WaveOf[i], {"started"})
      /\ ~Seen(trace, "wave", WaveOf[i], Ended)
  BY InItsWave
<1>3. /\ step'[i] = next
      /\ \A j \in Contexts : j # i => step'[j] = step[j]
  BY DEF TypeInv, TypeOK
<1>4. WaveInv'
  <2>1. InFlight' \in SUBSET InFlight
    BY <1>3 DEF InFlight
  <2>2. IsFiniteSet(InFlight)
    BY ContextsAreFinite, FS_Subset DEF InFlight
  <2>3. IsFiniteSet(InFlight')
    BY <2>1, <2>2, FS_Subset
  <2>4. /\ Cardinality(InFlight') <= Cardinality(InFlight)
        /\ Cardinality(InFlight) \in Nat /\ Cardinality(InFlight') \in Nat
    BY <2>1, <2>2, <2>3, FS_Subset, FS_CardinalityType
  <2>5. Cardinality(InFlight)' <= Limit
    BY <2>4, PlanAssumption DEF FlowInv, WaveInv
  <2>6. ~(wave < wave) /\ ~(wave > wave)
    BY DEF TypeInv, TypeOK, Waves
  <2> QED  BY <1>2, <1>3, <2>5, <2>6 DEF FlowInv, WaveInv
<1>5. CallInv'
  <2>1. ~Announced
    BY <1>2 DEF FlowInv, CallInv
  <2>2. ~Announced'
    BY <1>0, <1>1, <2>1 DEF Announced
  <2> QED  BY <1>2, <1>3, <2>2 DEF FlowInv, CallInv
<1>6. TraceInv'
  <2>1. \A w, st : ~Seen(events, "wave", w, st)
    BY <1>0, <1>1 DEF Seen
  <2>2. \A w, st : Seen(trace', "wave", w, st) <=> Seen(trace, "wave", w, st)
    <3>1. \A w, st : Seen(trace \o events, "wave", w, st)
                       <=> Seen(trace, "wave", w, st) \/ Seen(events, "wave", w, st)
      BY <1>0, <1>1, SeenAppended
    <3> QED  BY <1>0, <2>1, <3>1
  <2>3. \A j, st : Seen(events, "context", j, st) <=> j = i /\ status \in st
    BY <1>0, <1>1 DEF Seen
  <2>4. \A j, st : Seen(trace', "context", j, st)
                     <=> Seen(trace, "context", j, st) \/ (j = i /\ status \in st)
    <3>1. \A j, st :
            Seen(trace \o events, "context", j, st)
              <=> Seen(trace, "context", j, st) \/ Seen(events, "context", j, st)
      BY <1>0, <1>1, SeenAppended
    <3> QED  BY <1>0, <2>3, <3>1
  <2>5. Bracketed(Append(trace, e))
    <3>1. /\ ~Seen(trace, "context", i, {"completed", "failed"})
          /\ status # "started" <=> Seen(trace, "context", i, {"started"})
      BY DEF FlowInv, TraceInv
    <3> QED  BY <1>1, <1>2, <3>1, BracketsGrow DEF FlowInv, TraceInv
  <2>6. Bracketed(trace')
    BY <1>0, <2>5
  <2>7. \A j \in Contexts :
          /\ Seen(trace', "context", j, {"completed", "failed"})
               <=> step'[j] \in {"ok", "failed"}
          /\ Seen(trace', "context", j, {"started"})
               <=> step'[j] \in {"calling", "ok", "failed"}
    <3> SUFFICES ASSUME NEW j \in Contexts
                 PROVE  /\ Seen(trace', "context", j, {"completed", "failed"})
                             <=> step'[j] \in {"ok", "failed"}
                        /\ Seen(trace', "context", j, {"started"})
                             <=> step'[j] \in {"calling", "ok", "failed"}
      OBVIOUS
    <3>1. /\ Seen(trace, "context", j, {"completed", "failed"})
               <=> step[j] \in {"ok", "failed"}
          /\ Seen(trace, "context", j, {"started"})
               <=> step[j] \in {"calling", "ok", "failed"}
      BY DEF FlowInv, TraceInv
    <3> QED  BY <1>3, <2>4, <3>1
  <2> QED  BY <2>2, <2>6, <2>7 DEF FlowInv, TraceInv
<1> QED  BY <1>4, <1>5, <1>6 DEF FlowInv

\* A goroutine that finds the context dead returns without a word.
LEMMA GoroutineGivesUp ==
  ASSUME TypeInv, SafeInv, FlowInv, NEW i \in Contexts,
         step[i] = "spawned", ctx # "live", step' = [step EXCEPT ![i] = "skipped"],
         UNCHANGED <<phase, ctx, wave, call, trace>>
  PROVE  FlowInv'
<1>1. phase = "contexts" /\ WaveOf[i] = wave
  BY InItsWave
<1>2. /\ step'[i] = "skipped"
      /\ \A j \in Contexts : j # i => step'[j] = step[j]
  BY DEF TypeInv, TypeOK
<1>3. WaveInv'
  <2>1. InFlight' \in SUBSET InFlight
    BY <1>2 DEF InFlight
  <2>2. IsFiniteSet(InFlight)
    BY ContextsAreFinite, FS_Subset DEF InFlight
  <2>3. IsFiniteSet(InFlight')
    BY <2>1, <2>2, FS_Subset
  <2>4. /\ Cardinality(InFlight') <= Cardinality(InFlight)
        /\ Cardinality(InFlight) \in Nat /\ Cardinality(InFlight') \in Nat
    BY <2>1, <2>2, <2>3, FS_Subset, FS_CardinalityType
  <2>5. Cardinality(InFlight)' <= Limit
    BY <2>4, PlanAssumption DEF FlowInv, WaveInv
  <2>6. ~(wave > wave)
    BY DEF TypeInv, TypeOK, Waves
  <2> QED  BY <1>1, <1>2, <2>5, <2>6 DEF FlowInv, WaveInv
<1>4. CallInv'
  BY <1>1, <1>2 DEF FlowInv, CallInv, Announced
<1>5. TraceInv'
  BY <1>2 DEF FlowInv, TraceInv
<1> QED  BY <1>3, <1>4, <1>5 DEF FlowInv

\* The next batch of a wave starts when the one before it is joined.
LEMMA BatchStarts == TypeInv /\ FlowInv /\ NextBatch => FlowInv'
<1> SUFFICES ASSUME TypeInv, FlowInv, NextBatch PROVE FlowInv'
  OBVIOUS
<1>1. /\ phase = "contexts" /\ Joined
      /\ \A i \in Contexts :
           step'[i] = IF i \in Batch(wave) THEN "spawned" ELSE step[i]
      /\ UNCHANGED <<phase, ctx, wave, call, trace>>
  BY DEF NextBatch, Spawn, localVars
<1>2. \A i \in Batch(wave) : i \in Contexts /\ step[i] = "pending" /\ WaveOf[i] = wave
  BY DEF Batch, Pending, InWave
<1>3. WaveInv'
  <2>1. InFlight' = Batch(wave)
    BY <1>1, <1>2 DEF InFlight, Joined
  <2>2. Cardinality(InFlight') <= Limit
    BY <2>1, BatchFits
  <2>3. ~(wave < wave) /\ ~(wave > wave)
    BY DEF TypeInv, TypeOK, Waves
  <2> QED  BY <1>1, <1>2, <2>2, <2>3 DEF FlowInv, WaveInv
<1>4. CallInv'
  BY <1>1 DEF FlowInv, CallInv, Announced
<1>5. TraceInv'
  BY <1>1, <1>2 DEF FlowInv, TraceInv
<1> QED  BY <1>3, <1>4, <1>5 DEF FlowInv

\* The event that ends a wave is about that wave.
LEMMA WaveEndedSays ==
  ASSUME TypeInv
  PROVE  /\ WaveEnded \in Seq(Events) /\ DOMAIN WaveEnded = {1}
         /\ WaveEnded[1].type = "wave" /\ WaveEnded[1].index = wave
BY WaveEndedType DEF WaveEnded, Ev

\* An element of a list of three is one of the three.
LEMMA AmongThree ==
  ASSUME NEW x, NEW y, NEW z, NEW k \in DOMAIN <<x, y, z>>
  PROVE  \/ <<x, y, z>>[k] = x \/ <<x, y, z>>[k] = y \/ <<x, y, z>>[k] = z
<1>1. k \in 1 .. 3
  OBVIOUS
<1>2. k = 1 \/ k = 2 \/ k = 3
  BY <1>1
<1> QED  BY <1>2

\* The acceptance of a plan opens the first wave.
LEMMA PlanOpensWave == TypeInv /\ SafeInv /\ FlowInv /\ AcceptPlan => FlowInv'
<1> SUFFICES ASSUME TypeInv, SafeInv, FlowInv, AcceptPlan PROVE FlowInv'
  OBVIOUS
<1> DEFINE before == <<Ev("interpret-request", 0, "interpretation", "completed"),
                       Ev("build-plan", 0, "planning", "completed"),
                       Ev("", 0, "plan", "accepted")>>
<1>1. /\ Ev("interpret-request", 0, "interpretation", "completed") \in Events
      /\ Ev("build-plan", 0, "planning", "completed") \in Events
      /\ Ev("", 0, "plan", "accepted") \in Events
  BY DEF Ev, Events
<1>2. before \in Seq(Events)
  BY <1>1, ThreeEvents
<1>3. \A k \in DOMAIN before : before[k].type \in {"interpretation", "planning", "plan"}
  <2>1. /\ Ev("interpret-request", 0, "interpretation", "completed").type
             = "interpretation"
        /\ Ev("build-plan", 0, "planning", "completed").type = "planning"
        /\ Ev("", 0, "plan", "accepted").type = "plan"
    BY DEF Ev
  <2> QED  BY <2>1, AmongThree
<1>4. /\ phase = "request" /\ phase' = "contexts" /\ ctx' = ctx
      /\ \E w \in Waves : OpenWave(before, w)
  BY DEF AcceptPlan
<1>5. Joined /\ Pending(wave) = {}
  <2>1. \A i \in Contexts : step[i] = "pending"
    BY <1>4 DEF SafeInv, ContextInv
  <2>2. InWave(0) = {}
    BY PlanAssumption DEF InWave, Waves
  <2>3. wave = 0
    BY <1>4 DEF FlowInv, WaveInv
  <2> QED  BY <2>1, <2>2, <2>3 DEF Joined, Pending
<1> HIDE DEF before
<1> QED  BY <1>2, <1>3, <1>4, <1>5, OpensWave

\* The wave that is over gives way to the next.
LEMMA WaveFollowsWave == TypeInv /\ FlowInv /\ NextWave => FlowInv'
<1> SUFFICES ASSUME TypeInv, FlowInv, NextWave PROVE FlowInv'
  OBVIOUS
<1>1. PICK w \in Waves : OpenWave(WaveEnded, w)
  BY DEF NextWave
<1>2. /\ Joined /\ Pending(wave) = {} /\ phase = "contexts" /\ phase' = "contexts"
      /\ ctx' = ctx
  BY DEF NextWave, WaveDone
<1>3. \A k \in DOMAIN WaveEnded :
        /\ WaveEnded[k].type # "context"
        /\ WaveEnded[k].type # "run"
        /\ WaveEnded[k].type = "wave" => WaveEnded[k].index = wave
  BY WaveEndedSays
<1> QED  BY <1>1, <1>2, <1>3, WaveEndedSays, OpensWave

\* What a failure appends, after events of its own.
LEMMA FailureSays ==
  ASSUME TypeInv, NEW before \in Seq(Events), NEW kind, NEW index, NEW code,
         Fail(before, kind, index, code),
         Ev(kind, index, "run", "failed") \in Events,
         \A k \in DOMAIN before : before[k].type \notin {"context", "run"}
  PROVE  \E events \in Seq(Events) :
           /\ trace' = trace \o events
           /\ \A k \in DOMAIN events :
                /\ events[k].type # "context"
                /\ ~(events[k].type = "run" /\ events[k].status = "completed")
<1> DEFINE last == <<Ev(kind, index, "run", "failed")>>
           events == before \o last
<1>1. /\ last \in Seq(Events) /\ DOMAIN last = {1}
      /\ last[1].type = "run" /\ last[1].status = "failed"
  BY OneEvent DEF Ev
<1>2. trace' = trace \o before \o last
  BY DEF Fail
<1> HIDE DEF last
<1>3. events \in Seq(Events) /\ trace' = trace \o events
  BY <1>1, <1>2, TraceGrows DEF TypeInv, TypeOK
<1>4. ASSUME NEW k \in DOMAIN events
      PROVE  /\ events[k].type # "context"
             /\ ~(events[k].type = "run" /\ events[k].status = "completed")
  <2>1. \/ k \in DOMAIN before /\ events[k] = before[k]
        \/ k - Len(before) \in DOMAIN last /\ events[k] = last[k - Len(before)]
    BY <1>1, FromEither
  <2> HIDE DEF events
  <2> QED  BY <1>1, <2>1
<1> QED  BY <1>3, <1>4

\* A failure that ends the run, whatever phase it comes from.
LEMMA FailureKeepsFlow ==
  ASSUME TypeInv, FlowInv, NEW before \in Seq(Events), NEW kind, NEW index, NEW code,
         Fail(before, kind, index, code),
         Ev(kind, index, "run", "failed") \in Events,
         \A k \in DOMAIN before : before[k].type \notin {"context", "run"},
         UNCHANGED <<ctx, wave, step>>
  PROVE  FlowInv'
<1>1. PICK events \in Seq(Events) :
        /\ trace' = trace \o events
        /\ \A k \in DOMAIN events :
             /\ events[k].type # "context"
             /\ ~(events[k].type = "run" /\ events[k].status = "completed")
  BY FailureSays
<1>2. phase' = "done"
  BY DEF Fail
<1> QED  BY <1>1, <1>2, AfterContexts

\* A failure that ends the run with no event of its own.
LEMMA BareFailureKeepsFlow ==
  ASSUME TypeInv, FlowInv, NEW kind, NEW index, NEW code,
         Fail(<< >>, kind, index, code),
         Ev(kind, index, "run", "failed") \in Events,
         UNCHANGED <<ctx, wave, step>>
  PROVE  FlowInv'
<1> DEFINE none == << >>
<1>1. none \in Seq(Events) /\ DOMAIN none = {}
  OBVIOUS
<1>2. Fail(none, kind, index, code)
  OBVIOUS
<1> HIDE DEF none
<1> QED  BY <1>1, <1>2, FailureKeepsFlow

\* A step of Run after the specialists are joined that leaves no event.
LEMMA SilentAfterContexts ==
  ASSUME TypeInv, FlowInv, UNCHANGED <<wave, step, trace>>,
         phase' \notin {"request", "contexts"},
         ctx' = "live" => ctx = "live",
         phase' \in {"review", "synthesis"} /\ (ctx' = "live" \/ call'.began)
           => Resolved,
         phase \in {"saving", "done"} => phase' \in {"saving", "done"}
  PROVE  FlowInv'
BY DEF FlowInv, WaveInv, InFlight, CallInv, Resolved, Announced, TraceInv

\* A review that closes begins the next call under the context as it is.
LEMMA CloseKeepsFlow ==
  ASSUME TypeInv, FlowInv, phase = "review", NEW reports, NEW kept, NEW verdict,
         NEW status, Reviewed(status) \in Events,
         CloseReview(reports, kept, verdict, status)
  PROVE  FlowInv'
<1>1. PICK e \in Events :
        /\ e.type \in {"review", "synthesis"}
        /\ trace' = trace \o <<Reviewed(status), e>>
  <2>1. CASE MoreReviews
    <3>1. Ev("review", reviewer + 1, "review", "started") \in Events
      <4>1. reviewer + 1 \in Nat
        BY DEF TypeInv, Reviewers
      <4> QED  BY <4>1 DEF Ev, Events
    <3>2. Ev("review", reviewer + 1, "review", "started").type = "review"
      BY DEF Ev
    <3> QED  BY <2>1, <3>1, <3>2 DEF CloseReview
  <2>2. CASE ~MoreReviews
    <3>1. Ev("synthesis", 0, "synthesis", "started") \in Events
      BY DEF Ev, Events
    <3>2. Ev("synthesis", 0, "synthesis", "started").type = "synthesis"
      BY DEF Ev
    <3> QED  BY <2>2, <3>1, <3>2 DEF CloseReview
  <2> QED  BY <2>1, <2>2
<1> DEFINE events == <<Reviewed(status), e>>
<1>2. events \in Seq(Events) /\ trace' = trace \o events
  BY <1>1, TwoEvents
<1>3. \A k \in DOMAIN events : events[k].type \in {"review", "synthesis"}
  <2>1. Reviewed(status).type = "review"
    BY DEF Reviewed, Ev
  <2>2. \A k \in DOMAIN events : events[k] = Reviewed(status) \/ events[k] = e
    OBVIOUS
  <2> HIDE DEF events
  <2> QED  BY <1>1, <2>1, <2>2
<1> HIDE DEF events
<1>4. /\ phase' \in {"review", "synthesis"} /\ call'.began = (ctx = "live")
      /\ UNCHANGED <<ctx, wave, step>>
  BY DEF CloseReview, EnterReview, Call, contextVars
<1>5. ctx = "live" => Resolved
  BY DEF FlowInv, CallInv
<1> QED  BY <1>2, <1>3, <1>4, <1>5, AfterContexts

\* Every step of a run, of the goroutines and of the clock keeps FlowInv.
LEMMA StepFlow == TypeInv /\ SafeInv /\ FlowInv /\ [Next]_vars => FlowInv'
<1> SUFFICES ASSUME TypeInv, SafeInv, FlowInv, [Next]_vars PROVE FlowInv'
  OBVIOUS
<1> USE DEF contextVars, localVars, reviewVars, endVars
<1>1. trace \in Seq(Events)
  BY DEF TypeInv, TypeOK
<1>2. CASE RefuseRequest
  <2>1. /\ Ev("request", 0, "run", "failed") \in Events
        /\ Ev("planning", 0, "run", "failed") \in Events
    BY DEF Ev, Events
  <2> QED  BY <1>2, <2>1, BareFailureKeepsFlow DEF RefuseRequest
<1>3. CASE AskClarification
  <2> DEFINE asked == Ev("interpret-request", 0, "interpretation",
                         "clarification_required")
  <2>1. /\ Ev("interpret-request", 0, "run", "failed") \in Events
        /\ asked \in Events /\ asked.type = "interpretation"
    BY DEF Ev, Events
  <2>2. Fail(<<asked>>, "interpret-request", 0, "clarification_required")
    BY <1>3 DEF AskClarification
  <2> HIDE DEF asked
  <2>3. <<asked>> \in Seq(Events) /\ \A k \in DOMAIN <<asked>> : <<asked>>[k] = asked
    BY <2>1
  <2> QED  BY <1>3, <2>1, <2>2, <2>3, FailureKeepsFlow DEF AskClarification
<1>4. CASE AcceptPlan
  BY <1>4, PlanOpensWave
<1>5. ASSUME NEW i \in Contexts, StartContext(i) PROVE FlowInv'
  <2>1. CASE ctx = "live"
    BY <1>5, <2>1, GoroutineTells DEF StartContext
  <2>2. CASE ctx # "live"
    BY <1>5, <2>2, GoroutineGivesUp DEF StartContext
  <2> QED  BY <2>1, <2>2
<1>6. ASSUME NEW i \in Contexts, NEW claims, ContextDelivers(i, claims)
      PROVE  FlowInv'
  BY <1>6, GoroutineTells DEF ContextDelivers
<1>7. ASSUME NEW i \in Contexts, ContextFails(i) PROVE FlowInv'
  BY <1>7, GoroutineTells DEF ContextFails
<1>8. CASE UNCHANGED <<phase, wave, step, trace, call>> /\ (ctx' = "live" => ctx = "live")
  BY <1>8 DEF FlowInv, WaveInv, InFlight, CallInv, Resolved, Announced, TraceInv
<1>9. ASSUME NEW i \in Contexts, RetryContext(i) PROVE FlowInv'
  BY <1>8, <1>9 DEF RetryContext
<1>10. CASE Cancel \/ Expire \/ UNCHANGED vars
  BY <1>8, <1>10 DEF Cancel, Expire, vars
<1>11. CASE NextBatch
  BY <1>11, BatchStarts
<1>12. CASE NextWave
  BY <1>12, WaveFollowsWave
<1>13. CASE ContextUnavailable
  <2>1. Ev("context-wave", 0, "run", "failed") \in Events
    BY DEF Ev, Events
  <2> QED  BY <1>13, <2>1, WaveEndedSays, FailureKeepsFlow DEF ContextUnavailable
<1>14. CASE StartReviews
  <2> DEFINE e == Ev("review", 1, "review", "started")
             events == WaveEnded \o <<e>>
  <2>1. e \in Events /\ e.type = "review"
    BY DEF Ev, Events
  <2>2. trace' = trace \o WaveEnded \o <<e>>
    BY <1>14 DEF StartReviews
  <2> HIDE DEF e
  <2>3. /\ <<e>> \in Seq(Events) /\ WaveEnded \in Seq(Events)
        /\ events \in Seq(Events) /\ trace' = trace \o events
    BY <1>1, <2>1, <2>2, OneEvent, WaveEndedSays, TraceGrows
  <2>4. ASSUME NEW k \in DOMAIN events PROVE events[k].type \in {"wave", "review"}
    <3> DEFINE last == <<e>>
    <3>1. /\ \A j \in DOMAIN last : last[j].type = "review"
          /\ last \in Seq(Events) /\ events = WaveEnded \o last
      BY <2>1, <2>3
    <3> HIDE DEF last, events
    <3>2. \/ k \in DOMAIN WaveEnded /\ events[k] = WaveEnded[k]
          \/ k - Len(WaveEnded) \in DOMAIN last
             /\ events[k] = last[k - Len(WaveEnded)]
      BY <2>3, <2>4, <3>1, FromEither
    <3> QED  BY <3>1, <3>2, WaveEndedSays
  <2> HIDE DEF events
  <2>5. /\ phase' = "review" /\ call'.began = (ctx = "live")
        /\ UNCHANGED <<ctx, wave, step>> /\ WaveDone /\ LastWave
    BY <1>14 DEF StartReviews, EnterReview, Call
  <2>6. ctx = "live" => Resolved
    <3> SUFFICES ASSUME ctx = "live", NEW i \in Contexts
                 PROVE  step[i] \in {"ok", "failed"}
      BY DEF Resolved
    <3>1. WaveOf[i] \in Waves /\ i \in InWave(WaveOf[i])
      BY PlanAssumption DEF InWave
    <3>2. ~(WaveOf[i] > wave)
      <4> SUFFICES ASSUME WaveOf[i] > wave PROVE FALSE
        OBVIOUS
      <4>1. \A w \in Waves : ~IsNextWave(w)
        BY <2>5 DEF LastWave
      <4>2. \E w \in Waves : w > wave /\ InWave(w) # {}
        BY <3>1
      <4>3. \E w \in Waves :
              /\ w > wave /\ InWave(w) # {}
              /\ \A v \in Waves : v > wave /\ v < w => InWave(v) = {}
        BY <4>2 DEF Waves, TypeInv, TypeOK
      <4> QED  BY <4>1, <4>3 DEF IsNextWave
    <3>3. step[i] \notin {"pending", "spawned", "calling"}
      BY <2>5, <3>1, <3>2
      DEF WaveDone, Joined, Pending, InWave, FlowInv, WaveInv, Waves, TypeInv, TypeOK
    <3>4. step[i] # "skipped"
      BY DEF FlowInv, CallInv
    <3> QED  BY <3>3, <3>4 DEF TypeInv, TypeOK
  <2> QED  BY <2>3, <2>4, <2>5, <2>6, AfterContexts DEF WaveDone
<1>15. CASE RetryCall
  <2>1. /\ call'.began = (ctx = "live") /\ phase' = phase /\ trace' = trace
        /\ UNCHANGED <<ctx, wave, step>> /\ phase \in {"review", "synthesis"}
    BY <1>15 DEF RetryCall, Call
  <2>2. ctx = "live" => Resolved
    BY <2>1 DEF FlowInv, CallInv
  <2> QED  BY <2>1, <2>2, SilentAfterContexts
<1>16. CASE ReviewFails
  <2>1. Ev("review", reviewer, "run", "failed") \in Events
    BY <1>16 DEF ReviewFails, Ev, Events, TypeInv, Reviewers
  <2> QED  BY <1>16, <2>1, BareFailureKeepsFlow DEF ReviewFails
<1>17. ASSUME NEW rep, ReviewApproves(rep) PROVE FlowInv'
  <2>1. phase = "review" /\ Reviewed("approve") \in Events
    BY <1>17, ReviewedType DEF ReviewApproves, Replied, Decisions
  <2> QED  BY <1>17, <2>1, CloseKeepsFlow DEF ReviewApproves
<1>18. ASSUME NEW rep, ReviewApprovesSubset(rep) PROVE FlowInv'
  <2>1. phase = "review" /\ Reviewed("approved_subset") \in Events
    BY <1>18, ReviewedType DEF ReviewApprovesSubset, Replied
  <2> QED  BY <1>18, <2>1, CloseKeepsFlow DEF ReviewApprovesSubset
<1>19. ASSUME NEW rep, AsksRepair(rep) \/ Narrows(rep) PROVE FlowInv'
  <2>1. PICK status \in {"repair_requested", "narrowed"} :
          trace' = Append(trace, Reviewed(status))
    BY <1>19 DEF AsksRepair, Narrows
  <2>2. /\ phase = "review" /\ phase' = phase /\ call'.began = (ctx = "live")
        /\ UNCHANGED <<ctx, wave, step>>
    BY <1>19 DEF AsksRepair, Narrows, Replied, Call
  <2> DEFINE e == Reviewed(status)
  <2>3. e \in Events /\ e.type = "review"
    BY <2>2, ReviewedType DEF Reviewed, Ev
  <2>4. trace' = Append(trace, e)
    BY <2>1
  <2> HIDE DEF e
  <2>5. /\ <<e>> \in Seq(Events) /\ trace' = trace \o <<e>>
        /\ \A k \in DOMAIN <<e>> : <<e>>[k].type = "review"
    BY <1>1, <2>3, <2>4
  <2>6. ctx = "live" => Resolved
    BY <2>2 DEF FlowInv, CallInv
  <2> QED  BY <2>2, <2>5, <2>6, AfterContexts
<1>20. ASSUME NEW rep, ReviewRejects(rep) PROVE FlowInv'
  <2>1. rep.decision \in Decisions /\ phase = "review"
    BY <1>20, ReplyType DEF ReviewRejects
  <2> DEFINE e == Reviewed(RejectedWith(rep))
  <2>2. e \in Events /\ e.type = "review"
    <3>1. RejectedWith(rep) \in {"repair_unresolved"} \cup Decisions
      BY <2>1 DEF RejectedWith
    <3> QED  BY <2>1, <3>1, ReviewedType DEF Reviewed, Ev
  <2>3. Ev("review", reviewer, "run", "failed") \in Events
    BY <2>1 DEF Ev, Events, TypeInv, Reviewers
  <2>4. Fail(<<e>>, "review", reviewer, "evidence_rejected")
    BY <1>20 DEF ReviewRejects
  <2> HIDE DEF e
  <2>5. <<e>> \in Seq(Events) /\ \A k \in DOMAIN <<e>> : <<e>>[k] = e
    BY <2>2
  <2> QED  BY <1>20, <2>2, <2>3, <2>4, <2>5, FailureKeepsFlow DEF ReviewRejects
<1>21. CASE SynthesisFails
  <2>1. Ev("synthesis", 0, "run", "failed") \in Events
    BY DEF Ev, Events
  <2> QED  BY <1>21, <2>1, BareFailureKeepsFlow DEF SynthesisFails
<1>22. ASSUME NEW cited, Synthesizes(cited) PROVE FlowInv'
  <2> DEFINE passed == Ev("synthesis", 0, "synthesis", "passed")
             done == Ev("synthesis", 0, "run", "completed")
             events == <<passed, done>>
  <2>1. /\ passed \in Events /\ passed.type = "synthesis"
        /\ done \in Events /\ done.type = "run"
    BY DEF Ev, Events
  <2>2. /\ phase = "synthesis" /\ phase' = "saving" /\ call.began
        /\ UNCHANGED <<ctx, wave, step>> /\ trace' = trace \o events
    BY <1>22 DEF Synthesizes
  <2> HIDE DEF passed, done
  <2>3. /\ events \in Seq(Events)
        /\ \A k \in DOMAIN events : events[k] = passed \/ events[k] = done
    BY <2>1, TwoEvents
  <2> HIDE DEF events
  <2>4. \A k \in DOMAIN events : events[k].type \in {"synthesis", "run"}
    BY <2>1, <2>3
  <2>5. WaveInv'
    BY <2>2 DEF FlowInv, WaveInv, InFlight
  <2>6. CallInv'
    <3>1. Resolved
      BY <2>2 DEF FlowInv, CallInv
    <3> QED  BY <2>2, <3>1 DEF FlowInv, CallInv, Resolved
  <2>7. TraceInv'
    <3>1. \A i, st : ~Seen(events, "context", i, st)
      BY <2>4 DEF Seen
    <3>2. \A i, st :
            Seen(trace', "context", i, st) <=> Seen(trace, "context", i, st)
      BY <1>1, <2>2, <2>3, <3>1, SeenAppended
    <3>3. \A w, st : Seen(trace, "wave", w, st) => Seen(trace', "wave", w, st)
      BY <1>1, <2>2, <2>3, SeenAppended
    <3>4. Bracketed(trace')
      BY <1>1, <2>2, <2>3, <2>4, BracketsStay DEF FlowInv, TraceInv
    <3> QED  BY <2>2, <3>2, <3>3, <3>4 DEF FlowInv, TraceInv
  <2> QED  BY <2>5, <2>6, <2>7 DEF FlowInv
<1>23. CASE SaveTrace
  BY <1>23, SilentAfterContexts DEF SaveTrace
<1>24. CASE TraceLost
  <2>1. Ev("trace", 0, "run", "failed") \in Events
    BY DEF Ev, Events
  <2> QED  BY <1>24, <2>1, BareFailureKeepsFlow DEF TraceLost
<1> QED
  BY <1>2, <1>3, <1>4, <1>5, <1>6, <1>7, <1>9, <1>10, <1>11, <1>12, <1>13, <1>14,
     <1>15, <1>16, <1>17, <1>18, <1>19, <1>20, <1>21, <1>22, <1>23, <1>24
  DEF Next, RunStep, ContextStep, WaveStep, ReviewReply, SynthesisStep

-----------------------------------------------------------------------------
(* What an observer of a run may rely on.                                  *)

\* The course of a run, for every plan: FlowInv holds from the start to the end.
THEOREM FlowInvariant == Spec => [](TypeInv /\ SafeInv /\ FlowInv)
<1>1. TypeInv /\ SafeInv /\ FlowInv /\ [Next]_vars => FlowInv'
  BY StepFlow
<1> QED  BY InitFlow, <1>1, SafeInvariant, PTL DEF Spec

\* Whatever the plan, at most Limit specialists are in flight, and none before
\* the earlier waves are over (runContextWaves, runContextWave).
THEOREM FanOutIsBounded == Spec => []BoundedFanOut
<1>1. TypeInv /\ SafeInv /\ FlowInv => BoundedFanOut
  <2> SUFFICES ASSUME TypeInv, FlowInv
               PROVE  BoundedFanOut
    OBVIOUS
  <2>1. Cardinality({i \in Contexts : step[i] \in {"spawned", "calling"}}) <= Limit
    BY DEF FlowInv, WaveInv, InFlight
  <2>2. ASSUME NEW i \in Contexts, NEW j \in Contexts,
               WaveOf[i] < WaveOf[j], step[j] # "pending"
        PROVE  step[i] \notin {"pending", "spawned", "calling"}
    <3>1. WaveOf[i] \in Nat /\ WaveOf[j] \in Nat /\ wave \in Nat
      <4>1. wave \in Nat
        BY DEF TypeInv, TypeOK, Waves
      <4>2. \A k \in Contexts : WaveOf[k] \in Nat
        BY PlanAssumption DEF Waves
      <4> QED  BY <4>1, <4>2
    <3>2. WaveOf[j] <= wave
      BY <2>2, <3>1 DEF FlowInv, WaveInv
    <3>3. WaveOf[i] < wave
      BY <2>2, <3>1, <3>2
    <3> QED  BY <3>3 DEF FlowInv, WaveInv
  <2> QED  BY <2>1, <2>2 DEF BoundedFanOut
<1> QED  BY <1>1, FlowInvariant, PTL

\* Whatever the plan, a run that announces itself completed has told how every
\* context step ended (runContextStep, eventEmitter.emit, Run).
THEOREM AnnouncedIsResolved == Spec => []AnnouncedRunIsResolved
<1>1. TypeInv /\ SafeInv /\ FlowInv => AnnouncedRunIsResolved
  BY DEF FlowInv, CallInv, TraceInv, Resolved, Seen, Told, AnnouncedRunIsResolved
<1> QED  BY <1>1, FlowInvariant, PTL

\* Whatever the plan, the trace is bracketed wave by wave and step by step.
THEOREM TraceBracketed == Spec => []TraceIsBracketed
<1>1. TypeInv /\ SafeInv /\ FlowInv => TraceIsBracketed
  BY DEF FlowInv, TraceInv, Bracketed, TraceIsBracketed, Before, Ended
<1> QED  BY <1>1, FlowInvariant, PTL

\* A doomed run stays doomed: no call it begins can succeed.
LEMMA DoomStays ==
  TypeInv /\ SafeInv /\ Doomed /\ [Next]_vars => Doomed'
<1> SUFFICES ASSUME TypeInv, SafeInv, Doomed, [Next]_vars PROVE Doomed'
  OBVIOUS
<1> USE DEF contextVars, localVars, reviewVars, endVars
<1>1. CASE \/ RefuseRequest \/ AskClarification \/ ContextUnavailable
           \/ ReviewFails \/ SynthesisFails \/ TraceLost
           \/ \E rep : ReviewRejects(rep)
  <2>1. phase' = "done" /\ result' # "answered"
    BY <1>1, FailuresEnd
  <2>2. ctx' = ctx
    BY <1>1 DEF RefuseRequest, AskClarification, ContextUnavailable, ReviewFails,
                SynthesisFails, TraceLost, ReviewRejects
  <2> QED  BY <2>1, <2>2 DEF Doomed
<1>2. CASE AcceptPlan \/ NextBatch \/ NextWave \/ StartReviews
  BY <1>2 DEF AcceptPlan, NextBatch, NextWave, StartReviews, EnterReview, WaveDone,
              Doomed
<1>3. ASSUME NEW i \in Contexts, ContextStep(i) PROVE Doomed'
  BY <1>3 DEF ContextStep, StartContext, ContextDelivers, RetryContext, ContextFails,
              Doomed
<1>4. CASE RetryCall
  BY <1>4 DEF RetryCall, Call, Doomed
<1>5. ASSUME NEW rep, ReviewApproves(rep) \/ ReviewApprovesSubset(rep) PROVE Doomed'
  <2>1. /\ phase' \in {"review", "synthesis"} /\ call' = Call(0)
        /\ ctx' = ctx
    BY <1>5 DEF ReviewApproves, ReviewApprovesSubset, CloseReview, EnterReview
  <2>2. ~call'.began
    BY <2>1 DEF Call, Doomed
  <2> QED  BY <2>1, <2>2 DEF Doomed
<1>6. ASSUME NEW rep, AsksRepair(rep) \/ Narrows(rep) PROVE Doomed'
  BY <1>6 DEF AsksRepair, Narrows, Replied, Doomed
<1>7. ASSUME NEW cited, Synthesizes(cited) PROVE Doomed'
  BY <1>7 DEF Synthesizes, Doomed
<1>8. CASE SaveTrace \/ Cancel \/ Expire \/ UNCHANGED vars
  BY <1>8 DEF SaveTrace, Cancel, Expire, vars, Doomed
<1> QED
  BY <1>1, <1>2, <1>3, <1>4, <1>5, <1>6, <1>7, <1>8
  DEF Next, RunStep, WaveStep, ReviewReply, SynthesisStep

\* Whatever the plan, a run whose context died before the synthesis began never
\* returns an answer.
THEOREM DeadContextHolds == Spec => DeadContextNeverAnswers
<1>1. ctx # "live" /\ phase \in {"request", "contexts", "review"} => Doomed
  BY DEF Doomed
<1>2. TypeInv /\ SafeInv /\ Doomed => result # "answered"
  BY DEF SafeInv, PhaseInv, Doomed
<1> QED  BY <1>1, <1>2, DoomStays, SafeInvariant, PTL DEF Spec, DeadContextNeverAnswers
=============================================================================
