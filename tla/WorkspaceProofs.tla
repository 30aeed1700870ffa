----------------------------- MODULE WorkspaceProofs -----------------------------
(***************************************************************************)
(* What TLAPS proves of Workspace for every number of runs, readers, slots *)
(* and window size, and for any breaker.  A run is created, started,       *)
(* admitted and ended by steps under different locks; SafeInv says what    *)
(* the stage of its goroutine tells about the pieces of state those steps  *)
(* leave behind, and every safety property of the module follows from it.  *)
(* The window is a matter of counting: EvictionIsExact is its lemma.       *)
(***************************************************************************)
EXTENDS Workspace, FiniteSetTheorems, TLAPS

-----------------------------------------------------------------------------
(* The inductive invariant.                                                *)

Lives == {"created", "rejected", "queued", "admitted", "working", "ending"}

\* The view of a run follows the stage of its goroutine.
StageInv ==
  \A r \in Runs :
    /\ status[r] = "running" <=> stage[r] \in Lives
    /\ status[r] \in Ended <=> stage[r] \in {"sweeping", "over"}
    /\ stage[r] = "ending" => outcome[r] \in Ended

\* Nobody knows of a run that was not created.
KnownInv == \A r \in stored : stage[r] # "absent"

\* Runs are created in order, so that what exists is older than what is next.
OrderInv ==
  \A r, s \in Runs : s < r /\ stage[r] # "absent" => stage[s] # "absent"

\* What a follow-up request read stays true while it holds no lock.
AskingInv == \A p \in asking : status[p] = "completed" /\ mode = "live"

\* Only the queue ends a run as cancelled.
QueueInv ==
  \A r \in Runs : stage[r] = "ending" /\ outcome[r] = "cancelled" =>
                    r \in asked /\ r \notin holders

SafeInv ==
  /\ StageInv
  /\ KnownInv
  /\ OrderInv
  /\ AskingInv
  /\ QueueInv
  /\ LiveRunsAreFound
  /\ TokensFollowRuns
  /\ FollowUpsExtendAnswers

\* What the last eviction left beyond the bound, it had to leave.
WindowInv == Cardinality(stored) > MaxStored => stored \subseteq spared

-----------------------------------------------------------------------------
(* Types.                                                                  *)

\* No sequence of steps takes a variable out of its type, whatever the
\* bounds.
THEOREM TypeInvariant == Spec => []TypeOK
<1>1. Init => TypeOK
  BY WorkspaceAssumption DEF Init, TypeOK, Stages, Ended
<1>2. TypeOK /\ [Next]_vars => TypeOK'
  <2> SUFFICES ASSUME TypeOK, [Next]_vars PROVE TypeOK'
    OBVIOUS
  <2> USE WorkspaceAssumption
      DEF TypeOK, Stages, Ended, requestVars, viewVars, slotVars, windowVars,
          Goto, Ending, NewRun, Evict, Spared
  <2>1. CASE Tick
    BY <2>1 DEF Tick
  <2>2. ASSUME NEW r \in Runs, CreateRun(r) PROVE TypeOK'
    BY <2>2 DEF CreateRun
  <2>3. ASSUME NEW r \in Runs, ReadParent(r) \/ CancelRun(r) \/ Watch(r) \/ Unwatch(r)
        PROVE  TypeOK'
    BY <2>3 DEF ReadParent, CancelRun, Watch, Unwatch
  <2>4. ASSUME NEW r \in Runs, NEW p \in Runs, FollowUp(r, p) PROVE TypeOK'
    BY <2>4 DEF FollowUp
  <2>5. ASSUME NEW r \in Runs, Start(r) \/ Acquire(r) \/ LeaveQueue(r) PROVE TypeOK'
    BY <2>5 DEF Start, Acquire, LeaveQueue
  <2>6. ASSUME NEW r \in Runs, Refuse(r) \/ Admit(r) PROVE TypeOK'
    BY <2>6 DEF Refuse, Admit, Allow
  <2>7. ASSUME NEW r \in Runs, SetupFails(r) PROVE TypeOK'
    BY <2>7 DEF SetupFails
  <2>8. ASSUME NEW r \in Runs, Returns(r) \/ Replays(r) PROVE TypeOK'
    BY <2>8 DEF Returns, Replays
  <2>9. ASSUME NEW r \in Runs, Terminate(r) \/ Leave(r) PROVE TypeOK'
    BY <2>9 DEF Terminate, Leave
  <2>10. CASE UNCHANGED vars
    BY <2>10 DEF vars
  <2> QED
    BY <2>1, <2>2, <2>3, <2>4, <2>5, <2>6, <2>7, <2>8, <2>9, <2>10
    DEF Next, Works, Requests
<1> QED  BY <1>1, <1>2, PTL DEF Spec

-----------------------------------------------------------------------------
(* Each step of a run keeps SafeInv.                                       *)

\* There are as many runs as the bound says.
LEMMA RunsAreFinite == IsFiniteSet(Runs)
BY FS_Interval, WorkspaceAssumption DEF Runs

\* An eviction keeps every run that is live or read by someone.
LEMMA EvictionSpares ==
  ASSUME NEW window, NEW entering, NEW r \in window, ~Evictable(r)
  PROVE  r \in Evict(window, entering)
BY DEF Evict

\* A run that takes a free token fits among the slots, ...
LEMMA SlotTaken ==
  ASSUME TypeOK, Cardinality(holders) < Slots, NEW r \in Runs
  PROVE  Cardinality(holders \cup {r}) <= Slots
<1>1. IsFiniteSet(holders)
  BY RunsAreFinite, FS_Subset DEF TypeOK
<1>2. Cardinality(holders) \in Nat
  BY <1>1, FS_CardinalityType
<1>3. Cardinality(holders \cup {r}) \in {Cardinality(holders), Cardinality(holders) + 1}
  BY <1>1, FS_AddElement
<1> QED  BY <1>2, <1>3, WorkspaceAssumption

\* ... and one that gives its token back frees it.
LEMMA SlotGiven ==
  ASSUME TypeOK, TokensFollowRuns, NEW r \in Runs
  PROVE  Cardinality(holders \ {r}) <= Slots
<1>1. IsFiniteSet(holders)
  BY RunsAreFinite, FS_Subset DEF TypeOK
<1>2. Cardinality(holders) \in Nat /\ Cardinality(holders) <= Slots
  BY <1>1, FS_CardinalityType DEF TokensFollowRuns
<1>3. Cardinality(holders \ {r}) \in {Cardinality(holders), Cardinality(holders) - 1}
  BY <1>1, FS_RemoveElement
<1> QED  BY <1>2, <1>3, WorkspaceAssumption

\* A new run enters the window behind all others and pushes out nothing that
\* is live; whatever sets its stage, the other runs are as they were.
LEMMA EntryKeepsSafe ==
  ASSUME TypeOK, SafeInv, NEW r \in Runs, NEW p \in {0} \cup Runs, NewRun(r, p),
         NEW next \in {"created", "rejected", "working"},
         next = "working" => mode = "fixture",
         p # 0 => p \in asking,
         stage' = [stage EXCEPT ![r] = next],
         asking' \subseteq asking,
         UNCHANGED <<mode, outcome, asked, watched, slotVars>>
  PROVE  SafeInv'
<1> USE DEF NewRun, TypeOK, Stages, Lives, Ended, SafeInv, slotVars
<1>1. StageInv'
  BY DEF StageInv
<1>2. KnownInv' /\ OrderInv'
  BY DEF KnownInv, OrderInv, Evict, Runs
<1>3. AskingInv'
  BY DEF AskingInv, StageInv
<1>4. QueueInv'
  BY DEF QueueInv
<1>5. LiveRunsAreFound'
  BY EvictionSpares DEF LiveRunsAreFound, Evictable
<1>6. TokensFollowRuns'
  BY DEF TokensFollowRuns
<1>7. FollowUpsExtendAnswers'
  BY DEF FollowUpsExtendAnswers, AskingInv, OrderInv, StageInv, Runs
<1> QED  BY <1>1, <1>2, <1>3, <1>4, <1>5, <1>6, <1>7

\* What a run holds and what it shows, whichever way it goes.
LEMMA WorkKeepsSafe ==
  ASSUME TypeOK, SafeInv, NEW r \in Runs, Works(r)
  PROVE  SafeInv'
<1> USE DEF TypeOK, Stages, Lives, Ended, SafeInv, Goto, Ending,
            requestVars, viewVars, slotVars, windowVars
<1>1. CASE Start(r)
  BY <1>1 DEF Start, StageInv, KnownInv, OrderInv, AskingInv, QueueInv,
              LiveRunsAreFound, TokensFollowRuns, FollowUpsExtendAnswers
<1>2. CASE Acquire(r)
  <2>1. /\ StageInv' /\ KnownInv' /\ OrderInv' /\ AskingInv' /\ QueueInv'
        /\ LiveRunsAreFound' /\ FollowUpsExtendAnswers'
    BY <1>2 DEF Acquire, StageInv, KnownInv, OrderInv, AskingInv, QueueInv,
                LiveRunsAreFound, FollowUpsExtendAnswers
  <2>2. Cardinality(holders') <= Slots
    BY <1>2, SlotTaken DEF Acquire
  <2>3. TokensFollowRuns'
    BY <1>2, <2>2 DEF Acquire, TokensFollowRuns
  <2> QED  BY <2>1, <2>3
<1>3. CASE LeaveQueue(r)
  BY <1>3 DEF LeaveQueue, StageInv, KnownInv, OrderInv, AskingInv, QueueInv,
              LiveRunsAreFound, TokensFollowRuns, FollowUpsExtendAnswers
<1>4. CASE Refuse(r) \/ Admit(r)
  BY <1>4 DEF Refuse, Admit, StageInv, KnownInv, OrderInv, AskingInv, QueueInv,
              LiveRunsAreFound, TokensFollowRuns, FollowUpsExtendAnswers
<1>5. CASE SetupFails(r) \/ Returns(r) \/ Replays(r)
  BY <1>5 DEF SetupFails, Returns, Replays, StageInv, KnownInv, OrderInv, AskingInv,
              QueueInv, LiveRunsAreFound, TokensFollowRuns, FollowUpsExtendAnswers
<1>6. CASE Terminate(r)
  BY <1>6 DEF Terminate, StageInv, KnownInv, OrderInv, AskingInv, QueueInv,
              LiveRunsAreFound, TokensFollowRuns, FollowUpsExtendAnswers
<1>7. CASE Leave(r)
  <2>1. /\ StageInv' /\ KnownInv' /\ OrderInv' /\ AskingInv' /\ QueueInv'
        /\ FollowUpsExtendAnswers'
    BY <1>7 DEF Leave, StageInv, KnownInv, OrderInv, AskingInv, QueueInv, Evict,
                FollowUpsExtendAnswers
  <2>2. LiveRunsAreFound'
    BY <1>7, EvictionSpares DEF Leave, LiveRunsAreFound, Evictable
  <2>3. Cardinality(holders') <= Slots
    BY <1>7, SlotGiven DEF Leave
  <2>4. TokensFollowRuns'
    BY <1>7, <2>3 DEF Leave, TokensFollowRuns
  <2> QED  BY <2>1, <2>2, <2>4
<1> QED
  BY <1>1, <1>2, <1>3, <1>4, <1>5, <1>6, <1>7 DEF Works

\* Requests keep SafeInv: what clients ask for finds its run, or a run that is new.
LEMMA RequestKeepsSafe ==
  ASSUME TypeOK, SafeInv, NEW r \in Runs, Requests(r)
  PROVE  SafeInv'
<1> USE DEF TypeOK, SafeInv, requestVars, viewVars, slotVars, windowVars
<1>1. CASE CreateRun(r)
  <2> DEFINE next == IF mode = "live" THEN "created" ELSE "working"
  <2>1. next \in {"created", "rejected", "working"}
    OBVIOUS
  <2>2. /\ NewRun(r, 0) /\ stage' = [stage EXCEPT ![r] = next]
        /\ UNCHANGED <<mode, asking, outcome, asked, watched, slotVars>>
    BY <1>1 DEF CreateRun
  <2>3. next = "working" => mode = "fixture"
    OBVIOUS
  <2> HIDE DEF next
  <2> QED  BY <2>1, <2>2, <2>3, EntryKeepsSafe
<1>2. ASSUME NEW p \in Runs, FollowUp(r, p) PROVE SafeInv'
  <2>1. PICK next \in {"created", "rejected"} : stage' = [stage EXCEPT ![r] = next]
    BY <1>2 DEF FollowUp
  <2>2. /\ NewRun(r, p) /\ p \in asking /\ asking' \subseteq asking
        /\ UNCHANGED <<mode, outcome, asked, watched, slotVars>>
    BY <1>2 DEF FollowUp
  <2> QED  BY <2>1, <2>2, EntryKeepsSafe
<1>3. CASE ReadParent(r)
  BY <1>3 DEF ReadParent, StageInv, KnownInv, OrderInv, AskingInv, QueueInv,
              LiveRunsAreFound, TokensFollowRuns, FollowUpsExtendAnswers
<1>4. CASE CancelRun(r) \/ Watch(r) \/ Unwatch(r)
  BY <1>4 DEF CancelRun, Watch, Unwatch, StageInv, KnownInv, OrderInv, AskingInv, QueueInv,
              LiveRunsAreFound, TokensFollowRuns, FollowUpsExtendAnswers
<1> QED  BY <1>1, <1>2, <1>3, <1>4 DEF Requests

\* SafeInv holds in every state.
THEOREM SafeInvariant == Spec => []SafeInv
<1>1. Init => SafeInv
  <2>1. Cardinality({}) <= Slots
    BY FS_EmptySet, WorkspaceAssumption
  <2> QED
    BY <2>1 DEF Init, SafeInv, StageInv, KnownInv, OrderInv, AskingInv, QueueInv, Lives, Ended,
            LiveRunsAreFound, TokensFollowRuns, FollowUpsExtendAnswers
<1>2. TypeOK /\ SafeInv /\ [Next]_vars => SafeInv'
  <2> SUFFICES ASSUME TypeOK, SafeInv, [Next]_vars PROVE SafeInv'
    OBVIOUS
  <2>1. CASE Tick \/ UNCHANGED vars
    BY <2>1 DEF Tick, vars, requestVars, viewVars, slotVars, windowVars, SafeInv,
                StageInv, KnownInv, OrderInv, AskingInv, QueueInv, LiveRunsAreFound,
                TokensFollowRuns, FollowUpsExtendAnswers
  <2> QED
    BY <2>1, WorkKeepsSafe, RequestKeepsSafe DEF Next
<1> QED  BY <1>1, <1>2, TypeInvariant, PTL DEF Spec

-----------------------------------------------------------------------------
(* The window: an eviction takes exactly what is due.                      *)

\* A set of runs has an oldest one.
LEMMA OldestRun ==
  ASSUME NEW S \in SUBSET Runs, S # {}
  PROVE  \E m \in S : \A s \in S : m <= s
<1> DEFINE Prefixes == {1 .. s : s \in S}
<1>1. Prefixes \subseteq SUBSET Runs
  BY WorkspaceAssumption DEF Runs
<1>2. IsWellFoundedOn(StrictSubsetOrdering(Runs), SUBSET Runs)
  BY RunsAreFinite, FS_StrictSubsetOrderingWellFounded, FS_FiniteSubsetsOfFinite
<1>3. PICK P \in Prefixes :
        \A Q \in Prefixes : <<Q, P>> \notin StrictSubsetOrdering(Runs)
  <2> HIDE DEF Prefixes
  <2>1. Prefixes # {}
    BY DEF Prefixes
  <2> QED  BY <1>1, <1>2, <2>1, WFMin
<1>4. PICK m \in S : P = 1 .. m
  BY DEF Prefixes
<1>5. ASSUME NEW s \in S, s < m PROVE FALSE
  <2>1. 1 .. s \subseteq 1 .. m /\ 1 .. s # 1 .. m
    BY <1>5, WorkspaceAssumption DEF Runs
  <2>2. 1 .. s \in SUBSET Runs /\ 1 .. m \in SUBSET Runs
    BY WorkspaceAssumption DEF Runs
  <2>3. <<1 .. s, 1 .. m>> \in StrictSubsetOrdering(Runs)
    BY <2>1, <2>2 DEF StrictSubsetOrdering
  <2> QED  BY <1>3, <1>4, <2>3
<1> QED  BY <1>5, WorkspaceAssumption DEF Runs

\* The ranks of the runs that may go follow their age.
LEMMA RankGrows ==
  ASSUME NEW window \in SUBSET Runs, NEW r \in window, NEW s \in window, s <= r
  PROVE  Rank(window, s) \in Nat /\ Rank(window, s) <= Rank(window, r)
<1> DEFINE Older(t) == {u \in window : Evictable(u) /\ u <= t}
<1>1. IsFiniteSet(Older(r))
  BY RunsAreFinite, FS_Subset
<1>2. Older(s) \in SUBSET Older(r)
  <2>1. ASSUME NEW u \in window, u <= s PROVE u <= r
    <3>1. u \in Int /\ s \in Int /\ r \in Int
      BY DEF Runs
    <3> QED  BY <2>1, <3>1
  <2> QED  BY <2>1
<1>3. Cardinality(Older(s)) <= Cardinality(Older(r)) /\ IsFiniteSet(Older(s))
  BY <1>1, <1>2, FS_Subset
<1>4. Cardinality(Older(s)) \in Nat
  BY <1>3, FS_CardinalityType
<1> QED  BY <1>3, <1>4 DEF Rank

\* An eviction that could have taken one run more has made the window fit:
\* the runs older than the oldest it spared are all it had to take.
LEMMA EvictionIsExact ==
  ASSUME NEW window \in SUBSET Runs, NEW entering \in SUBSET Runs,
         window \cap entering = {},
         NEW s \in Evict(window, entering), Evictable(s)
  PROVE  Cardinality(Evict(window, entering) \cup entering) <= MaxStored
<1> DEFINE whole == window \cup entering
           excess == Cardinality(whole) - MaxStored
           gone == {t \in window : Evictable(t) /\ ~(Rank(window, t) > excess)}
           spare == {t \in window : Evictable(t) /\ Rank(window, t) > excess}
<1>1. IsFiniteSet(whole) /\ Cardinality(whole) \in Nat /\ excess \in Int
  <2>1. IsFiniteSet(whole)
    BY RunsAreFinite, FS_Subset
  <2>2. Cardinality(whole) \in Nat
    BY <2>1, FS_CardinalityType
  <2> QED  BY <2>1, <2>2, WorkspaceAssumption
<1>2. spare # {} /\ spare \in SUBSET Runs
  BY DEF Evict
<1>3. PICK m \in spare : \A t \in spare : m <= t
  BY <1>2, OldestRun
<1>4. {u \in window : Evictable(u) /\ u <= m} = gone \cup {m}
  <2>1. ASSUME NEW u \in window, Evictable(u), u <= m, u # m PROVE u \in gone
    BY <1>2, <1>3, <2>1, WorkspaceAssumption DEF Runs
  <2>2. ASSUME NEW u \in gone PROVE u <= m
    <3>1. Rank(window, u) \in Nat /\ Rank(window, m) \in Nat
      BY RankGrows, WorkspaceAssumption DEF Runs
    <3>2. Rank(window, u) < Rank(window, m)
      BY <1>1, <3>1
    <3> QED  BY <3>1, <3>2, RankGrows, WorkspaceAssumption DEF Runs
  <2>3. m <= m /\ Evictable(m) /\ m \in window
    BY <1>3, WorkspaceAssumption DEF Runs
  <2> QED  BY <2>1, <2>2, <2>3
<1>5. Cardinality(gone) >= excess /\ IsFiniteSet(gone) /\ Cardinality(gone) \in Nat
  <2>1. IsFiniteSet(gone)
    BY RunsAreFinite, FS_Subset
  <2>2. Cardinality(gone \cup {m}) = Cardinality(gone) + 1
    BY <2>1, FS_AddElement
  <2>3. Cardinality(gone \cup {m}) > excess
    BY <1>4 DEF Rank
  <2>4. Cardinality(gone) \in Nat
    BY <2>1, FS_CardinalityType
  <2> QED  BY <1>1, <2>1, <2>2, <2>3, <2>4
<1>6. Evict(window, entering) \cup entering = whole \ gone
  BY DEF Evict
<1>7. Cardinality(whole \ gone) = Cardinality(whole) - Cardinality(gone)
  <2>1. whole \cap gone = gone
    OBVIOUS
  <2> QED  BY <1>1, <2>1, FS_Difference
<1>8. Cardinality(whole \ gone) <= MaxStored
  <2> HIDE DEF whole, gone
  <2> QED  BY <1>1, <1>5, <1>7, WorkspaceAssumption
<1> QED  BY <1>6, <1>8

\* A window that still does not fit holds nothing that could have gone.
LEMMA EvictionOvershoots ==
  ASSUME NEW window \in SUBSET Runs, NEW entering \in SUBSET Runs,
         window \cap entering = {},
         Cardinality(Evict(window, entering) \cup entering) > MaxStored
  PROVE  Evict(window, entering) \cup entering \subseteq Spared(window, entering)
<1>1. IsFiniteSet(Evict(window, entering) \cup entering)
  BY RunsAreFinite, FS_Subset DEF Evict
<1>2. Cardinality(Evict(window, entering) \cup entering) \in Nat
  BY <1>1, FS_CardinalityType
<1>3. \A s \in Evict(window, entering) : ~Evictable(s)
  BY <1>2, EvictionIsExact, WorkspaceAssumption
<1> QED  BY <1>3 DEF Spared, Evict

\* An eviction takes the oldest of what it may take.
LEMMA EvictionInOrder ==
  ASSUME NEW window \in SUBSET Runs, NEW entering \in SUBSET Runs,
         NEW r \in window, r \notin Evict(window, entering),
         NEW s \in Evict(window, entering), Evictable(s)
  PROVE  r < s
<1>1. Cardinality(window \cup entering) - MaxStored \in Int
  <2>1. IsFiniteSet(window \cup entering)
    BY RunsAreFinite, FS_Subset
  <2> QED  BY <2>1, FS_CardinalityType, WorkspaceAssumption
<1>2. Rank(window, r) \in Nat /\ Rank(window, s) \in Nat
  BY RankGrows, WorkspaceAssumption DEF Runs, Evict
<1>3. Rank(window, r) < Rank(window, s)
  BY <1>1, <1>2 DEF Evict
<1> QED  BY <1>2, <1>3, RankGrows, WorkspaceAssumption DEF Runs, Evict

\* Only a new run and the end of one sweep the window; every other step leaves
\* it, and what the last sweep spared, as they are.
LEMMA WindowSteps ==
  ASSUME TypeOK, SafeInv, [Next]_vars
  PROVE  \/ UNCHANGED windowVars
         \/ \E entering \in SUBSET Runs :
              /\ stored \cap entering = {}
              /\ stored' = Evict(stored, entering) \cup entering
              /\ spared' = Spared(stored, entering)
<1> USE DEF windowVars
<1>1. ASSUME NEW r \in Runs, NEW p \in {0} \cup Runs, NewRun(r, p)
      PROVE  /\ {r} \in SUBSET Runs /\ stored \cap {r} = {}
             /\ stored' = Evict(stored, {r}) \cup {r}
             /\ spared' = Spared(stored, {r})
  BY <1>1 DEF NewRun, SafeInv, KnownInv
<1>2. ASSUME NEW r \in Runs, Leave(r)
      PROVE  /\ {} \in SUBSET Runs /\ stored \cap {} = {}
             /\ stored' = Evict(stored, {}) \cup {}
             /\ spared' = Spared(stored, {})
  BY <1>2 DEF Leave
<1>3. ASSUME NEW r \in Runs, CreateRun(r) \/ \E p \in Runs : FollowUp(r, p)
      PROVE  \E p \in {0} \cup Runs : NewRun(r, p)
  BY <1>3 DEF CreateRun, FollowUp
<1>4. ASSUME NEW r \in Runs,
             \/ ReadParent(r) \/ CancelRun(r) \/ Watch(r) \/ Unwatch(r)
             \/ Start(r) \/ Acquire(r) \/ LeaveQueue(r) \/ Refuse(r) \/ Admit(r)
             \/ SetupFails(r) \/ Returns(r) \/ Replays(r) \/ Terminate(r)
      PROVE  UNCHANGED windowVars
  BY <1>4 DEF ReadParent, CancelRun, Watch, Unwatch, Start, Acquire, LeaveQueue,
              Refuse, Admit, SetupFails, Returns, Replays, Terminate
<1>5. CASE Tick \/ UNCHANGED vars
  BY <1>5 DEF Tick, vars
<1>6. ASSUME NEW r \in Runs, CreateRun(r) \/ \E p \in Runs : FollowUp(r, p)
      PROVE  \E entering \in SUBSET Runs :
               /\ stored \cap entering = {}
               /\ stored' = Evict(stored, entering) \cup entering
               /\ spared' = Spared(stored, entering)
  <2>1. PICK p \in {0} \cup Runs : NewRun(r, p)
    BY <1>3, <1>6
  <2> QED  BY <1>1, <2>1
<1> QED
  BY <1>2, <1>4, <1>5, <1>6 DEF Next, Works, Requests

\* The window exceeds its bound only by what the last sweep had to keep, and
\* every sweep takes the oldest runs that may go.
THEOREM EvictionsInOrder == Spec => EvictionsAreDue
<1> DEFINE OldestFirst ==
      \A r, s \in stored :
        r \notin stored' /\ s \in stored' /\ Evictable(s) => r < s
<1>1. Init => WindowInv
  BY FS_EmptySet, WorkspaceAssumption DEF Init, WindowInv
<1>2. TypeOK /\ SafeInv /\ WindowInv /\ [Next]_vars => WindowInv'
  <2> SUFFICES ASSUME TypeOK, SafeInv, WindowInv, [Next]_vars PROVE WindowInv'
    OBVIOUS
  <2>1. CASE UNCHANGED windowVars
    BY <2>1 DEF WindowInv, windowVars
  <2>2. ASSUME NEW entering \in SUBSET Runs, stored \cap entering = {},
               stored' = Evict(stored, entering) \cup entering,
               spared' = Spared(stored, entering)
        PROVE  WindowInv'
    BY <2>2, EvictionOvershoots DEF WindowInv, TypeOK
  <2> QED  BY <2>1, <2>2, WindowSteps
<1>3. TypeOK /\ SafeInv /\ [Next]_vars => OldestFirst
  <2> SUFFICES ASSUME TypeOK, SafeInv, [Next]_vars,
                      NEW r \in stored, NEW s \in stored,
                      r \notin stored', s \in stored', Evictable(s)
               PROVE  r < s
    OBVIOUS
  <2>1. ASSUME NEW entering \in SUBSET Runs, stored \cap entering = {},
               stored' = Evict(stored, entering) \cup entering
        PROVE  r < s
    <3>1. r \notin Evict(stored, entering) /\ s \in Evict(stored, entering)
      BY <2>1
    <3> QED  BY <3>1, EvictionInOrder DEF TypeOK
  <2> QED  BY <2>1, WindowSteps DEF windowVars
<1>4. WindowInv <=> (Cardinality(stored) > MaxStored => stored \subseteq spared)
  BY DEF WindowInv
<1>5. Spec => []WindowInv
  BY <1>1, <1>2, TypeInvariant, SafeInvariant, PTL DEF Spec
<1>6. Spec => [][OldestFirst]_vars
  BY <1>3, TypeInvariant, SafeInvariant, PTL DEF Spec
<1> QED  BY <1>4, <1>5, <1>6, PTL DEF EvictionsAreDue

-----------------------------------------------------------------------------
(* The other properties.                                                   *)

\* The window never pushes out a run that is live or being read.
THEOREM LiveRunsFound == Spec => []LiveRunsAreFound
BY SafeInvariant, PTL DEF SafeInv

\* The tokens follow the runs and never outnumber the slots.
THEOREM TokensFollow == Spec => []TokensFollowRuns
BY SafeInvariant, PTL DEF SafeInv

\* A follow-up extends an answer.
THEOREM FollowUpsExtend == Spec => []FollowUpsExtendAnswers
BY SafeInvariant, PTL DEF SafeInv

\* A run that shows as cancelled was cancelled in the queue.
THEOREM CancelledInTheQueue == Spec => CancelledBeforeAdmission
<1> DEFINE Cancels ==
      \A r \in Runs : status'[r] = "cancelled" /\ status[r] # "cancelled" =>
        r \in asked /\ r \notin holders
<1>1. TypeOK /\ SafeInv /\ [Next]_vars => Cancels
  <2> SUFFICES ASSUME TypeOK, SafeInv, [Next]_vars, NEW r \in Runs,
                      status'[r] = "cancelled", status[r] # "cancelled"
               PROVE  r \in asked /\ r \notin holders
    OBVIOUS
  <2>1. PICK s \in Runs : Terminate(s)
    <3>1. ASSUME NEW s \in Runs, NEW p \in {0} \cup Runs, NewRun(s, p) PROVE FALSE
      BY <3>1 DEF NewRun, TypeOK
    <3>2. ASSUME NEW s \in Runs,
                 \/ ReadParent(s) \/ CancelRun(s) \/ Watch(s) \/ Unwatch(s)
                 \/ Start(s) \/ Acquire(s) \/ LeaveQueue(s) \/ Refuse(s) \/ Admit(s)
                 \/ SetupFails(s) \/ Returns(s) \/ Replays(s) \/ Leave(s)
          PROVE  FALSE
      BY <3>2 DEF ReadParent, CancelRun, Watch, Unwatch, Start, Acquire, LeaveQueue,
                  Refuse, Admit, SetupFails, Returns, Replays, Leave, viewVars
    <3>3. CASE Tick \/ UNCHANGED vars
      BY <3>3 DEF Tick, vars, viewVars
    <3> QED
      BY <3>1, <3>2, <3>3 DEF Next, Works, Requests, CreateRun, FollowUp
  <2>2. r = s /\ stage[r] = "ending" /\ outcome[r] = "cancelled"
    BY <2>1 DEF Terminate, TypeOK
  <2> QED  BY <2>2 DEF SafeInv, QueueInv
<1> QED
  BY <1>1, TypeInvariant, SafeInvariant, PTL DEF Spec, CancelledBeforeAdmission
=============================================================================
