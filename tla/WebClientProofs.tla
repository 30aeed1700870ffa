----------------------------- MODULE WebClientProofs -----------------------------
(***************************************************************************)
(* What TLAPS proves of WebClient for every number of runs and events, and *)
(* for any ring, channel and number of failures.  The reducer's three      *)
(* cases have a lemma each: none of them changes the run it follows, and   *)
(* what they make of a good state is good.  ClientInv is why no case is    *)
(* ever reached with the reducer's null run, whose guard lets any answer   *)
(* in, and why a run that is followed anew was never followed before.      *)
(***************************************************************************)
EXTENDS WebClient, FiniteSetTheorems, TLAPS

-----------------------------------------------------------------------------
(* The inductive invariant.                                                *)

\* The reducer is in order: the plan it holds is of the run it follows, and
\* it asks for another one when it has seen a newer event.
InOrder(state) ==
  /\ state.planRun = state.run
  /\ ~state.need => state.plan >= state.observed

\* The stream is of the run followed, or there is none.
StreamInv ==
  /\ stream.run \in {0, exec.run}
  /\ stream.state # "closed" => stream.run # 0

\* Before anything is followed there is nothing an answer could be about, and
\* the plan of a stored case is never fetched.
FollowInv ==
  /\ exec.run = 0 => asks = {}
  /\ exec.run = SavedCase => stream.run = 0 /\ ~exec.need
  /\ timer # 0 => timer = exec.run /\ exec.need

\* What is followed has been created, and what a POST has just created is
\* not followed yet.
CreatedInv ==
  /\ exec.run \in Runs => published[exec.run] # -1
  /\ posted # 0 => published[posted] # -1 /\ exec.run # posted

ClientInv == InOrder(exec) /\ StreamInv /\ FollowInv /\ CreatedInv

-----------------------------------------------------------------------------
(* Numbers.                                                                *)

\* The events of a run are finite and have a first one.
LEMMA FirstEvent ==
  ASSUME NEW S \in SUBSET (1 .. Last), S # {}
  PROVE  Min(S) \in S
<1> DEFINE Prefixes == {1 .. s : s \in S}
<1>1. Prefixes \subseteq SUBSET (1 .. Last) /\ Prefixes # {}
  <2>1. ASSUME NEW s \in S PROVE 1 .. s \in SUBSET (1 .. Last)
    BY StreamAssumption
  <2> QED  BY <2>1
<1>2. IsWellFoundedOn(StrictSubsetOrdering(1 .. Last), SUBSET (1 .. Last))
  <2>1. IsFiniteSet(1 .. Last)
    BY FS_Interval, StreamAssumption
  <2> QED
    BY <2>1, FS_StrictSubsetOrderingWellFounded, FS_FiniteSubsetsOfFinite
<1>3. PICK P \in Prefixes :
        \A Q \in Prefixes : <<Q, P>> \notin StrictSubsetOrdering(1 .. Last)
  <2> HIDE DEF Prefixes
  <2> QED  BY <1>1, <1>2, WFMin
<1>4. PICK m \in S : P = 1 .. m
  BY DEF Prefixes
<1>5. ASSUME NEW s \in S, s < m PROVE FALSE
  <2>1. 1 .. s \subseteq 1 .. m /\ 1 .. s # 1 .. m
    BY <1>5, StreamAssumption
  <2>2. 1 .. s \in SUBSET (1 .. Last) /\ 1 .. m \in SUBSET (1 .. Last)
    BY StreamAssumption
  <2>3. <<1 .. s, 1 .. m>> \in StrictSubsetOrdering(1 .. Last)
    BY <2>1, <2>2 DEF StrictSubsetOrdering
  <2> QED  BY <1>3, <1>4, <2>3
<1>6. \A s \in S : m <= s
  BY <1>5, StreamAssumption
<1> QED  BY <1>6 DEF Min

\* The larger of two numbers.
LEMMA Larger ==
  ASSUME NEW a \in Int, NEW b \in Int
  PROVE  Max({a, b}) = IF a >= b THEN a ELSE b
<1> DEFINE larger == IF a >= b THEN a ELSE b
<1>1. larger \in {a, b} /\ \A y \in {a, b} : larger >= y
  OBVIOUS
<1>2. ASSUME NEW x \in {a, b}, \A y \in {a, b} : x >= y PROVE x = larger
  BY <1>2
<1> HIDE DEF larger
<1>3. Max({a, b}) = larger
  BY <1>1, <1>2 DEF Max
<1> QED  BY <1>3 DEF larger

-----------------------------------------------------------------------------
(* The reducer.                                                            *)

Executions == [run : 0 .. SavedCase, planRun : 0 .. SavedCase, plan : 0 .. Last,
               observed : 0 .. Last, need : BOOLEAN,
               connection : {"idle", "live", "recovering", "unavailable"}]

\* What a case of the reducer may make of a state that follows a run.
Reduced(old, new) ==
  /\ new \in Executions
  /\ InOrder(new)
  /\ new.run = old.run
  /\ new.plan >= old.plan

\* What is ignored leaves a good state good.
LEMMA SameReduces ==
  ASSUME NEW old \in Executions, InOrder(old)
  PROVE  Reduced(old, old)
BY DEF Reduced, Executions

\* An answer brings a plan of the run followed that is not older, or nothing.
LEMMA SnapshotReduces ==
  ASSUME NEW old \in Executions, InOrder(old), old.run # 0,
         NEW r \in Runs, NEW n \in 0 .. Last
  PROVE  /\ Reduced(old, Snapshot(old, r, n))
         /\ r # old.run => Snapshot(old, r, n) = old
<1>1. CASE Foreign(old, r) \/ (old.planRun = r /\ n < old.plan)
  <2>1. Snapshot(old, r, n) = old
    BY <1>1 DEF Snapshot
  <2> QED  BY <2>1, SameReduces
<1>2. CASE ~(Foreign(old, r) \/ (old.planRun = r /\ n < old.plan))
  <2> DEFINE observed == Max({old.observed, n})
             need == n < observed
             new == [run |-> r, planRun |-> r, plan |-> n, observed |-> observed,
                     need |-> need, connection |-> IF need THEN "recovering" ELSE "live"]
  <2>1. Snapshot(old, r, n) = new
    BY <1>2 DEF Snapshot
  <2>2. observed \in 0 .. Last /\ (~need => n >= observed)
    <3>1. observed = IF old.observed >= n THEN old.observed ELSE n
      BY Larger, StreamAssumption DEF Executions
    <3> QED  BY <3>1, StreamAssumption DEF Executions
  <2>3. r = old.run /\ n >= old.plan /\ r \in 0 .. SavedCase
    BY <1>2, StreamAssumption DEF Foreign, InOrder, Executions, Runs, SavedCase
  <2>4. need \in BOOLEAN /\ observed \in 0 .. Last
    BY <2>2
  <2> HIDE DEF observed, need
  <2>5. /\ new \in Executions /\ new.run = r /\ new.planRun = r /\ new.plan = n
        /\ new.need = need /\ new.observed = observed
    BY <2>3, <2>4 DEF Executions
  <2> HIDE DEF new
  <2>6. InOrder(new)
    BY <2>2, <2>5, Zenon DEF InOrder
  <2> QED  BY <2>1, <2>3, <2>5, <2>6 DEF Reduced
<1> QED  BY <1>1, <1>2

\* A state that asks for a newer plan of the run it follows.
Asking(old, n, how) ==
  [old EXCEPT !.run = old.run, !.observed = n, !.need = TRUE, !.connection = how]

\* Asking for a newer plan keeps the one that is shown.
LEMMA AskingReduces ==
  ASSUME NEW old \in Executions, InOrder(old), NEW n \in 0 .. Last,
         NEW how \in {"live", "recovering", "unavailable"}
  PROVE  Reduced(old, Asking(old, n, how))
<1> DEFINE new == Asking(old, n, how)
<1>1. /\ new \in Executions /\ new.run = old.run /\ new.planRun = old.planRun
      /\ new.plan = old.plan /\ new.need = TRUE
  BY DEF Executions, Asking
<1>2. new.plan >= old.plan
  BY <1>1, StreamAssumption DEF Executions
<1>3. new.need
  BY <1>1
<1> HIDE DEF new
<1>4. InOrder(new)
  BY <1>1, <1>3, Zenon DEF InOrder
<1>5. Reduced(old, new)
  BY <1>1, <1>2, <1>4 DEF Reduced
<1> QED  BY <1>5 DEF new

\* An event makes the reducer ask for a newer plan, or changes nothing.
LEMMA ObserveReduces ==
  ASSUME NEW old \in Executions, InOrder(old), old.run # 0,
         NEW r \in Runs, NEW n \in 1 .. Last
  PROVE  /\ Reduced(old, Observe(old, r, n))
         /\ r # old.run => Observe(old, r, n) = old
<1>1. CASE Foreign(old, r) \/ n <= old.observed
  BY <1>1, SameReduces DEF Observe
<1>2. CASE ~(Foreign(old, r) \/ n <= old.observed)
  <2>1. r = old.run
    BY <1>2 DEF Foreign
  <2>2. PICK how \in {"live", "recovering"} :
          Observe(old, r, n) = Asking(old, n, how)
    BY <1>2, <2>1 DEF Observe, Asking
  <2>3. n \in 0 .. Last
    OBVIOUS
  <2>4. how \in {"live", "recovering", "unavailable"}
    BY <2>2
  <2> QED  BY <2>1, <2>2, <2>3, <2>4, AskingReduces
<1> QED  BY <1>1, <1>2

\* A failure makes it ask again.
LEMMA UnavailableReduces ==
  ASSUME NEW old \in Executions, InOrder(old), old.run # 0, NEW r \in Runs
  PROVE  /\ Reduced(old, Unavailable(old, r))
         /\ r # old.run => Unavailable(old, r) = old
<1>1. CASE Foreign(old, r)
  BY <1>1, SameReduces DEF Unavailable
<1>2. CASE ~Foreign(old, r)
  <2>1. r = old.run
    BY <1>2 DEF Foreign
  <2>2. Unavailable(old, r) = Asking(old, old.observed, "unavailable")
    BY <1>2, <2>1 DEF Unavailable, Executions, Asking
  <2>3. old.observed \in 0 .. Last
    BY DEF Executions
  <2> QED  BY <2>1, <2>2, <2>3, AskingReduces
<1> QED  BY <1>1, <1>2

\* The timer belongs to what the reducer asks for.
LEMMA DispatchArms ==
  ASSUME TypeOK, FollowInv, NEW new \in Executions, Dispatch(new)
  PROVE  /\ exec' = new
         /\ timer' \in 0 .. SavedCase
         /\ timer' # 0 => timer' = new.run /\ new.need
<1>1. CASE Watches(new) = Watches(exec)
  <2>1. timer' = timer /\ exec' = new /\ new.run = exec.run /\ new.need = exec.need
    BY <1>1 DEF Dispatch, Watches
  <2> QED  BY <2>1, Zenon DEF TypeOK, FollowInv
<1>2. CASE Watches(new) # Watches(exec)
  <2>1. timer' = IF new.need THEN new.run ELSE 0
    BY <1>2 DEF Dispatch
  <2>2. new.run \in 0 .. SavedCase /\ 0 \in 0 .. SavedCase
    BY StreamAssumption DEF Executions, SavedCase
  <2> QED  BY <2>1, <2>2, Zenon DEF Dispatch
<1> QED  BY <1>1, <1>2

-----------------------------------------------------------------------------
(* Each step of the client keeps its invariant.                            *)

\* A case of the reducer, dispatched while a run is followed, keeps all that
\* is known of it; the stream stays or closes.
LEMMA ReducedKeeps ==
  ASSUME TypeOK, ClientInv, exec.run # 0,
         NEW new, Reduced(exec, new), exec.run = SavedCase => new = exec,
         Dispatch(new),
         stream'.run \in {0, stream.run},
         stream'.state # "closed" => stream'.run # 0,
         UNCHANGED <<published, posted>>
  PROVE  /\ exec' \in Executions /\ timer' \in 0 .. SavedCase
         /\ exec'.run = exec.run /\ exec'.plan >= exec.plan
         /\ ClientInv'
<1>1. /\ exec' = new /\ timer' \in 0 .. SavedCase
      /\ timer' # 0 => timer' = new.run /\ new.need
  BY DispatchArms DEF ClientInv, Reduced
<1>2. InOrder(exec)'
  BY <1>1 DEF Reduced, InOrder
<1>3. StreamInv'
  BY <1>1 DEF Reduced, ClientInv, StreamInv
<1>4. FollowInv'
  <2>1. exec'.run = SavedCase => stream'.run = 0 /\ ~exec'.need
    BY <1>1, Zenon DEF Reduced, ClientInv, FollowInv, StreamInv
  <2>2. timer' # 0 => timer' = exec'.run /\ exec'.need
    BY <1>1, Zenon
  <2>3. exec'.run # 0
    BY <1>1 DEF Reduced
  <2> QED  BY <2>1, <2>2, <2>3, Zenon DEF FollowInv
<1>5. CreatedInv'
  BY <1>1 DEF Reduced, ClientInv, CreatedInv
<1> QED
  BY <1>1, <1>2, <1>3, <1>4, <1>5 DEF Reduced, ClientInv

\* Following a run, or opening a case, starts the reducer afresh.
LEMMA ResetKeeps ==
  ASSUME TypeOK, ClientInv, NEW r \in 1 .. SavedCase, NEW n \in 0 .. Last,
         r # exec.run, Dispatch(Reset(r, n))
  PROVE  /\ exec' \in Executions /\ timer' = 0 /\ exec' = Reset(r, n)
         /\ exec'.run = r /\ exec'.need = FALSE /\ exec'.planRun = r
         /\ InOrder(exec)'
<1>1. /\ Reset(r, n) \in Executions /\ Reset(r, n).run = r
      /\ Reset(r, n).need = FALSE /\ Reset(r, n).planRun = r
      /\ Reset(r, n).plan = n /\ Reset(r, n).observed = n
  BY StreamAssumption DEF Reset, Executions, SavedCase
<1>2. Watches(Reset(r, n)) # Watches(exec)
  BY <1>1 DEF Watches
<1>3. exec' = Reset(r, n) /\ timer' = 0
  BY <1>1, <1>2 DEF Dispatch
<1>4. n >= n
  BY StreamAssumption
<1> QED  BY <1>1, <1>3, <1>4 DEF InOrder

\* A request is about a run that exists.
LEMMA AskTyped ==
  ASSUME TypeOK, NEW kind \in {"run", "plan"}, NEW r \in Runs, published[r] # -1
  PROVE  /\ Ask(kind, r) \in [kind : {"run", "plan"}, run : Runs, since : 0 .. Last]
         /\ published[r] \in 0 .. Last
<1>1. published[r] \in 0 .. Last
  BY StreamAssumption DEF TypeOK, StreamTypeOK
<1> QED  BY <1>1 DEF Ask

\* The run of an open stream is followed and exists.
LEMMA StreamFollowed ==
  ASSUME TypeOK, ClientInv, stream.run # 0
  PROVE  /\ stream.run \in Runs /\ exec.run = stream.run
         /\ published[stream.run] # -1 /\ exec.run # SavedCase
BY StreamAssumption
DEF ClientInv, StreamInv, CreatedInv, TypeOK, StreamTypeOK, Runs, SavedCase

Streams == [run : 0 .. MaxRuns, state : {"closed", "connecting", "open"},
            lastID : 0 .. Last, due : SUBSET (1 .. Last),
            channel : SUBSET (1 .. Last), subscribed : BOOLEAN]

\* No stream is a stream, ...
LEMMA ClosedTyped == Closed \in Streams /\ Closed.run = 0 /\ Closed.state = "closed"
<1>1. 0 \in 0 .. MaxRuns /\ 0 \in 0 .. Last /\ FALSE \in BOOLEAN
  BY StreamAssumption
<1> QED  BY <1>1 DEF Closed, Streams

\* ... and so is one opened for a run.
LEMMA OpenedTyped ==
  ASSUME NEW r \in Runs
  PROVE  Opened(r) \in Streams /\ Opened(r).run = r
<1>1. r \in 0 .. MaxRuns
  BY StreamAssumption DEF Runs
<1> QED  BY <1>1, ClosedTyped DEF Opened, Streams

\* A plan never goes back while the same run is followed.
Advances == exec'.run = exec.run => exec'.plan >= exec.plan

\* What a step may do.
Keeps == TypeOK' /\ ClientInv' /\ Advances

\* Steps of the server.
LEMMA ServerKeeps ==
  ASSUME TypeOK, ClientInv, Server
  PROVE  Keeps
<1> USE DEF clientVars
<1>1. ASSUME NEW r \in Runs, Publish(r), UNCHANGED clientVars PROVE Keeps
  <2>1. published' \in [Runs -> -1 .. Last]
    BY <1>1, StreamAssumption DEF Publish, TypeOK, StreamTypeOK
  <2>2. \A s \in Runs : published[s] # -1 => published'[s] # -1
    BY <1>1, StreamAssumption DEF Publish, TypeOK, StreamTypeOK
  <2>3. /\ stream'.run = stream.run /\ stream'.state = stream.state
        /\ stream' \in Streams
    BY <1>1, StreamAssumption DEF Publish, TypeOK, StreamTypeOK, Streams
  <2>4. TypeOK' /\ breaks' = breaks
    BY <1>1, <2>1, <2>3 DEF TypeOK, StreamTypeOK, Streams, Publish
  <2>5. ClientInv'
    BY <1>1, <2>2, <2>3, StreamAssumption
    DEF ClientInv, InOrder, StreamInv, FollowInv, CreatedInv, TypeOK, Runs
  <2>6. Advances
    BY <1>1, StreamAssumption DEF Advances, TypeOK
  <2> QED  BY <2>4, <2>5, <2>6 DEF Keeps
<1>2. CASE Connect /\ UNCHANGED clientVars
  <2>1. /\ stream'.run = stream.run /\ stream.state # "closed"
        /\ stream' \in Streams
    <3>1. stream.run \in Runs
      BY <1>2, StreamFollowed DEF Connect, ClientInv, StreamInv
    <3>2. {n \in Kept(stream.run) : n > stream.lastID} \in SUBSET (1 .. Last)
      BY <3>1, StreamAssumption DEF Kept, TypeOK, StreamTypeOK
    <3>3. (~RunEnded(stream.run)) \in BOOLEAN
      OBVIOUS
    <3> HIDE DEF Kept
    <3> QED  BY <1>2, <3>2, <3>3 DEF Connect, TypeOK, StreamTypeOK, Streams
  <2>2. TypeOK'
    BY <1>2, <2>1 DEF TypeOK, StreamTypeOK, Streams, Connect, serverVars
  <2>3. ClientInv'
    BY <1>2, <2>1
    DEF ClientInv, InOrder, StreamInv, FollowInv, CreatedInv, Connect, serverVars
  <2>4. Advances
    BY <1>2, StreamAssumption DEF Advances, TypeOK
  <2> QED  BY <2>2, <2>3, <2>4 DEF Keeps
<1> QED  BY <1>1, <1>2 DEF Server

\* A POST and its answer; opening a case.
LEMMA UserKeeps ==
  ASSUME TypeOK, ClientInv, User \/ Follow
  PROVE  Keeps
<1> USE DEF serverVars
<1>1. ASSUME NEW r \in Runs, Post(r) PROVE Keeps
  <2>1. /\ published' = [published EXCEPT ![r] = 0] /\ published[r] = -1
        /\ posted' = r
        /\ UNCHANGED <<stream, breaks, view, exec, timer, asks, overtaken>>
    BY <1>1 DEF Post, NewRun
  <2>2. TypeOK'
    BY <2>1, StreamAssumption DEF TypeOK, StreamTypeOK, Runs
  <2>3. ClientInv'
    BY <2>1, StreamAssumption
    DEF ClientInv, InOrder, StreamInv, FollowInv, CreatedInv, TypeOK, StreamTypeOK, Runs
  <2>4. Advances
    BY <2>1, StreamAssumption DEF Advances, TypeOK
  <2> QED  BY <2>2, <2>3, <2>4 DEF Keeps
<1>2. CASE OpenCase
  <2>1. SavedCase \in 1 .. SavedCase /\ SavedCase \notin Runs /\ Last \in 0 .. Last
        /\ SavedCase # 0
    BY StreamAssumption DEF SavedCase, Runs
  <2>2. SavedCase # exec.run /\ Dispatch(Reset(SavedCase, Last))
    BY <1>2 DEF OpenCase
  <2>3. /\ exec' \in Executions /\ timer' = 0 /\ exec'.run = SavedCase
        /\ exec'.need = FALSE /\ InOrder(exec)'
    BY <2>1, <2>2, ResetKeeps
  <2>4. /\ view' = [run |-> 0, ended |-> FALSE] /\ stream' = Closed
        /\ UNCHANGED <<published, breaks, asks, posted, overtaken>>
    BY <1>2 DEF OpenCase
  <2>5. TypeOK'
    BY <2>3, <2>4, StreamAssumption
    DEF TypeOK, StreamTypeOK, Closed, Executions, SavedCase
  <2>6. ClientInv'
    BY <2>1, <2>3, <2>4, StreamAssumption
    DEF ClientInv, StreamInv, FollowInv, CreatedInv, Closed, TypeOK, SavedCase
  <2>7. Advances
    BY <2>2, <2>3 DEF Advances
  <2> QED  BY <2>5, <2>6, <2>7 DEF Keeps
<1>3. CASE Follow
  <2>1. /\ posted \in Runs /\ posted \in 1 .. SavedCase /\ posted # SavedCase
        /\ 0 \in 0 .. Last /\ posted # exec.run /\ published[posted] # -1
    BY <1>3, StreamAssumption
    DEF Follow, SavedCase, Runs, TypeOK, ClientInv, CreatedInv
  <2>2. Dispatch(Reset(posted, 0))
    BY <1>3 DEF Follow
  <2>3. /\ exec' \in Executions /\ timer' = 0 /\ exec'.run = posted
        /\ exec'.need = FALSE /\ InOrder(exec)'
    BY <2>1, <2>2, ResetKeeps
  <2>4. /\ view' = [run |-> posted, ended |-> FALSE] /\ stream' = Opened(posted)
        /\ posted' = 0
        /\ UNCHANGED <<published, breaks, asks, overtaken>>
    BY <1>3 DEF Follow
  <2>5. /\ stream' \in Streams
        /\ stream'.run = posted
    BY <2>1, <2>4, OpenedTyped
  <2>6. TypeOK'
    <3>1. view' \in [run : 0 .. MaxRuns, ended : BOOLEAN]
      BY <2>1, <2>4 DEF TypeOK, Runs
    <3> QED
      BY <2>3, <2>4, <2>5, <3>1, StreamAssumption
      DEF TypeOK, StreamTypeOK, Executions, Streams, SavedCase
  <2>7. ClientInv'
    BY <2>1, <2>3, <2>4, <2>5, StreamAssumption
    DEF ClientInv, StreamInv, FollowInv, CreatedInv, Runs
  <2>8. Advances
    BY <2>1, <2>3 DEF Advances
  <2> QED  BY <2>6, <2>7, <2>8 DEF Keeps
<1> QED  BY <1>1, <1>2, <1>3 DEF User

\* An answer, or its failure, is one case of the reducer; the stream may
\* close.
LEMMA AnswerKeeps ==
  ASSUME TypeOK, ClientInv, exec.run # 0,
         NEW new, Reduced(exec, new), exec.run = SavedCase => new = exec,
         Dispatch(new),
         stream' \in {stream, Closed}, breaks' \in 0 .. MaxBreaks,
         view' \in [run : 0 .. MaxRuns, ended : BOOLEAN], overtaken' \in BOOLEAN,
         asks' \subseteq asks, UNCHANGED <<published, posted>>
  PROVE  Keeps
<1>1. stream' \in Streams /\ stream'.run \in {0, stream.run}
  BY ClosedTyped DEF TypeOK, StreamTypeOK, Streams
<1>2. stream'.state # "closed" => stream'.run # 0
  BY ClosedTyped DEF ClientInv, StreamInv
<1>3. /\ exec' \in Executions /\ timer' \in 0 .. SavedCase
      /\ ClientInv' /\ Advances
  BY <1>1, <1>2, ReducedKeeps DEF Advances
<1>4. TypeOK'
  BY <1>1, <1>3 DEF TypeOK, StreamTypeOK, Executions, Streams
<1> QED  BY <1>3, <1>4 DEF Keeps

\* What an event, a failure or an answer makes of the reducer.
LEMMA ClientKeeps ==
  ASSUME TypeOK, ClientInv,
         \/ Deliver \/ StreamError \/ FetchPlan
         \/ \E ask \in asks : RunAnswered(ask) \/ PlanAnswered(ask) \/ AskFails(ask)
  PROVE  Keeps
<1> USE DEF serverVars
<1>1. CASE Deliver
  <2>1. /\ stream.run \in Runs /\ exec.run = stream.run /\ exec.run # 0
        /\ published[stream.run] # -1 /\ exec.run # SavedCase
    BY <1>1, StreamFollowed, StreamAssumption
    DEF Deliver, Sendable, ClientInv, StreamInv, Runs
  <2>2. NextEvent \in 1 .. Last
    <3>1. /\ stream.due \in SUBSET (1 .. Last) /\ stream.channel \in SUBSET (1 .. Last)
          /\ stream.due \cup stream.channel # {}
      BY <1>1 DEF Deliver, Sendable, TypeOK, StreamTypeOK
    <3> QED  BY <3>1, FirstEvent DEF NextEvent
  <2>3. /\ Reduced(exec, Observe(exec, stream.run, NextEvent))
        /\ Dispatch(Observe(exec, stream.run, NextEvent))
    BY <1>1, <2>1, <2>2, ObserveReduces DEF Deliver, ClientInv, TypeOK, Executions
  <2>4. stream' \in Streams /\ stream'.run = stream.run /\ stream'.state = stream.state
    <3> DEFINE due == stream.due \ {NextEvent}
               channel == IF stream.due # {} THEN stream.channel
                          ELSE stream.channel \ {NextEvent}
    <3>1. stream' = Sent /\ stream \in Streams
      BY <1>1 DEF Deliver, TypeOK, StreamTypeOK, Streams
    <3>2. due \in SUBSET (1 .. Last) /\ channel \in SUBSET (1 .. Last)
      BY <3>1 DEF Streams
    <3>3. NextEvent \in 0 .. Last
      BY <2>2
    <3>4. Sent = [stream EXCEPT !.lastID = NextEvent, !.due = due, !.channel = channel]
      BY DEF Sent
    <3> HIDE DEF due, channel
    <3> QED  BY <3>1, <3>2, <3>3, <3>4 DEF Streams
  <2>5. /\ exec' \in Executions /\ timer' \in 0 .. SavedCase
        /\ ClientInv' /\ Advances
    BY <1>1, <2>1, <2>3, <2>4, ReducedKeeps DEF Deliver, Advances, ClientInv, StreamInv
  <2>6. asks' \subseteq [kind : {"run", "plan"}, run : Runs, since : 0 .. Last]
    BY <1>1, <2>1, AskTyped DEF Deliver, TypeOK
  <2>7. TypeOK'
    BY <1>1, <2>4, <2>5, <2>6 DEF Deliver, TypeOK, StreamTypeOK, Executions, Streams
  <2> QED  BY <2>5, <2>7 DEF Keeps
<1>2. CASE StreamError
  <2>1. /\ stream.run \in Runs /\ exec.run = stream.run /\ exec.run # 0
        /\ published[stream.run] # -1 /\ exec.run # SavedCase /\ stream.state # "closed"
    BY <1>2, StreamFollowed, StreamAssumption
    DEF StreamError, HandlerReturns, ClientInv, StreamInv, Runs
  <2>2. /\ Reduced(exec, Unavailable(exec, stream.run))
        /\ Dispatch(Unavailable(exec, stream.run))
    BY <1>2, <2>1, UnavailableReduces DEF StreamError, ClientInv, TypeOK, Executions
  <2>3. stream' \in Streams /\ stream'.run = stream.run
    <3>1. stream \in Streams
      BY DEF TypeOK, StreamTypeOK, Streams
    <3> QED  BY <1>2, <3>1, StreamAssumption DEF StreamError, Streams
  <2>4. /\ exec' \in Executions /\ timer' \in 0 .. SavedCase
        /\ ClientInv' /\ Advances
    BY <1>2, <2>1, <2>2, <2>3, ReducedKeeps, StreamAssumption
    DEF StreamError, Advances, Runs
  <2>5. asks' \subseteq [kind : {"run", "plan"}, run : Runs, since : 0 .. Last]
    BY <1>2, <2>1, AskTyped DEF StreamError, TypeOK
  <2>6. breaks' \in 0 .. MaxBreaks
    BY <1>2, StreamAssumption DEF StreamError, TypeOK, StreamTypeOK
  <2>7. TypeOK'
    BY <1>2, <2>3, <2>4, <2>5, <2>6
    DEF StreamError, TypeOK, StreamTypeOK, Executions, Streams
  <2> QED  BY <2>4, <2>7 DEF Keeps
<1>3. CASE FetchPlan
  <2>1. timer \in Runs /\ exec.run = timer /\ published[timer] # -1
    <3>1. timer = exec.run /\ timer # SavedCase /\ timer # 0
      BY <1>3, Zenon DEF FetchPlan, ClientInv, FollowInv
    <3> QED
      BY <3>1, StreamAssumption DEF ClientInv, CreatedInv, TypeOK, Runs, SavedCase
  <2>2. /\ asks' \subseteq [kind : {"run", "plan"}, run : Runs, since : 0 .. Last]
        /\ timer' = 0 /\ UNCHANGED <<published, breaks, stream, view, exec, posted, overtaken>>
    BY <1>3, <2>1, AskTyped DEF FetchPlan, TypeOK
  <2>3. TypeOK'
    BY <2>2, StreamAssumption DEF TypeOK, StreamTypeOK, SavedCase
  <2>4. ClientInv'
    BY <2>1, <2>2, StreamAssumption
    DEF ClientInv, InOrder, StreamInv, FollowInv, CreatedInv, Runs
  <2>5. Advances
    BY <2>2, StreamAssumption DEF Advances, TypeOK
  <2> QED  BY <2>3, <2>4, <2>5 DEF Keeps
<1>4. ASSUME NEW ask \in asks,
             RunAnswered(ask) \/ PlanAnswered(ask) \/ AskFails(ask)
      PROVE  Keeps
  <2>1. /\ ask.run \in Runs /\ ask.since \in 0 .. Last /\ exec.run # 0
        /\ exec \in Executions /\ InOrder(exec)
    BY DEF TypeOK, ClientInv, FollowInv, Executions
  <2>2. /\ ask.run # SavedCase /\ ask.run \in 0 .. MaxRuns
        /\ \A n \in Answers(ask) : n \in 0 .. Last
    <3>1. ask.run # SavedCase /\ ask.run \in 0 .. MaxRuns
      BY <2>1, StreamAssumption DEF SavedCase, Runs
    <3>2. published[ask.run] \in -1 .. Last
      BY <2>1 DEF TypeOK, StreamTypeOK
    <3>3. \A n \in Answers(ask) : n \in 0 .. Last
      BY <2>1, <3>2, StreamAssumption DEF Answers
    <3> QED  BY <3>1, <3>3
  <2>3. /\ stream \in {stream, Closed} /\ breaks \in 0 .. MaxBreaks
        /\ view \in [run : 0 .. MaxRuns, ended : BOOLEAN] /\ overtaken \in BOOLEAN
    BY DEF TypeOK, StreamTypeOK
  <2>4. ASSUME NEW n \in Answers(ask)
        PROVE  /\ Reduced(exec, Snapshot(exec, ask.run, n))
               /\ exec.run = SavedCase => Snapshot(exec, ask.run, n) = exec
    BY <2>1, <2>2, SnapshotReduces
  <2>5. /\ Reduced(exec, Unavailable(exec, ask.run))
        /\ exec.run = SavedCase => Unavailable(exec, ask.run) = exec
    BY <2>1, <2>2, UnavailableReduces
  <2>6. CASE RunAnswered(ask)
    <3>1. PICK n \in Answers(ask) :
            /\ view' = [run |-> ask.run, ended |-> n = Last]
            /\ Dispatch(Snapshot(exec, ask.run, n))
            /\ stream' = IF n = Last THEN Closed ELSE stream
            /\ overtaken' = (overtaken \/ (n = Last /\ stream.run \notin {0, ask.run}))
      BY <2>6 DEF RunAnswered
    <3>2. /\ view' \in [run : 0 .. MaxRuns, ended : BOOLEAN]
          /\ stream' \in {stream, Closed}
      BY <2>2, <3>1
    <3>3. overtaken' \in BOOLEAN
      BY <3>1
    <3>4. UNCHANGED <<published, breaks, posted>> /\ asks' \subseteq asks
      BY <2>6 DEF RunAnswered
    <3> QED  BY <2>1, <2>3, <2>4, <3>1, <3>2, <3>3, <3>4, AnswerKeeps
  <2>7. CASE PlanAnswered(ask)
    <3>1. PICK n \in Answers(ask) : Dispatch(Snapshot(exec, ask.run, n))
      BY <2>7 DEF PlanAnswered
    <3>2. /\ UNCHANGED <<published, breaks, posted, stream, view, overtaken>>
          /\ asks' \subseteq asks
      BY <2>7 DEF PlanAnswered
    <3> QED  BY <2>1, <2>3, <2>4, <3>1, <3>2, AnswerKeeps
  <2>8. CASE AskFails(ask)
    <3>1. /\ UNCHANGED <<published, posted, stream, view, overtaken>>
          /\ asks' \subseteq asks /\ breaks' \in 0 .. MaxBreaks
      BY <2>8, <2>3, StreamAssumption DEF AskFails
    <3>2. CASE ask.kind = "plan"
      <4>1. Dispatch(Unavailable(exec, ask.run))
        BY <2>8, <3>2 DEF AskFails
      <4> QED  BY <2>1, <2>3, <2>5, <3>1, <4>1, AnswerKeeps
    <3>3. CASE ask.kind # "plan"
      <4>1. UNCHANGED <<exec, timer>>
        BY <2>8, <3>3 DEF AskFails
      <4>2. TypeOK'
        BY <3>1, <4>1 DEF TypeOK, StreamTypeOK
      <4>3. ClientInv'
        BY <2>1, <3>1, <4>1 DEF ClientInv, InOrder, StreamInv, FollowInv, CreatedInv
      <4>4. Advances
        BY <4>1, StreamAssumption DEF Advances, TypeOK
      <4> QED  BY <4>2, <4>3, <4>4 DEF Keeps
    <3> QED  BY <3>2, <3>3
  <2> QED  BY <1>4, <2>6, <2>7, <2>8
<1> QED  BY <1>1, <1>2, <1>3, <1>4

-----------------------------------------------------------------------------
(* The properties.                                                         *)

\* Every step, of the server, the user, the network or the client.
LEMMA StepKeeps ==
  ASSUME TypeOK, ClientInv, [Next]_vars
  PROVE  Keeps
<1>1. CASE UNCHANGED vars
  <2> USE <1>1 DEF vars, clientVars
  <2>1. TypeOK'
    BY DEF TypeOK, StreamTypeOK
  <2>2. ClientInv'
    BY DEF ClientInv, InOrder, StreamInv, FollowInv, CreatedInv
  <2>3. Advances
    BY StreamAssumption DEF Advances, TypeOK
  <2> QED  BY <2>1, <2>2, <2>3 DEF Keeps
<1> QED
  BY <1>1, ServerKeeps, UserKeeps, ClientKeeps DEF Next, Client, Network

\* A page that was just loaded follows nothing.
LEMMA StartsInOrder == Init => TypeOK /\ ClientInv
<1> SUFFICES ASSUME Init PROVE TypeOK /\ ClientInv
  OBVIOUS
<1> USE StreamAssumption DEF Init, StreamInit, Closed
<1>1. TypeOK
  <2>1. StreamTypeOK
    BY DEF StreamTypeOK
  <2>2. /\ 0 \in 0 .. SavedCase /\ 0 \in 0 .. Last /\ 0 \in 0 .. MaxRuns
        /\ FALSE \in BOOLEAN
    BY DEF SavedCase
  <2>3. view \in [run : 0 .. MaxRuns, ended : BOOLEAN]
    BY <2>2
  <2>4. exec \in [run : 0 .. SavedCase, planRun : 0 .. SavedCase, plan : 0 .. Last,
                  observed : 0 .. Last, need : BOOLEAN,
                  connection : {"idle", "live", "recovering", "unavailable"}]
    BY <2>2
  <2> QED  BY <2>1, <2>2, <2>3, <2>4 DEF TypeOK
<1>2. ClientInv
  BY DEF ClientInv, InOrder, StreamInv, FollowInv, CreatedInv, Runs, SavedCase
<1> QED  BY <1>1, <1>2

\* Whatever the order in which events, failures and answers reach the client,
\* its state is of its type and what it knows of the run it follows is in order.
THEOREM ClientInvariant == Spec => [](TypeOK /\ ClientInv)
BY StartsInOrder, StepKeeps, PTL DEF Spec, Keeps

\* A client that asks for nothing shows the newest plan it has heard of.
THEOREM QuietIsCurrent == Spec => []QuietMeansCurrent
<1>1. TypeOK /\ ClientInv => QuietMeansCurrent
  BY DEF ClientInv, InOrder, QuietMeansCurrent
<1> QED  BY <1>1, ClientInvariant, PTL

\* The plan shown is of the run followed, and never goes back.
THEOREM PlanIsFollowed == Spec => PlanFollowsRun
<1>1. TypeOK /\ ClientInv /\ [Next]_vars =>
        /\ exec'.planRun = exec'.run
        /\ exec'.run = exec.run => exec'.plan >= exec.plan
  BY StepKeeps DEF Keeps, ClientInv, InOrder, Advances
<1> QED  BY <1>1, ClientInvariant, PTL DEF Spec, PlanFollowsRun
=============================================================================
