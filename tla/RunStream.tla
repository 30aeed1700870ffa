------------------------------ MODULE RunStream ------------------------------
(***************************************************************************)
(* The event stream of the workspace server as one reader sees it          *)
(* (internal/workspace/server.go: newRun, publishWithCommit, handleEvents, *)
(* handleGetRun, handleExecutionPlan).  The events of a run are numbered   *)
(* from 1; the one numbered Last is its terminal event, published with the *)
(* read model.  A ring keeps the newest events; a reader is sent what the  *)
(* ring still holds beyond the last event it acknowledged and then what    *)
(* its channel takes, and publishing never waits for a reader.             *)
(***************************************************************************)
EXTENDS Integers, FiniteSets, FiniteSetsExt

CONSTANTS MaxRuns,   \* bound: how many runs are created
          Last,      \* number of the terminal event of a run
          Ring,      \* maximumStoredRunEvents
          Buffer,    \* capacity of a subscriber's channel
          MaxBreaks  \* bound: how often the connection breaks

ASSUME StreamAssumption ==
  MaxRuns \in Nat /\ Last \in Nat \ {0} /\ Ring \in Nat \ {0}
  /\ Buffer \in Nat \ {0} /\ MaxBreaks \in Nat

Runs == 1 .. MaxRuns

VARIABLES
  published,  \* events published so far, -1 before the run exists
  stream,     \* the reader's connection: its run (0: none), state, lastID,
              \* the replay still due, the channel, and whether the handler
              \* subscribed it
  breaks      \* how often the connection broke

serverVars == <<published, breaks>>

Closed == [run |-> 0, state |-> "closed", lastID |-> 0,
           due |-> {}, channel |-> {}, subscribed |-> FALSE]

StreamTypeOK ==
  /\ published \in [Runs -> -1 .. Last]
  /\ stream \in [run : 0 .. MaxRuns, state : {"closed", "connecting", "open"},
                 lastID : 0 .. Last, due : SUBSET (1 .. Last),
                 channel : SUBSET (1 .. Last), subscribed : BOOLEAN]
  /\ breaks \in 0 .. MaxBreaks

StreamInit ==
  /\ published = [r \in Runs |-> -1]
  /\ stream = Closed
  /\ breaks = 0

RunEnded(r) == published[r] = Last

\* record.events keeps the newest Ring events.
Kept(r) == {n \in 1 .. published[r] : n > published[r] - Ring}

\* newRun, for the next identity.
NewRun(r) ==
  /\ published[r] = -1 /\ \A s \in 1 .. r - 1 : published[s] # -1
  /\ published' = [published EXCEPT ![r] = 0]

\* publishWithCommit: a full channel loses the event.
Publish(r) ==
  /\ published[r] \in 0 .. Last - 1
  /\ published' = [published EXCEPT ![r] = @ + 1]
  /\ stream' = IF stream.run = r /\ stream.state = "open" /\ stream.subscribed
                  /\ Cardinality(stream.channel) < Buffer
               THEN [stream EXCEPT !.channel = @ \cup {published[r] + 1}]
               ELSE stream
  /\ UNCHANGED breaks

\* new EventSource(...), and what is sent again when it reconnects.
Opened(r) == [Closed EXCEPT !.run = r, !.state = "connecting"]

\* handleEvents reads the ring and subscribes under one lock.
Connect ==
  /\ stream.state = "connecting"
  /\ stream' = [stream EXCEPT
                  !.state = "open",
                  !.due = {n \in Kept(stream.run) : n > stream.lastID},
                  !.channel = {},
                  !.subscribed = ~RunEnded(stream.run)]
  /\ UNCHANGED serverVars

\* What the handler writes next: the replay first, then the channel.
Sendable == stream.state = "open" /\ stream.due \cup stream.channel # {}
NextEvent == Min(IF stream.due # {} THEN stream.due ELSE stream.channel)
Sent == [stream EXCEPT !.lastID = NextEvent,
                       !.due = @ \ {NextEvent},
                       !.channel = IF stream.due # {} THEN @ ELSE @ \ {NextEvent}]

\* The handler returns after the replay of an ended run, and after it wrote
\* the terminal event.
HandlerReturns ==
  /\ stream.state = "open"
  /\ stream.due = {}
  /\ ~stream.subscribed \/ (stream.lastID = Last /\ stream.channel = {})

\* The reader has missed the terminal event for good: its channel was full.
Starved ==
  /\ stream.state = "open" /\ stream.subscribed
  /\ RunEnded(stream.run) /\ Last \notin stream.due \cup stream.channel
  /\ stream.lastID # Last
=============================================================================
