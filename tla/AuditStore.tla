------------------------------ MODULE AuditStore ------------------------------
(***************************************************************************)
(* The intelligence audit store (internal/intelligenceaudit/store.go): one *)
(* record per run with public metadata and, where capture is enabled, a    *)
(* protected part that expires, can be purged, outgrows its capacity and   *)
(* is evicted with its record.  Each part has a file, replaced as a whole. *)
(* A recorder keeps reporting whatever became of its record; writes and    *)
(* removals fail; a crash loses the records and leaves the files.          *)
(***************************************************************************)
EXTENDS Integers, FiniteSets, FiniteSetsExt

CONSTANTS MaxAudits,    \* bound: how many runs are recorded
          MaxRecords,   \* Config.MaxRecords
          TTL,          \* Config.TTL
          MaxAuditTime  \* bound on the clock of the model

ASSUME AuditAssumption ==
  /\ MaxAudits \in Nat /\ MaxRecords \in Nat \ {0}
  /\ TTL \in Nat \ {0} /\ MaxAuditTime \in Nat

\* Runs in the order in which they began.
Audits == 1 .. MaxAudits

VARIABLES
  audited,    \* the records in memory, a function of the runs that have one
  recording,  \* runs whose Recorder was handed out
  begun,      \* how many runs have begun
  disk,       \* the files: pairs of a part, "metadata" or "protected", and a run
  enabled,    \* Config.Enabled
  auditTime,
  leftover    \* files a crash or a failed removal left behind (history)

auditVars == <<audited, recording, begun, disk, enabled, auditTime, leftover>>

Captures == {"disabled", "active", "full", "expired", "purged"}

AuditTypeOK ==
  /\ DOMAIN audited \subseteq 1 .. begun
  /\ \A r \in DOMAIN audited :
       audited[r] \in [running : BOOLEAN, capture : Captures, expires : Nat,
                       held : SUBSET {"question", "calls", "receipts"}]
  /\ begun \in 0 .. MaxAudits /\ recording \subseteq 1 .. begun
  /\ disk \subseteq {"metadata", "protected"} \X (1 .. begun)
  /\ leftover \subseteq {"metadata", "protected"} \X (1 .. begun)
  /\ enabled \in BOOLEAN /\ auditTime \in 0 .. MaxAuditTime

AuditInit ==
  /\ audited = <<>> /\ begun = 0 /\ recording = {}
  /\ disk = {} /\ leftover = {}
  /\ enabled \in BOOLEAN /\ auditTime = 0

\* The records with that of r set to rec.
Recorded(r, rec) ==
  [s \in DOMAIN audited \cup {r} |-> IF s = r THEN rec ELSE audited[s]]

\* The protected part is dropped from a record that expires or is purged.
Erased(rec, how) == [rec EXCEPT !.capture = how, !.held = {}]

\* persistLocked: the metadata, then the protected part of an active capture.
\* The first write that fails ends it and leaves its file as it was.
WritesAnyway(r, rec) ==                             \* mutant of Writes
  LET named == disk \cup {<<"metadata", r>>}
  IN  {[disk |-> disk, ok |-> FALSE], [disk |-> named, ok |-> FALSE],
       [disk |-> named \cup {<<"protected", r>>}, ok |-> TRUE]}
Writes(r, rec) ==
  LET named == disk \cup {<<"metadata", r>>}
      both == enabled /\ rec.capture = "active"
  IN  {[disk |-> disk, ok |-> FALSE], [disk |-> named, ok |-> ~both]}
        \cup IF both THEN {[disk |-> named \cup {<<"protected", r>>}, ok |-> TRUE]}
             ELSE {}

-----------------------------------------------------------------------------
(* Recording a run.                                                        *)

\* Begin: a record whose first write fails stays, but nobody records in it.
Begin ==
  LET r == begun + 1
      rec == [running |-> TRUE, capture |-> IF enabled THEN "active" ELSE "disabled",
              expires |-> auditTime + TTL,
              held |-> IF enabled THEN {"question"} ELSE {}]
  IN  /\ begun < MaxAudits /\ begun' = r
      /\ audited' = Recorded(r, rec)
      /\ \E write \in Writes(r, rec) :
           /\ disk' = write.disk
           /\ recording' = IF write.ok THEN recording \cup {r} ELSE recording
      /\ UNCHANGED <<enabled, auditTime, leftover>>

\* What an observation makes of a record is kept whether it is written or not.
Observed(r, rec) ==
  /\ audited' = Recorded(r, rec)
  /\ \E write \in Writes(r, rec) : disk' = write.disk
  /\ UNCHANGED <<recording, begun, enabled, auditTime, leftover>>

\* ObserveLifecycle, of an event the timeline does not hold yet; the bounded
\* timeline itself is metadata no property is about.
ObserveLifecycle(r) ==
  /\ r \in recording \cap DOMAIN audited
  /\ Observed(r, audited[r])

\* ObserveModelCall: an active capture keeps the call, or turns out full.
ObserveModelCall(r) ==
  /\ r \in recording \cap DOMAIN audited
  /\ LET old == audited[r]
     IN  IF ~enabled \/ old.capture # "active" THEN Observed(r, old)
         ELSE \/ Observed(r, [old EXCEPT !.held = @ \cup {"calls"}])
              \/ Observed(r, [old EXCEPT !.capture = "full"])

\* What evictCompletedLocked goes for, oldest first.
Surplus(records) ==
  LET done == {s \in DOMAIN records : ~records[s].running}
  IN  {s \in done : Cardinality({k \in done : k >= s}) > MaxRecords}

FilesOf(runs) == {"metadata", "protected"} \X runs

Evicted(records, files, gone) ==
  [records |-> [s \in DOMAIN records \ gone |-> records[s]], disk |-> files \ FilesOf(gone)]

EvictRecordsFirst(records, files) ==                \* mutant of Evictions
  {[Evicted(records, files, Surplus(records)) EXCEPT !.disk = files \ removed] :
     removed \in SUBSET FilesOf(Surplus(records))}
\* A record goes with its two files, the metadata first; a file that cannot
\* be removed keeps its record and ends the eviction.
Evictions(records, files) ==
  LET surplus == Surplus(records)
      Before(stop) == {s \in surplus : s < stop}
      stuck == {stop \in surplus : files \cap FilesOf({stop}) # {}}
      Halted(stop) == Evicted(records, files, Before(stop))
  IN  {Evicted(records, files, surplus)}
        \cup {Halted(stop) : stop \in stuck}
        \cup {[Halted(stop) EXCEPT !.disk = @ \ {<<"metadata", stop>>}] :
                stop \in {s \in stuck : <<"protected", s>> \in files}}

\* Complete: the receipts join an active capture, or it turns out full; a
\* failed write is returned before the eviction.
Complete(r) ==
  /\ r \in recording \cap DOMAIN audited
  /\ audited[r].running
  /\ \E fits \in BOOLEAN :
       LET old == [audited[r] EXCEPT !.running = FALSE]
           rec == IF ~enabled \/ old.capture # "active" THEN old
                  ELSE IF fits THEN [old EXCEPT !.held = @ \cup {"receipts"}]
                  ELSE [old EXCEPT !.capture = "full"]
       IN  \E write \in Writes(r, rec) :
             IF ~write.ok
             THEN /\ audited' = Recorded(r, rec)
                  /\ disk' = write.disk
             ELSE \E out \in Evictions(Recorded(r, rec), write.disk) :
                    /\ audited' = out.records
                    /\ disk' = out.disk
  /\ UNCHANGED <<recording, begun, enabled, auditTime, leftover>>

-----------------------------------------------------------------------------
(* Erasing.                                                                *)

\* Erasing the protected parts of some records: a removal or a write that
\* fails is ignored.
Erase(runs, how) ==
  /\ audited' = [s \in DOMAIN audited |->
                   IF s \in runs THEN Erased(audited[s], how) ELSE audited[s]]
  /\ \E kept \in SUBSET (disk \cap ({"protected"} \X runs)), named \in SUBSET runs :
       /\ disk' = (disk \ ({"protected"} \X (runs))) \cup kept
                    \cup ({"metadata"} \X named)
       /\ leftover' = leftover \cup kept
  /\ UNCHANGED <<recording, begun, enabled, auditTime>>

\* Purge, by an operator; the run may still be recorded.
Purge(r) == r \in DOMAIN audited /\ Erase({r}, "purged")

\* expire, before every read.
Expire ==
  LET due == {r \in DOMAIN audited :
                audited[r].capture = "active" /\ auditTime >= audited[r].expires}
  IN  due # {} /\ Erase(due, "expired")

AuditTick ==
  /\ auditTime < MaxAuditTime
  /\ auditTime' = auditTime + 1
  /\ UNCHANGED <<audited, recording, begun, disk, enabled, leftover>>

\* A crash, and a restart that may be configured otherwise: NewStore reads
\* nothing back.
Restart ==
  /\ audited # <<>>
  /\ audited' = <<>> /\ recording' = {}
  /\ leftover' = disk
  /\ enabled' \in BOOLEAN
  /\ UNCHANGED <<begun, disk, auditTime>>

AuditNext ==
  \/ Begin \/ Expire \/ AuditTick \/ Restart
  \/ \E r \in 1 .. begun :
       ObserveLifecycle(r) \/ ObserveModelCall(r) \/ Complete(r) \/ Purge(r)

AuditSpec == AuditInit /\ [][AuditNext]_auditVars

-----------------------------------------------------------------------------
(* Properties.                                                             *)

\* What was purged or has expired stays erased, in memory and on disk, while
\* the run's recorder goes on reporting calls and receipts; only a removal
\* that failed leaves the file (expire, Purge, persistLocked).
ErasedStaysErased ==
  \A r \in DOMAIN audited : audited[r].capture \in {"expired", "purged"} =>
    /\ audited[r].held = {}
    /\ <<"protected", r>> \in disk => <<"protected", r>> \in leftover

\* No file outlives its record unless the process died: an eviction whose
\* removal fails keeps the record, and a late report of an evicted run does
\* not bring its files back (evictCompletedLocked, ObserveLifecycle).
LeftoversAreKnown ==
  \A file \in disk : file[2] \in DOMAIN audited \/ file \in leftover
=============================================================================
