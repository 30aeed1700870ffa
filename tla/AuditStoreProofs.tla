---------------------------- MODULE AuditStoreProofs ----------------------------
(***************************************************************************)
(* What TLAPS proves of AuditStore for every number of runs and records    *)
(* and every lifetime: whatever fails, what was erased stays erased and no *)
(* file outlives its record unnoticed.  Writes, evictions and erasures     *)
(* have a lemma each, saying what they may do to the records and files.    *)
(***************************************************************************)
EXTENDS AuditStore, TLAPS

\* What a capture holds, and what a record says of it.
Parts == {"question", "calls", "receipts"}
Records == [running : BOOLEAN, capture : Captures, expires : Nat, held : SUBSET Parts]
\* How a capture can have been erased.
Erasures == {"expired", "purged"}

\* The files of the first n runs.
Files(n) == {"metadata", "protected"} \X (1 .. n)

\* Of n runs, the records and the files that go with them when left is what
\* is known to be left over.
Sound(records, files, left, n) ==
  /\ DOMAIN records \subseteq 1 .. n
  /\ \A s \in DOMAIN records : records[s] \in Records
  /\ files \subseteq Files(n)
  /\ \A s \in DOMAIN records : records[s].capture \in Erasures =>
       /\ records[s].held = {}
       /\ <<"protected", s>> \in files => <<"protected", s>> \in left
  /\ \A file \in files : file[2] \in DOMAIN records \/ file \in left

\* The store is sound after every operation: the inductive invariant.
AuditInv ==
  /\ Sound(audited, disk, leftover, begun)
  /\ begun \in 0 .. MaxAudits /\ recording \subseteq 1 .. begun
  /\ leftover \subseteq Files(begun)
  /\ enabled \in BOOLEAN /\ auditTime \in 0 .. MaxAuditTime

-----------------------------------------------------------------------------
(* What the operations may do.                                             *)

\* persistLocked touches the files of its own run, and the protected one only
\* while the capture is active.
LEMMA WritesOwnFiles ==
  ASSUME NEW r, NEW rec, NEW write \in Writes(r, rec)
  PROVE  /\ disk \subseteq write.disk
         /\ \A file \in write.disk \ disk :
              \/ file = <<"metadata", r>>
              \/ file = <<"protected", r>> /\ rec.capture = "active"
BY DEF Writes

\* An eviction forgets records and removes files: those of the records it
\* forgets are all gone.
LEMMA EvictionsShrink ==
  ASSUME NEW records, NEW files, NEW out \in Evictions(records, files)
  PROVE  \E gone \in SUBSET DOMAIN records :
           /\ out.records = [s \in DOMAIN records \ gone |-> records[s]]
           /\ out.disk \subseteq files \ FilesOf(gone)
<1> DEFINE surplus == Surplus(records)
           Before(stop) == {s \in surplus : s < stop}
           stuck == {stop \in surplus : files \cap FilesOf({stop}) # {}}
           Halted(stop) == Evicted(records, files, Before(stop))
<1>1. surplus \in SUBSET DOMAIN records
  BY DEF Surplus
<1>2. ASSUME NEW gone
      PROVE  /\ Evicted(records, files, gone).records =
                  [s \in DOMAIN records \ gone |-> records[s]]
             /\ Evicted(records, files, gone).disk = files \ FilesOf(gone)
  BY DEF Evicted
<1>3. \/ out = Evicted(records, files, surplus)
      \/ \E stop \in stuck :
           \/ out = Halted(stop)
           \/ out = [Halted(stop) EXCEPT !.disk = @ \ {<<"metadata", stop>>}]
  BY DEF Evictions
<1>4. CASE out = Evicted(records, files, surplus)
  BY <1>1, <1>2, <1>4
<1>5. ASSUME NEW stop \in stuck,
             \/ out = Halted(stop)
             \/ out = [Halted(stop) EXCEPT !.disk = @ \ {<<"metadata", stop>>}]
      PROVE  /\ Before(stop) \in SUBSET DOMAIN records
             /\ out.records = [s \in DOMAIN records \ Before(stop) |-> records[s]]
             /\ out.disk \subseteq files \ FilesOf(Before(stop))
  <2>1. Before(stop) \in SUBSET DOMAIN records
    BY <1>1
  <2> HIDE DEF Before
  <2>2. out.records = Halted(stop).records /\ out.disk \subseteq Halted(stop).disk
    BY <1>5 DEF Evicted
  <2> QED  BY <1>2, <2>1, <2>2
<1> HIDE DEF surplus, Before, stuck, Halted
<1> QED  BY <1>3, <1>4, <1>5

-----------------------------------------------------------------------------
(* Each operation keeps the records and the files sound.                   *)

\* The invariant is the type and the two properties of AuditStore.
LEMMA InvariantMeans ==
  AuditInv <=> AuditTypeOK /\ ErasedStaysErased /\ LeftoversAreKnown
BY DEF AuditInv, Sound, AuditTypeOK, ErasedStaysErased, LeftoversAreKnown,
       Records, Parts, Files, Erasures

\* Writing a record that is not erased, or that was erased before.
LEMMA WriteSound ==
  ASSUME NEW n \in Nat, NEW m \in Nat, n <= m,
         Sound(audited, disk, leftover, n),
         NEW r \in 1 .. m, NEW rec \in Records, NEW write \in Writes(r, rec),
         rec.capture \in Erasures =>
           /\ rec.held = {}
           /\ <<"protected", r>> \in disk => <<"protected", r>> \in leftover
  PROVE  Sound(Recorded(r, rec), write.disk, leftover, m)
<1>1. /\ DOMAIN Recorded(r, rec) = DOMAIN audited \cup {r}
      /\ Recorded(r, rec)[r] = rec
      /\ \A s \in DOMAIN audited : s # r => Recorded(r, rec)[s] = audited[s]
  BY DEF Recorded
<1>2. /\ disk \subseteq write.disk
      /\ \A file \in write.disk \ disk :
           \/ file = <<"metadata", r>>
           \/ file = <<"protected", r>> /\ rec.capture = "active"
  BY WritesOwnFiles
<1>3. 1 .. n \subseteq 1 .. m /\ Files(n) \subseteq Files(m)
  BY DEF Files
<1>4. DOMAIN Recorded(r, rec) \subseteq 1 .. m
  BY <1>1, <1>3 DEF Sound
<1>5. \A s \in DOMAIN Recorded(r, rec) : Recorded(r, rec)[s] \in Records
  BY <1>1 DEF Sound
<1>6. write.disk \subseteq Files(m)
  BY <1>2, <1>3 DEF Sound, Files
<1>7. ASSUME NEW s \in DOMAIN Recorded(r, rec),
             Recorded(r, rec)[s].capture \in Erasures
      PROVE  /\ Recorded(r, rec)[s].held = {}
             /\ <<"protected", s>> \in write.disk => <<"protected", s>> \in leftover
  <2>1. CASE s = r
    BY <1>1, <1>2, <1>7, <2>1 DEF Erasures
  <2>2. CASE s # r
    BY <1>1, <1>2, <1>7, <2>2 DEF Sound
  <2> QED  BY <2>1, <2>2
<1>8. \A file \in write.disk : file[2] \in DOMAIN Recorded(r, rec) \/ file \in leftover
  BY <1>1, <1>2 DEF Sound
<1> QED  BY <1>4, <1>5, <1>6, <1>7, <1>8 DEF Sound

\* An eviction leaves no file without its record behind.
LEMMA EvictSound ==
  ASSUME NEW records, NEW files, NEW left, NEW n,
         Sound(records, files, left, n),
         NEW out \in Evictions(records, files)
  PROVE  Sound(out.records, out.disk, left, n)
<1>1. PICK gone \in SUBSET DOMAIN records :
        /\ out.records = [s \in DOMAIN records \ gone |-> records[s]]
        /\ out.disk \subseteq files \ FilesOf(gone)
  BY EvictionsShrink
<1>2. \A s \in DOMAIN out.records : s \in DOMAIN records /\ out.records[s] = records[s]
  BY <1>1
<1>3. ASSUME NEW file \in out.disk
      PROVE  file[2] \in DOMAIN out.records \/ file \in left
  <2>1. file \in files /\ file \notin FilesOf(gone) /\ file \in Files(n)
    BY <1>1 DEF Sound
  <2>2. file[2] \notin gone
    BY <2>1 DEF FilesOf, Files
  <2> QED  BY <1>1, <2>1, <2>2 DEF Sound
<1> QED  BY <1>1, <1>2, <1>3 DEF Sound

\* An erasure leaves the files it could not remove, and knows them.
LEMMA EraseSound ==
  ASSUME AuditInv, NEW runs \in SUBSET DOMAIN audited, NEW how \in Erasures,
         Erase(runs, how)
  PROVE  AuditInv'
<1>1. PICK kept \in SUBSET (disk \cap ({"protected"} \X runs)),
           named \in SUBSET runs :
        /\ disk' = (disk \ ({"protected"} \X (runs))) \cup kept
                     \cup ({"metadata"} \X named)
        /\ leftover' = leftover \cup kept
  BY DEF Erase
<1>2. /\ audited' = [s \in DOMAIN audited |->
                       IF s \in runs THEN Erased(audited[s], how) ELSE audited[s]]
      /\ UNCHANGED <<recording, begun, enabled, auditTime>>
  BY DEF Erase
<1>3. DOMAIN audited' = DOMAIN audited
  BY <1>2
<1>4. \A s \in DOMAIN audited' :
        audited'[s] = IF s \in runs THEN Erased(audited[s], how) ELSE audited[s]
  BY <1>2
<1>5. \A s \in DOMAIN audited :
        /\ Erased(audited[s], how) \in Records
        /\ Erased(audited[s], how).held = {}
  BY DEF AuditInv, Sound, Erased, Records, Captures, Erasures, Parts
<1>6. disk' \subseteq Files(begun) /\ leftover' \subseteq Files(begun)
  BY <1>1 DEF AuditInv, Sound, Files
<1>7. ASSUME NEW s \in DOMAIN audited', audited'[s].capture \in Erasures,
             <<"protected", s>> \in disk'
      PROVE  <<"protected", s>> \in leftover'
  <2>1. <<"protected", s>> \notin {"metadata"} \X named
    OBVIOUS
  <2>2. CASE s \in runs
    BY <1>1, <1>7, <2>1, <2>2
  <2>3. CASE s \notin runs
    BY <1>1, <1>3, <1>4, <1>7, <2>1, <2>3 DEF AuditInv, Sound
  <2> QED  BY <2>2, <2>3
<1>8. ASSUME NEW file \in disk'
      PROVE  file[2] \in DOMAIN audited' \/ file \in leftover'
  <2>1. CASE file \in disk
    BY <1>1, <1>3, <2>1 DEF AuditInv, Sound
  <2>2. CASE file \notin disk
    BY <1>1, <1>3, <2>2
  <2> QED  BY <2>1, <2>2
<1>9. Sound(audited', disk', leftover', begun)
  BY <1>3, <1>4, <1>5, <1>6, <1>7, <1>8 DEF AuditInv, Sound
<1> QED  BY <1>2, <1>6, <1>9 DEF AuditInv

-----------------------------------------------------------------------------
(* The properties.                                                         *)

\* Recording keeps AuditInv: a run that begins, an observation, a completion.
LEMMA RecordingKeeps ==
  ASSUME AuditInv, NEW r \in 1 .. begun,
         ObserveLifecycle(r) \/ ObserveModelCall(r) \/ Complete(r)
  PROVE  AuditInv'
<1>1. /\ r \in DOMAIN audited /\ audited[r] \in Records
      /\ begun \in Nat /\ begun <= begun
      /\ Sound(audited, disk, leftover, begun)
      /\ UNCHANGED <<recording, begun, enabled, auditTime, leftover>>
  BY AuditAssumption
  DEF ObserveLifecycle, ObserveModelCall, Complete, Observed, AuditInv, Sound
<1>2. audited[r].capture \in Erasures =>
        /\ audited[r].held = {}
        /\ <<"protected", r>> \in disk => <<"protected", r>> \in leftover
  BY <1>1 DEF Sound
<1>3. ASSUME NEW rec \in Records, NEW write \in Writes(r, rec),
             rec.capture \in Erasures =>
               rec.capture = audited[r].capture /\ rec.held = audited[r].held
      PROVE  Sound(Recorded(r, rec), write.disk, leftover, begun)
  BY <1>1, <1>2, <1>3, WriteSound
<1>4. Sound(audited', disk', leftover, begun)
  <2>1. CASE \E rec \in Records :
               /\ rec.capture \in Erasures =>
                    rec.capture = audited[r].capture /\ rec.held = audited[r].held
               /\ Observed(r, rec)
    BY <1>3, <2>1 DEF Observed
  <2>2. CASE ObserveLifecycle(r)
    BY <1>1, <2>1, <2>2 DEF ObserveLifecycle
  <2>3. CASE ObserveModelCall(r)
    <3>1. /\ [audited[r] EXCEPT !.capture = "full"] \in Records
          /\ [audited[r] EXCEPT !.capture = "full"].capture = "full"
          /\ [audited[r] EXCEPT !.held = @ \cup {"calls"}] \in Records
          /\ [audited[r] EXCEPT !.held = @ \cup {"calls"}].capture = audited[r].capture
      BY <1>1 DEF Records, Captures, Parts
    <3>2. \/ Observed(r, audited[r])
          \/ /\ audited[r].capture = "active"
             /\ \/ Observed(r, [audited[r] EXCEPT !.held = @ \cup {"calls"}])
                \/ Observed(r, [audited[r] EXCEPT !.capture = "full"])
      BY <2>3 DEF ObserveModelCall
    <3> QED  BY <1>1, <2>1, <3>1, <3>2 DEF Erasures
  <2>4. CASE Complete(r)
    <3> DEFINE old == [audited[r] EXCEPT !.running = FALSE]
               Completed(fits) ==
                 IF ~enabled \/ old.capture # "active" THEN old
                 ELSE IF fits THEN [old EXCEPT !.held = @ \cup {"receipts"}]
                 ELSE [old EXCEPT !.capture = "full"]
    <3>1. PICK fits \in BOOLEAN :
            \E write \in Writes(r, Completed(fits)) :
              IF ~write.ok
              THEN /\ audited' = Recorded(r, Completed(fits))
                   /\ disk' = write.disk
              ELSE \E out \in Evictions(Recorded(r, Completed(fits)), write.disk) :
                     /\ audited' = out.records
                     /\ disk' = out.disk
      BY <2>4 DEF Complete
    <3>2. /\ old \in Records /\ old.capture = audited[r].capture
          /\ old.held = audited[r].held
      BY <1>1 DEF Records
    <3> HIDE DEF old
    <3>3. /\ Completed(fits) \in Records
          /\ Completed(fits).capture \in Erasures =>
               /\ Completed(fits).capture = audited[r].capture
               /\ Completed(fits).held = audited[r].held
      BY <3>2 DEF Records, Captures, Parts, Erasures
    <3> HIDE DEF Completed
    <3>4. \A write \in Writes(r, Completed(fits)) :
            Sound(Recorded(r, Completed(fits)), write.disk, leftover, begun)
      BY <1>3, <3>3
    <3> QED  BY <3>1, <3>4, EvictSound
  <2> QED  BY <2>2, <2>3, <2>4
<1> QED  BY <1>1, <1>4 DEF AuditInv

\* Begin records a new run and evicts for it.
LEMMA BeginKeeps ==
  ASSUME AuditInv, Begin
  PROVE  AuditInv'
<1> DEFINE r == begun + 1
           rec == [running |-> TRUE, capture |-> IF enabled THEN "active" ELSE "disabled",
                   expires |-> auditTime + TTL,
                   held |-> IF enabled THEN {"question"} ELSE {}]
<1>1. /\ begun < MaxAudits /\ begun' = r /\ audited' = Recorded(r, rec)
      /\ \E write \in Writes(r, rec) :
           /\ disk' = write.disk
           /\ recording' = IF write.ok THEN recording \cup {r} ELSE recording
      /\ UNCHANGED <<enabled, auditTime, leftover>>
  BY DEF Begin
<1>2. /\ begun \in Nat /\ r \in Nat /\ begun <= r /\ r \in 1 .. r
      /\ r \in 0 .. MaxAudits /\ Sound(audited, disk, leftover, begun)
  BY <1>1, AuditAssumption DEF AuditInv
<1>3. rec \in Records /\ rec.capture \notin Erasures
  BY AuditAssumption DEF AuditInv, Records, Captures, Parts, Erasures
<1> HIDE DEF rec
<1>4. \A write \in Writes(r, rec) : Sound(Recorded(r, rec), write.disk, leftover, r)
  BY <1>2, <1>3, WriteSound
<1>5. recording' \subseteq 1 .. r /\ leftover' \subseteq Files(r)
  <2>1. 1 .. begun \subseteq 1 .. r /\ Files(begun) \subseteq Files(r)
    BY <1>2 DEF Files
  <2> QED  BY <1>1, <1>2, <2>1 DEF AuditInv
<1> QED  BY <1>1, <1>2, <1>4, <1>5 DEF AuditInv

\* The records and the files stay sound in every state.
THEOREM AuditInvariant == AuditSpec => []AuditInv
<1>1. AuditInit => AuditInv
  BY AuditAssumption DEF AuditInit, AuditInv, Sound, Files
<1>2. AuditInv /\ [AuditNext]_auditVars => AuditInv'
  <2> SUFFICES ASSUME AuditInv, [AuditNext]_auditVars PROVE AuditInv'
    OBVIOUS
  <2>1. CASE Expire
    <3>1. PICK due \in SUBSET DOMAIN audited : Erase(due, "expired")
      BY <2>1 DEF Expire
    <3> QED  BY <3>1, EraseSound DEF Erasures
  <2>2. ASSUME NEW r \in 1 .. begun, Purge(r) PROVE AuditInv'
    <3>1. {r} \in SUBSET DOMAIN audited /\ Erase({r}, "purged")
      BY <2>2 DEF Purge
    <3> QED  BY <3>1, EraseSound DEF Erasures
  <2>3. CASE AuditTick
    BY <2>3, AuditAssumption DEF AuditTick, AuditInv
  <2>4. CASE Restart
    <3>1. audited' = <<>> /\ recording' = {} /\ leftover' = disk
          /\ enabled' \in BOOLEAN /\ UNCHANGED <<begun, disk, auditTime>>
      BY <2>4 DEF Restart
    <3>2. DOMAIN audited' = {}
      BY <3>1
    <3> QED  BY <3>1, <3>2 DEF AuditInv, Sound
  <2>5. CASE UNCHANGED auditVars
    BY <2>5 DEF auditVars, AuditInv
  <2> QED
    BY <2>1, <2>2, <2>3, <2>4, <2>5, BeginKeeps, RecordingKeeps DEF AuditNext
<1> QED  BY <1>1, <1>2, PTL DEF AuditSpec

\* Every variable keeps its type, whatever is evicted, erased or lost.
THEOREM AuditTypes == AuditSpec => []AuditTypeOK
BY AuditInvariant, InvariantMeans, PTL

\* What was purged or has expired stays erased.
THEOREM ErasedStays == AuditSpec => []ErasedStaysErased
BY AuditInvariant, InvariantMeans, PTL

\* No file outlives its record unnoticed.
THEOREM LeftoversKnown == AuditSpec => []LeftoversAreKnown
BY AuditInvariant, InvariantMeans, PTL
=============================================================================
