----------------------------- MODULE ReleaseGate -----------------------------
(***************************************************************************)
(* What one SignalForge research run promises about its answer, without    *)
(* saying how the run is scheduled: claims are gathered, each mandatory    *)
(* reviewer endorses a part of what is left and may strike the rest, and   *)
(* an answer leaves the run only when every reviewer has endorsed, built   *)
(* from claims every one of them endorsed.  A run that cannot get there    *)
(* withholds the answer for good.                                          *)
(***************************************************************************)
CONSTANTS Claims,      \* claim identifiers the specialists may put forward
          Reviewers    \* the mandatory review steps of the plan

VARIABLES gate,        \* "open", "released" or "withheld"
          pool,        \* claims gathered and not struck so far
          heard,       \* reviewers whose closing verdict was an approval
          endorsed,    \* what each of them endorsed ({} before that)
          answer       \* claims cited by the released answer

gateVars == <<gate, pool, heard, endorsed, answer>>

TypeOK ==
  /\ gate \in {"open", "released", "withheld"}
  /\ pool \subseteq Claims
  /\ heard \subseteq Reviewers
  /\ endorsed \in [Reviewers -> SUBSET Claims]
  /\ answer \subseteq Claims

Init ==
  /\ gate = "open"
  /\ pool = {}
  /\ heard = {}
  /\ endorsed = [r \in Reviewers |-> {}]
  /\ answer = {}

\* Claims join the pool only before the first verdict.
Gather(new) ==
  /\ gate = "open"
  /\ heard = {}
  /\ pool' = pool \cup new
  /\ UNCHANGED <<gate, heard, endorsed, answer>>

\* A reviewer speaks once; what it does not keep is gone for everybody.
Endorse(r, approved, kept) ==
  /\ gate = "open"
  /\ r \notin heard
  /\ approved \subseteq kept
  /\ kept \subseteq pool
  /\ pool' = kept
  /\ heard' = heard \cup {r}
  /\ endorsed' = [endorsed EXCEPT ![r] = approved]
  /\ UNCHANGED <<gate, answer>>

Release(cited) ==
  /\ gate = "open"
  /\ heard = Reviewers
  /\ cited \subseteq pool
  /\ \A r \in Reviewers : cited \subseteq endorsed[r]
  /\ gate' = "released"
  /\ answer' = cited
  /\ UNCHANGED <<pool, heard, endorsed>>

\* Giving up may strike what the last reviewer objected to.
Withhold(kept) ==
  /\ gate = "open"
  /\ kept \subseteq pool
  /\ gate' = "withheld"
  /\ pool' = kept
  /\ UNCHANGED <<heard, endorsed, answer>>

Next ==
  \/ \E new \in SUBSET Claims : Gather(new)
  \/ \E r \in Reviewers, approved, kept \in SUBSET Claims :
        Endorse(r, approved, kept)
  \/ \E cited \in SUBSET Claims : Release(cited)
  \/ \E kept \in SUBSET Claims : Withhold(kept)

Spec == Init /\ [][Next]_gateVars
=============================================================================
