---------------------------- MODULE CritiqueReports ----------------------------
(***************************************************************************)
(* The contract between a reviewer's adapter and the orchestrator: what a  *)
(* critique report that reaches Runtime.runReview can look like.           *)
(***************************************************************************)
Decisions == {"approve", "repair", "narrow", "reject"}

\* The reports of reviewer r on pass p about the claims c.  The adapter
\* classifies every claim exactly once, downgrades an approval that rejects
\* something and turns a partial rejection into a narrowing.
Reports(r, p, c) ==
  {rep \in [reviewer : {r}, pass : {p}, decision : Decisions,
            approved : SUBSET c, rejected : SUBSET c] :
     /\ rep.rejected = c \ rep.approved
     /\ rep.decision = "approve" => rep.rejected = {}
     /\ rep.decision = "reject" => rep.rejected \in {{}, c}}
=============================================================================
