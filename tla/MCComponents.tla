----------------------------- MODULE MCComponents -----------------------------
(***************************************************************************)
(* The components that share no state with each other, each explored on    *)
(* its own: `subject` names the one a behaviour is about, and the others   *)
(* stay in their initial states.                                           *)
(***************************************************************************)
EXTENDS AuditStore, Specialist, Books, Synthesizer, Conversation, CritiqueBoundary, Peers, Promotion,
        Activity

VARIABLE subject

\* Of the issuers, the evaluations and the audit store's modes, one is taken where they
\* are not the subject.
Start ==
  /\ AuditInit /\ SpecialistInit /\ EngineInit /\ SynthesizerInit
  /\ ConversationInit /\ Init /\ ActivationInit /\ PromotionInit /\ ActivityInit
  /\ subject \in {"audit", "specialist", "engine", "synthesizer", "conversation", "review",
                  "company", "release", "activity"}
  /\ subject = "audit" \/ enabled
  /\ subject = "company" \/ study.issuer = PlainIssuer
  /\ subject = "release" \/ ~release.summaries.sound
  /\ subject = "activity" \/ work.kind = "tool"

Others(s) ==
  /\ subject = s /\ UNCHANGED subject
  /\ s # "audit" => UNCHANGED auditVars
  /\ s # "specialist" => UNCHANGED desk
  /\ s # "engine" => UNCHANGED bench
  /\ s # "synthesizer" => UNCHANGED writing
  /\ s # "conversation" => UNCHANGED talk
  /\ s # "review" => UNCHANGED boundaryVars
  /\ s # "company" => UNCHANGED study
  /\ s # "release" => UNCHANGED release
  /\ s # "activity" => UNCHANGED work

ComponentsNext ==
  \/ Others("audit") /\ AuditNext
  \/ Others("specialist") /\ SpecialistNext
  \/ Others("engine") /\ EngineNext(EngineRequests)
  \/ Others("synthesizer") /\ SynthesizerNext
  \/ Others("conversation") /\ ConversationNext
  \/ Others("review") /\ Next
  \/ Others("company") /\ ActivationNext
  \/ Others("release") /\ PromotionNext
  \/ Others("activity") /\ ActivityNext
=============================================================================
