---------------------------- MODULE MCOrchestrator ----------------------------
(***************************************************************************)
(* Small plans for model-checking Orchestrator: one that is all waves, and *)
(* one that is all reviews.                                                *)
(***************************************************************************)
EXTENDS Orchestrator

\* Three specialists in the first wave, more than Limit, and one in the
\* third: the second wave is empty.
WavesWaveOf == <<1, 1, 1, 3>>
WavesClaimsOf == <<{"risk"}, {}, {}, {}>>

\* One specialist with everything to review.
ReviewsWaveOf == <<1>>
ReviewsClaimsOf == <<{"growth", "margin", "risk"}>>
=============================================================================
