------------------------------- MODULE MCLiveRun -------------------------------
(***************************************************************************)
(* A small plan for model-checking LiveRun: two specialists at work        *)
(* together and one in a later wave, only one of which has claims.         *)
(***************************************************************************)
EXTENDS LiveRun

MCWaveOf == <<1, 1, 2>>
MCClaimsOf == <<{"growth", "risk"}, {}, {}>>
=============================================================================
