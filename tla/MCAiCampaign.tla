---------------------------- MODULE MCAiCampaign ----------------------------
(***************************************************************************)
(* AiCampaign for TLC: the requests are interchangeable.                   *)
(***************************************************************************)
EXTENDS AiCampaign, TLC

Symmetry == Permutations(Requests)

=============================================================================
