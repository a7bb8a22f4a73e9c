--------------------------- MODULE MCStakingVault ---------------------------
(***************************************************************************)
(* Two stakers, one lock time, and cooldowns that governance changes while *)
(* exits are pending.                                                      *)
(***************************************************************************)
EXTENDS StakingVault

CONSTANTS a1, a2
=============================================================================
