------------------------------ MODULE MCStaking ------------------------------
(***************************************************************************)
(* Two stakers, and a reward unit of 10 against stakes of 1, 3 and 4, so   *)
(* that rewardPerToken rounds.                                             *)
(***************************************************************************)
EXTENDS Staking, TLC

CONSTANTS a1, a2

Interchangeable == Permutations(Accounts)

\* The states to explore from: no pause, no emergency.
Normal == ~mode.paused /\ ~mode.emergency /\ ~fundingPaused

BoundAndNormal == FundedOnceBound /\ Normal
=============================================================================
