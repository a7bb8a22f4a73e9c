-------------------------- MODULE MCLiquidityVault --------------------------
(***************************************************************************)
(* Two depositors and one strategy.  One share is locked, and a loss may   *)
(* be half of what is recalled (a fifth in the code), so that one unit can *)
(* be lost from two and shares stop being worth whole assets.              *)
(***************************************************************************)
EXTENDS LiquidityVault, TLC

CONSTANTS a1, a2, s1, MaxShares

Interchangeable == Permutations(Accounts)

\* Losses make new shares cheaper; explore up to MaxShares of them.
FewShares == totalSupply <= MaxShares
=============================================================================
