----------------------------- MODULE AccountSums -----------------------------
(***************************************************************************)
(* The sum of a balance mapping over its accounts.  The contracts keep one *)
(* aggregate beside most mappings (totalDebtShares beside debtSharesOf,    *)
(* totalStaked beside stakes, ...), and the invariants compare the two.    *)
(*                                                                         *)
(* The sum is the number of units held: every unit that account a holds is *)
(* one pair <<a, i>>.  A fold would compute the same number; the count has *)
(* the advantage that AccountSums_proofs can reason about it with the      *)
(* theorems on finite cardinalities.                                       *)
(***************************************************************************)
EXTENDS Naturals, FiniteSets

UnitsOf(f, a) == {a} \X (1 .. f[a])

TotalOf(f) == Cardinality(UNION {UnitsOf(f, a) : a \in DOMAIN f})
=============================================================================
