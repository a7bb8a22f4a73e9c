---------------------------- MODULE StakingVault ----------------------------
(***************************************************************************)
(* LQCStakingVault: custody of staked LQC, voluntary locks, and exits that *)
(* wait for a cooldown.  Each external function is one action; its reverts *)
(* are the guards.  The reward checkpoint that stake, requestUnstake and   *)
(* cancelUnstake start with belongs to module Staking, which composes the  *)
(* vault with LQCStakingRewards.                                           *)
(***************************************************************************)
EXTENDS AccountSums

CONSTANTS
  Accounts,
  Amounts,       \* amounts callers pass
  Cooldowns,     \* cooldown durations inside the deployment-time ceiling
  LockTimes,     \* timestamps accounts lock their stake until
  MaxPrincipal,  \* bound on the LQC in the vault, the stakers' supply
  MaxTime        \* bound on the clock

ASSUME VaultAssumption ==
  /\ IsFiniteSet(Accounts)
  /\ Amounts \subseteq Nat \ {0}
  /\ Cooldowns \subseteq Nat \ {0}
  /\ LockTimes \subseteq Nat
  /\ MaxPrincipal \in Nat /\ MaxTime \in Nat

VARIABLES
  stakedBalance,
  lockUntil,
  pendingUnstake,       \* [amount, availableAt]; amount 0 is no pending exit
  totalStaked,
  totalPendingUnstake,
  vaultBalance,         \* LQC held by the vault
  mode,                 \* stakingPaused, emergencyExitEnabled
  cooldown,             \* cooldownDuration
  now                   \* block.timestamp

principalVars == <<stakedBalance, pendingUnstake, totalStaked, totalPendingUnstake, vaultBalance>>
adminVars     == <<mode, cooldown>>
vaultVars     == <<principalVars, lockUntil, adminVars, now>>

NoExit == [amount |-> 0, availableAt |-> 0]
PendingAmounts == [a \in Accounts |-> pendingUnstake[a].amount]

VaultInit ==
  /\ stakedBalance = [a \in Accounts |-> 0]
  /\ lockUntil = [a \in Accounts |-> 0]
  /\ pendingUnstake = [a \in Accounts |-> NoExit]
  /\ totalStaked = 0
  /\ totalPendingUnstake = 0
  /\ vaultBalance = 0
  /\ mode = [paused |-> FALSE, emergency |-> FALSE]
  /\ cooldown \in Cooldowns
  /\ now = 0

-----------------------------------------------------------------------------
(* The stakers.                                                            *)

\* stake(n, a), paid by anybody.
Stake(a, n) ==
  /\ ~mode.paused
  /\ vaultBalance + n <= MaxPrincipal
  /\ vaultBalance' = vaultBalance + n
  /\ stakedBalance' = [stakedBalance EXCEPT ![a] = stakedBalance[a] + n]
  /\ totalStaked' = totalStaked + n
  /\ UNCHANGED <<pendingUnstake, totalPendingUnstake, lockUntil, adminVars, now>>

ExtendLock(a, until) ==
  /\ ~mode.paused
  /\ stakedBalance[a] # 0
  /\ until > now /\ until > lockUntil[a]
  /\ lockUntil' = [lockUntil EXCEPT ![a] = until]
  /\ UNCHANGED <<principalVars, adminVars, now>>

\* The cooldown is taken at the request; emergency mode waives it.
AvailableAt == IF mode.emergency THEN now ELSE now + cooldown

RequestUnstake(a, n) ==
  /\ mode.emergency \/ now >= lockUntil[a]
  /\ pendingUnstake[a].amount = 0
  /\ n <= stakedBalance[a]
  /\ AvailableAt <= MaxTime
  /\ stakedBalance' = [stakedBalance EXCEPT ![a] = stakedBalance[a] - n]
  /\ totalStaked' = totalStaked - n
  /\ pendingUnstake' = [pendingUnstake EXCEPT ![a] = [amount |-> n, availableAt |-> AvailableAt]]
  /\ totalPendingUnstake' = totalPendingUnstake + n
  /\ UNCHANGED <<vaultBalance, lockUntil, adminVars, now>>

CancelUnstake(a) ==
  LET n == pendingUnstake[a].amount
  IN  /\ n # 0
      /\ pendingUnstake' = [pendingUnstake EXCEPT ![a] = NoExit]
      /\ totalPendingUnstake' = totalPendingUnstake - n
      /\ stakedBalance' = [stakedBalance EXCEPT ![a] = stakedBalance[a] + n]
      /\ totalStaked' = totalStaked + n
      /\ UNCHANGED <<vaultBalance, lockUntil, adminVars, now>>

\* Mutant: the cooldown is not waited for.
MaturedAtOnce(a) == TRUE

\* Mutant: exits stop together with new staking.
MaturedUnlessPaused(a) == now >= pendingUnstake[a].availableAt /\ ~mode.paused

\* The cooldown of a's exit has passed.
Matured(a) == now >= pendingUnstake[a].availableAt

\* completeUnstake; the receiver of the principal is outside the vault.
CompleteUnstake(a) ==
  LET n == pendingUnstake[a].amount
  IN  /\ n # 0
      /\ Matured(a)
      /\ n <= vaultBalance
      /\ pendingUnstake' = [pendingUnstake EXCEPT ![a] = NoExit]
      /\ totalPendingUnstake' = totalPendingUnstake - n
      /\ vaultBalance' = vaultBalance - n
      /\ UNCHANGED <<stakedBalance, totalStaked, lockUntil, adminVars, now>>

-----------------------------------------------------------------------------
(* Governance, the guardian, and the clock.                                *)

PauseNewStaking ==
  /\ mode' = [mode EXCEPT !.paused = TRUE]
  /\ UNCHANGED <<principalVars, lockUntil, cooldown, now>>

ResumeNewStaking ==
  /\ mode' = [mode EXCEPT !.paused = FALSE]
  /\ UNCHANGED <<principalVars, lockUntil, cooldown, now>>

EnableEmergencyExit ==
  /\ mode' = [paused |-> TRUE, emergency |-> TRUE]
  /\ UNCHANGED <<principalVars, lockUntil, cooldown, now>>

DisableEmergencyExit ==
  /\ mode' = [mode EXCEPT !.emergency = FALSE]
  /\ UNCHANGED <<principalVars, lockUntil, cooldown, now>>

SetCooldownDuration(d) ==
  /\ cooldown' = d
  /\ UNCHANGED <<principalVars, lockUntil, mode, now>>

VaultGovernance ==
  \/ PauseNewStaking \/ ResumeNewStaking
  \/ EnableEmergencyExit \/ DisableEmergencyExit
  \/ \E d \in Cooldowns : SetCooldownDuration(d)

Tick == now < MaxTime /\ now' = now + 1 /\ UNCHANGED <<principalVars, lockUntil, adminVars>>

VaultNext ==
  \/ \E a \in Accounts, n \in Amounts : Stake(a, n) \/ RequestUnstake(a, n)
  \/ \E a \in Accounts : CancelUnstake(a) \/ CompleteUnstake(a)
  \/ \E a \in Accounts, until \in LockTimes : ExtendLock(a, until)
  \/ VaultGovernance
  \/ Tick

\* The vault alone, with a reward module that lets every checkpoint pass.
VaultSpec == VaultInit /\ [][VaultNext]_vaultVars

\* The clock runs, and an account with a matured exit keeps asking for it.
VaultFairSpec ==
  /\ VaultSpec
  /\ WF_vaultVars(Tick)
  /\ \A a \in Accounts : WF_vaultVars(CompleteUnstake(a))

-----------------------------------------------------------------------------
(* Properties.                                                             *)

VaultTypeOK ==
  /\ stakedBalance \in [Accounts -> Nat]
  /\ lockUntil \in [Accounts -> Nat]
  /\ pendingUnstake \in [Accounts -> [amount : Nat, availableAt : Nat]]
  /\ totalStaked \in Nat
  /\ totalPendingUnstake \in Nat
  /\ vaultBalance \in Nat
  /\ mode \in [paused : BOOLEAN, emergency : BOOLEAN]
  /\ cooldown \in Cooldowns
  /\ now \in Nat

(***************************************************************************)
(* The totals, which requestUnstake, cancelUnstake and completeUnstake     *)
(* move between, are at all times the sums of the accounts' stakes and     *)
(* pending exits, and the vault holds exactly their sum: isFullyBacked     *)
(* never reports FALSE, and the checked subtractions never revert an exit. *)
(***************************************************************************)
PrincipalBacked ==
  /\ totalStaked = TotalOf(stakedBalance)
  /\ totalPendingUnstake = TotalOf(PendingAmounts)
  /\ vaultBalance = totalStaked + totalPendingUnstake

Principal(a) == stakedBalance[a] + pendingUnstake[a].amount

LeavesMatured(a) ==
  /\ Principal(a)' < Principal(a) =>
       /\ pendingUnstake[a].amount = Principal(a) - Principal(a)'
       /\ pendingUnstake[a].amount = vaultBalance - vaultBalance'
       /\ pendingUnstake[a].availableAt <= now
       /\ pendingUnstake'[a].amount = 0
  /\ pendingUnstake[a].amount # 0 /\ pendingUnstake'[a].amount # 0 =>
       pendingUnstake'[a] = pendingUnstake[a]

(***************************************************************************)
(* No transaction lowers an account's principal (stake plus pending exit)  *)
(* except the payment of its own matured exit, which leaves the stake of   *)
(* the account alone and takes the whole exit out of the vault.  While an  *)
(* exit is pending its date stands: neither the account's further          *)
(* requests nor a change of the cooldown, a pause or the emergency mode    *)
(* moves it.                                                               *)
(***************************************************************************)
PrincipalLeavesMatured == [][\A a \in Accounts : LeavesMatured(a)]_vaultVars

(***************************************************************************)
(* Whatever governance and the guardian do (pause, emergency mode,         *)
(* cooldown changes), an account that has requested an exit, does not      *)
(* cancel it and keeps calling completeUnstake is paid.                    *)
(***************************************************************************)
RequestedExitsEnd ==
  \A a \in Accounts : pendingUnstake[a].amount # 0 ~> pendingUnstake[a].amount = 0
=============================================================================
