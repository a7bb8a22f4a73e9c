------------------------------- MODULE Staking -------------------------------
(***************************************************************************)
(* LQCStakingVault composed with LQCStakingRewards.  The two contracts     *)
(* read each other in one transaction: stake, requestUnstake and           *)
(* cancelUnstake checkpoint the account's rewards before they change its   *)
(* stake, and the rewards are computed from the vault's stakes.            *)
(***************************************************************************)
EXTENDS StakingVault

CONSTANTS
  RAY,               \* the unit of rewardPerToken (1e27 in the code)
  Fundings,          \* amounts governance funds rewards with
  Durations,         \* durations up to maxRewardDuration
  ProgramBudgetCap,
  MaxRewardRate

ASSUME RewardAssumption ==
  /\ RAY \in Nat \ {0}
  /\ Fundings \subseteq Nat \ {0}
  /\ Durations \subseteq Nat \ {0}
  /\ ProgramBudgetCap \in Nat \ {0}
  /\ MaxRewardRate \in Nat \ {0}

VARIABLES
  bound,                   \* rewardAccounting is set, to the module below
  schedule,                \* rewardRate, periodFinish, lastUpdateTime
  rewardPerTokenStored,
  userRewardPerTokenPaid,
  rewards,
  reserve,                 \* rewardReserve, totalFunded, totalClaimed
  rewardBalance,           \* LQC held by the reward module
  fundingPaused

accrualVars == <<schedule, rewardPerTokenStored, userRewardPerTokenPaid, rewards>>
fundVars    == <<reserve, rewardBalance>>
rewardVars  == <<bound, accrualVars, fundVars, fundingPaused>>
vars        == <<vaultVars, rewardVars>>

Init ==
  /\ VaultInit
  /\ bound = FALSE
  /\ schedule = [rate |-> 0, finish |-> 0, updated |-> 0]
  /\ rewardPerTokenStored = 0
  /\ userRewardPerTokenPaid = [a \in Accounts |-> 0]
  /\ rewards = [a \in Accounts |-> 0]
  /\ reserve = [held |-> 0, funded |-> 0, claimed |-> 0]
  /\ rewardBalance = 0
  /\ fundingPaused = FALSE

-----------------------------------------------------------------------------
(* Accrual.                                                                *)

LastTimeRewardApplicable == IF now < schedule.finish THEN now ELSE schedule.finish

RewardPerToken ==
  IF totalStaked = 0 \/ LastTimeRewardApplicable <= schedule.updated
  THEN rewardPerTokenStored
  ELSE rewardPerTokenStored
         + ((LastTimeRewardApplicable - schedule.updated) * schedule.rate * RAY) \div totalStaked

\* What a has earned since its last checkpoint.
Unsettled(a) ==
  (stakedBalance[a] * (RewardPerToken - userRewardPerTokenPaid[a])) \div RAY

Earned(a) == rewards[a] + Unsettled(a)

Updated == [schedule EXCEPT !.updated = LastTimeRewardApplicable]

\* _updateReward(a), with nothing else done to the schedule.
UpdateReward(a) ==
  /\ rewardPerTokenStored' = RewardPerToken
  /\ schedule' = Updated
  /\ rewards' = [rewards EXCEPT ![a] = Earned(a)]
  /\ userRewardPerTokenPaid' = [userRewardPerTokenPaid EXCEPT ![a] = RewardPerToken]

\* Mutant: a change of the stake is not preceded by a checkpoint.
NoCheckpoint(a) == UNCHANGED rewardVars

\* The vault's _checkpoint: nothing happens before the module is bound.
VaultCheckpoint(a) ==
  /\ IF bound THEN UpdateReward(a) ELSE UNCHANGED accrualVars
  /\ UNCHANGED <<bound, fundVars, fundingPaused>>

-----------------------------------------------------------------------------
(* The vault's transactions, with their checkpoints.                       *)

StakeChecked(a, n)   == VaultCheckpoint(a) /\ Stake(a, n)
RequestChecked(a, n) == VaultCheckpoint(a) /\ RequestUnstake(a, n)
CancelChecked(a)     == VaultCheckpoint(a) /\ CancelUnstake(a)

StakerStep ==
  \/ \E a \in Accounts, n \in Amounts : StakeChecked(a, n) \/ RequestChecked(a, n)
  \/ \E a \in Accounts : CancelChecked(a)

PlainVaultStep ==
  /\ \/ \E a \in Accounts : CompleteUnstake(a)
     \/ \E a \in Accounts, until \in LockTimes : ExtendLock(a, until)
     \/ VaultGovernance
     \/ Tick
  /\ UNCHANGED rewardVars

InitializeRewardAccounting ==
  /\ ~bound
  /\ bound' = TRUE
  /\ UNCHANGED <<vaultVars, accrualVars, fundVars, fundingPaused>>

-----------------------------------------------------------------------------
(* The reward module's transactions.                                       *)

\* What the running schedule has not paid out yet.
Remaining == IF now < schedule.finish THEN (schedule.finish - now) * schedule.rate ELSE 0

NewRate(n, d) == (n + Remaining) \div d

\* Mutant: the last update is not moved to the start of the new schedule.
FundKeepingUpdate(n, d) ==
  /\ ~fundingPaused
  /\ reserve.funded + n <= ProgramBudgetCap
  /\ NewRate(n, d) \in 1 .. MaxRewardRate
  /\ rewardPerTokenStored' = RewardPerToken
  /\ schedule' = [Updated EXCEPT !.rate = NewRate(n, d), !.finish = now + d]
  /\ reserve' = [reserve EXCEPT !.held = reserve.held + n, !.funded = reserve.funded + n]
  /\ rewardBalance' = rewardBalance + n
  /\ UNCHANGED <<userRewardPerTokenPaid, rewards, bound, fundingPaused, vaultVars>>

FundRewards(n, d) ==
  /\ ~fundingPaused
  /\ reserve.funded + n <= ProgramBudgetCap
  /\ NewRate(n, d) \in 1 .. MaxRewardRate
  /\ rewardBalance + n >= reserve.held + n
  /\ rewardPerTokenStored' = RewardPerToken
  /\ schedule' = [rate |-> NewRate(n, d), finish |-> now + d, updated |-> now]
  /\ reserve' = [reserve EXCEPT !.held = reserve.held + n, !.funded = reserve.funded + n]
  /\ rewardBalance' = rewardBalance + n
  /\ UNCHANGED <<userRewardPerTokenPaid, rewards, bound, fundingPaused, vaultVars>>

\* claim, called by a, which leaves the claimed rewards at zero.
Claim(a) ==
  /\ Earned(a) \in 1 .. reserve.held
  /\ Earned(a) <= rewardBalance
  /\ rewardPerTokenStored' = RewardPerToken
  /\ schedule' = Updated
  /\ rewards' = [rewards EXCEPT ![a] = 0]
  /\ userRewardPerTokenPaid' = [userRewardPerTokenPaid EXCEPT ![a] = RewardPerToken]
  /\ reserve' = [reserve EXCEPT !.held = reserve.held - Earned(a),
                                !.claimed = reserve.claimed + Earned(a)]
  /\ rewardBalance' = rewardBalance - Earned(a)
  /\ UNCHANGED <<bound, fundingPaused, vaultVars>>

SetFundingPaused(p) ==
  /\ fundingPaused' = p
  /\ UNCHANGED <<bound, accrualVars, fundVars, vaultVars>>

Next ==
  \/ StakerStep
  \/ PlainVaultStep
  \/ InitializeRewardAccounting
  \/ \E n \in Fundings, d \in Durations : FundRewards(n, d)
  \/ \E a \in Accounts : Claim(a)
  \/ \E p \in BOOLEAN : SetFundingPaused(p)

Spec == Init /\ [][Next]_vars

-----------------------------------------------------------------------------
(* Properties.                                                             *)

TypeOK ==
  /\ VaultTypeOK
  /\ bound \in BOOLEAN /\ fundingPaused \in BOOLEAN
  /\ schedule \in [rate : Nat, finish : Nat, updated : Nat]
  /\ rewardPerTokenStored \in Nat
  /\ userRewardPerTokenPaid \in [Accounts -> Nat]
  /\ rewards \in [Accounts -> Nat]
  /\ reserve \in [held : Nat, funded : Nat, claimed : Nat]
  /\ rewardBalance \in Nat

\* The deployment order the reward documents assume and no code enforces:
\* governance binds the module before it funds the first schedule.
FundedOnceBound == reserve.funded # 0 => bound

(***************************************************************************)
(* Solvency: what all accounts have earned and what the running schedule   *)
(* will still pay never exceeds the reserve of funded and unclaimed        *)
(* rewards, so that claim never reverts with InsufficientRewardReserve.    *)
(* The reserve is all that was funded and not claimed, and the module      *)
(* holds it.                                                               *)
(***************************************************************************)
RewardsCovered ==
  /\ TotalOf([a \in Accounts |-> Earned(a)]) + Remaining <= reserve.held
  /\ reserve.held = reserve.funded - reserve.claimed
  /\ rewardBalance >= reserve.held

EarnsWithTime(a) ==
  IF now' = now
  THEN \/ Earned(a)' = Earned(a)
       \/ Earned(a)' = 0 /\ reserve'.claimed = reserve.claimed + Earned(a)
  ELSE /\ Earned(a)' >= Earned(a)
       /\ stakedBalance[a] = 0 => Earned(a)' = Earned(a)

(***************************************************************************)
(* Rewards accrue with time alone.  A transaction, whoever sends it,       *)
(* changes nobody's earned rewards, the claim of an account its own; so a  *)
(* late or returning staker gets nothing of the past and a leaving one     *)
(* loses nothing.  As time passes, nobody's rewards shrink, and those who  *)
(* have no active stake get none.                                          *)
(***************************************************************************)
EarnedWithTimeOnly == [][\A a \in Accounts : EarnsWithTime(a)]_vars
=============================================================================
