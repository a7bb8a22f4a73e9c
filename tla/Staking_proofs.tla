---------------------------- MODULE Staking_proofs ----------------------------
(***************************************************************************)
(* Theorems about StakingVault and Staking for every number of accounts,   *)
(* all amounts, cooldowns, locks and reward schedules.                     *)
(***************************************************************************)
EXTENDS Staking, AccountSums_proofs

-----------------------------------------------------------------------------
(* Principal.                                                              *)

VaultInv == VaultTypeOK /\ PrincipalBacked

ExitType == [amount : Nat, availableAt : Nat]

LEMMA VaultInitOK == VaultInit => VaultInv
<1> SUFFICES ASSUME VaultInit PROVE VaultInv
  OBVIOUS
<1> USE DEF VaultInit
<1>1. IsFiniteSet(Accounts) /\ Cooldowns \subseteq Nat \ {0}
  BY VaultAssumption
<1>2. VaultTypeOK
  BY DEF VaultTypeOK, NoExit
<1>3. stakedBalance \in [Accounts -> Nat] /\ \A a \in Accounts : stakedBalance[a] = 0
  OBVIOUS
<1>4. PendingAmounts \in [Accounts -> Nat] /\ \A a \in Accounts : PendingAmounts[a] = 0
  BY DEF PendingAmounts, NoExit
<1>5. TotalOf(stakedBalance) = 0 /\ TotalOf(PendingAmounts) = 0
  BY <1>3, <1>4, TotalOfNothing
<1>6. PrincipalBacked
  BY <1>5 DEF PrincipalBacked
<1>7. QED
  BY <1>2, <1>6 DEF VaultInv

(* What the two sums are before a transaction. *)
LEMMA PrincipalSums ==
  ASSUME VaultInv
  PROVE  /\ IsFiniteSet(Accounts)
         /\ stakedBalance \in [Accounts -> Nat]
         /\ PendingAmounts \in [Accounts -> Nat]
         /\ \A a \in Accounts : PendingAmounts[a] = pendingUnstake[a].amount
         /\ \A a \in Accounts : pendingUnstake[a].amount \in Nat
         /\ totalStaked = TotalOf(stakedBalance)
         /\ totalPendingUnstake = TotalOf(PendingAmounts)
         /\ \A a \in Accounts : stakedBalance[a] \in Nat /\ stakedBalance[a] <= totalStaked
         /\ \A a \in Accounts : pendingUnstake[a].amount <= totalPendingUnstake
<1>1. IsFiniteSet(Accounts)
  BY VaultAssumption
<1>2. stakedBalance \in [Accounts -> Nat]
  BY DEF VaultInv, VaultTypeOK
<1>3. \A a \in Accounts : pendingUnstake[a].amount \in Nat
  BY DEF VaultInv, VaultTypeOK
<1>4. PendingAmounts \in [Accounts -> Nat]
      /\ \A a \in Accounts : PendingAmounts[a] = pendingUnstake[a].amount
  BY <1>3 DEF PendingAmounts
<1>5. totalStaked = TotalOf(stakedBalance) /\ totalPendingUnstake = TotalOf(PendingAmounts)
  BY DEF VaultInv, PrincipalBacked
<1>6. \A a \in Accounts : stakedBalance[a] \in Nat /\ stakedBalance[a] <= totalStaked
  BY <1>1, <1>2, <1>5, TotalAtLeastMember
<1>7. \A a \in Accounts : pendingUnstake[a].amount <= totalPendingUnstake
  BY <1>1, <1>4, <1>5, TotalAtLeastMember
<1>8. QED
  BY <1>1, <1>2, <1>3, <1>4, <1>5, <1>6, <1>7

\* Account a's stake becomes s and its pending exit e, and the sums follow.
SetsPrincipal(a, s, e) ==
  /\ stakedBalance' = [stakedBalance EXCEPT ![a] = s]
  /\ pendingUnstake' = [pendingUnstake EXCEPT ![a] = e]
MovesPrincipal(a, s, e) ==
  /\ stakedBalance' \in [Accounts -> Nat]
  /\ pendingUnstake' \in [Accounts -> ExitType]
  /\ TotalOf(stakedBalance') = totalStaked - stakedBalance[a] + s
  /\ TotalOf(PendingAmounts') = totalPendingUnstake - pendingUnstake[a].amount + e.amount

(* The sums after account a's stake becomes s and its pending exit e.      *)
LEMMA PrincipalUpdate ==
  ASSUME VaultInv, NEW a \in Accounts, NEW s \in Nat, NEW e \in ExitType,
         SetsPrincipal(a, s, e)
  PROVE  MovesPrincipal(a, s, e)
<1>1. pendingUnstake \in [Accounts -> ExitType] /\ e.amount \in Nat
  BY DEF VaultInv, VaultTypeOK, ExitType
<1>2. PendingAmounts' = [PendingAmounts EXCEPT ![a] = e.amount]
  BY <1>1 DEF PendingAmounts, SetsPrincipal
<1>3. TotalOf(stakedBalance') = TotalOf(stakedBalance) - stakedBalance[a] + s
  <2>1. stakedBalance \in [Accounts -> Nat] /\ IsFiniteSet(Accounts)
    BY PrincipalSums
  <2>2. TotalOf([stakedBalance EXCEPT ![a] = s]) = TotalOf(stakedBalance) - stakedBalance[a] + s
    BY <2>1, TotalOfUpdate
  <2>3. QED
    BY <2>2 DEF SetsPrincipal
<1>4. TotalOf(PendingAmounts') = TotalOf(PendingAmounts) - PendingAmounts[a] + e.amount
  <2>1. PendingAmounts \in [Accounts -> Nat] /\ IsFiniteSet(Accounts)
    BY PrincipalSums
  <2>2. TotalOf([PendingAmounts EXCEPT ![a] = e.amount])
          = TotalOf(PendingAmounts) - PendingAmounts[a] + e.amount
    BY <1>1, <2>1, TotalOfUpdate
  <2>3. QED
    BY <1>2, <2>2
<1>5. stakedBalance' \in [Accounts -> Nat] /\ pendingUnstake' \in [Accounts -> ExitType]
  BY <1>1, PrincipalSums DEF SetsPrincipal
<1>6. /\ TotalOf(stakedBalance) = totalStaked /\ TotalOf(PendingAmounts) = totalPendingUnstake
      /\ PendingAmounts[a] = pendingUnstake[a].amount
  BY PrincipalSums DEF VaultInv, PrincipalBacked, PendingAmounts
<1>7. QED
  BY <1>3, <1>4, <1>5, <1>6 DEF MovesPrincipal

(* Each transaction of an account moves its principal between its stake,   *)
(* its pending exit and the world outside, and the totals with it.         *)
LEMMA StakeEffect ==
  ASSUME VaultInv, NEW a \in Accounts, NEW n \in Amounts, Stake(a, n)
  PROVE  VaultInv'
<1>1. n \in Nat
  BY VaultAssumption
<1> DEFINE e == pendingUnstake[a]
<1>2. stakedBalance[a] + n \in Nat /\ e \in ExitType
  BY <1>1, PrincipalSums DEF VaultInv, VaultTypeOK, ExitType
<1>3. pendingUnstake' = [pendingUnstake EXCEPT ![a] = e]
  BY DEF Stake, VaultInv, VaultTypeOK
<1>4. stakedBalance' = [stakedBalance EXCEPT ![a] = stakedBalance[a] + n]
  BY DEF Stake
<1>5. /\ stakedBalance' \in [Accounts -> Nat]
      /\ pendingUnstake' \in [Accounts -> ExitType]
      /\ TotalOf(stakedBalance') = totalStaked - stakedBalance[a] + (stakedBalance[a] + n)
      /\ TotalOf(PendingAmounts') = totalPendingUnstake - e.amount + e.amount
  <2>1. pendingUnstake[a].amount = e.amount
    OBVIOUS
  <2> HIDE DEF e
  <2>2. SetsPrincipal(a, stakedBalance[a] + n, e)
    BY <1>3, <1>4 DEF SetsPrincipal
  <2>3. MovesPrincipal(a, stakedBalance[a] + n, e)
    BY <1>2, <2>2, PrincipalUpdate
  <2>4. QED
    BY <2>1, <2>3 DEF MovesPrincipal
<1>6. /\ totalStaked' = totalStaked + n /\ vaultBalance' = vaultBalance + n
      /\ totalPendingUnstake' = totalPendingUnstake
      /\ UNCHANGED <<lockUntil, mode, cooldown, now>>
  BY DEF Stake, adminVars
<1>7. /\ totalStaked \in Nat /\ totalPendingUnstake \in Nat /\ vaultBalance \in Nat
      /\ vaultBalance = totalStaked + totalPendingUnstake
      /\ stakedBalance[a] \in Nat /\ e.amount \in Nat
  BY PrincipalSums DEF VaultInv, VaultTypeOK, PrincipalBacked
<1>8. /\ totalStaked' \in Nat /\ vaultBalance' \in Nat
      /\ totalStaked' = TotalOf(stakedBalance') /\ totalPendingUnstake' = TotalOf(PendingAmounts')
      /\ vaultBalance' = totalStaked' + totalPendingUnstake'
  <2> HIDE DEF e
  <2>1. QED
    BY <1>1, <1>5, <1>6, <1>7
<1>9. QED
  BY <1>5, <1>6, <1>8 DEF VaultInv, VaultTypeOK, PrincipalBacked, ExitType

LEMMA RequestEffect ==
  ASSUME VaultInv, NEW a \in Accounts, NEW n \in Amounts, RequestUnstake(a, n)
  PROVE  VaultInv'
<1> DEFINE e == [amount |-> n, availableAt |-> AvailableAt]
<1>1. n \in Nat /\ now \in Nat /\ cooldown \in Nat
  BY VaultAssumption DEF VaultInv, VaultTypeOK
<1>2. AvailableAt \in Nat
  BY <1>1 DEF AvailableAt
<1>3. e \in ExitType /\ e.amount = n
  BY <1>1, <1>2 DEF ExitType
<1>4. /\ pendingUnstake[a].amount = 0
      /\ n <= stakedBalance[a]
      /\ stakedBalance' = [stakedBalance EXCEPT ![a] = stakedBalance[a] - n]
      /\ pendingUnstake' = [pendingUnstake EXCEPT ![a] = e]
      /\ totalStaked' = totalStaked - n
      /\ totalPendingUnstake' = totalPendingUnstake + n
      /\ UNCHANGED <<vaultBalance, lockUntil, mode, cooldown, now>>
  BY DEF RequestUnstake, adminVars
<1> HIDE DEF e
<1>5. /\ totalStaked \in Nat /\ totalPendingUnstake \in Nat /\ vaultBalance \in Nat
      /\ vaultBalance = totalStaked + totalPendingUnstake
      /\ stakedBalance[a] \in Nat /\ stakedBalance[a] <= totalStaked
  BY PrincipalSums DEF VaultInv, VaultTypeOK, PrincipalBacked
<1>6. stakedBalance[a] - n \in Nat
  BY <1>1, <1>4, <1>5
<1>7. /\ stakedBalance' \in [Accounts -> Nat]
      /\ pendingUnstake' \in [Accounts -> ExitType]
      /\ TotalOf(stakedBalance') = totalStaked - stakedBalance[a] + (stakedBalance[a] - n)
      /\ TotalOf(PendingAmounts') = totalPendingUnstake - pendingUnstake[a].amount + e.amount
  <2>1. SetsPrincipal(a, stakedBalance[a] - n, e)
    BY <1>4 DEF SetsPrincipal
  <2>2. MovesPrincipal(a, stakedBalance[a] - n, e)
    BY <1>3, <1>6, <2>1, PrincipalUpdate
  <2>3. QED
    BY <2>2 DEF MovesPrincipal
<1>8. /\ totalStaked' \in Nat /\ totalPendingUnstake' \in Nat
      /\ totalStaked' = TotalOf(stakedBalance') /\ totalPendingUnstake' = TotalOf(PendingAmounts')
      /\ vaultBalance' = totalStaked' + totalPendingUnstake'
  BY <1>1, <1>3, <1>4, <1>5, <1>7
<1>9. QED
  BY <1>4, <1>7, <1>8 DEF VaultInv, VaultTypeOK, PrincipalBacked, ExitType

LEMMA CancelEffect ==
  ASSUME VaultInv, NEW a \in Accounts, CancelUnstake(a)
  PROVE  VaultInv'
<1> DEFINE n == pendingUnstake[a].amount
<1>1. n \in Nat /\ n <= totalPendingUnstake
  BY PrincipalSums
<1>2. NoExit \in ExitType /\ NoExit.amount = 0
  BY DEF ExitType, NoExit
<1>3. /\ stakedBalance' = [stakedBalance EXCEPT ![a] = stakedBalance[a] + n]
      /\ pendingUnstake' = [pendingUnstake EXCEPT ![a] = NoExit]
      /\ totalStaked' = totalStaked + n
      /\ totalPendingUnstake' = totalPendingUnstake - n
      /\ UNCHANGED <<vaultBalance, lockUntil, mode, cooldown, now>>
  BY DEF CancelUnstake, adminVars
<1>4. /\ totalStaked \in Nat /\ totalPendingUnstake \in Nat /\ vaultBalance \in Nat
      /\ vaultBalance = totalStaked + totalPendingUnstake
      /\ stakedBalance[a] \in Nat
  BY PrincipalSums DEF VaultInv, VaultTypeOK, PrincipalBacked
<1>5. /\ stakedBalance' \in [Accounts -> Nat]
      /\ pendingUnstake' \in [Accounts -> ExitType]
      /\ TotalOf(stakedBalance') = totalStaked - stakedBalance[a] + (stakedBalance[a] + n)
      /\ TotalOf(PendingAmounts') = totalPendingUnstake - n + NoExit.amount
  <2>1. stakedBalance[a] + n \in Nat
    BY <1>1, <1>4
  <2>2. SetsPrincipal(a, stakedBalance[a] + n, NoExit)
    BY <1>3 DEF SetsPrincipal
  <2>3. pendingUnstake[a].amount = n
    OBVIOUS
  <2> HIDE DEF n
  <2>4. MovesPrincipal(a, stakedBalance[a] + n, NoExit)
    BY <1>2, <2>1, <2>2, PrincipalUpdate
  <2>5. QED
    BY <2>3, <2>4 DEF MovesPrincipal
<1> HIDE DEF n
<1>6. /\ totalStaked' \in Nat /\ totalPendingUnstake' \in Nat
      /\ totalStaked' = TotalOf(stakedBalance') /\ totalPendingUnstake' = TotalOf(PendingAmounts')
      /\ vaultBalance' = totalStaked' + totalPendingUnstake'
  BY <1>1, <1>2, <1>3, <1>4, <1>5
<1>7. QED
  BY <1>3, <1>5, <1>6 DEF VaultInv, VaultTypeOK, PrincipalBacked, ExitType

LEMMA CompleteEffect ==
  ASSUME VaultInv, NEW a \in Accounts, CompleteUnstake(a)
  PROVE  VaultInv'
<1> DEFINE n == pendingUnstake[a].amount
<1>1. n \in Nat /\ n <= totalPendingUnstake
  BY PrincipalSums
<1>2. NoExit \in ExitType /\ NoExit.amount = 0
  BY DEF ExitType, NoExit
<1>3. /\ UNCHANGED <<stakedBalance, totalStaked, lockUntil, mode, cooldown, now>>
      /\ pendingUnstake' = [pendingUnstake EXCEPT ![a] = NoExit]
      /\ totalPendingUnstake' = totalPendingUnstake - n
      /\ vaultBalance' = vaultBalance - n
  BY DEF CompleteUnstake, adminVars
<1>4. /\ totalStaked \in Nat /\ totalPendingUnstake \in Nat /\ vaultBalance \in Nat
      /\ vaultBalance = totalStaked + totalPendingUnstake
      /\ stakedBalance[a] \in Nat /\ stakedBalance \in [Accounts -> Nat]
  BY PrincipalSums DEF VaultInv, VaultTypeOK, PrincipalBacked
<1>5. /\ stakedBalance' \in [Accounts -> Nat]
      /\ pendingUnstake' \in [Accounts -> ExitType]
      /\ TotalOf(stakedBalance') = totalStaked - stakedBalance[a] + stakedBalance[a]
      /\ TotalOf(PendingAmounts') = totalPendingUnstake - n + NoExit.amount
  <2>1. stakedBalance' = [stakedBalance EXCEPT ![a] = stakedBalance[a]]
    BY <1>3, <1>4
  <2>2. SetsPrincipal(a, stakedBalance[a], NoExit)
    BY <1>3, <2>1 DEF SetsPrincipal
  <2>3. pendingUnstake[a].amount = n
    OBVIOUS
  <2> HIDE DEF n
  <2>4. MovesPrincipal(a, stakedBalance[a], NoExit)
    BY <1>2, <1>4, <2>2, PrincipalUpdate
  <2>5. QED
    BY <2>3, <2>4 DEF MovesPrincipal
<1> HIDE DEF n
<1>6. /\ totalPendingUnstake' \in Nat /\ vaultBalance' \in Nat
      /\ totalStaked' = TotalOf(stakedBalance') /\ totalPendingUnstake' = TotalOf(PendingAmounts')
      /\ vaultBalance' = totalStaked' + totalPendingUnstake'
  BY <1>1, <1>2, <1>3, <1>4, <1>5
<1>7. QED
  BY <1>3, <1>5, <1>6 DEF VaultInv, VaultTypeOK, PrincipalBacked, ExitType

(* The steps that touch no principal.                                      *)
LEMMA PrincipalUntouched ==
  ASSUME VaultInv, UNCHANGED principalVars, lockUntil' \in [Accounts -> Nat],
         mode' \in [paused : BOOLEAN, emergency : BOOLEAN], cooldown' \in Cooldowns, now' \in Nat
  PROVE  VaultInv'
<1>1. UNCHANGED PendingAmounts
  BY DEF principalVars, PendingAmounts
<1>2. QED
  BY <1>1 DEF principalVars, VaultInv, VaultTypeOK, PrincipalBacked

LEMMA VaultStepOK == VaultInv /\ [VaultNext]_vaultVars => VaultInv'
<1> SUFFICES ASSUME VaultInv, [VaultNext]_vaultVars PROVE VaultInv'
  OBVIOUS
<1>1. /\ lockUntil \in [Accounts -> Nat] /\ cooldown \in Cooldowns /\ now \in Nat
      /\ mode \in [paused : BOOLEAN, emergency : BOOLEAN]
  BY DEF VaultInv, VaultTypeOK
<1>2. ASSUME NEW a \in Accounts, NEW n \in Amounts, Stake(a, n) PROVE VaultInv'
  BY <1>2, StakeEffect
<1>3. ASSUME NEW a \in Accounts, NEW n \in Amounts, RequestUnstake(a, n) PROVE VaultInv'
  BY <1>3, RequestEffect
<1>4. ASSUME NEW a \in Accounts, CancelUnstake(a) PROVE VaultInv'
  BY <1>4, CancelEffect
<1>5. ASSUME NEW a \in Accounts, CompleteUnstake(a) PROVE VaultInv'
  BY <1>5, CompleteEffect
<1>6. ASSUME NEW a \in Accounts, NEW until \in LockTimes, ExtendLock(a, until) PROVE VaultInv'
  <2>1. until \in Nat
    BY VaultAssumption
  <2>2. lockUntil' \in [Accounts -> Nat] /\ UNCHANGED <<principalVars, mode, cooldown, now>>
    BY <1>1, <1>6, <2>1 DEF ExtendLock, adminVars
  <2>3. QED
    BY <1>1, <2>2, PrincipalUntouched
<1>7. CASE VaultGovernance
  <2>1. UNCHANGED <<principalVars, lockUntil, now>>
    BY <1>7 DEF VaultGovernance, PauseNewStaking, ResumeNewStaking, EnableEmergencyExit,
                DisableEmergencyExit, SetCooldownDuration
  <2>2. cooldown' \in Cooldowns
    BY <1>1, <1>7 DEF VaultGovernance, PauseNewStaking, ResumeNewStaking, EnableEmergencyExit,
                      DisableEmergencyExit, SetCooldownDuration
  <2>3. \/ mode' = mode
        \/ mode' = [mode EXCEPT !.paused = TRUE]
        \/ mode' = [mode EXCEPT !.paused = FALSE]
        \/ mode' = [paused |-> TRUE, emergency |-> TRUE]
        \/ mode' = [mode EXCEPT !.emergency = FALSE]
    BY <1>7 DEF VaultGovernance, PauseNewStaking, ResumeNewStaking, EnableEmergencyExit,
                DisableEmergencyExit, SetCooldownDuration
  <2>4. mode' \in [paused : BOOLEAN, emergency : BOOLEAN]
    <3>1. CASE mode' = mode
      BY <1>1, <3>1, Zenon
    <3>2. CASE mode' = [mode EXCEPT !.paused = TRUE]
      BY <1>1, <3>2
    <3>3. CASE mode' = [mode EXCEPT !.paused = FALSE]
      BY <1>1, <3>3
    <3>4. CASE mode' = [paused |-> TRUE, emergency |-> TRUE]
      BY <3>4
    <3>5. CASE mode' = [mode EXCEPT !.emergency = FALSE]
      BY <1>1, <3>5
    <3>6. QED
      BY <2>3, <3>1, <3>2, <3>3, <3>4, <3>5, Zenon
  <2>5. QED
    BY <1>1, <2>1, <2>2, <2>4, PrincipalUntouched
<1>8. CASE Tick
  <2>1. now' \in Nat /\ UNCHANGED <<principalVars, lockUntil, mode, cooldown>>
    BY <1>1, <1>8 DEF Tick, adminVars
  <2>2. QED
    BY <1>1, <2>1, PrincipalUntouched
<1>9. CASE UNCHANGED vaultVars
  <2>1. UNCHANGED <<principalVars, lockUntil, mode, cooldown, now>>
    BY <1>9 DEF vaultVars, adminVars
  <2>2. QED
    BY <1>1, <2>1, PrincipalUntouched
<1>10. QED
  BY <1>2, <1>3, <1>4, <1>5, <1>6, <1>7, <1>8, <1>9 DEF VaultNext

(* Types of the vault's state, for all parameters. *)
THEOREM VaultTypeCorrect == VaultSpec => []VaultTypeOK
<1>1. VaultInv => VaultTypeOK
  BY DEF VaultInv
<1>2. QED
  BY <1>1, VaultInitOK, VaultStepOK, PTL DEF VaultSpec

(* The vault holds exactly the stakes and the pending exits of its         *)
(* accounts (LQCStakingVault.isFullyBacked), for all parameters.           *)
THEOREM PrincipalAlwaysBacked == VaultSpec => []PrincipalBacked
<1>1. VaultInv => PrincipalBacked
  BY DEF VaultInv
<1>2. QED
  BY <1>1, VaultInitOK, VaultStepOK, PTL DEF VaultSpec

(* Principal leaves only as a matured exit of its owner, and the date of a *)
(* pending exit stands, for all parameters.                                *)
THEOREM PrincipalOnlyMatures == VaultSpec => PrincipalLeavesMatured
<1>1. ASSUME VaultInv, [VaultNext]_vaultVars, NEW a \in Accounts PROVE LeavesMatured(a)
  <2>1. /\ stakedBalance \in [Accounts -> Nat]
        /\ pendingUnstake \in [Accounts -> ExitType]
        /\ vaultBalance \in Nat
    BY <1>1 DEF VaultInv, VaultTypeOK, ExitType
  <2>2. \A b \in Accounts : stakedBalance[b] \in Nat /\ pendingUnstake[b].amount \in Nat
    BY <2>1 DEF ExitType
  <2>3. ASSUME stakedBalance'[a] + pendingUnstake'[a].amount
                 >= stakedBalance[a] + pendingUnstake[a].amount,
               stakedBalance'[a] + pendingUnstake'[a].amount \in Nat,
               \/ pendingUnstake[a].amount = 0
               \/ pendingUnstake'[a].amount = 0
               \/ pendingUnstake'[a] = pendingUnstake[a]
        PROVE  LeavesMatured(a)
    <3>1. ~(Principal(a)' < Principal(a))
      BY <2>2, <2>3 DEF Principal
    <3>2. QED
      BY <2>3, <3>1 DEF LeavesMatured
  <2>4. ASSUME stakedBalance'[a] = stakedBalance[a], pendingUnstake'[a] = pendingUnstake[a]
        PROVE  LeavesMatured(a)
    BY <2>2, <2>3, <2>4
  <2>5. ASSUME NEW b \in Accounts, NEW n \in Amounts, Stake(b, n) PROVE LeavesMatured(a)
    <3>1. n \in Nat
      BY VaultAssumption
    <3>2. stakedBalance' = [stakedBalance EXCEPT ![b] = stakedBalance[b] + n]
          /\ pendingUnstake' = pendingUnstake
      BY <2>5 DEF Stake
    <3>3. CASE b = a
      <4>1. stakedBalance'[a] = stakedBalance[a] + n /\ pendingUnstake'[a] = pendingUnstake[a]
        BY <2>1, <3>2, <3>3
      <4>2. QED
        BY <2>2, <2>3, <3>1, <4>1
    <3>4. CASE b # a
      BY <2>1, <2>4, <3>2, <3>4
    <3>5. QED
      BY <3>3, <3>4
  <2>6. ASSUME NEW b \in Accounts, NEW n \in Amounts, RequestUnstake(b, n) PROVE LeavesMatured(a)
    <3> DEFINE e == [amount |-> n, availableAt |-> AvailableAt]
    <3>1. n \in Nat /\ e.amount = n
      BY VaultAssumption
    <3>2. /\ stakedBalance' = [stakedBalance EXCEPT ![b] = stakedBalance[b] - n]
          /\ pendingUnstake' = [pendingUnstake EXCEPT ![b] = e]
          /\ n <= stakedBalance[b] /\ pendingUnstake[b].amount = 0
      BY <2>6 DEF RequestUnstake
    <3> HIDE DEF e
    <3>3. CASE b = a
      <4>1. stakedBalance'[a] = stakedBalance[a] - n /\ pendingUnstake'[a] = e
        BY <2>1, <3>2, <3>3
      <4>2. QED
        BY <2>2, <2>3, <3>1, <3>2, <3>3, <4>1
    <3>4. CASE b # a
      BY <2>1, <2>4, <3>2, <3>4
    <3>5. QED
      BY <3>3, <3>4
  <2>7. ASSUME NEW b \in Accounts, CancelUnstake(b) PROVE LeavesMatured(a)
    <3>1. /\ stakedBalance' = [stakedBalance EXCEPT ![b] = stakedBalance[b] + pendingUnstake[b].amount]
          /\ pendingUnstake' = [pendingUnstake EXCEPT ![b] = NoExit]
      BY <2>7 DEF CancelUnstake
    <3>2. NoExit.amount = 0
      BY DEF NoExit
    <3>3. CASE b = a
      <4>1. /\ stakedBalance'[a] = stakedBalance[a] + pendingUnstake[a].amount
            /\ pendingUnstake'[a].amount = 0
        BY <2>1, <3>1, <3>2, <3>3
      <4>2. QED
        BY <2>2, <2>3, <4>1
    <3>4. CASE b # a
      BY <2>1, <2>4, <3>1, <3>4
    <3>5. QED
      BY <3>3, <3>4
  <2>8. ASSUME NEW b \in Accounts, CompleteUnstake(b) PROVE LeavesMatured(a)
    <3>1. /\ pendingUnstake' = [pendingUnstake EXCEPT ![b] = NoExit]
          /\ stakedBalance' = stakedBalance
          /\ vaultBalance' = vaultBalance - pendingUnstake[b].amount
          /\ now >= pendingUnstake[b].availableAt
      BY <2>8 DEF CompleteUnstake, Matured
    <3>2. NoExit.amount = 0
      BY DEF NoExit
    <3>3. CASE b = a
      <4>1. stakedBalance'[a] = stakedBalance[a] /\ pendingUnstake'[a].amount = 0
        BY <2>1, <3>1, <3>2, <3>3
      <4>2. /\ Principal(a) = stakedBalance[a] + pendingUnstake[a].amount
            /\ Principal(a)' = stakedBalance[a]
        BY <2>2, <4>1 DEF Principal
      <4>3. pendingUnstake[a].availableAt <= now
        <5>1. pendingUnstake[a].availableAt \in Nat /\ now \in Nat
          BY <1>1, <2>1 DEF VaultInv, VaultTypeOK, ExitType
        <5>2. QED
          BY <3>1, <3>3, <5>1
      <4>4. vaultBalance' = vaultBalance - pendingUnstake[a].amount
        BY <3>1, <3>3
      <4>5. /\ pendingUnstake[a].amount = Principal(a) - Principal(a)'
            /\ pendingUnstake[a].amount = vaultBalance - vaultBalance'
        BY <2>1, <2>2, <4>2, <4>4
      <4>6. QED
        BY <4>1, <4>3, <4>5 DEF LeavesMatured
    <3>4. CASE b # a
      BY <2>1, <2>4, <3>1, <3>4
    <3>5. QED
      BY <3>3, <3>4
  <2>9. CASE UNCHANGED principalVars
    BY <2>4, <2>9 DEF principalVars
  <2>10. CASE \E b \in Accounts, until \in LockTimes : ExtendLock(b, until)
    BY <2>9, <2>10 DEF ExtendLock
  <2>11. CASE VaultGovernance
    BY <2>9, <2>11 DEF VaultGovernance, PauseNewStaking, ResumeNewStaking, EnableEmergencyExit,
                       DisableEmergencyExit, SetCooldownDuration
  <2>12. CASE Tick
    BY <2>9, <2>12 DEF Tick
  <2>13. CASE UNCHANGED vaultVars
    BY <2>9, <2>13 DEF vaultVars
  <2>14. QED
    BY <1>1, <2>5, <2>6, <2>7, <2>8, <2>10, <2>11, <2>12, <2>13 DEF VaultNext
<1>2. VaultInv /\ [VaultNext]_vaultVars => [\A a \in Accounts : LeavesMatured(a)]_vaultVars
  BY <1>1
<1>3. QED
  BY <1>2, VaultInitOK, VaultStepOK, PTL DEF VaultSpec, PrincipalLeavesMatured

-----------------------------------------------------------------------------
(* The composition with the reward module.                                 *)

(* The reward module never keeps the vault from being the vault: every     *)
(* step of the two contracts together is one of the vault alone, or leaves *)
(* it untouched.                                                           *)
LEMMA StepsOfTheVault == [Next]_vars => [VaultNext]_vaultVars
<1> SUFFICES ASSUME [Next]_vars PROVE [VaultNext]_vaultVars
  OBVIOUS
<1>1. CASE StakerStep
  BY <1>1 DEF StakerStep, StakeChecked, RequestChecked, CancelChecked, VaultNext
<1>2. CASE PlainVaultStep
  BY <1>2 DEF PlainVaultStep, VaultNext
<1>3. CASE InitializeRewardAccounting
  BY <1>3 DEF InitializeRewardAccounting
<1>4. CASE \E n \in Fundings, d \in Durations : FundRewards(n, d)
  BY <1>4 DEF FundRewards
<1>5. CASE \E a \in Accounts : Claim(a)
  BY <1>5 DEF Claim
<1>6. CASE \E p \in BOOLEAN : SetFundingPaused(p)
  BY <1>6 DEF SetFundingPaused
<1>7. CASE UNCHANGED vars
  BY <1>7 DEF vars
<1>8. QED
  BY <1>1, <1>2, <1>3, <1>4, <1>5, <1>6, <1>7 DEF Next

(* Staking implements StakingVault, so the vault's theorems hold of the    *)
(* composition: reward claims cannot consume staking principal.            *)
THEOREM ImplementsVault == Spec => VaultSpec
<1>1. Init => VaultInit
  BY DEF Init
<1>2. QED
  BY <1>1, StepsOfTheVault, PTL DEF Spec, VaultSpec

-----------------------------------------------------------------------------
(* Rewards.  The invariant measures every claim in units of 1/RAY, so that *)
(* nothing is rounded: Owed(a) is what a checkpoint at the stored          *)
(* rewardPerToken would credit, and the rest of the schedule is counted    *)
(* from the last update on.                                                *)

ScheduleType == [rate : Nat, finish : Nat, updated : Nat]
ReserveType == [held : Nat, funded : Nat, claimed : Nat]

RewardTypeOK ==
  /\ bound \in BOOLEAN /\ fundingPaused \in BOOLEAN
  /\ schedule \in ScheduleType
  /\ rewardPerTokenStored \in Nat
  /\ userRewardPerTokenPaid \in [Accounts -> Nat]
  /\ rewards \in [Accounts -> Nat]
  /\ reserve \in ReserveType
  /\ rewardBalance \in Nat

PaidOK == \A a \in Accounts : userRewardPerTokenPaid[a] <= rewardPerTokenStored

ClockOK == schedule.updated <= schedule.finish /\ schedule.updated <= now

NothingYet == reserve.funded = 0 => schedule.rate = 0 /\ rewardPerTokenStored = 0

OwedAt(r) == [a \in Accounts |->
                rewards[a] * RAY + stakedBalance[a] * (r - userRewardPerTokenPaid[a])]

Unvested == (schedule.finish - schedule.updated) * schedule.rate

Solvent ==
  /\ TotalOf(OwedAt(rewardPerTokenStored)) + RAY * Unvested <= RAY * reserve.held
  /\ reserve.held = reserve.funded - reserve.claimed
  /\ rewardBalance >= reserve.held

AccrualInv == VaultInv /\ RewardTypeOK /\ PaidOK /\ ClockOK

(* What an update moves: the clock of the schedule, not past its end, and  *)
(* rewardPerToken, by no more than the time that passed pays for.          *)
LEMMA UpdateFacts ==
  ASSUME AccrualInv
  PROVE  /\ RewardPerToken \in Nat
         /\ rewardPerTokenStored <= RewardPerToken
         /\ LastTimeRewardApplicable \in Nat
         /\ schedule.updated <= LastTimeRewardApplicable
         /\ LastTimeRewardApplicable <= schedule.finish
         /\ LastTimeRewardApplicable <= now
         /\ Remaining \in Nat
         /\ Remaining = (schedule.finish - LastTimeRewardApplicable) * schedule.rate
         /\ (RewardPerToken - rewardPerTokenStored) * totalStaked
              <= ((LastTimeRewardApplicable - schedule.updated) * schedule.rate) * RAY
         /\ schedule.rate = 0 => RewardPerToken = rewardPerTokenStored
<1> DEFINE fin == schedule.finish
<1> DEFINE upd == schedule.updated
<1> DEFINE rate == schedule.rate
<1> DEFINE lta == LastTimeRewardApplicable
<1> DEFINE st == rewardPerTokenStored
<1>1. /\ fin \in Nat /\ upd \in Nat /\ rate \in Nat /\ now \in Nat /\ st \in Nat
      /\ totalStaked \in Nat /\ upd <= fin /\ upd <= now /\ RAY \in Nat \ {0}
  BY RewardAssumption DEF AccrualInv, VaultInv, VaultTypeOK, RewardTypeOK, ScheduleType, ClockOK
<1>2. lta = IF now < fin THEN now ELSE fin
  BY DEF LastTimeRewardApplicable
<1>3. Remaining = IF now < fin THEN (fin - now) * rate ELSE 0
  BY DEF Remaining
<1>4. RewardPerToken = IF totalStaked = 0 \/ lta <= upd THEN st
                       ELSE st + ((lta - upd) * rate * RAY) \div totalStaked
  BY DEF RewardPerToken
<1> HIDE DEF fin, upd, rate, lta, st
<1>5. lta \in Nat /\ upd <= lta /\ lta <= fin /\ lta <= now
  BY <1>1, <1>2
<1>6. Remaining \in Nat /\ Remaining = (fin - lta) * rate
  <2>1. CASE now < fin
    <3>1. fin - now \in Nat /\ lta = now /\ Remaining = (fin - now) * rate
      BY <1>1, <1>2, <1>3, <2>1
    <3>2. (fin - now) * rate \in Nat
      BY <1>1, <3>1, MulNat
    <3>3. QED
      BY <3>1, <3>2
  <2>2. CASE ~(now < fin)
    <3>1. lta = fin /\ Remaining = 0
      BY <1>2, <1>3, <2>2
    <3>2. fin - lta = 0
      BY <1>1, <3>1
    <3>3. (fin - lta) * rate = 0
      BY <1>1, <3>2
    <3>4. QED
      BY <3>1, <3>3
  <2>3. QED
    BY <2>1, <2>2
<1> DEFINE paid == (lta - upd) * rate
<1>7. paid \in Nat /\ paid * RAY \in Nat
  BY <1>1, <1>5, MulNat
<1>8. /\ RewardPerToken \in Nat /\ st <= RewardPerToken
      /\ (RewardPerToken - st) * totalStaked <= paid * RAY
      /\ rate = 0 => RewardPerToken = st
  <2>1. CASE totalStaked = 0 \/ lta <= upd
    <3>1. RewardPerToken = st
      BY <1>4, <2>1
    <3> HIDE DEF paid
    <3>2. (RewardPerToken - st) * totalStaked = 0
      BY <1>1, <3>1
    <3>3. QED
      BY <1>1, <1>7, <3>1, <3>2
  <2>2. CASE ~(totalStaked = 0 \/ lta <= upd)
    <3> DEFINE q == (paid * RAY) \div totalStaked
    <3>1. RewardPerToken = st + q
      BY <1>4, <2>2
    <3> HIDE DEF paid
    <3>2. q \in Nat /\ q * totalStaked <= paid * RAY
      <4> DEFINE num == paid * RAY
      <4>1. num \in Nat /\ totalStaked \in Nat \ {0}
        BY <1>1, <1>7, <2>2
      <4> HIDE DEF num
      <4>2. num \div totalStaked \in Nat /\ (num \div totalStaked) * totalStaked <= num
        BY <4>1
      <4>3. QED
        BY <4>2 DEF num
    <3>3. rate = 0 => q = 0
      <4>1. SUFFICES ASSUME rate = 0 PROVE q = 0
        OBVIOUS
      <4>2. paid = 0
        BY <1>1, <1>5, <4>1 DEF paid
      <4>3. paid * RAY = 0
        BY <1>1, <4>2
      <4>4. QED
        BY <1>1, <2>2, <4>3
    <3> HIDE DEF q
    <3>4. RewardPerToken - st = q
      BY <1>1, <3>1, <3>2
    <3>5. QED
      BY <1>1, <3>1, <3>2, <3>3, <3>4
  <2>3. QED
    BY <2>1, <2>2
<1>9. QED
  BY <1>5, <1>6, <1>8 DEF paid, fin, upd, rate, lta, st

(* What an account has earned is a natural, and no more than the exact     *)
(* claim it rounds down.                                                   *)
LEMMA EarnedFacts ==
  ASSUME AccrualInv, NEW a \in Accounts
  PROVE  /\ Earned(a) \in Nat
         /\ rewards[a] \in Nat /\ stakedBalance[a] \in Nat
         /\ userRewardPerTokenPaid[a] \in Nat
         /\ RewardPerToken - userRewardPerTokenPaid[a] \in Nat
         /\ OwedAt(RewardPerToken)[a] \in Nat
         /\ Earned(a) * RAY <= OwedAt(RewardPerToken)[a]
<1> DEFINE p == userRewardPerTokenPaid[a]
<1> DEFINE st == stakedBalance[a]
<1> DEFINE rw == rewards[a]
<1> DEFINE d == RewardPerToken - p
<1>1. p \in Nat /\ st \in Nat /\ rw \in Nat /\ RAY \in Nat \ {0}
      /\ rewardPerTokenStored \in Nat /\ p <= rewardPerTokenStored
  BY RewardAssumption DEF AccrualInv, VaultInv, VaultTypeOK, RewardTypeOK, PaidOK
<1>2. RewardPerToken \in Nat /\ rewardPerTokenStored <= RewardPerToken
  BY UpdateFacts
<1>3. d \in Nat
  <2> HIDE DEF p
  <2>1. QED
    BY <1>1, <1>2
<1>4. Earned(a) = rw + (st * d) \div RAY /\ OwedAt(RewardPerToken)[a] = rw * RAY + st * d
  BY DEF Earned, Unsettled, OwedAt
<1> HIDE DEF p, st, rw, d
<1> DEFINE num == st * d
<1> DEFINE q == num \div RAY
<1>5. num \in Nat /\ rw * RAY \in Nat
  BY <1>1, <1>3, MulNat
<1>6. q \in Nat /\ q * RAY <= num
  <2> HIDE DEF num
  <2>1. QED
    BY <1>1, <1>5
<1>7. (rw + q) * RAY = rw * RAY + q * RAY
  <2> HIDE DEF q
  <2>1. QED
    BY <1>1, <1>6
<1>8. q * RAY \in Nat
  BY <1>1, <1>6, MulNat
<1>9. /\ rw + q \in Nat
      /\ rw * RAY + num \in Nat
      /\ (rw + q) * RAY <= rw * RAY + num
  <2> DEFINE x == rw * RAY
  <2> DEFINE y == q * RAY
  <2>1. x \in Nat /\ y \in Nat /\ y <= num /\ (rw + q) * RAY = x + y
    BY <1>5, <1>6, <1>7, <1>8
  <2> HIDE DEF x, y, q, num
  <2>2. x + num \in Nat /\ x + y <= x + num
    BY <1>5, <2>1
  <2>3. QED
    BY <1>1, <1>6, <2>1, <2>2 DEF x
<1>10. QED
  BY <1>1, <1>3, <1>4, <1>9 DEF p, st, rw, d

(* The schedule an update leaves.                                          *)
LEMMA UpdatedFacts ==
  ASSUME AccrualInv
  PROVE  /\ Updated \in ScheduleType
         /\ Updated.rate = schedule.rate
         /\ Updated.finish = schedule.finish
         /\ Updated.updated = LastTimeRewardApplicable
<1>1. schedule \in ScheduleType /\ LastTimeRewardApplicable \in Nat
  BY UpdateFacts DEF AccrualInv, RewardTypeOK
<1>2. QED
  BY <1>1 DEF Updated, ScheduleType

LEMMA AccrualInitOK == Init => AccrualInv /\ NothingYet /\ Solvent
<1> SUFFICES ASSUME Init PROVE AccrualInv /\ NothingYet /\ Solvent
  OBVIOUS
<1>1. VaultInv
  BY VaultInitOK DEF Init
<1>2. RewardTypeOK /\ PaidOK /\ NothingYet
  <2>1. bound \in BOOLEAN /\ fundingPaused \in BOOLEAN
    BY DEF Init
  <2>2. schedule \in ScheduleType /\ reserve \in ReserveType
    BY DEF Init, ScheduleType, ReserveType
  <2>3. RewardTypeOK
    BY <2>1, <2>2 DEF Init, RewardTypeOK
  <2>4. PaidOK
    BY DEF Init, PaidOK
  <2>5. NothingYet
    BY DEF Init, NothingYet
  <2>6. QED
    BY <2>3, <2>4, <2>5
<1>3. ClockOK
  BY DEF Init, VaultInit, ClockOK
<1>4. TotalOf(OwedAt(rewardPerTokenStored)) = 0
  <2>1. ASSUME NEW a \in Accounts
        PROVE  rewards[a] * RAY + stakedBalance[a] * (rewardPerTokenStored - userRewardPerTokenPaid[a]) = 0
    BY RewardAssumption DEF Init, VaultInit
  <2>2. OwedAt(rewardPerTokenStored) \in [Accounts -> Nat]
        /\ \A a \in Accounts : OwedAt(rewardPerTokenStored)[a] = 0
    BY <2>1 DEF OwedAt
  <2>3. QED
    BY <2>2, TotalOfNothing
<1>5. Unvested = 0 /\ RAY * 0 = 0
  BY RewardAssumption DEF Init, Unvested
<1>6. reserve.held = 0 /\ reserve.funded = 0 /\ reserve.claimed = 0 /\ rewardBalance = 0
  BY DEF Init
<1>7. Solvent
  BY <1>4, <1>5, <1>6 DEF Solvent
<1>8. QED
  BY <1>1, <1>2, <1>3, <1>7 DEF AccrualInv

(* A checkpoint of account a, or an update for nobody.                     *)
LEMMA UpdateKeeps ==
  ASSUME AccrualInv, NEW a \in Accounts, UpdateReward(a), VaultInv', now' = now,
         UNCHANGED <<bound, fundVars, fundingPaused>>
  PROVE  AccrualInv'
<1>1. /\ rewardPerTokenStored' = RewardPerToken
      /\ schedule' = Updated
      /\ rewards' = [rewards EXCEPT ![a] = Earned(a)]
      /\ userRewardPerTokenPaid' = [userRewardPerTokenPaid EXCEPT ![a] = RewardPerToken]
  BY DEF UpdateReward
<1>2. RewardTypeOK'
  BY <1>1, UpdateFacts, UpdatedFacts, EarnedFacts DEF AccrualInv, RewardTypeOK, fundVars
<1>3. PaidOK'
  <2>1. ASSUME NEW b \in Accounts PROVE userRewardPerTokenPaid'[b] <= rewardPerTokenStored'
    <3>1. /\ userRewardPerTokenPaid[b] \in Nat /\ userRewardPerTokenPaid[b] <= rewardPerTokenStored
          /\ rewardPerTokenStored \in Nat /\ RewardPerToken \in Nat
          /\ rewardPerTokenStored <= RewardPerToken
      BY UpdateFacts, EarnedFacts DEF AccrualInv, PaidOK, RewardTypeOK
    <3>2. userRewardPerTokenPaid'[b] = IF b = a THEN RewardPerToken ELSE userRewardPerTokenPaid[b]
      BY <1>1 DEF AccrualInv, RewardTypeOK
    <3>3. QED
      BY <1>1, <3>1, <3>2
  <2>2. QED
    BY <2>1 DEF PaidOK
<1>4. ClockOK'
  BY <1>1, UpdateFacts, UpdatedFacts DEF ClockOK
<1>5. QED
  BY <1>2, <1>3, <1>4 DEF AccrualInv

(* A step that leaves the accrual alone.                                   *)
LEMMA NoUpdateKeeps ==
  ASSUME AccrualInv, UNCHANGED accrualVars, VaultInv', now' >= now,
         bound' \in BOOLEAN, fundingPaused' \in BOOLEAN, UNCHANGED fundVars
  PROVE  AccrualInv'
<1>1. schedule.updated \in Nat /\ now \in Nat /\ now' \in Nat
  BY DEF AccrualInv, VaultInv, VaultTypeOK, RewardTypeOK, ScheduleType
<1>2. RewardTypeOK' /\ PaidOK'
  BY DEF AccrualInv, RewardTypeOK, PaidOK, accrualVars, fundVars
<1>3. ClockOK'
  BY <1>1 DEF AccrualInv, ClockOK, accrualVars
<1>4. QED
  BY <1>2, <1>3 DEF AccrualInv

LEMMA FundKeeps ==
  ASSUME AccrualInv, NEW n \in Fundings, NEW d \in Durations, FundRewards(n, d), VaultInv'
  PROVE  AccrualInv'
<1>1. n \in Nat /\ d \in Nat \ {0} /\ now \in Nat
  BY RewardAssumption DEF AccrualInv, VaultInv, VaultTypeOK
<1>2. NewRate(n, d) \in Nat
  BY RewardAssumption DEF FundRewards
<1>3. /\ rewardPerTokenStored' = RewardPerToken
      /\ schedule' = [rate |-> NewRate(n, d), finish |-> now + d, updated |-> now]
      /\ reserve' = [reserve EXCEPT !.held = reserve.held + n, !.funded = reserve.funded + n]
      /\ rewardBalance' = rewardBalance + n
      /\ UNCHANGED <<userRewardPerTokenPaid, rewards, bound, fundingPaused, now>>
  BY DEF FundRewards, vaultVars
<1>4. reserve \in ReserveType /\ rewardBalance \in Nat
  BY DEF AccrualInv, RewardTypeOK
<1>5. reserve' \in ReserveType /\ rewardBalance' \in Nat
  <2> DEFINE h == reserve.held
  <2> DEFINE f == reserve.funded
  <2>1. h \in Nat /\ f \in Nat /\ reserve.claimed \in Nat
    BY <1>4 DEF ReserveType
  <2>2. reserve' = [held |-> h + n, funded |-> f + n, claimed |-> reserve.claimed]
        /\ rewardBalance' = rewardBalance + n
    BY <1>3, <1>4 DEF ReserveType
  <2> HIDE DEF h, f
  <2>3. h + n \in Nat /\ f + n \in Nat /\ rewardBalance + n \in Nat
    BY <1>1, <1>4, <2>1
  <2>4. QED
    BY <2>1, <2>2, <2>3 DEF ReserveType
<1>6. schedule' \in ScheduleType
  BY <1>1, <1>2, <1>3 DEF ScheduleType
<1>7. RewardTypeOK'
  BY <1>3, <1>5, <1>6, UpdateFacts DEF AccrualInv, RewardTypeOK
<1>8. PaidOK'
  <2>1. ASSUME NEW b \in Accounts PROVE userRewardPerTokenPaid'[b] <= rewardPerTokenStored'
    <3>1. /\ userRewardPerTokenPaid[b] \in Nat /\ userRewardPerTokenPaid[b] <= rewardPerTokenStored
          /\ rewardPerTokenStored \in Nat /\ RewardPerToken \in Nat
          /\ rewardPerTokenStored <= RewardPerToken
      BY UpdateFacts, EarnedFacts DEF AccrualInv, PaidOK, RewardTypeOK
    <3>2. QED
      BY <1>3, <3>1
  <2>2. QED
    BY <2>1 DEF PaidOK
<1>9. ClockOK'
  BY <1>1, <1>3 DEF ClockOK
<1>10. QED
  BY <1>7, <1>8, <1>9 DEF AccrualInv

LEMMA ClaimKeeps ==
  ASSUME AccrualInv, NEW a \in Accounts, Claim(a), VaultInv'
  PROVE  AccrualInv'
<1>1. /\ Earned(a) \in Nat /\ Earned(a) <= reserve.held /\ Earned(a) <= rewardBalance
      /\ rewardPerTokenStored' = RewardPerToken
      /\ schedule' = Updated
      /\ rewards' = [rewards EXCEPT ![a] = 0]
      /\ userRewardPerTokenPaid' = [userRewardPerTokenPaid EXCEPT ![a] = RewardPerToken]
      /\ reserve' = [reserve EXCEPT !.held = reserve.held - Earned(a),
                                    !.claimed = reserve.claimed + Earned(a)]
      /\ rewardBalance' = rewardBalance - Earned(a)
      /\ UNCHANGED <<bound, fundingPaused, now>>
  <2>1. reserve.held \in Nat /\ Earned(a) \in 1 .. reserve.held
    BY DEF AccrualInv, RewardTypeOK, ReserveType, Claim
  <2>2. Earned(a) \in Nat /\ Earned(a) <= reserve.held
    BY <2>1
  <2>3. QED
    BY <2>2 DEF Claim, vaultVars
<1>2. reserve \in ReserveType /\ rewardBalance \in Nat
  BY DEF AccrualInv, RewardTypeOK
<1>3. reserve' \in ReserveType /\ rewardBalance' \in Nat
  <2> DEFINE e == Earned(a)
  <2> DEFINE h == reserve.held
  <2> DEFINE c == reserve.claimed
  <2>1. h \in Nat /\ c \in Nat /\ reserve.funded \in Nat /\ e \in Nat /\ e <= h /\ e <= rewardBalance
    BY <1>1, <1>2 DEF ReserveType
  <2>2. reserve' = [held |-> h - e, funded |-> reserve.funded, claimed |-> c + e]
        /\ rewardBalance' = rewardBalance - e
    BY <1>1, <1>2 DEF ReserveType
  <2> HIDE DEF e, h, c
  <2>3. h - e \in Nat /\ c + e \in Nat /\ rewardBalance - e \in Nat
    BY <1>2, <2>1
  <2>4. QED
    BY <2>1, <2>2, <2>3 DEF ReserveType
<1>4. RewardTypeOK'
  BY <1>1, <1>3, UpdateFacts, UpdatedFacts DEF AccrualInv, RewardTypeOK
<1>5. PaidOK'
  <2>1. ASSUME NEW b \in Accounts PROVE userRewardPerTokenPaid'[b] <= rewardPerTokenStored'
    <3>1. /\ userRewardPerTokenPaid[b] \in Nat /\ userRewardPerTokenPaid[b] <= rewardPerTokenStored
          /\ rewardPerTokenStored \in Nat /\ RewardPerToken \in Nat
          /\ rewardPerTokenStored <= RewardPerToken
      BY UpdateFacts, EarnedFacts DEF AccrualInv, PaidOK, RewardTypeOK
    <3>2. userRewardPerTokenPaid'[b] = IF b = a THEN RewardPerToken ELSE userRewardPerTokenPaid[b]
      BY <1>1 DEF AccrualInv, RewardTypeOK
    <3>3. QED
      BY <1>1, <3>1, <3>2
  <2>2. QED
    BY <2>1 DEF PaidOK
<1>6. ClockOK'
  BY <1>1, UpdateFacts, UpdatedFacts DEF ClockOK
<1>7. QED
  BY <1>4, <1>5, <1>6 DEF AccrualInv

LEMMA AccrualStepOK == AccrualInv /\ [Next]_vars => AccrualInv'
<1> SUFFICES ASSUME AccrualInv, [Next]_vars PROVE AccrualInv'
  OBVIOUS
<1>1. VaultInv'
  BY StepsOfTheVault, VaultStepOK DEF AccrualInv
<1>2. now \in Nat /\ bound \in BOOLEAN /\ fundingPaused \in BOOLEAN
  BY DEF AccrualInv, VaultInv, VaultTypeOK, RewardTypeOK
<1>3. ASSUME NEW a \in Accounts, VaultCheckpoint(a), now' = now PROVE AccrualInv'
  <2>1. CASE bound
    BY <1>1, <1>3, <2>1, UpdateKeeps DEF VaultCheckpoint
  <2>2. CASE ~bound
    <3>1. now' >= now
      BY <1>2, <1>3
    <3>2. UNCHANGED <<accrualVars, bound, fundVars, fundingPaused>>
      BY <1>3, <2>2 DEF VaultCheckpoint
    <3>3. QED
      BY <1>1, <1>2, <3>1, <3>2, NoUpdateKeeps
  <2>3. QED
    BY <2>1, <2>2
<1>4. CASE StakerStep
  BY <1>3, <1>4 DEF StakerStep, StakeChecked, RequestChecked, CancelChecked,
                    Stake, RequestUnstake, CancelUnstake
<1>5. ASSUME now' >= now, UNCHANGED <<accrualVars, fundVars>>,
             bound' \in BOOLEAN, fundingPaused' \in BOOLEAN
      PROVE  AccrualInv'
  BY <1>1, <1>5, NoUpdateKeeps
<1>6. CASE PlainVaultStep
  <2>1. now' = now \/ now' = now + 1
    BY <1>6 DEF PlainVaultStep, CompleteUnstake, ExtendLock, VaultGovernance, PauseNewStaking,
                ResumeNewStaking, EnableEmergencyExit, DisableEmergencyExit, SetCooldownDuration, Tick
  <2>2. now' >= now
    BY <1>2, <2>1
  <2>3. UNCHANGED rewardVars
    BY <1>6 DEF PlainVaultStep
  <2>4. QED
    BY <1>2, <1>5, <2>2, <2>3 DEF rewardVars
<1>7. CASE InitializeRewardAccounting
  BY <1>2, <1>5, <1>7 DEF InitializeRewardAccounting, vaultVars
<1>8. ASSUME NEW n \in Fundings, NEW d \in Durations, FundRewards(n, d) PROVE AccrualInv'
  BY <1>1, <1>8, FundKeeps
<1>9. ASSUME NEW a \in Accounts, Claim(a) PROVE AccrualInv'
  BY <1>1, <1>9, ClaimKeeps
<1>10. ASSUME NEW q \in BOOLEAN, SetFundingPaused(q) PROVE AccrualInv'
  BY <1>2, <1>5, <1>10 DEF SetFundingPaused, vaultVars
<1>11. CASE UNCHANGED vars
  BY <1>2, <1>5, <1>11 DEF vars, rewardVars, vaultVars
<1>12. QED
  BY <1>4, <1>6, <1>7, <1>8, <1>9, <1>10, <1>11 DEF Next

(* Types of the composition, for all parameters: no checked subtraction of *)
(* a checkpoint, claim or funding underflows.                              *)
THEOREM StakingTypeCorrect == Spec => []TypeOK
<1>1. AccrualInv => TypeOK
  BY DEF AccrualInv, VaultInv, RewardTypeOK, ScheduleType, ReserveType, TypeOK
<1>2. QED
  BY <1>1, AccrualInitOK, AccrualStepOK, PTL DEF Spec

-----------------------------------------------------------------------------
(* Solvency.                                                               *)

(* The exact claims are naturals, at the stored and at the current         *)
(* rewardPerToken.                                                         *)
LEMMA OwedType ==
  ASSUME AccrualInv
  PROVE  /\ OwedAt(rewardPerTokenStored) \in [Accounts -> Nat]
         /\ OwedAt(RewardPerToken) \in [Accounts -> Nat]
<1>1. ASSUME NEW a \in Accounts
      PROVE  /\ rewards[a] * RAY + stakedBalance[a] * (rewardPerTokenStored - userRewardPerTokenPaid[a]) \in Nat
             /\ rewards[a] * RAY + stakedBalance[a] * (RewardPerToken - userRewardPerTokenPaid[a]) \in Nat
  <2> DEFINE d == rewardPerTokenStored - userRewardPerTokenPaid[a]
  <2>1. d \in Nat /\ rewards[a] \in Nat /\ stakedBalance[a] \in Nat /\ RAY \in Nat
    BY RewardAssumption DEF AccrualInv, VaultInv, VaultTypeOK, RewardTypeOK, PaidOK
  <2> HIDE DEF d
  <2>2. rewards[a] * RAY \in Nat /\ stakedBalance[a] * d \in Nat
    BY <2>1, MulNat
  <2>3. rewards[a] * RAY + stakedBalance[a] * d \in Nat
    BY <2>2
  <2>4. rewards[a] * RAY + stakedBalance[a] * (RewardPerToken - userRewardPerTokenPaid[a]) \in Nat
    BY EarnedFacts DEF OwedAt
  <2>5. QED
    BY <2>3, <2>4 DEF d
<1>2. QED
  BY <1>1 DEF OwedAt

(* Time pays for itself: once the accrual is brought up to now, what       *)
(* everybody may claim and what the schedule still pays is covered.        *)
LEMMA AccrualPays ==
  ASSUME AccrualInv, Solvent
  PROVE  TotalOf(OwedAt(RewardPerToken)) + RAY * Remaining <= RAY * reserve.held
<1> DEFINE st == rewardPerTokenStored
<1> DEFINE D == RewardPerToken - st
<1> DEFINE f == OwedAt(st)
<1> DEFINE g == [a \in Accounts |-> stakedBalance[a] * D]
<1> DEFINE x == LastTimeRewardApplicable - schedule.updated
<1> DEFINE y == schedule.finish - LastTimeRewardApplicable
<1> DEFINE rate == schedule.rate
<1> DEFINE held == reserve.held
<1>1. /\ st \in Nat /\ D \in Nat /\ RAY \in Nat \ {0} /\ totalStaked \in Nat
      /\ x \in Nat /\ y \in Nat /\ rate \in Nat /\ held \in Nat
      /\ schedule.finish - schedule.updated = x + y
      /\ D * totalStaked <= (x * rate) * RAY
      /\ Remaining = y * rate
  <2>1. /\ RewardPerToken \in Nat /\ rewardPerTokenStored <= RewardPerToken
        /\ LastTimeRewardApplicable \in Nat
        /\ schedule.updated <= LastTimeRewardApplicable
        /\ LastTimeRewardApplicable <= schedule.finish
        /\ Remaining = (schedule.finish - LastTimeRewardApplicable) * schedule.rate
        /\ (RewardPerToken - rewardPerTokenStored) * totalStaked
              <= ((LastTimeRewardApplicable - schedule.updated) * schedule.rate) * RAY
    BY UpdateFacts
  <2>2. /\ st \in Nat /\ totalStaked \in Nat /\ rate \in Nat /\ held \in Nat
        /\ schedule.finish \in Nat /\ schedule.updated \in Nat
    BY DEF AccrualInv, RewardTypeOK, ScheduleType, ReserveType, VaultInv, VaultTypeOK
  <2>3. x \in Nat /\ y \in Nat /\ D \in Nat /\ schedule.finish - schedule.updated = x + y
    <3> DEFINE u == schedule.updated
    <3> DEFINE fin == schedule.finish
    <3>1. u \in Nat /\ fin \in Nat /\ u <= LastTimeRewardApplicable /\ LastTimeRewardApplicable <= fin
      BY <2>1, <2>2
    <3> HIDE DEF u, fin
    <3>2. LastTimeRewardApplicable - u \in Nat /\ fin - LastTimeRewardApplicable \in Nat
          /\ fin - u = (LastTimeRewardApplicable - u) + (fin - LastTimeRewardApplicable)
      BY <2>1, <3>1
    <3>3. D \in Nat
      BY <2>1, <2>2
    <3>4. QED
      BY <3>2, <3>3 DEF u, fin
  <2>4. QED
    BY <2>1, <2>2, <2>3, RewardAssumption
<1>2. f \in [Accounts -> Nat] /\ OwedAt(RewardPerToken) \in [Accounts -> Nat]
  BY OwedType
<1>3. IsFiniteSet(Accounts) /\ stakedBalance \in [Accounts -> Nat]
      /\ totalStaked = TotalOf(stakedBalance)
  BY PrincipalSums DEF AccrualInv
<1>4. g \in [Accounts -> Nat] /\ TotalOf(g) = totalStaked * D
  <2> HIDE DEF D
  <2>1. \A a \in Accounts : stakedBalance[a] * D \in Nat
    BY <1>1, <1>3, MulNat
  <2>2. TotalOf([a \in Accounts |-> stakedBalance[a] * D]) = TotalOf(stakedBalance) * D
    BY <1>1, <1>3, TotalScale
  <2>3. QED
    BY <1>3, <2>1, <2>2
<1>5. OwedAt(RewardPerToken) = [a \in Accounts |-> f[a] + g[a]]
  <2>1. ASSUME NEW a \in Accounts PROVE OwedAt(RewardPerToken)[a] = f[a] + g[a]
    <3> DEFINE p == userRewardPerTokenPaid[a]
    <3> DEFINE s == stakedBalance[a]
    <3> DEFINE w == rewards[a] * RAY
    <3>1. p \in Nat /\ s \in Nat /\ w \in Nat /\ p <= st
      BY <1>1, EarnedFacts, MulNat DEF AccrualInv, PaidOK
    <3>2. OwedAt(RewardPerToken)[a] = w + s * (RewardPerToken - p)
      BY DEF OwedAt
    <3>3. f[a] = w + s * (st - p) /\ g[a] = s * D
      BY DEF OwedAt
    <3>4. RewardPerToken - p = (st - p) + D /\ st - p \in Nat
      <4>1. RewardPerToken \in Nat
        BY UpdateFacts
      <4> HIDE DEF p
      <4>2. QED
        BY <1>1, <3>1, <4>1
    <3> DEFINE z == st - p
    <3> HIDE DEF p, s, w, D, f, g, z, st
    <3>5. s * (z + D) = s * z + s * D
      BY <1>1, <3>1, <3>4 DEF z
    <3>6. s * z \in Nat /\ s * D \in Nat
      BY <1>1, <3>1, <3>4, MulNat DEF z
    <3>7. f[a] = w + s * z /\ OwedAt(RewardPerToken)[a] = w + s * (z + D)
      BY <3>2, <3>3, <3>4 DEF z
    <3>8. QED
      BY <3>1, <3>3, <3>5, <3>6, <3>7
  <2> HIDE DEF f, g
  <2>2. QED
    BY <1>2, <2>1
<1>6. TotalOf(OwedAt(RewardPerToken)) = TotalOf(f) + totalStaked * D
  <2> HIDE DEF f, g
  <2>1. TotalOf([a \in Accounts |-> f[a] + g[a]]) = TotalOf(f) + TotalOf(g)
    BY <1>2, <1>3, <1>4, TotalAdd
  <2>2. QED
    BY <1>4, <1>5, <2>1
<1>7. TotalOf(f) + RAY * ((x + y) * rate) <= RAY * held
  <2>1. TotalOf(f) + RAY * Unvested <= RAY * held
    BY DEF Solvent
  <2>2. Unvested = (x + y) * rate
    BY <1>1 DEF Unvested
  <2> HIDE DEF f, x, y, rate, held
  <2>3. QED
    BY <2>1, <2>2
<1>8. TotalOf(f) \in Nat
  <2> HIDE DEF f
  <2>1. QED
    BY <1>2, <1>3, TotalIsNat
<1> HIDE DEF st, D, f, g, x, y, rate, held
<1> DEFINE xr == x * rate
<1> DEFINE yr == y * rate
<1>9. xr \in Nat /\ yr \in Nat /\ (x + y) * rate = xr + yr
  BY <1>1, MulNat
<1> HIDE DEF xr, yr
<1> DEFINE A == RAY * xr
<1> DEFINE B == RAY * yr
<1>10. A \in Nat /\ B \in Nat /\ RAY * (xr + yr) = A + B /\ xr * RAY = A
  BY <1>1, <1>9, MulNat
<1>11. totalStaked * D \in Nat /\ D * totalStaked = totalStaked * D
  BY <1>1, MulNat
<1>12. totalStaked * D <= A
  <2>1. D * totalStaked <= xr * RAY
    BY <1>1 DEF xr
  <2>2. QED
    BY <1>10, <1>11, <2>1
<1>13. TotalOf(f) + (A + B) <= RAY * held
  BY <1>7, <1>9, <1>10
<1> DEFINE N == totalStaked * D
<1> DEFINE M == RAY * held
<1>14. M \in Nat /\ N \in Nat /\ N <= A /\ TotalOf(f) + (A + B) <= M
  BY <1>1, <1>11, <1>12, <1>13, MulNat
<1> HIDE DEF A, B, N, M
<1>15. (TotalOf(f) + N) + B <= M
  BY <1>8, <1>10, <1>14
<1>16. RAY * Remaining = B
  BY <1>1 DEF B, yr
<1>17. QED
  BY <1>6, <1>15, <1>16 DEF N, M, held

(* The reserve covers what is earned, rounded down account by account.     *)
LEMMA SolventCovers ==
  ASSUME AccrualInv, Solvent
  PROVE  RewardsCovered
<1> DEFINE E == [a \in Accounts |-> Earned(a)]
<1> DEFINE G == OwedAt(RewardPerToken)
<1> DEFINE ER == [a \in Accounts |-> E[a] * RAY]
<1>1. IsFiniteSet(Accounts) /\ RAY \in Nat \ {0}
  BY VaultAssumption, RewardAssumption
<1>2. E \in [Accounts -> Nat]
  BY EarnedFacts
<1>3. G \in [Accounts -> Nat]
  BY OwedType
<1>4. ER \in [Accounts -> Nat] /\ \A a \in Accounts : ER[a] <= G[a]
  <2>1. \A a \in Accounts : Earned(a) * RAY \in Nat /\ Earned(a) * RAY <= G[a]
    BY <1>1, EarnedFacts, MulNat
  <2>2. QED
    BY <2>1
<1>5. TotalOf(ER) <= TotalOf(G)
  <2> HIDE DEF ER, G
  <2>1. QED
    BY <1>1, <1>3, <1>4, TotalMono
<1>6. TotalOf(ER) = TotalOf(E) * RAY
  <2> HIDE DEF E
  <2>1. QED
    BY <1>1, <1>2, TotalScale
<1>7. TotalOf(G) + RAY * Remaining <= RAY * reserve.held
  BY AccrualPays
<1>8. TotalOf(E) \in Nat /\ TotalOf(G) \in Nat
  <2> HIDE DEF E, G
  <2>1. QED
    BY <1>1, <1>2, <1>3, TotalIsNat
<1>9. Remaining \in Nat /\ reserve.held \in Nat
  BY UpdateFacts DEF AccrualInv, RewardTypeOK, ReserveType
<1>10. TotalOf(E) + Remaining <= reserve.held
  <2> DEFINE t == TotalOf(E)
  <2> DEFINE h == reserve.held
  <2> DEFINE r == Remaining
  <2> DEFINE q == TotalOf(G)
  <2>1. t \in Nat /\ h \in Nat /\ r \in Nat /\ q \in Nat /\ t * RAY <= q /\ q + RAY * r <= RAY * h
    BY <1>5, <1>6, <1>7, <1>8, <1>9
  <2> HIDE DEF t, h, r, q
  <2>2. t * RAY = RAY * t /\ RAY * (t + r) = RAY * t + RAY * r
    BY <1>1, <2>1
  <2>3. RAY * t \in Nat /\ RAY * r \in Nat /\ RAY * h \in Nat
    BY <1>1, <2>1, MulNat
  <2>4. RAY * (t + r) <= RAY * h
    <3> DEFINE a1 == RAY * t
    <3> DEFINE a2 == RAY * r
    <3> DEFINE a3 == RAY * h
    <3>1. a1 <= q /\ q + a2 <= a3 /\ a1 \in Nat /\ a2 \in Nat /\ a3 \in Nat
      BY <2>1, <2>2, <2>3
    <3> HIDE DEF a1, a2, a3
    <3>2. a1 + a2 <= a3
      BY <2>1, <3>1
    <3>3. QED
      BY <2>2, <3>2 DEF a1, a2, a3
  <2>5. t + r <= h
    <3>1. SUFFICES ASSUME h + 1 <= t + r PROVE FALSE
      BY <2>1
    <3>2. RAY * (h + 1) <= RAY * (t + r)
      BY <1>1, <2>1, <3>1, MulMono
    <3>3. RAY * (h + 1) = RAY * h + RAY
      BY <1>1, <2>1
    <3>4. RAY * (t + r) \in Nat
      BY <1>1, <2>1, MulNat
    <3> DEFINE a3 == RAY * h
    <3> DEFINE a4 == RAY * (t + r)
    <3>5. a3 + RAY <= a4 /\ a4 <= a3 /\ a3 \in Nat /\ a4 \in Nat
      BY <2>3, <2>4, <3>2, <3>3, <3>4
    <3> HIDE DEF a3, a4
    <3>6. QED
      BY <1>1, <3>5
  <2>6. QED
    BY <2>5 DEF t, r, h
<1>11. QED
  BY <1>10 DEF RewardsCovered, Solvent

(* The claims after a step, account by account.                            *)
LEMMA OwedNext ==
  ASSUME AccrualInv', NEW b \in Accounts
  PROVE  OwedAt(rewardPerTokenStored)'[b]
           = rewards'[b] * RAY + stakedBalance'[b] * (rewardPerTokenStored' - userRewardPerTokenPaid'[b])
BY DEF OwedAt

LEMMA OwedTypeNext ==
  ASSUME AccrualInv'
  PROVE  OwedAt(rewardPerTokenStored)' \in [Accounts -> Nat]
<1>1. ASSUME NEW b \in Accounts
      PROVE  OwedAt(rewardPerTokenStored)'[b] \in Nat
  <2> DEFINE p == userRewardPerTokenPaid'[b]
  <2> DEFINE s == rewardPerTokenStored'
  <2> DEFINE w == rewards'[b]
  <2> DEFINE k == stakedBalance'[b]
  <2>1. p \in Nat /\ s \in Nat /\ w \in Nat /\ k \in Nat /\ p <= s /\ RAY \in Nat
    BY RewardAssumption DEF AccrualInv, PaidOK, RewardTypeOK, VaultInv, VaultTypeOK
  <2>2. OwedAt(rewardPerTokenStored)'[b] = w * RAY + k * (s - p)
    BY OwedNext
  <2> HIDE DEF p, s, w, k
  <2>3. s - p \in Nat
    BY <2>1
  <2>4. w * RAY \in Nat /\ k * (s - p) \in Nat
    BY <2>1, <2>3, MulNat
  <2>5. QED
    BY <2>2, <2>4
<1>2. OwedAt(rewardPerTokenStored)' = [b \in Accounts |-> OwedAt(rewardPerTokenStored)'[b]]
  BY DEF OwedAt
<1>3. QED
  BY <1>1, <1>2

(* A step after which nobody may claim more than g gives, and the schedule *)
(* pays no more than r, leaves the module solvent if the reserve covers    *)
(* both.                                                                   *)
LEMMA SolventIf ==
  ASSUME AccrualInv', NEW g \in [Accounts -> Nat], NEW r \in Nat, NEW h \in Nat,
         \A b \in Accounts : OwedAt(rewardPerTokenStored)'[b] <= g[b],
         Unvested' <= r,
         reserve'.held = h,
         TotalOf(g) + RAY * r <= RAY * h,
         reserve'.held = reserve'.funded - reserve'.claimed,
         rewardBalance' >= reserve'.held
  PROVE  Solvent'
<1> DEFINE f == OwedAt(rewardPerTokenStored)'
<1> DEFINE u == Unvested'
<1>1. IsFiniteSet(Accounts) /\ RAY \in Nat
  BY VaultAssumption, RewardAssumption
<1>2. f \in [Accounts -> Nat]
  BY OwedTypeNext
<1>3. u \in Nat
  <2>1. schedule'.finish - schedule'.updated \in Nat /\ schedule'.rate \in Nat
    BY DEF AccrualInv, RewardTypeOK, ScheduleType, ClockOK
  <2>2. QED
    BY <2>1, MulNat DEF Unvested
<1> HIDE DEF f, u
<1>4. TotalOf(f) <= TotalOf(g) /\ TotalOf(f) \in Nat /\ TotalOf(g) \in Nat
  BY <1>1, <1>2, TotalMono, TotalIsNat DEF f
<1>5. RAY * u <= RAY * r /\ RAY * u \in Nat /\ RAY * r \in Nat /\ RAY * h \in Nat
  BY <1>1, <1>3, MulMono, MulNat DEF u
<1>6. TotalOf(f) + RAY * u <= RAY * h
  <2> DEFINE x == RAY * u
  <2> DEFINE y == RAY * r
  <2> DEFINE z == RAY * h
  <2>1. x <= y /\ x \in Nat /\ y \in Nat /\ z \in Nat /\ TotalOf(g) + y <= z
    BY <1>5
  <2> HIDE DEF x, y, z
  <2>2. TotalOf(f) + x <= z
    BY <1>4, <2>1
  <2>3. QED
    BY <2>2 DEF x, z
<1>7. QED
  BY <1>6 DEF Solvent, f, u

(* A checkpoint followed by a change of that account's stake alone.        *)
LEMMA CheckpointSolvent ==
  ASSUME AccrualInv, AccrualInv', Solvent, NEW a \in Accounts, UpdateReward(a),
         UNCHANGED fundVars,
         \A b \in Accounts \ {a} : stakedBalance'[b] = stakedBalance[b]
  PROVE  Solvent'
<1> DEFINE G == OwedAt(RewardPerToken)
<1>1. /\ rewardPerTokenStored' = RewardPerToken
      /\ schedule' = Updated
      /\ rewards' = [rewards EXCEPT ![a] = Earned(a)]
      /\ userRewardPerTokenPaid' = [userRewardPerTokenPaid EXCEPT ![a] = RewardPerToken]
  BY DEF UpdateReward
<1>2. ASSUME NEW b \in Accounts PROVE OwedAt(rewardPerTokenStored)'[b] <= G[b]
  <2>1. G[b] \in Nat /\ G[b] = rewards[b] * RAY + stakedBalance[b] * (RewardPerToken - userRewardPerTokenPaid[b])
    BY EarnedFacts DEF OwedAt
  <2>2. OwedAt(rewardPerTokenStored)'[b]
          = rewards'[b] * RAY + stakedBalance'[b] * (rewardPerTokenStored' - userRewardPerTokenPaid'[b])
    BY OwedNext
  <2>3. CASE b = a
    <3>1. rewards'[a] = Earned(a) /\ userRewardPerTokenPaid'[a] = RewardPerToken
      BY <1>1 DEF AccrualInv, RewardTypeOK
    <3>2. RewardPerToken - RewardPerToken = 0
      BY UpdateFacts
    <3>3. stakedBalance'[a] * 0 = 0
      BY EarnedFacts DEF AccrualInv, VaultInv, VaultTypeOK
    <3>4. OwedAt(rewardPerTokenStored)'[a] = Earned(a) * RAY + 0
      BY <1>1, <2>2, <2>3, <3>1, <3>2, <3>3
    <3>5. Earned(a) * RAY \in Nat /\ Earned(a) * RAY <= G[a]
      BY EarnedFacts, MulNat, RewardAssumption
    <3>6. QED
      BY <2>3, <3>4, <3>5
  <2>4. CASE b # a
    <3>1. rewards'[b] = rewards[b] /\ userRewardPerTokenPaid'[b] = userRewardPerTokenPaid[b]
      BY <1>1, <2>4 DEF AccrualInv, RewardTypeOK
    <3>2. OwedAt(rewardPerTokenStored)'[b] = G[b]
      BY <1>1, <2>1, <2>2, <2>4, <3>1
    <3>3. QED
      BY <2>1, <3>2
  <2>5. QED
    BY <2>3, <2>4
<1>3. G \in [Accounts -> Nat] /\ Remaining \in Nat /\ reserve.held \in Nat
  BY OwedType, UpdateFacts DEF AccrualInv, RewardTypeOK, ReserveType
<1>4. Unvested' = Remaining
  BY <1>1, UpdateFacts, UpdatedFacts DEF Unvested
<1>5. TotalOf(G) + RAY * Remaining <= RAY * reserve.held
  BY AccrualPays
<1>6. /\ reserve' = reserve /\ rewardBalance' = rewardBalance
      /\ reserve.held = reserve.funded - reserve.claimed /\ rewardBalance >= reserve.held
  BY DEF fundVars, Solvent
<1>7. Unvested' <= Remaining
  BY <1>3, <1>4
<1> HIDE DEF G
<1>8. QED
  BY <1>2, <1>3, <1>5, <1>6, <1>7, SolventIf

(* A step without a checkpoint, in which the stakes stand or nothing has   *)
(* accrued yet.                                                            *)
LEMMA QuietSolvent ==
  ASSUME AccrualInv, AccrualInv', Solvent, UNCHANGED <<accrualVars, fundVars>>,
         UNCHANGED stakedBalance \/ rewardPerTokenStored = 0
  PROVE  Solvent'
<1>1. ASSUME NEW b \in Accounts
      PROVE  OwedAt(rewardPerTokenStored)'[b] = OwedAt(rewardPerTokenStored)[b]
  <2>1. OwedAt(rewardPerTokenStored)'[b]
          = rewards'[b] * RAY + stakedBalance'[b] * (rewardPerTokenStored' - userRewardPerTokenPaid'[b])
    BY OwedNext
  <2>2. OwedAt(rewardPerTokenStored)[b]
          = rewards[b] * RAY + stakedBalance[b] * (rewardPerTokenStored - userRewardPerTokenPaid[b])
    BY DEF OwedAt
  <2>3. CASE UNCHANGED stakedBalance
    BY <2>1, <2>2, <2>3 DEF accrualVars
  <2>4. CASE rewardPerTokenStored = 0
    <3>1. userRewardPerTokenPaid[b] \in Nat /\ userRewardPerTokenPaid[b] <= 0
      BY <2>4 DEF AccrualInv, PaidOK, RewardTypeOK
    <3>2. rewardPerTokenStored - userRewardPerTokenPaid[b] = 0
      BY <2>4, <3>1
    <3>3. stakedBalance[b] * 0 = 0 /\ stakedBalance'[b] * 0 = 0
      BY DEF AccrualInv, VaultInv, VaultTypeOK
    <3>4. QED
      BY <2>1, <2>2, <3>2, <3>3 DEF accrualVars
  <2>5. QED
    BY <2>3, <2>4
<1>2. OwedAt(rewardPerTokenStored)' = OwedAt(rewardPerTokenStored)
  <2>1. OwedAt(rewardPerTokenStored) \in [Accounts -> Nat]
        /\ OwedAt(rewardPerTokenStored)' \in [Accounts -> Nat]
    BY OwedType, OwedTypeNext
  <2>2. QED
    BY <1>1, <2>1
<1>3. Unvested' = Unvested /\ reserve' = reserve /\ rewardBalance' = rewardBalance
  BY DEF Unvested, accrualVars, fundVars
<1>4. QED
  BY <1>2, <1>3 DEF Solvent

LEMMA FundSolvent ==
  ASSUME AccrualInv, AccrualInv', Solvent,
         NEW n \in Fundings, NEW d \in Durations, FundRewards(n, d)
  PROVE  Solvent'
<1> DEFINE G == OwedAt(RewardPerToken)
<1> DEFINE held == reserve.held
<1> DEFINE rate == NewRate(n, d)
<1>1. n \in Nat /\ d \in Nat \ {0} /\ now \in Nat /\ RAY \in Nat \ {0}
  BY RewardAssumption DEF AccrualInv, VaultInv, VaultTypeOK
<1>2. /\ rewardPerTokenStored' = RewardPerToken
      /\ schedule' = [rate |-> rate, finish |-> now + d, updated |-> now]
      /\ reserve' = [reserve EXCEPT !.held = held + n, !.funded = reserve.funded + n]
      /\ rewardBalance' = rewardBalance + n
      /\ UNCHANGED <<userRewardPerTokenPaid, rewards, stakedBalance>>
  BY DEF FundRewards, vaultVars, principalVars
<1>3. G \in [Accounts -> Nat] /\ Remaining \in Nat /\ reserve \in ReserveType /\ rewardBalance \in Nat
      /\ held \in Nat /\ reserve.funded \in Nat /\ reserve.claimed \in Nat
  BY OwedType, UpdateFacts DEF AccrualInv, RewardTypeOK, ReserveType
<1>4. ASSUME NEW b \in Accounts PROVE OwedAt(rewardPerTokenStored)'[b] <= G[b]
  <2>1. OwedAt(rewardPerTokenStored)'[b] = G[b]
    BY <1>2, OwedNext DEF OwedAt
  <2>2. QED
    BY <1>3, <2>1
<1>5. Unvested' <= n + Remaining
  <2>1. rate = (n + Remaining) \div d
    BY DEF NewRate
  <2>2. rate \in Nat /\ d * rate <= n + Remaining
    <3> DEFINE s == n + Remaining
    <3>1. s \in Nat
      BY <1>1, <1>3
    <3> HIDE DEF s, rate
    <3>2. rate = s \div d
      BY <2>1 DEF s
    <3>3. rate \in Nat /\ d * rate <= s
      BY <1>1, <3>1, <3>2
    <3>4. QED
      BY <3>3 DEF s
  <2> HIDE DEF rate
  <2>3. Unvested' = ((now + d) - now) * rate
    BY <1>2 DEF Unvested
  <2>4. (now + d) - now = d
    BY <1>1
  <2>5. QED
    BY <2>2, <2>3, <2>4
<1>6. TotalOf(G) + RAY * Remaining <= RAY * held
  BY AccrualPays
<1>7. TotalOf(G) \in Nat
  BY <1>3, VaultAssumption, TotalIsNat
<1> HIDE DEF G, rate
<1>8. TotalOf(G) + RAY * (n + Remaining) <= RAY * (held + n)
  <2> HIDE DEF held
  <2>1. RAY * (n + Remaining) = RAY * n + RAY * Remaining /\ RAY * (held + n) = RAY * held + RAY * n
    BY <1>1, <1>3
  <2>2. RAY * n \in Nat /\ RAY * Remaining \in Nat /\ RAY * held \in Nat
    BY <1>1, <1>3, MulNat
  <2> DEFINE x == RAY * n
  <2> DEFINE y == RAY * Remaining
  <2> DEFINE z == RAY * held
  <2>3. x \in Nat /\ y \in Nat /\ z \in Nat /\ TotalOf(G) + y <= z
    BY <1>6, <2>2
  <2> HIDE DEF x, y, z
  <2>4. TotalOf(G) + (x + y) <= z + x
    BY <1>7, <2>3
  <2>5. QED
    BY <2>1, <2>4 DEF x, y, z
<1>9. /\ reserve'.held = held + n
      /\ reserve'.held = reserve'.funded - reserve'.claimed
      /\ rewardBalance' >= reserve'.held
  <2>1. held = reserve.funded - reserve.claimed /\ rewardBalance >= held
    BY DEF Solvent
  <2>2. reserve'.held = held + n /\ reserve'.funded = reserve.funded + n
        /\ reserve'.claimed = reserve.claimed
    BY <1>2, <1>3 DEF ReserveType
  <2> DEFINE fd == reserve.funded
  <2> DEFINE cl == reserve.claimed
  <2>3. fd \in Nat /\ cl \in Nat /\ held = fd - cl
    BY <1>3, <2>1
  <2> HIDE DEF held, fd, cl
  <2>4. held + n = (fd + n) - cl /\ rewardBalance + n >= held + n
    BY <1>1, <1>3, <2>1, <2>3
  <2>5. QED
    BY <1>2, <2>2, <2>4 DEF fd, cl
<1>10. n + Remaining \in Nat /\ held + n \in Nat
  BY <1>1, <1>3
<1>11. QED
  BY <1>3, <1>4, <1>5, <1>8, <1>9, <1>10, SolventIf

LEMMA ClaimSolvent ==
  ASSUME AccrualInv, AccrualInv', Solvent, NEW a \in Accounts, Claim(a)
  PROVE  Solvent'
<1> DEFINE G == OwedAt(RewardPerToken)
<1> DEFINE H == [G EXCEPT ![a] = 0]
<1> DEFINE held == reserve.held
<1> DEFINE e == Earned(a)
<1>1. /\ rewardPerTokenStored' = RewardPerToken
      /\ schedule' = Updated
      /\ rewards' = [rewards EXCEPT ![a] = 0]
      /\ userRewardPerTokenPaid' = [userRewardPerTokenPaid EXCEPT ![a] = RewardPerToken]
      /\ reserve' = [reserve EXCEPT !.held = held - e, !.claimed = reserve.claimed + e]
      /\ rewardBalance' = rewardBalance - e
      /\ UNCHANGED stakedBalance
  BY DEF Claim, vaultVars, principalVars
<1>2. G \in [Accounts -> Nat] /\ Remaining \in Nat /\ reserve \in ReserveType /\ rewardBalance \in Nat
      /\ held \in Nat /\ reserve.funded \in Nat /\ reserve.claimed \in Nat
  BY OwedType, UpdateFacts DEF AccrualInv, RewardTypeOK, ReserveType
<1>3. e \in Nat /\ e <= held /\ RAY \in Nat \ {0} /\ IsFiniteSet(Accounts)
  BY <1>2, EarnedFacts, RewardAssumption, VaultAssumption DEF Claim
<1>4. ASSUME NEW b \in Accounts PROVE OwedAt(rewardPerTokenStored)'[b] <= H[b]
  <2>1. OwedAt(rewardPerTokenStored)'[b]
          = rewards'[b] * RAY + stakedBalance'[b] * (rewardPerTokenStored' - userRewardPerTokenPaid'[b])
    BY OwedNext
  <2>2. CASE b = a
    <3>1. rewards'[a] = 0 /\ userRewardPerTokenPaid'[a] = RewardPerToken /\ H[a] = 0
      BY <1>1, <1>2 DEF AccrualInv, RewardTypeOK
    <3>2. RewardPerToken - RewardPerToken = 0
      BY UpdateFacts
    <3>3. stakedBalance'[a] * 0 = 0 /\ 0 * RAY = 0
      BY RewardAssumption DEF AccrualInv, VaultInv, VaultTypeOK
    <3>4. OwedAt(rewardPerTokenStored)'[a] = 0
      BY <1>1, <2>1, <2>2, <3>1, <3>2, <3>3
    <3>5. QED
      BY <2>2, <3>1, <3>4
  <2>3. CASE b # a
    <3>1. rewards'[b] = rewards[b] /\ userRewardPerTokenPaid'[b] = userRewardPerTokenPaid[b] /\ H[b] = G[b]
      BY <1>1, <1>2, <2>3 DEF AccrualInv, RewardTypeOK
    <3>2. OwedAt(rewardPerTokenStored)'[b] = G[b]
      BY <1>1, <2>1, <3>1 DEF OwedAt
    <3>3. QED
      BY <1>2, <3>1, <3>2
  <2>4. QED
    BY <2>2, <2>3
<1>5. Unvested' = Remaining
  BY <1>1, UpdateFacts, UpdatedFacts DEF Unvested
<1>6. TotalOf(G) + RAY * Remaining <= RAY * held
  BY AccrualPays
<1>7. G[a] \in Nat /\ e * RAY <= G[a]
  BY EarnedFacts
<1> HIDE DEF G, e
<1>8. H \in [Accounts -> Nat] /\ TotalOf(H) = TotalOf(G) - G[a] + 0
  <2>1. TotalOf([G EXCEPT ![a] = 0]) = TotalOf(G) - G[a] + 0
    <3>1. G \in [Accounts -> Nat] /\ IsFiniteSet(Accounts) /\ 0 \in Nat
      BY <1>2, <1>3
    <3> HIDE DEF H
    <3>2. QED
      BY <3>1, TotalOfUpdate
  <2>2. QED
    BY <1>2, <2>1
<1>9. TotalOf(G) \in Nat /\ G[a] <= TotalOf(G)
  BY <1>2, <1>3, TotalIsNat, TotalAtLeastMember
<1> HIDE DEF H, held
<1>10. TotalOf(H) + RAY * Remaining <= RAY * (held - e)
  <2>1. RAY * (held - e) = RAY * held - RAY * e /\ e * RAY = RAY * e
    BY <1>2, <1>3 DEF held
  <2>2. RAY * e \in Nat /\ RAY * Remaining \in Nat /\ RAY * held \in Nat
    BY <1>2, <1>3, MulNat DEF held
  <2> DEFINE x == RAY * e
  <2> DEFINE y == RAY * Remaining
  <2> DEFINE z == RAY * held
  <2>3. x \in Nat /\ y \in Nat /\ z \in Nat /\ TotalOf(G) + y <= z /\ x <= G[a]
    BY <1>6, <1>7, <2>1, <2>2
  <2> HIDE DEF x, y, z
  <2>4. TotalOf(H) + y <= z - x
    BY <1>7, <1>8, <1>9, <2>3
  <2>5. QED
    BY <2>1, <2>4 DEF x, y, z
<1>11. /\ reserve'.held = held - e
       /\ reserve'.held = reserve'.funded - reserve'.claimed
       /\ rewardBalance' >= reserve'.held
  <2>1. held = reserve.funded - reserve.claimed /\ rewardBalance >= held
    BY DEF Solvent, held
  <2>2. reserve'.held = held - e /\ reserve'.claimed = reserve.claimed + e
        /\ reserve'.funded = reserve.funded
    BY <1>1, <1>2 DEF ReserveType
  <2> DEFINE fd == reserve.funded
  <2> DEFINE cl == reserve.claimed
  <2>3. fd \in Nat /\ cl \in Nat /\ held = fd - cl
    BY <1>2, <2>1
  <2> HIDE DEF fd, cl
  <2>4. held - e = fd - (cl + e) /\ rewardBalance - e >= held - e
    BY <1>2, <1>3, <2>1, <2>3
  <2>5. QED
    BY <1>1, <2>2, <2>4 DEF fd, cl
<1>12. held - e \in Nat /\ Unvested' <= Remaining
  BY <1>2, <1>3, <1>5 DEF held
<1>13. QED
  BY <1>2, <1>4, <1>8, <1>10, <1>11, <1>12, SolventIf

(* Both facts hold after every step, in the deployment order the documents *)
(* assume.                                                                 *)
LEMMA SolventStep ==
  AccrualInv /\ NothingYet /\ Solvent /\ FundedOnceBound /\ [Next]_vars => NothingYet' /\ Solvent'
<1> SUFFICES ASSUME AccrualInv, NothingYet, Solvent, FundedOnceBound, [Next]_vars
             PROVE  NothingYet' /\ Solvent'
  OBVIOUS
<1>1. AccrualInv'
  BY AccrualStepOK
<1>2. ASSUME UNCHANGED <<accrualVars, fundVars>>, UNCHANGED stakedBalance \/ rewardPerTokenStored = 0
      PROVE  NothingYet' /\ Solvent'
  <2>1. Solvent'
    BY <1>1, <1>2, QuietSolvent
  <2>2. NothingYet'
    BY <1>2 DEF NothingYet, accrualVars, fundVars
  <2>3. QED
    BY <2>1, <2>2
<1>3. ASSUME schedule' = Updated, rewardPerTokenStored' = RewardPerToken,
             reserve'.funded = reserve.funded
      PROVE  NothingYet'
  BY <1>3, UpdateFacts, UpdatedFacts DEF NothingYet
<1>4. ASSUME NEW a \in Accounts, VaultCheckpoint(a),
             \A b \in Accounts \ {a} : stakedBalance'[b] = stakedBalance[b]
      PROVE  NothingYet' /\ Solvent'
  <2>1. CASE bound
    <3>1. UpdateReward(a) /\ UNCHANGED fundVars
      BY <1>4, <2>1 DEF VaultCheckpoint
    <3>2. Solvent'
      BY <1>1, <1>4, <3>1, CheckpointSolvent
    <3>3. NothingYet'
      BY <1>3, <3>1 DEF UpdateReward, fundVars
    <3>4. QED
      BY <3>2, <3>3
  <2>2. CASE ~bound
    <3>1. rewardPerTokenStored = 0
      BY <2>2 DEF FundedOnceBound, NothingYet
    <3>2. UNCHANGED <<accrualVars, fundVars>>
      BY <1>4, <2>2 DEF VaultCheckpoint
    <3>3. QED
      BY <1>2, <3>1, <3>2
  <2>3. QED
    BY <2>1, <2>2
<1>5. CASE StakerStep
  <2>1. PICK a \in Accounts :
          \/ \E n \in Amounts : StakeChecked(a, n) \/ RequestChecked(a, n)
          \/ CancelChecked(a)
    BY <1>5 DEF StakerStep
  <2>2. VaultCheckpoint(a)
    BY <2>1 DEF StakeChecked, RequestChecked, CancelChecked
  <2>3. \E m : stakedBalance' = [stakedBalance EXCEPT ![a] = m]
    BY <2>1 DEF StakeChecked, RequestChecked, CancelChecked, Stake, RequestUnstake, CancelUnstake
  <2>4. \A b \in Accounts \ {a} : stakedBalance'[b] = stakedBalance[b]
    BY <2>3 DEF AccrualInv, VaultInv, VaultTypeOK
  <2>5. QED
    BY <1>4, <2>2, <2>4
<1>6. CASE PlainVaultStep
  <2>1. UNCHANGED stakedBalance
    BY <1>6 DEF PlainVaultStep, CompleteUnstake, ExtendLock, VaultGovernance, PauseNewStaking,
                ResumeNewStaking, EnableEmergencyExit, DisableEmergencyExit, SetCooldownDuration,
                Tick, principalVars
  <2>2. UNCHANGED <<accrualVars, fundVars>>
    BY <1>6 DEF PlainVaultStep, rewardVars
  <2>3. QED
    BY <1>2, <2>1, <2>2
<1>7. CASE InitializeRewardAccounting
  BY <1>2, <1>7 DEF InitializeRewardAccounting, vaultVars, principalVars
<1>8. ASSUME NEW n \in Fundings, NEW d \in Durations, FundRewards(n, d)
      PROVE  NothingYet' /\ Solvent'
  <2>1. reserve.funded \in Nat /\ n \in Nat \ {0}
    BY RewardAssumption DEF AccrualInv, RewardTypeOK, ReserveType
  <2>2. reserve'.funded = reserve.funded + n
    BY <1>8 DEF FundRewards, AccrualInv, RewardTypeOK, ReserveType
  <2>3. NothingYet'
    BY <2>1, <2>2 DEF NothingYet
  <2>4. Solvent'
    BY <1>1, <1>8, FundSolvent
  <2>5. QED
    BY <2>3, <2>4
<1>9. ASSUME NEW a \in Accounts, Claim(a) PROVE NothingYet' /\ Solvent'
  <2>1. reserve'.funded = reserve.funded
    BY <1>9 DEF Claim, AccrualInv, RewardTypeOK, ReserveType
  <2>2. NothingYet'
    BY <1>3, <1>9, <2>1 DEF Claim
  <2>3. Solvent'
    BY <1>1, <1>9, ClaimSolvent
  <2>4. QED
    BY <2>2, <2>3
<1>10. CASE \E p \in BOOLEAN : SetFundingPaused(p)
  BY <1>2, <1>10 DEF SetFundingPaused, vaultVars, principalVars
<1>11. CASE UNCHANGED vars
  BY <1>2, <1>11 DEF vars, rewardVars, vaultVars, principalVars
<1>12. QED
  BY <1>5, <1>6, <1>7, <1>8, <1>9, <1>10, <1>11 DEF Next

(* The reserve always covers everybody's earned rewards and the running    *)
(* schedule, for any number of stakers, unit and schedule, provided the    *)
(* module is bound before it is funded.                                    *)
THEOREM RewardsStayCovered == Spec /\ []FundedOnceBound => []RewardsCovered
<1>1. AccrualInv /\ Solvent => RewardsCovered
  BY SolventCovers
<1>2. QED
  BY <1>1, AccrualInitOK, AccrualStepOK, SolventStep, PTL DEF Spec

-----------------------------------------------------------------------------
(* Rewards accrue with time alone.                                         *)

LEMMA EarnedNext ==
  ASSUME NEW b \in Accounts
  PROVE  Earned(b)' = rewards'[b]
           + (stakedBalance'[b] * (RewardPerToken' - userRewardPerTokenPaid'[b])) \div RAY
BY DEF Earned, Unsettled

(* After an update nothing is left to accrue until time passes.            *)
LEMMA Settled ==
  ASSUME LastTimeRewardApplicable' <= schedule'.updated
  PROVE  RewardPerToken' = rewardPerTokenStored'
BY DEF RewardPerToken

LEMMA SettledByUpdate ==
  ASSUME AccrualInv, schedule' = Updated, now' = now
  PROVE  RewardPerToken' = rewardPerTokenStored'
<1>1. LastTimeRewardApplicable' = LastTimeRewardApplicable
  BY UpdatedFacts DEF LastTimeRewardApplicable
<1>2. schedule'.updated = LastTimeRewardApplicable /\ LastTimeRewardApplicable \in Nat
  BY UpdateFacts, UpdatedFacts
<1>3. QED
  BY <1>1, <1>2, Settled

(* An account that is not checkpointed, while rewardPerToken stands.       *)
LEMMA EarnedStands ==
  ASSUME NEW b \in Accounts, RewardPerToken' = RewardPerToken, rewards'[b] = rewards[b],
         userRewardPerTokenPaid'[b] = userRewardPerTokenPaid[b],
         stakedBalance'[b] = stakedBalance[b]
  PROVE  Earned(b)' = Earned(b)
BY EarnedNext DEF Earned, Unsettled

(* A checkpointed account starts afresh from what it is credited.          *)
LEMMA EarnedAfresh ==
  ASSUME AccrualInv', NEW a \in Accounts, RewardPerToken \in Nat, RewardPerToken' = RewardPerToken,
         userRewardPerTokenPaid'[a] = RewardPerToken
  PROVE  Earned(a)' = rewards'[a]
<1>1. rewards'[a] \in Nat /\ stakedBalance'[a] \in Nat /\ RAY \in Nat \ {0}
  BY RewardAssumption DEF AccrualInv, RewardTypeOK, VaultInv, VaultTypeOK
<1>2. RewardPerToken - RewardPerToken = 0
  OBVIOUS
<1>3. stakedBalance'[a] * 0 = 0 /\ 0 \div RAY = 0
  BY <1>1
<1>4. Earned(a)' = rewards'[a] + (stakedBalance'[a] * (RewardPerToken - RewardPerToken)) \div RAY
  BY EarnedNext
<1>5. QED
  BY <1>1, <1>2, <1>3, <1>4

(* Without a rate nothing accrues.                                         *)
LEMMA RateZeroNext ==
  ASSUME AccrualInv', schedule'.rate = 0
  PROVE  RewardPerToken' = rewardPerTokenStored'
<1> DEFINE l == LastTimeRewardApplicable'
<1> DEFINE u == schedule'.updated
<1> DEFINE ts == totalStaked'
<1>1. /\ l \in Nat /\ u \in Nat /\ ts \in Nat /\ rewardPerTokenStored' \in Nat
      /\ RAY \in Nat
  BY RewardAssumption
     DEF LastTimeRewardApplicable, AccrualInv, VaultInv, VaultTypeOK, RewardTypeOK, ScheduleType
<1>2. RewardPerToken' = IF ts = 0 \/ l <= u THEN rewardPerTokenStored'
                        ELSE rewardPerTokenStored' + ((l - u) * 0 * RAY) \div ts
  BY DEF RewardPerToken
<1> HIDE DEF l, u, ts
<1>3. CASE ts # 0 /\ ~(l <= u)
  <2> DEFINE q == ((l - u) * 0 * RAY) \div ts
  <2>1. q = 0
    <3>1. (l - u) * 0 * RAY = 0
      BY <1>1
    <3>2. 0 \div ts = 0
      BY <1>1, <1>3
    <3>3. QED
      BY <3>1, <3>2
  <2>2. RewardPerToken' = rewardPerTokenStored' + q
    BY <1>2, <1>3
  <2> DEFINE s == rewardPerTokenStored'
  <2>3. s \in Nat /\ RewardPerToken' = s + q
    BY <1>1, <2>2
  <2> HIDE DEF q, s
  <2>4. RewardPerToken' = s
    BY <2>1, <2>3
  <2>5. QED
    BY <2>4 DEF s
<1>4. QED
  BY <1>2, <1>3

(* The checkpoint of a staker's transaction.                               *)
LEMMA CheckpointEarns ==
  ASSUME AccrualInv, AccrualInv', NothingYet, FundedOnceBound, now' = now,
         NEW a \in Accounts, VaultCheckpoint(a), NEW b \in Accounts,
         b # a => stakedBalance'[b] = stakedBalance[b]
  PROVE  Earned(b)' = Earned(b)
<1>1. CASE bound
  <2>1. /\ rewardPerTokenStored' = RewardPerToken
        /\ schedule' = Updated
        /\ rewards' = [rewards EXCEPT ![a] = Earned(a)]
        /\ userRewardPerTokenPaid' = [userRewardPerTokenPaid EXCEPT ![a] = RewardPerToken]
    BY <1>1 DEF VaultCheckpoint, UpdateReward
  <2>2. RewardPerToken' = RewardPerToken
    BY <2>1, SettledByUpdate
  <2>3. rewards \in [Accounts -> Nat] /\ userRewardPerTokenPaid \in [Accounts -> Nat]
    BY DEF AccrualInv, RewardTypeOK
  <2>4. CASE b = a
    <3>1. rewards'[a] = Earned(a) /\ userRewardPerTokenPaid'[a] = RewardPerToken
      BY <2>1, <2>3
    <3>2. Earned(a)' = rewards'[a]
      BY <2>2, <3>1, UpdateFacts, EarnedAfresh
    <3>3. QED
      BY <2>4, <3>1, <3>2
  <2>5. CASE b # a
    <3>1. rewards'[b] = rewards[b] /\ userRewardPerTokenPaid'[b] = userRewardPerTokenPaid[b]
      BY <2>1, <2>3, <2>5
    <3>2. QED
      BY <2>2, <2>5, <3>1, EarnedStands
  <2>6. QED
    BY <2>4, <2>5
<1>2. CASE ~bound
  <2>1. schedule.rate = 0 /\ rewardPerTokenStored = 0 /\ UNCHANGED accrualVars
    BY <1>2 DEF FundedOnceBound, NothingYet, VaultCheckpoint
  <2>2. RewardPerToken = 0
    BY <2>1, UpdateFacts
  <2>3. RewardPerToken' = 0
    <3>1. rewardPerTokenStored' = 0 /\ schedule'.rate = 0
      BY <2>1 DEF accrualVars
    <3>2. QED
      BY <3>1, RateZeroNext
  <2>4. userRewardPerTokenPaid[b] = 0 /\ rewards[b] \in Nat
    BY <2>1 DEF AccrualInv, PaidOK, RewardTypeOK
  <2>5. stakedBalance[b] \in Nat /\ stakedBalance'[b] \in Nat /\ RAY \in Nat \ {0}
    BY RewardAssumption DEF AccrualInv, VaultInv, VaultTypeOK
  <2>6. stakedBalance[b] * (0 - 0) = 0 /\ stakedBalance'[b] * (0 - 0) = 0 /\ 0 \div RAY = 0
    BY <2>5
  <2>7. Earned(b) = rewards[b] + 0
    BY <2>2, <2>4, <2>6 DEF Earned, Unsettled
  <2>8. Earned(b)' = rewards[b] + 0
    <3>1. rewards'[b] = rewards[b] /\ userRewardPerTokenPaid'[b] = 0
      BY <2>1, <2>4 DEF accrualVars
    <3>2. QED
      BY <2>3, <2>6, <3>1, EarnedNext
  <2>9. QED
    BY <2>7, <2>8
<1>3. QED
  BY <1>1, <1>2

(* As time passes rewardPerToken does not fall.                            *)
LEMMA TickAccrues ==
  ASSUME AccrualInv, AccrualInv', Tick, UNCHANGED rewardVars
  PROVE  RewardPerToken \in Nat /\ RewardPerToken' \in Nat /\ RewardPerToken <= RewardPerToken'
<1> DEFINE fin == schedule.finish
<1> DEFINE upd == schedule.updated
<1> DEFINE rate == schedule.rate
<1> DEFINE st == rewardPerTokenStored
<1> DEFINE ts == totalStaked
<1> DEFINE l == LastTimeRewardApplicable
<1> DEFINE m == LastTimeRewardApplicable'
<1>1. /\ fin \in Nat /\ upd \in Nat /\ rate \in Nat /\ now \in Nat /\ st \in Nat
      /\ ts \in Nat /\ RAY \in Nat \ {0}
  BY RewardAssumption DEF AccrualInv, VaultInv, VaultTypeOK, RewardTypeOK, ScheduleType
<1>2. l = (IF now < fin THEN now ELSE fin) /\ m = (IF now + 1 < fin THEN now + 1 ELSE fin)
  BY DEF LastTimeRewardApplicable, Tick, rewardVars, accrualVars
<1>3. RewardPerToken = IF ts = 0 \/ l <= upd THEN st ELSE st + ((l - upd) * rate * RAY) \div ts
  BY DEF RewardPerToken
<1>4. RewardPerToken' = IF ts = 0 \/ m <= upd THEN st ELSE st + ((m - upd) * rate * RAY) \div ts
  BY DEF RewardPerToken, Tick, rewardVars, accrualVars, principalVars
<1> HIDE DEF fin, upd, rate, st, ts, l, m
<1>5. l \in Nat /\ m \in Nat /\ l <= m
  BY <1>1, <1>2
<1>6. CASE ts = 0 \/ m <= upd
  <2>1. ts = 0 \/ l <= upd
    BY <1>1, <1>5, <1>6
  <2>2. QED
    BY <1>1, <1>3, <1>4, <1>6, <2>1
<1>7. CASE ~(ts = 0 \/ m <= upd)
  <2> DEFINE y == (m - upd) * rate
  <2> DEFINE q == (y * RAY) \div ts
  <2>1. m - upd \in Nat /\ ts \in Nat \ {0}
    BY <1>1, <1>5, <1>7
  <2>2. y \in Nat /\ y * RAY \in Nat
    BY <1>1, <2>1, MulNat
  <2>3. q \in Nat
    <3> HIDE DEF y
    <3>1. QED
      BY <2>1, <2>2, DivNat
  <2>4. RewardPerToken' = st + q
    BY <1>4, <1>7
  <2>5. CASE l <= upd
    <3>1. RewardPerToken = st
      BY <1>3, <2>5
    <3> HIDE DEF q
    <3>2. QED
      BY <1>1, <2>3, <2>4, <3>1
  <2>6. CASE ~(l <= upd)
    <3> DEFINE x == (l - upd) * rate
    <3> DEFINE p == (x * RAY) \div ts
    <3>1. l - upd \in Nat /\ l - upd <= m - upd
      BY <1>1, <1>5, <2>6
    <3>2. x \in Nat /\ x * RAY \in Nat
      BY <1>1, <3>1, MulNat
    <3>3. x <= y
      <4>1. rate * (l - upd) <= rate * (m - upd)
        BY <1>1, <2>1, <3>1, MulMono
      <4>2. rate * (l - upd) = x /\ rate * (m - upd) = y
        BY <1>1, <2>1, <3>1
      <4>3. QED
        BY <4>1, <4>2
    <3>4. RewardPerToken = st + p
      BY <1>3, <1>7, <2>6
    <3> HIDE DEF x, y
    <3>5. x * RAY <= y * RAY
      <4>1. RAY * x <= RAY * y
        BY <1>1, <2>2, <3>2, <3>3, MulMono
      <4>2. RAY * x = x * RAY /\ RAY * y = y * RAY
        BY <1>1, <2>2, <3>2
      <4>3. QED
        BY <4>1, <4>2
    <3>6. p \in Nat /\ p <= q
      BY <2>1, <2>2, <3>2, <3>5, DivMono, DivNat
    <3> HIDE DEF p, q
    <3>7. QED
      BY <1>1, <2>3, <2>4, <3>4, <3>6
  <2>7. QED
    BY <2>5, <2>6
<1>8. QED
  BY <1>6, <1>7

(* Somebody who is not paid earns no less as time passes, and nothing      *)
(* without an active stake.                                                *)
LEMMA TickEarns ==
  ASSUME AccrualInv, AccrualInv', Tick, UNCHANGED rewardVars, NEW b \in Accounts
  PROVE  Earned(b)' >= Earned(b) /\ (stakedBalance[b] = 0 => Earned(b)' = Earned(b))
<1> DEFINE p == userRewardPerTokenPaid[b]
<1> DEFINE s == stakedBalance[b]
<1> DEFINE w == rewards[b]
<1> DEFINE r == RewardPerToken
<1> DEFINE q == RewardPerToken'
<1>1. /\ w \in Nat /\ s \in Nat /\ p \in Nat /\ r - p \in Nat /\ RAY \in Nat \ {0}
      /\ r \in Nat /\ q \in Nat /\ r <= q
  BY EarnedFacts, TickAccrues, RewardAssumption
<1>2. Earned(b) = w + (s * (r - p)) \div RAY
  BY DEF Earned, Unsettled
<1>3. Earned(b)' = w + (s * (q - p)) \div RAY
  BY EarnedNext DEF Tick, rewardVars, accrualVars, principalVars
<1> HIDE DEF p, s, w, r, q
<1> DEFINE x == s * (r - p)
<1> DEFINE y == s * (q - p)
<1>4. q - p \in Nat /\ r - p <= q - p
  BY <1>1
<1>5. x \in Nat /\ y \in Nat /\ x <= y
  BY <1>1, <1>4, MulNat, MulMono
<1>6. s = 0 => x = 0 /\ y = 0
  BY <1>1, <1>4
<1> HIDE DEF x, y
<1>7. x \div RAY \in Nat /\ y \div RAY \in Nat /\ x \div RAY <= y \div RAY
  BY <1>1, <1>5, DivNat, DivMono
<1>8. Earned(b) = w + x \div RAY /\ Earned(b)' = w + y \div RAY
  BY <1>2, <1>3 DEF x, y
<1> DEFINE u == x \div RAY
<1> DEFINE v == y \div RAY
<1>9. u \in Nat /\ v \in Nat /\ u <= v /\ Earned(b) = w + u /\ Earned(b)' = w + v /\ (s = 0 => u = v)
  BY <1>6, <1>7, <1>8
<1> HIDE DEF u, v
<1>10. QED
  BY <1>1, <1>9 DEF s

LEMMA EarnsStep ==
  ASSUME AccrualInv, NothingYet, FundedOnceBound, Next, NEW b \in Accounts
  PROVE  EarnsWithTime(b)
<1>1. AccrualInv'
  BY AccrualStepOK
<1>2. now \in Nat
  BY DEF AccrualInv, VaultInv, VaultTypeOK
<1>3. SUFFICES ASSUME ~(/\ now' = now
                        /\ \/ Earned(b)' = Earned(b)
                           \/ Earned(b)' = 0 /\ reserve'.claimed = reserve.claimed + Earned(b))
               PROVE  EarnsWithTime(b)
  BY DEF EarnsWithTime
<1>4. ASSUME UNCHANGED <<accrualVars, stakedBalance, totalStaked, now>> PROVE FALSE
  <2>1. RewardPerToken' = RewardPerToken
    BY <1>4 DEF RewardPerToken, LastTimeRewardApplicable, accrualVars
  <2>2. Earned(b)' = Earned(b)
    BY <1>4, <2>1, EarnedStands DEF accrualVars
  <2>3. QED
    BY <1>3, <1>4, <2>2
<1>5. CASE StakerStep
  <2>1. PICK a \in Accounts :
          \/ \E n \in Amounts : StakeChecked(a, n) \/ RequestChecked(a, n)
          \/ CancelChecked(a)
    BY <1>5 DEF StakerStep
  <2>2. VaultCheckpoint(a) /\ now' = now
    BY <2>1 DEF StakeChecked, RequestChecked, CancelChecked, Stake, RequestUnstake, CancelUnstake
  <2>3. \E m : stakedBalance' = [stakedBalance EXCEPT ![a] = m]
    BY <2>1 DEF StakeChecked, RequestChecked, CancelChecked, Stake, RequestUnstake, CancelUnstake
  <2>4. b # a => stakedBalance'[b] = stakedBalance[b]
    BY <2>3 DEF AccrualInv, VaultInv, VaultTypeOK
  <2>5. Earned(b)' = Earned(b)
    BY <1>1, <2>2, <2>4, CheckpointEarns
  <2>6. QED
    BY <1>3, <2>2, <2>5
<1>6. CASE PlainVaultStep
  <2>1. UNCHANGED accrualVars
    BY <1>6 DEF PlainVaultStep, rewardVars
  <2>2. CASE Tick
    <3>1. now' # now
      BY <1>2, <2>2 DEF Tick
    <3>2. UNCHANGED rewardVars
      BY <1>6 DEF PlainVaultStep
    <3>3. Earned(b)' >= Earned(b) /\ (stakedBalance[b] = 0 => Earned(b)' = Earned(b))
      BY <1>1, <2>2, <3>2, TickEarns
    <3>4. QED
      BY <3>1, <3>3 DEF EarnsWithTime
  <2>3. CASE ~Tick
    <3>1. UNCHANGED <<stakedBalance, totalStaked, now>>
      BY <1>6, <2>3 DEF PlainVaultStep, CompleteUnstake, ExtendLock, VaultGovernance,
         PauseNewStaking, ResumeNewStaking, EnableEmergencyExit, DisableEmergencyExit,
         SetCooldownDuration, principalVars
    <3>2. QED
      BY <1>4, <2>1, <3>1
  <2>4. QED
    BY <2>2, <2>3
<1>7. CASE InitializeRewardAccounting
  BY <1>4, <1>7 DEF InitializeRewardAccounting, vaultVars, principalVars
<1>8. ASSUME NEW n \in Fundings, NEW d \in Durations, FundRewards(n, d) PROVE FALSE
  <2>1. /\ rewardPerTokenStored' = RewardPerToken
        /\ schedule' = [rate |-> NewRate(n, d), finish |-> now + d, updated |-> now]
        /\ UNCHANGED <<userRewardPerTokenPaid, rewards, stakedBalance, now>>
    BY <1>8 DEF FundRewards, vaultVars, principalVars
  <2>2. d \in Nat \ {0}
    BY RewardAssumption
  <2>3. LastTimeRewardApplicable' = now /\ schedule'.updated = now
    BY <1>2, <2>1, <2>2 DEF LastTimeRewardApplicable
  <2>4. RewardPerToken' = RewardPerToken
    BY <1>2, <2>1, <2>3, Settled
  <2>5. QED
    BY <1>3, <2>1, <2>4, EarnedStands
<1>9. ASSUME NEW a \in Accounts, Claim(a) PROVE FALSE
  <2>1. /\ rewardPerTokenStored' = RewardPerToken
        /\ schedule' = Updated
        /\ rewards' = [rewards EXCEPT ![a] = 0]
        /\ userRewardPerTokenPaid' = [userRewardPerTokenPaid EXCEPT ![a] = RewardPerToken]
        /\ UNCHANGED <<stakedBalance, now>>
    BY <1>9 DEF Claim, vaultVars, principalVars
  <2>2. RewardPerToken' = RewardPerToken
    BY <2>1, SettledByUpdate
  <2>3. rewards \in [Accounts -> Nat] /\ userRewardPerTokenPaid \in [Accounts -> Nat]
    BY DEF AccrualInv, RewardTypeOK
  <2>4. CASE b = a
    <3>1. rewards'[a] = 0 /\ userRewardPerTokenPaid'[a] = RewardPerToken
      BY <2>1, <2>3
    <3>2. Earned(a)' = 0
      BY <1>1, <2>2, <3>1, UpdateFacts, EarnedAfresh
    <3>3. reserve'.claimed = reserve.claimed + Earned(a)
      BY <1>9 DEF Claim, AccrualInv, RewardTypeOK, ReserveType
    <3>4. QED
      BY <1>3, <2>1, <2>4, <3>2, <3>3
  <2>5. CASE b # a
    <3>1. rewards'[b] = rewards[b] /\ userRewardPerTokenPaid'[b] = userRewardPerTokenPaid[b]
      BY <2>1, <2>3, <2>5
    <3>2. Earned(b)' = Earned(b)
      BY <2>1, <2>2, <3>1, EarnedStands
    <3>3. QED
      BY <1>3, <2>1, <3>2
  <2>6. QED
    BY <2>4, <2>5
<1>10. ASSUME NEW p \in BOOLEAN, SetFundingPaused(p) PROVE FALSE
  BY <1>4, <1>10 DEF SetFundingPaused, vaultVars, principalVars
<1>11. QED
  BY <1>5, <1>6, <1>7, <1>8, <1>9, <1>10 DEF Next

(* Nobody's transaction changes what another account has earned, a stake   *)
(* earns from the moment it is made and none of the past, and time takes   *)
(* nothing away - provided the module is bound before it is funded.        *)
THEOREM EarnedOnlyWithTime == Spec /\ []FundedOnceBound => EarnedWithTimeOnly
<1>1. AccrualInv /\ NothingYet /\ FundedOnceBound /\ [Next]_vars
        => [\A a \in Accounts : EarnsWithTime(a)]_vars
  BY EarnsStep
<1>2. QED
  BY <1>1, AccrualInitOK, AccrualStepOK, SolventStep, PTL DEF Spec, EarnedWithTimeOnly
=============================================================================
