------------------------- MODULE Operations_proofs -------------------------
(***************************************************************************)
(* Proofs about what operators run: the deployment scripts and the release *)
(* around them (Deployment, Release), the collection run (CollectionRun),  *)
(* and the payout and withdrawal runs (EvidenceSuite, PayoutRun,           *)
(* WithdrawalRun).                                                         *)
(***************************************************************************)
EXTENDS Release, CollectionRun, WithdrawalRun, FiniteSetTheorems, SequenceTheorems,
        NaturalsInduction, WellFoundedInduction, TLAPS

-----------------------------------------------------------------------------
(***************************************************************************)
(* The deployment scripts: transactions against the checkpoint.            *)
(***************************************************************************)
LEMMA CountOfIncrement ==
  ASSUME NEW f, NEW k, NEW e
  PROVE  CountOf(Increment(f, k), e) = IF e = k THEN CountOf(f, k) + 1 ELSE CountOf(f, e)
BY DEF CountOf, Increment, With

LEMMA DomainOfWith ==
  ASSUME NEW f, NEW k, NEW v
  PROVE  DOMAIN With(f, k, v) = DOMAIN f \cup {k}
BY DEF With

\* The transactions that took effect, and those that have or may still have one.
Done(entry) ==
  {tx \in 1 .. Mined : Entry(StepOf(tx)) = entry /\ receipts[tx].status = "ok"}

Live(entry) ==
  {tx \in 1 .. Len(sent) : /\ Entry(StepOf(tx)) = entry
                           /\ tx > Mined \/ receipts[tx].status = "ok"}

\* The checkpoint has the entry on disk.
Kept(entry) ==
  IF entry[1] = "deploy" THEN entry[2] \in DOMAIN contracts ELSE entry[2] \in DOMAIN operations

\* The transaction the process alone knows of.
Awaited == script.state \in {"broadcast", "waiting"}

OnlyHere(entry) ==
  IF Awaited /\ Entry(Step) = entry /\ ~Kept(entry) THEN {script.tx} ELSE {}

Unaccounted(entry) == Live(entry) \ OnlyHere(entry)

ScriptStates == {"stopped", "next", "broadcast", "waiting", "finished"}

Reasons ==
  {"none", "mismatch", "no code", "not canonical", "would revert", "reverted", "accounts", "crash"}

DeploymentTypes ==
  /\ settings \in AllSettings
  /\ script \in [state : ScriptStates, at : Nat, tx : Nat, why : Reasons]
  /\ sent \in Seq(AllSettings \X Nat)
  /\ receipts \in Seq([status : {"ok", "reverted", "none"}, block : Nat])
  /\ Len(receipts) <= Len(sent)
  /\ \A entry : CountOf(lost, entry) \in Nat

\* A step whose hash is awaited without a checkpoint entry is a deployment.
AwaitedIsKnown ==
  /\ script.state = "broadcast" => Step.kind # "deploy"
  /\ Checkpointed /\ script.state = "waiting" /\ Step.kind # "deploy" => Kept(Entry(Step))

AppliedIsDone == \A entry : CountOf(applied, entry) = Cardinality(Done(entry))

Allowed(entry) == CountOf(lost, entry) + (IF Kept(entry) THEN 1 ELSE 0)

LossesAccounted == Checkpointed => \A entry : Cardinality(Unaccounted(entry)) <= Allowed(entry)

DeploymentInv == DeploymentTypes /\ AwaitedIsKnown /\ AppliedIsDone /\ LossesAccounted

LEMMA TransactionsAreFinite ==
  ASSUME DeploymentTypes, NEW entry
  PROVE  /\ IsFiniteSet(Live(entry)) /\ IsFiniteSet(Done(entry)) /\ IsFiniteSet(Unaccounted(entry))
         /\ Cardinality(Live(entry)) \in Nat /\ Cardinality(Done(entry)) \in Nat
         /\ Cardinality(Unaccounted(entry)) \in Nat
<1>1. Len(sent) \in Nat /\ Mined \in Nat
  BY LenProperties DEF DeploymentTypes, Mined
<1>2. IsFiniteSet(1 .. Len(sent)) /\ IsFiniteSet(1 .. Mined)
  BY <1>1, 1 \in Int, FS_Interval
<1>3. Live(entry) \subseteq 1 .. Len(sent) /\ Done(entry) \subseteq 1 .. Mined
      /\ Unaccounted(entry) \subseteq Live(entry)
  BY DEF Live, Done, Unaccounted
<1>4. IsFiniteSet(Live(entry)) /\ IsFiniteSet(Done(entry))
  BY <1>2, <1>3, FS_Subset
<1>5. IsFiniteSet(Unaccounted(entry))
  BY <1>3, <1>4, FS_Subset
<1> QED BY <1>4, <1>5, FS_CardinalityType

LEMMA SmallerCount ==
  ASSUME NEW S, NEW T, IsFiniteSet(S), T \subseteq S
  PROVE  IsFiniteSet(T) /\ Cardinality(T) \in Nat /\ Cardinality(S) \in Nat
         /\ Cardinality(T) <= Cardinality(S)
BY FS_Subset, FS_CardinalityType

LEMMA OneMore ==
  ASSUME NEW S, NEW T, NEW x, IsFiniteSet(S), T \subseteq S \cup {x}
  PROVE  IsFiniteSet(T) /\ Cardinality(T) \in Nat /\ Cardinality(S) \in Nat
         /\ Cardinality(T) <= Cardinality(S) + 1
<1>1. IsFiniteSet(S \cup {x}) /\ Cardinality(S \cup {x}) <= Cardinality(S) + 1
      /\ Cardinality(S) \in Nat
  BY SMTT(40), FS_AddElement, FS_CardinalityType
<1>2. IsFiniteSet(T) /\ Cardinality(T) <= Cardinality(S \cup {x}) /\ Cardinality(T) \in Nat
  BY <1>1, SmallerCount
<1>3. Cardinality(S \cup {x}) \in Nat
  BY <1>1, FS_CardinalityType
<1> QED BY <1>1, <1>2, <1>3

\* The property from the invariant.
LEMMA AccountedMeansAtMostOnce == DeploymentInv => AtMostOnceUnlessLost
<1> SUFFICES ASSUME DeploymentInv, Checkpointed, NEW entry \in DOMAIN applied
             PROVE  applied[entry] <= 1 + CountOf(lost, entry)
  BY DEF AtMostOnceUnlessLost
<1>1. applied[entry] = Cardinality(Done(entry)) /\ CountOf(lost, entry) \in Nat
      /\ Cardinality(Unaccounted(entry)) <= Allowed(entry)
  <2>1. CountOf(applied, entry) = applied[entry]
    BY DEF CountOf
  <2> QED BY <2>1 DEF DeploymentInv, AppliedIsDone, DeploymentTypes, LossesAccounted
<1>2. Done(entry) \subseteq Live(entry)
  BY SMTT(40), LenProperties DEF DeploymentInv, DeploymentTypes, Done, Live, Mined
<1>3. IsFiniteSet(Live(entry)) /\ IsFiniteSet(Unaccounted(entry))
  BY TransactionsAreFinite DEF DeploymentInv
<1>4. Cardinality(Done(entry)) <= Cardinality(Live(entry))
      /\ Cardinality(Done(entry)) \in Nat /\ Cardinality(Live(entry)) \in Nat
  BY <1>2, <1>3, SmallerCount
<1>5. CASE Kept(entry)
  <2>1. Unaccounted(entry) = Live(entry) /\ Allowed(entry) = CountOf(lost, entry) + 1
    BY <1>5 DEF Unaccounted, OnlyHere, Allowed
  <2> QED BY <2>1, <1>1, <1>4
<1>6. CASE ~Kept(entry)
  <2>1. Live(entry) \subseteq Unaccounted(entry) \cup {script.tx}
        /\ Allowed(entry) = CountOf(lost, entry) + 0
    BY <1>6 DEF Unaccounted, OnlyHere, Allowed
  <2>2. Cardinality(Live(entry)) <= Cardinality(Unaccounted(entry)) + 1
        /\ Cardinality(Unaccounted(entry)) \in Nat
    BY <2>1, <1>3, OneMore
  <2> QED BY <2>1, <2>2, <1>1, <1>4
<1> QED BY <1>5, <1>6

\* What the accounting reads of the chain and of the wallet.
\* The entries the state of the process and the checkpoint leave accounted for.
LEMMA LedgerUnchanged ==
  ASSUME UNCHANGED <<sent, receipts>>, NEW entry
  PROVE  /\ Live(entry)' = Live(entry) /\ Done(entry)' = Done(entry)
         /\ Mined' = Mined
BY DEF Live, Done, StepOf, Entry, Mined

LEMMA InitiallyAccounted == DeploymentInit => DeploymentInv
<1> SUFFICES ASSUME DeploymentInit PROVE DeploymentInv
  OBVIOUS
<1>1. sent = <<>> /\ receipts = <<>> /\ applied = <<>> /\ lost = <<>>
      /\ settings \in AllSettings
      /\ script = [state |-> "stopped", at |-> 1, tx |-> NoTx, why |-> "none"]
  BY DEF DeploymentInit
<1>2. Len(sent) = 0 /\ Mined = 0 /\ 1 .. 0 = {}
  BY <1>1, EmptySeq DEF Mined
<1>3. ASSUME NEW entry
      PROVE  /\ CountOf(lost, entry) = 0 /\ CountOf(applied, entry) = 0
             /\ Live(entry) = {} /\ Done(entry) = {} /\ Unaccounted(entry) = {}
  <2>1. DOMAIN lost = {} /\ DOMAIN applied = {}
    BY <1>1
  <2>2. CountOf(lost, entry) = 0 /\ CountOf(applied, entry) = 0
    BY <2>1 DEF CountOf
  <2>3. Live(entry) = {} /\ Done(entry) = {}
    BY <1>2 DEF Live, Done
  <2> QED BY <2>2, <2>3 DEF Unaccounted
<1>4. DeploymentTypes
  <2>1. script \in [state : ScriptStates, at : Nat, tx : Nat, why : Reasons]
    <3> DEFINE one == 1
    <3>1. one \in Nat /\ NoTx \in Nat
      BY DEF NoTx
    <3>3. "stopped" \in ScriptStates /\ "none" \in Reasons
      BY DEF Reasons, ScriptStates
    <3>2. script = [state |-> "stopped", at |-> one, tx |-> NoTx, why |-> "none"]
      BY <1>1
    <3> HIDE DEF one
    <3> QED BY <3>1, <3>2, <3>3
  <2>2. sent \in Seq(AllSettings \X Nat)
        /\ receipts \in Seq([status : {"ok", "reverted", "none"}, block : Nat])
        /\ Len(receipts) <= Len(sent)
    BY <1>1, EmptySeq
  <2> QED BY <1>1, <1>3, <2>1, <2>2 DEF DeploymentTypes
<1>5. AwaitedIsKnown
  BY <1>1 DEF AwaitedIsKnown
<1>6. Cardinality({}) = 0
  BY FS_EmptySet
<1>7. AppliedIsDone
  BY <1>3, <1>6 DEF AppliedIsDone
<1>8. LossesAccounted
  <2> SUFFICES ASSUME NEW entry PROVE Cardinality(Unaccounted(entry)) <= Allowed(entry)
    BY DEF LossesAccounted
  <2> QED BY <1>3, <1>6 DEF Allowed
<1> QED BY <1>4, <1>5, <1>7, <1>8 DEF DeploymentInv

\* A step that sends and mines nothing leaves the transactions' types and effects.
LEMMA QuietOnChain ==
  ASSUME DeploymentInv, ChainSame
  PROVE  /\ AppliedIsDone'
         /\ \A entry : /\ Live(entry)' = Live(entry)
                       /\ CountOf(lost, entry)' = CountOf(lost, entry)
         /\ sent' \in Seq(AllSettings \X Nat)
         /\ receipts' \in Seq([status : {"ok", "reverted", "none"}, block : Nat])
         /\ Len(receipts)' <= Len(sent)'
         /\ \A entry : CountOf(lost, entry)' \in Nat
<1>1. UNCHANGED <<sent, receipts, applied, lost>>
  BY DEF ChainSame
<1>2. ASSUME NEW entry
      PROVE  /\ Live(entry)' = Live(entry) /\ Done(entry)' = Done(entry)
             /\ CountOf(lost, entry)' = CountOf(lost, entry)
             /\ CountOf(applied, entry)' = CountOf(applied, entry)
  BY <1>1, LedgerUnchanged DEF CountOf
<1>3. AppliedIsDone'
  BY <1>2 DEF DeploymentInv, AppliedIsDone
<1> QED BY <1>1, <1>2, <1>3 DEF DeploymentInv, DeploymentTypes

\* Moves of the process that leave every transaction with its claim.
LEMMA SameAccounts ==
  ASSUME DeploymentInv, ChainSame, UNCHANGED Checkpointed,
         \A entry : Kept(entry)' = Kept(entry),
         ~Awaited, ~Awaited'
  PROVE  LossesAccounted'
<1> SUFFICES ASSUME Checkpointed', NEW entry
             PROVE  Cardinality(Unaccounted(entry)') <= Allowed(entry)'
  BY DEF LossesAccounted
<1>1. Unaccounted(entry)' = Live(entry)' /\ Unaccounted(entry) = Live(entry)
  BY DEF Unaccounted, OnlyHere
<1>2. Live(entry)' = Live(entry) /\ CountOf(lost, entry)' = CountOf(lost, entry)
  BY QuietOnChain
<1>3. Allowed(entry)' = Allowed(entry)
  BY <1>2 DEF Allowed
<1> QED BY <1>1, <1>2, <1>3 DEF DeploymentInv, LossesAccounted

\* How a step of the process leaves its record typed.
LEMMA ScriptTyped ==
  ASSUME script \in [state : ScriptStates, at : Nat, tx : Nat, why : Reasons],
         NEW state \in ScriptStates, NEW at \in Nat, NEW tx \in Nat, NEW why \in Reasons
  PROVE  /\ [script EXCEPT !.state = state, !.why = why]
              \in [state : ScriptStates, at : Nat, tx : Nat, why : Reasons]
         /\ [script EXCEPT !.state = state, !.at = at, !.tx = tx]
              \in [state : ScriptStates, at : Nat, tx : Nat, why : Reasons]
         /\ [script EXCEPT !.tx = tx, !.state = state]
              \in [state : ScriptStates, at : Nat, tx : Nat, why : Reasons]
         /\ [script EXCEPT !.state = state, !.tx = tx, !.why = why]
              \in [state : ScriptStates, at : Nat, tx : Nat, why : Reasons]
         /\ [script EXCEPT !.state = state]
              \in [state : ScriptStates, at : Nat, tx : Nat, why : Reasons]
OBVIOUS

LEMMA FailStops ==
  ASSUME DeploymentTypes, NEW why \in Reasons, Fail(why)
  PROVE  /\ script' \in [state : ScriptStates, at : Nat, tx : Nat, why : Reasons]
         /\ script'.state = "stopped"
<1> DEFINE stopped == "stopped"
<1>1. stopped \in ScriptStates
  BY DEF ScriptStates
<1>2. script' = [script EXCEPT !.state = stopped, !.why = why]
      /\ script \in [state : ScriptStates, at : Nat, tx : Nat, why : Reasons]
  BY DEF Fail, DeploymentTypes
<1>3. script'.state = stopped
  BY SMTT(40), <1>2
<1>4. script' \in [state : ScriptStates, at : Nat, tx : Nat, why : Reasons]
  <2> HIDE DEF stopped
  <2> QED BY <1>1, <1>2, ScriptTyped
<1> QED BY <1>3, <1>4

LEMMA AdvanceGoesOn ==
  ASSUME DeploymentTypes, Advance
  PROVE  /\ script' \in [state : ScriptStates, at : Nat, tx : Nat, why : Reasons]
         /\ script'.state = "next"
<1> DEFINE next == "next"
<1> DEFINE at == script.at + 1
<1>1. next \in ScriptStates /\ NoTx \in Nat
  BY DEF ScriptStates, NoTx
<1>2. script \in [state : ScriptStates, at : Nat, tx : Nat, why : Reasons]
  BY DEF DeploymentTypes
<1>3. at \in Nat
  BY <1>2
<1>4. script' = [script EXCEPT !.state = next, !.at = at, !.tx = NoTx]
  BY DEF Advance
<1>5. script'.state = next
  BY SMTT(40), <1>2, <1>4
<1>6. script' \in [state : ScriptStates, at : Nat, tx : Nat, why : Reasons]
  <2> HIDE DEF next, at
  <2> QED BY <1>1, <1>2, <1>3, <1>4, ScriptTyped
<1> QED BY <1>5, <1>6

\* What is left to show of a step that neither sends nor mines.
LEMMA QuietStep ==
  ASSUME DeploymentInv, ChainSame, settings' \in AllSettings,
         script' \in [state : ScriptStates, at : Nat, tx : Nat, why : Reasons],
         AwaitedIsKnown', LossesAccounted'
  PROVE  DeploymentInv'
<1>1. DeploymentTypes' /\ AppliedIsDone'
  BY QuietOnChain DEF DeploymentTypes
<1> QED BY <1>1 DEF DeploymentInv

LEMMA StartKeeps ==
  ASSUME DeploymentInv, NEW s \in AllSettings, StartScript(s)
  PROVE  DeploymentInv'
<1> DEFINE one == 1
<1>1. /\ settings' = s /\ script.state = "stopped"
      /\ script' = [state |-> "next", at |-> one, tx |-> NoTx, why |-> "none"]
      /\ Environments[s].script = Env.script
      /\ UNCHANGED <<contracts, operations, sent, receipts, applied, lost>>
  BY DEF StartScript
<1>2. UNCHANGED Checkpointed
  BY <1>1 DEF Checkpointed, Env
<1>3. one \in Nat /\ NoTx \in Nat
  BY DEF NoTx
<1>4. "next" \in ScriptStates /\ "none" \in Reasons
  BY DEF Reasons, ScriptStates
<1>5. script' \in [state : ScriptStates, at : Nat, tx : Nat, why : Reasons]
  <2> HIDE DEF one
  <2> QED BY <1>1, <1>3, <1>4
<1>6. script'.state = "next"
  BY <1>1
<1>7. AwaitedIsKnown'
  BY <1>6 DEF AwaitedIsKnown
<1>8. ASSUME NEW entry
      PROVE  /\ Live(entry)' = Live(entry) /\ Done(entry)' = Done(entry)
             /\ Kept(entry)' = Kept(entry)
             /\ CountOf(lost, entry)' = CountOf(lost, entry)
             /\ CountOf(applied, entry)' = CountOf(applied, entry)
             /\ Unaccounted(entry)' = Unaccounted(entry)
  <2>1. Live(entry)' = Live(entry) /\ Done(entry)' = Done(entry)
    BY <1>1, LedgerUnchanged
  <2>2. OnlyHere(entry)' = OnlyHere(entry)
    BY <1>1, <1>6 DEF OnlyHere, Awaited
  <2> QED BY <1>1, <2>1, <2>2 DEF Kept, CountOf, Unaccounted
<1>9. AppliedIsDone'
  BY <1>8 DEF DeploymentInv, AppliedIsDone
<1>10. LossesAccounted'
  <2> SUFFICES ASSUME Checkpointed, NEW entry
               PROVE  Cardinality(Unaccounted(entry)') <= Allowed(entry)'
    BY <1>2 DEF LossesAccounted
  <2> QED BY <1>8 DEF DeploymentInv, LossesAccounted, Allowed
<1>11. DeploymentTypes'
  BY <1>1, <1>5, <1>8 DEF DeploymentInv, DeploymentTypes
<1> QED BY <1>7, <1>9, <1>10, <1>11 DEF DeploymentInv

LEMMA ReuseContractKeeps ==
  ASSUME DeploymentInv, ReuseContract PROVE DeploymentInv'
<1>1. /\ ChainSame /\ UNCHANGED <<settings, contracts, operations>> /\ script.state = "next"
      /\ Advance \/ Fail("mismatch") \/ Fail("no code")
  BY DEF ReuseContract, Working
<1>2. /\ script' \in [state : ScriptStates, at : Nat, tx : Nat, why : Reasons]
      /\ script'.state \in {"next", "stopped"}
  <2>1. DeploymentTypes /\ "mismatch" \in Reasons /\ "no code" \in Reasons
    BY DEF Reasons, DeploymentInv
  <2> QED BY <1>1, <2>1, FailStops, AdvanceGoesOn
<1>3. UNCHANGED Checkpointed /\ ~Awaited /\ ~Awaited' /\ settings' \in AllSettings
  BY <1>1, <1>2 DEF Checkpointed, Env, Awaited, DeploymentInv, DeploymentTypes
<1>4. \A entry : Kept(entry)' = Kept(entry)
  BY <1>1 DEF Kept
<1>5. LossesAccounted'
  BY <1>1, <1>3, <1>4, SameAccounts
<1>6. AwaitedIsKnown'
  BY <1>2 DEF AwaitedIsKnown
<1> QED BY <1>1, <1>2, <1>3, <1>5, <1>6, QuietStep

LEMMA ReuseOperationKeeps ==
  ASSUME DeploymentInv, ReuseOperation PROVE DeploymentInv'
<1>1. /\ ChainSame /\ UNCHANGED <<settings, contracts>> /\ script.state = "next"
      /\ Advance \/ Fail("mismatch") \/ Fail("not canonical")
      /\ DOMAIN operations' = DOMAIN operations
  <2> DEFINE entry == operations[Step.key]
  <2> DEFINE confirmed == [operations EXCEPT ![Step.key] =
                             [@ EXCEPT !.status = "confirmed", !.block = Receipt(entry.tx).block]]
  <2>1. /\ ChainSame /\ UNCHANGED <<settings, contracts>> /\ script.state = "next"
        /\ \/ Fail("mismatch") /\ UNCHANGED operations
           \/ Advance /\ operations' = confirmed
           \/ Fail("not canonical") /\ UNCHANGED operations
    BY DEF ReuseOperation, Working
  <2>2. DOMAIN confirmed = DOMAIN operations
    OBVIOUS
  <2> QED BY <2>1, <2>2
<1>2. /\ script' \in [state : ScriptStates, at : Nat, tx : Nat, why : Reasons]
      /\ script'.state \in {"next", "stopped"}
  <2>1. DeploymentTypes /\ "mismatch" \in Reasons /\ "not canonical" \in Reasons
    BY DEF Reasons, DeploymentInv
  <2> QED BY <1>1, <2>1, FailStops, AdvanceGoesOn
<1>3. UNCHANGED Checkpointed /\ ~Awaited /\ ~Awaited' /\ settings' \in AllSettings
  BY <1>1, <1>2 DEF Checkpointed, Env, Awaited, DeploymentInv, DeploymentTypes
<1>4. \A entry : Kept(entry)' = Kept(entry)
  BY <1>1 DEF Kept
<1>5. LossesAccounted'
  BY <1>1, <1>3, <1>4, SameAccounts
<1>6. AwaitedIsKnown'
  BY <1>2 DEF AwaitedIsKnown
<1> QED BY <1>1, <1>2, <1>3, <1>5, <1>6, QuietStep

LEMMA FinishKeeps ==
  ASSUME DeploymentInv, Finish PROVE DeploymentInv'
<1> DEFINE finished == "finished"
<1>1. /\ ChainSame /\ UNCHANGED <<settings, contracts, operations>> /\ script.state = "next"
      /\ script' = [script EXCEPT !.state = finished] \/ Fail("accounts")
  BY DEF Finish
<1>2. /\ script' \in [state : ScriptStates, at : Nat, tx : Nat, why : Reasons]
      /\ script'.state \in {"finished", "stopped"}
  <2>1. DeploymentTypes /\ "accounts" \in Reasons /\ finished \in ScriptStates
    BY DEF Reasons, DeploymentInv, ScriptStates
  <2>2. CASE Fail("accounts")
    BY <2>1, <2>2, FailStops
  <2>3. CASE script' = [script EXCEPT !.state = finished]
    <3>1. script \in [state : ScriptStates, at : Nat, tx : Nat, why : Reasons]
      BY <2>1 DEF DeploymentTypes
    <3>2. script'.state = finished
      BY <3>1, <2>3
    <3>3. script' \in [state : ScriptStates, at : Nat, tx : Nat, why : Reasons]
      <4> HIDE DEF finished
      <4> QED BY <2>1, <2>3, <3>1
    <3> QED BY <3>2, <3>3
  <2> QED BY <1>1, <2>2, <2>3
<1>3. UNCHANGED Checkpointed /\ ~Awaited /\ ~Awaited' /\ settings' \in AllSettings
  BY <1>1, <1>2 DEF Checkpointed, Env, Awaited, DeploymentInv, DeploymentTypes
<1>4. \A entry : Kept(entry)' = Kept(entry)
  BY <1>1 DEF Kept
<1>5. LossesAccounted'
  BY <1>1, <1>3, <1>4, SameAccounts
<1>6. AwaitedIsKnown'
  BY <1>2 DEF AwaitedIsKnown
<1> QED BY <1>1, <1>2, <1>3, <1>5, <1>6, QuietStep

\* Broadcasting adds one transaction, whose hash only the process knows.
LEMMA SendKeeps ==
  ASSUME DeploymentInv, Send PROVE DeploymentInv'
<1>0. /\ Working /\ ~Recorded /\ UNCHANGED <<settings, contracts, operations, receipts, applied, lost>>
      /\ \/ /\ sent' = Append(sent, <<settings, script.at>>)
            /\ script' = [script EXCEPT !.tx = Len(sent) + 1,
                                        !.state = IF Checkpointed /\ Step.kind # "deploy"
                                                  THEN "broadcast" ELSE "waiting"]
         \/ Fail("would revert") /\ UNCHANGED sent
  BY DEF Send
<1>1. CASE Fail("would revert") /\ UNCHANGED sent
  <2>1. DeploymentTypes /\ "would revert" \in Reasons
    BY DEF DeploymentInv, Reasons
  <2>2. /\ script' \in [state : ScriptStates, at : Nat, tx : Nat, why : Reasons]
        /\ script'.state = "stopped"
    BY <1>1, <2>1, FailStops
  <2>3. ~Awaited /\ ~Awaited'
    BY <1>0, <2>2 DEF Working, Awaited
  <2>4. AwaitedIsKnown'
    BY <2>2 DEF AwaitedIsKnown
  <2>5. ASSUME NEW entry
        PROVE  /\ Live(entry)' = Live(entry) /\ Done(entry)' = Done(entry)
               /\ Kept(entry)' = Kept(entry)
               /\ CountOf(lost, entry)' = CountOf(lost, entry)
               /\ CountOf(applied, entry)' = CountOf(applied, entry)
               /\ Unaccounted(entry)' = Unaccounted(entry)
    <3>1. Live(entry)' = Live(entry) /\ Done(entry)' = Done(entry)
      BY <1>0, <1>1, LedgerUnchanged
    <3>2. OnlyHere(entry)' = OnlyHere(entry)
      BY <2>3 DEF OnlyHere
    <3> QED BY <1>0, <3>1, <3>2 DEF Kept, CountOf, Unaccounted
  <2>6. AppliedIsDone'
    BY <2>5 DEF DeploymentInv, AppliedIsDone
  <2>7. UNCHANGED Checkpointed
    BY <1>0 DEF Checkpointed, Env
  <2>8. LossesAccounted'
    <3> SUFFICES ASSUME Checkpointed, NEW entry
                 PROVE  Cardinality(Unaccounted(entry)') <= Allowed(entry)'
      BY <2>7 DEF LossesAccounted
    <3> QED BY <2>5 DEF DeploymentInv, LossesAccounted, Allowed
  <2>9. DeploymentTypes'
    BY <1>0, <1>1, <2>2, <2>5 DEF DeploymentInv, DeploymentTypes
  <2> QED BY <2>4, <2>6, <2>8, <2>9 DEF DeploymentInv
<1>2. CASE /\ sent' = Append(sent, <<settings, script.at>>)
           /\ script' = [script EXCEPT !.tx = Len(sent) + 1,
                                       !.state = IF Checkpointed /\ Step.kind # "deploy"
                                                 THEN "broadcast" ELSE "waiting"]
  <2> DEFINE state == IF Checkpointed /\ Step.kind # "deploy" THEN "broadcast" ELSE "waiting"
  <2>0. PICK tx : tx = Len(sent) + 1
    OBVIOUS
  <2>1. /\ settings \in AllSettings /\ sent \in Seq(AllSettings \X Nat)
        /\ script \in [state : ScriptStates, at : Nat, tx : Nat, why : Reasons]
        /\ Len(receipts) <= Len(sent) /\ Len(receipts) \in Nat /\ Len(sent) \in Nat
    BY LenProperties DEF DeploymentInv, DeploymentTypes
  <2>2. state \in {"broadcast", "waiting"} /\ state \in ScriptStates /\ tx \in Nat
    BY <2>0, <2>1 DEF ScriptStates
  <2>3. script' = [script EXCEPT !.tx = tx, !.state = state]
    BY <1>2, <2>0
  <2>4. /\ script' \in [state : ScriptStates, at : Nat, tx : Nat, why : Reasons]
        /\ script'.state = state /\ script'.tx = tx /\ script'.at = script.at
    <3> HIDE DEF state
    <3> QED BY <2>1, <2>2, <2>3
  <2>5. /\ sent' \in Seq(AllSettings \X Nat) /\ Len(sent') = tx
        /\ \A i \in 1 .. Len(sent) : sent'[i] = sent[i]
        /\ sent'[tx] = <<settings, script.at>>
    <3> DEFINE ref == <<settings, script.at>>
    <3>1. ref \in AllSettings \X Nat
      BY <2>1
    <3>2. sent' = Append(sent, ref)
      BY <1>2
    <3> HIDE DEF ref
    <3>3. /\ sent' \in Seq(AllSettings \X Nat) /\ Len(sent') = Len(sent) + 1
          /\ \A i \in 1 .. Len(sent) : sent'[i] = sent[i]
          /\ sent'[Len(sent) + 1] = ref
      BY <2>1, <3>1, <3>2, AppendProperties
    <3> QED BY <3>3, <2>0 DEF ref
  <2>6. Step' = Step /\ UNCHANGED Checkpointed
    BY <1>0, <2>4 DEF Step, Checkpointed, Env
  <2>7. AwaitedIsKnown'
    BY <2>4, <2>6 DEF AwaitedIsKnown
  <2>8. \A i \in 1 .. Len(sent) : StepOf(i)' = StepOf(i)
    BY <2>5 DEF StepOf
  <2>9. StepOf(tx)' = Step
    BY <2>5 DEF StepOf, Step
  <2>10. ~Kept(Entry(Step))
    BY <1>0 DEF Recorded, Kept, Entry
  <2>11. ASSUME NEW entry
         PROVE  /\ Done(entry)' = Done(entry)
                /\ Unaccounted(entry)' \subseteq Unaccounted(entry)
                /\ Kept(entry)' = Kept(entry)
                /\ CountOf(lost, entry)' = CountOf(lost, entry)
                /\ CountOf(applied, entry)' = CountOf(applied, entry)
    <3>1. Kept(entry)' = Kept(entry) /\ Mined' = Mined /\ Mined = Len(receipts)
          /\ CountOf(lost, entry)' = CountOf(lost, entry)
          /\ CountOf(applied, entry)' = CountOf(applied, entry)
      BY <1>0 DEF Kept, Mined, CountOf
    <3>2. 1 .. Mined \subseteq 1 .. Len(sent)
      BY <2>1, <3>1
    <3>3. Done(entry)' = Done(entry)
      BY <1>0, <2>8, <3>1, <3>2 DEF Done, Entry
    <3>4. Live(entry)' \subseteq Live(entry) \cup {tx}
      <4>1. ASSUME NEW i \in Live(entry)', i # tx PROVE i \in Live(entry)
        <5>1. i \in 1 .. Len(sent') /\ Entry(StepOf(i)') = entry
              /\ (i > Mined \/ receipts[i].status = "ok")
          BY <1>0, <3>1 DEF Live, Entry
        <5>2. i \in 1 .. Len(sent)
          BY SMTT(40), <5>1, <4>1, <2>0, <2>1, <2>5
        <5> QED BY <5>1, <5>2, <2>8 DEF Live
      <4> QED BY <4>1
    <3>5. OnlyHere(entry) = {} /\ Unaccounted(entry) = Live(entry)
      BY <1>0 DEF OnlyHere, Working, Awaited, Unaccounted
    <3>6. CASE Entry(Step) = entry
      <4>1. OnlyHere(entry)' = {tx}
        <5>1. Awaited' /\ Entry(Step)' = entry /\ ~Kept(entry)'
          BY <2>2, <2>4, <2>6, <2>10, <3>1, <3>6 DEF Awaited, Entry
        <5> QED BY <5>1, <2>4 DEF OnlyHere
      <4> QED BY <4>1, <3>1, <3>3, <3>4, <3>5 DEF Unaccounted
    <3>7. CASE Entry(Step) # entry
      <4>1. tx \notin Live(entry)'
        BY <2>9, <3>7 DEF Live, Entry
      <4> QED BY <4>1, <3>1, <3>3, <3>4, <3>5 DEF Unaccounted
    <3> QED BY <3>6, <3>7
  <2>12. AppliedIsDone'
    BY <2>11 DEF DeploymentInv, AppliedIsDone
  <2>13. LossesAccounted'
    <3> SUFFICES ASSUME Checkpointed, NEW entry
                 PROVE  Cardinality(Unaccounted(entry)') <= Allowed(entry)'
      BY <2>6 DEF LossesAccounted
    <3>1. IsFiniteSet(Unaccounted(entry)) /\ CountOf(lost, entry) \in Nat
      BY TransactionsAreFinite DEF DeploymentInv, DeploymentTypes
    <3>2. Cardinality(Unaccounted(entry)') <= Cardinality(Unaccounted(entry))
          /\ Cardinality(Unaccounted(entry)') \in Nat /\ Cardinality(Unaccounted(entry)) \in Nat
      BY <2>11, <3>1, SmallerCount
    <3>3. Cardinality(Unaccounted(entry)) <= Allowed(entry) /\ Allowed(entry)' = Allowed(entry)
          /\ Allowed(entry) \in Nat
      BY <2>11, <3>1 DEF DeploymentInv, LossesAccounted, Allowed
    <3> QED BY <3>2, <3>3
  <2>14. DeploymentTypes'
    <3>1. settings' = settings /\ receipts' = receipts
      BY <1>0
    <3>2. Len(receipts') = Len(receipts) /\ Len(sent') = Len(sent) + 1
      BY <3>1, <2>0, <2>5
    <3>3. Len(receipts') <= Len(sent')
      BY <3>2, <2>1
    <3> QED BY <3>1, <3>3, <2>4, <2>5, <2>11 DEF DeploymentInv, DeploymentTypes
  <2> QED BY <2>7, <2>12, <2>13, <2>14 DEF DeploymentInv
<1> QED BY <1>0, <1>1, <1>2

\* An entry written to disk pays for the transaction only the process knew.
LEMMA EntryWritten ==
  ASSUME DeploymentInv, ChainSame, UNCHANGED Checkpointed, Checkpointed,
         \A entry : Kept(entry) => Kept(entry)',
         NEW written, written = Entry(Step), Kept(written)',
         Entry(Step)' = written \/ ~Awaited'
  PROVE  LossesAccounted'
<1> SUFFICES ASSUME NEW entry
             PROVE  Cardinality(Unaccounted(entry)') <= Allowed(entry)'
  BY DEF LossesAccounted
<1>1. Live(entry)' = Live(entry) /\ CountOf(lost, entry)' = CountOf(lost, entry)
      /\ CountOf(lost, entry) \in Nat
  BY QuietOnChain DEF DeploymentInv, DeploymentTypes
<1>2. OnlyHere(entry)' = {}
  BY DEF OnlyHere
<1>3. Unaccounted(entry)' = Live(entry)
  BY <1>1, <1>2 DEF Unaccounted
<1>4. IsFiniteSet(Unaccounted(entry)) /\ Cardinality(Unaccounted(entry)) <= Allowed(entry)
  BY TransactionsAreFinite DEF DeploymentInv, LossesAccounted
<1>5. CASE OnlyHere(entry) = {}
  <2>1. Unaccounted(entry) = Live(entry)
    BY <1>5 DEF Unaccounted
  <2>2. Cardinality(Live(entry)) \in Nat
    BY <1>4, <2>1, FS_CardinalityType
  <2>3. Allowed(entry) <= Allowed(entry)' /\ Allowed(entry) \in Nat /\ Allowed(entry)' \in Nat
    BY <1>1 DEF Allowed
  <2> QED BY <1>3, <1>4, <2>1, <2>2, <2>3
<1>6. CASE OnlyHere(entry) # {}
  <2>1. Entry(Step) = entry /\ ~Kept(entry) /\ OnlyHere(entry) = {script.tx}
    BY <1>6 DEF OnlyHere
  <2>2. Kept(entry)'
    BY <2>1
  <2>3. Live(entry) \subseteq Unaccounted(entry) \cup {script.tx}
    BY <2>1 DEF Unaccounted
  <2>4. Cardinality(Live(entry)) <= Cardinality(Unaccounted(entry)) + 1
        /\ Cardinality(Live(entry)) \in Nat /\ Cardinality(Unaccounted(entry)) \in Nat
    BY <1>4, <2>3, OneMore
  <2>5. Allowed(entry)' = Allowed(entry) + 1 /\ Allowed(entry) \in Nat
    BY <1>1, <2>1, <2>2 DEF Allowed
  <2> QED BY <1>3, <1>4, <2>4, <2>5
<1> QED BY <1>5, <1>6

LEMMA SavePendingKeeps ==
  ASSUME DeploymentInv, SavePending PROVE DeploymentInv'
<1> DEFINE waiting == "waiting"
<1>0. PICK written : written = Entry(Step)
  OBVIOUS
<1>1. /\ script.state = "broadcast" /\ ChainSame
      /\ script' = [script EXCEPT !.state = waiting]
      /\ settings' = settings /\ contracts' = contracts
      /\ DOMAIN operations' = DOMAIN operations \cup {Step.key}
  BY DomainOfWith DEF SavePending
<1>2. script \in [state : ScriptStates, at : Nat, tx : Nat, why : Reasons]
      /\ waiting \in ScriptStates /\ settings' \in AllSettings
  BY <1>1 DEF DeploymentInv, DeploymentTypes, ScriptStates
<1>3. /\ script'.state = waiting /\ script'.at = script.at
      /\ script' \in [state : ScriptStates, at : Nat, tx : Nat, why : Reasons]
  <2> HIDE DEF waiting
  <2> QED BY <1>1, <1>2
<1>4. Step' = Step /\ Entry(Step)' = written /\ UNCHANGED Checkpointed
  BY <1>0, <1>1, <1>3 DEF Step, Entry, Checkpointed, Env
<1>5. Step.kind # "deploy"
  BY <1>1 DEF DeploymentInv, AwaitedIsKnown
<1>6. Kept(written)' /\ \A entry : Kept(entry) => Kept(entry)'
  BY <1>0, <1>1, <1>5 DEF Kept, Entry
<1>7. AwaitedIsKnown'
  <2>1. Kept(Entry(Step))'
    BY <1>4, <1>6
  <2> QED BY <1>3, <2>1 DEF AwaitedIsKnown
<1>8. LossesAccounted'
  <2>1. CASE Checkpointed
    <3>1. Awaited
      BY <1>1 DEF Awaited
    <3> QED BY <1>0, <1>1, <1>4, <1>6, <2>1, <3>1, EntryWritten
  <2>2. CASE ~Checkpointed
    BY <1>4, <2>2 DEF LossesAccounted
  <2> QED BY <2>1, <2>2
<1> QED BY <1>1, <1>2, <1>3, <1>7, <1>8, QuietStep

\* A transaction that is in a block without success is nobody's any more.
LEMMA FailureForgotten ==
  ASSUME DeploymentInv, ChainSame, UNCHANGED Checkpointed, Checkpointed,
         \A entry : Kept(entry)' = Kept(entry),
         script.tx \in 1 .. Mined, receipts[script.tx].status # "ok", ~Awaited'
  PROVE  LossesAccounted'
<1> SUFFICES ASSUME NEW entry
             PROVE  Cardinality(Unaccounted(entry)') <= Allowed(entry)'
  BY DEF LossesAccounted
<1>1. Live(entry)' = Live(entry) /\ CountOf(lost, entry)' = CountOf(lost, entry)
  BY QuietOnChain
<1>2. Unaccounted(entry)' = Live(entry)
  BY <1>1 DEF Unaccounted, OnlyHere
<1>3. script.tx \notin Live(entry)
  BY SMTT(40), LenProperties DEF Live, DeploymentInv, DeploymentTypes, Mined
<1>4. Unaccounted(entry) = Live(entry)
  BY <1>3 DEF Unaccounted, OnlyHere
<1>5. Allowed(entry)' = Allowed(entry)
  BY <1>1 DEF Allowed
<1> QED BY <1>2, <1>4, <1>5 DEF DeploymentInv, LossesAccounted

LEMMA SaveConfirmedKeeps ==
  ASSUME DeploymentInv, SaveConfirmed PROVE DeploymentInv'
<1>0. PICK written : written = Entry(Step)
  OBVIOUS
<1>1. /\ script.state = "waiting" /\ script.tx \in 1 .. Mined
      /\ ChainSame /\ settings' = settings /\ UNCHANGED Checkpointed
  BY DEF SaveConfirmed, Checkpointed, Env
<1>2. DeploymentTypes /\ settings' \in AllSettings /\ Awaited
  BY <1>1 DEF DeploymentInv, DeploymentTypes, Awaited
<1>3. ~Checkpointed => LossesAccounted'
  BY <1>1 DEF LossesAccounted
<1>4. CASE Succeeded(Receipt(script.tx))
  <2>1. Advance
    BY <1>4 DEF SaveConfirmed
  <2>2. /\ script' \in [state : ScriptStates, at : Nat, tx : Nat, why : Reasons]
        /\ script'.state = "next"
    BY <1>2, <2>1, AdvanceGoesOn
  <2>3. AwaitedIsKnown' /\ ~Awaited'
    BY <2>2 DEF AwaitedIsKnown, Awaited
  <2>4. CASE Checkpointed
    <3>1. ASSUME Step.kind = "deploy" PROVE LossesAccounted'
      <4>0. /\ contracts' = With(contracts, Step.key, [config |-> Step.config, tx |-> script.tx])
            /\ operations' = operations
        BY <1>4, <2>4, <3>1 DEF SaveConfirmed
      <4>1. DOMAIN contracts' = DOMAIN contracts \cup {Step.key} /\ operations' = operations
        BY <4>0, DomainOfWith
      <4>2. Kept(written)' /\ \A entry : Kept(entry) => Kept(entry)'
        BY <1>0, <3>1, <4>1 DEF Kept, Entry
      <4> QED BY <1>0, <1>1, <1>2, <2>3, <2>4, <4>2, EntryWritten
    <3>2. ASSUME Step.kind # "deploy" PROVE LossesAccounted'
      <4>1. DOMAIN operations' = DOMAIN operations \cup {Step.key} /\ contracts' = contracts
        BY ZenonT(60), <1>4, <2>4, <3>2, DomainOfWith DEF SaveConfirmed
      <4>2. Kept(written)' /\ \A entry : Kept(entry) => Kept(entry)'
        BY <1>0, <3>2, <4>1 DEF Kept, Entry
      <4> QED BY <1>0, <1>1, <1>2, <2>3, <2>4, <4>2, EntryWritten
    <3>3. LossesAccounted'
      BY <3>1, <3>2
    <3> QED BY <1>1, <1>2, <2>2, <2>3, <3>3, QuietStep
  <2>5. CASE ~Checkpointed
    BY <1>1, <1>2, <1>3, <2>2, <2>3, <2>5, QuietStep
  <2> QED BY <2>4, <2>5
<1>5. CASE ~Succeeded(Receipt(script.tx))
  <2>1. Fail("reverted") /\ UNCHANGED <<contracts, operations>> /\ "reverted" \in Reasons
    BY <1>5 DEF SaveConfirmed, Reasons
  <2>2. /\ script' \in [state : ScriptStates, at : Nat, tx : Nat, why : Reasons]
        /\ script'.state = "stopped"
    BY <1>2, <2>1, FailStops
  <2>3. AwaitedIsKnown' /\ ~Awaited'
    BY <2>2 DEF AwaitedIsKnown, Awaited
  <2>4. receipts[script.tx].status # "ok"
    BY <1>1, <1>5 DEF Receipt, Succeeded
  <2>5. \A entry : Kept(entry)' = Kept(entry)
    BY <2>1 DEF Kept
  <2>6. LossesAccounted'
    BY <1>1, <1>3, <2>3, <2>4, <2>5, FailureForgotten
  <2> QED BY <1>1, <1>2, <2>2, <2>3, <2>6, QuietStep
<1> QED BY <1>4, <1>5

\* What the process forgets when it dies is what "lost" counts.
LEMMA CrashKeeps ==
  ASSUME DeploymentInv, Crash PROVE DeploymentInv'
<1> DEFINE stopped == "stopped"
<1> DEFINE crash == "crash"
<1>0. PICK died : died = Entry(Step)
  OBVIOUS
<1>1. /\ script.state \in {"next", "broadcast", "waiting"}
      /\ script' = [script EXCEPT !.state = stopped, !.tx = NoTx, !.why = crash]
      /\ lost' = IF Unnamed THEN Increment(lost, died) ELSE lost
      /\ settings' = settings
      /\ UNCHANGED <<contracts, operations, sent, receipts, applied>>
  BY <1>0 DEF Crash, Running
<1>2. /\ DeploymentTypes /\ stopped \in ScriptStates /\ crash \in Reasons /\ NoTx \in Nat
      /\ script \in [state : ScriptStates, at : Nat, tx : Nat, why : Reasons]
  BY DEF DeploymentInv, DeploymentTypes, ScriptStates, Reasons, NoTx
<1>3. script'.state = stopped
      /\ script' \in [state : ScriptStates, at : Nat, tx : Nat, why : Reasons]
  <2> HIDE DEF stopped, crash
  <2> QED BY <1>1, <1>2
<1>4. AwaitedIsKnown' /\ ~Awaited' /\ UNCHANGED Checkpointed
  BY <1>1, <1>3 DEF AwaitedIsKnown, Awaited, Checkpointed, Env
<1>5. ASSUME NEW entry
      PROVE  /\ Live(entry)' = Live(entry) /\ Done(entry)' = Done(entry)
             /\ Kept(entry)' = Kept(entry)
             /\ CountOf(applied, entry)' = CountOf(applied, entry)
             /\ CountOf(lost, entry) \in Nat
             /\ CountOf(lost, entry)' = CountOf(lost, entry)
                                        + (IF Unnamed /\ entry = died THEN 1 ELSE 0)
  <2>1. CountOf(lost, entry) \in Nat
    BY <1>2 DEF DeploymentTypes
  <2>2. CountOf(lost', entry) = CountOf(lost, entry)
                                + (IF Unnamed /\ entry = died THEN 1 ELSE 0)
    <3>1. CASE Unnamed
      BY <1>1, <2>1, <3>1, CountOfIncrement
    <3>2. CASE ~Unnamed
      BY <1>1, <2>1, <3>2
    <3> QED BY <3>1, <3>2
  <2>3. CountOf(lost, entry)' = CountOf(lost', entry)
    BY DEF CountOf
  <2> QED BY <1>1, <2>1, <2>2, <2>3, LedgerUnchanged DEF Kept, CountOf
<1>6. AppliedIsDone'
  BY <1>5 DEF DeploymentInv, AppliedIsDone
<1>7. LossesAccounted'
  <2> SUFFICES ASSUME Checkpointed, NEW entry
               PROVE  Cardinality(Unaccounted(entry)') <= Allowed(entry)'
    BY <1>4 DEF LossesAccounted
  <2>1. Unaccounted(entry)' = Live(entry)
    BY <1>4, <1>5 DEF Unaccounted, OnlyHere
  <2>2. IsFiniteSet(Unaccounted(entry)) /\ Cardinality(Unaccounted(entry)) <= Allowed(entry)
    BY TransactionsAreFinite DEF DeploymentInv, LossesAccounted
  <2>3. Allowed(entry)' = Allowed(entry) + (IF Unnamed /\ entry = died THEN 1 ELSE 0)
        /\ Allowed(entry) \in Nat
    BY <1>5 DEF Allowed
  <2>4. CASE OnlyHere(entry) = {}
    <3>1. Unaccounted(entry) = Live(entry) /\ Cardinality(Unaccounted(entry)) \in Nat
      BY <2>2, <2>4, FS_CardinalityType DEF Unaccounted
    <3> QED BY <2>1, <2>2, <2>3, <3>1
  <2>5. CASE OnlyHere(entry) # {}
    <3>1. /\ entry = died /\ ~Kept(entry) /\ Awaited
          /\ OnlyHere(entry) = {script.tx}
      BY <1>0, <2>5 DEF OnlyHere
    <3>2. Unnamed
      <4>1. ~Kept(Entry(Step))
        BY <1>0, <3>1
      <4> QED BY <3>1, <4>1 DEF Unnamed, Awaited, DeploymentInv, AwaitedIsKnown
    <3>3. Live(entry) \subseteq Unaccounted(entry) \cup {script.tx}
      BY <3>1 DEF Unaccounted
    <3>4. Cardinality(Live(entry)) <= Cardinality(Unaccounted(entry)) + 1
          /\ Cardinality(Live(entry)) \in Nat /\ Cardinality(Unaccounted(entry)) \in Nat
      BY <2>2, <3>3, OneMore
    <3> QED BY <2>1, <2>2, <2>3, <3>1, <3>2, <3>4
  <2> QED BY <2>4, <2>5
<1>8. DeploymentTypes'
  <2>1. ASSUME NEW entry PROVE CountOf(lost, entry)' \in Nat
    BY <1>5
  <2> QED BY <1>1, <1>2, <1>3, <2>1 DEF DeploymentTypes
<1> QED BY <1>4, <1>6, <1>7, <1>8 DEF DeploymentInv

\* Mining settles one transaction more: it keeps its place among the live ones or leaves.
LEMMA MineKeeps ==
  ASSUME DeploymentInv, NEW late \in BOOLEAN, Mine(late) PROVE DeploymentInv'
<1> DEFINE Status == {"ok", "reverted", "none"}
<1>0. PICK tip : tip = Mined + 1
  OBVIOUS
<1>1. PICK ok, named :
        /\ ok = (~late /\ Holds(StepOf(tip).needs, chain))
        /\ named = Entry(StepOf(tip))
  OBVIOUS
<1> DEFINE status == IF ok THEN "ok" ELSE "reverted"
<1> DEFINE one == 1
<1> DEFINE receipt == [status |-> status, block |-> one]
<1>2. /\ Pending # <<>>
      /\ receipts' = Append(receipts, receipt)
      /\ applied' = IF ok THEN Increment(applied, named) ELSE applied
      /\ UNCHANGED <<settings, script, contracts, operations, sent, lost>>
  BY <1>0, <1>1 DEF Mine
<1>3. /\ sent \in Seq(AllSettings \X Nat) /\ receipts \in Seq([status : Status, block : Nat])
      /\ Len(receipts) \in Nat /\ Len(sent) \in Nat /\ Len(receipts) <= Len(sent)
      /\ Mined = Len(receipts)
  BY LenProperties DEF DeploymentInv, DeploymentTypes, Mined
<1>4. Len(receipts) + 1 <= Len(sent)
  <2> SUFFICES ASSUME Len(receipts) = Len(sent) PROVE FALSE
    BY <1>3
  <2>1. Pending = SubSeq(sent, Len(sent) + 1, Len(sent))
    BY <1>3 DEF Pending
  <2>2. SubSeq(sent, Len(sent) + 1, Len(sent)) = <<>>
    BY <1>3
  <2> QED BY <1>2, <2>1, <2>2
<1>5. receipt \in [status : Status, block : Nat] /\ receipt.status = status
  <2>1. status \in Status /\ one \in Nat
    OBVIOUS
  <2> HIDE DEF status, one, Status
  <2> QED BY <2>1
<1>6. /\ receipts' \in Seq([status : Status, block : Nat]) /\ Len(receipts') = Len(receipts) + 1
      /\ \A i \in 1 .. Len(receipts) : receipts'[i] = receipts[i]
      /\ receipts'[Len(receipts) + 1] = receipt
  <2> HIDE DEF receipt, Status
  <2> QED BY <1>2, <1>3, <1>5, AppendProperties
<1>7. /\ Mined' = tip /\ tip = Mined + 1 /\ tip \in 1 .. Len(sent)
      /\ receipts'[tip].status = status
      /\ \A i \in 1 .. Mined : receipts'[i] = receipts[i]
  BY <1>0, <1>3, <1>4, <1>5, <1>6 DEF Mined
<1>8. \A i : StepOf(i)' = StepOf(i) /\ Entry(StepOf(i))' = Entry(StepOf(i))
  BY <1>2 DEF StepOf, Entry
<1> HIDE DEF receipt, Status
<1>9. ASSUME NEW entry
      PROVE  /\ Live(entry)' \subseteq Live(entry)
             /\ Done(entry)' = Done(entry) \cup (IF ok /\ named = entry THEN {tip} ELSE {})
             /\ tip \notin Done(entry)
             /\ Kept(entry)' = Kept(entry) /\ OnlyHere(entry)' = OnlyHere(entry)
             /\ CountOf(lost, entry)' = CountOf(lost, entry)
  <2>1. Kept(entry)' = Kept(entry) /\ CountOf(lost, entry)' = CountOf(lost, entry)
    BY <1>2 DEF Kept, CountOf
  <2>2. OnlyHere(entry)' = OnlyHere(entry)
    BY <1>2, <2>1 DEF OnlyHere, Awaited, Step, Entry
  <2>3. Live(entry)' \subseteq Live(entry)
    <3> SUFFICES ASSUME NEW i \in Live(entry)' PROVE i \in Live(entry)
      OBVIOUS
    <3>1. /\ i \in 1 .. Len(sent) /\ Entry(StepOf(i)) = entry
          /\ i > Mined' \/ receipts'[i].status = "ok"
      BY <1>2, <1>8 DEF Live
    <3>2. i > Mined \/ receipts[i].status = "ok"
      BY SMTT(40), <3>1, <1>3, <1>7
    <3> QED BY <3>1, <3>2 DEF Live
  <2>4. ASSUME NEW i
        PROVE  i \in Done(entry)' <=> \/ i \in Done(entry)
                                      \/ i = tip /\ ok /\ named = entry
    <3>1. i \in Done(entry)' <=> /\ i \in 1 .. tip /\ Entry(StepOf(i)) = entry
                                 /\ receipts'[i].status = "ok"
      BY <1>7, <1>8 DEF Done
    <3>2. CASE i = tip
      <4>1. tip \in 1 .. tip /\ tip \notin 1 .. Mined
        BY <1>3, <1>7
      <4>2. receipts'[tip].status = "ok" <=> ok
        BY <1>7
      <4> QED BY <1>1, <3>1, <3>2, <4>1, <4>2 DEF Done
    <3>3. CASE i # tip
      <4>1. i \in 1 .. tip <=> i \in 1 .. Mined
        BY <1>3, <1>7, <3>3
      <4> QED BY <1>7, <3>1, <3>3, <4>1 DEF Done
    <3> QED BY <3>2, <3>3
  <2>5. tip \notin Done(entry)
    BY <1>3, <1>7 DEF Done
  <2> QED BY <2>1, <2>2, <2>3, <2>4, <2>5
<1>10. AppliedIsDone'
  <2> SUFFICES ASSUME NEW entry PROVE CountOf(applied', entry) = Cardinality(Done(entry)')
    BY DEF AppliedIsDone, CountOf
  <2>1. CountOf(applied, entry) = Cardinality(Done(entry)) /\ IsFiniteSet(Done(entry))
        /\ Cardinality(Done(entry)) \in Nat
    BY TransactionsAreFinite DEF DeploymentInv, AppliedIsDone
  <2>2. CASE ok /\ named = entry
    <3>1. Done(entry)' = Done(entry) \cup {tip} /\ tip \notin Done(entry)
      BY <1>9, <2>2
    <3>2. Cardinality(Done(entry)') = Cardinality(Done(entry)) + 1
      BY <2>1, <3>1, FS_AddElement
    <3>3. CountOf(applied', entry) = CountOf(applied, entry) + 1
      BY <1>2, <2>2, CountOfIncrement
    <3> QED BY <2>1, <3>2, <3>3
  <2>3. CASE ~(ok /\ named = entry)
    <3>1. Done(entry)' = Done(entry)
      BY <1>9, <2>3
    <3>2. CountOf(applied', entry) = CountOf(applied, entry)
      BY <1>2, <2>3, CountOfIncrement
    <3> QED BY <2>1, <3>1, <3>2
  <2> QED BY <2>2, <2>3
<1>11. AwaitedIsKnown'
  <2>1. UNCHANGED <<Step, Checkpointed, script>> /\ Kept(Entry(Step))' = Kept(Entry(Step))
    BY <1>2 DEF Step, Checkpointed, Env, Kept, Entry
  <2> QED BY <2>1 DEF DeploymentInv, AwaitedIsKnown
<1>12. LossesAccounted'
  <2>0. Checkpointed' = Checkpointed
    BY <1>2 DEF Checkpointed, Env
  <2> SUFFICES ASSUME Checkpointed, NEW entry
               PROVE  Cardinality(Unaccounted(entry)') <= Allowed(entry)'
    BY <2>0 DEF LossesAccounted
  <2>1. IsFiniteSet(Unaccounted(entry)) /\ CountOf(lost, entry) \in Nat
    BY TransactionsAreFinite DEF DeploymentInv, DeploymentTypes
  <2>2. Unaccounted(entry)' \subseteq Unaccounted(entry)
    BY <1>9 DEF Unaccounted
  <2>3. Cardinality(Unaccounted(entry)') <= Cardinality(Unaccounted(entry))
        /\ Cardinality(Unaccounted(entry)') \in Nat /\ Cardinality(Unaccounted(entry)) \in Nat
    BY <2>1, <2>2, SmallerCount
  <2>4. Cardinality(Unaccounted(entry)) <= Allowed(entry) /\ Allowed(entry)' = Allowed(entry)
        /\ Allowed(entry) \in Nat
    BY <1>9, <2>1 DEF DeploymentInv, LossesAccounted, Allowed
  <2> QED BY <2>3, <2>4
<1>13. DeploymentTypes'
  <2>1. \A entry : CountOf(lost, entry)' \in Nat
    BY <1>2 DEF DeploymentInv, DeploymentTypes, CountOf
  <2>2. Len(receipts') <= Len(sent') /\ sent' = sent /\ settings' = settings /\ script' = script
    BY <1>2, <1>3, <1>4, <1>6
  <2> QED BY <1>6, <2>1, <2>2 DEF DeploymentInv, DeploymentTypes, Status
<1> QED BY <1>10, <1>11, <1>12, <1>13 DEF DeploymentInv

\* A reorganisation takes the tip's effect away or leaves it as it is.
LEMMA ReorgKeeps ==
  ASSUME DeploymentInv, NEW dropped \in BOOLEAN, Reorg(dropped) PROVE DeploymentInv'
<1> DEFINE Receipts == [status : {"ok", "reverted", "none"}, block : Nat]
<1>0. PICK tip, named : tip = Mined /\ named = Entry(StepOf(tip))
  OBVIOUS
<1>1. /\ tip > 0 /\ Receipt(tip).status = "ok"
      /\ UNCHANGED <<settings, script, contracts, operations, sent, lost>>
      /\ IF dropped
         THEN /\ receipts' = [receipts EXCEPT ![tip] = [status |-> "none", block |-> 0]]
              /\ applied' = [applied EXCEPT ![named] = @ - 1]
         ELSE /\ receipts' = [receipts EXCEPT ![tip].block = @ + 1]
              /\ applied' = applied
  BY <1>0 DEF Reorg
<1>2. /\ sent \in Seq(AllSettings \X Nat) /\ receipts \in Seq(Receipts)
      /\ Len(receipts) \in Nat /\ Len(sent) \in Nat /\ Len(receipts) <= Len(sent)
      /\ Mined = Len(receipts) /\ tip \in 1 .. Len(receipts) /\ tip = Mined
  BY <1>0, <1>1, LenProperties DEF DeploymentInv, DeploymentTypes, Mined
<1>3. receipts[tip] \in Receipts /\ receipts[tip].status = "ok"
  BY <1>0, <1>1, <1>2, ElementOfSeq DEF Receipt
<1>4. PICK status, receipt :
        /\ receipts' = [receipts EXCEPT ![tip] = receipt] /\ receipt \in Receipts
        /\ receipt.status = status /\ status = (IF dropped THEN "none" ELSE "ok")
  <2>1. CASE dropped
    <3> DEFINE zero == 0
    <3> DEFINE none == "none"
    <3> DEFINE gone == [status |-> none, block |-> zero]
    <3>1. none \in {"ok", "reverted", "none"} /\ zero \in Nat
      OBVIOUS
    <3>2. receipts' = [receipts EXCEPT ![tip] = gone]
      BY <1>1, <2>1
    <3>3. gone \in Receipts /\ gone.status = none
      <4> HIDE DEF none, zero
      <4> QED BY <3>1
    <3> HIDE DEF gone, Receipts
    <3> QED BY <2>1, <3>2, <3>3
  <2>2. CASE ~dropped
    <3> DEFINE block == receipts[tip].block + 1
    <3> DEFINE moved == [receipts[tip] EXCEPT !.block = block]
    <3>1. block \in Nat
      BY <1>3
    <3>2. receipts' = [receipts EXCEPT ![tip] = moved]
      BY <1>1, <2>2
    <3>3. moved \in Receipts /\ moved.status = receipts[tip].status
      <4> HIDE DEF block
      <4> QED BY <1>3, <3>1
    <3> HIDE DEF moved, Receipts
    <3> QED BY <1>3, <2>2, <3>2, <3>3
  <2> HIDE DEF Receipts
  <2> QED BY <2>1, <2>2
<1> HIDE DEF Receipts
<1>5. /\ receipts' \in Seq(Receipts) /\ Len(receipts') = Len(receipts)
      /\ receipts'[tip] = receipt
      /\ \A i \in 1 .. Mined : i # tip => receipts'[i] = receipts[i]
  BY <1>2, <1>4, ExceptSeq
<1>6. Mined' = Mined /\ \A i : Entry(StepOf(i))' = Entry(StepOf(i))
  BY <1>1, <1>5 DEF Mined, StepOf, Entry
<1>7. ASSUME NEW entry
      PROVE  /\ Live(entry)' \subseteq Live(entry)
             /\ Done(entry)' = Done(entry) \ (IF dropped /\ named = entry THEN {tip} ELSE {})
             /\ named = entry => tip \in Done(entry)
             /\ Kept(entry)' = Kept(entry) /\ OnlyHere(entry)' = OnlyHere(entry)
             /\ CountOf(lost, entry)' = CountOf(lost, entry)
  <2>1. Kept(entry)' = Kept(entry) /\ CountOf(lost, entry)' = CountOf(lost, entry)
    BY <1>1 DEF Kept, CountOf
  <2>2. OnlyHere(entry)' = OnlyHere(entry)
    BY <1>1, <2>1 DEF OnlyHere, Awaited, Step, Entry
  <2>3. Live(entry)' \subseteq Live(entry)
    <3> SUFFICES ASSUME NEW i \in Live(entry)' PROVE i \in Live(entry)
      OBVIOUS
    <3>1. /\ i \in 1 .. Len(sent) /\ Entry(StepOf(i)) = entry
          /\ i > Mined \/ receipts'[i].status = "ok"
      BY <1>1, <1>6 DEF Live
    <3>2. i > Mined \/ receipts[i].status = "ok"
      <4>1. CASE i = tip
        BY <1>3, <4>1
      <4>2. CASE i # tip /\ i \in 1 .. Mined
        BY <1>5, <3>1, <4>2
      <4>3. CASE i \notin 1 .. Mined
        BY <1>2, <3>1, <4>3
      <4> QED BY <4>1, <4>2, <4>3
    <3> QED BY <3>1, <3>2 DEF Live
  <2>4. ASSUME NEW i
        PROVE  i \in Done(entry)' <=> i \in Done(entry) /\ ~(i = tip /\ dropped /\ named = entry)
    <3>1. i \in Done(entry)' <=> /\ i \in 1 .. Mined /\ Entry(StepOf(i)) = entry
                                 /\ receipts'[i].status = "ok"
      BY <1>6 DEF Done
    <3>2. CASE i = tip
      BY <1>0, <1>3, <1>4, <1>5, <3>1, <3>2 DEF Done
    <3>3. CASE i # tip
      BY <1>5, <3>1, <3>3 DEF Done
    <3> QED BY <3>2, <3>3
  <2>5. named = entry => tip \in Done(entry)
    BY <1>0, <1>2, <1>3 DEF Done
  <2> QED BY <2>1, <2>2, <2>3, <2>4, <2>5
<1>8. AppliedIsDone'
  <2> SUFFICES ASSUME NEW entry PROVE CountOf(applied', entry) = Cardinality(Done(entry)')
    BY DEF AppliedIsDone, CountOf
  <2>1. CountOf(applied, entry) = Cardinality(Done(entry)) /\ IsFiniteSet(Done(entry))
        /\ Cardinality(Done(entry)) \in Nat
    BY TransactionsAreFinite DEF DeploymentInv, AppliedIsDone
  <2>2. CASE dropped /\ named = entry
    <3>1. Done(entry)' = Done(entry) \ {tip} /\ tip \in Done(entry)
      BY <1>7, <2>2
    <3>2. Cardinality(Done(entry)') = Cardinality(Done(entry)) - 1
          /\ IsFiniteSet(Done(entry)') /\ Cardinality(Done(entry)') \in Nat
      BY <2>1, <3>1, FS_RemoveElement, FS_CardinalityType
    <3>3. entry \in DOMAIN applied
      BY <2>1, <3>2 DEF CountOf
    <3>4. CountOf(applied', entry) = CountOf(applied, entry) - 1
      BY <1>1, <2>2, <3>3 DEF CountOf
    <3> QED BY <2>1, <3>2, <3>4
  <2>3. CASE ~(dropped /\ named = entry)
    <3>1. Done(entry)' = Done(entry)
      BY <1>7, <2>3
    <3>2. CountOf(applied', entry) = CountOf(applied, entry)
      BY <1>1, <2>3 DEF CountOf
    <3> QED BY <2>1, <3>1, <3>2
  <2> QED BY <2>2, <2>3
<1>9. AwaitedIsKnown'
  <2>1. UNCHANGED <<Step, Checkpointed, script>> /\ Kept(Entry(Step))' = Kept(Entry(Step))
    BY <1>1 DEF Step, Checkpointed, Env, Kept, Entry
  <2> QED BY <2>1 DEF DeploymentInv, AwaitedIsKnown
<1>10. LossesAccounted'
  <2>0. Checkpointed' = Checkpointed
    BY <1>1 DEF Checkpointed, Env
  <2> SUFFICES ASSUME Checkpointed, NEW entry
               PROVE  Cardinality(Unaccounted(entry)') <= Allowed(entry)'
    BY <2>0 DEF LossesAccounted
  <2>1. IsFiniteSet(Unaccounted(entry)) /\ CountOf(lost, entry) \in Nat
    BY TransactionsAreFinite DEF DeploymentInv, DeploymentTypes
  <2>2. Unaccounted(entry)' \subseteq Unaccounted(entry)
    BY <1>7 DEF Unaccounted
  <2>3. Cardinality(Unaccounted(entry)') <= Cardinality(Unaccounted(entry))
        /\ Cardinality(Unaccounted(entry)') \in Nat /\ Cardinality(Unaccounted(entry)) \in Nat
    BY <2>1, <2>2, SmallerCount
  <2>4. Cardinality(Unaccounted(entry)) <= Allowed(entry) /\ Allowed(entry)' = Allowed(entry)
        /\ Allowed(entry) \in Nat
    BY <1>7, <2>1 DEF DeploymentInv, LossesAccounted, Allowed
  <2> QED BY <2>3, <2>4
<1>11. DeploymentTypes'
  <2>1. \A entry : CountOf(lost, entry)' \in Nat
    BY <1>1 DEF DeploymentInv, DeploymentTypes, CountOf
  <2>2. Len(receipts') <= Len(sent') /\ sent' = sent /\ settings' = settings /\ script' = script
    BY <1>1, <1>2, <1>5
  <2>3. receipts' \in Seq([status : {"ok", "reverted", "none"}, block : Nat])
    BY <1>5 DEF Receipts
  <2> QED BY <2>1, <2>2, <2>3 DEF DeploymentInv, DeploymentTypes
<1> QED BY <1>8, <1>9, <1>10, <1>11 DEF DeploymentInv

LEMMA UntouchedKeeps ==
  ASSUME DeploymentInv, UNCHANGED deploymentVars PROVE DeploymentInv'
<1>1. UNCHANGED <<settings, script, contracts, operations, sent, receipts, applied, lost>>
  BY DEF deploymentVars
<1>2. DeploymentTypes' /\ AwaitedIsKnown'
  BY <1>1 DEF DeploymentInv, DeploymentTypes, AwaitedIsKnown, CountOf, Step, Entry, Kept,
              Checkpointed, Env
<1>3. ASSUME NEW entry
      PROVE  /\ Live(entry)' = Live(entry) /\ Done(entry)' = Done(entry)
             /\ Kept(entry)' = Kept(entry) /\ OnlyHere(entry)' = OnlyHere(entry)
             /\ CountOf(lost, entry)' = CountOf(lost, entry)
             /\ CountOf(applied, entry)' = CountOf(applied, entry)
  BY <1>1, LedgerUnchanged DEF Kept, OnlyHere, Awaited, Step, Entry, CountOf
<1>4. AppliedIsDone'
  BY <1>3 DEF DeploymentInv, AppliedIsDone
<1>5. LossesAccounted'
  BY <1>1, <1>3 DEF DeploymentInv, LossesAccounted, Allowed, Unaccounted, Checkpointed, Env
<1> QED BY <1>2, <1>4, <1>5 DEF DeploymentInv

LEMMA DeploymentStep == DeploymentInv /\ [DeploymentNext]_deploymentVars => DeploymentInv'
<1> SUFFICES ASSUME DeploymentInv, [DeploymentNext]_deploymentVars PROVE DeploymentInv'
  OBVIOUS
<1>1. CASE \E s \in AllSettings : StartScript(s)
  BY <1>1, StartKeeps
<1>2. CASE ReuseContract
  BY <1>2, ReuseContractKeeps
<1>3. CASE ReuseOperation
  BY <1>3, ReuseOperationKeeps
<1>4. CASE Send
  BY <1>4, SendKeeps
<1>5. CASE SavePending
  BY <1>5, SavePendingKeeps
<1>6. CASE SaveConfirmed
  BY <1>6, SaveConfirmedKeeps
<1>7. CASE Finish
  BY <1>7, FinishKeeps
<1>8. CASE Crash
  BY <1>8, CrashKeeps
<1>9. CASE \E late \in BOOLEAN : Mine(late)
  BY <1>9, MineKeeps
<1>10. CASE \E dropped \in BOOLEAN : Reorg(dropped)
  BY <1>10, ReorgKeeps
<1>11. CASE UNCHANGED deploymentVars
  BY <1>11, UntouchedKeeps
<1> QED BY <1>1, <1>2, <1>3, <1>4, <1>5, <1>6, <1>7, <1>8, <1>9, <1>10, <1>11
       DEF DeploymentNext

(***************************************************************************)
(* deployment-checkpoint.mjs: a checkpointed script carries a step out     *)
(* once, and once more only for each time the process died before the      *)
(* step's hash was on disk, for every plan, however often the script is    *)
(* restarted, transactions revert and the chain reorganises.               *)
(***************************************************************************)
THEOREM StepsAreNotRepeated == DeploymentSpec => []AtMostOnceUnlessLost
<1>1. DeploymentSpec => []DeploymentInv
  BY InitiallyAccounted, DeploymentStep, PTL DEF DeploymentSpec
<1> QED BY <1>1, AccountedMeansAtMostOnce, PTL

-----------------------------------------------------------------------------
(***************************************************************************)
(* What a finished script leaves on the chain.  The checkpoint knows keys  *)
(* and configurations, the chain knows the order of the transactions: the  *)
(* invariant ties the two together.  A recorded transaction is the newest  *)
(* of its entry and was sent with the recorded configuration; whatever     *)
(* precedes a step in its plan was on record, and older, when the step was *)
(* sent; and a slot holds what its newest successful writer wrote.         *)
(***************************************************************************)
\* Every transaction was sent for a step of a plan of the script that runs.
SentForPlans ==
  \A tx \in 1 .. Len(sent) :
    /\ sent[tx][1] \in runs.settings /\ sent[tx][1] \in AllSettings
    /\ sent[tx][2] \in DOMAIN Plans[sent[tx][1]]
    /\ Environments[sent[tx][1]].script = Env.script

\* The process waits for the wallet's newest transaction, which is the step it is at.
Placed ==
  /\ script.at >= 1
  /\ script.state = "broadcast" => Checkpointed
  /\ Awaited => /\ script.at \in DOMAIN Plans[settings]
                /\ script.tx = Len(sent) /\ script.tx >= 1
                /\ sent[script.tx] = <<settings, script.at>>
  /\ script.state # "stopped" =>
       /\ settings \in runs.settings
       /\ Env.script = "futures" => FuturesConfigValid(Env)
  /\ script.state = "finished" => script.at > Len(Plans[settings])

RecordAt(entry) == IF entry[1] = "deploy" THEN contracts[entry[2]] ELSE operations[entry[2]]

\* A recorded transaction is the newest of its entry, sent with the recorded configuration.
RecordsNewest ==
  \A kind \in {"deploy", "operate"} : \A key :
    Kept(<<kind, key>>) =>
      LET noted == RecordAt(<<kind, key>>)
      IN  /\ noted.tx \in 1 .. Len(sent)
          /\ Entry(StepOf(noted.tx)) = <<kind, key>>
          /\ noted.config = StepOf(noted.tx).config
          /\ \A tx \in noted.tx + 1 .. Len(sent) : Entry(StepOf(tx)) # <<kind, key>>

\* What the process has passed is on record with its configuration and took effect.
PassedRecorded ==
  Checkpointed /\ script.state # "stopped" =>
    \A i \in 1 .. script.at - 1 :
      LET passed == Plans[settings][i]
      IN  /\ Kept(Entry(passed))
          /\ RecordAt(Entry(passed)).config = passed.config
          /\ ~faults.reorged => Receipt(RecordAt(Entry(passed)).tx).status = "ok"

\* Whatever comes before a step in its plan was on record, and older, when it was sent.
SentInOrder ==
  Checkpointed =>
    \A tx \in 1 .. Len(sent) : \A i \in 1 .. sent[tx][2] - 1 :
      LET entry == Entry(Plans[sent[tx][1]][i])
      IN  Kept(entry) /\ RecordAt(entry).tx < tx

\* What is awaited is recorded under its own hash, or not at all.
AwaitedRecorded ==
  Awaited /\ Kept(Entry(Step)) =>
    script.state = "waiting" /\ Step.kind # "deploy" /\ RecordAt(Entry(Step)).tx = script.tx

Unrecorded == ~Checkpointed => DOMAIN contracts = {} /\ DOMAIN operations = {}

\* A script without a checkpoint sends its whole plan anew, at the end of the wallet.
Base == Len(sent) - (IF Awaited THEN script.at ELSE script.at - 1)

OwnRun ==
  ~Checkpointed /\ script.state # "stopped" =>
    /\ Base >= 0
    /\ \A i \in 1 .. script.at - 1 :
         /\ sent[Base + i] = <<settings, i>>
         /\ ~faults.reorged => Receipt(Base + i).status = "ok"

\* A slot holds what the newest of the first n transactions that took effect wrote to it.
ChainIs(state, n) ==
  \A tx \in 1 .. n : receipts[tx].status = "ok" =>
    \A slot \in DOMAIN StepOf(tx).sets :
      (\A u \in tx + 1 .. n : receipts[u].status = "ok" => slot \notin DOMAIN StepOf(u).sets) =>
        slot \in DOMAIN state /\ state[slot] = StepOf(tx).sets[slot]

PlannedSlots == UNION {WrittenSlots[s] : s \in runs.settings}

ChainWritten ==
  /\ ChainIs(chain, Mined) /\ ChainIs(before, Mined - 1)
  /\ DOMAIN chain \subseteq PlannedSlots /\ DOMAIN before \subseteq PlannedSlots

ReserveLeft ==
  script.state = "finished" /\ ~faults.reorged /\ Env.script = "futures" =>
    Balance(Env) >= Env.reserve

ConfiguredInv ==
  /\ SentForPlans /\ Placed /\ RecordsNewest /\ PassedRecorded /\ SentInOrder
  /\ AwaitedRecorded /\ Unrecorded /\ OwnRun /\ ChainWritten /\ ReserveLeft

(***************************************************************************)
(* How the conjuncts survive what most steps leave alone.                  *)
(***************************************************************************)
\* The books keep what they have, each entry under its transaction and configuration.
BooksKeep ==
  \A entry : Kept(entry) =>
    /\ Kept(entry)' /\ RecordAt(entry)'.tx = RecordAt(entry).tx
    /\ RecordAt(entry)'.config = RecordAt(entry).config

NothingNew == \A entry : Kept(entry)' => Kept(entry)

LEMMA BooksAside ==
  ASSUME UNCHANGED <<contracts, operations>> PROVE BooksKeep /\ NothingNew
BY DEF BooksKeep, NothingNew, Kept, RecordAt

LEMMA SentAside ==
  ASSUME sent' = sent, runs.settings \subseteq runs'.settings, Env'.script = Env.script, SentForPlans
  PROVE  SentForPlans' /\ Checkpointed' = Checkpointed
BY SMTT(40) DEF SentForPlans, Checkpointed

\* A transaction is the newest of its entry in a list of what was sent, and was
\* sent with a configuration.
NewestIn(list, tx, config, entry) ==
  LET stepOf(n) == Plans[list[n][1]][list[n][2]]
  IN  /\ tx \in 1 .. Len(list)
      /\ Entry(stepOf(tx)) = entry
      /\ config = stepOf(tx).config
      /\ \A n \in tx + 1 .. Len(list) : Entry(stepOf(n)) # entry

LEMMA RecordsNewestIs ==
  RecordsNewest <=>
    \A kind \in {"deploy", "operate"} : \A key :
      Kept(<<kind, key>>) =>
        NewestIn(sent, RecordAt(<<kind, key>>).tx, RecordAt(<<kind, key>>).config, <<kind, key>>)
BY DEF RecordsNewest, NewestIn, StepOf

LEMMA RecordsNewestThen ==
  RecordsNewest' <=>
    \A kind \in {"deploy", "operate"} : \A key :
      Kept(<<kind, key>>)' =>
        NewestIn(sent', RecordAt(<<kind, key>>)'.tx, RecordAt(<<kind, key>>)'.config, <<kind, key>>)
BY DEF RecordsNewest, NewestIn, StepOf

\* No new entry and no new transaction.
LEMMA NewestAside ==
  ASSUME sent' = sent, BooksKeep, NothingNew, RecordsNewest
  PROVE  RecordsNewest'
<1> SUFFICES ASSUME NEW kind \in {"deploy", "operate"}, NEW key, Kept(<<kind, key>>)'
             PROVE  NewestIn(sent', RecordAt(<<kind, key>>)'.tx, RecordAt(<<kind, key>>)'.config,
                             <<kind, key>>)
  BY RecordsNewestThen
<1>1. /\ Kept(<<kind, key>>)
      /\ RecordAt(<<kind, key>>)'.tx = RecordAt(<<kind, key>>).tx
      /\ RecordAt(<<kind, key>>)'.config = RecordAt(<<kind, key>>).config
  BY DEF BooksKeep, NothingNew
<1>2. NewestIn(sent, RecordAt(<<kind, key>>).tx, RecordAt(<<kind, key>>).config, <<kind, key>>)
  BY <1>1, RecordsNewestIs
<1> QED BY <1>1, <1>2

LEMMA OrderAside ==
  ASSUME sent' = sent, Checkpointed' = Checkpointed, BooksKeep, SentInOrder
  PROVE  SentInOrder'
<1> SUFFICES ASSUME Checkpointed, NEW tx \in 1 .. Len(sent), NEW i \in 1 .. sent[tx][2] - 1
             PROVE  /\ Kept(Entry(Plans[sent[tx][1]][i]))'
                    /\ RecordAt(Entry(Plans[sent[tx][1]][i]))'.tx < tx
  BY DEF SentInOrder, Entry
<1>1. /\ Kept(Entry(Plans[sent[tx][1]][i]))
      /\ RecordAt(Entry(Plans[sent[tx][1]][i])).tx < tx
  BY DEF SentInOrder
<1> QED BY SMTT(40), <1>1 DEF BooksKeep

LEMMA ChainAside ==
  ASSUME UNCHANGED <<sent, receipts, chain, before>>, runs.settings \subseteq runs'.settings,
         ChainWritten
  PROVE  ChainWritten'
<1>1. PlannedSlots \subseteq PlannedSlots'
  BY DEF PlannedSlots
<1>2. Mined' = Mined /\ \A tx : StepOf(tx)' = StepOf(tx)
  BY DEF Mined, StepOf
<1>3. ChainIs(chain, Mined)' /\ ChainIs(before, Mined - 1)'
  BY <1>2 DEF ChainWritten, ChainIs
<1> QED BY <1>1, <1>3 DEF ChainWritten

LEMMA UnrecordedAside ==
  ASSUME Checkpointed' = Checkpointed, DOMAIN contracts' = DOMAIN contracts,
         DOMAIN operations' = DOMAIN operations, Unrecorded
  PROVE  Unrecorded'
BY DEF Unrecorded

\* A process that stops holds nothing that the invariant speaks of.
LEMMA StopKeeps ==
  ASSUME ConfiguredInv, script'.state = "stopped", script'.at = script.at,
         UNCHANGED <<settings, contracts, operations, sent, receipts, chain, before, runs>>
  PROVE  ConfiguredInv'
<1>1. Env' = Env /\ runs.settings \subseteq runs'.settings
  BY DEF Env
<1>2. SentForPlans' /\ Checkpointed' = Checkpointed
  BY <1>1, SentAside DEF ConfiguredInv
<1>3. BooksKeep /\ NothingNew
  BY BooksAside
<1>4. RecordsNewest' /\ SentInOrder' /\ ChainWritten' /\ Unrecorded'
  <2>1. RecordsNewest'
    BY <1>1, <1>3, NewestAside DEF ConfiguredInv
  <2>2. SentInOrder'
    BY <1>1, <1>2, <1>3, OrderAside DEF ConfiguredInv
  <2>3. ChainWritten'
    BY <1>1, ChainAside DEF ConfiguredInv
  <2>4. Unrecorded'
    BY <1>1, <1>2, UnrecordedAside DEF ConfiguredInv
  <2> QED BY <2>1, <2>2, <2>3, <2>4
<1>5. ~Awaited'
  BY DEF Awaited
<1>6. Placed' /\ PassedRecorded' /\ AwaitedRecorded' /\ OwnRun' /\ ReserveLeft'
  BY <1>5 DEF ConfiguredInv, Placed, PassedRecorded, AwaitedRecorded, OwnRun, ReserveLeft, Awaited
<1> QED BY <1>2, <1>4, <1>6 DEF ConfiguredInv

LEMMA FailConfigures ==
  ASSUME DeploymentInv, ConfiguredInv, NEW why, Fail(why), ChainSame,
         UNCHANGED <<settings, contracts, operations, runs>>
  PROVE  ConfiguredInv'
<1>1. script'.state = "stopped" /\ script'.at = script.at
  BY DEF Fail, DeploymentInv, DeploymentTypes
<1> QED BY <1>1, StopKeeps DEF ChainSame

LEMMA StartConfigures ==
  ASSUME DeploymentInv, ConfiguredInv, NEW s \in AllSettings, StartScript(s)
  PROVE  ConfiguredInv'
<1> DEFINE one == 1
<1>1. /\ settings' = s /\ Env' = Environments[s] /\ Environments[s].script = Env.script
      /\ Environments[s].script = "futures" => FuturesConfigValid(Environments[s])
      /\ script' = [state |-> "next", at |-> one, tx |-> NoTx, why |-> "none"]
      /\ runs'.settings = runs.settings \cup {s}
      /\ UNCHANGED <<contracts, operations, sent, receipts, chain, before>>
  BY DEF StartScript, Env, FuturesStarts
<1>2. SentForPlans' /\ Checkpointed' = Checkpointed
  BY <1>1, SentAside DEF ConfiguredInv
<1>3. BooksKeep /\ NothingNew
  BY <1>1, BooksAside
<1>4. RecordsNewest' /\ SentInOrder' /\ ChainWritten' /\ Unrecorded'
  <2>1. RecordsNewest'
    BY <1>1, <1>3, NewestAside DEF ConfiguredInv
  <2>2. SentInOrder'
    BY <1>1, <1>2, <1>3, OrderAside DEF ConfiguredInv
  <2>3. ChainWritten'
    BY <1>1, ChainAside DEF ConfiguredInv
  <2>4. Unrecorded'
    BY <1>1, <1>2, UnrecordedAside DEF ConfiguredInv
  <2> QED BY <2>1, <2>2, <2>3, <2>4
<1>5. ~Awaited' /\ script'.state = "next" /\ script'.at = 1 /\ 1 .. script'.at - 1 = {}
  BY <1>1 DEF Awaited
<1>6. Len(sent) \in Nat
  BY LenProperties DEF DeploymentInv, DeploymentTypes
<1>7. Placed' /\ PassedRecorded' /\ AwaitedRecorded' /\ ReserveLeft'
  BY <1>1, <1>5 DEF Placed, PassedRecorded, AwaitedRecorded, ReserveLeft
<1>8. OwnRun'
  BY <1>1, <1>5, <1>6 DEF OwnRun, Base
<1> QED BY <1>2, <1>4, <1>7, <1>8 DEF ConfiguredInv

\* The process passes a step that is on record.
LEMMA PassConfigures ==
  ASSUME DeploymentInv, ConfiguredInv, Advance, ChainSame, UNCHANGED <<settings, runs>>,
         Working, Checkpointed, BooksKeep, NothingNew,
         DOMAIN contracts' = DOMAIN contracts, DOMAIN operations' = DOMAIN operations,
         Kept(Entry(Step)), RecordAt(Entry(Step)).config = Step.config,
         Receipt(RecordAt(Entry(Step)).tx).status = "ok"
  PROVE  ConfiguredInv'
<1>1. /\ script.at \in Nat /\ script'.at = script.at + 1 /\ script'.state = "next"
      /\ script.state = "next" /\ script.at >= 1
  BY DEF Advance, DeploymentInv, DeploymentTypes, Working, ConfiguredInv, Placed
<1>2. UNCHANGED <<sent, receipts, chain, before, faults>>
  BY DEF ChainSame
<1>3. Env' = Env /\ runs.settings \subseteq runs'.settings
  BY DEF Env
<1>4. SentForPlans' /\ Checkpointed' = Checkpointed
  BY <1>2, <1>3, SentAside DEF ConfiguredInv
<1>5. RecordsNewest' /\ SentInOrder' /\ ChainWritten' /\ Unrecorded'
  <2>1. RecordsNewest'
    BY <1>2, NewestAside DEF ConfiguredInv
  <2>2. SentInOrder'
    BY <1>2, <1>4, OrderAside DEF ConfiguredInv
  <2>3. ChainWritten'
    BY <1>2, <1>3, ChainAside DEF ConfiguredInv
  <2>4. Unrecorded'
    BY <1>4, UnrecordedAside DEF ConfiguredInv
  <2> QED BY <2>1, <2>2, <2>3, <2>4
<1>6. ~Awaited' /\ ~Awaited
  BY <1>1 DEF Awaited
<1>7. Placed' /\ AwaitedRecorded' /\ OwnRun' /\ ReserveLeft'
  BY <1>1, <1>3, <1>4, <1>6 DEF ConfiguredInv, Placed, AwaitedRecorded, OwnRun, ReserveLeft
<1>8. PassedRecorded'
  <2> SUFFICES ASSUME NEW i \in 1 .. script'.at - 1
               PROVE  (LET passed == Plans[settings][i]
                       IN  /\ Kept(Entry(passed))
                           /\ RecordAt(Entry(passed)).config = passed.config
                           /\ ~faults.reorged =>
                                Receipt(RecordAt(Entry(passed)).tx).status = "ok")'
    BY DEF PassedRecorded
  <2>1. \A tx : Receipt(tx)' = Receipt(tx)
    BY <1>2 DEF Receipt, Mined
  <2> DEFINE passed == Plans[settings][i]
  <2>2. /\ Kept(Entry(passed)) /\ RecordAt(Entry(passed)).config = passed.config
        /\ ~faults.reorged => Receipt(RecordAt(Entry(passed)).tx).status = "ok"
    <3>1. CASE i = script.at
      BY <3>1 DEF Step
    <3>2. CASE i # script.at
      BY <3>2, <1>1 DEF ConfiguredInv, PassedRecorded
    <3> QED BY <3>1, <3>2
  <2>3. /\ Kept(Entry(passed))' /\ RecordAt(Entry(passed))'.tx = RecordAt(Entry(passed)).tx
        /\ RecordAt(Entry(passed))'.config = RecordAt(Entry(passed)).config
        /\ passed' = passed /\ Entry(passed)' = Entry(passed)
    BY <2>2 DEF BooksKeep, Entry
  <2> QED BY <1>2, <2>1, <2>2, <2>3
<1> QED BY <1>4, <1>5, <1>7, <1>8 DEF ConfiguredInv

LEMMA ReuseContractConfigures ==
  ASSUME DeploymentInv, ConfiguredInv, ReuseContract PROVE ConfiguredInv'
<1>1. /\ Working /\ Step.kind = "deploy" /\ Step.key \in DOMAIN contracts
      /\ ChainSame /\ UNCHANGED <<settings, contracts, operations, runs>>
      /\ \/ Fail("mismatch") \/ Fail("no code")
         \/ /\ ~Mismatched(contracts[Step.key]) /\ Reusable(contracts[Step.key])
            /\ Advance
  <2>1. ~(Mismatched(contracts[Step.key]) /\ Reusable(contracts[Step.key]))
    BY DEF Reusable
  <2>2. CASE Mismatched(contracts[Step.key])
    BY <2>1, <2>2 DEF ReuseContract
  <2>3. CASE Reusable(contracts[Step.key])
    BY <2>1, <2>3 DEF ReuseContract
  <2>4. CASE ~Mismatched(contracts[Step.key]) /\ ~Reusable(contracts[Step.key])
    BY <2>4 DEF ReuseContract
  <2> QED BY <2>2, <2>3, <2>4
<1>2. CASE Fail("mismatch") \/ Fail("no code")
  BY <1>1, <1>2, FailConfigures
<1>3. CASE /\ ~Mismatched(contracts[Step.key]) /\ Reusable(contracts[Step.key]) /\ Advance
  <2>1. Entry(Step) = <<"deploy", Step.key>> /\ Kept(Entry(Step))
        /\ RecordAt(Entry(Step)) = contracts[Step.key]
    BY <1>1 DEF Entry, Kept, RecordAt
  <2>2. RecordAt(Entry(Step)).config = Step.config
        /\ Receipt(RecordAt(Entry(Step)).tx).status = "ok"
    BY <1>3, <2>1 DEF Mismatched, Reusable
  <2>3. Checkpointed
    BY <1>1 DEF ConfiguredInv, Unrecorded
  <2>4. BooksKeep /\ NothingNew
    BY <1>1, BooksAside
  <2> QED BY <1>1, <1>3, <2>1, <2>2, <2>3, <2>4, PassConfigures
<1> QED BY <1>1, <1>2, <1>3

LEMMA ReuseOperationConfigures ==
  ASSUME DeploymentInv, ConfiguredInv, ReuseOperation PROVE ConfiguredInv'
<1>1. /\ Working /\ Step.kind = "operate" /\ Step.key \in DOMAIN operations
      /\ ChainSame /\ UNCHANGED <<settings, contracts, runs>>
      /\ \/ (Fail("mismatch") \/ Fail("not canonical")) /\ UNCHANGED operations
         \/ /\ ~Mismatched(operations[Step.key]) /\ Canonical(operations[Step.key])
            /\ Advance
            /\ operations' = [operations EXCEPT ![Step.key] =
                                [@ EXCEPT !.status = "confirmed",
                                          !.block = Receipt(operations[Step.key].tx).block]]
  <2> DEFINE entry == operations[Step.key]
  <2>1. CASE Mismatched(entry)
    BY <2>1 DEF ReuseOperation
  <2>2. CASE ~Mismatched(entry) /\ Canonical(entry)
    BY <2>2 DEF ReuseOperation
  <2>3. CASE ~Mismatched(entry) /\ ~Canonical(entry)
    BY <2>3 DEF ReuseOperation
  <2> QED BY <2>1, <2>2, <2>3
<1>2. CASE (Fail("mismatch") \/ Fail("not canonical")) /\ UNCHANGED operations
  BY <1>1, <1>2, FailConfigures
<1>3. CASE /\ ~Mismatched(operations[Step.key]) /\ Canonical(operations[Step.key])
           /\ Advance
           /\ operations' = [operations EXCEPT ![Step.key] =
                               [@ EXCEPT !.status = "confirmed",
                                         !.block = Receipt(operations[Step.key].tx).block]]
  <2>1. Entry(Step) = <<"operate", Step.key>> /\ Kept(Entry(Step))
        /\ RecordAt(Entry(Step)) = operations[Step.key]
    BY <1>1 DEF Entry, Kept, RecordAt
  <2>2. RecordAt(Entry(Step)).config = Step.config
        /\ Receipt(RecordAt(Entry(Step)).tx).status = "ok"
    BY <1>3, <2>1 DEF Mismatched, Canonical
  <2>3. Checkpointed
    BY <1>1 DEF ConfiguredInv, Unrecorded
  <2>4. DOMAIN operations' = DOMAIN operations /\ DOMAIN contracts' = DOMAIN contracts
    BY <1>1, <1>3
  <2>5. NothingNew
    BY <1>1, <2>4 DEF NothingNew, Kept
  <2>6. BooksKeep
    <3> SUFFICES ASSUME NEW entry, Kept(entry)
                 PROVE  /\ Kept(entry)' /\ RecordAt(entry)'.tx = RecordAt(entry).tx
                        /\ RecordAt(entry)'.config = RecordAt(entry).config
      BY DEF BooksKeep
    <3>1. Kept(entry)'
      BY <1>1, <2>4 DEF Kept
    <3>2. CASE entry[1] = "deploy"
      BY <1>1, <3>1, <3>2 DEF RecordAt
    <3>3. CASE entry[1] # "deploy"
      <4>1. entry[2] \in DOMAIN operations
        BY <3>3 DEF Kept
      <4>2. /\ operations'[entry[2]].tx = operations[entry[2]].tx
            /\ operations'[entry[2]].config = operations[entry[2]].config
        BY <1>3, <4>1
      <4> QED BY <3>1, <3>3, <4>2 DEF RecordAt
    <3> QED BY <3>2, <3>3
  <2> QED BY <1>1, <1>3, <2>1, <2>2, <2>3, <2>4, <2>5, <2>6, PassConfigures
<1> QED BY <1>1, <1>2, <1>3

LEMMA CrashConfigures ==
  ASSUME DeploymentInv, ConfiguredInv, Crash PROVE ConfiguredInv'
<1>1. script'.state = "stopped" /\ script'.at = script.at
  BY DEF Crash, DeploymentInv, DeploymentTypes
<1> QED BY <1>1, StopKeeps DEF Crash

LEMMA FinishConfigures ==
  ASSUME DeploymentInv, ConfiguredInv, Finish PROVE ConfiguredInv'
<1>1. /\ script.state = "next" /\ script.at > Len(Plans[settings])
      /\ ChainSame /\ UNCHANGED <<settings, contracts, operations, runs>>
      /\ \/ Fail("accounts")
         \/ AccountsSettled /\ script' = [script EXCEPT !.state = "finished"]
  BY DEF Finish
<1>2. CASE Fail("accounts")
  BY <1>1, <1>2, FailConfigures
<1>3. CASE AccountsSettled /\ script' = [script EXCEPT !.state = "finished"]
  <2>1. script'.state = "finished" /\ script'.at = script.at
    BY <1>3 DEF DeploymentInv, DeploymentTypes
  <2>2. UNCHANGED <<sent, receipts, chain, before, faults>>
    BY <1>1 DEF ChainSame
  <2>3. Env' = Env /\ runs.settings \subseteq runs'.settings /\ BooksKeep /\ NothingNew
    BY <1>1, BooksAside DEF Env
  <2>4. SentForPlans' /\ Checkpointed' = Checkpointed
    BY <2>2, <2>3, SentAside DEF ConfiguredInv
  <2>5. RecordsNewest' /\ SentInOrder' /\ ChainWritten' /\ Unrecorded'
    <3>1. RecordsNewest'
      BY <2>2, <2>3, NewestAside DEF ConfiguredInv
    <3>2. SentInOrder'
      BY <2>2, <2>3, <2>4, OrderAside DEF ConfiguredInv
    <3>3. ChainWritten'
      BY <2>2, <2>3, ChainAside DEF ConfiguredInv
    <3>4. Unrecorded'
      BY <1>1, <2>4, UnrecordedAside DEF ConfiguredInv
    <3> QED BY <3>1, <3>2, <3>3, <3>4
  <2>6. ~Awaited' /\ ~Awaited /\ (\A tx : Receipt(tx)' = Receipt(tx)) /\ Balance(Env)' = Balance(Env)
    BY <1>1, <2>1, <2>2, <2>3 DEF Awaited, Receipt, Mined, Balance
  <2>7. Placed' /\ AwaitedRecorded'
    BY <1>1, <2>1, <2>3, <2>4, <2>6 DEF ConfiguredInv, Placed, AwaitedRecorded
  <2>8. ReserveLeft'
    BY SMTT(40), <1>3, <2>2, <2>3, <2>6 DEF AccountsSettled, ReserveLeft
  <2>9. PassedRecorded'
    BY <1>1, <2>1, <2>2, <2>4, <2>6 DEF ConfiguredInv, PassedRecorded, Kept, RecordAt, Entry
  <2>10. OwnRun'
    <3>1. Base' = Base
      BY <2>1, <2>2, <2>6 DEF Base
    <3> QED BY <1>1, <2>1, <2>2, <2>4, <2>6, <3>1 DEF ConfiguredInv, OwnRun
  <2> QED BY <2>4, <2>5, <2>7, <2>8, <2>9, <2>10 DEF ConfiguredInv
<1> QED BY <1>1, <1>2, <1>3

LEMMA PlansAreLists ==
  ASSUME PlansInOrder, NEW s \in AllSettings
  PROVE  /\ Len(Plans[s]) \in Nat \ {0} /\ DOMAIN Plans[s] = 1 .. Len(Plans[s])
         /\ \A i \in DOMAIN Plans[s] : Plans[s][i].kind \in {"deploy", "operate"}
BY DEF PlansInOrder

\* The plan of the settings, as the process goes through it.
LEMMA StepInPlan ==
  ASSUME PlansInOrder, DeploymentInv, ConfiguredInv, Working
  PROVE  /\ script.at \in DOMAIN Plans[settings] /\ script.at \in Nat \ {0}
         /\ Step.kind \in {"deploy", "operate"} /\ (Recorded <=> Kept(Entry(Step)))
<1>1. settings \in AllSettings /\ script.at \in Nat
  BY DEF DeploymentInv, DeploymentTypes
<1>2. script.at >= 1 /\ script.at <= Len(Plans[settings])
  BY DEF ConfiguredInv, Placed, Working
<1>3. script.at \in DOMAIN Plans[settings]
  BY <1>1, <1>2, PlansAreLists
<1>4. Step.kind \in {"deploy", "operate"}
  BY <1>1, <1>3, PlansAreLists DEF Step
<1>5. Recorded <=> Kept(Entry(Step))
  BY <1>4 DEF Recorded, Kept, Entry
<1> QED BY <1>1, <1>2, <1>3, <1>4, <1>5

\* What a chain holds depends on its transactions only.
LEMMA ChainStays ==
  ASSUME NEW state, NEW n \in Int, ChainIs(state, n),
         \A tx \in 1 .. n : receipts'[tx].status = receipts[tx].status /\ StepOf(tx)' = StepOf(tx)
  PROVE  ChainIs(state, n)'
<1> SUFFICES ASSUME NEW tx \in 1 .. n, receipts'[tx].status = "ok",
                    NEW slot \in DOMAIN (StepOf(tx).sets)',
                    \A u \in tx + 1 .. n : receipts'[u].status = "ok" =>
                                            slot \notin DOMAIN (StepOf(u).sets)'
             PROVE  slot \in DOMAIN state /\ state[slot] = (StepOf(tx).sets)'[slot]
  BY DEF ChainIs
<1> QED BY DEF ChainIs

LEMMA SendConfigures ==
  ASSUME PlansInOrder, DeploymentInv, ConfiguredInv, Send PROVE ConfiguredInv'
<1>0. /\ Working /\ ~Recorded
      /\ UNCHANGED <<settings, contracts, operations, receipts, chain, before, runs, faults>>
      /\ \/ /\ sent' = Append(sent, <<settings, script.at>>)
            /\ script' = [script EXCEPT !.tx = Len(sent) + 1,
                                        !.state = IF Checkpointed /\ Step.kind # "deploy"
                                                  THEN "broadcast" ELSE "waiting"]
         \/ Fail("would revert") /\ UNCHANGED sent
  BY DEF Send
<1>1. CASE Fail("would revert") /\ UNCHANGED sent
  <2>1. script'.state = "stopped" /\ script'.at = script.at
    BY <1>1 DEF Fail, DeploymentInv, DeploymentTypes
  <2> QED BY <1>0, <1>1, <2>1, StopKeeps
<1>2. CASE /\ sent' = Append(sent, <<settings, script.at>>)
           /\ script' = [script EXCEPT !.tx = Len(sent) + 1,
                                       !.state = IF Checkpointed /\ Step.kind # "deploy"
                                                 THEN "broadcast" ELSE "waiting"]
  <2>0. PICK n : n = Len(sent) + 1
    OBVIOUS
  <2>1. /\ script.at \in DOMAIN Plans[settings] /\ script.at \in Nat \ {0}
        /\ ~Kept(Entry(Step)) /\ script.state = "next" /\ settings \in AllSettings
        /\ settings \in runs.settings
    BY <1>0, StepInPlan DEF Working, DeploymentInv, DeploymentTypes, ConfiguredInv, Placed
  <2>2. /\ sent \in Seq(AllSettings \X Nat) /\ Len(sent) \in Nat /\ Mined \in Nat
        /\ Mined <= Len(sent)
    BY LenProperties DEF DeploymentInv, DeploymentTypes, Mined
  <2>3. /\ Len(sent') = n /\ n = Len(sent) + 1 /\ n \in Nat
        /\ sent'[n] = <<settings, script.at>>
        /\ \A i \in 1 .. Len(sent) : sent'[i] = sent[i]
    BY <1>2, <2>0, <2>1, <2>2, AppendProperties
  <2>4. /\ script'.at = script.at /\ script'.tx = n
        /\ script'.state \in {"broadcast", "waiting"}
        /\ script'.state = "broadcast" => Checkpointed
    BY <1>2, <2>0 DEF DeploymentInv, DeploymentTypes
  <2>5. Env' = Env /\ Checkpointed' = Checkpointed /\ Step' = Step /\ Entry(Step)' = Entry(Step)
    BY <1>0, <2>4 DEF Env, Checkpointed, Step, Entry
  <2>6. Awaited' /\ ~Awaited
    BY <2>1, <2>4 DEF Awaited
  <2>7. \A tx \in 1 .. Len(sent) : StepOf(tx)' = StepOf(tx)
    BY <2>3 DEF StepOf
  <2>8. StepOf(n)' = Step
    <3>1. sent'[n][1] = settings /\ sent'[n][2] = script.at
      BY <2>3
    <3> QED BY <3>1 DEF StepOf, Step
  <2>9. BooksKeep /\ NothingNew
    BY <1>0, BooksAside
  <2>10. SentForPlans'
    <3> SUFFICES ASSUME NEW tx \in 1 .. n
                 PROVE  /\ sent'[tx][1] \in runs'.settings /\ sent'[tx][1] \in AllSettings
                        /\ sent'[tx][2] \in DOMAIN Plans[sent'[tx][1]]
                        /\ Environments[sent'[tx][1]].script = Env'.script
      BY <2>3 DEF SentForPlans
    <3>1. CASE tx = n
      <4>1. sent'[tx][1] = settings /\ sent'[tx][2] = script.at
        BY <3>1, <2>3
      <4> QED BY <4>1, <2>1, <2>5, <1>0 DEF Env
    <3>2. CASE tx # n
      <4>1. tx \in 1 .. Len(sent)
        BY <3>2, <2>3, <2>2
      <4> QED BY <4>1, <2>3, <2>5, <1>0 DEF ConfiguredInv, SentForPlans
    <3> QED BY <3>1, <3>2
  <2>11. Placed'
    <3>1. script'.tx = Len(sent') /\ script'.tx >= 1 /\ script'.at >= 1
      BY <2>0, <2>1, <2>2, <2>3, <2>4
    <3>2. sent'[script'.tx] = <<settings', script'.at>>
      BY <1>0, <2>3, <2>4
    <3>3. script'.state # "finished" /\ script.state # "stopped"
      BY <2>1, <2>4
    <3> QED BY <1>0, <2>1, <2>4, <2>5, <3>1, <3>2, <3>3 DEF ConfiguredInv, Placed
  <2>12. RecordsNewest'
    <3> SUFFICES ASSUME NEW kind \in {"deploy", "operate"}, NEW key, Kept(<<kind, key>>)'
                 PROVE  (LET noted == RecordAt(<<kind, key>>)
                         IN  /\ noted.tx \in 1 .. Len(sent)
                             /\ Entry(StepOf(noted.tx)) = <<kind, key>>
                             /\ noted.config = StepOf(noted.tx).config
                             /\ \A tx \in noted.tx + 1 .. Len(sent) :
                                  Entry(StepOf(tx)) # <<kind, key>>)'
      BY DEF RecordsNewest
    <3> DEFINE noted == RecordAt(<<kind, key>>)
    <3>1. noted' = noted /\ Kept(<<kind, key>>)
      BY <1>0, <2>9 DEF RecordAt, NothingNew
    <3>2. /\ noted.tx \in 1 .. Len(sent)
          /\ Entry(StepOf(noted.tx)) = <<kind, key>>
          /\ noted.config = StepOf(noted.tx).config
          /\ \A tx \in noted.tx + 1 .. Len(sent) : Entry(StepOf(tx)) # <<kind, key>>
      BY <3>1 DEF ConfiguredInv, RecordsNewest
    <3>3. <<kind, key>> # Entry(Step)
      BY <2>1, <3>1
    <3>4. /\ StepOf(noted.tx)' = StepOf(noted.tx)
          /\ Entry(StepOf(noted.tx))' = Entry(StepOf(noted.tx))
      BY <3>1, <3>2, <2>7 DEF Entry
    <3>5. ASSUME NEW tx \in noted.tx + 1 .. n PROVE Entry(StepOf(tx))' # <<kind, key>>
      <4>1. CASE tx = n
        BY <4>1, <2>8, <3>3 DEF Entry
      <4>2. CASE tx # n
        <5>1. tx \in noted.tx + 1 .. Len(sent) /\ tx \in 1 .. Len(sent)
          BY <4>2, <2>3, <2>2, <3>2
        <5> QED BY <5>1, <2>7, <3>2 DEF Entry
      <4> QED BY <4>1, <4>2
    <3>6. noted.tx \in 1 .. n
      BY <3>2, <2>3, <2>2
    <3> HIDE DEF noted
    <3>7. /\ noted'.tx \in 1 .. Len(sent') /\ Entry(StepOf(noted.tx))' = <<kind, key>>
          /\ noted'.config = StepOf(noted.tx)'.config
          /\ \A tx \in noted'.tx + 1 .. Len(sent') : Entry(StepOf(tx))' # <<kind, key>>
      BY SMTT(40), <3>1, <3>2, <3>4, <3>5, <3>6, <2>3
    <3> QED BY <3>1, <3>7 DEF noted
  <2>13. SentInOrder'
    <3> SUFFICES ASSUME Checkpointed, NEW tx \in 1 .. n, NEW i \in 1 .. sent'[tx][2] - 1
                 PROVE  (LET entry == Entry(Plans[sent[tx][1]][i])
                         IN  Kept(entry) /\ RecordAt(entry).tx < tx)'
      BY <2>3, <2>5 DEF SentInOrder
    <3>1. PICK s, p : s = sent'[tx][1] /\ p = Plans[s][i]
      OBVIOUS
    <3>2. Kept(Entry(p)) /\ RecordAt(Entry(p)).tx < tx
      <4>1. CASE tx = n
        <5>0. s = settings /\ i \in 1 .. script.at - 1
          BY <4>1, <2>3, <3>1
        <5>1. Kept(Entry(p))
          BY <5>0, <3>1, <2>1 DEF ConfiguredInv, PassedRecorded
        <5>2. p.kind \in {"deploy", "operate"}
          <6>1. i \in DOMAIN Plans[settings]
            BY <5>0, <2>1, PlansAreLists
          <6> QED BY <6>1, <5>0, <3>1, <2>1, PlansAreLists
        <5>3. RecordAt(Entry(p)).tx \in 1 .. Len(sent)
          BY <5>1, <5>2 DEF ConfiguredInv, RecordsNewest, Entry
        <5> QED BY <4>1, <5>1, <5>3, <2>2, <2>3
      <4>2. CASE tx # n
        <5>1. tx \in 1 .. Len(sent)
          BY <4>2, <2>3, <2>2
        <5> QED BY <5>1, <2>3, <3>1 DEF ConfiguredInv, SentInOrder
      <4> QED BY <4>1, <4>2
    <3>3. Kept(Entry(p))' /\ RecordAt(Entry(p))'.tx < tx /\ Entry(p)' = Entry(p)
      BY SMTT(40), <3>2, <2>9 DEF BooksKeep, Entry
    <3> QED BY <3>1, <3>3 DEF Entry
  <2>14. PassedRecorded'
    <3>1. \A tx : Receipt(tx)' = Receipt(tx)
      BY <1>0 DEF Receipt, Mined
    <3> QED BY <1>0, <2>1, <2>4, <2>5, <3>1 DEF ConfiguredInv, PassedRecorded, Kept, RecordAt, Entry
  <2>15. AwaitedRecorded'
    <3>1. ~Kept(Entry(Step))'
      BY <2>1, <2>5, <2>9, <1>0 DEF NothingNew, Kept, Entry
    <3> QED BY <3>1 DEF AwaitedRecorded
  <2>16. Unrecorded'
    BY <1>0, <2>5, UnrecordedAside DEF ConfiguredInv
  <2>17. OwnRun'
    <3> SUFFICES ASSUME ~Checkpointed PROVE OwnRun'
      BY <2>5 DEF OwnRun
    <3>1. PICK base : base = Len(sent) - (script.at - 1)
      OBVIOUS
    <3>2. Base = base /\ Base' = base
      <4>1. Base' = Len(sent') - script'.at
        BY <2>6 DEF Base
      <4>2. Base = Len(sent) - (script.at - 1)
        BY <2>6 DEF Base
      <4>3. Len(sent') - script'.at = Len(sent) - (script.at - 1)
        <5>1. Len(sent) \in Nat /\ script.at \in Nat /\ script'.at = script.at
              /\ Len(sent') = Len(sent) + 1
          BY <2>1, <2>2, <2>3, <2>4
        <5> QED BY <5>1
      <4> QED BY <4>1, <4>2, <4>3, <3>1
    <3>3. /\ base >= 0
          /\ \A i \in 1 .. script.at - 1 :
               /\ sent[base + i] = <<settings, i>>
               /\ ~faults.reorged => Receipt(base + i).status = "ok"
      BY <2>1, <3>2 DEF ConfiguredInv, OwnRun
    <3>4. \A i \in 1 .. script.at - 1 : base + i \in 1 .. Len(sent)
      BY SMTT(40), <3>1, <3>3, <2>1, <2>2
    <3>5. \A tx : Receipt(tx)' = Receipt(tx)
      BY <1>0 DEF Receipt, Mined
    <3>6. \A i \in 1 .. script.at - 1 :
            /\ sent'[base + i] = <<settings, i>>
            /\ ~faults.reorged => Receipt(base + i)'.status = "ok"
      BY <3>3, <3>4, <3>5, <2>3
    <3> QED BY <1>0, <2>4, <3>2, <3>3, <3>6 DEF OwnRun
  <2>18. ChainWritten'
    <3>1. Mined' = Mined /\ PlannedSlots' = PlannedSlots
      BY <1>0 DEF Mined, PlannedSlots
    <3>2. \A tx \in 1 .. Mined : StepOf(tx)' = StepOf(tx)
      BY <2>7, <2>2
    <3>3. PICK now, then, m : now = chain /\ then = before /\ m = Mined
      OBVIOUS
    <3>4. ChainIs(now, m)' /\ ChainIs(then, m - 1)'
      <4>1. ChainIs(now, m) /\ ChainIs(then, m - 1)
        BY <3>3 DEF ConfiguredInv, ChainWritten
      <4>2. m \in Int /\ m - 1 \in Int /\ 1 .. m - 1 \subseteq 1 .. m
        BY <3>3, <2>2
      <4> QED BY <1>0, <4>1, <4>2, <3>2, <3>3, ChainStays
    <3>5. chain' = now /\ before' = then /\ Mined' = m
      BY <1>0, <3>1, <3>3
    <3>6. ChainIs(chain, Mined)' /\ ChainIs(before, Mined - 1)'
      BY <3>4, <3>5 DEF ChainIs
    <3> QED BY <1>0, <3>1, <3>6 DEF ConfiguredInv, ChainWritten
  <2>19. ReserveLeft'
    BY <2>4 DEF ReserveLeft
  <2> QED BY <2>10, <2>11, <2>12, <2>13, <2>14, <2>15, <2>16, <2>17, <2>18, <2>19
          DEF ConfiguredInv
<1> QED BY <1>0, <1>1, <1>2

\* The awaited hash is saved: a new entry, of the wallet's newest transaction.
NewEntry(entry, noted) ==
  /\ ~Kept(entry) /\ Kept(entry)' /\ RecordAt(entry)' = noted
  /\ noted.tx = Len(sent) /\ Len(sent) >= 1 /\ entry = Entry(StepOf(noted.tx))
  /\ noted.config = StepOf(noted.tx).config
  /\ \A e : Kept(e) => Kept(e)' /\ RecordAt(e)' = RecordAt(e)
  /\ \A kind \in {"deploy", "operate"} : \A key :
       Kept(<<kind, key>>)' => <<kind, key>> = entry \/ Kept(<<kind, key>>)

LEMMA NewEntryRecorded ==
  ASSUME DeploymentInv, ConfiguredInv, sent' = sent, Checkpointed' = Checkpointed,
         NEW entry, NEW noted, NewEntry(entry, noted)
  PROVE  RecordsNewest' /\ SentInOrder' /\ BooksKeep
<1>1. Len(sent) \in Nat
  BY LenProperties DEF DeploymentInv, DeploymentTypes
<1>2. BooksKeep
  BY DEF BooksKeep, NewEntry
<1>3. SentInOrder'
  BY <1>2, OrderAside DEF ConfiguredInv
<1>4. RecordsNewest'
  <2> SUFFICES ASSUME NEW kind \in {"deploy", "operate"}, NEW key, Kept(<<kind, key>>)'
               PROVE  NewestIn(sent', RecordAt(<<kind, key>>)'.tx, RecordAt(<<kind, key>>)'.config,
                               <<kind, key>>)
    BY RecordsNewestThen
  <2>1. CASE <<kind, key>> = entry
    <3>1. /\ noted.tx \in 1 .. Len(sent) /\ noted.tx + 1 .. Len(sent) = {}
          /\ Entry(StepOf(noted.tx)) = <<kind, key>> /\ noted.config = StepOf(noted.tx).config
      BY <1>1, <2>1 DEF NewEntry
    <3>2. RecordAt(<<kind, key>>)' = noted
      BY SMTT(40), <2>1 DEF NewEntry
    <3>3. NewestIn(sent, noted.tx, noted.config, <<kind, key>>)
      BY <3>1 DEF NewestIn, StepOf
    <3> QED BY <3>2, <3>3
  <2>2. CASE <<kind, key>> # entry
    <3>1. Kept(<<kind, key>>) /\ RecordAt(<<kind, key>>)' = RecordAt(<<kind, key>>)
      BY <2>2 DEF NewEntry
    <3>2. NewestIn(sent, RecordAt(<<kind, key>>).tx, RecordAt(<<kind, key>>).config, <<kind, key>>)
      BY <3>1, RecordsNewestIs DEF ConfiguredInv
    <3> QED BY <3>1, <3>2
  <2> QED BY <2>1, <2>2
<1> QED BY <1>2, <1>3, <1>4

\* What has been passed stays passed while the books and the receipts keep it.
LEMMA PassedAside ==
  ASSUME BooksKeep, PassedRecorded, UNCHANGED <<settings, receipts, faults>>,
         script'.at = script.at, Checkpointed' => Checkpointed /\ script.state # "stopped"
  PROVE  PassedRecorded'
<1> SUFFICES ASSUME Checkpointed', NEW i \in 1 .. script.at - 1
             PROVE  (LET passed == Plans[settings][i]
                     IN  /\ Kept(Entry(passed))
                         /\ RecordAt(Entry(passed)).config = passed.config
                         /\ ~faults.reorged =>
                              Receipt(RecordAt(Entry(passed)).tx).status = "ok")'
  BY DEF PassedRecorded
<1> DEFINE passed == Plans[settings][i]
<1>1. \A tx : Receipt(tx)' = Receipt(tx)
  BY DEF Receipt, Mined
<1>2. /\ Kept(Entry(passed)) /\ RecordAt(Entry(passed)).config = passed.config
      /\ ~faults.reorged => Receipt(RecordAt(Entry(passed)).tx).status = "ok"
  BY DEF PassedRecorded
<1>3. /\ Kept(Entry(passed))' /\ RecordAt(Entry(passed))'.tx = RecordAt(Entry(passed)).tx
      /\ RecordAt(Entry(passed))'.config = RecordAt(Entry(passed)).config
      /\ passed' = passed /\ Entry(passed)' = Entry(passed)
  BY <1>2 DEF BooksKeep, Entry
<1> QED BY <1>1, <1>2, <1>3

LEMMA SavePendingConfigures ==
  ASSUME PlansInOrder, DeploymentInv, ConfiguredInv, SavePending PROVE ConfiguredInv'
<1> DEFINE noted == [config |-> Step.config, status |-> "pending", tx |-> script.tx, block |-> 0]
<1>1. /\ script.state = "broadcast" /\ operations' = With(operations, Step.key, noted)
      /\ script' = [script EXCEPT !.state = "waiting"]
      /\ UNCHANGED <<settings, contracts, runs, sent, receipts, chain, before, faults>>
  BY DEF SavePending, ChainSame
<1>2. /\ Checkpointed /\ Awaited /\ script.at \in DOMAIN Plans[settings]
      /\ script.tx = Len(sent) /\ script.tx >= 1 /\ sent[script.tx] = <<settings, script.at>>
      /\ settings \in AllSettings
  BY <1>1 DEF ConfiguredInv, Placed, Awaited, DeploymentInv, DeploymentTypes
<1>3. Step.kind = "operate"
  <2>1. Step.kind # "deploy"
    BY <1>1 DEF DeploymentInv, AwaitedIsKnown
  <2> QED BY <1>2, <2>1, PlansAreLists DEF Step
<1>4. StepOf(script.tx) = Step
  <2>1. sent[script.tx][1] = settings /\ sent[script.tx][2] = script.at
    BY <1>2
  <2> QED BY <2>1 DEF StepOf, Step
<1>5. ~Kept(Entry(Step))
  BY <1>1, <1>2 DEF ConfiguredInv, AwaitedRecorded
<1>6. /\ script'.state = "waiting" /\ script'.at = script.at /\ script'.tx = script.tx
  BY <1>1 DEF DeploymentInv, DeploymentTypes
<1>7. Env' = Env /\ Checkpointed' = Checkpointed /\ Step' = Step /\ Entry(Step)' = Entry(Step)
      /\ Awaited'
  BY <1>1, <1>6 DEF Env, Checkpointed, Step, Entry, Awaited
<1>8. NewEntry(Entry(Step), noted)
  <2>1. /\ Entry(Step) = <<"operate", Step.key>> /\ Step.key \notin DOMAIN operations
        /\ DOMAIN operations' = DOMAIN operations \cup {Step.key}
        /\ operations'[Step.key] = noted
        /\ \A k \in DOMAIN operations : k # Step.key => operations'[k] = operations[k]
    BY <1>1, <1>3, <1>5 DEF Entry, Kept, With
  <2>2. noted.tx = script.tx /\ noted.config = Step.config
    OBVIOUS
  <2> HIDE DEF noted
  <2>3. /\ Kept(Entry(Step))' /\ RecordAt(Entry(Step))' = noted
    <3>1. Kept(<<"operate", Step.key>>)' /\ RecordAt(<<"operate", Step.key>>)' = noted
      BY <1>7, <2>1 DEF Kept, RecordAt
    <3> QED BY <3>1, <2>1, <1>7
  <2>4. ASSUME NEW e, Kept(e) PROVE Kept(e)' /\ RecordAt(e)' = RecordAt(e)
    <3>1. CASE e[1] = "deploy"
      BY <1>1, <2>4, <3>1 DEF Kept, RecordAt
    <3>2. CASE e[1] # "deploy"
      <4>1. e[2] \in DOMAIN operations /\ e[2] # Step.key
        BY <3>2, <2>1, <2>4 DEF Kept
      <4> QED BY <3>2, <4>1, <2>1 DEF Kept, RecordAt
    <3> QED BY <3>1, <3>2
  <2>5. ASSUME NEW kind \in {"deploy", "operate"}, NEW key, Kept(<<kind, key>>)',
               ~Kept(<<kind, key>>)
        PROVE  <<kind, key>> = Entry(Step)
    BY <1>1, <2>1, <2>5 DEF Kept
  <2> QED BY <1>2, <1>4, <1>5, <2>2, <2>3, <2>4, <2>5 DEF NewEntry
<1>9. RecordsNewest' /\ SentInOrder' /\ BooksKeep
  <2> HIDE DEF noted
  <2> QED BY <1>1, <1>7, <1>8, NewEntryRecorded
<1>10. SentForPlans' /\ ChainWritten'
  BY <1>1, <1>7, SentAside, ChainAside DEF ConfiguredInv
<1>11. Placed'
  BY <1>1, <1>2, <1>6, <1>7 DEF ConfiguredInv, Placed
<1>12. PassedRecorded'
  BY <1>1, <1>6, <1>7, <1>9, PassedAside DEF ConfiguredInv
<1>13. AwaitedRecorded'
  BY <1>3, <1>6, <1>7, <1>8 DEF AwaitedRecorded, NewEntry
<1>14. Unrecorded' /\ ReserveLeft' /\ OwnRun'
  BY <1>2, <1>6, <1>7 DEF Unrecorded, ReserveLeft, OwnRun
<1> QED BY <1>9, <1>10, <1>11, <1>12, <1>13, <1>14 DEF ConfiguredInv

\* The awaited transaction has its receipt: it is the newest that is mined.
LEMMA AwaitedMined ==
  ASSUME PlansInOrder, DeploymentInv, ConfiguredInv, script.state = "waiting",
         script.tx \in 1 .. Mined
  PROVE  /\ Mined = Len(sent) /\ script.tx = Len(sent) /\ Len(sent) >= 1 /\ Len(sent) \in Nat
         /\ script.at \in DOMAIN Plans[settings] /\ script.at \in Nat /\ script.at >= 1
         /\ Step.kind \in {"deploy", "operate"} /\ StepOf(script.tx) = Step
         /\ sent[Len(sent)] = <<settings, script.at>>
<1>1. /\ Len(sent) \in Nat /\ Mined \in Nat /\ Mined <= Len(sent) /\ script.at \in Nat
      /\ settings \in AllSettings
  BY LenProperties DEF DeploymentInv, DeploymentTypes, Mined
<1>2. /\ script.at \in DOMAIN Plans[settings] /\ script.at >= 1
      /\ script.tx = Len(sent) /\ script.tx >= 1 /\ sent[script.tx] = <<settings, script.at>>
  BY DEF ConfiguredInv, Placed, Awaited
<1>3. Step.kind \in {"deploy", "operate"}
  BY <1>1, <1>2, PlansAreLists DEF Step
<1>4. StepOf(script.tx) = Step
  <2>1. sent[script.tx][1] = settings /\ sent[script.tx][2] = script.at
    BY <1>2
  <2> QED BY <2>1 DEF StepOf, Step
<1> QED BY <1>1, <1>2, <1>3, <1>4

LEMMA SaveConfirmedConfigures ==
  ASSUME PlansInOrder, DeploymentInv, ConfiguredInv, SaveConfirmed PROVE ConfiguredInv'
<1> DEFINE receipt == Receipt(script.tx)
<1>1. /\ script.state = "waiting" /\ script.tx \in 1 .. Mined
      /\ ChainSame /\ UNCHANGED <<settings, runs>>
      /\ ~Succeeded(receipt) => Fail("reverted") /\ UNCHANGED <<contracts, operations>>
      /\ Succeeded(receipt) => Advance
  BY DEF SaveConfirmed
<1>2. UNCHANGED <<sent, receipts, chain, before, faults>>
  BY <1>1 DEF ChainSame
<1>3. CASE ~Succeeded(receipt)
  BY <1>1, <1>3, FailConfigures
<1>4. CASE Succeeded(receipt)
  <2>1. /\ Mined = Len(sent) /\ script.tx = Len(sent) /\ Len(sent) >= 1 /\ Len(sent) \in Nat
        /\ script.at \in DOMAIN Plans[settings] /\ script.at \in Nat /\ script.at >= 1
        /\ Step.kind \in {"deploy", "operate"} /\ StepOf(script.tx) = Step
        /\ sent[Len(sent)] = <<settings, script.at>>
    BY <1>1, AwaitedMined
  <2>2. /\ Advance /\ Receipt(script.tx).status = "ok"
        /\ ~Checkpointed => UNCHANGED <<contracts, operations>>
        /\ Checkpointed /\ Step.kind = "deploy" =>
             /\ contracts' = With(contracts, Step.key, [config |-> Step.config, tx |-> script.tx])
             /\ UNCHANGED operations
        /\ Checkpointed /\ Step.kind # "deploy" =>
             /\ operations' = With(operations, Step.key,
                                   [config |-> Step.config, status |-> "confirmed",
                                    tx |-> script.tx, block |-> receipt.block])
             /\ UNCHANGED contracts
    <3>1. Advance /\ Receipt(script.tx).status = "ok"
      BY <1>1, <1>4 DEF Succeeded
    <3>2. CASE ~Checkpointed
      BY <1>4, <3>1, <3>2 DEF SaveConfirmed
    <3>3. CASE Checkpointed /\ Step.kind = "deploy"
      BY <1>4, <3>1, <3>3 DEF SaveConfirmed
    <3>4. CASE Checkpointed /\ Step.kind # "deploy"
      BY <1>4, <3>1, <3>4 DEF SaveConfirmed
    <3> QED BY <3>1, <3>2, <3>3, <3>4
  <2>3. /\ script'.state = "next" /\ script'.at = script.at + 1
    BY <2>2 DEF Advance, DeploymentInv, DeploymentTypes
  <2>4. Env' = Env /\ Checkpointed' = Checkpointed /\ Awaited /\ ~Awaited'
        /\ runs.settings \subseteq runs'.settings
    BY <1>1, <2>3 DEF Env, Checkpointed, Awaited
  <2>5. SentForPlans' /\ ChainWritten'
    BY <1>1, <1>2, <2>4, SentAside, ChainAside DEF ConfiguredInv
  <2>6. \A tx : Receipt(tx)' = Receipt(tx)
    BY <1>2 DEF Receipt, Mined
  <2>7. Placed' /\ AwaitedRecorded' /\ ReserveLeft'
    BY <1>1, <2>1, <2>3, <2>4 DEF ConfiguredInv, Placed, AwaitedRecorded, ReserveLeft
  <2>8. PICK this, key : this = Step /\ key = Step.key
    OBVIOUS
  <2>9. PICK entry : entry = Entry(Step)
    OBVIOUS
  <2>10. /\ BooksKeep /\ RecordsNewest' /\ SentInOrder'
         /\ Checkpointed => /\ Kept(entry)' /\ RecordAt(entry)'.config = this.config
                            /\ RecordAt(entry)'.tx = script.tx
    <3>1. CASE ~Checkpointed
      <4>1. BooksKeep /\ NothingNew
        BY <2>2, <3>1, BooksAside
      <4> QED BY <1>2, <2>4, <3>1, <4>1, NewestAside, OrderAside DEF ConfiguredInv
    <3>2. CASE Checkpointed /\ Step.kind = "deploy"
      <4>0. PICK noted : noted = [config |-> this.config, tx |-> script.tx]
        OBVIOUS
      <4>1. ~Kept(entry) /\ entry = <<"deploy", key>>
        BY <2>4, <2>8, <2>9, <3>2 DEF ConfiguredInv, AwaitedRecorded, Entry
      <4>2. /\ key \notin DOMAIN contracts /\ DOMAIN contracts' = DOMAIN contracts \cup {key}
            /\ contracts'[key] = noted
            /\ \A k \in DOMAIN contracts : k # key => contracts'[k] = contracts[k]
            /\ operations' = operations
        BY <2>2, <2>8, <3>2, <4>0, <4>1 DEF Kept, With
      <4>3. noted.tx = script.tx /\ noted.config = this.config
        BY <4>0
      <4>4. Kept(entry)' /\ RecordAt(entry)' = noted
        BY <4>1, <4>2 DEF Kept, RecordAt
      <4>5. ASSUME NEW e, Kept(e) PROVE Kept(e)' /\ RecordAt(e)' = RecordAt(e)
        <5>1. CASE e[1] # "deploy"
          BY <4>2, <4>5, <5>1 DEF Kept, RecordAt
        <5>2. CASE e[1] = "deploy"
          <6>1. e[2] \in DOMAIN contracts /\ e[2] # key
            BY <5>2, <4>2, <4>5 DEF Kept
          <6> QED BY <5>2, <6>1, <4>2 DEF Kept, RecordAt
        <5> QED BY <5>1, <5>2
      <4>6. ASSUME NEW kind \in {"deploy", "operate"}, NEW k, Kept(<<kind, k>>)', ~Kept(<<kind, k>>)
            PROVE  <<kind, k>> = entry
        BY <4>1, <4>2, <4>6 DEF Kept
      <4>7. NewEntry(entry, noted)
        BY <2>1, <2>8, <2>9, <4>1, <4>3, <4>4, <4>5, <4>6 DEF NewEntry
      <4> QED BY <1>2, <2>4, <4>3, <4>4, <4>7, NewEntryRecorded
    <3>3. CASE Checkpointed /\ Step.kind # "deploy"
      <4>0. PICK noted :
              noted = [config |-> this.config, status |-> "confirmed", tx |-> script.tx,
                       block |-> receipt.block]
        OBVIOUS
      <4>1. entry = <<"operate", key>> /\ Kept(entry) /\ RecordAt(entry) = operations[key]
        <5>1. entry = <<"operate", key>>
          BY <2>1, <2>8, <2>9, <3>3 DEF Entry
        <5>2. Kept(entry)
          BY <1>1, <2>9, <3>3 DEF DeploymentInv, AwaitedIsKnown
        <5> QED BY <5>1, <5>2 DEF RecordAt
      <4>2. operations[key].tx = script.tx
        BY <2>4, <2>9, <4>1 DEF ConfiguredInv, AwaitedRecorded
      <4>3. operations[key].config = this.config
        <5>1. RecordAt(<<"operate", key>>).config = StepOf(RecordAt(<<"operate", key>>).tx).config
          BY <4>1 DEF ConfiguredInv, RecordsNewest
        <5> QED BY <5>1, <4>1, <4>2, <2>1, <2>8
      <4>4. /\ key \in DOMAIN operations /\ DOMAIN operations' = DOMAIN operations
            /\ operations'[key] = noted
            /\ \A k \in DOMAIN operations : k # key => operations'[k] = operations[k]
            /\ contracts' = contracts
        BY <2>2, <2>8, <3>3, <4>0, <4>1 DEF Kept, With
      <4>5. noted.tx = script.tx /\ noted.config = this.config
        BY <4>0
      <4>6. NothingNew
        BY <4>4 DEF NothingNew, Kept
      <4>7. BooksKeep
        <5> SUFFICES ASSUME NEW e, Kept(e)
                     PROVE  /\ Kept(e)' /\ RecordAt(e)'.tx = RecordAt(e).tx
                            /\ RecordAt(e)'.config = RecordAt(e).config
          BY DEF BooksKeep
        <5>1. CASE e[1] = "deploy"
          BY <4>4, <5>1 DEF Kept, RecordAt
        <5>2. CASE e[1] # "deploy" /\ e[2] # key
          BY <4>4, <5>2 DEF Kept, RecordAt
        <5>3. CASE e[1] # "deploy" /\ e[2] = key
          <6>1. Kept(e)' /\ RecordAt(e)' = noted /\ RecordAt(e) = operations[key]
            BY <4>4, <5>3 DEF Kept, RecordAt
          <6> QED BY <6>1, <4>2, <4>3, <4>5
        <5> QED BY <5>1, <5>2, <5>3
      <4>8. Kept(entry)' /\ RecordAt(entry)' = noted
        BY <4>1, <4>4 DEF Kept, RecordAt
      <4> QED BY <1>2, <2>4, <4>5, <4>6, <4>7, <4>8, NewestAside, OrderAside DEF ConfiguredInv
    <3> QED BY <3>1, <3>2, <3>3
  <2>11. PassedRecorded'
    <3> SUFFICES ASSUME Checkpointed, NEW i \in 1 .. script'.at - 1
                 PROVE  (LET passed == Plans[settings][i]
                         IN  /\ Kept(Entry(passed))
                             /\ RecordAt(Entry(passed)).config = passed.config
                             /\ ~faults.reorged =>
                                  Receipt(RecordAt(Entry(passed)).tx).status = "ok")'
      BY <2>4 DEF PassedRecorded
    <3>0. PICK p : p = Plans[settings][i]
      OBVIOUS
    <3>1. /\ Kept(Entry(p))' /\ RecordAt(Entry(p))'.config = p.config
          /\ ~faults.reorged => Receipt(RecordAt(Entry(p))'.tx).status = "ok"
      <4>1. CASE i = script.at
        <5>1. p = this /\ Entry(p) = entry
          BY <4>1, <3>0, <2>8, <2>9 DEF Step
        <5> QED BY <5>1, <2>2, <2>10 DEF Entry
      <4>2. CASE i # script.at
        <5>1. /\ Kept(Entry(p)) /\ RecordAt(Entry(p)).config = p.config
              /\ ~faults.reorged => Receipt(RecordAt(Entry(p)).tx).status = "ok"
          BY SMTT(40), <4>2, <3>0, <1>1, <2>1, <2>3 DEF ConfiguredInv, PassedRecorded
        <5> QED BY SMTT(40), <5>1, <2>10 DEF BooksKeep, Entry
      <4> QED BY <4>1, <4>2
    <3>2. (Plans[settings][i])' = p /\ Entry(p)' = Entry(p)
      BY <1>1, <3>0 DEF Entry
    <3> QED BY <1>2, <2>6, <3>1, <3>2 DEF Entry, Receipt, Mined
  <2>12. Unrecorded'
    BY <2>2, <2>4 DEF ConfiguredInv, Unrecorded
  <2>13. OwnRun'
    <3> SUFFICES ASSUME ~Checkpointed PROVE OwnRun'
      BY <2>4 DEF OwnRun
    <3>1. PICK base : base = Len(sent) - script.at
      OBVIOUS
    <3>2. Base = base /\ Base' = base
      <4>1. Base = Len(sent) - script.at
        BY <2>4 DEF Base
      <4>2. Base' = Len(sent') - (script'.at - 1)
        BY <2>4 DEF Base
      <4>3. Len(sent) \in Nat /\ script.at \in Nat /\ script'.at = script.at + 1 /\ sent' = sent
        BY <1>2, <2>1, <2>3
      <4> QED BY <3>1, <4>1, <4>2, <4>3
    <3>3. /\ base >= 0
          /\ \A i \in 1 .. script.at - 1 :
               /\ sent[base + i] = <<settings, i>>
               /\ ~faults.reorged => Receipt(base + i).status = "ok"
      BY <1>1, <3>2 DEF ConfiguredInv, OwnRun
    <3>4. base + script.at = Len(sent)
      BY <3>1, <2>1
    <3>5. /\ sent[base + script.at] = <<settings, script.at>>
          /\ Receipt(base + script.at).status = "ok"
      BY <3>4, <2>1, <2>2
    <3>6. \A i \in 1 .. script.at :
            /\ sent[base + i] = <<settings, i>>
            /\ ~faults.reorged => Receipt(base + i).status = "ok"
      BY <3>3, <3>5, <2>1
    <3>7. script'.at - 1 = script.at
      BY <2>1, <2>3
    <3> QED BY <1>1, <1>2, <2>6, <3>2, <3>3, <3>6, <3>7 DEF OwnRun
  <2> QED BY <2>5, <2>7, <2>10, <2>11, <2>12, <2>13 DEF ConfiguredInv
<1> QED BY <1>3, <1>4

\* The wallet's next transaction, as it is mined.
LEMMA Tip ==
  ASSUME DeploymentInv, NEW late \in BOOLEAN, Mine(late)
  PROVE  /\ Mined \in Nat /\ Len(sent) \in Nat /\ Mined + 1 <= Len(sent) /\ Mined' = Mined + 1
         /\ \A tx \in 1 .. Mined : receipts'[tx] = receipts[tx]
         /\ receipts'[Mined + 1].status = "ok" =>
              chain' = Over(StepOf(Mined + 1).sets, chain)
         /\ receipts'[Mined + 1].status # "ok" => chain' = chain
         /\ before' = chain /\ faults'.reorged = faults.reorged
         /\ UNCHANGED <<settings, script, contracts, operations, sent, runs>>
<1> DEFINE Status == {"ok", "reverted", "none"}
<1>0. PICK ok : ok = (~late /\ Holds(StepOf(Mined + 1).needs, chain))
  OBVIOUS
<1> DEFINE status == IF ok THEN "ok" ELSE "reverted"
<1> DEFINE one == 1
<1> DEFINE receipt == [status |-> status, block |-> one]
<1>1. /\ Pending # <<>>
      /\ receipts' = Append(receipts, receipt)
      /\ before' = chain
      /\ chain' = IF ok THEN Over(StepOf(Mined + 1).sets, chain) ELSE chain
      /\ UNCHANGED <<settings, script, contracts, operations, sent, runs>>
  BY <1>0 DEF Mine
<1>2. /\ receipts \in Seq([status : Status, block : Nat])
      /\ Len(receipts) \in Nat /\ Len(sent) \in Nat /\ Len(receipts) <= Len(sent)
      /\ Mined = Len(receipts) /\ sent \in Seq(AllSettings \X Nat)
  BY LenProperties DEF DeploymentInv, DeploymentTypes, Mined
<1>3. Len(receipts) + 1 <= Len(sent)
  <2> SUFFICES ASSUME Len(receipts) = Len(sent) PROVE FALSE
    BY <1>2
  <2>1. Pending = SubSeq(sent, Len(sent) + 1, Len(sent))
    BY <1>2 DEF Pending
  <2>2. SubSeq(sent, Len(sent) + 1, Len(sent)) = <<>>
    BY <1>2
  <2> QED BY <1>1, <2>1, <2>2
<1>4. receipt \in [status : Status, block : Nat] /\ receipt.status = status
  <2>1. status \in Status /\ one \in Nat
    OBVIOUS
  <2> HIDE DEF status, one, Status
  <2> QED BY <2>1
<1>5. /\ Len(receipts') = Len(receipts) + 1
      /\ \A i \in 1 .. Len(receipts) : receipts'[i] = receipts[i]
      /\ receipts'[Len(receipts) + 1] = receipt
  <2> HIDE DEF receipt, Status
  <2> QED BY <1>1, <1>2, <1>4, AppendProperties
<1>6. faults'.reorged = faults.reorged
  <2>1. \E n : faults' = [faults EXCEPT !.reverts = n]
    BY DEF Mine
  <2> QED BY <2>1
<1> HIDE DEF receipt
<1>7. receipts'[Mined + 1].status = status
  BY <1>2, <1>4, <1>5
<1> QED BY <1>1, <1>2, <1>3, <1>5, <1>6, <1>7 DEF Mined

LEMMA WrittenOver ==
  ASSUME NEW f, NEW g
  PROVE  /\ DOMAIN Over(f, g) = DOMAIN f \cup DOMAIN g
         /\ \A slot \in DOMAIN f : Over(f, g)[slot] = f[slot]
         /\ \A slot \in DOMAIN g \ DOMAIN f : Over(f, g)[slot] = g[slot]
BY DEF Over

\* One transaction more: its writes over those of the others.
LEMMA ChainGrows ==
  ASSUME NEW state, NEW n \in Nat, ChainIs(state, n),
         \A tx \in 1 .. n : receipts'[tx] = receipts[tx], sent' = sent,
         NEW after,
         receipts'[n + 1].status = "ok" => after = Over(StepOf(n + 1).sets, state),
         receipts'[n + 1].status # "ok" => after = state
  PROVE  ChainIs(after, n + 1)'
<1>1. \A tx : StepOf(tx)' = StepOf(tx)
  BY DEF StepOf
<1> SUFFICES ASSUME NEW tx \in 1 .. n + 1, receipts'[tx].status = "ok",
                    NEW slot \in DOMAIN StepOf(tx).sets,
                    \A u \in tx + 1 .. n + 1 : receipts'[u].status = "ok" =>
                                                slot \notin DOMAIN StepOf(u).sets
             PROVE  slot \in DOMAIN after /\ after[slot] = StepOf(tx).sets[slot]
  BY <1>1 DEF ChainIs
<1>0. PICK sets : sets = StepOf(n + 1).sets
  OBVIOUS
<1>4. /\ DOMAIN Over(sets, state) = DOMAIN sets \cup DOMAIN state
      /\ \A w \in DOMAIN sets : Over(sets, state)[w] = sets[w]
      /\ \A w \in DOMAIN state \ DOMAIN sets : Over(sets, state)[w] = state[w]
  BY DEF Over
<1>5. /\ receipts'[n + 1].status = "ok" => after = Over(sets, state)
      /\ receipts'[n + 1].status # "ok" => after = state
  BY <1>0
<1>2. CASE tx = n + 1
  <2>1. receipts'[n + 1].status = "ok" /\ StepOf(tx).sets = sets
    BY <1>0, <1>2
  <2> QED BY <1>4, <1>5, <2>1
<1>3. CASE tx # n + 1
  <2>1. tx \in 1 .. n /\ receipts[tx].status = "ok"
        /\ \A u \in tx + 1 .. n : u \in tx + 1 .. n + 1 /\ u \in 1 .. n
    BY <1>3
  <2>2. slot \in DOMAIN state /\ state[slot] = StepOf(tx).sets[slot]
    BY <2>1 DEF ChainIs
  <2>3. n + 1 \in tx + 1 .. n + 1
    BY <2>1
  <2>4. receipts'[n + 1].status = "ok" => slot \notin DOMAIN sets
    BY <1>0, <2>3
  <2> QED BY <1>4, <1>5, <2>2, <2>4
<1> QED BY <1>2, <1>3

\* The slots a transaction of a plan writes are planned.
LEMMA PlannedWrites ==
  ASSUME ConfiguredInv, NEW tx \in 1 .. Len(sent)
  PROVE  DOMAIN StepOf(tx).sets \subseteq PlannedSlots
<1>1. /\ sent[tx][1] \in runs.settings /\ sent[tx][1] \in AllSettings
      /\ sent[tx][2] \in DOMAIN Plans[sent[tx][1]]
  BY SMTT(40) DEF ConfiguredInv, SentForPlans
<1>2. DOMAIN StepOf(tx).sets \subseteq WrittenSlots[sent[tx][1]]
  BY <1>1 DEF StepOf, WrittenSlots
<1> QED BY <1>1, <1>2 DEF PlannedSlots

LEMMA MineConfigures ==
  ASSUME PlansInOrder, DeploymentInv, ConfiguredInv, NEW late \in BOOLEAN, Mine(late)
  PROVE  ConfiguredInv'
<1>1. /\ Mined \in Nat /\ Len(sent) \in Nat /\ Mined + 1 <= Len(sent) /\ Mined' = Mined + 1
      /\ \A tx \in 1 .. Mined : receipts'[tx] = receipts[tx]
      /\ receipts'[Mined + 1].status = "ok" => chain' = Over(StepOf(Mined + 1).sets, chain)
      /\ receipts'[Mined + 1].status # "ok" => chain' = chain
      /\ before' = chain /\ faults'.reorged = faults.reorged
      /\ UNCHANGED <<settings, script, contracts, operations, sent, runs>>
  BY Tip
<1>2. Env' = Env /\ runs.settings \subseteq runs'.settings /\ BooksKeep /\ NothingNew
  BY <1>1, BooksAside DEF Env
<1>3. SentForPlans' /\ Checkpointed' = Checkpointed
  BY <1>1, <1>2, SentAside DEF ConfiguredInv
<1>4. RecordsNewest' /\ SentInOrder' /\ Unrecorded'
  <2>1. RecordsNewest'
    BY <1>1, <1>2, NewestAside DEF ConfiguredInv
  <2>2. SentInOrder'
    BY <1>1, <1>2, <1>3, OrderAside DEF ConfiguredInv
  <2>3. Unrecorded'
    BY SMTT(40), <1>1, <1>3, UnrecordedAside DEF ConfiguredInv
  <2> QED BY <2>1, <2>2, <2>3
<1>5. Placed' /\ AwaitedRecorded'
  BY <1>1, <1>2, <1>3 DEF ConfiguredInv, Placed, AwaitedRecorded, Awaited, Kept, RecordAt, Step, Entry
<1>6. ASSUME NEW tx, Receipt(tx).status = "ok" PROVE Receipt(tx)'.status = "ok"
  <2>1. tx \in 1 .. Mined
    BY <1>6 DEF Receipt
  <2>2. tx \in 1 .. Mined' /\ receipts'[tx] = receipts[tx]
    BY <2>1, <1>1
  <2> QED BY <1>6, <2>1, <2>2 DEF Receipt
<1>7. PassedRecorded'
  <2> SUFFICES ASSUME Checkpointed, script.state # "stopped", NEW i \in 1 .. script.at - 1
               PROVE  (LET passed == Plans[settings][i]
                       IN  /\ Kept(Entry(passed))
                           /\ RecordAt(Entry(passed)).config = passed.config
                           /\ ~faults.reorged =>
                                Receipt(RecordAt(Entry(passed)).tx).status = "ok")'
    BY <1>1, <1>3 DEF PassedRecorded
  <2>0. PICK p : p = Plans[settings][i]
    OBVIOUS
  <2>1. /\ Kept(Entry(p)) /\ RecordAt(Entry(p)).config = p.config
        /\ ~faults.reorged => Receipt(RecordAt(Entry(p)).tx).status = "ok"
    BY <2>0 DEF ConfiguredInv, PassedRecorded
  <2>2. PICK held : held = RecordAt(Entry(p))
    BY SMTT(40)
  <2>3. Kept(Entry(p))' /\ RecordAt(Entry(p))' = held /\ Plans[settings'][i] = p
    BY <1>1, <2>0, <2>1, <2>2 DEF Kept, RecordAt, Entry
  <2>4. ~faults'.reorged => Receipt(held.tx)'.status = "ok"
    BY <1>1, <1>6, <2>1, <2>2
  <2> QED BY <2>1, <2>2, <2>3, <2>4 DEF Receipt
<1>8. OwnRun'
  <2> SUFFICES ASSUME ~Checkpointed, script.state # "stopped" PROVE OwnRun'
    BY <1>1, <1>3 DEF OwnRun
  <2>1. PICK base : base = Base
    OBVIOUS
  <2>2. Base' = base
    BY <1>1, <2>1 DEF Base, Awaited
  <2>3. /\ base >= 0
        /\ \A i \in 1 .. script.at - 1 :
             /\ sent[base + i] = <<settings, i>>
             /\ ~faults.reorged => Receipt(base + i).status = "ok"
    BY <2>1 DEF ConfiguredInv, OwnRun
  <2>4. \A i \in 1 .. script.at - 1 :
          /\ sent'[base + i] = <<settings, i>>
          /\ ~faults'.reorged => Receipt(base + i)'.status = "ok"
    BY <2>3, <1>1, <1>6
  <2> QED BY <1>1, <2>2, <2>3, <2>4 DEF OwnRun
<1>9. ChainWritten'
  <2>0. PICK now, after, n : now = chain /\ after = chain' /\ n = Mined
    OBVIOUS
  <2>1. ChainIs(now, n) /\ n \in Nat
    BY <1>1, <2>0 DEF ConfiguredInv, ChainWritten
  <2>2. ChainIs(after, n + 1)'
    BY <1>1, <2>0, <2>1, ChainGrows
  <2>3. ChainIs(now, n)'
    BY <1>1, <2>0, <2>1, ChainStays DEF StepOf
  <2>4. ChainIs(chain, Mined)'
    <3>1. chain' = after /\ Mined' = n + 1
      BY <1>1, <2>0
    <3> QED BY <2>2, <3>1 DEF ChainIs
  <2>5. ChainIs(before, Mined - 1)'
    <3>1. before' = now /\ Mined' - 1 = n
      BY <1>1, <2>0
    <3> QED BY <2>3, <3>1 DEF ChainIs
  <2>6. PlannedSlots' = PlannedSlots
    BY <1>1 DEF PlannedSlots
  <2>7. DOMAIN StepOf(Mined + 1).sets \subseteq PlannedSlots
    BY <1>1, PlannedWrites
  <2>8. DOMAIN chain' \subseteq DOMAIN chain \cup DOMAIN StepOf(Mined + 1).sets
    <3>1. chain' = chain \/ chain' = Over(StepOf(Mined + 1).sets, chain)
      BY <1>1
    <3>2. DOMAIN Over(StepOf(Mined + 1).sets, chain) = DOMAIN StepOf(Mined + 1).sets \cup DOMAIN chain
      BY WrittenOver
    <3> QED BY <3>1, <3>2
  <2> QED BY <1>1, <2>4, <2>5, <2>6, <2>7, <2>8 DEF ConfiguredInv, ChainWritten
<1>10. ReserveLeft'
  <2> SUFFICES ASSUME script.state = "finished", ~faults.reorged, Env.script = "futures"
               PROVE  FALSE
    BY <1>1, <1>2 DEF ReserveLeft
  <2>1. ~Checkpointed /\ ~Awaited /\ script.at > Len(Plans[settings]) /\ script.at \in Nat
        /\ settings \in AllSettings
    BY DEF ConfiguredInv, Placed, Checkpointed, Awaited, DeploymentInv, DeploymentTypes
  <2>2. Len(Plans[settings]) \in Nat \ {0}
    BY <2>1, PlansAreLists
  <2>3. script.at - 1 \in 1 .. script.at - 1
    BY <2>1, <2>2
  <2>4. Base + (script.at - 1) = Len(sent)
    BY <1>1, <2>1 DEF Base
  <2>5. Receipt(Len(sent)).status = "ok"
    BY <2>1, <2>3, <2>4 DEF ConfiguredInv, OwnRun
  <2>6. Len(sent) \in 1 .. Mined
    BY <2>5 DEF Receipt
  <2> QED BY <1>1, <2>6
<1> QED BY <1>3, <1>4, <1>5, <1>7, <1>8, <1>9, <1>10 DEF ConfiguredInv

LEMMA ReorgConfigures ==
  ASSUME PlansInOrder, DeploymentInv, ConfiguredInv, NEW dropped \in BOOLEAN, Reorg(dropped)
  PROVE  ConfiguredInv'
<1> DEFINE Receipts == [status : {"ok", "reverted", "none"}, block : Nat]
<1> DEFINE tip == Mined
<1>1. /\ tip > 0 /\ Receipt(tip).status = "ok" /\ faults'.reorged
      /\ UNCHANGED <<settings, script, contracts, operations, sent, before, runs>>
      /\ IF dropped
         THEN /\ receipts' = [receipts EXCEPT ![tip] = [status |-> "none", block |-> 0]]
              /\ chain' = before
         ELSE /\ receipts' = [receipts EXCEPT ![tip].block = @ + 1]
              /\ chain' = chain
  <2>1. \E n : faults' = [faults EXCEPT !.reorgs = n, !.reorged = TRUE]
    BY DEF Reorg
  <2>2. faults'.reorged
    BY <2>1 DEF DeploymentInv, DeploymentTypes
  <2> QED BY <2>2 DEF Reorg
<1>2. /\ receipts \in Seq(Receipts) /\ Len(receipts) \in Nat /\ tip = Len(receipts)
      /\ tip \in 1 .. Len(receipts) /\ DOMAIN receipts = 1 .. Len(receipts)
  BY <1>1, LenProperties DEF DeploymentInv, DeploymentTypes, Mined
<1>3. /\ Mined' = Mined
      /\ \A i \in 1 .. tip - 1 : receipts'[i] = receipts[i]
      /\ IF dropped THEN receipts'[tip].status = "none" /\ chain' = before
                    ELSE receipts'[tip].status = receipts[tip].status /\ chain' = chain
  <2>1. PICK n, receipt :
          /\ n = tip /\ receipts' = [receipts EXCEPT ![n] = receipt]
          /\ receipt.status = IF dropped THEN "none" ELSE receipts[tip].status
    <3>1. CASE dropped
      <4> DEFINE none == "none"
      <4> DEFINE zero == 0
      <4> DEFINE gone == [status |-> none, block |-> zero]
      <4>1. receipts' = [receipts EXCEPT ![tip] = gone]
        BY <1>1, <3>1
      <4>2. gone.status = none
        OBVIOUS
      <4> HIDE DEF gone
      <4> QED BY <3>1, <4>1, <4>2
    <3>2. CASE ~dropped
      <4>1. receipts[tip] \in Receipts
        BY <1>2, ElementOfSeq
      <4>2. receipts' = [receipts EXCEPT ![tip] = [receipts[tip] EXCEPT !.block = receipts[tip].block + 1]]
        BY <1>1, <3>2
      <4>3. [receipts[tip] EXCEPT !.block = receipts[tip].block + 1].status = receipts[tip].status
        BY <4>1
      <4> QED BY <3>2, <4>2, <4>3
    <3> QED BY <3>1, <3>2
  <2> HIDE DEF Receipts, tip
  <2>2. DOMAIN receipts' = DOMAIN receipts /\ Len(receipts') = Len(receipts)
    BY <1>2, <2>1
  <2>3. receipts'[n] = receipt /\ \A i \in 1 .. n - 1 : receipts'[i] = receipts[i]
    BY <1>2, <2>1
  <2> QED BY <1>1, <1>2, <2>1, <2>2, <2>3 DEF Mined, tip
<1> HIDE DEF Receipts
<1>4. Env' = Env /\ runs.settings \subseteq runs'.settings /\ BooksKeep /\ NothingNew
  BY <1>1, BooksAside DEF Env
<1>5. SentForPlans' /\ Checkpointed' = Checkpointed
  BY <1>1, <1>4, SentAside DEF ConfiguredInv
<1>6. RecordsNewest' /\ SentInOrder' /\ Unrecorded'
  <2>1. RecordsNewest'
    BY <1>1, <1>4, NewestAside DEF ConfiguredInv
  <2>2. SentInOrder'
    BY <1>1, <1>4, <1>5, OrderAside DEF ConfiguredInv
  <2>3. Unrecorded'
    BY SMTT(40), <1>1, <1>5, UnrecordedAside DEF ConfiguredInv
  <2> QED BY <2>1, <2>2, <2>3
<1>7. Placed' /\ AwaitedRecorded'
  BY <1>1, <1>4, <1>5 DEF ConfiguredInv, Placed, AwaitedRecorded, Awaited, Kept, RecordAt, Step, Entry
<1>8. PassedRecorded'
  <2> SUFFICES ASSUME Checkpointed, script.state # "stopped", NEW i \in 1 .. script.at - 1
               PROVE  (LET passed == Plans[settings][i]
                       IN  /\ Kept(Entry(passed))
                           /\ RecordAt(Entry(passed)).config = passed.config)'
    BY <1>1, <1>5 DEF PassedRecorded
  <2>1. /\ Kept(Entry(Plans[settings][i]))
        /\ RecordAt(Entry(Plans[settings][i])).config = Plans[settings][i].config
    BY DEF ConfiguredInv, PassedRecorded
  <2> QED BY <1>1, <2>1 DEF Kept, RecordAt, Entry
<1>9. OwnRun'
  <2>1. Base' = Base
    BY <1>1 DEF Base, Awaited
  <2> QED BY <1>1, <1>5, <2>1 DEF ConfiguredInv, OwnRun
<1>10. ReserveLeft'
  BY <1>1 DEF ReserveLeft
<1>11. ChainWritten'
  <2>0. PICK now, then, n : now = chain /\ then = before /\ n = Mined
    OBVIOUS
  <2>1. ChainIs(now, n) /\ ChainIs(then, n - 1) /\ n \in Nat /\ n - 1 \in Nat
        /\ 1 .. n - 1 \subseteq 1 .. n
    BY <1>2, <2>0 DEF ConfiguredInv, ChainWritten
  <2>2. \A tx \in 1 .. n - 1 : receipts'[tx] = receipts[tx]
    BY <1>3, <2>0
  <2>3. ChainIs(then, n - 1)'
    BY <1>1, <2>1, <2>2, ChainStays DEF StepOf
  <2>4. CASE dropped
    <3>1. chain' = then /\ receipts'[n].status = "none"
      BY <1>3, <2>0, <2>4
    <3>2. (n - 1) + 1 = n
      BY <2>1
    <3>3. ChainIs(then, n)'
      <4>1. PICK m : m = n - 1
        OBVIOUS
      <4>2. m \in Nat /\ ChainIs(then, m) /\ m + 1 = n
            /\ \A tx \in 1 .. m : receipts'[tx] = receipts[tx]
        BY <2>1, <2>2, <3>2, <4>1
      <4>3. receipts'[m + 1].status # "ok"
        BY <3>1, <4>2
      <4>4. ChainIs(then, m + 1)'
        BY <1>1, <4>2, <4>3, ChainGrows
      <4> QED BY <4>2, <4>4
    <3>4. ChainIs(chain, Mined)'
      BY <1>3, <2>0, <3>1, <3>3 DEF ChainIs
    <3>5. ChainIs(before, Mined - 1)'
      BY <1>1, <1>3, <2>0, <2>3 DEF ChainIs
    <3> QED BY <1>1, <2>0, <3>1, <3>4, <3>5 DEF ConfiguredInv, ChainWritten, PlannedSlots
  <2>5. CASE ~dropped
    <3>1. chain' = now /\ \A tx \in 1 .. n : receipts'[tx].status = receipts[tx].status
      <4>1. chain' = now
        BY <1>3, <2>0, <2>5
      <4>2. ASSUME NEW tx \in 1 .. n PROVE receipts'[tx].status = receipts[tx].status
        <5>1. CASE tx = n
          BY <1>3, <2>0, <2>5, <5>1
        <5>2. CASE tx # n
          BY <2>1, <2>2, <5>2
        <5> QED BY <5>1, <5>2
      <4> QED BY <4>1, <4>2
    <3>2. ChainIs(now, n)'
      BY <1>1, <2>1, <3>1, ChainStays DEF StepOf
    <3>3. ChainIs(chain, Mined)'
      BY <1>3, <2>0, <3>1, <3>2 DEF ChainIs
    <3>4. ChainIs(before, Mined - 1)'
      BY <1>1, <1>3, <2>0, <2>3 DEF ChainIs
    <3> QED BY <1>1, <2>0, <3>1, <3>3, <3>4 DEF ConfiguredInv, ChainWritten, PlannedSlots
  <2> QED BY <2>4, <2>5
<1> QED BY <1>5, <1>6, <1>7, <1>8, <1>9, <1>10, <1>11 DEF ConfiguredInv

LEMMA IdleConfigures ==
  ASSUME DeploymentInv, ConfiguredInv, UNCHANGED deploymentVars PROVE ConfiguredInv'
<1>1. UNCHANGED <<settings, script, contracts, operations, sent, receipts, chain, before, runs,
                  faults>>
  BY DEF deploymentVars
<1>2. Env' = Env /\ runs.settings \subseteq runs'.settings /\ BooksKeep /\ NothingNew
  BY <1>1, BooksAside DEF Env
<1>3. SentForPlans' /\ Checkpointed' = Checkpointed
  BY <1>1, <1>2, SentAside DEF ConfiguredInv
<1>4. RecordsNewest' /\ SentInOrder' /\ Unrecorded' /\ ChainWritten'
  <2>1. RecordsNewest'
    BY <1>1, <1>2, NewestAside DEF ConfiguredInv
  <2>2. SentInOrder'
    BY <1>1, <1>2, <1>3, OrderAside DEF ConfiguredInv
  <2>3. Unrecorded'
    BY <1>1, <1>3, UnrecordedAside DEF ConfiguredInv
  <2>4. ChainWritten'
    BY <1>1, <1>2, ChainAside DEF ConfiguredInv
  <2> QED BY <2>1, <2>2, <2>3, <2>4
<1>5. \A tx : Receipt(tx)' = Receipt(tx)
  BY SMTT(40), <1>1 DEF Receipt, Mined
<1>6. Placed' /\ AwaitedRecorded'
  BY SMTT(40), <1>1, <1>2, <1>3 DEF ConfiguredInv, Placed, AwaitedRecorded, Awaited, Kept, RecordAt, Step, Entry
<1>7. PassedRecorded'
  BY <1>1, <1>3, <1>5 DEF ConfiguredInv, PassedRecorded, Kept, RecordAt, Entry
<1>8. OwnRun'
  <2>1. Base' = Base
    BY <1>1 DEF Base, Awaited
  <2> QED BY <1>1, <1>3, <1>5, <2>1 DEF ConfiguredInv, OwnRun
<1>9. ReserveLeft'
  <2>1. Balance(Env)' = Balance(Env)
    BY <1>1, <1>2 DEF Balance, Mined
  <2> QED BY <1>1, <1>2, <2>1 DEF ConfiguredInv, ReserveLeft
<1> QED BY <1>3, <1>4, <1>6, <1>7, <1>8, <1>9 DEF ConfiguredInv

LEMMA ConfigStarts == DeploymentInit => ConfiguredInv
<1> SUFFICES ASSUME DeploymentInit PROVE ConfiguredInv
  OBVIOUS
<1> DEFINE none == <<>>
<1> DEFINE one == 1
<1>1. /\ script = [state |-> "stopped", at |-> one, tx |-> NoTx, why |-> "none"]
      /\ contracts = none /\ operations = none /\ sent = none /\ receipts = none
      /\ chain = none /\ before = none
  BY DEF DeploymentInit
<1>2. DOMAIN none = {} /\ Len(none) = 0 /\ 1 .. Len(none) = {} /\ 1 .. Len(none) - 1 = {}
  OBVIOUS
<1>3. script.state = "stopped" /\ script.at = 1
  BY <1>1
<1>4. ~Awaited
  BY <1>3 DEF Awaited
<1>5. SentForPlans /\ SentInOrder /\ Unrecorded /\ ChainWritten
  BY <1>1, <1>2 DEF SentForPlans, SentInOrder, Unrecorded, ChainWritten, ChainIs, Mined
<1>6. RecordsNewest
  BY <1>1, <1>2 DEF RecordsNewest, Kept
<1>7. Placed /\ PassedRecorded /\ AwaitedRecorded /\ OwnRun /\ ReserveLeft
  BY <1>3, <1>4 DEF Placed, PassedRecorded, AwaitedRecorded, OwnRun, ReserveLeft
<1> QED BY <1>5, <1>6, <1>7 DEF ConfiguredInv

LEMMA ConfigStep ==
  ASSUME PlansInOrder, DeploymentInv, ConfiguredInv, [DeploymentNext]_deploymentVars
  PROVE  ConfiguredInv'
<1>1. CASE UNCHANGED deploymentVars
  BY <1>1, IdleConfigures
<1>2. CASE DeploymentNext
  <2>1. ASSUME NEW s \in AllSettings, StartScript(s) PROVE ConfiguredInv'
    BY <2>1, StartConfigures
  <2>2. CASE ReuseContract
    BY <2>2, ReuseContractConfigures
  <2>3. CASE ReuseOperation
    BY <2>3, ReuseOperationConfigures
  <2>4. CASE Send
    BY <2>4, SendConfigures
  <2>5. CASE SavePending
    BY <2>5, SavePendingConfigures
  <2>6. CASE SaveConfirmed
    BY <2>6, SaveConfirmedConfigures
  <2>7. CASE Finish
    BY <2>7, FinishConfigures
  <2>8. CASE Crash
    BY <2>8, CrashConfigures
  <2>9. ASSUME NEW late \in BOOLEAN, Mine(late) PROVE ConfiguredInv'
    BY <2>9, MineConfigures
  <2>10. ASSUME NEW dropped \in BOOLEAN, Reorg(dropped) PROVE ConfiguredInv'
    BY <2>10, ReorgConfigures
  <2> QED BY <1>2, <2>1, <2>2, <2>3, <2>4, <2>5, <2>6, <2>7, <2>8, <2>9, <2>10 DEF DeploymentNext
<1> QED BY <1>1, <1>2

-----------------------------------------------------------------------------
(* The last writer of a slot.                                              *)

(* Every set of numbers up to n that is not empty has a largest element:   *)
(* n minus the least distance from n.                                      *)
LEMMA LargestOf ==
  ASSUME NEW n \in Nat, NEW S, S \subseteq 1 .. n, S # {}
  PROVE  Max(S) \in S /\ \A i \in S : i <= Max(S)
<1> DEFINE T == {d \in Nat : n - d \in S}
<1> DEFINE R == {ss \in Nat \X Nat : ss[1] < ss[2]}
<1>1. R = OpToRel(<, Nat)
  BY DEF OpToRel
<1>2. IsWellFoundedOn(R, Nat)
  BY <1>1, NatLessThanWellFounded, Zenon
<1>3. T \subseteq Nat /\ T # {}
  <2>1. PICK i \in S : TRUE
    OBVIOUS
  <2>2. n - i \in Nat /\ n - (n - i) = i
    OBVIOUS
  <2> QED BY <2>1, <2>2
<1> HIDE DEF R, T
<1>4. PICK d \in T : \A y \in T : ~ (<<y, d>> \in R)
  BY <1>2, <1>3, WFMin, Zenon
<1>5. \A y \in T : d <= y
  <2> SUFFICES ASSUME NEW y \in T PROVE d <= y
    OBVIOUS
  <2>1. y \in Nat /\ d \in Nat /\ ~ (<<y, d>> \in R)
    BY <1>3, <1>4
  <2>2. ~ (y < d)
    BY <2>1 DEF R
  <2> QED BY <2>1, <2>2
<1>6. n - d \in S /\ \A i \in S : n - d >= i
  <2>1. d \in Nat /\ n - d \in S
    BY DEF T
  <2>2. ASSUME NEW i \in S PROVE n - d >= i
    <3>1. n - i \in T /\ i \in Int
      <4>1. n - i \in Nat /\ n - (n - i) = i /\ i \in Int
        OBVIOUS
      <4> QED BY <4>1 DEF T
    <3>2. d <= n - i
      BY <1>5, <3>1
    <3> QED BY <2>1, <3>1, <3>2
  <2> QED BY <2>1, <2>2
<1>7. \E x \in S : \A i \in S : x >= i
  BY <1>6
<1>8. Max(S) \in S /\ \A i \in S : Max(S) >= i
  BY <1>7, Zenon DEF Max
<1> QED BY <1>8

LEMMA LastWriterIs ==
  ASSUME PlansInOrder, NEW s \in AllSettings, NEW slot \in WrittenSlots[s]
  PROVE  /\ LastWriter[s][slot] \in DOMAIN Plans[s]
         /\ LastWrite(s, slot) = Plans[s][LastWriter[s][slot]]
         /\ slot \in DOMAIN LastWrite(s, slot).sets
         /\ IntendedChains[s][slot] = LastWrite(s, slot).sets[slot]
         /\ \A i \in DOMAIN Plans[s] :
              slot \in DOMAIN Plans[s][i].sets => i <= LastWriter[s][slot]
<1> DEFINE S == {i \in DOMAIN Plans[s] : slot \in DOMAIN Plans[s][i].sets}
<1>1. Len(Plans[s]) \in Nat /\ DOMAIN Plans[s] = 1 .. Len(Plans[s])
  BY PlansAreLists
<1>2. WrittenSlots[s] = UNION {DOMAIN Plans[s][i].sets : i \in DOMAIN Plans[s]}
  BY DEF WrittenSlots
<1>3. S \subseteq 1 .. Len(Plans[s]) /\ S # {}
  BY <1>1, <1>2
<1>4. LastWriter[s][slot] = Max(S)
  BY DEF LastWriter
<1>5. IntendedChains[s][slot] = LastWrite(s, slot).sets[slot]
  BY DEF IntendedChains
<1> HIDE DEF S
<1>6. Max(S) \in S /\ \A i \in S : i <= Max(S)
  BY <1>1, <1>3, LargestOf
<1> QED BY <1>4, <1>5, <1>6 DEF S, LastWrite

-----------------------------------------------------------------------------
(* What a finished script leaves behind.                                   *)

\* The slot holds what the last of its writers in the plan leaves in it.
AsIntended(slot) == slot \in DOMAIN chain /\ chain[slot] = IntendedChains[settings][slot]

\* The newest transaction that wrote a slot says what the chain holds there.
LEMMA NewestWrites ==
  ASSUME DeploymentInv, ConfiguredInv, NEW slot, NEW tx \in 1 .. Mined,
         receipts[tx].status = "ok", slot \in DOMAIN StepOf(tx).sets
  PROVE  \E last \in 1 .. Mined :
           /\ last >= tx /\ receipts[last].status = "ok" /\ slot \in DOMAIN StepOf(last).sets
           /\ slot \in DOMAIN chain /\ chain[slot] = StepOf(last).sets[slot]
<1> DEFINE W == {u \in 1 .. Mined : receipts[u].status = "ok" /\ slot \in DOMAIN StepOf(u).sets}
<1>1. Mined \in Nat
  BY LenProperties DEF DeploymentInv, DeploymentTypes, Mined
<1>2. W \subseteq 1 .. Mined /\ W # {} /\ tx \in W
  OBVIOUS
<1>3. PICK last : last = Max(W)
  OBVIOUS
<1> HIDE DEF W
<1>4. last \in W /\ \A u \in W : u <= last
  BY <1>1, <1>2, <1>3, LargestOf
<1>5. /\ last \in 1 .. Mined /\ last >= tx /\ receipts[last].status = "ok"
      /\ slot \in DOMAIN StepOf(last).sets
  BY <1>2, <1>4 DEF W
<1>6. \A u \in last + 1 .. Mined : receipts[u].status = "ok" => slot \notin DOMAIN StepOf(u).sets
  <2> SUFFICES ASSUME NEW u \in last + 1 .. Mined, u \in W PROVE FALSE
    BY <1>1, <1>5 DEF W
  <2> QED BY <1>4, <1>5
<1>7. slot \in DOMAIN chain /\ chain[slot] = StepOf(last).sets[slot]
  BY <1>5, <1>6 DEF ConfiguredInv, ChainWritten, ChainIs
<1> QED BY <1>5, <1>7

\* The bootstrap: a later writer of something else is one the plan overwrites.
LEMMA CheckpointedSlot ==
  ASSUME PlansInOrder, DeploymentInv, ConfiguredInv,
         script.state = "finished", ~faults.reorged, Checkpointed,
         NEW slot \in WrittenSlots[settings],
         \A t, u \in runs.settings \cap Bootstraps :
           ConfigBinds(settings, t, slot) /\ Overwritten(settings, t, u, slot)
  PROVE  AsIntended(slot)
<1>0. PICK s, p, e, noted : /\ s = settings /\ p = LastWrite(s, slot) /\ e = Entry(p)
                             /\ noted = RecordAt(e)
  OBVIOUS
<1>1. /\ s \in AllSettings /\ Mined \in Nat /\ Len(sent) \in Nat /\ Mined <= Len(sent)
  BY <1>0, LenProperties DEF DeploymentInv, DeploymentTypes, Mined
<1>2. PICK l : /\ l \in DOMAIN Plans[s] /\ p = Plans[s][l] /\ slot \in DOMAIN p.sets
               /\ IntendedChains[s][slot] = p.sets[slot]
  BY <1>0, <1>1, LastWriterIs
<1>3. /\ Kept(e) /\ noted.config = p.config /\ Receipt(noted.tx).status = "ok"
  <2>1. script.at > Len(Plans[s]) /\ DOMAIN Plans[s] = 1 .. Len(Plans[s]) /\ script.at \in Nat
        /\ Len(Plans[s]) \in Nat
    BY <1>0, <1>1, PlansAreLists DEF ConfiguredInv, Placed, DeploymentInv, DeploymentTypes
  <2>2. l \in 1 .. script.at - 1
    BY <1>2, <2>1
  <2> QED BY <2>2, <1>0, <1>2 DEF ConfiguredInv, PassedRecorded
<1>4. e[1] \in {"deploy", "operate"} /\ e = <<e[1], e[2]>>
  BY <1>0, <1>1, <1>2, PlansAreLists DEF Entry
<1>5. /\ noted.tx \in 1 .. Len(sent) /\ Entry(StepOf(noted.tx)) = e
      /\ noted.config = StepOf(noted.tx).config
      /\ \A tx \in noted.tx + 1 .. Len(sent) : Entry(StepOf(tx)) # e
  BY <1>0, <1>3, <1>4 DEF ConfiguredInv, RecordsNewest
<1>6. ASSUME NEW tx \in 1 .. Len(sent)
      PROVE  /\ sent[tx][1] \in runs.settings \cap Bootstraps
             /\ sent[tx][2] \in DOMAIN Plans[sent[tx][1]]
             /\ StepOf(tx) = Plans[sent[tx][1]][sent[tx][2]]
  BY DEF ConfiguredInv, SentForPlans, Bootstraps, Checkpointed, StepOf
<1>7. /\ slot \in DOMAIN StepOf(noted.tx).sets
      /\ StepOf(noted.tx).sets[slot] = IntendedChains[s][slot]
  <2>1. PICK t, i : t = sent[noted.tx][1] /\ i = sent[noted.tx][2]
    OBVIOUS
  <2>2. /\ t \in runs.settings \cap Bootstraps /\ i \in DOMAIN Plans[t]
        /\ StepOf(noted.tx) = Plans[t][i]
    BY <1>5, <1>6, <2>1
  <2>3. ConfigBinds(s, t, slot)
    BY <1>0, <2>2
  <2>4. Entry(Plans[t][i]) = e /\ Plans[t][i].config = p.config
    BY <1>3, <1>5, <2>2
  <2> QED BY <1>0, <2>2, <2>3, <2>4 DEF ConfigBinds
<1>8. noted.tx \in 1 .. Mined /\ receipts[noted.tx].status = "ok"
  BY <1>3 DEF Receipt
<1>9. PICK last \in 1 .. Mined :
        /\ last >= noted.tx /\ slot \in DOMAIN StepOf(last).sets
        /\ slot \in DOMAIN chain /\ chain[slot] = StepOf(last).sets[slot]
  BY <1>7, <1>8, NewestWrites
<1>10. StepOf(last).sets[slot] = IntendedChains[s][slot]
  <2> SUFFICES ASSUME StepOf(last).sets[slot] # IntendedChains[s][slot] PROVE FALSE
    OBVIOUS
  <2>1. last \in 1 .. Len(sent) /\ last \in noted.tx + 1 .. Len(sent)
    <3>1. last # noted.tx
      BY <1>7
    <3> QED BY <1>1, <1>5, <1>9, <3>1
  <2>2. PICK t, i, u, k : /\ t = sent[last][1] /\ i = sent[last][2]
                          /\ u = sent[noted.tx][1] /\ k = sent[noted.tx][2]
    OBVIOUS
  <2>3. /\ t \in runs.settings \cap Bootstraps /\ i \in DOMAIN Plans[t]
        /\ StepOf(last) = Plans[t][i]
        /\ u \in runs.settings \cap Bootstraps /\ k \in DOMAIN Plans[u]
        /\ StepOf(noted.tx) = Plans[u][k]
    BY <1>5, <1>6, <2>1, <2>2
  <2>4. Overwritten(s, t, u, slot)
    BY <1>0, <2>3
  <2>5. Entry(Plans[t][i]) # e /\ Entry(Plans[u][k]) = e
    BY <1>5, <2>1, <2>3
  <2>6. PICK j \in 1 .. k - 1 : Entry(Plans[u][j]) = Entry(Plans[t][i])
    BY <1>0, <1>9, <2>3, <2>4, <2>5 DEF Overwritten
  <2>7. PICK other : other = Entry(Plans[t][i])
    BY SMTT(40)
  <2>8. Kept(other) /\ RecordAt(other).tx < noted.tx
    BY <1>5, <2>2, <2>6, <2>7 DEF ConfiguredInv, SentInOrder
  <2>9. other[1] \in {"deploy", "operate"} /\ other = <<other[1], other[2]>>
    BY <2>3, <2>7, PlansAreLists DEF Entry, Bootstraps
  <2>10. /\ RecordAt(other).tx \in 1 .. Len(sent)
         /\ \A tx \in RecordAt(other).tx + 1 .. Len(sent) : Entry(StepOf(tx)) # other
    BY <2>8, <2>9 DEF ConfiguredInv, RecordsNewest
  <2>11. last \in RecordAt(other).tx + 1 .. Len(sent)
    BY <1>5, <2>1, <2>8, <2>10
  <2> QED BY <2>3, <2>7, <2>10, <2>11
<1> QED BY <1>0, <1>9, <1>10 DEF AsIntended

\* A script without a checkpoint: the run's own transactions are the newest.
LEMMA UncheckpointedSlot ==
  ASSUME PlansInOrder, DeploymentInv, ConfiguredInv,
         script.state = "finished", ~faults.reorged, ~Checkpointed,
         NEW slot \in WrittenSlots[settings]
  PROVE  AsIntended(slot)
<1>0. PICK s, p, base : s = settings /\ p = LastWrite(s, slot) /\ base = Base
  OBVIOUS
<1>1. /\ s \in AllSettings /\ Mined \in Nat /\ Len(sent) \in Nat /\ Mined <= Len(sent)
      /\ script.at \in Nat
  BY <1>0, LenProperties DEF DeploymentInv, DeploymentTypes, Mined
<1>2. PICK l : /\ l \in DOMAIN Plans[s] /\ p = Plans[s][l] /\ slot \in DOMAIN p.sets
               /\ IntendedChains[s][slot] = p.sets[slot]
               /\ \A i \in DOMAIN Plans[s] : slot \in DOMAIN Plans[s][i].sets => i <= l
  BY <1>0, <1>1, LastWriterIs
<1>3. l \in 1 .. script.at - 1
  <2>1. script.at > Len(Plans[s]) /\ DOMAIN Plans[s] = 1 .. Len(Plans[s])
        /\ Len(Plans[s]) \in Nat
    BY <1>0, <1>1, PlansAreLists DEF ConfiguredInv, Placed
  <2> QED BY <1>1, <1>2, <2>1
<1>4. base = Len(sent) - (script.at - 1)
  BY <1>0 DEF Base, Awaited
<1>5. /\ base >= 0
      /\ \A i \in 1 .. script.at - 1 :
           sent[base + i] = <<s, i>> /\ Receipt(base + i).status = "ok"
  BY <1>0 DEF ConfiguredInv, OwnRun
<1>6. ASSUME NEW i \in 1 .. script.at - 1
      PROVE  /\ base + i \in 1 .. Len(sent) /\ i \in DOMAIN Plans[s]
             /\ StepOf(base + i) = Plans[s][i]
  <2>1. base + i \in 1 .. Len(sent)
    BY <1>1, <1>4, <1>5
  <2>2. sent[base + i][1] = s /\ sent[base + i][2] = i
    BY <1>5
  <2>3. i \in DOMAIN Plans[s]
    BY <2>1, <2>2 DEF ConfiguredInv, SentForPlans
  <2> QED BY <2>1, <2>2, <2>3 DEF StepOf
<1>7. base + l \in 1 .. Mined /\ receipts[base + l].status = "ok" /\ StepOf(base + l) = p
  BY <1>2, <1>3, <1>5, <1>6 DEF Receipt
<1>8. PICK last \in 1 .. Mined :
        /\ last >= base + l /\ slot \in DOMAIN StepOf(last).sets
        /\ slot \in DOMAIN chain /\ chain[slot] = StepOf(last).sets[slot]
  BY <1>2, <1>7, NewestWrites
<1>9. last = base + l
  <2>1. PICK i : i = last - base
    OBVIOUS
  <2>2. i \in 1 .. script.at - 1 /\ last = base + i /\ i >= l
    <3>1. base \in Int /\ base + l \in Int /\ last \in Int /\ l \in Int
      BY <1>1, <1>3, <1>4
    <3>2. last <= Len(sent) /\ last >= base + l /\ l >= 1
      BY <1>1, <1>3, <1>8
    <3>3. i \in Int /\ i >= l /\ last = base + i /\ i <= Len(sent) - base
      BY <1>1, <2>1, <3>1, <3>2
    <3>4. Len(sent) - base = script.at - 1
      BY <1>1, <1>4
    <3> QED BY <1>1, <3>1, <3>2, <3>3, <3>4
  <2>3. slot \in DOMAIN Plans[s][i].sets
    BY <1>6, <1>8, <2>2
  <2>4. i <= l
    BY <1>2, <1>6, <2>2, <2>3
  <2> QED BY <1>3, <2>2, <2>4
<1> QED BY <1>0, <1>2, <1>7, <1>8, <1>9 DEF AsIntended

LEMMA ConfiguredThen ==
  ASSUME PlansInOrder, DeploymentInv, ConfiguredInv
  PROVE  FinishedAsConfigured
<1> SUFFICES ASSUME script.state = "finished", ~faults.reorged
             PROVE  /\ Configured(settings)
                    /\ Env.script = "futures" => /\ Balance(Env) >= Env.reserve
                                                 /\ Env.owner # "deployer"
  BY DEF FinishedAsConfigured
<1>1. settings \in AllSettings
  BY DEF DeploymentInv, DeploymentTypes
<1>2. Configured(settings)
  <2> SUFFICES ASSUME NEW slot \in OperatedSlots[settings] PROVE AsIntended(slot)
    BY DEF Configured, AsIntended
  <2>1. slot \in WrittenSlots[settings]
    BY <1>1 DEF OperatedSlots, WrittenSlots
  <2>2. CASE Checkpointed
    <3>1. settings \in Bootstraps
      BY <1>1, <2>2 DEF Bootstraps, Checkpointed, Env
    <3>2. ASSUME NEW t \in Bootstraps, NEW u \in Bootstraps
          PROVE  ConfigBinds(settings, t, slot) /\ Overwritten(settings, t, u, slot)
      BY <2>1, <3>1 DEF PlansInOrder
    <3>3. \A t, u \in runs.settings \cap Bootstraps :
            ConfigBinds(settings, t, slot) /\ Overwritten(settings, t, u, slot)
      BY <3>2
    <3> QED BY <2>1, <2>2, <3>3, CheckpointedSlot
  <2>3. CASE ~Checkpointed
    BY <2>1, <2>3, UncheckpointedSlot
  <2> QED BY <2>2, <2>3
<1>3. Env.script = "futures" => Balance(Env) >= Env.reserve /\ Env.owner # "deployer"
  BY DEF ConfiguredInv, ReserveLeft, Placed, FuturesConfigValid
<1> QED BY <1>2, <1>3

(* A script that finishes leaves on the chain what its own settings         *)
(* describe, whatever crashes, retries, reverts and runs with other settings *)
(* came before: for any environments whose plans are in order, any number of *)
(* runs, reorganisations and reverts (deploy-testnet.mjs,                    *)
(* deployment-checkpoint.mjs).  The same plans rerun over a checkpoint must  *)
(* bind what they write to the keys and configurations the checkpoint knows. *)
THEOREM DeployedAsConfigured ==
  ASSUME PlansInOrder PROVE DeploymentSpec => []FinishedAsConfigured
<1>1. DeploymentInit => DeploymentInv /\ ConfiguredInv
  BY InitiallyAccounted, ConfigStarts
<1>2. DeploymentInv /\ ConfiguredInv /\ [DeploymentNext]_deploymentVars
        => DeploymentInv' /\ ConfiguredInv'
  BY DeploymentStep, ConfigStep
<1>3. DeploymentInv /\ ConfiguredInv => FinishedAsConfigured
  BY ConfiguredThen
<1> QED BY <1>1, <1>2, <1>3, PTL DEF DeploymentSpec

-----------------------------------------------------------------------------
\* What the procedure does around the script leaves the script alone.
LEMMA ReleaseStepRuns == [ReleaseNext]_releaseVars => [DeploymentNext]_deploymentVars
<1> SUFFICES ASSUME [ReleaseNext]_releaseVars PROVE [DeploymentNext]_deploymentVars
  OBVIOUS
<1>1. CASE \E s \in AllSettings : Preflight(s)
  BY <1>1 DEF Preflight
<1>2. CASE \E s \in AllSettings : Launch(s)
  BY <1>2 DEF Launch, DeploymentNext
<1>3. CASE Runs
  BY <1>3 DEF Runs, DeploymentNext
<1>4. CASE Publish
  BY <1>4 DEF Publish, DeploymentNext
<1>5. CASE FillEvidence \/ ActivateGuardian \/ Outside
  BY <1>5 DEF FillEvidence, ActivateGuardian, Outside
<1>6. CASE Drill
  BY <1>6 DEF Drill
<1>7. CASE SmokeValidates \/ SmokeProbes \/ SmokeApproves \/ SmokeSwaps \/ SmokeRevokes
  BY <1>7 DEF SmokeValidates, SmokeProbes, SmokeApproves, SmokeSwaps, SmokeRevokes,
              SmokeUnchanged
<1>8. CASE Monitor \/ \E report \in reports : PackageEvidence(report)
  BY <1>8 DEF Monitor, PackageEvidence
<1>9. CASE UNCHANGED releaseVars
  BY <1>9 DEF releaseVars
<1> QED BY <1>1, <1>2, <1>3, <1>4, <1>5, <1>6, <1>7, <1>8, <1>9 DEF ReleaseNext

(***************************************************************************)
(* The release procedure only ever runs the deployment script: whatever    *)
(* the preflight, the Safe, the drill, the monitor and the smoke test do   *)
(* in between, the script and the chain behave as Deployment says, so what *)
(* is proved of the script holds of the whole release.                     *)
(***************************************************************************)
THEOREM ReleaseRunsTheScript == ReleaseSpec => DeploymentSpec
<1>1. ReleaseInit => DeploymentInit
  BY DEF ReleaseInit
<1> QED BY <1>1, ReleaseStepRuns, PTL DEF ReleaseSpec, DeploymentSpec

-----------------------------------------------------------------------------
(* The release: what the record keeps, and who activated the Guardian.     *)

\* A record repeats the settings of the bootstrap that finished.
RecordKept ==
  record # NoRecord =>
    /\ script.state = "finished" /\ Checkpointed
    /\ \E safe, evidence :
         record = [of |-> "this",
                   owner |-> Env.owner, riskAdmin |-> Env.riskAdmin, guardian |-> Env.guardian,
                   treasury |-> Env.treasury, policy |-> safe,
                   vaultCap |-> Env.vaultCap, strategyCap |-> Env.strategyCap,
                   dexes |-> DexesRecorded(Env), pools |-> Env.pools, evidence |-> evidence]

\* The Guardian's activation found the recorded roles apart.
GuardianReviewed ==
  /\ protocol \in [guardian : BOOLEAN, paused : BOOLEAN, disabled : BOOLEAN, deposits : Nat]
  /\ protocol.guardian => record # NoRecord /\ RolesApart

ReleaseInv == DeploymentInv /\ ConfiguredInv /\ RecordKept /\ GuardianReviewed

\* Once the script has finished it is not started again, and the process is gone.
LEMMA FinishedStays ==
  ASSUME script.state = "finished", DeploymentNext
  PROVE  UNCHANGED <<settings, script>>
<1>1. ASSUME NEW s \in AllSettings, StartScript(s) PROVE FALSE
  BY <1>1 DEF StartScript
<1>2. ~(ReuseContract \/ ReuseOperation \/ Send)
  BY DEF ReuseContract, ReuseOperation, Send, Working
<1>3. ~(SavePending \/ SaveConfirmed \/ Finish \/ Crash)
  BY DEF SavePending, SaveConfirmed, Finish, Crash, Running
<1>4. ASSUME NEW late \in BOOLEAN, Mine(late) PROVE UNCHANGED <<settings, script>>
  BY <1>4 DEF Mine
<1>5. ASSUME NEW dropped \in BOOLEAN, Reorg(dropped) PROVE UNCHANGED <<settings, script>>
  BY <1>5 DEF Reorg
<1> QED BY <1>1, <1>2, <1>3, <1>4, <1>5 DEF DeploymentNext

\* Neither conjunct moves while the record and the protocol stay as they are.
LEMMA RecordAside ==
  ASSUME [DeploymentNext]_deploymentVars, UNCHANGED <<record, protocol>>,
         RecordKept, GuardianReviewed
  PROVE  RecordKept' /\ GuardianReviewed'
<1>1. GuardianReviewed'
  BY DEF GuardianReviewed, RolesApart
<1>2. RecordKept'
  <2> SUFFICES ASSUME record # NoRecord PROVE RecordKept'
    BY DEF RecordKept, NoRecord
  <2>1. script.state = "finished"
    BY DEF RecordKept
  <2>2. UNCHANGED <<settings, script>>
    BY <2>1, FinishedStays DEF deploymentVars
  <2> QED BY <2>2 DEF RecordKept, Checkpointed, Env
<1> QED BY <1>1, <1>2

LEMMA PublishRecords ==
  ASSUME RecordKept, GuardianReviewed, Publish
  PROVE  RecordKept' /\ GuardianReviewed'
<1>1. script.state = "next" /\ settings' = settings /\ protocol' = protocol
      /\ record' = IF script'.state = "finished" /\ Checkpointed THEN RecordOf(Env) ELSE record
  BY DEF Publish, Finish
<1>2. record = NoRecord /\ ~protocol.guardian
  BY <1>1 DEF RecordKept, GuardianReviewed
<1>3. GuardianReviewed'
  BY <1>1, <1>2 DEF GuardianReviewed
<1>4. CASE script'.state = "finished" /\ Checkpointed
  <2>1. record' = RecordOf(Env)
    BY <1>1, <1>4
  <2>2. Env' = Env /\ Checkpointed'
    BY <1>1, <1>4 DEF Env, Checkpointed
  <2>3. \E safe, evidence :
          record' = [of |-> "this",
                     owner |-> Env.owner, riskAdmin |-> Env.riskAdmin, guardian |-> Env.guardian,
                     treasury |-> Env.treasury, policy |-> safe,
                     vaultCap |-> Env.vaultCap, strategyCap |-> Env.strategyCap,
                     dexes |-> DexesRecorded(Env), pools |-> Env.pools, evidence |-> evidence]
    BY <2>1 DEF RecordOf
  <2> QED BY <1>3, <1>4, <2>2, <2>3 DEF RecordKept
<1>5. CASE ~(script'.state = "finished" /\ Checkpointed)
  BY <1>1, <1>2, <1>3, <1>5 DEF RecordKept, NoRecord
<1> QED BY <1>4, <1>5

LEMMA FillRecords ==
  ASSUME RecordKept, GuardianReviewed, FillEvidence
  PROVE  RecordKept' /\ GuardianReviewed'
<1>1. /\ record # NoRecord /\ UNCHANGED <<settings, script, protocol>>
      /\ record' = [record EXCEPT !.evidence = record.evidence \cup {"lqc"}]
  BY DEF FillEvidence, deploymentVars
<1>2. Env' = Env /\ Checkpointed' = Checkpointed
  BY <1>1 DEF Env, Checkpointed
<1>3. PICK safe, evidence :
         record = [of |-> "this",
                   owner |-> Env.owner, riskAdmin |-> Env.riskAdmin, guardian |-> Env.guardian,
                   treasury |-> Env.treasury, policy |-> safe,
                   vaultCap |-> Env.vaultCap, strategyCap |-> Env.strategyCap,
                   dexes |-> DexesRecorded(Env), pools |-> Env.pools, evidence |-> evidence]
  BY <1>1 DEF RecordKept
<1>4. PICK filled : filled = record.evidence \cup {"lqc"}
  OBVIOUS
<1>5. record' = [of |-> "this",
                 owner |-> Env.owner, riskAdmin |-> Env.riskAdmin, guardian |-> Env.guardian,
                 treasury |-> Env.treasury, policy |-> safe,
                 vaultCap |-> Env.vaultCap, strategyCap |-> Env.strategyCap,
                 dexes |-> DexesRecorded(Env), pools |-> Env.pools, evidence |-> filled]
  BY <1>1, <1>3, <1>4
<1>6. RecordKept'
  BY ZenonT(60), <1>1, <1>2, <1>5 DEF RecordKept
<1>7. record' # NoRecord
  <2>1. record'.of = "this" /\ NoRecord.of = "none"
    BY <1>5 DEF NoRecord
  <2> QED BY <2>1
<1>8. /\ record'.owner = record.owner /\ record'.riskAdmin = record.riskAdmin
      /\ record'.guardian = record.guardian /\ record'.treasury = record.treasury
  BY <1>3, <1>5
<1>9. GuardianReviewed'
  BY <1>1, <1>7, <1>8 DEF GuardianReviewed, RolesApart
<1> QED BY <1>6, <1>9

\* The activation, the drill and the vault's users change the protocol only.
LEMMA ProtocolAside ==
  ASSUME RecordKept, UNCHANGED <<deploymentVars, record>> PROVE RecordKept'
BY DEF RecordKept, deploymentVars, Checkpointed, Env, NoRecord

LEMMA ProcedureKeeps ==
  ASSUME RecordKept, GuardianReviewed, [ReleaseNext]_releaseVars
  PROVE  RecordKept' /\ GuardianReviewed'
<1>1. [DeploymentNext]_deploymentVars
  BY ReleaseStepRuns
<1>2. CASE Publish
  BY <1>2, PublishRecords
<1>3. CASE FillEvidence
  BY <1>3, FillRecords
<1>4. CASE ActivateGuardian
  <2>1. /\ record # NoRecord /\ RolesApart /\ UNCHANGED <<deploymentVars, record>>
        /\ protocol' = [protocol EXCEPT !.guardian = TRUE]
    BY <1>4 DEF ActivateGuardian, Deployed, ActivationBundle
  <2>2. GuardianReviewed'
    BY <2>1 DEF GuardianReviewed, RolesApart
  <2> QED BY <2>1, <2>2, ProtocolAside
<1>5. CASE Outside
  <2> DEFINE one == 1
  <2>1. /\ UNCHANGED <<deploymentVars, record>>
        /\ protocol' = [protocol EXCEPT !.deposits = one] \/ UNCHANGED protocol
    BY <1>5 DEF Outside
  <2>2. GuardianReviewed'
    <3>1. one \in Nat
      OBVIOUS
    <3> HIDE DEF one
    <3> QED BY <2>1, <3>1 DEF GuardianReviewed, RolesApart
  <2> QED BY <2>1, <2>2, ProtocolAside
<1>6. CASE Drill
  <2>1. /\ UNCHANGED <<deploymentVars, record>>
        /\ \/ protocol' = [protocol EXCEPT !.disabled = TRUE]
           \/ protocol' = [protocol EXCEPT !.paused = TRUE]
           \/ protocol' = [protocol EXCEPT !.disabled = FALSE, !.paused = FALSE]
           \/ protocol' = protocol
    <3>1. PICK doing : doing = DrillSteps[drill + 1]
      OBVIOUS
    <3>2. /\ UNCHANGED <<deploymentVars, record>>
          /\ protocol' = CASE doing = "PAUSE_DEX" -> [protocol EXCEPT !.disabled = TRUE]
                           [] doing = "PAUSE_ALL_SWAPS" -> [protocol EXCEPT !.paused = TRUE]
                           [] doing = "EXECUTE_RECOVERY" ->
                                [protocol EXCEPT !.disabled = FALSE, !.paused = FALSE]
                           [] OTHER -> protocol
      BY <1>6, <3>1 DEF Drill
    <3>3. CASE doing = "PAUSE_DEX"
      BY <3>2, <3>3
    <3>4. CASE doing = "PAUSE_ALL_SWAPS"
      BY <3>2, <3>4
    <3>5. CASE doing = "EXECUTE_RECOVERY"
      BY <3>2, <3>5
    <3>6. CASE doing \notin {"PAUSE_DEX", "PAUSE_ALL_SWAPS", "EXECUTE_RECOVERY"}
      BY <3>2, <3>6
    <3> QED BY <3>2, <3>3, <3>4, <3>5, <3>6
  <2>2. GuardianReviewed'
    BY <2>1 DEF GuardianReviewed, RolesApart
  <2> QED BY <2>1, <2>2, ProtocolAside
<1>7. CASE UNCHANGED <<record, protocol>>
  BY <1>1, <1>7, RecordAside
<1>8. \/ Publish \/ FillEvidence \/ ActivateGuardian \/ Outside \/ Drill
      \/ UNCHANGED <<record, protocol>>
  BY DEF ReleaseNext, Preflight, Launch, Runs, SmokeValidates, SmokeProbes, SmokeApproves,
         SmokeSwaps, SmokeRevokes, SmokeUnchanged, Monitor, PackageEvidence, procedureVars,
         releaseVars
<1> QED BY <1>2, <1>3, <1>4, <1>5, <1>6, <1>7, <1>8

LEMMA ReleaseStarts == ReleaseInit => ReleaseInv
<1> SUFFICES ASSUME ReleaseInit PROVE ReleaseInv
  OBVIOUS
<1> DEFINE zero == 0
<1>1. /\ DeploymentInit /\ record = NoRecord
      /\ protocol = [guardian |-> FALSE, paused |-> FALSE, disabled |-> FALSE, deposits |-> zero]
  BY DEF ReleaseInit
<1>2. DeploymentInv /\ ConfiguredInv
  BY <1>1, InitiallyAccounted, ConfigStarts
<1>3. GuardianReviewed
  <2>1. zero \in Nat
    OBVIOUS
  <2> HIDE DEF zero
  <2> QED BY <1>1, <2>1 DEF GuardianReviewed
<1> QED BY <1>1, <1>2, <1>3 DEF ReleaseInv, RecordKept

LEMMA ReleaseStep ==
  ASSUME PlansInOrder, ReleaseInv, [ReleaseNext]_releaseVars PROVE ReleaseInv'
<1>1. DeploymentInv' /\ ConfiguredInv'
  BY ReleaseStepRuns, DeploymentStep, ConfigStep DEF ReleaseInv
<1>2. RecordKept' /\ GuardianReviewed'
  BY ProcedureKeeps DEF ReleaseInv
<1> QED BY <1>1, <1>2 DEF ReleaseInv

-----------------------------------------------------------------------------
(* The validator.                                                          *)

\* Settings that nobody else's runs disturbed leave exactly the chain of their plan.
LEMMA AloneOnChain ==
  ASSUME PlansInOrder, DeploymentInv, ConfiguredInv, script.state = "finished",
         ~faults.reorged, Checkpointed, runs.settings = {settings}, NEW slot
  PROVE  Reads(chain, slot) = Reads(IntendedChains[settings], slot)
<1>1. settings \in Bootstraps /\ settings \in AllSettings
  BY DEF DeploymentInv, DeploymentTypes, Bootstraps, Checkpointed, Env
<1>2. DOMAIN IntendedChains[settings] = WrittenSlots[settings]
  BY <1>1 DEF IntendedChains
<1>3. DOMAIN chain \subseteq WrittenSlots[settings]
  BY DEF ConfiguredInv, ChainWritten, PlannedSlots
<1>4. CASE slot \in WrittenSlots[settings]
  <2>1. ConfigBinds(settings, settings, slot) /\ Overwritten(settings, settings, settings, slot)
    BY <1>1, <1>4 DEF PlansInOrder
  <2>2. \A t, u \in runs.settings \cap Bootstraps :
          ConfigBinds(settings, t, slot) /\ Overwritten(settings, t, u, slot)
    BY <2>1
  <2>3. AsIntended(slot)
    BY <1>4, <2>2, CheckpointedSlot
  <2> QED BY <1>2, <1>4, <2>3 DEF AsIntended, Reads
<1>5. CASE slot \notin WrittenSlots[settings]
  BY <1>2, <1>3, <1>5 DEF Reads
<1> QED BY <1>4, <1>5

\* A check sees what it reads: of the chain, and of what is kept of the settings.
LEMMA ChecksRead ==
  ASSUME NEW planned, NEW state, \A slot : Reads(state, slot) = Reads(planned, slot),
         NEW env, NEW noted, noted.riskAdmin = env.riskAdmin, noted.vaultCap = env.vaultCap,
         noted.strategyCap = env.strategyCap, noted.pools = env.pools, NEW dexes
  PROVE  /\ GasOracleHeld(planned) => GasOracleHeld(state)
         /\ VaultMatches(planned, env) => VaultMatches(state, noted)
         /\ RegistriesHeld(planned, env) => RegistriesHeld(state, noted)
         /\ DexesMatch(planned, dexes) => DexesMatch(state, dexes)
         /\ V3Matches(planned, env, dexes) => V3Matches(state, noted, dexes)
         /\ ModulesLinked(planned) => ModulesLinked(state)
<1>1. \A contract, owner : HeldBy(state, contract, owner) <=> HeldBy(planned, contract, owner)
  BY DEF HeldBy
<1>2. GasOracleHeld(planned) => GasOracleHeld(state)
  BY <1>1 DEF GasOracleHeld
<1>3. VaultMatches(planned, env) => VaultMatches(state, noted)
  BY <1>1 DEF VaultMatches
<1>4. RegistriesHeld(planned, env) => RegistriesHeld(state, noted)
  BY <1>1 DEF RegistriesHeld
<1>5. DexesMatch(planned, dexes) => DexesMatch(state, dexes)
  <2>1. {dex \in {"LQC_FLOW", "PANCAKE_V2", "PANCAKE_V3"} :
           Reads(state, Slot("dex", dex)) # "absent"}
          = {dex \in {"LQC_FLOW", "PANCAKE_V2", "PANCAKE_V3"} :
               Reads(planned, Slot("dex", dex)) # "absent"}
    OBVIOUS
  <2> QED BY <2>1 DEF DexesMatch
<1>6. V3Matches(planned, env, dexes) => V3Matches(state, noted, dexes)
  BY DEF V3Matches
<1>7. ModulesLinked(planned) => ModulesLinked(state)
  BY DEF ModulesLinked
<1> QED BY <1>2, <1>3, <1>4, <1>5, <1>6, <1>7

LEMMA ValidatedThen ==
  ASSUME PlansInOrder, PlansValidate, ReleaseInv PROVE OnlyEvidenceMissing
<1> SUFFICES ASSUME Undisturbed PROVE Failures \subseteq {"evidence"}
  BY DEF OnlyEvidenceMissing
<1>1. /\ record # NoRecord /\ script.state = "finished" /\ protocol.guardian
      /\ ~faults.reorged /\ ~protocol.disabled /\ protocol.deposits = 0
      /\ runs.settings = {settings}
  BY DEF Undisturbed, Deployed
<1>2. Checkpointed /\ RolesApart
  BY <1>1 DEF ReleaseInv, RecordKept, GuardianReviewed
<1>3. /\ record.riskAdmin = Env.riskAdmin /\ record.vaultCap = Env.vaultCap
      /\ record.strategyCap = Env.strategyCap /\ record.pools = Env.pools
      /\ record.dexes = DexesRecorded(Env)
  <2>1. PICK safe, evidence :
          record = [of |-> "this",
                    owner |-> Env.owner, riskAdmin |-> Env.riskAdmin, guardian |-> Env.guardian,
                    treasury |-> Env.treasury, policy |-> safe,
                    vaultCap |-> Env.vaultCap, strategyCap |-> Env.strategyCap,
                    dexes |-> DexesRecorded(Env), pools |-> Env.pools, evidence |-> evidence]
    BY <1>1 DEF ReleaseInv, RecordKept
  <2> QED BY <2>1
<1>4. PICK planned, env, dexes :
        planned = IntendedChains[settings] /\ env = Env /\ dexes = DexesRecorded(env)
  OBVIOUS
<1>5. \A slot : Reads(chain, slot) = Reads(planned, slot)
  BY <1>1, <1>2, <1>4, AloneOnChain DEF ReleaseInv
<1>6. /\ GasOracleHeld(planned) /\ VaultMatches(planned, env) /\ RegistriesHeld(planned, env)
      /\ DexesMatch(planned, dexes) /\ V3Matches(planned, env, dexes) /\ ModulesLinked(planned)
  <2>1. settings \in Bootstraps /\ env = Environments[settings]
    BY <1>2, <1>4 DEF ReleaseInv, DeploymentInv, DeploymentTypes, Bootstraps, Checkpointed, Env
  <2> QED BY <1>4, <2>1 DEF PlansValidate
<1>7. /\ GasOracleHeld(chain) /\ VaultMatches(chain, record) /\ RegistriesHeld(chain, record)
      /\ DexesMatch(chain, record.dexes) /\ V3Matches(chain, record, record.dexes)
      /\ ModulesLinked(chain)
  <2>1. record.dexes = dexes
    BY <1>3, <1>4
  <2>2. /\ record.riskAdmin = env.riskAdmin /\ record.vaultCap = env.vaultCap
        /\ record.strategyCap = env.strategyCap /\ record.pools = env.pools
    BY <1>3, <1>4
  <2> QED BY <1>5, <1>6, <2>1, <2>2, ChecksRead
<1>8. VaultFresh /\ OperationalRoles
  BY <1>1, <1>2 DEF VaultFresh, OperationalRoles
<1>9. ASSUME NEW check \in Failures PROVE check = "evidence"
  BY <1>1, <1>7, <1>8, <1>9 DEF Failures
<1> QED BY <1>9

(* Settings that the preflight reported ready, deployed to the end by       *)
(* however many runs and through however many crashes and reverts, pass the *)
(* validator but for the evidence of a prepared token, once the Guardian is *)
(* active and while nobody has touched the protocol: for all environments   *)
(* whose plans are in order and, carried out once, would validate           *)
(* (deploy-testnet.mjs, validate-bsc-testnet.mjs,                           *)
(* prepare-operational-role-activation.mjs).                                *)
THEOREM ReadySettingsValidate ==
  ASSUME PlansInOrder, PlansValidate PROVE ReleaseSpec => []OnlyEvidenceMissing
<1>1. ReleaseInit => ReleaseInv
  BY ReleaseStarts
<1>2. ReleaseInv /\ [ReleaseNext]_releaseVars => ReleaseInv'
  BY ReleaseStep
<1>3. ReleaseInv => OnlyEvidenceMissing
  BY ValidatedThen
<1> QED BY <1>1, <1>2, <1>3, PTL DEF ReleaseSpec

-----------------------------------------------------------------------------
\* The wallet's approval lives between the approval and the revocation of one smoke test.
SmokeInv ==
  /\ smoke.state \in {"idle", "probing", "quoted", "approved", "swapped"}
  /\ NoApprovalLeft

(***************************************************************************)
(* smoke-test-bsc-routes.mjs: whenever a smoke test is over, or has not    *)
(* yet approved, the Execution Router is approved for nothing, whatever    *)
(* pauses and policy changes came between its calls.                       *)
(***************************************************************************)
THEOREM SmokeLeavesNothing == ReleaseSpec => []NoApprovalLeft
<1>1. ReleaseInit => SmokeInv
  BY DEF ReleaseInit, SmokeIdle, SmokeInv, NoApprovalLeft
<1>2. SmokeInv /\ [ReleaseNext]_releaseVars => SmokeInv'
  <2> SUFFICES ASSUME SmokeInv, [ReleaseNext]_releaseVars PROVE SmokeInv'
    OBVIOUS
  <2>1. CASE UNCHANGED <<smoke, allowance>>
    BY <2>1 DEF SmokeInv, NoApprovalLeft
  <2>2. CASE SmokeValidates
    <3>1. /\ smoke' = [smoke EXCEPT !.state = "probing"] /\ allowance' = allowance
          /\ smoke.state = "idle"
      BY <2>2 DEF SmokeValidates
    <3>2. smoke'.state \in {"probing", "idle"}
      BY <3>1
    <3> QED BY <3>1, <3>2 DEF SmokeInv, NoApprovalLeft
  <2>3. CASE SmokeProbes
    BY <2>3 DEF SmokeProbes, SmokeIdle, SmokeInv, NoApprovalLeft
  <2>4. CASE SmokeApproves
    BY <2>4 DEF SmokeApproves, SmokeInv, NoApprovalLeft
  <2>5. CASE SmokeSwaps
    BY <2>5 DEF SmokeSwaps, SmokeInv, NoApprovalLeft
  <2>6. CASE SmokeRevokes
    BY <2>6 DEF SmokeRevokes, SmokeIdle, SmokeInv, NoApprovalLeft
  <2>7. UNCHANGED <<smoke, allowance>> \/ SmokeValidates \/ SmokeProbes \/ SmokeApproves
        \/ SmokeSwaps \/ SmokeRevokes
    BY DEF ReleaseNext, Preflight, Launch, Runs, Publish, FillEvidence, ActivateGuardian,
           Outside, Drill, Monitor, PackageEvidence, procedureVars, releaseVars
  <2> QED BY <2>1, <2>2, <2>3, <2>4, <2>5, <2>6, <2>7
<1> QED BY <1>1, <1>2, PTL DEF ReleaseSpec, SmokeInv

-----------------------------------------------------------------------------
(***************************************************************************)
(* The collection run.                                                     *)
(***************************************************************************)
LEMMA FourteenPhases ==
  /\ Len(Order) = 14
  /\ \A i \in 1 .. 14 : Order[i] \in PhaseIds
  /\ \A p \in PhaseIds : \E i \in 1 .. 14 : p = Order[i]
BY DEF PhaseIds, Order

LEMMA OrderInjective ==
  ASSUME NEW i \in 1 .. 14, NEW j \in 1 .. 14, Order[i] = Order[j] PROVE i = j
BY DEF Order

LEMMA PlaceInOrder ==
  ASSUME NEW i \in 1 .. 14 PROVE Place(Order[i]) = i
<1>1. \E k \in 1 .. Len(Order) : Order[k] = Order[i]
  BY FourteenPhases
<1>2. Place(Order[i]) \in 1 .. Len(Order) /\ Order[Place(Order[i])] = Order[i]
  BY <1>1 DEF Place
<1> QED BY <1>2, FourteenPhases, OrderInjective

LEMMA UntilInOrder ==
  ASSUME NEW i \in 1 .. 14 PROVE Until(Order[i]) = {Order[j] : j \in 1 .. i}
BY PlaceInOrder DEF Until

LEMMA RunnersOfPhases ==
  ASSUME NEW i \in 1 .. 14
  PROVE  /\ RunnerOf[Order[i]].kind = "build" => i = 1
         /\ RunnerOf[Order[i]].kind \in {"build", "check"} => CasesOf(Order[i]) = 1
         /\ HasDirectory(Order[i]) => CasesOf(Order[i]) = RunnerOf[Order[i]].cases
         /\ RunnerOf[Order[i]].cases \in {0, 1, 2}
<1> DEFINE runners == <<CompileRunner, GateRunner, FailureChecks, SessionMocks, ArtifactMocks,
       LifetimeMocks, AnvilTests, StoredTamper, PositiveFunding, FundingTamper,
       PositiveFee, FeeTamper, RepeatedConsumption, RepeatedTamper>>
<1>1. RunnerOf[Order[i]] = runners[i]
  BY FourteenPhases, PlaceInOrder DEF RunnerOf
<1>2. /\ runners[i].kind = "build" => i = 1
      /\ runners[i].cases \in {0, 1, 2}
  BY DEF CompileRunner, GateRunner, FailureChecks, SessionMocks, ArtifactMocks, LifetimeMocks,
         AnvilTests, StoredTamper, PositiveFunding, FundingTamper, PositiveFee, FeeTamper,
         RepeatedConsumption, RepeatedTamper, Runner
<1> HIDE DEF runners
<1> QED BY <1>1, <1>2 DEF CasesOf, HasDirectory

LEMMA LimitsOfPhases ==
  ASSUME NEW i \in 1 .. 14
  PROVE  /\ Limit[Order[i]] \in 3 .. 93
         /\ i \in 9 .. 14 => Limit[Order[i]] = (IF i \in {9, 11, 13} THEN 21 ELSE 6)
         /\ i \in {9, 11} => LatestStart[Order[i]] = 114
         /\ i = 13 => LatestStart[Order[i]] = 120
         /\ i = 14 => LatestStart[Order[i]] = 135
<1>1. Limit[Order[i]] = <<18, 3, 12, 6, 6, 6, 93, 6, 21, 6, 21, 6, 21, 6>>[i]
  BY FourteenPhases, PlaceInOrder DEF Limit
<1>2. /\ i \in {9, 11} => LatestStart[Order[i]] = 114
      /\ i = 13 => LatestStart[Order[i]] = 120
      /\ i = 14 => LatestStart[Order[i]] = 135
  BY FourteenPhases DEF LatestStart, Order
<1> QED BY <1>1, <1>2

RunStages == {"idle", "next", "child", "failed", "finished"}
Drivers == [stage : RunStages, at : 1 .. 14]

LEMMA DriverMoves ==
  ASSUME driver \in Drivers
  PROVE  /\ \A stage \in RunStages : [driver EXCEPT !.stage = stage] \in Drivers
         /\ Idle \in Drivers
         /\ \A at \in 1 .. 14 : [stage |-> "next", at |-> at] \in Drivers
BY DEF Drivers, Idle, RunStages

(***************************************************************************)
(* The run's time.  A phase whose start depends on the time used starts    *)
(* early enough for its own limit and for the phase after it.              *)
(***************************************************************************)
TimeInv ==
  /\ driver \in Drivers /\ time \in Nat
  /\ InPhase("next") /\ driver.at \in {10, 12} => time <= 138
  /\ InPhase("child") /\ driver.at \in 9 .. 14 =>
       time + Limit[Now] <= (IF driver.at \in {9, 11} THEN 138 ELSE StepLimit)

LEMMA PhasesOfBudget ==
  ASSUME NEW i \in 1 .. 14, Order[i] \in {Order[j] : j \in Place("positive-funding") .. Len(Order)}
  PROVE  i \in 9 .. 14
<1>1. Order[9] = "positive-funding"
  BY DEF Order
<1>2. Place("positive-funding") = 9
  BY <1>1, PlaceInOrder
<1> QED BY <1>2, FourteenPhases, OrderInjective

(***************************************************************************)
(* For every behaviour of the collection run, however often it is started  *)
(* and whatever fails, the workflow step's limit ends none of the phases   *)
(* the run budgets for (run-linux-once.cjs:88-90).                         *)
(***************************************************************************)
THEOREM StepOutlastsItsPhases == CollectionSpec => []BudgetSuffices
<1>1. CollectionInit => TimeInv /\ BudgetSuffices
  <2> SUFFICES ASSUME CollectionInit PROVE TimeInv /\ BudgetSuffices
    OBVIOUS
  <2>1. driver = Idle /\ time = 0 /\ cutOff = "none"
    BY DEF CollectionInit
  <2>2. "none" \notin PhaseIds
    BY DEF PhaseIds, Order
  <2>3. Place("positive-funding") = 9
    BY PlaceInOrder, Order[9] = "positive-funding" DEF Order
  <2> QED BY <2>1, <2>2, <2>3, FourteenPhases DEF TimeInv, BudgetSuffices, Idle, Drivers, RunStages, InPhase
<1>2. ASSUME TimeInv, BudgetSuffices, [CollectionNext]_collectionVars
      PROVE  TimeInv' /\ BudgetSuffices'
  <2>1. driver \in Drivers /\ driver.at \in 1 .. 14 /\ driver.stage \in RunStages /\ time \in Nat
    BY <1>2 DEF TimeInv, Drivers
  <2>2. CASE driver' = driver /\ time' = time /\ cutOff' = cutOff
    BY <1>2, <2>2 DEF TimeInv, BudgetSuffices, InPhase, Now
  <2>3. CASE StartRun
    <3>1. cutOff' = cutOff /\ driver' \in Drivers
      BY <2>1, <2>3, DriverMoves DEF StartRun
    <3>2. CASE driver' = driver /\ time' = time
      BY <2>2, <3>1, <3>2
    <3>3. CASE driver' = [stage |-> "next", at |-> 1] /\ time' = 0
      BY <1>2, <3>1, <3>3 DEF TimeInv, BudgetSuffices, InPhase
    <3> QED BY <2>3, <3>2, <3>3 DEF StartRun
  <2>4. CASE LaunchRun
    <3> DEFINE child2 == "child"
    <3>1. driver' = [driver EXCEPT !.stage = child2] /\ time' = time /\ cutOff' = cutOff
          /\ InPhase("next") /\ time < LatestStart[Now]
      BY <2>4 DEF LaunchRun, InTime
    <3>2. driver' \in Drivers /\ driver'.at = driver.at /\ driver'.stage = "child"
      BY SMTT(40), <2>1, <3>1, DriverMoves DEF RunStages, Drivers
    <3>3. driver.at \in 9 .. 14 =>
            time + Limit[Now] <= (IF driver.at \in {9, 11} THEN 138 ELSE StepLimit)
      BY <1>2, <2>1, <3>1, LimitsOfPhases DEF TimeInv, StepLimit, Now
    <3> HIDE DEF child2
    <3> QED BY <1>2, <2>1, <3>1, <3>2, <3>3 DEF TimeInv, BudgetSuffices, InPhase, Now
  <2>5. CASE RecordPhase
    <3>1. PICK took \in {1, Limit[Now]} : time + took <= StepLimit /\ time' = time + took
      BY <2>5 DEF RecordPhase
    <3>2. cutOff' = cutOff /\ InPhase("child") /\ \E ok \in BOOLEAN : GoOn(ok)
      BY <2>5 DEF RecordPhase, pastVars
    <3>3. PICK ok \in BOOLEAN : GoOn(ok)
      BY <3>2
    <3>4. Limit[Now] \in Nat /\ took <= Limit[Now] /\ took \in Nat
      BY SMTT(40), <2>1, <3>1, LimitsOfPhases DEF Now
    <3>5. CASE driver'.stage # "next" /\ driver' \in Drivers /\ driver'.stage # "child"
      BY SMTT(40), <1>2, <2>1, <3>1, <3>2, <3>4, <3>5 DEF TimeInv, BudgetSuffices, InPhase
    <3>6. CASE driver' = [stage |-> "next", at |-> driver.at + 1] /\ driver.at # 14
      <4>1. driver' \in Drivers /\ driver'.stage = "next" /\ driver'.at = driver.at + 1
        BY <2>1, <3>6, DriverMoves
      <4>2. driver'.at \in {10, 12} => time' <= 138
        <5>1. driver'.at \in {10, 12} => driver.at \in {9, 11}
          BY <2>1, <4>1
        <5> QED BY <1>2, <2>1, <3>1, <3>2, <3>4, <5>1 DEF TimeInv
      <4> QED BY <1>2, <2>1, <3>1, <3>2, <3>4, <4>1, <4>2 DEF TimeInv, BudgetSuffices, InPhase
    <3> DEFINE failed == "failed"
    <3> DEFINE finished == "finished"
    <3>7. \/ driver' = [driver EXCEPT !.stage = failed]
          \/ driver' = [driver EXCEPT !.stage = finished]
          \/ driver' = [stage |-> "next", at |-> driver.at + 1] /\ driver.at # 14
      BY <3>3, FourteenPhases DEF GoOn, StopRun
    <3>8. failed \in RunStages \ {"next", "child"} /\ finished \in RunStages \ {"next", "child"}
      BY DEF RunStages
    <3> HIDE DEF failed, finished
    <3> QED BY <2>1, <3>5, <3>6, <3>7, <3>8, DriverMoves DEF Drivers
  <2>6. CASE StepEnds
    <3>1. /\ driver' = Idle /\ time' = time /\ cutOff' = Now /\ InPhase("child")
          /\ time + Limit[Now] > StepLimit
      BY SMTT(40), <2>6 DEF StepEnds
    <3>2. driver.at \notin 9 .. 14
      BY <1>2, <2>1, <3>1, LimitsOfPhases DEF TimeInv, StepLimit, Now
    <3>3. BudgetSuffices'
      <4>1. Order[driver.at] \notin {Order[j] : j \in Place("positive-funding") .. Len(Order)}
        BY <2>1, <3>2, PhasesOfBudget
      <4> QED BY <3>1, <4>1 DEF BudgetSuffices, Now
    <3> QED BY <2>1, <3>1, <3>3, DriverMoves DEF TimeInv, InPhase, Idle
  <2> DEFINE failed == "failed"
  <2>7. CASE /\ driver' = Idle \/ driver' = [driver EXCEPT !.stage = failed]
             /\ time' = time /\ cutOff' = cutOff
    <3>1. failed \in RunStages \ {"next", "child"}
      BY DEF RunStages
    <3> HIDE DEF failed
    <3>2. driver' \in Drivers /\ driver'.stage \notin {"next", "child"}
      BY <2>1, <2>7, <3>1, DriverMoves DEF Drivers, Idle
    <3> QED BY <1>2, <2>1, <2>7, <3>2 DEF TimeInv, BudgetSuffices, InPhase
  <2>8. CASE OutOfTime
    BY <2>7, <2>8 DEF OutOfTime, pastVars
  <2>9. CASE WriteSummary \/ RunDies
    BY SMTT(40), <2>7, <2>9 DEF WriteSummary, RunDies, pastVars
  <2>10. CASE \/ Compile \/ ValidateBuild \/ EnterRunner \/ WorkCase \/ EndRunner \/ ChildTimesOut
              \/ SourceChanges \/ FileLost \/ Collect \/ Rest \/ UNCHANGED collectionVars
    BY <2>2, <2>10 DEF Compile, ValidateBuild, EnterRunner, WorkCase, EndRunner, ChildTimesOut,
       SourceChanges, FileLost, Collect, Rest, collectionVars, runVars, pastVars
  <2> QED BY <1>2, <2>3, <2>4, <2>5, <2>6, <2>8, <2>9, <2>10 DEF CollectionNext
<1> QED BY <1>1, <1>2, PTL DEF CollectionSpec

(***************************************************************************)
(* What the run remembers, and what its children really did.               *)
(***************************************************************************)
PhaseStates == {"NOT_RUN", "PASS", "FAIL"}
PhaseMemory == [state : PhaseStates, calls : {0, 1}]
ChildStages == {"none", "working", "reported", "ended"}
ReportStates == {"none", "partial", "complete"}

StoredFiles ==
  [dir : BOOLEAN, logs : BOOLEAN, report : ReportStates,
   runner : {"none", "PASS", "FAIL", "REFUSED"}]

CollectionTypes ==
  /\ driver \in Drivers
  /\ memory \in [PhaseIds -> PhaseMemory]
  /\ child \in [stage : ChildStages, passed : Int, exit : {"zero", "nonzero", "signal"}]
  /\ stored \in [PhaseIds -> StoredFiles]
  /\ carried \in [PhaseIds -> Int]
  /\ launched \in [PhaseIds -> Int]

Earned(i) == carried[Order[i]] = CasesOf(Order[i])
Unlaunched(i) ==
  /\ memory[Order[i]] = NotRun
  /\ launched[Order[i]] = 0 /\ carried[Order[i]] = 0

\* A working directory in which no run began is empty; a run begins but once.
UnbegunIsEmpty ==
  "run" \notin tops =>
    InPhase("idle") /\ "summary" \notin tops /\ \A i \in 1 .. 14 : Unlaunched(i)

\* PASS in memory was earned, by the phase and by every phase before it.
PassIsEarned ==
  \A i \in 1 .. 14 :
    memory[Order[i]].state = "PASS" => \A j \in 1 .. 14 : j <= i => Earned(j)

\* What was not called was not started; between phases all that ran passed.
CallsAreLaunches == \A i \in 1 .. 14 : memory[Order[i]].calls = 0 => Unlaunched(i)

PassedBefore ==
  driver.stage \in {"next", "child"} =>
    \A i \in 1 .. 14 : i < driver.at => memory[Order[i]].state = "PASS"

AheadIsUntouched ==
  driver.stage \in {"next", "child"} =>
    \A i \in 1 .. 14 :
      i > driver.at \/ (i = driver.at /\ driver.stage = "next") => Unlaunched(i)

\* How far the child of the present phase is, and how far it is entitled to be.
ChildAtWork ==
  InPhase("child") =>
    /\ memory[Now].state = "NOT_RUN" /\ memory[Now].calls = 1
    /\ child.stage \in {"working", "reported"} => HasDirectory(Now)
    /\ child.stage = "reported" /\ stored[Now].report = "complete" => Earned(driver.at)
    /\ child.stage = "ended" /\ child.exit = "zero" =>
         Earned(driver.at) \/ (driver.at = 1 /\ build # "approved")

\* Once the run is over, every phase it called has a verdict.
OverIsDecided ==
  driver.stage \in {"failed", "finished"} \/ "summary" \in tops =>
    \A i \in 1 .. 14 : memory[Order[i]].state = "NOT_RUN" => Unlaunched(i)

\* The summary is that verdict, and nothing runs after it.
SummaryStands ==
  /\ "summary" \in tops => InPhase("idle") /\ summary = memory
  /\ inventory.clean => "summary" \in tops

CollectionInv ==
  /\ CollectionTypes /\ UnbegunIsEmpty /\ PassIsEarned /\ CallsAreLaunches /\ PassedBefore
  /\ AheadIsUntouched /\ ChildAtWork /\ OverIsDecided /\ SummaryStands

LEMMA CleanIsTrue == CollectionInv => InventoryIsTrue
<1> SUFFICES ASSUME CollectionInv, inventory.clean, NEW p \in PhaseIds
             PROVE  /\ summary[p].state = "PASS" => \A q \in Until(p) : carried[q] = CasesOf(q)
                    /\ summary[p].state = "NOT_RUN" => launched[p] = 0
  BY DEF InventoryIsTrue
<1>1. summary = memory /\ "summary" \in tops
  BY DEF CollectionInv, SummaryStands
<1>2. PICK i \in 1 .. 14 : p = Order[i]
  BY FourteenPhases
<1>3. ASSUME memory[p].state = "PASS", NEW q \in Until(p) PROVE carried[q] = CasesOf(q)
  <2>1. PICK j \in 1 .. i : q = Order[j]
    BY <1>2, <1>3, UntilInOrder
  <2> QED BY <1>2, <1>3, <2>1 DEF CollectionInv, PassIsEarned, Earned
<1>4. memory[p].state = "NOT_RUN" => launched[p] = 0
  BY SMTT(40), <1>1, <1>2 DEF CollectionInv, OverIsDecided, Unlaunched
<1> QED BY <1>1, <1>3, <1>4

LEMMA CollectionBegins == CollectionInit => CollectionInv
<1> SUFFICES ASSUME CollectionInit PROVE CollectionInv
  OBVIOUS
<1>1. CollectionTypes
  <2>1. NotRun \in PhaseMemory
    BY DEF PhaseMemory, PhaseStates, NotRun
  <2>2. NothingStored \in StoredFiles
    BY DEF StoredFiles, ReportStates, NothingStored
  <2>3. NoChild \in [stage : ChildStages, passed : Int, exit : {"zero", "nonzero", "signal"}]
    BY DEF NoChild, ChildStages
  <2>4. Idle \in Drivers
    BY DEF Idle, Drivers, RunStages
  <2> QED BY <2>1, <2>2, <2>3, <2>4 DEF CollectionInit, CollectionTypes
<1>2. \A i \in 1 .. 14 : Unlaunched(i)
  BY FourteenPhases DEF CollectionInit, Unlaunched
<1> QED BY <1>1, <1>2, FourteenPhases DEF CollectionInit, CollectionInv, UnbegunIsEmpty, PassIsEarned,
   CallsAreLaunches, PassedBefore, AheadIsUntouched, ChildAtWork, OverIsDecided, SummaryStands,
   Unlaunched, NotRun, InPhase, Idle

-----------------------------------------------------------------------------
(***************************************************************************)
(* A step of a phase's child touches only its own phase.                   *)
(***************************************************************************)
LEMMA ChildStepKeeps ==
  ASSUME CollectionInv, InPhase("child"), CollectionTypes', ChildAtWork',
         UNCHANGED <<driver, memory, launched, tops, summary, inventory>>,
         \A i \in 1 .. 14 : i # driver.at => carried'[Order[i]] = carried[Order[i]]
  PROVE  CollectionInv'
<1>1. driver.at \in 1 .. 14 /\ driver.stage = "child" /\ memory[Now].state = "NOT_RUN"
      /\ memory[Now].calls = 1
  BY DEF CollectionInv, CollectionTypes, Drivers, InPhase, ChildAtWork
<1>2. \A i \in 1 .. 14 : i # driver.at => Unlaunched(i)' = Unlaunched(i) /\ Earned(i)' = Earned(i)
  BY DEF Unlaunched, Earned
<1>3. UnbegunIsEmpty' /\ SummaryStands'
  BY <1>1 DEF CollectionInv, UnbegunIsEmpty, SummaryStands, InPhase
<1>4. PassIsEarned'
  <2> SUFFICES ASSUME NEW i \in 1 .. 14, memory[Order[i]].state = "PASS", NEW j \in 1 .. 14, j <= i
               PROVE  Earned(j)'
    BY DEF PassIsEarned
  <2>1. ~Unlaunched(i)
    BY DEF Unlaunched, NotRun
  <2>2. i < driver.at
    BY <1>1, <2>1 DEF CollectionInv, AheadIsUntouched, Now
  <2> QED BY <1>2, <1>1, <2>2 DEF CollectionInv, PassIsEarned
<1>5. CallsAreLaunches' /\ AheadIsUntouched'
  BY SMTT(40), <1>1, <1>2 DEF CollectionInv, CallsAreLaunches, AheadIsUntouched, Now
<1>6. PassedBefore' /\ OverIsDecided'
  BY <1>1 DEF CollectionInv, PassedBefore, OverIsDecided, SummaryStands, InPhase
<1> QED BY <1>3, <1>4, <1>5, <1>6 DEF CollectionInv

LEMMA ChildReplaced ==
  ASSUME child \in [stage : ChildStages, passed : Int, exit : {"zero", "nonzero", "signal"}],
         NEW s \in ChildStages, NEW n \in Int, NEW e \in {"zero", "nonzero", "signal"}
  PROVE  /\ [child EXCEPT !.stage = s, !.exit = e] \in
              [stage : ChildStages, passed : Int, exit : {"zero", "nonzero", "signal"}]
         /\ [child EXCEPT !.stage = s, !.exit = e].stage = s
         /\ [child EXCEPT !.stage = s, !.exit = e].exit = e
         /\ [child EXCEPT !.passed = n, !.stage = s] \in
              [stage : ChildStages, passed : Int, exit : {"zero", "nonzero", "signal"}]
         /\ [child EXCEPT !.passed = n, !.stage = s].stage = s
         /\ [child EXCEPT !.passed = n, !.stage = s].passed = n
         /\ [child EXCEPT !.passed = n, !.stage = s].exit = child.exit
OBVIOUS

\* A child that has ended, and what its exit code then means.
LEMMA ChildEnds ==
  ASSUME CollectionTypes, NEW e \in {"zero", "nonzero", "signal"}, EndPhaseChild(e)
  PROVE  /\ child' \in [stage : ChildStages, passed : Int, exit : {"zero", "nonzero", "signal"}]
         /\ child'.stage = "ended" /\ child'.exit = e
<1> DEFINE ended == "ended"
<1>1. ended \in ChildStages
  BY DEF ChildStages
<1>2. child' = [child EXCEPT !.stage = ended, !.exit = e]
  BY SMTT(40) DEF EndPhaseChild
<1> HIDE DEF ended
<1>3. /\ child' \in [stage : ChildStages, passed : Int, exit : {"zero", "nonzero", "signal"}]
      /\ child'.stage = ended /\ child'.exit = e
  BY <1>1, <1>2, ChildReplaced DEF CollectionTypes
<1> QED BY <1>3 DEF ended

LEMMA EndsWell ==
  ASSUME CollectionTypes, NEW ok \in BOOLEAN, EndWell(ok)
  PROVE  /\ child' \in [stage : ChildStages, passed : Int, exit : {"zero", "nonzero", "signal"}]
         /\ child'.stage = "ended" /\ child'.exit = (IF ok THEN "zero" ELSE "nonzero")
BY ChildEnds DEF EndWell

\* What the present phase carried may be counted anew.
LEMMA CarriedByPresent ==
  ASSUME CollectionTypes, NEW n \in Int, carried' = [carried EXCEPT ![Now] = n]
  PROVE  /\ carried' \in [PhaseIds -> Int] /\ carried'[Now] = n
         /\ \A i \in 1 .. 14 : i # driver.at => carried'[Order[i]] = carried[Order[i]]
<1>1. driver.at \in 1 .. 14 /\ Now \in PhaseIds
  BY FourteenPhases DEF CollectionTypes, Drivers, Now
<1> QED BY <1>1, FourteenPhases, OrderInjective DEF CollectionTypes, Now

LEMMA CompileKeeps ==
  ASSUME CollectionInv, Compile PROVE CollectionInv'
<1>1. /\ InPhase("child") /\ RunnerOf[Now].kind = "build" /\ CollectionTypes
      /\ UNCHANGED <<driver, memory, launched, tops, summary, inventory, stored>>
      /\ driver.at \in 1 .. 14 /\ memory[Now].state = "NOT_RUN" /\ memory[Now].calls = 1
  BY DEF Compile, CollectionInv, CollectionTypes, Drivers, ChildAtWork
<1>2. driver.at = 1 /\ CasesOf(Now) = 1
  BY <1>1, RunnersOfPhases DEF Now
<1>3. CASE build # "none"
  <2>1. EndWell(FALSE) /\ carried' = carried
    BY <1>3 DEF Compile
  <2>2. child'.stage = "ended" /\ child'.exit = "nonzero" /\ CollectionTypes'
    BY <1>1, <2>1, EndsWell DEF CollectionTypes
  <2>3. ChildAtWork'
    BY <1>1, <2>2 DEF ChildAtWork, Now
  <2> QED BY <1>1, <2>1, <2>2, <2>3, ChildStepKeeps
<1>4. CASE build = "none"
  <2>1. PICK differs \in BOOLEAN :
          /\ EndWell(TRUE) /\ build' = (IF differs THEN "other" ELSE "approved")
          /\ carried' = [carried EXCEPT ![Now] = IF differs THEN 0 ELSE 1]
    BY <1>4 DEF Compile
  <2> DEFINE n == IF differs THEN 0 ELSE 1
  <2>2. n \in Int /\ (~differs => n = 1)
    OBVIOUS
  <2>3. carried' = [carried EXCEPT ![Now] = n]
    BY <2>1
  <2> HIDE DEF n
  <2>4. /\ carried' \in [PhaseIds -> Int] /\ carried'[Now] = n
        /\ \A i \in 1 .. 14 : i # driver.at => carried'[Order[i]] = carried[Order[i]]
    BY <1>1, <2>2, <2>3, CarriedByPresent
  <2>5. child'.stage = "ended" /\ child'.exit = "zero" /\ CollectionTypes'
    BY <1>1, <2>1, <2>4, EndsWell DEF CollectionTypes
  <2>6. (Earned(driver.at) \/ build # "approved")'
    BY <1>1, <1>2, <2>1, <2>2, <2>4 DEF Earned, Now
  <2>7. ChildAtWork'
    BY <1>1, <1>2, <2>5, <2>6 DEF ChildAtWork, Now
  <2> QED BY <1>1, <2>4, <2>5, <2>7, ChildStepKeeps
<1> QED BY <1>3, <1>4

LEMMA ValidateBuildKeeps ==
  ASSUME CollectionInv, ValidateBuild PROVE CollectionInv'
<1> DEFINE n == IF build = "approved" THEN 1 ELSE 0
<1>1. /\ InPhase("child") /\ RunnerOf[Now].kind = "check" /\ CollectionTypes
      /\ UNCHANGED <<driver, memory, launched, tops, summary, inventory, stored, build>>
      /\ driver.at \in 1 .. 14 /\ memory[Now].state = "NOT_RUN" /\ memory[Now].calls = 1
      /\ EndWell(build = "approved") /\ carried' = [carried EXCEPT ![Now] = n]
  BY DEF ValidateBuild, CollectionInv, CollectionTypes, Drivers, ChildAtWork, diskVars
<1>2. CasesOf(Now) = 1 /\ n \in Int /\ (build = "approved" => n = 1)
  BY <1>1, RunnersOfPhases DEF Now
<1> HIDE DEF n
<1>3. /\ carried' \in [PhaseIds -> Int] /\ carried'[Now] = n
      /\ \A i \in 1 .. 14 : i # driver.at => carried'[Order[i]] = carried[Order[i]]
  BY <1>1, <1>2, CarriedByPresent
<1>4. child'.stage = "ended" /\ (child'.exit = "zero" => build = "approved") /\ CollectionTypes'
  BY <1>1, <1>3, EndsWell DEF CollectionTypes
<1>5. ChildAtWork'
  BY <1>1, <1>2, <1>3, <1>4 DEF ChildAtWork, Now, Earned
<1> QED BY <1>1, <1>3, <1>4, <1>5, ChildStepKeeps

\* A phase's files, replaced one record at a time.
LEMMA StoredReplaced ==
  ASSUME CollectionTypes, NEW f \in StoredFiles, stored' = [stored EXCEPT ![Now] = f]
  PROVE  stored' \in [PhaseIds -> StoredFiles] /\ stored'[Now] = f /\ Now \in PhaseIds
BY FourteenPhases DEF CollectionTypes, Drivers, Now

LEMMA EnterRunnerKeeps ==
  ASSUME CollectionInv, EnterRunner PROVE CollectionInv'
<1>1. /\ InPhase("child") /\ HasDirectory(Now) /\ CollectionTypes
      /\ UNCHANGED <<driver, memory, launched, tops, summary, inventory, build, carried>>
      /\ driver.at \in 1 .. 14 /\ memory[Now].state = "NOT_RUN" /\ memory[Now].calls = 1
      /\ Now \in PhaseIds
  BY FourteenPhases DEF EnterRunner, CollectionInv, CollectionTypes, Drivers, ChildAtWork, pastVars, Now
<1>2. stored' \in [PhaseIds -> StoredFiles]
  <2>1. CASE stored[Now].dir
    BY <1>1, <2>1 DEF EnterRunner, CollectionTypes
  <2>2. CASE ~stored[Now].dir
    <3>1. PICK r \in {"none", "REFUSED"} :
            stored' = [stored EXCEPT ![Now].dir = TRUE, ![Now].runner = r]
      BY <2>2 DEF EnterRunner
    <3> DEFINE yes == TRUE
    <3> DEFINE f == [stored[Now] EXCEPT !.dir = yes, !.runner = r]
    <3>2. stored[Now] \in StoredFiles /\ yes \in BOOLEAN
      BY <1>1 DEF CollectionTypes
    <3>3. stored' = [stored EXCEPT ![Now] = f]
      BY <1>1, <3>1 DEF CollectionTypes
    <3> HIDE DEF yes
    <3>4. f \in StoredFiles
      BY <3>1, <3>2 DEF StoredFiles
    <3> HIDE DEF f
    <3> QED BY <1>1, <3>3, <3>4, StoredReplaced
  <2> QED BY <2>1, <2>2
<1>3. CASE EndWell(FALSE)
  <2>1. child'.stage = "ended" /\ child'.exit = "nonzero" /\ CollectionTypes'
    BY <1>1, <1>2, <1>3, EndsWell DEF CollectionTypes
  <2>2. ChildAtWork'
    BY <1>1, <2>1 DEF ChildAtWork, Now
  <2> QED BY <1>1, <2>1, <2>2, ChildStepKeeps
<1> DEFINE working == "working"
<1>4. CASE child' = [child EXCEPT !.stage = working]
  <2>1. working \in ChildStages
    BY DEF ChildStages
  <2>2. CollectionTypes' /\ child'.stage = "working"
    <3> HIDE DEF working
    <3>1. CollectionTypes' /\ child'.stage = working
      BY <1>1, <1>2, <1>4, <2>1 DEF CollectionTypes
    <3> QED BY <3>1 DEF working
  <2>3. ChildAtWork'
    BY <1>1, <2>2 DEF ChildAtWork, Now
  <2> QED BY <1>1, <2>2, <2>3, ChildStepKeeps
<1> QED BY <1>3, <1>4 DEF EnterRunner

LEMMA WorkCaseKeeps ==
  ASSUME CollectionInv, WorkCase PROVE CollectionInv'
<1>1. /\ InPhase("child") /\ child.stage = "working" /\ CollectionTypes
      /\ UNCHANGED <<driver, memory, launched, tops, summary, inventory, build>>
      /\ driver.at \in 1 .. 14 /\ memory[Now].state = "NOT_RUN" /\ memory[Now].calls = 1
      /\ Now \in PhaseIds /\ HasDirectory(Now)
  BY FourteenPhases DEF WorkCase, CollectionInv, CollectionTypes, Drivers, ChildAtWork, Now
<1>2. PICK passes \in BOOLEAN :
        LET n == IF passes THEN child.passed + 1 ELSE child.passed
            over == ~passes \/ n = RunnerOf[Now].cases
        IN /\ carried' = [carried EXCEPT ![Now] = n]
           /\ child' = [child EXCEPT !.passed = n, !.stage = IF over THEN "reported" ELSE @]
           /\ stored' = [stored EXCEPT ![Now].report =
                           IF ~over THEN @ ELSE IF passes THEN "complete" ELSE "partial"]
  BY DEF WorkCase
<1> DEFINE n == IF passes THEN child.passed + 1 ELSE child.passed
<1> DEFINE over == ~passes \/ n = RunnerOf[Now].cases
<1> DEFINE stage == IF over THEN "reported" ELSE "working"
<1> DEFINE report == IF ~over THEN stored[Now].report ELSE IF passes THEN "complete" ELSE "partial"
<1> DEFINE f == [stored[Now] EXCEPT !.report = report]
<1>3. stored[Now] \in StoredFiles /\ child.passed \in Int
  BY <1>1 DEF CollectionTypes
<1>4. /\ n \in Int /\ stage \in ChildStages /\ report \in ReportStates
      /\ stage # "none" /\ stage # "ended"
      /\ stage = "reported" /\ report = "complete" => n = RunnerOf[Now].cases
  BY <1>3 DEF StoredFiles, ChildStages, ReportStates
<1>5. /\ carried' = [carried EXCEPT ![Now] = n]
      /\ child' = [child EXCEPT !.passed = n, !.stage = stage]
      /\ stored' = [stored EXCEPT ![Now] = f]
  BY <1>1, <1>2 DEF CollectionTypes
<1> HIDE DEF n, over, stage, report
<1>6. f \in StoredFiles /\ f.report = report
  BY <1>3, <1>4 DEF StoredFiles
<1> HIDE DEF f
<1>7. /\ carried' \in [PhaseIds -> Int] /\ carried'[Now] = n
      /\ \A i \in 1 .. 14 : i # driver.at => carried'[Order[i]] = carried[Order[i]]
  BY <1>1, <1>4, <1>5, CarriedByPresent
<1>8. stored' \in [PhaseIds -> StoredFiles] /\ stored'[Now].report = report
  BY <1>1, <1>5, <1>6, StoredReplaced
<1>9. /\ child' \in [stage : ChildStages, passed : Int, exit : {"zero", "nonzero", "signal"}]
      /\ child'.stage = stage
  BY <1>1, <1>4, <1>5, ChildReplaced DEF CollectionTypes
<1>10. CollectionTypes'
  BY SMTT(40), <1>1, <1>7, <1>8, <1>9 DEF CollectionTypes
<1>11. CasesOf(Now) = RunnerOf[Now].cases
  BY <1>1, RunnersOfPhases DEF Now
<1>12. ChildAtWork'
  BY <1>1, <1>4, <1>7, <1>8, <1>9, <1>11 DEF ChildAtWork, Now, Earned
<1> QED BY SMTT(40), <1>1, <1>7, <1>10, <1>12, ChildStepKeeps

LEMMA EndRunnerKeeps ==
  ASSUME CollectionInv, EndRunner PROVE CollectionInv'
<1>1. /\ InPhase("child") /\ child.stage = "reported" /\ CollectionTypes
      /\ UNCHANGED <<driver, memory, launched, tops, summary, inventory, build, carried>>
      /\ driver.at \in 1 .. 14 /\ memory[Now].state = "NOT_RUN" /\ memory[Now].calls = 1
      /\ Now \in PhaseIds /\ HasDirectory(Now)
      /\ stored[Now].report = "complete" => Earned(driver.at)
  BY FourteenPhases DEF EndRunner, CollectionInv, CollectionTypes, Drivers, ChildAtWork, Now, pastVars
<1>2. PICK unrecorded \in BOOLEAN :
        LET ok == ~unrecorded /\ stored[Now].report = "complete" /\ sources
        IN /\ EndWell(ok)
           /\ stored' = [stored EXCEPT ![Now].runner = IF ok THEN "PASS" ELSE "FAIL"]
  BY DEF EndRunner
<1> DEFINE ok == ~unrecorded /\ stored[Now].report = "complete" /\ sources
<1> DEFINE runner == IF ok THEN "PASS" ELSE "FAIL"
<1> DEFINE f == [stored[Now] EXCEPT !.runner = runner]
<1>3. /\ stored[Now] \in StoredFiles /\ runner \in {"none", "PASS", "FAIL", "REFUSED"}
      /\ ok = TRUE \/ ok = FALSE
      /\ ok => stored[Now].report = "complete"
  BY <1>1 DEF CollectionTypes
<1>4. EndWell(ok) /\ stored' = [stored EXCEPT ![Now] = f]
  BY <1>1, <1>2 DEF CollectionTypes
<1> HIDE DEF ok, runner
<1>5. f \in StoredFiles /\ f.report = stored[Now].report
  BY <1>3 DEF StoredFiles
<1> HIDE DEF f
<1>6. stored' \in [PhaseIds -> StoredFiles] /\ stored'[Now].report = stored[Now].report
  BY <1>1, <1>4, <1>5, StoredReplaced
<1>7. child'.stage = "ended" /\ (child'.exit = "zero" => ok) /\ CollectionTypes'
  <2>1. CASE ok = TRUE
    BY <1>1, <1>4, <1>6, <2>1, EndsWell DEF CollectionTypes
  <2>2. CASE ok = FALSE
    BY <1>1, <1>4, <1>6, <2>2, EndsWell DEF CollectionTypes
  <2> QED BY <1>3, <2>1, <2>2
<1>8. ChildAtWork'
  BY <1>1, <1>3, <1>6, <1>7 DEF ChildAtWork, Now, Earned
<1> QED BY SMTT(40), <1>1, <1>7, <1>8, ChildStepKeeps

LEMMA ChildTimesOutKeeps ==
  ASSUME CollectionInv, ChildTimesOut PROVE CollectionInv'
<1>1. /\ InPhase("child") /\ CollectionTypes /\ EndPhaseChild("signal")
      /\ UNCHANGED <<driver, memory, launched, tops, summary, inventory, build, carried, stored>>
      /\ driver.at \in 1 .. 14 /\ memory[Now].state = "NOT_RUN" /\ memory[Now].calls = 1
  BY DEF ChildTimesOut, CollectionInv, CollectionTypes, Drivers, ChildAtWork, pastVars, diskVars
<1>2. child'.stage = "ended" /\ child'.exit = "signal" /\ CollectionTypes'
  BY <1>1, ChildEnds DEF CollectionTypes
<1>3. ChildAtWork'
  BY <1>1, <1>2 DEF ChildAtWork, Now
<1> QED BY <1>1, <1>2, <1>3, ChildStepKeeps

-----------------------------------------------------------------------------
(***************************************************************************)
(* The run itself: what each of its steps does to the record.              *)
(***************************************************************************)

\* Nothing the record consists of changes.
LEMMA CollectionAside ==
  ASSUME CollectionInv, CollectionTypes',
         UNCHANGED <<driver, memory, launched, carried, summary, inventory>>,
         "run" \in tops' <=> "run" \in tops, "summary" \in tops' <=> "summary" \in tops,
         InPhase("child") => UNCHANGED <<child, stored, build>>
  PROVE  CollectionInv'
<1>1. ChildAtWork'
  BY DEF CollectionInv, ChildAtWork, InPhase, Earned, Now
<1>2. \A i \in 1 .. 14 : Unlaunched(i)' = Unlaunched(i) /\ Earned(i)' = Earned(i)
  BY DEF Unlaunched, Earned
<1>3. UnbegunIsEmpty' /\ PassIsEarned' /\ CallsAreLaunches'
  BY <1>2 DEF CollectionInv, UnbegunIsEmpty, PassIsEarned, CallsAreLaunches, InPhase
<1>4. PassedBefore' /\ AheadIsUntouched' /\ OverIsDecided' /\ SummaryStands'
  BY <1>2 DEF CollectionInv, PassedBefore, AheadIsUntouched, OverIsDecided, SummaryStands, InPhase
<1> QED BY <1>1, <1>3, <1>4 DEF CollectionInv

LEMMA SurroundingsKeep ==
  ASSUME CollectionInv, SourceChanges \/ Rest \/ UNCHANGED collectionVars PROVE CollectionInv'
<1>1. UNCHANGED <<driver, memory, launched, carried, summary, inventory, tops, child, stored, build>>
  BY DEF SourceChanges, Rest, collectionVars, runVars, diskVars, pastVars
<1>2. CollectionTypes'
  BY <1>1 DEF CollectionInv, CollectionTypes
<1> QED BY <1>1, <1>2, CollectionAside

LEMMA FileLostKeeps ==
  ASSUME CollectionInv, FileLost PROVE CollectionInv'
<1>1. /\ UNCHANGED <<driver, memory, launched, carried, summary, inventory, tops, child>>
      /\ InPhase("idle") /\ CollectionTypes
  BY DEF FileLost, runVars, pastVars, CollectionInv
<1>2. PICK p \in PhaseIds :
        \/ stored' = [stored EXCEPT ![p].logs = FALSE]
        \/ stored' = [stored EXCEPT ![p].report = "none"]
        \/ stored' = [stored EXCEPT ![p].runner = "none"]
  BY DEF FileLost
<1> DEFINE no == FALSE
<1> DEFINE none == "none"
<1> DEFINE f == stored[p]
<1> DEFINE f1 == [f EXCEPT !.logs = no]
<1> DEFINE f2 == [f EXCEPT !.report = none]
<1> DEFINE f3 == [f EXCEPT !.runner = none]
<1>3. \/ stored' = [stored EXCEPT ![p] = f1]
      \/ stored' = [stored EXCEPT ![p] = f2]
      \/ stored' = [stored EXCEPT ![p] = f3]
  BY <1>1, <1>2 DEF CollectionTypes
<1>4. /\ f \in StoredFiles /\ no \in BOOLEAN /\ none \in ReportStates
      /\ none \in {"none", "PASS", "FAIL", "REFUSED"}
  BY <1>1 DEF CollectionTypes, ReportStates
<1> HIDE DEF no, none, f
<1>5. f1 \in StoredFiles /\ f2 \in StoredFiles /\ f3 \in StoredFiles
  BY <1>4 DEF StoredFiles
<1> HIDE DEF f1, f2, f3
<1>6. CollectionTypes'
  BY <1>1, <1>3, <1>5 DEF CollectionTypes
<1> QED BY <1>1, <1>6, CollectionAside DEF InPhase

LEMMA StartRunKeeps ==
  ASSUME CollectionInv, StartRun PROVE CollectionInv'
<1>1. /\ UNCHANGED <<child, build, stored, summary, inventory, carried, launched>>
      /\ CollectionTypes /\ InPhase("idle")
  BY DEF StartRun, CollectionInv
<1>2. CASE UNCHANGED <<driver, tops, memory, time>>
  <2>1. CollectionTypes'
    BY <1>1, <1>2 DEF CollectionTypes
  <2> QED BY <1>1, <1>2, <2>1, CollectionAside
<1>3. CASE /\ Untouched /\ driver' = [stage |-> "next", at |-> 1]
           /\ tops' = tops \union {"run", "initial"} /\ memory' = [p \in PhaseIds |-> NotRun]
  <2>1. "run" \notin tops /\ "summary" \notin tops /\ \A i \in 1 .. 14 : Unlaunched(i)
    BY <1>3 DEF Untouched, CollectionInv, UnbegunIsEmpty
  <2>2. \A i \in 1 .. 14 : Unlaunched(i)'
    BY <1>1, <1>3, <2>1, FourteenPhases DEF Unlaunched
  <2>3. ~inventory.clean
    BY <2>1 DEF CollectionInv, SummaryStands
  <2>4. NotRun \in PhaseMemory /\ NotRun.state = "NOT_RUN"
    BY DEF PhaseMemory, PhaseStates, NotRun
  <2>5. CollectionTypes'
    BY <1>1, <1>3, <2>4, DriverMoves DEF CollectionTypes
  <2>6. driver'.stage = "next" /\ driver'.at = 1 /\ "run" \in tops' /\ "summary" \notin tops'
    BY <1>3, <2>1
  <2>7. \A i \in 1 .. 14 : memory'[Order[i]].state = "NOT_RUN"
    BY <2>2, <2>4 DEF Unlaunched
  <2>8. UnbegunIsEmpty' /\ PassIsEarned' /\ CallsAreLaunches' /\ PassedBefore'
    BY SMTT(40), <2>2, <2>6, <2>7 DEF UnbegunIsEmpty, PassIsEarned, CallsAreLaunches, PassedBefore
  <2>9. AheadIsUntouched' /\ ChildAtWork' /\ OverIsDecided' /\ SummaryStands'
    BY <1>1, <2>2, <2>3, <2>6 DEF AheadIsUntouched, ChildAtWork, OverIsDecided, SummaryStands, InPhase
  <2> QED BY <2>5, <2>8, <2>9 DEF CollectionInv
<1> QED BY <1>2, <1>3 DEF StartRun

\* The run stops between two phases, or a process of it dies.
LEMMA RunStops ==
  ASSUME CollectionInv, driver' \in Drivers, driver.stage # "idle",
         UNCHANGED <<memory, launched, carried, summary, inventory, tops, stored>>,
         child' \in [stage : ChildStages, passed : Int, exit : {"zero", "nonzero", "signal"}],
         \/ driver'.stage = "idle"
         \/ /\ driver'.stage = "failed"
            /\ \A i \in 1 .. 14 : memory[Order[i]].state = "NOT_RUN" => Unlaunched(i)
  PROVE  CollectionInv'
<1>1. CollectionTypes'
  BY DEF CollectionInv, CollectionTypes
<1>2. \A i \in 1 .. 14 : Unlaunched(i)' = Unlaunched(i) /\ Earned(i)' = Earned(i)
  BY DEF Unlaunched, Earned
<1>3. "summary" \notin tops /\ "run" \in tops
  BY SMTT(40) DEF CollectionInv, SummaryStands, UnbegunIsEmpty, InPhase
<1>4. UnbegunIsEmpty' /\ PassIsEarned' /\ CallsAreLaunches'
  BY SMTT(40), <1>2, <1>3 DEF CollectionInv, UnbegunIsEmpty, PassIsEarned, CallsAreLaunches
<1>5. PassedBefore' /\ AheadIsUntouched' /\ ChildAtWork' /\ SummaryStands'
  BY <1>3 DEF CollectionInv, PassedBefore, AheadIsUntouched, ChildAtWork, SummaryStands, InPhase
<1>6. OverIsDecided'
  BY <1>2, <1>3 DEF OverIsDecided
<1> QED BY <1>1, <1>4, <1>5, <1>6 DEF CollectionInv

\* What is neither passed nor under way was never started.
LEMMA BetweenPhases ==
  ASSUME CollectionInv, driver.stage = "next"
  PROVE  \A i \in 1 .. 14 : memory[Order[i]].state = "NOT_RUN" => Unlaunched(i)
<1>1. driver.at \in 1 .. 14
  BY DEF CollectionInv, CollectionTypes, Drivers
<1> QED BY <1>1 DEF CollectionInv, PassedBefore, AheadIsUntouched

LEMMA OutOfTimeKeeps ==
  ASSUME CollectionInv, OutOfTime PROVE CollectionInv'
<1> DEFINE failed == "failed"
<1>1. /\ UNCHANGED <<memory, launched, carried, summary, inventory, tops, stored, child>>
      /\ driver' = [driver EXCEPT !.stage = failed] /\ driver.stage = "next" /\ driver \in Drivers
      /\ child \in [stage : ChildStages, passed : Int, exit : {"zero", "nonzero", "signal"}]
  BY DEF OutOfTime, InPhase, diskVars, pastVars, CollectionInv, CollectionTypes
<1>2. failed \in RunStages
  BY DEF RunStages
<1>3. driver' \in Drivers /\ driver'.stage = "failed"
  <2>1. driver' \in Drivers
    BY <1>1, <1>2, DriverMoves
  <2> QED BY <1>1, <2>1 DEF Drivers
<1> QED BY <1>1, <1>3, BetweenPhases, RunStops

LEMMA RunEndsEarly ==
  ASSUME CollectionInv, StepEnds \/ RunDies PROVE CollectionInv'
<1>1. /\ UNCHANGED <<memory, launched, carried, summary, inventory, tops, stored>>
      /\ driver' = Idle /\ driver.stage # "idle" /\ driver \in Drivers /\ child' = NoChild
  BY DEF StepEnds, RunDies, InPhase, diskVars, pastVars, CollectionInv, CollectionTypes
<1>2. driver' \in Drivers /\ driver'.stage = "idle"
  BY <1>1, DriverMoves DEF Idle
<1>3. child' \in [stage : ChildStages, passed : Int, exit : {"zero", "nonzero", "signal"}]
  BY <1>1 DEF NoChild, ChildStages
<1> QED BY <1>1, <1>2, <1>3, RunStops

LEMMA LaunchRunKeeps ==
  ASSUME CollectionInv, LaunchRun PROVE CollectionInv'
<1> DEFINE stage == "child"
<1> DEFINE one == 1
<1> DEFINE m == [memory[Now] EXCEPT !.calls = one]
<1>1. /\ UNCHANGED <<carried, summary, inventory, tops, stored, build>>
      /\ driver' = [driver EXCEPT !.stage = stage] /\ driver.stage = "next" /\ driver \in Drivers
      /\ child' = NoChild /\ launched' = [launched EXCEPT ![Now] = @ + 1]
      /\ memory' = [memory EXCEPT ![Now].calls = one] /\ CollectionTypes
  BY DEF LaunchRun, InPhase, diskVars, CollectionInv, CollectionTypes
<1>2. driver.at \in 1 .. 14 /\ Now \in PhaseIds /\ stage \in RunStages
  BY <1>1, FourteenPhases DEF Drivers, Now, RunStages
<1>3. driver' \in Drivers /\ driver'.stage = stage /\ driver'.at = driver.at
  <2>1. driver' \in Drivers
    BY <1>1, <1>2, DriverMoves
  <2> QED BY <1>1, <2>1 DEF Drivers
<1>4. Unlaunched(driver.at) /\ memory[Now] \in PhaseMemory /\ one \in {0, 1}
  BY <1>1, <1>2 DEF CollectionInv, CollectionTypes, AheadIsUntouched
<1>5. memory' = [memory EXCEPT ![Now] = m]
  BY <1>1, <1>2 DEF CollectionTypes
<1>6. m \in PhaseMemory /\ m.calls = 1 /\ m.state = "NOT_RUN"
  <2> HIDE DEF one
  <2>1. m \in PhaseMemory /\ m.calls = one /\ m.state = memory[Now].state
    BY SMTT(40), <1>4 DEF PhaseMemory
  <2> QED BY <1>4, <2>1 DEF Unlaunched, NotRun, Now, one
<1> HIDE DEF m
<1>7. /\ memory' \in [PhaseIds -> PhaseMemory] /\ memory'[Now] = m
      /\ launched' \in [PhaseIds -> Int]
      /\ \A i \in 1 .. 14 : i # driver.at =>
           memory'[Order[i]] = memory[Order[i]] /\ launched'[Order[i]] = launched[Order[i]]
  BY <1>1, <1>2, <1>5, <1>6, FourteenPhases, OrderInjective DEF CollectionTypes, Now
<1>8. /\ child' \in [stage : ChildStages, passed : Int, exit : {"zero", "nonzero", "signal"}]
      /\ child'.stage = "none"
  BY <1>1 DEF NoChild, ChildStages
<1>9. CollectionTypes'
  BY <1>1, <1>3, <1>7, <1>8 DEF CollectionTypes
<1>10. \A i \in 1 .. 14 : Earned(i)' = Earned(i)
  BY <1>1 DEF Earned
<1>11. \A i \in 1 .. 14 : i # driver.at => Unlaunched(i)' = Unlaunched(i)
  BY <1>1, <1>7 DEF Unlaunched
<1>12. "summary" \notin tops /\ "run" \in tops /\ ~inventory.clean
  BY <1>1 DEF CollectionInv, SummaryStands, UnbegunIsEmpty, InPhase
<1>13. PassIsEarned'
  BY SMTT(40), <1>2, <1>6, <1>7, <1>10 DEF CollectionInv, PassIsEarned, Now
<1>14. UnbegunIsEmpty' /\ CallsAreLaunches'
  BY <1>1, <1>2, <1>6, <1>7, <1>11, <1>12 DEF CollectionInv, UnbegunIsEmpty, CallsAreLaunches, Now
<1>15. PassedBefore' /\ AheadIsUntouched'
  BY SMTT(40), <1>1, <1>2, <1>3, <1>7, <1>11 DEF CollectionInv, PassedBefore, AheadIsUntouched
<1>16. ChildAtWork' /\ OverIsDecided' /\ SummaryStands'
  BY <1>1, <1>3, <1>6, <1>7, <1>8, <1>12 DEF ChildAtWork, OverIsDecided, SummaryStands, InPhase, Now
<1> QED BY <1>9, <1>13, <1>14, <1>15, <1>16 DEF CollectionInv

LEMMA RecordPhaseKeeps ==
  ASSUME CollectionInv, RecordPhase PROVE CollectionInv'
<1>1. /\ UNCHANGED <<child, build, summary, inventory, carried, launched>>
      /\ driver.stage = "child" /\ child.stage = "ended" /\ CollectionTypes
      /\ driver.at \in 1 .. 14 /\ Now \in PhaseIds /\ driver \in Drivers
  BY FourteenPhases DEF RecordPhase, CollectionInv, CollectionTypes, InPhase, pastVars, Drivers, Now
<1>2. PICK unlogged \in BOOLEAN :
        LET ok == /\ ChildPassed(child.exit) /\ ~unlogged
                  /\ Now = "compile" => build = "approved"
                  /\ sources
        IN /\ memory' = [memory EXCEPT ![Now].state = IF ok THEN "PASS" ELSE "FAIL"]
           /\ stored' = [stored EXCEPT ![Now].logs = ~unlogged]
           /\ tops' = tops \union (IF Now = "compile" /\ ok THEN {"comparison"} ELSE {})
           /\ GoOn(ok)
  BY DEF RecordPhase
<1> DEFINE ok == /\ ChildPassed(child.exit) /\ ~unlogged
                 /\ Now = "compile" => build = "approved"
                 /\ sources
<1> DEFINE state == IF ok THEN "PASS" ELSE "FAIL"
<1> DEFINE m == [memory[Now] EXCEPT !.state = state]
<1> DEFINE logged == ~unlogged
<1> DEFINE f == [stored[Now] EXCEPT !.logs = logged]
<1>3. /\ memory' = [memory EXCEPT ![Now] = m] /\ stored' = [stored EXCEPT ![Now] = f]
      /\ GoOn(ok) /\ ("run" \in tops' <=> "run" \in tops)
      /\ ("summary" \in tops' <=> "summary" \in tops)
  BY <1>1, <1>2 DEF CollectionTypes
<1>4. /\ memory[Now] \in PhaseMemory /\ stored[Now] \in StoredFiles
      /\ logged \in BOOLEAN /\ state \in PhaseStates /\ (state = "PASS" <=> ok) /\ state # "NOT_RUN"
      /\ memory[Now].calls = 1
  BY <1>1 DEF CollectionInv, CollectionTypes, PhaseStates, ChildAtWork, InPhase
<1>5. ok => Earned(driver.at)
  <2>1. Order[1] = "compile"
    BY DEF Order
  <2> QED BY <1>1, <2>1 DEF CollectionInv, ChildAtWork, ChildPassed, InPhase, Now
<1> HIDE DEF ok, state, logged
<1>6. m \in PhaseMemory /\ m.state = state /\ m.calls = 1
  BY <1>4 DEF PhaseMemory
<1>7. f \in StoredFiles
  BY <1>4 DEF StoredFiles
<1> HIDE DEF m, f
<1>8. /\ memory' \in [PhaseIds -> PhaseMemory] /\ memory'[Now] = m
      /\ stored' \in [PhaseIds -> StoredFiles]
      /\ \A i \in 1 .. 14 : i # driver.at => memory'[Order[i]] = memory[Order[i]]
  BY <1>1, <1>3, <1>6, <1>7, FourteenPhases, OrderInjective DEF CollectionTypes, Now
<1>9. /\ driver' \in Drivers /\ driver'.stage \in {"next", "failed", "finished"}
      /\ driver'.stage = "next" => ok /\ driver'.at = driver.at + 1
      /\ driver'.stage = "finished" => ok /\ driver.at = 14
  <2> DEFINE failed == "failed"
  <2> DEFINE finished == "finished"
  <2>1. failed \in RunStages /\ finished \in RunStages
    BY DEF RunStages
  <2>2. \/ driver' = [driver EXCEPT !.stage = failed]
        \/ driver' = [driver EXCEPT !.stage = finished] /\ ok /\ driver.at = 14
        \/ driver' = [stage |-> "next", at |-> driver.at + 1] /\ ok /\ driver.at # 14
    BY <1>3, FourteenPhases DEF GoOn, StopRun
  <2> HIDE DEF failed, finished
  <2>3. CASE driver' = [driver EXCEPT !.stage = failed]
    <3>1. driver' \in Drivers /\ driver'.stage = failed
      BY <1>1, <2>1, <2>3, DriverMoves DEF Drivers
    <3> QED BY <3>1 DEF failed
  <2>4. CASE driver' = [driver EXCEPT !.stage = finished] /\ ok /\ driver.at = 14
    <3>1. driver' \in Drivers /\ driver'.stage = finished
      BY <1>1, <2>1, <2>4, DriverMoves DEF Drivers
    <3> QED BY <2>4, <3>1 DEF finished
  <2>5. CASE driver' = [stage |-> "next", at |-> driver.at + 1] /\ ok /\ driver.at # 14
    BY <1>1, <2>5, DriverMoves
  <2> QED BY <2>2, <2>3, <2>4, <2>5
<1>10. CollectionTypes'
  BY <1>1, <1>8, <1>9 DEF CollectionTypes
<1>11. \A i \in 1 .. 14 : i # driver.at => Unlaunched(i)' = Unlaunched(i)
  BY <1>1, <1>8 DEF Unlaunched
<1>12. \A i \in 1 .. 14 : Earned(i)' = Earned(i)
  BY <1>1 DEF Earned
<1>13. "summary" \notin tops' /\ "run" \in tops' /\ ~inventory.clean
  BY <1>1, <1>3 DEF CollectionInv, SummaryStands, UnbegunIsEmpty, InPhase
<1>14. PassIsEarned'
  <2> SUFFICES ASSUME NEW i \in 1 .. 14, memory'[Order[i]].state = "PASS", NEW j \in 1 .. 14, j <= i
               PROVE  Earned(j)
    BY <1>12 DEF PassIsEarned
  <2>1. CASE i # driver.at
    BY <1>8, <2>1 DEF CollectionInv, PassIsEarned
  <2>2. CASE i = driver.at /\ j = i
    BY <1>4, <1>5, <1>6, <1>8, <2>2 DEF Now
  <2>3. CASE i = driver.at /\ j < i
    BY <1>1, <2>3 DEF CollectionInv, PassedBefore, PassIsEarned
  <2> QED BY <1>1, <2>1, <2>2, <2>3
<1>15. UnbegunIsEmpty' /\ CallsAreLaunches'
  BY <1>6, <1>8, <1>11, <1>13 DEF CollectionInv, UnbegunIsEmpty, CallsAreLaunches, Now
<1>16. PassedBefore' /\ AheadIsUntouched'
  <2> SUFFICES ASSUME driver'.stage = "next", NEW i \in 1 .. 14
               PROVE  /\ i < driver'.at => memory'[Order[i]].state = "PASS"
                      /\ i >= driver'.at => Unlaunched(i)'
    BY <1>9 DEF PassedBefore, AheadIsUntouched, Drivers
  <2>1. driver'.at = driver.at + 1 /\ ok
    BY <1>9
  <2>2. i < driver.at => memory'[Order[i]].state = "PASS"
    BY <1>1, <1>8 DEF CollectionInv, PassedBefore
  <2>3. i = driver.at => memory'[Order[i]].state = "PASS"
    BY <1>4, <1>6, <1>8, <2>1 DEF Now
  <2>4. i > driver.at => Unlaunched(i)'
    BY <1>1, <1>11 DEF CollectionInv, AheadIsUntouched
  <2> QED BY <1>1, <2>1, <2>2, <2>3, <2>4
<1>17. OverIsDecided'
  <2> SUFFICES ASSUME NEW i \in 1 .. 14, memory'[Order[i]].state = "NOT_RUN" PROVE Unlaunched(i)'
    BY DEF OverIsDecided
  <2>1. i # driver.at
    BY <1>4, <1>6, <1>8 DEF Now
  <2>2. i > driver.at
    BY <1>1, <1>8, <2>1 DEF CollectionInv, PassedBefore
  <2> QED BY <1>1, <1>11, <2>1, <2>2 DEF CollectionInv, AheadIsUntouched
<1>18. ChildAtWork' /\ SummaryStands'
  BY <1>1, <1>9, <1>13 DEF ChildAtWork, SummaryStands, InPhase
<1> QED BY <1>10, <1>14, <1>15, <1>16, <1>17, <1>18 DEF CollectionInv

LEMMA WriteSummaryKeeps ==
  ASSUME CollectionInv, WriteSummary PROVE CollectionInv'
<1>1. /\ UNCHANGED <<memory, child, build, stored, inventory, carried, launched>>
      /\ driver.stage \in {"failed", "finished"} /\ driver' = Idle /\ CollectionTypes
  BY DEF WriteSummary, pastVars, CollectionInv
<1>2. /\ driver' \in Drivers /\ driver'.stage = "idle"
      /\ child' \in [stage : ChildStages, passed : Int, exit : {"zero", "nonzero", "signal"}]
  BY <1>1, DriverMoves DEF Idle, CollectionTypes
<1>3. CASE UNCHANGED <<tops, summary>>
  BY <1>1, <1>2, <1>3, RunStops
<1>4. CASE tops' = tops \union {"summary"} /\ summary' = memory
  <2>1. CollectionTypes'
    BY <1>1, <1>2 DEF CollectionTypes
  <2>2. \A i \in 1 .. 14 : Unlaunched(i)' = Unlaunched(i) /\ Earned(i)' = Earned(i)
    BY <1>1 DEF Unlaunched, Earned
  <2>3. "run" \in tops /\ "run" \in tops' /\ "summary" \in tops'
    BY <1>1, <1>4 DEF CollectionInv, UnbegunIsEmpty, InPhase
  <2>4. UnbegunIsEmpty' /\ PassIsEarned' /\ CallsAreLaunches'
    BY <1>1, <2>2, <2>3 DEF CollectionInv, UnbegunIsEmpty, PassIsEarned, CallsAreLaunches
  <2>5. PassedBefore' /\ AheadIsUntouched' /\ ChildAtWork'
    BY <1>2 DEF PassedBefore, AheadIsUntouched, ChildAtWork, InPhase
  <2>6. OverIsDecided' /\ SummaryStands'
    BY <1>1, <1>2, <1>4, <2>2, <2>3 DEF CollectionInv, OverIsDecided, SummaryStands, InPhase
  <2> QED BY <2>1, <2>4, <2>5, <2>6 DEF CollectionInv
<1> QED BY <1>3, <1>4 DEF WriteSummary

LEMMA CollectKeeps ==
  ASSUME CollectionInv, Collect PROVE CollectionInv'
<1>1. /\ UNCHANGED <<driver, memory, child, build, stored, summary, carried, launched>>
      /\ InPhase("idle") /\ tops' = tops \union {"staging"} /\ CollectionTypes
      /\ inventory' = [done |-> TRUE, clean |-> sources /\ "summary" \in tops /\ EvidenceAgrees(summary)]
  BY DEF Collect, runVars, pastVars, CollectionInv
<1>2. CollectionTypes'
  BY <1>1 DEF CollectionTypes
<1>3. \A i \in 1 .. 14 : Unlaunched(i)' = Unlaunched(i) /\ Earned(i)' = Earned(i)
  BY <1>1 DEF Unlaunched, Earned
<1>4. ("run" \in tops' <=> "run" \in tops) /\ ("summary" \in tops' <=> "summary" \in tops)
  BY SMTT(40), <1>1
<1>5. UnbegunIsEmpty' /\ PassIsEarned' /\ CallsAreLaunches' /\ PassedBefore'
  BY SMTT(40), <1>1, <1>3, <1>4 DEF CollectionInv, UnbegunIsEmpty, PassIsEarned, CallsAreLaunches, PassedBefore, InPhase
<1>6. AheadIsUntouched' /\ ChildAtWork' /\ OverIsDecided' /\ SummaryStands'
  BY <1>1, <1>3, <1>4 DEF CollectionInv, AheadIsUntouched, ChildAtWork, OverIsDecided, SummaryStands, InPhase
<1> QED BY <1>2, <1>5, <1>6 DEF CollectionInv

(***************************************************************************)
(* For every number of faults and of attempts, an inventory without errors *)
(* tells the truth of every phase (run-linux-once.cjs:64-70, 84-91,        *)
(* 108-122, 197-387).                                                      *)
(***************************************************************************)
THEOREM InventoryTellsTheTruth == CollectionSpec => []InventoryIsTrue
<1>1. ASSUME CollectionInv, [CollectionNext]_collectionVars PROVE CollectionInv'
  BY <1>1, StartRunKeeps, OutOfTimeKeeps, LaunchRunKeeps, CompileKeeps, ValidateBuildKeeps,
     EnterRunnerKeeps, WorkCaseKeeps, EndRunnerKeeps, ChildTimesOutKeeps, RecordPhaseKeeps,
     WriteSummaryKeeps, RunEndsEarly, SurroundingsKeep, FileLostKeeps, CollectKeeps
  DEF CollectionNext
<1> QED BY <1>1, CollectionBegins, CleanIsTrue, PTL DEF CollectionSpec

-----------------------------------------------------------------------------
(***************************************************************************)
(* A suite's files and what its child really did.                          *)
(***************************************************************************)
Results == {"none", "PASS", "FAIL"}

SuiteFiles ==
  [dir : BOOLEAN, cases : [SuiteCases -> Results], report : BOOLEAN,
   runner : {"none", "PASS", "FAIL", "REFUSED"}, artifacts : Results]

SuiteTypes ==
  /\ suites \in [SuiteNames -> SuiteFiles]
  /\ bench \in [at : {"none", "cases", "reported", "passed", "failed"}, case : SuiteCases]
  /\ passedCases \in [SuiteNames -> Int]

\* A suite without a directory has done nothing.
Fresh(s) == ~suites[s].dir => /\ \A c \in SuiteCases : suites[s].cases[c] = "none"
                              /\ passedCases[s] = 0

\* A list that is complete was earned.
Counted(s) == ExactList(suites[s]) => passedCases[s] = 2

\* The bench works on this suite: what comes after the case at hand is open.
Busy(s) ==
  /\ bench.at = "none" => bench.case = 1
  /\ bench.at = "cases" =>
       /\ suites[s].dir /\ passedCases[s] = bench.case - 1
       /\ \A c \in SuiteCases : c >= bench.case => suites[s].cases[c] = "none"
  /\ bench.at = "passed" => passedCases[s] = 2

SuiteInv(s) == SuiteTypes /\ (\A t \in SuiteNames : Fresh(t) /\ Counted(t)) /\ Busy(s)

LEMMA TwoCases == SuiteCases = {1, 2}
BY DEF SuiteCases

LEMMA ArtifactsTyped ==
  ASSUME NEW s \in SuiteNames, NEW files, NEW called
  PROVE  ArtifactsOf(s, files, called) \in {"PASS", "FAIL"}
<1>1. s \in {"payout", "withdrawal", "withdrawal-tamper", "w09-link"}
  BY DEF SuiteNames
<1>2. PayoutArtifacts(files, called) \in {"PASS", "FAIL"}
  BY DEF PayoutArtifacts
<1>3. TamperArtifacts(files, called) \in {"PASS", "FAIL"}
  BY DEF TamperArtifacts
<1>4. ArtifactsOf(s, files, called) = PayoutArtifacts(files, called)
      \/ ArtifactsOf(s, files, called) = TamperArtifacts(files, called)
  <2>1. CASE s = "payout"
    BY <2>1 DEF ArtifactsOf
  <2>2. CASE s = "withdrawal"
    BY <2>2 DEF ArtifactsOf, WithdrawalArtifacts
  <2>3. CASE s = "withdrawal-tamper"
    BY <2>3 DEF ArtifactsOf
  <2>4. CASE s = "w09-link"
    BY <2>4 DEF ArtifactsOf, LinkArtifacts
  <2> QED BY <1>1, <2>1, <2>2, <2>3, <2>4
<1> QED BY <1>2, <1>3, <1>4

LEMMA FilesReplaced ==
  ASSUME suites \in [SuiteNames -> SuiteFiles], NEW s \in SuiteNames, NEW new \in SuiteFiles,
         suites' = [suites EXCEPT ![s] = new]
  PROVE  /\ suites' \in [SuiteNames -> SuiteFiles] /\ suites'[s] = new
         /\ \A t \in SuiteNames : t # s => suites'[t] = suites[t]
OBVIOUS

LEMMA EnterKeeps ==
  ASSUME NEW s \in SuiteNames, SuiteInv(s), NEW prepared, EnterSuite(s, prepared)
  PROVE  SuiteInv(s)'
<1> DEFINE files == suites[s]
<1> DEFINE Bench == [at : {"none", "cases", "reported", "passed", "failed"}, case : SuiteCases]
<1>1. /\ suites \in [SuiteNames -> SuiteFiles] /\ files \in SuiteFiles
      /\ bench \in Bench /\ bench.at = "none" /\ bench.case = 1
      /\ passedCases' = passedCases /\ passedCases \in [SuiteNames -> Int]
  BY DEF SuiteInv, SuiteTypes, Busy, EnterSuite
<1>2. \A t \in SuiteNames : Fresh(t) /\ Counted(t)
  BY DEF SuiteInv
<1>3. ASSUME NEW new \in SuiteFiles, suites' = [suites EXCEPT ![s] = new],
             new.cases = files.cases, new.report = files.report, files.dir => new.dir
      PROVE  suites' \in [SuiteNames -> SuiteFiles] /\ \A t \in SuiteNames : Fresh(t)' /\ Counted(t)'
  <2>1. /\ suites' \in [SuiteNames -> SuiteFiles] /\ suites'[s] = new
        /\ \A t \in SuiteNames : t # s => suites'[t] = suites[t]
    BY <1>1, <1>3, FilesReplaced
  <2>2. ASSUME NEW t \in SuiteNames PROVE Fresh(t)' /\ Counted(t)'
    <3>1. /\ suites'[t].cases = suites[t].cases /\ suites'[t].report = suites[t].report
          /\ suites[t].dir => suites'[t].dir
      BY <1>3, <2>1
    <3> QED BY <1>1, <1>2, <3>1 DEF Fresh, Counted, ExactList
  <2> QED BY <2>1, <2>2
<1>4. CASE files.dir
  <2>1. suites' = suites /\ bench' = [bench EXCEPT !.at = "failed"]
    BY <1>4 DEF EnterSuite
  <2>2. bench' \in Bench /\ bench'.at = "failed"
    BY <1>1, <2>1
  <2> QED BY <1>1, <1>2, <2>1, <2>2 DEF SuiteInv, SuiteTypes, Fresh, Counted, Busy
<1>5. CASE ~files.dir /\ prepared
  <2> DEFINE new == [files EXCEPT !.dir = TRUE]
  <2>1. suites' = [suites EXCEPT ![s] = new] /\ bench' = [bench EXCEPT !.at = "cases"]
    BY <1>5 DEF EnterSuite
  <2>2. /\ new \in SuiteFiles /\ new.cases = files.cases /\ new.report = files.report
        /\ new.dir
    BY <1>1 DEF SuiteFiles
  <2>3. bench' \in Bench /\ bench'.at = "cases" /\ bench'.case = 1
    BY <1>1, <2>1
  <2> HIDE DEF new
  <2>4. suites' \in [SuiteNames -> SuiteFiles] /\ \A t \in SuiteNames : Fresh(t)' /\ Counted(t)'
    BY <1>3, <2>1, <2>2
  <2>5. suites'[s].cases = files.cases /\ suites'[s].dir
    BY <1>1, <2>1, <2>2
  <2>6. Busy(s)'
    BY <1>1, <1>2, <1>5, <2>3, <2>5 DEF Busy, Fresh
  <2> QED BY <1>1, <2>3, <2>4, <2>6 DEF SuiteInv, SuiteTypes
<1>6. CASE ~files.dir /\ ~prepared
  <2> DEFINE yes == TRUE
  <2> DEFINE runner == "REFUSED"
  <2> DEFINE grade == ArtifactsOf(s, EmptySuite, FALSE)
  <2> DEFINE new == [files EXCEPT !.dir = yes, !.runner = runner, !.artifacts = grade]
  <2>1. suites' = [suites EXCEPT ![s] = new] /\ bench' = [bench EXCEPT !.at = "failed"]
    BY <1>6 DEF EnterSuite
  <2>2. /\ yes \in BOOLEAN /\ runner \in {"none", "PASS", "FAIL", "REFUSED"} /\ grade \in Results
    BY ArtifactsTyped DEF Results
  <2>3. /\ new \in SuiteFiles /\ new.cases = files.cases /\ new.report = files.report
    <3> HIDE DEF yes, runner, grade
    <3> QED BY <1>1, <2>2 DEF SuiteFiles
  <2>4. bench' \in Bench /\ bench'.at = "failed"
    BY <1>1, <2>1
  <2> HIDE DEF new
  <2>5. suites' \in [SuiteNames -> SuiteFiles] /\ \A t \in SuiteNames : Fresh(t)' /\ Counted(t)'
    BY <1>3, <1>6, <2>1, <2>3
  <2> QED BY <1>1, <2>4, <2>5 DEF SuiteInv, SuiteTypes, Busy
<1> QED BY <1>4, <1>5, <1>6

LEMMA CaseKeeps ==
  ASSUME NEW s \in SuiteNames, SuiteInv(s), SuiteCase(s)
  PROVE  SuiteInv(s)'
<1> DEFINE files == suites[s]
<1> DEFINE Bench == [at : {"none", "cases", "reported", "passed", "failed"}, case : SuiteCases]
<1>1. /\ suites \in [SuiteNames -> SuiteFiles] /\ files \in SuiteFiles
      /\ bench \in Bench /\ bench.at = "cases" /\ bench.case \in SuiteCases
      /\ passedCases \in [SuiteNames -> Int] /\ passedCases[s] = bench.case - 1
      /\ \A c \in SuiteCases : c >= bench.case => files.cases[c] = "none"
  BY DEF SuiteInv, SuiteTypes, Busy, SuiteCase
<1>2. (\A t \in SuiteNames : Fresh(t) /\ Counted(t)) /\ files.dir
  BY DEF SuiteInv, Busy, SuiteCase
<1>3. PICK passes \in BOOLEAN :
        LET over == ~passes \/ bench.case = 2
        IN /\ suites' = [suites EXCEPT ![s].cases[bench.case] = IF passes THEN "PASS" ELSE "FAIL",
                                       ![s].report = over]
           /\ bench' = IF over THEN [bench EXCEPT !.at = "reported"] ELSE [bench EXCEPT !.case = 2]
           /\ passedCases' = [passedCases EXCEPT ![s] = IF passes THEN @ + 1 ELSE @]
  BY DEF SuiteCase
<1> DEFINE over == ~passes \/ bench.case = 2
<1> DEFINE result == IF passes THEN "PASS" ELSE "FAIL"
<1> DEFINE cases == [files.cases EXCEPT ![bench.case] = result]
<1> DEFINE new == [files EXCEPT !.cases = cases, !.report = over]
<1>4. /\ files.cases \in [SuiteCases -> Results] /\ result \in Results /\ over \in BOOLEAN
  BY <1>1 DEF SuiteFiles, Results
<1>5. /\ cases \in [SuiteCases -> Results] /\ cases[bench.case] = result
      /\ \A c \in SuiteCases : c # bench.case => cases[c] = files.cases[c]
  <2> HIDE DEF result
  <2> QED BY <1>1, <1>4
<1>6. suites' = [suites EXCEPT ![s] = new]
  <2>1. suites' = [suites EXCEPT ![s].cases[bench.case] = result, ![s].report = over]
    BY <1>3
  <2> HIDE DEF result, over
  <2> QED BY <1>1, <2>1 DEF SuiteFiles
<1>7. new \in SuiteFiles /\ new.cases = cases /\ new.report = over /\ new.dir
  <2> HIDE DEF cases, over
  <2> QED BY <1>1, <1>2, <1>4, <1>5 DEF SuiteFiles
<1>8. /\ suites' \in [SuiteNames -> SuiteFiles] /\ suites'[s] = new
      /\ \A t \in SuiteNames : t # s => suites'[t] = suites[t]
  <2> HIDE DEF new
  <2> QED BY <1>1, <1>6, <1>7, FilesReplaced
<1>9. /\ bench' \in Bench
      /\ over => bench'.at = "reported"
      /\ ~over => bench'.at = "cases" /\ bench'.case = 2
  BY <1>1, <1>3, TwoCases
<1>10. /\ passedCases' \in [SuiteNames -> Int]
       /\ passedCases'[s] = IF passes THEN bench.case ELSE bench.case - 1
       /\ \A t \in SuiteNames : t # s => passedCases'[t] = passedCases[t]
  <2>1. bench.case \in Int
    BY <1>1, TwoCases
  <2> QED BY <1>1, <1>3, <2>1
<1> HIDE DEF new, cases
<1>11. ASSUME NEW t \in SuiteNames PROVE Fresh(t)' /\ Counted(t)'
  <2>1. CASE t # s
    BY <1>2, <1>8, <1>10, <2>1 DEF Fresh, Counted, ExactList
  <2>2. CASE t = s
    <3>1. Fresh(t)'
      BY <1>7, <1>8, <2>2 DEF Fresh
    <3>2. Counted(t)'
      <4> SUFFICES ASSUME new.report, \A c \in SuiteCases : new.cases[c] = "PASS"
                   PROVE  passedCases'[s] = 2
        BY <1>8, <2>2 DEF Counted, ExactList
      <4>1. over /\ cases[bench.case] = "PASS"
        BY <1>1, <1>7
      <4>2. passes
        BY <1>5, <4>1
      <4> QED BY <1>10, <4>1, <4>2
    <3> QED BY <3>1, <3>2
  <2> QED BY <2>1, <2>2
<1>12. Busy(s)'
  <2>1. CASE over
    BY <1>9, <2>1 DEF Busy
  <2>2. CASE ~over
    <3>1. bench.case = 1 /\ passes
      BY <1>1, <2>2, TwoCases
    <3>2. passedCases'[s] = 1 /\ suites'[s].dir
      BY <1>7, <1>8, <1>10, <3>1
    <3>3. \A c \in SuiteCases : c >= 2 => suites'[s].cases[c] = "none"
      BY <1>1, <1>5, <1>7, <1>8, <3>1, TwoCases
    <3> QED BY <1>9, <2>2, <3>2, <3>3 DEF Busy
  <2> QED BY <2>1, <2>2
<1> QED BY <1>8, <1>9, <1>10, <1>11, <1>12 DEF SuiteInv, SuiteTypes

LEMMA TimeoutKeeps ==
  ASSUME NEW s \in SuiteNames, SuiteInv(s), SuiteTimesOut(s)
  PROVE  SuiteInv(s)'
<1>1. /\ bench \in [at : {"none", "cases", "reported", "passed", "failed"}, case : SuiteCases]
      /\ bench' = [bench EXCEPT !.at = "reported"] /\ UNCHANGED <<suites, passedCases>>
  BY DEF SuiteInv, SuiteTypes, SuiteTimesOut
<1>2. /\ bench' \in [at : {"none", "cases", "reported", "passed", "failed"}, case : SuiteCases]
      /\ bench'.at = "reported"
  BY <1>1
<1> QED BY <1>1, <1>2 DEF SuiteInv, SuiteTypes, Fresh, Counted, Busy, ExactList

LEMMA EndKeeps ==
  ASSUME NEW s \in SuiteNames, SuiteInv(s), EndSuite(s)
  PROVE  SuiteInv(s)'
<1> DEFINE files == suites[s]
<1> DEFINE Bench == [at : {"none", "cases", "reported", "passed", "failed"}, case : SuiteCases]
<1>1. /\ suites \in [SuiteNames -> SuiteFiles] /\ files \in SuiteFiles
      /\ bench \in Bench /\ bench.at = "reported"
      /\ passedCases \in [SuiteNames -> Int] /\ passedCases' = passedCases
  BY DEF SuiteInv, SuiteTypes, EndSuite
<1>2. \A t \in SuiteNames : Fresh(t) /\ Counted(t)
  BY DEF SuiteInv
<1>3. PICK unrecorded \in BOOLEAN :
        LET ok == ~unrecorded /\ ExactList(suites[s])
            grade == IF unrecorded THEN "FAIL" ELSE ArtifactsOf(s, suites[s], TRUE)
        IN /\ suites' = [suites EXCEPT ![s].runner = IF ok THEN "PASS" ELSE "FAIL",
                                       ![s].artifacts = grade]
           /\ bench' = [bench EXCEPT !.at = IF ok /\ grade = "PASS" THEN "passed" ELSE "failed"]
  BY DEF EndSuite
<1> DEFINE ok == ~unrecorded /\ ExactList(suites[s])
<1> DEFINE grade == IF unrecorded THEN "FAIL" ELSE ArtifactsOf(s, suites[s], TRUE)
<1> DEFINE runner == IF ok THEN "PASS" ELSE "FAIL"
<1> DEFINE new == [files EXCEPT !.runner = runner, !.artifacts = grade]
<1>4. runner \in {"none", "PASS", "FAIL", "REFUSED"} /\ grade \in Results
  BY ArtifactsTyped DEF Results
<1>5. suites' = [suites EXCEPT ![s] = new]
  <2>1. suites' = [suites EXCEPT ![s].runner = runner, ![s].artifacts = grade]
    BY <1>3
  <2> HIDE DEF runner, grade
  <2> QED BY <1>1, <2>1 DEF SuiteFiles
<1>6. /\ new \in SuiteFiles /\ new.cases = files.cases /\ new.report = files.report
      /\ new.dir = files.dir
  <2> HIDE DEF runner, grade
  <2> QED BY <1>1, <1>4 DEF SuiteFiles
<1>7. /\ suites' \in [SuiteNames -> SuiteFiles] /\ suites'[s] = new
      /\ \A t \in SuiteNames : t # s => suites'[t] = suites[t]
  <2> HIDE DEF new
  <2> QED BY <1>1, <1>5, <1>6, FilesReplaced
<1>8. bench' \in Bench /\ bench'.at \in {"passed", "failed"} /\ (bench'.at = "passed" => ok)
  BY <1>1, <1>3
<1> HIDE DEF new, grade, runner
<1>9. ASSUME NEW t \in SuiteNames PROVE Fresh(t)' /\ Counted(t)'
  <2>1. /\ suites'[t].cases = suites[t].cases /\ suites'[t].report = suites[t].report
        /\ suites'[t].dir = suites[t].dir
    BY <1>6, <1>7
  <2> QED BY <1>1, <1>2, <2>1 DEF Fresh, Counted, ExactList
<1>10. Busy(s)'
  BY <1>1, <1>2, <1>8 DEF Busy, Counted
<1> QED BY <1>1, <1>7, <1>8, <1>9, <1>10 DEF SuiteInv, SuiteTypes

LEMMA SuiteStepKeeps ==
  ASSUME NEW s \in SuiteNames, SuiteInv(s), NEW prepared, SuiteStep(s, prepared)
  PROVE  SuiteInv(s)'
BY EnterKeeps, CaseKeeps, TimeoutKeeps, EndKeeps DEF SuiteStep

\* The bench is free for whatever suite comes next.
LEMMA BenchFreed ==
  ASSUME SuiteTypes, \A t \in SuiteNames : Fresh(t) /\ Counted(t),
         bench' = BenchFree, UNCHANGED <<suites, passedCases>>
  PROVE  \A s \in SuiteNames : SuiteInv(s)'
<1> DEFINE none == "none"
<1> DEFINE one == 1
<1>1. none \in {"none", "cases", "reported", "passed", "failed"} /\ one \in SuiteCases
  BY TwoCases
<1>2. bench' = [at |-> none, case |-> one]
  BY DEF BenchFree
<1>3. bench'.at = "none" /\ bench'.case = 1
  BY <1>2
<1>4. bench' \in [at : {"none", "cases", "reported", "passed", "failed"}, case : SuiteCases]
  <2> HIDE DEF none, one
  <2> QED BY <1>1, <1>2
<1> QED BY <1>3, <1>4 DEF SuiteInv, SuiteTypes, Fresh, Counted, Busy, ExactList

LEMMA SuitesBegin ==
  ASSUME SuiteInit, NEW s \in SuiteNames
  PROVE  SuiteInv(s)
<1> DEFINE no == FALSE
<1> DEFINE none == "none"
<1> DEFINE empty == [c \in SuiteCases |-> none]
<1> DEFINE zero == 0
<1> DEFINE one == 1
<1>1. /\ suites = [t \in SuiteNames |-> EmptySuite]
      /\ EmptySuite = [dir |-> no, cases |-> empty, report |-> no, runner |-> none, artifacts |-> none]
      /\ bench = [at |-> none, case |-> one] /\ passedCases = [t \in SuiteNames |-> zero]
  BY DEF SuiteInit, EmptySuite, BenchFree
<1>2. /\ no \in BOOLEAN /\ none \in Results /\ none \in {"none", "PASS", "FAIL", "REFUSED"}
      /\ none \in {"none", "cases", "reported", "passed", "failed"}
      /\ zero \in Int /\ one \in SuiteCases /\ empty \in [SuiteCases -> Results]
  BY TwoCases DEF Results
<1>3. bench.at = "none" /\ bench.case = 1
  BY <1>1
<1>4. SuiteTypes
  <2> HIDE DEF no, none, empty, zero, one
  <2>1. EmptySuite \in SuiteFiles
    BY <1>1, <1>2 DEF SuiteFiles
  <2> QED BY <1>1, <1>2, <2>1 DEF SuiteTypes
<1>5. ASSUME NEW t \in SuiteNames PROVE Fresh(t) /\ Counted(t)
  <2>1. suites[t] = EmptySuite /\ passedCases[t] = 0
    BY <1>1
  <2>2. EmptySuite.cases = empty /\ EmptySuite.report = FALSE
    BY <1>1
  <2> QED BY <2>1, <2>2 DEF Fresh, Counted, ExactList
<1> QED BY <1>3, <1>4, <1>5 DEF SuiteInv, Busy

-----------------------------------------------------------------------------
(***************************************************************************)
(* The phases' records and what they did.                                  *)
(***************************************************************************)
PhaseFiles ==
  [dir : BOOLEAN, started : BOOLEAN, logs : BOOLEAN, invoked : BOOLEAN, exited : BOOLEAN,
   result : Results, calls : {0, 1}]

StepStages == {"none", "launch", "child", "conclude", "exited"}

PhaseTypes ==
  /\ phases \in [StepIds -> PhaseFiles]
  /\ step \in [id : StepIds \cup {"none"}, at : StepStages, bad : BOOLEAN]
  /\ built \in {"none", "approved", "other"}
  /\ misplaced \in BOOLEAN /\ attempted \subseteq StepIds /\ achieved \subseteq StepIds
  /\ \A p \in StepIds : phases[p].result # "none" => phases[p].dir

AtWork == step.at \in {"launch", "child", "conclude"}

WorksInDirectory == AtWork => step.id \in StepIds /\ phases[step.id].dir

\* No phase before p is on record as anything but passed.
PathClear(p) == \A q \in StepIds : StepBefore(q, p) => phases[q].dir /\ phases[q].result # "FAIL"

(***************************************************************************)
(* A phase whose child was started keeps its directory, or, if that is the *)
(* one that was lost, nothing before it failed; a phase that is done again *)
(* was itself the one lost, so what came after it is still there.          *)
(***************************************************************************)
AttemptsRecorded ==
  /\ \A p \in attempted : phases[p].dir \/ PathClear(p)
  /\ ~misplaced => \A p \in attempted : phases[p].dir /\ PathClear(p)
  /\ AtWork => \A p \in attempted : StepBefore(step.id, p) => phases[p].dir /\ misplaced
  /\ step.at = "launch" => PathClear(step.id)

\* What a PASS of the phase stands for.
Meant(p, done) ==
  /\ p # "compile" => p \in done
  /\ p = "hash" => "compile" \in done

ResultsEarned ==
  /\ \A p \in StepIds : phases[p].result = "PASS" => Meant(p, achieved)
  /\ step.at = "conclude" /\ ~step.bad => Meant(step.id, achieved)
  /\ built = "approved" => "compile" \in achieved

PhaseInv == PhaseTypes /\ WorksInDirectory /\ AttemptsRecorded /\ ResultsEarned

LEMMA FivePhases == StepIds = {"install", "compile", "hash", "gate", "payout"}
<1>1. Len(PhaseOrder) = 5 /\ 1 .. 5 = {1, 2, 3, 4, 5}
  BY DEF PhaseOrder
<1>2. /\ PhaseOrder[1] = "install" /\ PhaseOrder[2] = "compile" /\ PhaseOrder[3] = "hash"
      /\ PhaseOrder[4] = "gate" /\ PhaseOrder[5] = "payout"
  BY DEF PhaseOrder
<1> HIDE DEF PhaseOrder
<1> QED BY <1>1, <1>2 DEF StepIds

LEMMA NotBeforeItself == ASSUME NEW p PROVE ~StepBefore(p, p)
<1>1. Len(PhaseOrder) = 5
  BY DEF PhaseOrder
<1>2. \A i, j \in 1 .. 5 : PhaseOrder[i] = PhaseOrder[j] => i = j
  BY DEF PhaseOrder
<1> QED BY <1>1, <1>2 DEF StepBefore

LEMMA PathKept ==
  ASSUME \A q \in StepIds : phases[q].dir => phases'[q].dir,
         \A q \in StepIds : phases'[q].result = phases[q].result \/ phases'[q].result # "FAIL",
         NEW p, PathClear(p)
  PROVE  PathClear(p)'
<1>1. ASSUME NEW q \in StepIds, StepBefore(q, p)
      PROVE  phases'[q].dir /\ phases'[q].result # "FAIL"
  BY <1>1 DEF PathClear
<1> QED BY <1>1 DEF PathClear, StepBefore

\* A step of the process that touches no record.
LEMMA OnlyStepMoves ==
  ASSUME PhaseInv, phases' = phases, misplaced' = misplaced, attempted' = attempted,
         step' \in [id : StepIds \cup {"none"}, at : StepStages, bad : BOOLEAN],
         step'.at # "launch" \/ step' = step,
         AtWork' => AtWork /\ step'.id = step.id,
         built' \in {"none", "approved", "other"},
         achieved \subseteq achieved', achieved' \subseteq StepIds,
         step'.at = "conclude" /\ ~step'.bad => Meant(step'.id, achieved'),
         built' = "approved" => "compile" \in achieved'
  PROVE  PhaseInv'
<1>1. PhaseTypes'
  BY DEF PhaseInv, PhaseTypes
<1>2. WorksInDirectory'
  BY DEF PhaseInv, WorksInDirectory
<1>3. ASSUME NEW p PROVE PathClear(p)' <=> PathClear(p)
  BY DEF PathClear, StepBefore
<1>4. AttemptsRecorded'
  <2>1. AtWork' => \A p \in attempted : StepBefore(step'.id, p) => phases[p].dir /\ misplaced
    BY DEF PhaseInv, AttemptsRecorded
  <2>2. step'.at = "launch" => PathClear(step'.id)
    BY DEF PhaseInv, AttemptsRecorded
  <2>3. step'.at = "launch" => PathClear(step.id)' /\ step' = step
    BY <2>2, <1>3 DEF PathClear, StepBefore
  <2> QED BY <1>3, <2>1, <2>3 DEF PhaseInv, AttemptsRecorded, StepBefore
<1>5. ResultsEarned'
  BY DEF PhaseInv, ResultsEarned, Meant
<1> QED BY <1>1, <1>2, <1>4, <1>5 DEF PhaseInv

\* The step record after a change of its stage, or of stage and verdict.
LEMMA StepTyped ==
  ASSUME step \in [id : StepIds \cup {"none"}, at : StepStages, bad : BOOLEAN],
         NEW at \in StepStages, NEW bad \in BOOLEAN
  PROVE  /\ [step EXCEPT !.at = at, !.bad = bad]
              \in [id : StepIds \cup {"none"}, at : StepStages, bad : BOOLEAN]
         /\ [step EXCEPT !.at = at, !.bad = bad].at = at
         /\ [step EXCEPT !.at = at, !.bad = bad].bad = bad
         /\ [step EXCEPT !.at = at, !.bad = bad].id = step.id
OBVIOUS

LEMMA Concluding ==
  ASSUME PhaseTypes, NEW failed \in BOOLEAN, Conclude(failed)
  PROVE  /\ step' \in [id : StepIds \cup {"none"}, at : StepStages, bad : BOOLEAN]
         /\ step'.at = "conclude" /\ step'.id = step.id
         /\ ~step'.bad => ~failed
<1> DEFINE at == "conclude"
<1> DEFINE bad == step.bad \/ failed
<1>1. at \in StepStages /\ bad \in BOOLEAN
      /\ step \in [id : StepIds \cup {"none"}, at : StepStages, bad : BOOLEAN]
  BY DEF PhaseTypes, StepStages
<1>2. step' = [step EXCEPT !.at = at, !.bad = bad]
  BY DEF Conclude
<1>3. /\ step' \in [id : StepIds \cup {"none"}, at : StepStages, bad : BOOLEAN]
      /\ step'.at = at /\ step'.bad = bad /\ step'.id = step.id
  <2> HIDE DEF at, bad
  <2> QED BY <1>1, <1>2, StepTyped
<1> QED BY <1>1, <1>3

LEMMA Exiting ==
  ASSUME PhaseTypes, NEW bad \in BOOLEAN, step' = [step EXCEPT !.at = "exited", !.bad = bad]
  PROVE  /\ step' \in [id : StepIds \cup {"none"}, at : StepStages, bad : BOOLEAN]
         /\ step'.at = "exited"
<1> DEFINE at == "exited"
<1>1. at \in StepStages
      /\ step \in [id : StepIds \cup {"none"}, at : StepStages, bad : BOOLEAN]
  BY DEF PhaseTypes, StepStages
<1>2. step' = [step EXCEPT !.at = at, !.bad = bad]
  OBVIOUS
<1>3. /\ step' \in [id : StepIds \cup {"none"}, at : StepStages, bad : BOOLEAN]
      /\ step'.at = at
  <2> HIDE DEF at
  <2> QED BY <1>1, <1>2, StepTyped
<1> QED BY <1>3

\* The children that leave no file: install, build, comparison, a time limit, a death.
LEMMA ChildKeeps ==
  ASSUME PhaseInv, Busy("payout"),
         Install \/ Build \/ CompareBuild \/ RunPayout \/ PhaseTimesOut \/ PhaseDies \/ PinBroken
  PROVE  PhaseInv'
<1>0. /\ PhaseTypes /\ (AtWork => step.id \in StepIds) /\ ResultsEarned
      /\ achieved \subseteq StepIds /\ built \in {"none", "approved", "other"}
      /\ step \in [id : StepIds \cup {"none"}, at : StepStages, bad : BOOLEAN]
      /\ built = "approved" => "compile" \in achieved
  BY DEF PhaseInv, PhaseTypes, WorksInDirectory, ResultsEarned
<1>1. CASE Install
  <2>1. PICK well \in BOOLEAN : Conclude(~well) /\ Achieve(well)
    BY <1>1 DEF Install
  <2>2. /\ phases' = phases /\ misplaced' = misplaced /\ attempted' = attempted /\ built' = built
        /\ step.at = "child" /\ step.id = "install"
    BY <1>1 DEF Install, AtStep, OfStep
  <2>3. /\ step' \in [id : StepIds \cup {"none"}, at : StepStages, bad : BOOLEAN]
        /\ step'.at = "conclude" /\ step'.id = "install" /\ (~step'.bad => well) /\ AtWork
    BY <1>0, <2>1, <2>2, Concluding DEF AtWork
  <2>4. /\ achieved \subseteq achieved' /\ achieved' \subseteq StepIds
        /\ well => "install" \in achieved'
    BY <1>0, <2>1, <2>2, <2>3 DEF Achieve
  <2>5. ~step'.bad => Meant(step'.id, achieved')
    BY <2>3, <2>4 DEF Meant
  <2> QED BY <1>0, <2>2, <2>3, <2>4, <2>5, OnlyStepMoves
<1>2. CASE Build
  <2>1. PICK made \in {"none", "approved", "other"} :
          built' = made /\ Conclude(made = "none") /\ Achieve(made = "approved")
    BY <1>2 DEF Build
  <2>2. /\ phases' = phases /\ misplaced' = misplaced /\ attempted' = attempted
        /\ step.at = "child" /\ step.id = "compile"
    BY <1>2 DEF Build, AtStep, OfStep
  <2>3. /\ step' \in [id : StepIds \cup {"none"}, at : StepStages, bad : BOOLEAN]
        /\ step'.at = "conclude" /\ step'.id = "compile" /\ AtWork
    <3>1. (made = "none") \in BOOLEAN
      OBVIOUS
    <3> QED BY <1>0, <2>1, <2>2, <3>1, Concluding DEF AtWork
  <2>4. /\ achieved \subseteq achieved' /\ achieved' \subseteq StepIds
        /\ built' = "approved" => "compile" \in achieved'
    BY <1>0, <2>1, <2>2, <2>3 DEF Achieve
  <2>5. Meant(step'.id, achieved')
    BY <2>3 DEF Meant
  <2> QED BY <2>1, <2>2, <2>3, <2>4, <2>5, <1>0, OnlyStepMoves
<1>3. CASE CompareBuild
  <2>1. /\ Conclude(built # "approved") /\ Achieve(built = "approved")
        /\ phases' = phases /\ misplaced' = misplaced /\ attempted' = attempted /\ built' = built
        /\ step.at = "child" /\ step.id \in {"hash", "gate"}
    BY <1>3 DEF CompareBuild, AtStep
  <2>2. /\ step' \in [id : StepIds \cup {"none"}, at : StepStages, bad : BOOLEAN]
        /\ step'.at = "conclude" /\ step'.id = step.id /\ (~step'.bad => built = "approved") /\ AtWork
    <3>1. (built # "approved") \in BOOLEAN
      OBVIOUS
    <3> QED BY <1>0, <2>1, <3>1, Concluding DEF AtWork
  <2>3. /\ achieved \subseteq achieved' /\ achieved' \subseteq StepIds
        /\ built = "approved" => step.id \in achieved'
    BY <1>0, <2>1, <2>2 DEF Achieve
  <2>4. ~step'.bad => Meant(step'.id, achieved')
    BY <1>0, <2>2, <2>3 DEF Meant
  <2> QED BY <1>0, <2>1, <2>2, <2>3, <2>4, OnlyStepMoves
<1>4. CASE RunPayout
  <2>1. /\ phases' = phases /\ misplaced' = misplaced /\ attempted' = attempted /\ built' = built
        /\ step.at = "child" /\ step.id = "payout"
    BY <1>4 DEF RunPayout, AtStep, OfStep
  <2>2. CASE UNCHANGED <<step, achieved>>
    BY <1>0, <2>1, <2>2, OnlyStepMoves DEF ResultsEarned, AtWork
  <2>3. CASE SuiteOver /\ Conclude(bench.at = "failed") /\ Achieve(passedCases["payout"] = 2)
    <3>1. /\ step' \in [id : StepIds \cup {"none"}, at : StepStages, bad : BOOLEAN]
          /\ step'.at = "conclude" /\ step'.id = "payout" /\ (~step'.bad => bench.at # "failed")
          /\ AtWork
      <4>1. (bench.at = "failed") \in BOOLEAN
        OBVIOUS
      <4> QED BY <1>0, <2>1, <2>3, <4>1, Concluding DEF AtWork
    <3>2. bench.at # "failed" => passedCases["payout"] = 2
      BY <2>3 DEF SuiteOver, Busy
    <3>3. /\ achieved \subseteq achieved' /\ achieved' \subseteq StepIds
          /\ passedCases["payout"] = 2 => "payout" \in achieved'
      BY <1>0, <2>1, <2>3, <3>1 DEF Achieve
    <3>4. ~step'.bad => Meant(step'.id, achieved')
      BY <3>1, <3>2, <3>3 DEF Meant
    <3> QED BY <1>0, <2>1, <3>1, <3>3, <3>4, OnlyStepMoves
  <2> QED BY <1>4, <2>2, <2>3 DEF RunPayout
<1>5. CASE PhaseTimesOut
  <2>1. /\ Conclude(TRUE) /\ step.at = "child"
        /\ UNCHANGED <<phases, misplaced, attempted, built, achieved>>
    BY <1>5 DEF PhaseTimesOut, AtStep
  <2>2. /\ step' \in [id : StepIds \cup {"none"}, at : StepStages, bad : BOOLEAN]
        /\ step'.at = "conclude" /\ step'.id = step.id /\ step'.bad /\ AtWork
    BY <1>0, <2>1, Concluding DEF AtWork
  <2> QED BY <1>0, <2>1, <2>2, OnlyStepMoves
<1>6. CASE PhaseDies
  <2>1. /\ step' = [step EXCEPT !.at = "exited", !.bad = TRUE]
        /\ UNCHANGED <<phases, misplaced, attempted, built, achieved>>
    BY <1>6 DEF PhaseDies
  <2>2. /\ step' \in [id : StepIds \cup {"none"}, at : StepStages, bad : BOOLEAN]
        /\ step'.at = "exited" /\ ~AtWork'
    BY <1>0, <2>1, Exiting DEF AtWork
  <2> QED BY <1>0, <2>1, <2>2, OnlyStepMoves
<1>7. CASE PinBroken
  <2>1. UNCHANGED <<step, phases, misplaced, attempted, built, achieved>>
    BY <1>7 DEF PinBroken
  <2> QED BY <1>0, <2>1, OnlyStepMoves DEF ResultsEarned, AtWork
<1> QED BY <1>1, <1>2, <1>3, <1>4, <1>5, <1>6, <1>7

\* One phase's records replaced.
LEMMA RecordsReplaced ==
  ASSUME phases \in [StepIds -> PhaseFiles], NEW p \in StepIds, NEW new \in PhaseFiles,
         phases' = [phases EXCEPT ![p] = new]
  PROVE  /\ phases' \in [StepIds -> PhaseFiles] /\ phases'[p] = new
         /\ \A q \in StepIds : q # p => phases'[q] = phases[q]
OBVIOUS

\* A directory is only made, for a phase whose predecessors passed.
LEMMA InvokeKeeps ==
  ASSUME PhaseInv, NEW p \in StepIds, Invoke(p) PROVE PhaseInv'
<1>0. /\ PhaseTypes /\ ResultsEarned /\ AttemptsRecorded
      /\ step.at \in {"none", "exited"}
      /\ UNCHANGED <<suites, built, achieved, attempted, misplaced>>
      /\ phases \in [StepIds -> PhaseFiles] /\ phases[p] \in PhaseFiles
      /\ \A q \in StepIds : phases[q].result # "none" => phases[q].dir
  BY DEF PhaseInv, PhaseTypes, Invoke, suiteVars
<1>1. CASE ~Admitted(p)
  <2> DEFINE exited == "exited"
  <2> DEFINE yes == TRUE
  <2>1. step' = [id |-> p, at |-> exited, bad |-> yes] /\ phases' = phases
    BY <1>1 DEF Invoke
  <2>2. exited \in StepStages /\ yes \in BOOLEAN /\ p \in StepIds \cup {"none"}
    BY DEF StepStages
  <2>3. step'.at = "exited" /\ ~AtWork'
    BY <2>1 DEF AtWork
  <2>4. step' \in [id : StepIds \cup {"none"}, at : StepStages, bad : BOOLEAN]
    <3> HIDE DEF exited, yes
    <3> QED BY <2>1, <2>2
  <2>5. /\ built' \in {"none", "approved", "other"} /\ achieved' \subseteq StepIds
        /\ built' = "approved" => "compile" \in achieved'
    BY <1>0 DEF PhaseTypes, ResultsEarned
  <2> QED BY <1>0, <2>1, <2>3, <2>4, <2>5, OnlyStepMoves
<1>2. CASE Admitted(p)
  <2>1. PICK unstarted \in BOOLEAN :
          /\ phases' = [phases EXCEPT ![p].dir = TRUE, ![p].started = ~unstarted]
          /\ step' = [id |-> p, at |-> IF unstarted THEN "conclude" ELSE "launch", bad |-> unstarted]
    BY <1>2 DEF Invoke
  <2>2. ~phases[p].dir /\ \A q \in StepIds : StepBefore(q, p) => phases[q].result = "PASS"
    BY <1>2 DEF Admitted, PredecessorsPassed
  <2> DEFINE yes == TRUE
  <2> DEFINE started == ~unstarted
  <2> DEFINE new == [phases[p] EXCEPT !.dir = yes, !.started = started]
  <2> DEFINE at == IF unstarted THEN "conclude" ELSE "launch"
  <2>3. yes \in BOOLEAN /\ started \in BOOLEAN /\ at \in StepStages /\ at \in {"conclude", "launch"}
    BY DEF StepStages
  <2>4. phases' = [phases EXCEPT ![p] = new]
    <3>1. phases' = [phases EXCEPT ![p].dir = yes, ![p].started = started]
      BY <2>1
    <3> HIDE DEF yes, started
    <3> QED BY <1>0, <3>1 DEF PhaseFiles
  <2>5. new \in PhaseFiles /\ new.dir = yes /\ new.result = phases[p].result
    <3> HIDE DEF yes, started
    <3> QED BY <1>0, <2>3 DEF PhaseFiles
  <2>6. /\ phases' \in [StepIds -> PhaseFiles] /\ phases'[p] = new
        /\ \A q \in StepIds : q # p => phases'[q] = phases[q]
    <3> HIDE DEF new
    <3> QED BY <1>0, <2>4, <2>5, RecordsReplaced
  <2>7. \A q \in StepIds : /\ phases'[q].result = phases[q].result
                           /\ phases[q].dir => phases'[q].dir
    <3> HIDE DEF new
    <3> QED BY <2>5, <2>6
  <2>8. phases'[p].dir
    <3> HIDE DEF new
    <3> QED BY <2>5, <2>6
  <2> HIDE DEF new
  <2>9. /\ step' \in [id : StepIds \cup {"none"}, at : StepStages, bad : BOOLEAN]
        /\ step'.id = p /\ step'.at = at /\ step'.bad = unstarted
    <3>1. step' = [id |-> p, at |-> at, bad |-> unstarted] /\ p \in StepIds \cup {"none"}
      BY <2>1
    <3> HIDE DEF at
    <3> QED BY <2>3, <3>1
  <2>10. PhaseTypes' /\ WorksInDirectory'
    BY <1>0, <2>6, <2>7, <2>8, <2>9 DEF PhaseTypes, WorksInDirectory
  <2>11. \A q \in attempted : phases[q].dir \/ PathClear(q)
    BY <1>0 DEF AttemptsRecorded
  <2>12. ASSUME NEW q, PathClear(q) PROVE PathClear(q)'
    <3>1. \A r \in StepIds : phases'[r].result = phases[r].result \/ phases'[r].result # "FAIL"
      BY <2>7
    <3> QED BY <2>7, <2>12, <3>1, PathKept
  <2>13. PathClear(p)
    BY <1>0, <2>2 DEF PathClear
  <2>14. attempted \subseteq StepIds
    BY <1>0 DEF PhaseTypes
  <2>15. ASSUME NEW q \in attempted, StepBefore(p, q) PROVE phases[q].dir /\ misplaced
    <3>1. ~PathClear(q)
      BY <2>2, <2>15 DEF PathClear
    <3> QED BY <1>0, <2>15, <3>1 DEF AttemptsRecorded
  <2>16. AttemptsRecorded'
    <3>1. \A q \in attempted : phases'[q].dir \/ PathClear(q)'
      BY <2>7, <2>11, <2>12, <2>14
    <3>2. ~misplaced => \A q \in attempted : phases'[q].dir /\ PathClear(q)'
      BY <1>0, <2>7, <2>12, <2>14 DEF AttemptsRecorded
    <3>3. \A q \in attempted : StepBefore(p, q) => phases'[q].dir /\ misplaced
      BY <2>7, <2>14, <2>15
    <3>4. PathClear(step.id)'
      <4>1. PathClear(p)'
        BY <2>12, <2>13
      <4> QED BY <2>9, <4>1 DEF PathClear, StepBefore
    <3> QED BY <1>0, <2>9, <3>1, <3>2, <3>3, <3>4 DEF AttemptsRecorded, StepBefore
  <2>17. ResultsEarned'
    BY <1>0, <2>3, <2>7, <2>9 DEF ResultsEarned, Meant
  <2> QED BY <2>10, <2>16, <2>17 DEF PhaseInv
<1> QED BY <1>1, <1>2

\* The child of a phase is about to be started, on a clear path.
LEMMA OpenLogsKeeps ==
  ASSUME PhaseInv, OpenLogs PROVE PhaseInv'
<1> DEFINE p == step.id
<1>0. /\ PhaseTypes /\ ResultsEarned /\ AttemptsRecorded /\ WorksInDirectory
      /\ step.at = "launch" /\ AtWork /\ p \in StepIds /\ phases[p].dir
      /\ UNCHANGED <<built, achieved, misplaced>>
      /\ phases \in [StepIds -> PhaseFiles] /\ phases[p] \in PhaseFiles
      /\ step \in [id : StepIds \cup {"none"}, at : StepStages, bad : BOOLEAN]
  BY DEF PhaseInv, PhaseTypes, OpenLogs, AtStep, AtWork, WorksInDirectory
<1>1. CASE Conclude(TRUE) /\ UNCHANGED <<phases, attempted>>
  <2>1. /\ step' \in [id : StepIds \cup {"none"}, at : StepStages, bad : BOOLEAN]
        /\ step'.at = "conclude" /\ step'.id = step.id /\ step'.bad
    BY <1>0, <1>1, Concluding
  <2>2. /\ built' \in {"none", "approved", "other"} /\ achieved' \subseteq StepIds
        /\ built' = "approved" => "compile" \in achieved'
    BY <1>0 DEF PhaseTypes, ResultsEarned
  <2> QED BY <1>0, <1>1, <2>1, <2>2, OnlyStepMoves
<1>2. CASE /\ phases' = [phases EXCEPT ![p].logs = TRUE, ![p].invoked = ~OfStep("hash"),
                                       ![p].calls = IF OfStep("hash") THEN 0 ELSE 1]
           /\ attempted' = attempted \union {p}
           /\ step' = [step EXCEPT !.at = "child"]
  <2> DEFINE yes == TRUE
  <2> DEFINE invoked == ~OfStep("hash")
  <2> DEFINE calls == IF OfStep("hash") THEN 0 ELSE 1
  <2> DEFINE new == [phases[p] EXCEPT !.logs = yes, !.invoked = invoked, !.calls = calls]
  <2> DEFINE at == "child"
  <2>1. yes \in BOOLEAN /\ invoked \in BOOLEAN /\ calls \in {0, 1} /\ at \in StepStages
    BY DEF StepStages, OfStep
  <2>2. phases' = [phases EXCEPT ![p] = new]
    <3>1. phases' = [phases EXCEPT ![p].logs = yes, ![p].invoked = invoked, ![p].calls = calls]
      BY <1>2
    <3> HIDE DEF yes, invoked, calls, p
    <3> QED BY <1>0, <3>1 DEF PhaseFiles
  <2>3. new \in PhaseFiles /\ new.dir = phases[p].dir /\ new.result = phases[p].result
    <3> HIDE DEF yes, invoked, calls, p
    <3> QED BY ZenonT(60), <1>0, <2>1 DEF PhaseFiles
  <2>4. /\ phases' \in [StepIds -> PhaseFiles] /\ phases'[p] = new
        /\ \A q \in StepIds : q # p => phases'[q] = phases[q]
    <3> HIDE DEF new, p
    <3> QED BY <1>0, <2>2, <2>3, RecordsReplaced
  <2>5. \A q \in StepIds : phases'[q].result = phases[q].result /\ phases'[q].dir = phases[q].dir
    <3> HIDE DEF new, p
    <3> QED BY <2>3, <2>4
  <2> HIDE DEF new
  <2>6. /\ step' \in [id : StepIds \cup {"none"}, at : StepStages, bad : BOOLEAN]
        /\ step'.id = p /\ step'.at = "child"
    <3>1. step' = [step EXCEPT !.at = at]
      BY <1>2
    <3>2. /\ step' \in [id : StepIds \cup {"none"}, at : StepStages, bad : BOOLEAN]
          /\ step'.id = p /\ step'.at = at
      <4> HIDE DEF at
      <4> QED BY SMTT(40), <1>0, <2>1, <3>1
    <3> QED BY <3>2
  <2>7. PhaseTypes' /\ WorksInDirectory'
    BY <1>0, <1>2, <2>4, <2>5, <2>6 DEF PhaseTypes, WorksInDirectory
  <2>8. ASSUME NEW q PROVE PathClear(q)' <=> PathClear(q)
    BY <2>5 DEF PathClear, StepBefore
  <2>9. PathClear(p) /\ ~StepBefore(p, p)
    BY <1>0, NotBeforeItself DEF AttemptsRecorded
  <2>10. AttemptsRecorded'
    <3>1. \A q \in attempted' : phases'[q].dir \/ PathClear(q)'
      BY SMTT(40), <1>0, <1>2, <2>5, <2>8 DEF AttemptsRecorded, PhaseTypes
    <3>2. ~misplaced => \A q \in attempted' : phases'[q].dir /\ PathClear(q)'
      BY SMTT(40), <1>0, <1>2, <2>5, <2>8, <2>9 DEF AttemptsRecorded, PhaseTypes
    <3>3. \A q \in attempted' : StepBefore(p, q) => phases'[q].dir /\ misplaced
      BY <1>0, <1>2, <2>5, <2>9 DEF AttemptsRecorded, PhaseTypes
    <3> QED BY SMTT(40), <1>0, <2>6, <3>1, <3>2, <3>3 DEF AttemptsRecorded, StepBefore
  <2>11. ResultsEarned'
    BY <1>0, <2>5, <2>6 DEF ResultsEarned, Meant
  <2> QED BY <2>7, <2>10, <2>11 DEF PhaseInv
<1> QED BY <1>1, <1>2 DEF OpenLogs

\* A result is written: a PASS only of a phase that did what it is for.
LEMMA ConcludeKeeps ==
  ASSUME PhaseInv, ConcludePhase PROVE PhaseInv'
<1>0. PICK p : p = step.id
  OBVIOUS
<1>1. /\ PhaseTypes /\ ResultsEarned /\ AttemptsRecorded /\ WorksInDirectory
      /\ step.at = "conclude" /\ AtWork /\ p \in StepIds /\ phases[p].dir
      /\ UNCHANGED <<built, achieved, attempted, misplaced>>
      /\ phases \in [StepIds -> PhaseFiles] /\ phases[p] \in PhaseFiles
      /\ step \in [id : StepIds \cup {"none"}, at : StepStages, bad : BOOLEAN]
  BY <1>0 DEF PhaseInv, PhaseTypes, ConcludePhase, AtStep, AtWork, WorksInDirectory
<1>2. PICK exited \in BOOLEAN, result \in Results, bad \in BOOLEAN :
        /\ result = "PASS" => ~step.bad
        /\ phases' = [phases EXCEPT ![p].exited = exited, ![p].result = result]
        /\ step' = [step EXCEPT !.at = "exited", !.bad = bad]
  <2>1. PICK unexited \in BOOLEAN, unwritten \in BOOLEAN :
          LET ok == /\ ~step.bad /\ pinned /\ ~unexited
                    /\ OfStep("payout") => SuitePassed("payout")
          IN /\ phases' = [phases EXCEPT ![p].exited = ~unexited,
                                         ![p].result = IF unwritten THEN "none"
                                                       ELSE IF ok THEN "PASS" ELSE "FAIL"]
             /\ step' = [step EXCEPT !.at = "exited", !.bad = ~ok \/ unwritten]
    BY <1>0 DEF ConcludePhase
  <2> DEFINE ok == /\ ~step.bad /\ pinned /\ ~unexited
                   /\ OfStep("payout") => SuitePassed("payout")
  <2> DEFINE exited == ~unexited
  <2> DEFINE result == IF unwritten THEN "none" ELSE IF ok THEN "PASS" ELSE "FAIL"
  <2> DEFINE bad == ~ok \/ unwritten
  <2>2. exited \in BOOLEAN /\ result \in Results /\ bad \in BOOLEAN /\ (result = "PASS" => ~step.bad)
    BY DEF Results
  <2>3. /\ phases' = [phases EXCEPT ![p].exited = exited, ![p].result = result]
        /\ step' = [step EXCEPT !.at = "exited", !.bad = bad]
    BY <2>1
  <2> HIDE DEF exited, result, bad
  <2> QED BY <2>2, <2>3
<1> DEFINE new == [phases[p] EXCEPT !.exited = exited, !.result = result]
<1>3. phases' = [phases EXCEPT ![p] = new]
  BY <1>1, <1>2 DEF PhaseFiles
<1>4. new \in PhaseFiles /\ new.dir = phases[p].dir /\ new.result = result
  BY <1>1, <1>2 DEF PhaseFiles
<1> HIDE DEF new
<1>5. /\ phases' \in [StepIds -> PhaseFiles] /\ phases'[p] = new
      /\ \A q \in StepIds : q # p => phases'[q] = phases[q]
  BY <1>1, <1>3, <1>4, RecordsReplaced
<1>6. /\ \A q \in StepIds : phases'[q].dir = phases[q].dir
      /\ \A q \in StepIds : q # p => phases'[q].result = phases[q].result
      /\ phases'[p].result = result
  BY <1>4, <1>5
<1>7. /\ step' \in [id : StepIds \cup {"none"}, at : StepStages, bad : BOOLEAN]
      /\ step'.at = "exited" /\ ~AtWork'
  BY <1>1, <1>2, Exiting DEF AtWork
<1>8. PhaseTypes'
  BY <1>1, <1>5, <1>6, <1>7 DEF PhaseTypes
<1>9. ASSUME NEW q \in attempted PROVE StepBefore(p, q) => phases[q].dir /\ misplaced
  BY <1>0, <1>1, <1>9 DEF AttemptsRecorded
<1>10. ASSUME NEW q, ~StepBefore(p, q), PathClear(q) PROVE PathClear(q)'
  BY <1>6, <1>10 DEF PathClear, StepBefore
<1>11. AttemptsRecorded'
  <2>1. attempted \subseteq StepIds
    BY <1>1 DEF PhaseTypes
  <2>2. \A q \in attempted : phases'[q].dir \/ PathClear(q)'
    BY <1>1, <1>6, <1>9, <1>10, <2>1 DEF AttemptsRecorded
  <2>3. ~misplaced => \A q \in attempted : phases'[q].dir /\ PathClear(q)'
    BY <1>1, <1>6, <1>9, <1>10, <2>1 DEF AttemptsRecorded
  <2> QED BY <1>1, <1>7, <2>2, <2>3 DEF AttemptsRecorded
<1>12. ResultsEarned'
  <2>1. step.at = "conclude" /\ ~step.bad => Meant(p, achieved)
    BY <1>0, <1>1 DEF ResultsEarned
  <2>2. ASSUME NEW q \in StepIds, phases'[q].result = "PASS" PROVE Meant(q, achieved)
    BY <1>1, <1>2, <1>6, <2>1, <2>2 DEF ResultsEarned
  <2> QED BY <1>1, <1>7, <2>2 DEF ResultsEarned, Meant
<1> QED BY <1>7, <1>8, <1>11, <1>12 DEF PhaseInv, WorksInDirectory

\* Losing a result clears a path; losing a directory happens once.
LEMMA LossKeeps ==
  ASSUME PhaseInv, RecordsLost PROVE PhaseInv'
<1>1. /\ PhaseTypes /\ ResultsEarned /\ AttemptsRecorded /\ ~AtWork
      /\ UNCHANGED <<step, built, achieved, attempted>> /\ step.at \in {"none", "exited"}
      /\ phases \in [StepIds -> PhaseFiles] /\ attempted \subseteq StepIds
  BY DEF PhaseInv, PhaseTypes, RecordsLost, AtWork
<1>2. PICK p \in StepIds :
        /\ phases[p].dir
        /\ \/ ~misplaced /\ phases' = [phases EXCEPT ![p] = NoRecords] /\ misplaced' = TRUE
           \/ phases' = [phases EXCEPT ![p].result = "none"] /\ UNCHANGED misplaced
  BY DEF RecordsLost
<1> DEFINE none == "none"
<1> DEFINE cleared == [phases[p] EXCEPT !.result = none]
<1>3. none \in Results /\ phases[p] \in PhaseFiles
  BY <1>1 DEF Results
<1>4. cleared \in PhaseFiles /\ cleared.dir = phases[p].dir /\ cleared.result = none
  <2> HIDE DEF none
  <2> QED BY <1>3 DEF PhaseFiles
<1>5. NoRecords \in PhaseFiles /\ NoRecords.result = "none"
  <2> DEFINE no == FALSE
  <2> DEFINE zero == 0
  <2>1. no \in BOOLEAN /\ zero \in {0, 1}
    OBVIOUS
  <2>2. NoRecords = [dir |-> no, started |-> no, logs |-> no, invoked |-> no, exited |-> no,
                     result |-> none, calls |-> zero]
    BY DEF NoRecords
  <2>3. NoRecords.result = none
    BY <2>2
  <2>4. NoRecords \in PhaseFiles
    <3> HIDE DEF no, zero, none
    <3> QED BY <1>3, <2>1, <2>2 DEF PhaseFiles
  <2> QED BY <2>3, <2>4
<1>6. PICK new \in PhaseFiles :
        /\ phases' = [phases EXCEPT ![p] = new] /\ new.result = "none"
        /\ \/ ~misplaced /\ misplaced' = TRUE
           \/ new.dir = phases[p].dir /\ misplaced' = misplaced
  <2>1. CASE ~misplaced /\ phases' = [phases EXCEPT ![p] = NoRecords] /\ misplaced' = TRUE
    <3> HIDE DEF cleared
    <3> QED BY <1>5, <2>1
  <2>2. CASE phases' = [phases EXCEPT ![p].result = "none"] /\ UNCHANGED misplaced
    <3>1. phases' = [phases EXCEPT ![p] = cleared]
      BY <1>1, <2>2
    <3>2. cleared.result = "none"
      BY <1>4
    <3> HIDE DEF cleared
    <3> QED BY <1>4, <2>2, <3>1, <3>2
  <2> QED BY <1>2, <2>1, <2>2
<1> HIDE DEF cleared, none
<1>7. /\ phases' \in [StepIds -> PhaseFiles] /\ phases'[p] = new
      /\ \A q \in StepIds : q # p => phases'[q] = phases[q]
  BY <1>1, <1>6, RecordsReplaced
<1>8. PhaseTypes'
  BY <1>1, <1>6, <1>7 DEF PhaseTypes
<1>9. ResultsEarned'
  BY <1>1, <1>6, <1>7 DEF ResultsEarned, Meant
<1>10. AttemptsRecorded'
  <2>1. CASE ~misplaced /\ misplaced'
    <3>1. ASSUME NEW q \in attempted PROVE phases'[q].dir \/ PathClear(q)'
      <4>1. phases[q].dir /\ PathClear(q) /\ ~StepBefore(q, q)
        BY <1>1, <2>1, <3>1, NotBeforeItself DEF AttemptsRecorded
      <4>2. CASE q = p
        BY <1>7, <4>1, <4>2 DEF PathClear, StepBefore
      <4>3. CASE q # p
        BY <1>1, <1>7, <3>1, <4>1, <4>3
      <4> QED BY <4>2, <4>3
    <3> QED BY <1>1, <2>1, <3>1 DEF AttemptsRecorded, AtWork
  <2>2. CASE new.dir = phases[p].dir /\ misplaced' = misplaced
    <3>1. \A q \in StepIds : phases'[q].dir = phases[q].dir
      BY <1>7, <2>2
    <3>2. \A q \in StepIds : phases'[q].result = phases[q].result \/ phases'[q].result # "FAIL"
      BY <1>6, <1>7
    <3>3. ASSUME NEW q, PathClear(q) PROVE PathClear(q)'
      BY <3>1, <3>2, <3>3, PathKept
    <3> QED BY <1>1, <2>2, <3>1, <3>3 DEF AttemptsRecorded, AtWork
  <2> QED BY <1>6, <2>1, <2>2
<1> QED BY <1>1, <1>8, <1>9, <1>10 DEF PhaseInv, WorksInDirectory, AtWork

LEMMA PhaseStepKeeps ==
  ASSUME PhaseInv, Busy("payout"), PhaseStep PROVE PhaseInv'
BY ChildKeeps, OpenLogsKeeps, ConcludeKeeps, LossKeeps DEF PhaseStep

LEMMA PhasesBegin == PayoutInit => PhaseInv
<1> SUFFICES ASSUME PayoutInit PROVE PhaseInv
  OBVIOUS
<1> DEFINE no == FALSE
<1> DEFINE none == "none"
<1> DEFINE zero == 0
<1>1. /\ step = [id |-> none, at |-> none, bad |-> no]
      /\ phases = [p \in StepIds |-> NoRecords] /\ built = "none" /\ misplaced = FALSE
      /\ achieved = {} /\ attempted = {}
      /\ NoRecords = [dir |-> no, started |-> no, logs |-> no, invoked |-> no, exited |-> no,
                      result |-> none, calls |-> zero]
  BY DEF PayoutInit, NoStep, NoRecords
<1>2. no \in BOOLEAN /\ zero \in {0, 1} /\ none \in Results /\ none \in StepStages
      /\ none \in StepIds \cup {"none"}
  BY DEF Results, StepStages
<1>3. step.at = "none" /\ NoRecords.result = "none"
  BY <1>1
<1>4. /\ step \in [id : StepIds \cup {"none"}, at : StepStages, bad : BOOLEAN]
      /\ NoRecords \in PhaseFiles
  <2> HIDE DEF no, none, zero
  <2> QED BY <1>1, <1>2 DEF PhaseFiles
<1>5. PhaseTypes
  BY <1>1, <1>3, <1>4 DEF PhaseTypes
<1> QED BY <1>1, <1>3, <1>5 DEF PhaseInv, WorksInDirectory, AttemptsRecorded, ResultsEarned, AtWork

\* What the manifest of a collection says, once it is written.
VerdictSound ==
  /\ \A p \in StepIds : verdict.states[p] = "PASS" => Meant(p, achieved)
  /\ verdict.clean => \A p \in StepIds : verdict.states[p] = "NOT_RUN" => p \notin verdict.tried

PayoutInv == PhaseInv /\ SuiteInv("payout") /\ VerdictSound

LEMMA VerdictKept ==
  ASSUME VerdictSound, UNCHANGED verdict, achieved \subseteq achieved'
  PROVE  VerdictSound'
BY DEF VerdictSound, Meant

\* Nothing that was done is undone.
LEMMA AchievementsStay ==
  ASSUME PhaseStep \/ \E p \in StepIds : Invoke(p) PROVE achieved \subseteq achieved'
BY DEF PhaseStep, OpenLogs, Install, Build, CompareBuild, RunPayout, PhaseTimesOut, ConcludePhase,
       PhaseDies, PinBroken, RecordsLost, Invoke, Achieve

\* The suite that is the child of the payout phase, under every step of the phases.
LEMMA PayoutSuiteKept ==
  ASSUME SuiteInv("payout"), PhaseStep \/ \E p \in StepIds : Invoke(p) PROVE SuiteInv("payout")'
<1>1. "payout" \in SuiteNames
  BY DEF SuiteNames
<1>2. UNCHANGED suiteVars => SuiteInv("payout")'
  BY DEF suiteVars, SuiteInv, SuiteTypes, Fresh, Counted, Busy, ExactList
<1>3. bench' = BenchFree /\ UNCHANGED <<suites, passedCases>> => SuiteInv("payout")'
  BY <1>1, BenchFreed DEF SuiteInv
<1>4. CASE RunPayout
  <2>1. CASE PayoutSuite(built = "approved")
    BY <1>1, <2>1, SuiteStepKeeps DEF PayoutSuite
  <2> QED BY <1>3, <1>4, <2>1 DEF RunPayout
<1>5. CASE PhaseTimesOut \/ PhaseDies
  BY <1>3, <1>5 DEF PhaseTimesOut, PhaseDies
<1>6. CASE ~RunPayout /\ ~PhaseTimesOut /\ ~PhaseDies
  BY <1>2, <1>6 DEF PhaseStep, OpenLogs, Install, Build, CompareBuild, ConcludePhase, PinBroken,
                    RecordsLost, Invoke
<1> QED BY <1>4, <1>5, <1>6

\* The collection's words against what happened.
LEMMA StatesProven ==
  ASSUME PhaseInv, NEW p \in StepIds
  PROVE  /\ StateOf(p) = "PASS" => Meant(p, achieved)
         /\ StateOf(p) = "NOT_RUN" => p \notin attempted
<1>1. phases \in [StepIds -> PhaseFiles] /\ phases[p].result \in Results
  BY DEF PhaseInv, PhaseTypes, PhaseFiles
<1>2. CASE NotRunProven(p)
  <2>1. ~phases[p].dir /\ ~PathClear(p)
    BY <1>2 DEF NotRunProven, PathClear
  <2> QED BY <1>2, <2>1 DEF PhaseInv, AttemptsRecorded, StateOf
<1>3. CASE ~NotRunProven(p)
  BY <1>1, <1>3 DEF StateOf, PhaseInv, ResultsEarned, Results
<1> QED BY <1>2, <1>3

(***************************************************************************)
(* run-linux-payout-once.cjs: whatever order its phases are called in,     *)
(* wherever they die and with one directory lost, a collection's overall   *)
(* PASS means that every phase did what it is for, and a phase a clean     *)
(* collection calls NOT_RUN never had its child started.                   *)
(***************************************************************************)
THEOREM PayoutVerdictIsEarned == PayoutSpec => []VerdictIsEarned
<1>1. PayoutInit => PayoutInv
  <2> SUFFICES ASSUME PayoutInit PROVE PayoutInv
    OBVIOUS
  <2>1. SuiteInit /\ "payout" \in SuiteNames
    BY DEF PayoutInit, SuiteNames
  <2>2. VerdictSound
    <3> DEFINE unknown == [p \in StepIds |-> "UNKNOWN"]
    <3>1. verdict = [done |-> FALSE, clean |-> FALSE, states |-> unknown, tried |-> {}]
      BY DEF PayoutInit, NoVerdict
    <3>2. verdict.clean = FALSE /\ verdict.states = unknown
      BY <3>1
    <3> QED BY <3>2 DEF VerdictSound
  <2> QED BY <2>1, <2>2, PhasesBegin, SuitesBegin DEF PayoutInv
<1>2. PayoutInv /\ [PayoutNext]_payoutVars => PayoutInv'
  <2> SUFFICES ASSUME PayoutInv, [PayoutNext]_payoutVars PROVE PayoutInv'
    OBVIOUS
  <2>0. PhaseInv /\ SuiteInv("payout") /\ Busy("payout") /\ VerdictSound
    BY DEF PayoutInv, SuiteInv
  <2>1. CASE (\E p \in StepIds : Invoke(p)) /\ UNCHANGED verdict
    BY <2>0, <2>1, InvokeKeeps, PayoutSuiteKept, AchievementsStay, VerdictKept DEF PayoutInv
  <2>2. CASE PhaseStep /\ UNCHANGED verdict
    BY <2>0, <2>2, PhaseStepKeeps, PayoutSuiteKept, AchievementsStay, VerdictKept DEF PayoutInv
  <2>3. ASSUME UNCHANGED <<suites, bench, passedCases, phaseVars>>
        PROVE  PhaseInv' /\ SuiteInv("payout")'
    BY <2>0, <2>3 DEF phaseVars, PhaseInv, PhaseTypes, WorksInDirectory, AttemptsRecorded,
                      ResultsEarned, AtWork, PathClear, StepBefore, Meant, SuiteInv, SuiteTypes,
                      Fresh, Counted, Busy, ExactList
  <2>4. CASE CollectPayout
    <3> DEFINE states == [p \in StepIds |-> StateOf(p)]
    <3>1. /\ verdict' = [done |-> TRUE, clean |-> NoErrors, states |-> states, tried |-> attempted]
          /\ UNCHANGED <<suites, bench, passedCases, phaseVars>>
      BY <2>4 DEF CollectPayout, suiteVars
    <3>2. /\ verdict'.states = states /\ verdict'.tried = attempted /\ achieved' = achieved
      <4> HIDE DEF states
      <4> QED BY <3>1 DEF phaseVars
    <3>3. ASSUME NEW p \in StepIds
          PROVE  /\ verdict'.states[p] = "PASS" => Meant(p, achieved)'
                 /\ verdict'.states[p] = "NOT_RUN" => p \notin verdict'.tried
      BY <2>0, <3>2, StatesProven DEF Meant
    <3>4. VerdictSound'
      BY <3>3 DEF VerdictSound
    <3> QED BY <2>3, <3>1, <3>4 DEF PayoutInv
  <2>5. CASE PayoutRest \/ UNCHANGED payoutVars
    BY <2>0, <2>3, <2>5 DEF PayoutRest, payoutVars, suiteVars, PayoutInv, VerdictSound, phaseVars,
                            Meant
  <2> QED BY <2>1, <2>2, <2>4, <2>5 DEF PayoutNext
<1>3. PayoutInv => VerdictIsEarned
  <2> SUFFICES ASSUME PayoutInv PROVE VerdictIsEarned
    OBVIOUS
  <2>1. VerdictSound /\ achieved \subseteq StepIds
    BY DEF PayoutInv, PhaseInv, PhaseTypes
  <2>2. ASSUME OverallPass PROVE achieved = StepIds
    <3>1. \A p \in StepIds : Meant(p, achieved)
      BY <2>1, <2>2 DEF OverallPass, VerdictSound
    <3> QED BY <2>1, <3>1, FivePhases DEF Meant
  <2> QED BY <2>1, <2>2 DEF VerdictIsEarned, VerdictSound
<1> QED BY <1>1, <1>2, <1>3, PTL DEF PayoutSpec

-----------------------------------------------------------------------------
(***************************************************************************)
(* The withdrawal run: the wrapper's memory, the phase or suite it is in,  *)
(* and what the phases and suites left.                                    *)
(***************************************************************************)
WrapStages == {"none", "next", "call", "child", "finish", "over"}

Wrappers == [at : WrapStages, turn : Nat, bad : BOOLEAN, owns : BOOLEAN]

Items == [calls : {0, 1}, state : {"NOT_RUN", "STARTED", "PASS", "FAIL"},
          code : {"none", "0", "1", "signal"}]

WrapTypes == wrapper \in Wrappers /\ items \in [WrapIds -> Items]

\* Everything before the turn passed, until the run has failed.
PassedSoFar ==
  /\ wrapper.at = "finish" => wrapper.bad
  /\ wrapper.at \in {"next", "call", "child"} =>
       /\ wrapper.turn >= 1
       /\ \A i \in 1 .. 7 : i < wrapper.turn =>
            items[WrapOrder[i]].calls = 1 /\ items[WrapOrder[i]].state = "PASS"
  /\ wrapper.at = "none" => wrapper.turn = 1
  /\ wrapper.at \in {"call", "child"} => /\ wrapper.turn \in 1 .. 7 /\ items[Turn].calls = 1
                                         /\ items[Turn].state = "STARTED"

\* A phase process is the child of its turn, and what was started was called.
ChildOfTurn ==
  /\ AtWork => wrapper.at = "child" /\ Turn \in Delegated /\ step.id = Turn
  /\ \A p \in attempted \cap Delegated : items[p].calls = 1

SuiteOfTurn ==
  IF wrapper.at = "child" /\ Turn \notin Delegated
  THEN SuiteInv(Turn)
  ELSE bench.at = "none" /\ \A s \in SuiteNames : SuiteInv(s)

\* What the run remembers and what it keeps was earned: a compile result with the
\* approved hashes by the compile phase, a suite's PASS by its cases.
RunEarned ==
  /\ compiled = "approved" => "compile" \in achieved
  /\ \A t \in WrapIds \ Delegated : items[t].state = "PASS" => passedCases[t] = 2

UnderWay ==
  /\ outcome.collection = "FAIL"
  /\ WrapTypes /\ PassedSoFar /\ ChildOfTurn /\ SuiteOfTurn /\ PhaseInv /\ RunEarned

WrapInv == WithdrawalVerdict /\ (wrapper.at # "over" => UnderWay)

LEMMA SevenTurns ==
  /\ Len(WrapOrder) = 7
  /\ WrapIds = {"install", "compile", "hash", "gate", "withdrawal", "withdrawal-tamper", "w09-link"}
  /\ \A i \in 1 .. 7 : WrapOrder[i] \in WrapIds
  /\ \A i, j \in 1 .. 7 : WrapOrder[i] = WrapOrder[j] => i = j
  /\ \A p \in WrapIds : \E i \in 1 .. 7 : WrapOrder[i] = p
<1>1. Len(WrapOrder) = 7 /\ 1 .. 7 = {1, 2, 3, 4, 5, 6, 7}
  BY DEF WrapOrder
<1>2. /\ WrapOrder[1] = "install" /\ WrapOrder[2] = "compile" /\ WrapOrder[3] = "hash"
      /\ WrapOrder[4] = "gate" /\ WrapOrder[5] = "withdrawal"
      /\ WrapOrder[6] = "withdrawal-tamper" /\ WrapOrder[7] = "w09-link"
  BY DEF WrapOrder
<1> HIDE DEF WrapOrder
<1>3. \A i, j \in 1 .. 7 : WrapOrder[i] = WrapOrder[j] => i = j
  BY <1>1, <1>2
<1> QED BY <1>1, <1>2, <1>3 DEF WrapIds

LEMMA DelegatedPhases ==
  /\ Delegated \subseteq StepIds /\ Delegated \subseteq WrapIds
  /\ "payout" \notin Delegated /\ "compile" \in Delegated
  /\ WrapIds \ Delegated \subseteq SuiteNames
BY FivePhases, SevenTurns DEF Delegated, SuiteNames

\* A phase's process keeps to its phase, and starts no other child.
LEMMA PhaseStaysInTurn ==
  ASSUME PhaseTypes, PhaseStep
  PROVE  /\ AtWork' => AtWork /\ step'.id = step.id
         /\ attempted' \subseteq attempted \cup (IF AtWork THEN {step.id} ELSE {})
<1>0. step \in [id : StepIds \cup {"none"}, at : StepStages, bad : BOOLEAN]
  BY DEF PhaseTypes
<1>1. CASE OpenLogs
  <2>1. AtWork /\ attempted' \subseteq attempted \cup {step.id}
        /\ (Conclude(TRUE) \/ step' = [step EXCEPT !.at = "child"])
    BY <1>1 DEF OpenLogs, AtStep, AtWork
  <2>2. step'.id = step.id
    BY <1>0, <2>1, Concluding
  <2> QED BY <2>1, <2>2
<1>2. CASE Install \/ Build \/ CompareBuild \/ PhaseTimesOut
  <2>1. AtWork /\ attempted' = attempted
        /\ \E failed \in BOOLEAN : Conclude(failed)
    <3>1. (built # "approved") \in BOOLEAN /\ \A o : (o = "none") \in BOOLEAN
      OBVIOUS
    <3> QED BY <1>2, <3>1 DEF Install, Build, CompareBuild, PhaseTimesOut, AtStep, AtWork
  <2>2. step'.id = step.id
    BY <2>1, Concluding
  <2> QED BY <2>1, <2>2
<1>3. CASE RunPayout
  <2>1. AtWork /\ attempted' = attempted
        /\ (step' = step \/ \E failed \in BOOLEAN : Conclude(failed))
    <3>1. (bench.at = "failed") \in BOOLEAN
      OBVIOUS
    <3> QED BY <1>3, <3>1 DEF RunPayout, AtStep, AtWork
  <2>2. step'.id = step.id
    BY <2>1, Concluding
  <2> QED BY <2>1, <2>2
<1>4. CASE ConcludePhase
  <2>1. attempted' = attempted
    BY <1>4 DEF ConcludePhase
  <2>2. PICK bad \in BOOLEAN : step' = [step EXCEPT !.at = "exited", !.bad = bad]
    <3>1. PICK unexited \in BOOLEAN, unwritten \in BOOLEAN :
            LET ok == /\ ~step.bad /\ pinned /\ ~unexited
                      /\ OfStep("payout") => SuitePassed("payout")
            IN step' = [step EXCEPT !.at = "exited", !.bad = ~ok \/ unwritten]
      BY <1>4 DEF ConcludePhase
    <3> DEFINE bad == ~(/\ ~step.bad /\ pinned /\ ~unexited
                        /\ OfStep("payout") => SuitePassed("payout")) \/ unwritten
    <3>2. bad \in BOOLEAN /\ step' = [step EXCEPT !.at = "exited", !.bad = bad]
      BY <3>1
    <3> HIDE DEF bad
    <3> QED BY <3>2
  <2>3. ~AtWork'
    BY <2>2, Exiting DEF AtWork
  <2> QED BY <2>1, <2>3
<1>5. CASE PhaseDies
  <2>1. attempted' = attempted /\ step' = [step EXCEPT !.at = "exited", !.bad = TRUE]
    BY <1>5 DEF PhaseDies
  <2>2. ~AtWork'
    BY <2>1, Exiting DEF AtWork
  <2> QED BY <2>1, <2>2
<1>6. CASE PinBroken \/ RecordsLost
  BY <1>6 DEF PinBroken, RecordsLost, AtWork
<1> QED BY <1>1, <1>2, <1>3, <1>4, <1>5, <1>6 DEF PhaseStep

LEMMA WithdrawalBegins == WithdrawalInit => WrapInv
<1> SUFFICES ASSUME WithdrawalInit PROVE WrapInv
  OBVIOUS
<1> DEFINE none == "none"
<1> DEFINE one == 1
<1> DEFINE no == FALSE
<1> DEFINE zero == 0
<1> DEFINE state == "NOT_RUN"
<1> DEFINE item == [calls |-> zero, state |-> state, code |-> none]
<1>1. /\ wrapper = [at |-> none, turn |-> one, bad |-> no, owns |-> no]
      /\ items = [p \in WrapIds |-> item] /\ outcome = NoOutcome /\ PayoutInit
      /\ compiled = none
  BY DEF WithdrawalInit
<1>2. wrapper.at = "none" /\ wrapper.turn = 1
  BY <1>1
<1>3. WrapTypes
  <2>1. /\ none \in WrapStages /\ one \in Nat /\ no \in BOOLEAN /\ zero \in {0, 1}
        /\ state \in {"NOT_RUN", "STARTED", "PASS", "FAIL"}
        /\ none \in {"none", "0", "1", "signal"}
    BY DEF WrapStages
  <2> HIDE DEF none, one, no, zero, state
  <2>2. item \in Items /\ wrapper \in Wrappers
    BY <1>1, <2>1 DEF Items, Wrappers
  <2> HIDE DEF item
  <2> QED BY <1>1, <2>2 DEF WrapTypes
<1>4. outcome.collection = "FAIL"
  BY <1>1 DEF NoOutcome
<1>5. step.at = "none" /\ attempted = {}
  BY <1>1 DEF PayoutInit, NoStep
<1>6. PassedSoFar /\ ChildOfTurn
  BY <1>2, <1>5 DEF PassedSoFar, ChildOfTurn, AtWork
<1>7. SuiteOfTurn
  <2>1. SuiteInit /\ bench.at = "none"
    BY <1>1 DEF PayoutInit, SuiteInit, BenchFree
  <2> QED BY <1>2, <2>1, SuitesBegin DEF SuiteOfTurn
<1>8. RunEarned
  <2>1. ASSUME NEW t \in WrapIds PROVE items[t].state # "PASS"
    BY <1>1, <2>1
  <2>2. compiled # "approved"
    BY <1>1
  <2> QED BY <2>1, <2>2 DEF RunEarned
<1> QED BY <1>1, <1>3, <1>4, <1>6, <1>7, <1>8, PhasesBegin DEF WrapInv, UnderWay, WithdrawalVerdict

\* Where no process but the wrapper moves.
LEMMA RecordsAside ==
  ASSUME UNCHANGED <<suites, bench, passedCases, step, phases, built, achieved, attempted, misplaced>>
  PROVE  /\ PhaseInv => PhaseInv'
         /\ \A s \in SuiteNames : SuiteInv(s) => SuiteInv(s)'
         /\ AtWork' <=> AtWork
<1>1. PhaseInv => PhaseInv'
  BY DEF PhaseInv, PhaseTypes, WorksInDirectory, AttemptsRecorded, ResultsEarned, AtWork,
         PathClear, StepBefore, Meant
<1>2. \A s \in SuiteNames : SuiteInv(s) => SuiteInv(s)'
  BY DEF SuiteInv, SuiteTypes, Fresh, Counted, Busy, ExactList
<1> QED BY <1>1, <1>2 DEF AtWork

LEMMA StartWrapperKeeps ==
  ASSUME UnderWay, StartWrapper PROVE UnderWay'
<1> DEFINE next == "next"
<1>1. PICK leftover \in BOOLEAN :
        /\ built' = IF leftover THEN "other" ELSE built
        /\ wrapper' = [wrapper EXCEPT !.at = "next", !.owns = ~leftover]
  BY DEF StartWrapper
<1> DEFINE owns == ~leftover
<1>2. /\ wrapper.at = "none" /\ wrapper \in Wrappers /\ wrapper.turn = 1
      /\ UNCHANGED <<suites, bench, passedCases, step, phases, achieved, attempted, misplaced,
                     items, compiled, outcome>>
      /\ outcome.collection = "FAIL" /\ items \in [WrapIds -> Items] /\ PhaseInv
  BY DEF StartWrapper, UnderWay, PassedSoFar, suiteVars, WrapTypes
<1>3. next \in WrapStages /\ owns \in BOOLEAN /\ wrapper' = [wrapper EXCEPT !.at = next, !.owns = owns]
  BY <1>1 DEF WrapStages
<1>4. wrapper' \in Wrappers /\ wrapper'.at = "next" /\ wrapper'.turn = 1
  <2>1. wrapper' \in Wrappers /\ wrapper'.at = next /\ wrapper'.turn = wrapper.turn
    <3> HIDE DEF next, owns
    <3> QED BY <1>2, <1>3 DEF Wrappers
  <2> QED BY <1>2, <2>1
<1>5. PhaseInv'
  <2>1. built' \in {"none", "approved", "other"} /\ (built' = "approved" => built = "approved")
    BY <1>1, <1>2 DEF PhaseInv, PhaseTypes
  <2> QED BY <1>2, <2>1, OnlyStepMoves DEF PhaseInv, PhaseTypes, ResultsEarned, AtWork
<1>6. bench.at = "none" /\ (\A s \in SuiteNames : SuiteInv(s)) /\ ~AtWork
  BY <1>2 DEF UnderWay, SuiteOfTurn, ChildOfTurn
<1>7. SuiteOfTurn' /\ ChildOfTurn'
  <2>1. \A s \in SuiteNames : SuiteInv(s)'
    BY <1>2, <1>6 DEF SuiteInv, SuiteTypes, Fresh, Counted, Busy, ExactList
  <2> QED BY <1>2, <1>4, <1>6, <2>1 DEF SuiteOfTurn, ChildOfTurn, AtWork, UnderWay
<1>8. PassedSoFar' /\ RunEarned'
  BY <1>2, <1>4 DEF PassedSoFar, RunEarned, UnderWay
<1> QED BY <1>2, <1>4, <1>5, <1>7, <1>8 DEF UnderWay, WrapTypes

LEMMA CallPhaseKeeps ==
  ASSUME UnderWay, CallPhase PROVE UnderWay'
<1>0. PICK p : p = Turn
  BY SMTT(40)
<1> DEFINE started == "STARTED"
<1> DEFINE one == 1
<1> DEFINE none == "none"
<1> DEFINE item == [calls |-> one, state |-> started, code |-> none]
<1> DEFINE call == "call"
<1> DEFINE finish == "finish"
<1> DEFINE yes == TRUE
<1>1. /\ wrapper.at = "next" /\ wrapper.turn <= 7 /\ wrapper.turn >= 1 /\ ~wrapper.bad
      /\ items' = [items EXCEPT ![p] = item]
      /\ \/ wrapper' = [wrapper EXCEPT !.at = finish, !.bad = yes]
         \/ wrapper' = [wrapper EXCEPT !.at = call]
      /\ UNCHANGED <<suites, bench, passedCases, step, phases, built, achieved, attempted, misplaced,
                     compiled, outcome>>
      /\ wrapper \in Wrappers /\ items \in [WrapIds -> Items]
  BY <1>0, SevenTurns DEF CallPhase, UnderWay, PassedSoFar, WrapTypes, Sites, suiteVars, phaseVars
<1>2. wrapper.turn \in 1 .. 7 /\ p \in WrapIds /\ p = WrapOrder[wrapper.turn]
  BY <1>0, <1>1, SevenTurns DEF Turn, Wrappers
<1>3. /\ call \in WrapStages /\ finish \in WrapStages /\ yes \in BOOLEAN
      /\ started \in {"NOT_RUN", "STARTED", "PASS", "FAIL"} /\ one \in {0, 1}
      /\ none \in {"none", "0", "1", "signal"}
  BY DEF WrapStages
<1>4. /\ wrapper' \in Wrappers /\ wrapper'.turn = wrapper.turn
      /\ \/ wrapper'.at = finish /\ wrapper'.bad
         \/ wrapper'.at = call
  <2> HIDE DEF call, finish
  <2> QED BY <1>1, <1>3 DEF Wrappers
<1>5. item \in Items /\ item.calls = 1 /\ item.state = "STARTED"
  BY <1>3 DEF Items
<1> HIDE DEF item
<1>6. /\ items' \in [WrapIds -> Items] /\ items'[p].calls = 1 /\ items'[p].state = "STARTED"
      /\ \A q \in WrapIds : q # p => items'[q] = items[q]
  BY <1>1, <1>2, <1>5
<1>7. \A i \in 1 .. 7 : i < wrapper.turn => items'[WrapOrder[i]] = items[WrapOrder[i]]
  BY SMTT(40), <1>2, <1>6, SevenTurns
<1>8. PassedSoFar'
  <2>1. \A i \in 1 .. 7 : i < wrapper.turn =>
          items'[WrapOrder[i]].calls = 1 /\ items'[WrapOrder[i]].state = "PASS"
    BY <1>1, <1>7 DEF UnderWay, PassedSoFar
  <2>2. Turn' = p
    BY <1>2, <1>4 DEF Turn
  <2> QED BY <1>1, <1>2, <1>4, <1>6, <2>1, <2>2 DEF PassedSoFar
<1>9. ~AtWork /\ bench.at = "none" /\ \A s \in SuiteNames : SuiteInv(s)
  BY <1>1 DEF UnderWay, ChildOfTurn, SuiteOfTurn
<1>10. PhaseInv' /\ \A s \in SuiteNames : SuiteInv(s)'
  BY <1>1, <1>9, RecordsAside DEF UnderWay
<1>11. ~AtWork'
  BY <1>1, <1>9 DEF AtWork
<1>12. ChildOfTurn'
  <2>1. \A q \in attempted \cap Delegated : items'[q].calls = 1
    BY <1>6, DelegatedPhases DEF UnderWay, ChildOfTurn
  <2> QED BY <1>1, <1>11, <2>1 DEF ChildOfTurn
<1>13. SuiteOfTurn'
  BY <1>1, <1>4, <1>9, <1>10 DEF SuiteOfTurn
<1>14. WrapTypes' /\ outcome'.collection = "FAIL"
  BY <1>1, <1>4, <1>6 DEF WrapTypes, UnderWay
<1>15. RunEarned'
  <2>1. \A t \in WrapIds \ Delegated : items'[t].state = "PASS" => items[t].state = "PASS"
    BY <1>6
  <2> QED BY <1>1, <2>1 DEF UnderWay, RunEarned
<1> QED BY <1>8, <1>10, <1>12, <1>13, <1>14, <1>15 DEF UnderWay

LEMMA BeginChildKeeps ==
  ASSUME UnderWay, BeginChild PROVE UnderWay'
<1> DEFINE atChild == "child"
<1>1. /\ wrapper.at = "call" /\ wrapper' = [wrapper EXCEPT !.at = atChild]
      /\ UNCHANGED <<items, compiled, outcome>> /\ wrapper \in Wrappers /\ items \in [WrapIds -> Items]
      /\ PhaseInv /\ outcome.collection = "FAIL" /\ wrapper.turn \in 1 .. 7 /\ items[Turn].calls = 1
  BY DEF BeginChild, UnderWay, WrapTypes, PassedSoFar
<1>2. wrapper' \in Wrappers /\ wrapper'.at = "child" /\ wrapper'.turn = wrapper.turn /\ Turn' = Turn
  <2>1. atChild \in WrapStages
    BY DEF WrapStages
  <2>2. wrapper' \in Wrappers /\ wrapper'.at = atChild /\ wrapper'.turn = wrapper.turn
    <3> HIDE DEF atChild
    <3> QED BY SMTT(40), <1>1, <2>1 DEF Wrappers
  <2> QED BY <2>2 DEF Turn
<1>3. PassedSoFar'
  BY <1>1, <1>2 DEF UnderWay, PassedSoFar
<1>4. ~AtWork /\ bench.at = "none" /\ \A s \in SuiteNames : SuiteInv(s)
  BY <1>1 DEF UnderWay, ChildOfTurn, SuiteOfTurn
<1>5. CASE Turn \in Delegated
  <2>1. Invoke(Turn) /\ Turn \in StepIds
    BY <1>1, <1>5, DelegatedPhases DEF BeginChild
  <2>2. /\ UNCHANGED <<suites, bench, passedCases, attempted, achieved>>
        /\ step'.id = Turn
    BY <2>1 DEF Invoke, suiteVars
  <2>3. PhaseInv'
    BY <1>1, <2>1, InvokeKeeps
  <2>4. ChildOfTurn'
    BY <1>1, <1>2, <1>5, <2>2 DEF UnderWay, ChildOfTurn
  <2>5. \A s \in SuiteNames : SuiteInv(s)'
    BY <1>4, <2>2 DEF SuiteInv, SuiteTypes, Fresh, Counted, Busy, ExactList
  <2>6. SuiteOfTurn'
    BY <1>2, <1>4, <1>5, <2>2, <2>5 DEF SuiteOfTurn
  <2>7. RunEarned'
    BY <1>1, <2>2 DEF UnderWay, RunEarned
  <2> QED BY <1>1, <1>2, <1>3, <2>3, <2>4, <2>6, <2>7 DEF UnderWay, WrapTypes
<1>6. CASE Turn \notin Delegated
  <2>1. UNCHANGED <<suites, bench, passedCases, step, phases, built, achieved, attempted, misplaced>>
    BY <1>6 DEF BeginChild, suiteVars, phaseVars
  <2>2. Turn \in SuiteNames
    BY <1>1, <1>6, SevenTurns, DelegatedPhases DEF Turn
  <2>3. PhaseInv' /\ (\A s \in SuiteNames : SuiteInv(s)') /\ ~AtWork'
    BY <1>1, <1>4, <2>1, RecordsAside
  <2>4. SuiteOfTurn'
    <3>1. SuiteInv(Turn)'
      <4>1. PICK s \in SuiteNames : s = Turn /\ s = Turn'
        BY <1>2, <2>2
      <4> QED BY <2>3, <4>1
    <3> QED BY <1>2, <1>6, <3>1 DEF SuiteOfTurn
  <2>5. ChildOfTurn'
    BY <1>1, <2>1, <2>3 DEF UnderWay, ChildOfTurn
  <2>6. RunEarned'
    BY <1>1, <2>1 DEF UnderWay, RunEarned
  <2> QED BY <1>1, <1>2, <1>3, <2>3, <2>4, <2>5, <2>6 DEF UnderWay, WrapTypes
<1> QED BY <1>5, <1>6

\* Only the compiler changes the build, and it achieves what it is for when the
\* build is the approved one.
LEMMA OnlyCompilerBuilds ==
  ASSUME PhaseStep, built' # built, built' = "approved"
  PROVE  "compile" \in achieved'
<1>1. Build
  BY DEF PhaseStep, OpenLogs, Install, CompareBuild, RunPayout, PhaseTimesOut, ConcludePhase,
         PhaseDies, PinBroken, RecordsLost
<1>2. step.id = "compile" /\ achieved' = achieved \union {step.id}
  BY <1>1 DEF Build, OfStep, Achieve
<1> QED BY SMTT(40), <1>2

LEMMA DelegatedStepKeeps ==
  ASSUME UnderWay, DelegatedStep PROVE UnderWay'
<1>1. /\ wrapper.at = "child" /\ Turn \in Delegated /\ PhaseStep
      /\ UNCHANGED <<wrapper, items, outcome>>
      /\ compiled' = IF built' = built THEN compiled ELSE built'
      /\ PhaseInv /\ PhaseTypes /\ bench.at = "none" /\ \A s \in SuiteNames : SuiteInv(s)
  BY DEF DelegatedStep, UnderWay, SuiteOfTurn, PhaseInv
<1>2. "payout" \in SuiteNames
  BY DEF SuiteNames
<1>3. Busy("payout")
  BY <1>1, <1>2 DEF SuiteInv
<1>4. PhaseInv'
  BY <1>1, <1>3, PhaseStepKeeps
<1>5. AtWork => step.id = Turn
  BY DEF UnderWay, ChildOfTurn
<1>6. Turn' = Turn
  BY <1>1 DEF Turn
<1>7. ChildOfTurn'
  <2>1. AtWork' => step'.id = Turn
    BY <1>1, <1>5, PhaseStaysInTurn
  <2>2. \A p \in attempted' \cap Delegated : items[p].calls = 1
    <3>1. items[Turn].calls = 1
      BY SMTT(40), <1>1 DEF UnderWay, PassedSoFar
    <3> QED BY <1>1, <1>5, <3>1, PhaseStaysInTurn DEF UnderWay, ChildOfTurn
  <2> QED BY <1>1, <1>6, <2>1, <2>2 DEF ChildOfTurn
<1>8. UNCHANGED <<suites, passedCases>> /\ (bench' = bench \/ bench' = BenchFree)
  <2>1. ~RunPayout
    <3> SUFFICES ASSUME RunPayout PROVE FALSE
      OBVIOUS
    <3>1. AtWork /\ step.id = "payout"
      BY DEF RunPayout, AtStep, OfStep, AtWork
    <3> QED BY <1>1, <1>5, <3>1, DelegatedPhases
  <2> QED BY <1>1, <2>1 DEF PhaseStep, OpenLogs, Install, Build, CompareBuild, PhaseTimesOut,
              ConcludePhase, PhaseDies, PinBroken, RecordsLost, suiteVars
<1>9. bench'.at = "none" /\ \A s \in SuiteNames : SuiteInv(s)'
  <2>1. CASE bench' = bench
    BY <1>1, <1>8, <2>1 DEF SuiteInv, SuiteTypes, Fresh, Counted, Busy, ExactList
  <2>2. CASE bench' = BenchFree
    <3>1. SuiteTypes /\ \A s \in SuiteNames : Fresh(s) /\ Counted(s)
      BY <1>1, <1>2 DEF SuiteInv
    <3>2. bench'.at = "none"
      BY <2>2 DEF BenchFree
    <3> QED BY <1>8, <2>2, <3>1, <3>2, BenchFreed
  <2> QED BY <1>8, <2>1, <2>2
<1>10. SuiteOfTurn'
  BY <1>1, <1>6, <1>9 DEF SuiteOfTurn
<1>11. PassedSoFar' /\ WrapTypes' /\ outcome'.collection = "FAIL"
  BY <1>1, <1>6 DEF UnderWay, PassedSoFar, WrapTypes
<1>12. RunEarned'
  <2>1. achieved \subseteq achieved'
    BY <1>1, AchievementsStay
  <2>2. compiled' = "approved" => "compile" \in achieved'
    BY <1>1, <2>1, OnlyCompilerBuilds DEF UnderWay, RunEarned
  <2> QED BY <1>1, <1>8, <2>2 DEF UnderWay, RunEarned
<1> QED BY <1>4, <1>7, <1>10, <1>11, <1>12 DEF UnderWay

LEMMA SuiteChildKeeps ==
  ASSUME UnderWay, SuiteChildStep PROVE UnderWay'
<1>0. PICK s : s = Turn
  OBVIOUS
<1>1. /\ wrapper.at = "child" /\ s \in {"withdrawal", "withdrawal-tamper", "w09-link"}
      /\ \E prepared : SuiteStep(s, prepared)
      /\ UNCHANGED <<step, phases, built, achieved, attempted, misplaced, wrapper, items, compiled,
                     outcome>>
  BY <1>0 DEF SuiteChildStep, WithdrawalSuite, TamperSuite, LinkSuite, phaseVars, wrapVars
<1>2. s \in SuiteNames /\ s \notin Delegated
  BY <1>1 DEF SuiteNames, Delegated
<1>3. SuiteInv(s)
  BY <1>0, <1>1, <1>2 DEF UnderWay, SuiteOfTurn
<1>4. SuiteInv(s)'
  BY <1>1, <1>2, <1>3, SuiteStepKeeps
<1>5. Turn' = s
  BY <1>0, <1>1 DEF Turn
<1>6. SuiteOfTurn'
  BY SMTT(40), <1>1, <1>2, <1>4, <1>5 DEF SuiteOfTurn
<1>7. PhaseInv'
  BY <1>1 DEF UnderWay, PhaseInv, PhaseTypes, WorksInDirectory, AttemptsRecorded, ResultsEarned,
              AtWork, PathClear, StepBefore, Meant
<1>8. PassedSoFar' /\ WrapTypes' /\ ChildOfTurn' /\ outcome'.collection = "FAIL"
  BY <1>0, <1>1, <1>5 DEF UnderWay, PassedSoFar, WrapTypes, ChildOfTurn, AtWork
<1>9. RunEarned'
  <2>1. items[s].state = "STARTED"
    BY <1>0, <1>1 DEF UnderWay, PassedSoFar
  <2>2. \A t \in SuiteNames : t # s => passedCases'[t] = passedCases[t]
    BY <1>1, <1>2, <1>3 DEF SuiteStep, EnterSuite, SuiteCase, SuiteTimesOut, EndSuite, SuiteInv,
                            SuiteTypes
  <2>3. ASSUME NEW t \in WrapIds \ Delegated, items'[t].state = "PASS"
        PROVE  passedCases'[t] = 2
    <3>1. t # s /\ t \in SuiteNames /\ items[t].state = "PASS"
      BY <1>1, <2>1, <2>3, DelegatedPhases
    <3> QED BY <2>2, <3>1 DEF UnderWay, RunEarned
  <2> QED BY <1>1, <2>3 DEF UnderWay, RunEarned
<1> QED BY <1>6, <1>7, <1>8, <1>9 DEF UnderWay

\* The verdict on a child that has ended, and the wrapper's next turn.
LEMMA EndedChild ==
  ASSUME WrapTypes, wrapper.at = "child", wrapper.turn \in 1 .. 7,
         \A i \in 1 .. 7 : i < wrapper.turn =>
            items[WrapOrder[i]].calls = 1 /\ items[WrapOrder[i]].state = "PASS",
         items[Turn].calls = 1, NEW failed \in BOOLEAN, EndChild(failed)
  PROVE  /\ WrapTypes' /\ PassedSoFar'
         /\ wrapper'.at \in {"next", "finish"}
         /\ \A p \in WrapIds : items'[p].calls = items[p].calls
         /\ \A p \in WrapIds : p # Turn => items'[p] = items[p]
         /\ items'[Turn].state = "PASS" => ~failed
<1>0. PICK turn, at, bad, state, code :
        /\ turn = wrapper.turn + 1 /\ at \in {"next", "finish"} /\ bad \in BOOLEAN
        /\ at = "next" => ~bad /\ state = "PASS"
        /\ at = "finish" => bad
        /\ state \in {"PASS", "FAIL"} /\ code \in {"none", "0", "1", "signal"}
        /\ state = "PASS" => ~failed
        /\ items' = [items EXCEPT ![Turn] = [@ EXCEPT !.state = state, !.code = code]]
        /\ wrapper' = [wrapper EXCEPT !.at = at, !.turn = turn, !.bad = bad]
  <2>1. PICK unlogged \in BOOLEAN, unrecorded \in BOOLEAN :
          LET s == IF failed \/ wrapper.bad \/ unlogged THEN "FAIL" ELSE "PASS"
              ends == s = "FAIL" \/ unrecorded \/ (Turn = "hash" /\ built # "approved")
          IN /\ items' = [items EXCEPT ![Turn] = [@ EXCEPT !.state = s,
                                                          !.code = IF failed THEN "1" ELSE "0"]]
             /\ wrapper' = [wrapper EXCEPT !.at = IF ends THEN "finish" ELSE "next",
                                           !.turn = @ + 1, !.bad = ends]
    BY DEF EndChild
  <2> DEFINE s == IF failed \/ wrapper.bad \/ unlogged THEN "FAIL" ELSE "PASS"
  <2> DEFINE code == IF failed THEN "1" ELSE "0"
  <2> DEFINE bad == s = "FAIL" \/ unrecorded \/ (Turn = "hash" /\ built # "approved")
  <2> DEFINE at == IF bad THEN "finish" ELSE "next"
  <2> DEFINE turn == wrapper.turn + 1
  <2>2. /\ items' = [items EXCEPT ![Turn] = [@ EXCEPT !.state = s, !.code = code]]
        /\ wrapper' = [wrapper EXCEPT !.at = at, !.turn = turn, !.bad = bad]
    BY <2>1
  <2>3. /\ turn = wrapper.turn + 1 /\ at \in {"next", "finish"} /\ bad \in BOOLEAN
        /\ at = "next" => ~bad /\ s = "PASS"
        /\ at = "finish" => bad
        /\ s \in {"PASS", "FAIL"} /\ code \in {"none", "0", "1", "signal"}
        /\ s = "PASS" => ~failed
    OBVIOUS
  <2> HIDE DEF s, at, turn, bad, code
  <2> QED BY <2>2, <2>3
<1>1. /\ wrapper \in Wrappers /\ items \in [WrapIds -> Items] /\ wrapper.turn \in Nat
      /\ Turn \in WrapIds /\ Turn = WrapOrder[wrapper.turn]
  BY SevenTurns DEF WrapTypes, Turn
<1>2. turn \in Nat /\ at \in WrapStages
  BY <1>0, <1>1 DEF WrapStages
<1>3. /\ wrapper' \in Wrappers /\ wrapper'.at = at /\ wrapper'.turn = turn /\ wrapper'.bad = bad
  BY <1>0, <1>1, <1>2 DEF Wrappers
<1>4. PICK p : p = Turn
  OBVIOUS
<1> DEFINE item == [items[p] EXCEPT !.state = state, !.code = code]
<1>5. item \in Items /\ item.calls = items[p].calls /\ item.state = state
  BY ZenonT(60), <1>0, <1>1, <1>4 DEF Items
<1>6. items' = [items EXCEPT ![p] = item]
  BY <1>0, <1>1, <1>4 DEF Items
<1> HIDE DEF item
<1>7. /\ items' \in [WrapIds -> Items] /\ items'[p] = item
      /\ \A q \in WrapIds : q # p => items'[q] = items[q]
  BY <1>1, <1>4, <1>5, <1>6
<1>8. \A q \in WrapIds : items'[q].calls = items[q].calls
  BY <1>5, <1>7
<1>9. PassedSoFar'
  <2>1. ASSUME at = "next", NEW i \in 1 .. 7, i < turn
        PROVE  items'[WrapOrder[i]].calls = 1 /\ items'[WrapOrder[i]].state = "PASS"
    <3>1. CASE i = wrapper.turn
      BY <1>0, <1>1, <1>4, <1>5, <1>7, <2>1, <3>1
    <3>2. CASE i # wrapper.turn
      <4>1. i < wrapper.turn /\ WrapOrder[i] \in WrapIds /\ WrapOrder[i] # p
        BY <1>0, <1>1, <1>4, <2>1, <3>2, SevenTurns
      <4> QED BY SMTT(40), <1>7, <4>1
    <3> QED BY SMTT(40), <3>1, <3>2
  <2>2. turn >= 1
    BY <1>0, <1>1
  <2> QED BY <1>0, <1>3, <2>1, <2>2 DEF PassedSoFar
<1>10. items'[Turn].state = "PASS" => ~failed
  BY <1>0, <1>4, <1>5, <1>7
<1> QED BY <1>0, <1>3, <1>4, <1>7, <1>8, <1>9, <1>10 DEF WrapTypes

LEMMA ChildOverKeeps ==
  ASSUME UnderWay, ChildOver PROVE UnderWay'
<1>1. /\ wrapper.at = "child" /\ wrapper.turn \in 1 .. 7 /\ items[Turn].calls = 1
      /\ \A i \in 1 .. 7 : i < wrapper.turn =>
            items[WrapOrder[i]].calls = 1 /\ items[WrapOrder[i]].state = "PASS"
      /\ WrapTypes /\ PhaseInv /\ outcome' = outcome /\ outcome.collection = "FAIL"
      /\ UNCHANGED <<suites, passedCases, step, phases, built, achieved, attempted, misplaced, compiled>>
      /\ step \in [id : StepIds \cup {"none"}, at : StepStages, bad : BOOLEAN]
  BY DEF UnderWay, PassedSoFar, ChildOver, phaseVars, PhaseInv, PhaseTypes
<1>2. PICK failed \in BOOLEAN :
        EndChild(failed) /\ (Turn \notin Delegated /\ ~failed => bench.at = "passed")
  <2>1. step.bad \in BOOLEAN /\ (bench.at = "failed") \in BOOLEAN
    BY <1>1
  <2> QED BY <2>1 DEF ChildOver, SuiteOver
<1>3. /\ WrapTypes' /\ PassedSoFar' /\ wrapper'.at \in {"next", "finish"}
      /\ \A p \in WrapIds : items'[p].calls = items[p].calls
      /\ \A p \in WrapIds : p # Turn => items'[p] = items[p]
      /\ items'[Turn].state = "PASS" => ~failed
  BY <1>1, <1>2, EndedChild
<1>4. ~AtWork
  <2>1. CASE Turn \in Delegated
    BY <1>1, <2>1 DEF ChildOver, AtWork
  <2>2. CASE Turn \notin Delegated
    BY <2>2 DEF UnderWay, ChildOfTurn
  <2> QED BY <2>1, <2>2
<1>5. ChildOfTurn'
  <2>1. \A p \in attempted \cap Delegated : items'[p].calls = 1
    BY <1>3, DelegatedPhases DEF UnderWay, ChildOfTurn
  <2> QED BY <1>1, <1>4, <2>1 DEF ChildOfTurn, AtWork
<1>6. bench'.at = "none" /\ \A s \in SuiteNames : SuiteInv(s)'
  <2>1. CASE Turn \in Delegated
    <3>1. bench' = bench
      BY <2>1 DEF ChildOver
    <3> QED BY <1>1, <2>1, <3>1 DEF UnderWay, SuiteOfTurn, SuiteInv, SuiteTypes, Fresh, Counted,
                                    Busy, ExactList
  <2>2. CASE Turn \notin Delegated
    <3>1. bench' = BenchFree
      BY <2>2 DEF ChildOver
    <3>2. SuiteTypes /\ \A s \in SuiteNames : Fresh(s) /\ Counted(s)
      BY <1>1, <2>2 DEF UnderWay, SuiteOfTurn, SuiteInv
    <3>3. bench'.at = "none"
      BY <3>1 DEF BenchFree
    <3> QED BY <1>1, <3>1, <3>2, <3>3, BenchFreed
  <2> QED BY SMTT(40), <2>1, <2>2
<1>7. SuiteOfTurn'
  BY SMTT(40), <1>3, <1>6 DEF SuiteOfTurn
<1>8. PhaseInv'
  BY <1>1 DEF PhaseInv, PhaseTypes, WorksInDirectory, AttemptsRecorded, ResultsEarned,
              AtWork, PathClear, StepBefore, Meant
<1>9. RunEarned'
  <2>1. ASSUME NEW t \in WrapIds \ Delegated, items'[t].state = "PASS"
        PROVE  passedCases[t] = 2
    <3>1. CASE t = Turn
      <4>1. bench.at = "passed"
        BY <1>2, <1>3, <2>1, <3>1
      <4> QED BY <1>1, <2>1, <3>1, <4>1 DEF UnderWay, SuiteOfTurn, SuiteInv, Busy
    <3>2. CASE t # Turn
      BY <1>3, <2>1, <3>2 DEF UnderWay, RunEarned
    <3> QED BY <3>1, <3>2
  <2> QED BY <1>1, <2>1 DEF UnderWay, RunEarned
<1> QED BY <1>1, <1>3, <1>5, <1>7, <1>8, <1>9 DEF UnderWay

LEMMA ChildKilledKeeps ==
  ASSUME UnderWay, ChildKilled PROVE UnderWay'
<1>0. PICK p : p = Turn
  OBVIOUS
<1> DEFINE fail == "FAIL"
<1> DEFINE signal == "signal"
<1> DEFINE finish == "finish"
<1> DEFINE yes == TRUE
<1>1. /\ wrapper.at = "child" /\ wrapper.turn \in 1 .. 7 /\ bench' = BenchFree
      /\ wrapper \in Wrappers /\ items \in [WrapIds -> Items] /\ PhaseInv /\ PhaseTypes
      /\ UNCHANGED <<suites, passedCases, phases, built, achieved, attempted, misplaced, compiled,
                     outcome>>
      /\ outcome.collection = "FAIL"
      /\ items' = [items EXCEPT ![p] = [@ EXCEPT !.state = fail, !.code = signal]]
      /\ wrapper' = [wrapper EXCEPT !.at = finish, !.bad = yes]
      /\ step' = step \/ step' = [step EXCEPT !.at = "exited", !.bad = TRUE]
      /\ step' = step => step.at = "none" \/ step' = [step EXCEPT !.at = "exited", !.bad = TRUE]
  BY <1>0 DEF ChildKilled, UnderWay, PassedSoFar, WrapTypes, PhaseInv
<1>2. p \in WrapIds
  BY <1>0, <1>1, SevenTurns DEF Turn
<1>3. /\ fail \in {"NOT_RUN", "STARTED", "PASS", "FAIL"} /\ finish \in WrapStages /\ yes \in BOOLEAN
      /\ signal \in {"none", "0", "1", "signal"}
  BY DEF WrapStages
<1>4. wrapper' \in Wrappers /\ wrapper'.at = "finish" /\ wrapper'.bad
  <2>1. wrapper' \in Wrappers /\ wrapper'.at = finish /\ wrapper'.bad = yes
    <3> HIDE DEF finish, yes
    <3> QED BY <1>1, <1>3 DEF Wrappers
  <2> QED BY <2>1
<1>5. /\ items' \in [WrapIds -> Items] /\ \A q \in WrapIds : items'[q].calls = items[q].calls
      /\ \A q \in WrapIds : q # p => items'[q] = items[q]
      /\ items'[p].state = "FAIL"
  <2>1. /\ items'[p].state = fail /\ items' \in [WrapIds -> Items]
        /\ \A q \in WrapIds : items'[q].calls = items[q].calls
        /\ \A q \in WrapIds : q # p => items'[q] = items[q]
    <3> DEFINE item == [items[p] EXCEPT !.state = fail, !.code = signal]
    <3>1. items \in [WrapIds -> Items] /\ items' = [items EXCEPT ![p] = item] /\ items[p] \in Items
      BY <1>1, <1>2
    <3> HIDE DEF fail, signal
    <3>2. item \in Items /\ item.state = fail /\ item.calls = items[p].calls
      BY ZenonT(60), <1>3, <3>1 DEF Items
    <3> HIDE DEF item
    <3> QED BY SMTT(40), <1>2, <3>1, <3>2
  <2> QED BY <2>1
<1>6. /\ step' \in [id : StepIds \cup {"none"}, at : StepStages, bad : BOOLEAN]
      /\ ~AtWork'
  <2>1. CASE step' = [step EXCEPT !.at = "exited", !.bad = TRUE]
    BY <1>1, <2>1, Exiting DEF AtWork
  <2>2. CASE step' = step /\ step.at = "none"
    BY <1>1, <2>2 DEF AtWork, PhaseTypes
  <2> QED BY <1>1, <2>1, <2>2
<1>7. PhaseInv'
  <2>1. step'.at \notin {"launch", "conclude"}
    BY <1>6 DEF AtWork
  <2>2. /\ built' \in {"none", "approved", "other"} /\ achieved' \subseteq StepIds
        /\ built' = "approved" => "compile" \in achieved'
    BY <1>1 DEF PhaseInv, PhaseTypes, ResultsEarned
  <2> QED BY <1>1, <1>6, <2>1, <2>2, OnlyStepMoves
<1>8. SuiteOfTurn'
  <2>1. SuiteTypes /\ \A s \in SuiteNames : Fresh(s) /\ Counted(s)
    <3>1. "payout" \in SuiteNames
      BY DEF SuiteNames
    <3> QED BY <3>1 DEF UnderWay, SuiteOfTurn, SuiteInv
  <2>2. bench'.at = "none"
    BY <1>1 DEF BenchFree
  <2> QED BY <1>1, <1>4, <2>1, <2>2, BenchFreed DEF SuiteOfTurn
<1>9. ChildOfTurn'
  <2>1. \A q \in attempted \cap Delegated : items'[q].calls = 1
    BY <1>5, DelegatedPhases DEF UnderWay, ChildOfTurn
  <2> QED BY <1>1, <1>6, <2>1 DEF ChildOfTurn
<1>10. PassedSoFar'
  BY <1>4 DEF PassedSoFar
<1>11. RunEarned'
  <2>1. \A t \in WrapIds \ Delegated : items'[t].state = "PASS" => items[t].state = "PASS"
    BY <1>5
  <2> QED BY <1>1, <2>1 DEF UnderWay, RunEarned
<1> QED BY <1>1, <1>4, <1>5, <1>7, <1>8, <1>9, <1>10, <1>11 DEF UnderWay, WrapTypes

LEMMA BuildTouchedKeeps ==
  ASSUME UnderWay, BuildTouched PROVE UnderWay'
<1> DEFINE other == "other"
<1>1. /\ built' = other
      /\ UNCHANGED <<suites, bench, passedCases, step, phases, achieved, attempted, misplaced,
                     wrapper, items, compiled, outcome>>
      /\ PhaseInv
  BY DEF BuildTouched, suiteVars, wrapVars, UnderWay
<1>2. PhaseInv'
  BY <1>1 DEF PhaseInv, PhaseTypes, WorksInDirectory, AttemptsRecorded, ResultsEarned, AtWork,
              PathClear, StepBefore, Meant
<1>3. Turn' = Turn
  BY <1>1 DEF Turn
<1>4. SuiteOfTurn' /\ ChildOfTurn'
  BY <1>1, <1>3 DEF UnderWay, SuiteOfTurn, ChildOfTurn, SuiteInv, SuiteTypes, Fresh, Counted, Busy,
                    ExactList, AtWork
<1>5. WrapTypes' /\ PassedSoFar' /\ RunEarned' /\ outcome'.collection = "FAIL"
  BY <1>1, <1>3 DEF UnderWay, WrapTypes, PassedSoFar, RunEarned
<1> QED BY <1>2, <1>4, <1>5 DEF UnderWay

\* What the final collection says, of a run that is at its end.
LEMMA FinishIsTrue ==
  ASSUME UnderWay, FinishWrapper PROVE WithdrawalVerdict'
<1> SUFFICES ASSUME outcome'.collection = "PASS" PROVE WithdrawalVerdict'
  BY DEF WithdrawalVerdict
<1>1. PICK unwritten \in BOOLEAN, uncollected \in BOOLEAN :
        LET summarised == ~unwritten /\ SummaryValid
            clean == CollectionClean(summarised)
            bad == wrapper.bad \/ ~pinned \/ unwritten
        IN /\ wrapper' = [wrapper EXCEPT !.at = "over", !.bad = bad \/ uncollected \/ ~clean]
           /\ outcome' = IF uncollected THEN outcome ELSE
                         [done |-> TRUE,
                          collection |-> IF clean THEN "PASS" ELSE "FAIL",
                          execution |-> IF bad THEN "FAIL" ELSE "PASS",
                          wrapped |-> [p \in WrapIds |-> WrappedState(p, summarised)],
                          delegated |-> [p \in Delegated |-> DelegatedState(p, summarised)]]
  BY DEF FinishWrapper
<1>0. ~uncollected
  BY <1>1 DEF UnderWay
<1> DEFINE s == ~unwritten /\ SummaryValid
<1> DEFINE states == [p \in Delegated |-> DelegatedState(p, s)]
<1>2. /\ CollectionClean(s)
      /\ outcome'.execution = "PASS" => ~wrapper.bad
      /\ outcome'.delegated = states
  BY <1>0, <1>1
<1>3. /\ UNCHANGED <<attempted, achieved, built, passedCases>>
      /\ wrapper.at = "finish" \/ (wrapper.at = "next" /\ wrapper.turn > 7)
      /\ wrapper \in Wrappers /\ PhaseInv /\ items \in [WrapIds -> Items]
  BY SevenTurns DEF FinishWrapper, Sites, suiteVars, phaseVars, UnderWay, WrapTypes
<1>4. wrapper'.owns = wrapper.owns
  BY <1>1, <1>3 DEF Wrappers
<1>5. CollectionClean(s)
  BY <1>2
<1> HIDE DEF s
<1>6. ASSUME NEW p \in Delegated PROVE phases[p].result \in Results
  BY <1>3, <1>6, DelegatedPhases DEF PhaseInv, PhaseTypes, PhaseFiles
<1>7. ASSUME NEW p \in Delegated, DelegatedState(p, s) = "NOT_RUN" PROVE p \notin attempted
  <2>1. items[p].calls # 1
    BY <1>6, <1>7 DEF DelegatedState, OwnState, Results
  <2> QED BY <1>7, <2>1 DEF UnderWay, ChildOfTurn
<1>8. ASSUME NEW p \in Delegated, DelegatedState(p, s) = "PASS" PROVE p \in achieved
  <2>1. phases[p].result = "PASS" /\ p \in StepIds
    BY <1>8, DelegatedPhases DEF DelegatedState, OwnState
  <2>2. Meant(p, achieved)
    BY <1>3, <2>1 DEF PhaseInv, ResultsEarned
  <2>3. p = "compile" => compiled = "approved"
    BY <1>5, <1>8 DEF CollectionClean, BuildOwned
  <2> QED BY <1>3, <2>2, <2>3 DEF Meant, PhaseInv, ResultsEarned, UnderWay, RunEarned
<1>9. ASSUME outcome'.execution = "PASS"
      PROVE  /\ Delegated \subseteq achieved /\ built = "approved" /\ wrapper.owns
             /\ \A t \in WrapIds \ Delegated : passedCases[t] = 2
  <2>1. ~wrapper.bad /\ wrapper.at = "next" /\ wrapper.turn > 7
    BY <1>2, <1>3, <1>9 DEF UnderWay, PassedSoFar
  <2>2. \A p \in WrapIds : items[p].calls = 1 /\ items[p].state = "PASS"
    <3>1. ASSUME NEW i \in 1 .. 7
          PROVE  items[WrapOrder[i]].calls = 1 /\ items[WrapOrder[i]].state = "PASS"
      <4>1. i < wrapper.turn
        BY <1>3, <2>1 DEF Wrappers
      <4> QED BY <2>1, <4>1 DEF UnderWay, PassedSoFar
    <3> QED BY <3>1, SevenTurns
  <2>3. \A p \in Delegated : DelegatedState(p, s) = "PASS"
    BY <1>5, <2>2, DelegatedPhases DEF CollectionClean, DelegationAgrees
  <2>4. Delegated \subseteq achieved
    BY <1>8, <2>3
  <2>5. built = "approved" /\ wrapper.owns
    <3>1. DelegatedState("hash", s) = "PASS"
      BY <2>3 DEF Delegated
    <3> QED BY <1>5, <3>1 DEF CollectionClean, BuildOwned, BuildWanted
  <2>6. \A t \in WrapIds \ Delegated : passedCases[t] = 2
    BY <2>2 DEF UnderWay, RunEarned
  <2> QED BY <2>4, <2>5, <2>6
<1>10. ASSUME NEW p \in Delegated
       PROVE  /\ outcome'.delegated[p] = "NOT_RUN" => p \notin attempted
              /\ outcome'.delegated[p] = "PASS" => p \in achieved
  BY <1>2, <1>7, <1>8
<1> QED BY <1>3, <1>4, <1>9, <1>10 DEF WithdrawalVerdict

(***************************************************************************)
(* run-linux-withdrawal-once.cjs: a clean collection of the withdrawal run *)
(* is right about its delegated phases, and if the execution passed too,   *)
(* every suite's cases really passed on the build this run made, whatever  *)
(* was lost, left over, killed or not recorded.                            *)
(***************************************************************************)
THEOREM WithdrawalVerdictIsRight == WithdrawalSpec => []WithdrawalVerdict
<1>1. WrapInv /\ [WithdrawalNext]_withdrawalVars => WrapInv'
  <2> SUFFICES ASSUME WrapInv, [WithdrawalNext]_withdrawalVars PROVE WrapInv'
    OBVIOUS
  <2>1. UnderWay' => WithdrawalVerdict'
    BY DEF UnderWay, WithdrawalVerdict
  <2>2. CASE StartWrapper
    BY <2>1, <2>2, StartWrapperKeeps DEF WrapInv, StartWrapper
  <2>3. CASE CallPhase
    BY <2>1, <2>3, CallPhaseKeeps DEF WrapInv, CallPhase
  <2>4. CASE BeginChild
    BY <2>1, <2>4, BeginChildKeeps DEF WrapInv, BeginChild
  <2>5. CASE DelegatedStep
    BY <2>1, <2>5, DelegatedStepKeeps DEF WrapInv, DelegatedStep
  <2>6. CASE SuiteChildStep
    BY <2>1, <2>6, SuiteChildKeeps DEF WrapInv, SuiteChildStep
  <2>7. CASE ChildOver
    BY <2>1, <2>7, ChildOverKeeps DEF WrapInv, ChildOver
  <2>8. CASE ChildKilled
    BY <2>1, <2>8, ChildKilledKeeps DEF WrapInv, ChildKilled
  <2>12. CASE BuildTouched
    BY <2>1, <2>12, BuildTouchedKeeps DEF WrapInv, BuildTouched
  <2>9. CASE FinishWrapper
    <3>1. UnderWay /\ wrapper'.at = "over"
      <4>1. UnderWay
        BY <2>9 DEF WrapInv, FinishWrapper
      <4>2. wrapper \in Wrappers
        BY <4>1 DEF UnderWay, WrapTypes
      <4> QED BY <2>9, <4>1, <4>2 DEF FinishWrapper, Wrappers
    <3> QED BY <2>9, <3>1, FinishIsTrue DEF WrapInv
  <2>10. CASE WrapperDies
    <3>1. UnderWay /\ wrapper \in Wrappers
      BY <2>10 DEF WrapInv, WrapperDies, UnderWay, WrapTypes
    <3>2. wrapper'.at = "over" /\ outcome' = outcome
      BY <2>10, <3>1 DEF WrapperDies, Wrappers
    <3> QED BY <3>1, <3>2 DEF WrapInv, UnderWay, WithdrawalVerdict
  <2>11. CASE WithdrawalRest \/ UNCHANGED withdrawalVars
    <3>1. UNCHANGED <<suites, bench, passedCases, step, phases, built, achieved, attempted,
                      misplaced, wrapper, items, compiled, outcome>>
      BY <2>11 DEF WithdrawalRest, withdrawalVars, payoutVars, suiteVars, phaseVars, wrapVars
    <3>2. WithdrawalVerdict'
      BY <3>1 DEF WrapInv, WithdrawalVerdict
    <3>3. ASSUME UnderWay PROVE UnderWay'
      <4>1. PhaseInv' /\ (\A s \in SuiteNames : SuiteInv(s) => SuiteInv(s)') /\ (AtWork' <=> AtWork)
        BY <3>1, <3>3, RecordsAside DEF UnderWay
      <4>2. Turn' = Turn
        BY <3>1 DEF Turn
      <4>3. SuiteOfTurn'
        BY <3>1, <3>3, <4>2 DEF UnderWay, SuiteOfTurn, SuiteInv, SuiteTypes, Fresh, Counted, Busy,
                                ExactList
      <4> QED BY <3>1, <3>3, <4>1, <4>2, <4>3 DEF UnderWay, PassedSoFar, WrapTypes, ChildOfTurn,
                                                   RunEarned
    <3> QED BY <3>1, <3>2, <3>3 DEF WrapInv
  <2> QED BY <2>2, <2>3, <2>4, <2>5, <2>6, <2>7, <2>8, <2>9, <2>10, <2>11, <2>12 DEF WithdrawalNext
<1>2. WrapInv => WithdrawalVerdict
  BY DEF WrapInv
<1> QED BY <1>1, <1>2, WithdrawalBegins, PTL DEF WithdrawalSpec
=============================================================================
