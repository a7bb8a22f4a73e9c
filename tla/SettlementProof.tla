--------------------------- MODULE SettlementProof ---------------------------
(***************************************************************************)
(* From a mined swap to verified settlement evidence (router-sdk.js): the  *)
(* execution service decodes a transaction and builds a settlement, plain  *)
(* or enclosed in evidence bound to an intent; a verifier re-reads the     *)
(* chain in three calls of one RPC node, the receipt, the block and the    *)
(* height, while blocks come and go, and compares the logs.                *)
(* A block counted Confirmations deep is never reorganised away.           *)
(***************************************************************************)
EXTENDS Integers, Sequences, FiniteSets, SequencesExt

CONSTANTS
    Transactions,      \* transactions of the account
    IntendedTx,        \* the one the intent describes: nonce, target, calldata
    Payments,          \* the logs a swap can leave: [transfers, events]
    Amounts,           \* outputs the service may decode
    CommittedMinimum,  \* plan.minimumOut of the proof
    QuoteBlock,        \* proof.quoteBlock
    LastBlock,         \* the last block before proof.expiresAt
    Confirmations,     \* requiredConfirmations
    MaxBlocks, MaxReorgs, MaxEvidence   \* bounds of the model

ASSUME SettlementProofAssumption ==
    /\ IntendedTx \in Transactions
    /\ Payments \subseteq [transfers : Seq(Nat), events : Seq([sold : BOOLEAN, out : Nat])]
    /\ {CommittedMinimum, QuoteBlock, LastBlock, MaxBlocks, MaxReorgs, MaxEvidence} \subseteq Nat
    /\ Amounts \subseteq Nat /\ Confirmations \in Nat \ {0}

VARIABLES
    blocks,     \* the canonical chain: [id, swaps]
    blockIds,   \* blocks ever made
    highest,    \* the greatest height the chain had
    reorgs,     \* reorganisations so far
    evidence,   \* the settlement evidence, or NoEvidence
    collected,  \* how often evidence was collected
    check,      \* the verification: where it is, which one, and the receipt it read
    raced       \* the chain was reorganised between the block and the height

proofVars == <<blocks, blockIds, highest, reorgs, evidence, collected, check, raced>>

NoEvidence == [sealed |-> FALSE]
NoTrade == [t \in {} |-> 0]
NoReceipt == [ok |-> FALSE, transfers |-> <<>>, events |-> <<>>]
Stage(pc, how) == [pc |-> pc, how |-> how, receipt |-> NoReceipt]
NotChecked == Stage("idle", "none")
Unsettled == Stage("refused", "none")
Resting == check.pc \in {"idle", "valid", "refused"}

HeightsOf(t) == {h \in DOMAIN blocks : t \in DOMAIN blocks[h].swaps}
-----------------------------------------------------------------------------
(* The chain.                                                              *)

ProofInit ==
    /\ blocks = <<>> /\ blockIds = 0 /\ highest = 0 /\ reorgs = 0
    /\ evidence = NoEvidence /\ collected = 0 /\ check = NotChecked /\ raced = FALSE

\* A block comes, empty or with one of the transactions, which may revert.
NewBlock(swaps) ==
    /\ Len(blocks) < MaxBlocks
    /\ \A t \in DOMAIN swaps : HeightsOf(t) = {}
    /\ blockIds' = blockIds + 1
    /\ blocks' = Append(blocks, [id |-> blockIds', swaps |-> swaps])
    /\ highest' = IF Len(blocks') > highest THEN Len(blocks') ELSE highest
    /\ UNCHANGED <<reorgs, evidence, collected, check, raced>>

\* The last blocks leave the chain; their transactions may be mined again.
Reorganise(height) ==
    /\ reorgs < MaxReorgs /\ reorgs' = reorgs + 1
    /\ height >= highest - (Confirmations - 1)
    /\ blocks' = SubSeq(blocks, 1, height)
    /\ raced' = (raced \/ check.pc = "height")
    /\ UNCHANGED <<blockIds, highest, evidence, collected, check>>
-----------------------------------------------------------------------------
(* The evidence.                                                           *)

\* The execution has the sender, target, calldata, value and nonce of the
\* intent: they are those of one transaction.
MatchesIntent(t) == t = IntendedTx

\* buildSettlementReceipt for a successful swap of block h that the service
\* decoded as paying the amount, within the proof's blocks.
SettlementFits(h, t, amount) ==
    /\ blocks[h].swaps[t].ok
    /\ h \in QuoteBlock..LastBlock
    /\ amount > 0 /\ amount >= CommittedMinimum

\* buildSettlementReceipt, or buildIntentBoundSettlementReceipt around it.
Collect(bound, h, t, amount) ==
    /\ Resting /\ collected < MaxEvidence /\ collected' = collected + 1
    /\ h \in HeightsOf(t)
    /\ bound => MatchesIntent(t)
    /\ SettlementFits(h, t, amount)
    /\ evidence' = [tx |-> t, height |-> h, id |-> blocks[h].id, amount |-> amount,
                    sealed |-> TRUE, enclosed |-> bound]
    /\ check' = NotChecked
    /\ UNCHANGED <<blocks, blockIds, highest, reorgs, raced>>

\* A stored field changes: of the settlement, whose hash no longer fits, and
\* with it that of the evidence around it ...
DamageSettlement(amount) ==
    /\ Resting /\ evidence.sealed
    /\ evidence' = [evidence EXCEPT !.amount = amount, !.sealed = FALSE, !.enclosed = FALSE]
    /\ check' = NotChecked
    /\ UNCHANGED <<blocks, blockIds, highest, reorgs, collected, raced>>

\* ... or of the evidence around it alone.
DamageEnclosure ==
    /\ Resting /\ evidence.sealed /\ evidence.enclosed
    /\ evidence' = [evidence EXCEPT !.enclosed = FALSE]
    /\ check' = NotChecked
    /\ UNCHANGED <<blocks, blockIds, highest, reorgs, collected, raced>>

\* verifySettlementReceipt: the hash over all fields fits.
SettlementIntact == evidence.sealed

\* verifyIntentBoundSettlementReceipt: so does the one over the enclosure.
BoundToIntent == SettlementIntact /\ evidence.enclosed
-----------------------------------------------------------------------------
(* verifyCanonicalSettlement and verifyCanonicalNativeSettlement.          *)

\* getTransactionReceipt: successful, and in the block of the evidence.  The
\* verifier chooses which of the two verifications the settlement calls for.
ReadReceipt(how) ==
    /\ Resting /\ evidence # NoEvidence
    /\ check' = IF SettlementIntact
                   /\ evidence.height \in HeightsOf(evidence.tx)
                   /\ blocks[evidence.height].id = evidence.id
                   /\ blocks[evidence.height].swaps[evidence.tx].ok
                THEN [pc |-> "block", how |-> how,
                      receipt |-> blocks[evidence.height].swaps[evidence.tx]]
                ELSE Unsettled
    /\ UNCHANGED <<blocks, blockIds, highest, reorgs, evidence, collected, raced>>

\* Mutant: the receipt's own block hash is trusted.
BlockNotReread == TRUE

\* getBlock(receipt.blockNumber) still has the hash of the evidence.
BlockStands == evidence.height <= Len(blocks) /\ blocks[evidence.height].id = evidence.id

ReadBlock ==
    /\ check.pc = "block"
    /\ check' = IF BlockStands THEN [check EXCEPT !.pc = "height"] ELSE Unsettled
    /\ raced' = FALSE
    /\ UNCHANGED <<blocks, blockIds, highest, reorgs, evidence, collected>>

\* The transfers of the output token to the recipient add up to the amount.
Total(transfers) == FoldLeft(LAMBDA sum, paid : sum + paid, 0, transfers)
TransfersReconcile(transfers, amount) == transfers # <<>> /\ Total(transfers) = amount

\* Exactly one event of the native router for this recipient and token: the
\* token, in the quoted amount, was sold for the native coin, with this output.
NativeEventReconciles(events, amount) ==
    Len(events) = 1 /\ events[1].sold /\ events[1].out = amount

Reconciles(how, receipt, amount) ==
    \/ how = "token" /\ TransfersReconcile(receipt.transfers, amount)
    \/ how = "native" /\ NativeEventReconciles(receipt.events, amount)

\* getBlockNumber, and then the logs of the receipt read first.
ReadHeight ==
    /\ check.pc = "height"
    /\ check' = IF /\ Len(blocks) - evidence.height + 1 >= Confirmations
                   /\ Reconciles(check.how, check.receipt, evidence.amount)
                THEN Stage("valid", check.how) ELSE Unsettled
    /\ UNCHANGED <<blocks, blockIds, highest, reorgs, evidence, collected, raced>>

ProofNext ==
    \/ NewBlock(NoTrade)
    \/ \E t \in Transactions, ok \in BOOLEAN, p \in Payments :
           NewBlock([x \in {t} |-> [ok |-> ok, transfers |-> p.transfers, events |-> p.events]])
    \/ \E height \in 0..(Len(blocks) - 1) : Reorganise(height)
    \/ \E bound \in BOOLEAN, h \in DOMAIN blocks, t \in Transactions, amount \in Amounts :
           Collect(bound, h, t, amount)
    \/ \E amount \in Amounts : DamageSettlement(amount)
    \/ DamageEnclosure
    \/ \E how \in {"token", "native"} : ReadReceipt(how)
    \/ ReadBlock \/ ReadHeight

ProofSpec == ProofInit /\ [][ProofNext]_proofVars
-----------------------------------------------------------------------------
\* What a transaction paid, by the logs that count, covers the minimum.
Pays(how, receipt) ==
    \/ how = "token" /\ receipt.transfers # <<>> /\ Total(receipt.transfers) >= CommittedMinimum
    \/ how = "native" /\ Len(receipt.events) = 1 /\ receipt.events[1].out >= CommittedMinimum

\* "Canonical settlement verification rechecks RPC receipts, block finality,
\* reorg safety, and ERC-20 output transfer totals" (dex/README.md:56): once a
\* settlement is verified, its swap stays on the chain and has paid at least the
\* committed minimum, however the chain was reorganised before, between the
\* first two reads, and after; and when the evidence around it is intact, the
\* swap is the one the intent describes.  Between the last two reads the code
\* has no defence, and raced says that it happened there.
SettlementStands ==
    check.pc = "valid" /\ ~raced =>
        /\ HeightsOf(evidence.tx) # {}
        /\ \A h \in HeightsOf(evidence.tx) :
               LET made == blocks[h].swaps[evidence.tx] IN
               made.ok /\ Pays(check.how, made)
        /\ BoundToIntent => evidence.tx = IntendedTx
=============================================================================
