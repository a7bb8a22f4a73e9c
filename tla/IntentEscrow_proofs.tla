------------------------- MODULE IntentEscrow_proofs -------------------------
(***************************************************************************)
(* Proofs about IntentEscrow, for any sets of intents, users, tokens and   *)
(* bindings: types, custody and the match of records and statuses are      *)
(* invariant, and the module implements IntentPromise.                     *)
(***************************************************************************)
EXTENDS IntentEscrow, AccountSums_proofs, TLAPS

\* The types of Snapshot's fields, one by one.
StateTypeOK ==
  /\ intents \in [Intents -> IntentType]
  /\ nonceIntent \in [Users -> [Nonces -> Intents \cup {None}]]
  /\ escrows \in [Intents -> EscrowType]
  /\ wallet \in [Tokens -> [Users -> Nat]]
  /\ vault \in [Tokens -> Nat]
  /\ atBinding \in [Bindings -> [Tokens -> Nat]]
  /\ atSolver \in [Bindings -> [Tokens -> Nat]]
  /\ sold \in [Tokens -> Nat]
  /\ receipts \in [Intents -> ReceiptType]
  /\ recorder \in Recorders \cup {None}
  /\ hub \in HubType

LEMMA FieldTypes == Snapshot \in StateType <=> StateTypeOK
BY DEF Snapshot, StateType, StateTypeOK

\* While a routed execution is under way: nothing users see has changed
\* since it began, the intent is live, its record is what the route claims,
\* and before it began the vault covered every record.
CallOK ==
  InCall =>
    /\ call.saved.intents = intents
    /\ call.saved.escrows = escrows
    /\ call.saved.wallet = wallet
    /\ Live(call.intent)
    /\ escrows[call.intent] = [token |-> call.route.tokenIn, amount |-> call.route.amountIn]
    /\ \A t \in Tokens : TotalOf(Owed(t)) <= call.saved.vault[t]

\* The inductive invariant.
IntentInv == TypeOK /\ RecordsMatchStatus /\ CallOK /\ Custody

-----------------------------------------------------------------------------
(* Facts about a state that satisfies the invariant.                       *)

LEMMA PendingFacts ==
  ASSUME TypeOK, RecordsMatchStatus, NEW i \in Intents, Pending(i)
  PROVE  /\ escrows[i].token \in Tokens
         /\ escrows[i].amount \in Amounts
         /\ escrows[i].amount \in Nat
         /\ intents[i].sender \in Users
         /\ intents[i].deadline \in Nat
<1>1. escrows[i] \in EscrowType /\ intents[i] \in IntentType
  BY FieldTypes DEF TypeOK, StateTypeOK
<1>2. escrows[i] # NoEscrow
  BY DEF RecordsMatchStatus
<1>3. escrows[i].token \in Tokens /\ escrows[i].amount \in Amounts
  BY <1>1, <1>2 DEF EscrowType
<1>4. intents[i] # NoIntent
  BY DEF Pending, NoIntent
<1>5. intents[i].sender \in Users /\ intents[i].deadline \in Deadlines
  BY <1>1, <1>4 DEF IntentType
<1>6. QED
  BY <1>3, <1>5, IntentAssumption

LEMMA NoneIsNoToken == None \notin Tokens /\ None \notin Bindings /\ None \notin Users
BY IntentAssumption

\* A call is a record, so it differs from None as soon as None is none.
LEMMA CallRecord ==
  ASSUME TypeOK, InCall
  PROVE  call \in CallType
BY DEF TypeOK, InCall

LEMMA OwedType ==
  ASSUME escrows \in [Intents -> EscrowType], NEW t
  PROVE  Owed(t) \in [Intents -> Nat]
<1>1. \A e \in EscrowType : e.amount \in Nat
  <2>1. NoEscrow.amount \in Nat
    BY DEF NoEscrow
  <2>2. \A e \in [token : Tokens, amount : Amounts] : e.amount \in Nat
    BY IntentAssumption
  <2>3. QED
    BY <2>1, <2>2 DEF EscrowType
<1>2. \A i \in Intents : escrows[i].amount \in Nat
  BY <1>1
<1>3. QED
  BY <1>2 DEF Owed

\* What record e owes of token t, the writing of a record, and how it moves the
\* sum of what is owed of t.
Due(e, t) == IF e.token = t THEN e.amount ELSE 0
Writes(i, e) == escrows' = [escrows EXCEPT ![i] = e]
OwedMoves(t, was, is) ==
  /\ TotalOf(Owed(t)) \in Nat
  /\ was \in Nat /\ is \in Nat
  /\ was <= TotalOf(Owed(t))
  /\ TotalOf(Owed(t)') = TotalOf(Owed(t)) - was + is

\* The sum after the record of intent i is written or dropped.
LEMMA OwedUpdate ==
  ASSUME escrows \in [Intents -> EscrowType], NEW i \in Intents, NEW e \in EscrowType,
         Writes(i, e), NEW t
  PROVE  OwedMoves(t, Due(escrows[i], t), Due(e, t))
<1> DEFINE was == Due(escrows[i], t)
<1> DEFINE is == Due(e, t)
<1>1. escrows' \in [Intents -> EscrowType]
  BY DEF Writes
<1>2. Owed(t) \in [Intents -> Nat]
  BY OwedType
<1>3. Owed(t)' \in [Intents -> Nat]
  <2>1. \A x \in EscrowType : x.amount \in Nat
    <3>1. NoEscrow.amount \in Nat
      BY DEF NoEscrow
    <3>2. \A x \in [token : Tokens, amount : Amounts] : x.amount \in Nat
      BY IntentAssumption
    <3>3. QED
      BY <3>1, <3>2 DEF EscrowType
  <2>2. \A j \in Intents : escrows'[j].amount \in Nat
    BY <1>1, <2>1
  <2>3. QED
    BY <2>2 DEF Owed
<1>4. Owed(t)[i] = was /\ Owed(t)'[i] = is
  BY DEF Owed, Due, Writes
<1>5. Owed(t)' = [Owed(t) EXCEPT ![i] = is]
  BY DEF Owed, Due, Writes
<1>6. was \in Nat /\ is \in Nat
  BY <1>2, <1>3, <1>4
<1>7. IsFiniteSet(Intents)
  BY IntentAssumption
<1>8. TotalOf(Owed(t)) \in Nat
  BY <1>2, <1>7, TotalIsNat
<1>9. Owed(t)[i] <= TotalOf(Owed(t))
  BY <1>2, <1>7, TotalAtLeastMember
<1> HIDE DEF was, is
<1>10. TotalOf([Owed(t) EXCEPT ![i] = is]) = TotalOf(Owed(t)) - Owed(t)[i] + is
  BY <1>2, <1>6, <1>7, TotalOfUpdate
<1>11. QED
  <2>1. OwedMoves(t, was, is)
    BY <1>4, <1>5, <1>6, <1>8, <1>9, <1>10 DEF OwedMoves
  <2>2. QED
    BY <2>1 DEF was, is

\* While nothing is recorded the sum stays.
LEMMA OwedSame ==
  ASSUME UNCHANGED escrows, NEW t
  PROVE  Owed(t)' = Owed(t)
BY DEF Owed

-----------------------------------------------------------------------------
(* Types.                                                                  *)

\* The escrow pays the deposit of a pending intent.
LEMMA PaymentTypes ==
  ASSUME StateTypeOK, TypeOK, RecordsMatchStatus, NEW i \in Intents, Pending(i),
         NEW status \in Statuses \ {"None"}, SetStatus(i, status), DropEscrow(i), Disburse(i)
  PROVE  /\ intents' \in [Intents -> IntentType]
         /\ escrows' \in [Intents -> EscrowType]
         /\ vault' \in [Tokens -> Nat]
         /\ \A u \in Users : PayUser(i, u) => wallet' \in [Tokens -> [Users -> Nat]]
<1> DEFINE t == escrows[i].token
<1> DEFINE a == escrows[i].amount
<1>1. t \in Tokens /\ a \in Nat
  BY PendingFacts
<1>2. intents[i] \in IntentType /\ intents[i] # NoIntent
  BY DEF StateTypeOK, Pending, NoIntent
<1>3. [intents[i] EXCEPT !.status = status] \in IntentType
  BY <1>2 DEF IntentType
<1>4. intents' \in [Intents -> IntentType]
  BY <1>3 DEF SetStatus, StateTypeOK
<1>5. escrows' \in [Intents -> EscrowType]
  BY DEF DropEscrow, StateTypeOK, EscrowType
<1>6. a <= vault[t] /\ vault' = [vault EXCEPT ![t] = vault[t] - a]
  BY DEF Disburse
<1>7. ASSUME NEW u \in Users, PayUser(i, u)
      PROVE  wallet' = [wallet EXCEPT ![t][u] = wallet[t][u] + a]
  BY <1>7 DEF PayUser
<1> HIDE DEF t, a
<1>8. vault' \in [Tokens -> Nat]
  <2>1. vault \in [Tokens -> Nat] /\ vault[t] \in Nat
    BY <1>1 DEF StateTypeOK
  <2>2. vault[t] - a \in Nat
    BY <1>1, <1>6, <2>1
  <2>3. QED
    BY <1>6, <2>1, <2>2
<1>9. ASSUME NEW u \in Users, PayUser(i, u)
      PROVE  wallet' \in [Tokens -> [Users -> Nat]]
  <2>1. wallet \in [Tokens -> [Users -> Nat]] /\ wallet[t][u] \in Nat
    BY <1>1 DEF StateTypeOK
  <2>2. wallet[t][u] + a \in Nat
    BY <1>1, <2>1
  <2>3. QED
    BY <1>7, <1>9, <2>1, <2>2
<1>10. QED
  BY <1>4, <1>5, <1>8, <1>9

\* What a lock writes.
LEMMA LockTypes ==
  ASSUME StateTypeOK, NEW i \in Intents, NEW u \in Users, NEW n \in Nonces,
         NEW t \in Tokens, NEW a \in Amounts, NEW d \in Deadlines, Lock(i, u, n, t, a, d)
  PROVE  StateTypeOK'
<1>1. a \in Nat
  BY IntentAssumption
<1>2. [sender |-> u, nonce |-> n, deadline |-> d, status |-> "Pending"] \in IntentType
  BY DEF IntentType, Statuses
<1>3. intents' \in [Intents -> IntentType]
  BY <1>2 DEF Lock, StateTypeOK
<1>4. nonceIntent' \in [Users -> [Nonces -> Intents \cup {None}]]
  BY DEF Lock, StateTypeOK
<1>5. escrows' \in [Intents -> EscrowType]
  BY DEF Lock, StateTypeOK, EscrowType
<1>6. wallet' \in [Tokens -> [Users -> Nat]]
  <2>1. wallet \in [Tokens -> [Users -> Nat]] /\ wallet[t][u] \in Nat
    BY DEF StateTypeOK
  <2>2. a <= wallet[t][u] /\ wallet' = [wallet EXCEPT ![t][u] = wallet[t][u] - a]
    BY DEF Lock
  <2>3. wallet[t][u] - a \in Nat
    BY <1>1, <2>1, <2>2
  <2>4. QED
    BY <2>1, <2>2, <2>3
<1>7. vault' \in [Tokens -> Nat]
  BY <1>1 DEF Lock, StateTypeOK
<1>8. UNCHANGED <<atBinding, atSolver, sold, receipts, recorder, hub>>
  BY DEF Lock, reports
<1>9. QED
  BY <1>3, <1>4, <1>5, <1>6, <1>7, <1>8 DEF StateTypeOK

LEMMA UserTypes ==
  ASSUME StateTypeOK, TypeOK, RecordsMatchStatus, UserStep
  PROVE  StateTypeOK'
<1>1. ASSUME NEW i \in Intents, NEW u \in Users, CancelAndRefund(i, u)
      PROVE  StateTypeOK'
  <2>1. UNCHANGED <<nonceIntent, atBinding, atSolver, sold, receipts, recorder, hub>>
    BY <1>1 DEF CancelAndRefund, reports
  <2>2. Pending(i) /\ SetStatus(i, "Cancelled") /\ DropEscrow(i) /\ Disburse(i) /\ PayUser(i, u)
    BY <1>1 DEF CancelAndRefund, Live
  <2>3. "Cancelled" \in Statuses \ {"None"}
    BY DEF Statuses
  <2>4. QED
    BY <2>1, <2>2, <2>3, PaymentTypes DEF StateTypeOK
<1>2. ASSUME NEW i \in Intents, ExpireAndRefund(i)
      PROVE  StateTypeOK'
  <2>1. UNCHANGED <<nonceIntent, atBinding, atSolver, sold, receipts, recorder, hub>>
    BY <1>2 DEF ExpireAndRefund, reports
  <2>2. /\ Pending(i) /\ SetStatus(i, "Expired") /\ DropEscrow(i) /\ Disburse(i)
        /\ PayUser(i, intents[i].sender)
    BY <1>2 DEF ExpireAndRefund
  <2>3. "Expired" \in Statuses \ {"None"} /\ intents[i].sender \in Users
    BY <2>2, PendingFacts DEF Statuses
  <2>4. QED
    BY <2>1, <2>2, <2>3, PaymentTypes DEF StateTypeOK
<1>3. QED
  BY <1>1, <1>2, LockTypes DEF UserStep

LEMMA ExecuteTypes ==
  ASSUME StateTypeOK, TypeOK, RecordsMatchStatus, NEW i \in Intents, ExecuteIntent(i)
  PROVE  StateTypeOK'
<1>1. UNCHANGED <<nonceIntent, atBinding, atSolver, sold, receipts, recorder, hub>>
  BY DEF ExecuteIntent, reports
<1>2. Pending(i) /\ SetStatus(i, "Executed") /\ DropEscrow(i) /\ Disburse(i)
  BY DEF ExecuteIntent, Live
<1>3. UNCHANGED wallet \/ \E u \in Users : PayUser(i, u)
  BY DEF ExecuteIntent
<1>4. "Executed" \in Statuses \ {"None"}
  BY DEF Statuses
<1>5. wallet' \in [Tokens -> [Users -> Nat]]
  BY <1>2, <1>3, <1>4, PaymentTypes DEF StateTypeOK
<1>6. QED
  BY <1>1, <1>2, <1>4, <1>5, PaymentTypes DEF StateTypeOK

LEMMA StartTypes ==
  ASSUME StateTypeOK, TypeOK, RecordsMatchStatus, NEW i \in Intents, NEW u \in Users,
         NEW n \in Nonces, NEW r \in Routes, StartRoute(i, u, n, r)
  PROVE  StateTypeOK' /\ call' \in CallType
<1>1. UNCHANGED <<intents, nonceIntent, escrows, wallet, atBinding, atSolver, receipts, recorder, hub>>
  BY DEF StartRoute, reports, lifecycle
<1>2. Pending(i) /\ Disburse(i)
  BY DEF StartRoute, Live
<1> DEFINE t == escrows[i].token
<1> DEFINE a == escrows[i].amount
<1>3. t \in Tokens /\ a \in Nat
  BY <1>2, PendingFacts
<1>4. a <= vault[t] /\ vault' = [vault EXCEPT ![t] = vault[t] - a]
  BY <1>2 DEF Disburse
<1> HIDE DEF t, a
<1>5. vault' \in [Tokens -> Nat]
  <2>1. vault \in [Tokens -> Nat] /\ vault[t] \in Nat
    BY <1>3 DEF StateTypeOK
  <2>2. vault[t] - a \in Nat
    BY <1>3, <1>4, <2>1
  <2>3. QED
    BY <1>4, <2>1, <2>2
<1>6. sold' \in [Tokens -> Nat]
  <2>1. r.tokenIn \in Tokens /\ r.amountIn \in Nat
    BY IntentAssumption DEF Routes
  <2>2. sold' = [sold EXCEPT ![r.tokenIn] = sold[r.tokenIn] + r.amountIn]
    BY DEF StartRoute
  <2>3. sold \in [Tokens -> Nat] /\ sold[r.tokenIn] \in Nat
    BY <2>1 DEF StateTypeOK
  <2>4. QED
    BY <2>1, <2>2, <2>3
<1>7. call' = [intent |-> i, binding |-> hub.binding, route |-> r, saved |-> Snapshot]
  BY DEF StartRoute
<1>8. hub.binding \in Bindings
  BY DEF StartRoute, StateTypeOK, HubType
<1>9. Snapshot \in StateType
  BY FieldTypes
<1>10. call' \in CallType
  BY <1>7, <1>8, <1>9 DEF CallType
<1>11. QED
  BY <1>1, <1>5, <1>6, <1>10 DEF StateTypeOK

LEMMA RecordTypes ==
  ASSUME StateTypeOK, TypeOK, NEW i \in Intents, NEW r \in Routes, NEW caller,
         Record(i, r, caller)
  PROVE  receipts' \in [Intents -> ReceiptType]
<1>1. [route |-> r, recordedAt |-> now] \in ReceiptType
  BY IntentAssumption DEF ReceiptType, TypeOK
<1>2. QED
  BY <1>1 DEF Record, StateTypeOK

LEMMA FinishTypes ==
  ASSUME StateTypeOK, TypeOK, RecordsMatchStatus, FinishRoute
  PROVE  StateTypeOK'
<1>1. call \in CallType
  BY CallRecord DEF FinishRoute
<1>2. call.intent \in Intents /\ call.route \in Routes
  BY <1>1 DEF CallType
<1>3. receipts' \in [Intents -> ReceiptType]
  BY <1>2, RecordTypes DEF FinishRoute
<1>4. escrows' \in [Intents -> EscrowType]
  BY DEF FinishRoute, DropEscrow, StateTypeOK, EscrowType
<1>5. intents' \in [Intents -> IntentType]
  <2>1. intents[call.intent] \in IntentType /\ intents[call.intent] # NoIntent
    BY <1>2 DEF StateTypeOK, FinishRoute, Live, Pending, NoIntent
  <2>2. [intents[call.intent] EXCEPT !.status = "Executed"] \in IntentType
    BY <2>1 DEF IntentType, Statuses
  <2>3. QED
    BY <1>2, <2>2 DEF FinishRoute, SetStatus, StateTypeOK
<1>6. UNCHANGED <<nonceIntent, wallet, vault, atBinding, atSolver, sold, recorder, hub>>
  BY DEF FinishRoute, funds
<1>7. QED
  BY <1>3, <1>4, <1>5, <1>6 DEF StateTypeOK

LEMMA RevertTypes ==
  ASSUME TypeOK, Revert
  PROVE  StateTypeOK'
<1>1. call \in CallType
  BY CallRecord DEF Revert
<1>2. call.saved \in StateType
  BY <1>1 DEF CallType
<1>3. QED
  BY <1>2 DEF Revert, StateType, StateTypeOK

LEMMA OtherTypes ==
  ASSUME StateTypeOK, TypeOK, OwnerStep \/ StrangerStep
  PROVE  StateTypeOK'
<1>1. ASSUME NEW o \in Operators, SetSolver(o) PROVE StateTypeOK'
  BY <1>1 DEF SetSolver, StateTypeOK, HubType, lifecycle, funds, reports
<1>2. ASSUME NEW b \in Bindings, SetExecutionBinding(b) PROVE StateTypeOK'
  BY <1>2 DEF SetExecutionBinding, StateTypeOK, HubType, lifecycle, funds, reports
<1>3. ASSUME NEW value \in BOOLEAN, SetPaused(value) PROVE StateTypeOK'
  BY <1>3 DEF SetPaused, StateTypeOK, HubType, lifecycle, funds, reports
<1>4. ASSUME NEW next \in Recorders, SetRecorder(next) PROVE StateTypeOK'
  BY <1>4 DEF SetRecorder, StateTypeOK, lifecycle, funds
<1>5. ASSUME NEW i \in Intents, NEW r \in Routes, NEW reporter \in Reporters,
             Report(i, r, reporter)
      PROVE  StateTypeOK'
  <2>1. receipts' \in [Intents -> ReceiptType]
    BY <1>5, RecordTypes DEF Report
  <2>2. QED
    BY <1>5, <2>1 DEF Report, StateTypeOK, lifecycle, funds
<1>6. ASSUME NEW t \in Tokens, StrayToEscrow(t) PROVE StateTypeOK'
  BY <1>6 DEF StrayToEscrow, StateTypeOK, lifecycle, reports
<1>7. ASSUME NEW b \in Bindings, NEW t \in Tokens, StrayToBinding(b, t) PROVE StateTypeOK'
  BY <1>7 DEF StrayToBinding, StateTypeOK, lifecycle, reports
<1>8. ASSUME NEW b \in Bindings, NEW t \in Tokens, StrayToSolver(b, t) PROVE StateTypeOK'
  BY <1>8 DEF StrayToSolver, StateTypeOK, lifecycle, reports
<1>9. QED
  BY <1>1, <1>2, <1>3, <1>4, <1>5, <1>6, <1>7, <1>8 DEF OwnerStep, StrangerStep

\* A step other than Tick and the start of a call leaves clock alone and
\* ends or keeps the call.
LEMMA CallAndClock ==
  ASSUME UserStep \/ OperatorStep \/ EndCall \/ OwnerStep \/ StrangerStep
  PROVE  /\ now' = now
         /\ \/ call' = call \/ call' = None
            \/ \E i \in Intents, u \in Users, n \in Nonces, r \in Routes : StartRoute(i, u, n, r)
BY DEF UserStep, OperatorStep, EndCall, OwnerStep, StrangerStep, Lock, CancelAndRefund,
  ExpireAndRefund, ExecuteIntent, StartRoute, FinishRoute, Revert, SetSolver,
  SetExecutionBinding, SetPaused, SetRecorder, Report, StrayToEscrow, StrayToBinding,
  StrayToSolver

LEMMA TypeStep ==
  ASSUME TypeOK, RecordsMatchStatus, [Next]_vars
  PROVE  TypeOK'
<1>1. StateTypeOK
  BY FieldTypes DEF TypeOK
<1>2. CASE UNCHANGED vars
  BY <1>2 DEF vars, lifecycle, funds, reports, TypeOK, Snapshot
<1>3. CASE Tick
  <2>1. now' \in 0 .. MaxTime
    BY <1>3, IntentAssumption DEF Tick, TypeOK
  <2>2. QED
    BY <1>3, <2>1 DEF Tick, lifecycle, funds, reports, TypeOK, Snapshot
<1>4. CASE UserStep \/ OperatorStep \/ EndCall \/ OwnerStep \/ StrangerStep
  <2>1. StateTypeOK'
    BY <1>1, <1>4, UserTypes, ExecuteTypes, StartTypes, FinishTypes, RevertTypes, OtherTypes
       DEF OperatorStep, EndCall
  <2>2. (Snapshot \in StateType)'
    BY <2>1, FieldTypes, PTL
  <2>3. call' \in CallType \cup {None}
    BY <1>1, <1>4, CallAndClock, StartTypes DEF TypeOK
  <2>4. now' \in 0 .. MaxTime
    BY <1>4, CallAndClock DEF TypeOK
  <2>5. QED
    BY <2>2, <2>3, <2>4 DEF TypeOK
<1>5. QED
  BY <1>2, <1>3, <1>4 DEF Next

-----------------------------------------------------------------------------
(* Records and statuses.                                                   *)

\* Settling intent i, and nothing else, ends its record.
LEMMA SettleRecords ==
  ASSUME StateTypeOK, RecordsMatchStatus, NEW i \in Intents, NEW status,
         status # "Pending", SetStatus(i, status), DropEscrow(i)
  PROVE  RecordsMatchStatus'
<1>1. \A j \in Intents : j # i => intents'[j] = intents[j] /\ escrows'[j] = escrows[j]
  BY DEF SetStatus, DropEscrow, StateTypeOK
<1>2. intents'[i].status = status
  <2>1. intents[i] \in IntentType
    BY DEF StateTypeOK
  <2>2. intents'[i] = [intents[i] EXCEPT !.status = status]
    BY DEF SetStatus, StateTypeOK
  <2>3. QED
    BY <2>1, <2>2 DEF IntentType, NoIntent
<1>3. escrows'[i] = NoEscrow
  BY DEF DropEscrow, StateTypeOK
<1>4. QED
  BY <1>1, <1>2, <1>3 DEF RecordsMatchStatus, Pending

LEMMA LockRecords ==
  ASSUME StateTypeOK, RecordsMatchStatus, NEW i \in Intents, NEW u \in Users, NEW n \in Nonces,
         NEW t \in Tokens, NEW a \in Amounts, NEW d \in Deadlines, Lock(i, u, n, t, a, d)
  PROVE  RecordsMatchStatus'
<1>1. \A j \in Intents : j # i => intents'[j] = intents[j] /\ escrows'[j] = escrows[j]
  BY DEF Lock, StateTypeOK
<1>2. intents'[i].status = "Pending" /\ escrows'[i].token = t
  BY DEF Lock, StateTypeOK
<1>3. NoEscrow.token # t
  BY NoneIsNoToken DEF NoEscrow
<1>4. QED
  BY <1>1, <1>2, <1>3 DEF RecordsMatchStatus, Pending

LEMMA RecordsSame ==
  ASSUME RecordsMatchStatus, UNCHANGED <<intents, escrows>>
  PROVE  RecordsMatchStatus'
BY DEF RecordsMatchStatus, Pending

\* The steps that neither write nor restore a record.
LEMMA QuietSteps ==
  ASSUME \/ OwnerStep \/ StrangerStep \/ Tick \/ UNCHANGED vars
         \/ \E i \in Intents, u \in Users, n \in Nonces, r \in Routes : StartRoute(i, u, n, r)
  PROVE  UNCHANGED <<intents, nonceIntent, escrows, wallet>>
BY DEF OwnerStep, StrangerStep, SetSolver, SetExecutionBinding, SetPaused, SetRecorder, Report,
  StrayToEscrow, StrayToBinding, StrayToSolver, Tick, StartRoute, vars, lifecycle, funds

LEMMA RevertKeepsPromises ==
  ASSUME CallOK, Revert
  PROVE  UNCHANGED <<intents, escrows, wallet>>
BY DEF CallOK, Revert

LEMMA RecordsStep ==
  ASSUME IntentInv, [Next]_vars
  PROVE  RecordsMatchStatus'
<1>1. StateTypeOK /\ RecordsMatchStatus
  BY FieldTypes DEF IntentInv, TypeOK
<1>2. ASSUME NEW i \in Intents, NEW u \in Users, CancelAndRefund(i, u)
      PROVE  RecordsMatchStatus'
  BY <1>1, <1>2, SettleRecords DEF CancelAndRefund
<1>3. ASSUME NEW i \in Intents, ExpireAndRefund(i)
      PROVE  RecordsMatchStatus'
  BY <1>1, <1>3, SettleRecords DEF ExpireAndRefund
<1>4. ASSUME NEW i \in Intents, ExecuteIntent(i)
      PROVE  RecordsMatchStatus'
  BY <1>1, <1>4, SettleRecords DEF ExecuteIntent
<1>5. CASE FinishRoute
  <2>1. call.intent \in Intents
    BY <1>5, CallRecord DEF IntentInv, FinishRoute, CallType
  <2>2. QED
    BY <1>1, <1>5, <2>1, SettleRecords DEF FinishRoute
<1>6. CASE Revert
  BY <1>1, <1>6, RevertKeepsPromises, RecordsSame DEF IntentInv
<1>7. CASE UserStep
  BY <1>1, <1>2, <1>3, <1>7, LockRecords DEF UserStep
<1>8. CASE OperatorStep
  BY <1>1, <1>4, <1>8, QuietSteps, RecordsSame DEF OperatorStep
<1>9. CASE OwnerStep \/ StrangerStep \/ Tick \/ UNCHANGED vars
  BY <1>1, <1>9, QuietSteps, RecordsSame
<1>10. QED
  BY <1>5, <1>6, <1>7, <1>8, <1>9 DEF Next, EndCall

-----------------------------------------------------------------------------
(* The call, and custody.                                                  *)

LEMMA StartCall ==
  ASSUME IntentInv, NEW i \in Intents, NEW u \in Users, NEW n \in Nonces, NEW r \in Routes,
         StartRoute(i, u, n, r)
  PROVE  CallOK' /\ Custody'
<1>1. StateTypeOK
  BY FieldTypes DEF IntentInv, TypeOK
<1>2. ~InCall /\ Live(i) /\ Pending(i) /\ Disburse(i)
  BY DEF StartRoute, Unlocked, Live
<1>3. /\ call'.intent = i /\ call'.route = r
      /\ call'.saved.intents = intents /\ call'.saved.escrows = escrows
      /\ call'.saved.wallet = wallet /\ call'.saved.vault = vault
  BY DEF StartRoute, Snapshot
<1>4. InCall'
  BY <1>1, StartTypes, NoneIsNoCall DEF IntentInv, InCall
<1>5. UNCHANGED <<intents, escrows, wallet, now>>
  BY DEF StartRoute, lifecycle
<1>6. escrows[i] = [token |-> r.tokenIn, amount |-> r.amountIn]
  BY DEF StartRoute, BindingAccepts
<1>7. ASSUME NEW t \in Tokens
      PROVE  TotalOf(Owed(t)) <= vault[t]
  <2>1. InFlight(t) = 0
    BY <1>2 DEF InFlight
  <2>2. TotalOf(Owed(t)) <= vault[t] + 0
    BY <2>1 DEF IntentInv, Custody
  <2>3. vault[t] \in Nat
    BY <1>1 DEF StateTypeOK
  <2>4. QED
    BY <2>2, <2>3
<1>8. CallOK'
  <2>1. \A t \in Tokens : Owed(t)' = Owed(t)
    BY <1>5 DEF Owed
  <2>2. \A t \in Tokens : TotalOf(Owed(t)') <= call'.saved.vault[t]
    BY <1>3, <1>7, <2>1
  <2>3. Live(call.intent)'
    BY <1>2, <1>3, <1>5 DEF Live, Pending
  <2>4. QED
    BY <1>3, <1>5, <1>6, <2>2, <2>3 DEF CallOK
<1>9. Custody'
  <2>1. SUFFICES ASSUME NEW t \in Tokens
                 PROVE  TotalOf(Owed(t)') <= vault'[t] + InFlight(t)'
    BY DEF Custody
  <2>2. Owed(t)' = Owed(t)
    BY <1>5 DEF Owed
  <2>3. InFlight(t)' = IF r.tokenIn = t THEN r.amountIn ELSE 0
    BY <1>3, <1>4 DEF InFlight
  <2>4. vault' = [vault EXCEPT ![r.tokenIn] = vault[r.tokenIn] - r.amountIn]
    BY <1>2, <1>6 DEF Disburse
  <2>5. r.tokenIn \in Tokens /\ r.amountIn \in Nat
    BY IntentAssumption DEF Routes
  <2>6. vault \in [Tokens -> Nat]
    BY <1>1 DEF StateTypeOK
  <2>7. vault'[t] + InFlight(t)' = vault[t]
    BY <2>3, <2>4, <2>5, <2>6
  <2>8. QED
    BY <1>7, <2>2, <2>7
<1>10. QED
  BY <1>8, <1>9

\* Settling a pending intent outside a call pays what is owed for it.
LEMMA PaymentCustody ==
  ASSUME StateTypeOK, TypeOK, RecordsMatchStatus, Custody, ~InCall, UNCHANGED call,
         NEW i \in Intents, Pending(i), DropEscrow(i), Disburse(i)
  PROVE  Custody'
<1>1. SUFFICES ASSUME NEW t \in Tokens
               PROVE  TotalOf(Owed(t)') <= vault'[t] + InFlight(t)'
  BY DEF Custody
<1> DEFINE tok == escrows[i].token
<1> DEFINE a == escrows[i].amount
<1> DEFINE was == IF tok = t THEN a ELSE 0
<1>2. tok \in Tokens /\ a \in Nat
  BY PendingFacts
<1>3. InFlight(t) = 0 /\ InFlight(t)' = 0
  BY DEF InFlight, InCall
<1>4. vault' = [vault EXCEPT ![tok] = vault[tok] - a]
  BY DEF Disburse
<1>5. vault \in [Tokens -> Nat]
  BY DEF StateTypeOK
<1>6. TotalOf(Owed(t)) <= vault[t] + InFlight(t)
  BY DEF Custody
<1>7. /\ TotalOf(Owed(t)) \in Nat /\ was \in Nat
      /\ TotalOf(Owed(t)') = TotalOf(Owed(t)) - was + 0
  <2>1. Writes(i, NoEscrow) /\ NoEscrow \in EscrowType
    BY DEF DropEscrow, EscrowType, Writes
  <2>2. Due(NoEscrow, t) = 0 /\ Due(escrows[i], t) = was
    BY DEF NoEscrow, Due
  <2>3. escrows \in [Intents -> EscrowType]
    BY DEF StateTypeOK
  <2>4. OwedMoves(t, Due(escrows[i], t), Due(NoEscrow, t))
    BY <2>1, <2>3, OwedUpdate
  <2> HIDE DEF was
  <2>5. QED
    BY <2>2, <2>4 DEF OwedMoves
<1> HIDE DEF tok, a
<1>8. vault'[t] = vault[t] - was
  BY <1>2, <1>4, <1>5
<1>9. vault[t] \in Nat
  BY <1>5
<1> HIDE DEF was
<1>10. QED
  BY <1>3, <1>6, <1>7, <1>8, <1>9

LEMMA LockCustody ==
  ASSUME StateTypeOK, RecordsMatchStatus, Custody, NEW i \in Intents, NEW u \in Users,
         NEW n \in Nonces, NEW t0 \in Tokens, NEW a \in Amounts, NEW d \in Deadlines,
         Lock(i, u, n, t0, a, d)
  PROVE  Custody'
<1>1. SUFFICES ASSUME NEW t \in Tokens
               PROVE  TotalOf(Owed(t)') <= vault'[t] + InFlight(t)'
  BY DEF Custody
<1> DEFINE e == [token |-> t0, amount |-> a]
<1> DEFINE is == IF t0 = t THEN a ELSE 0
<1>2. InFlight(t) = 0 /\ InFlight(t)' = 0
  BY DEF InFlight, InCall, Lock, Unlocked
<1>3. escrows[i] = NoEscrow
  BY DEF Lock, RecordsMatchStatus, Pending
<1>4. a \in Nat /\ e \in EscrowType
  BY IntentAssumption DEF EscrowType
<1>5. vault' = [vault EXCEPT ![t0] = vault[t0] + a] /\ vault \in [Tokens -> Nat]
  BY DEF Lock, StateTypeOK
<1>6. TotalOf(Owed(t)) <= vault[t] + InFlight(t)
  BY DEF Custody
<1>7. TotalOf(Owed(t)) \in Nat /\ TotalOf(Owed(t)') = TotalOf(Owed(t)) - 0 + is
  <2>1. Writes(i, e) /\ escrows \in [Intents -> EscrowType]
    BY DEF Lock, StateTypeOK, Writes
  <2>2. Due(escrows[i], t) = 0 /\ Due(e, t) = is
    BY <1>3 DEF NoEscrow, Due
  <2> HIDE DEF e, is
  <2>3. OwedMoves(t, Due(escrows[i], t), Due(e, t))
    BY <1>4, <2>1, OwedUpdate
  <2>4. QED
    BY <2>2, <2>3 DEF OwedMoves
<1>8. vault'[t] = vault[t] + is /\ vault[t] \in Nat /\ is \in Nat
  BY <1>4, <1>5
<1> HIDE DEF is
<1>9. QED
  BY <1>2, <1>6, <1>7, <1>8

LEMMA InFlightIsNat ==
  ASSUME TypeOK, NEW t
  PROVE  InFlight(t) \in Nat
<1>1. CASE InCall
  <2>1. call.route \in Routes
    BY <1>1, CallRecord DEF CallType
  <2>2. call.route.amountIn \in Nat
    BY <2>1, IntentAssumption DEF Routes
  <2>3. QED
    BY <2>2 DEF InFlight
<1>2. CASE ~InCall
  BY <1>2 DEF InFlight
<1>3. QED
  BY <1>1, <1>2

LEMMA OwedTotalIsNat ==
  ASSUME StateTypeOK, NEW t
  PROVE  TotalOf(Owed(t)) \in Nat
BY OwedType, TotalIsNat, IntentAssumption DEF StateTypeOK

\* A step that leaves the records alone, takes nothing from the vault and
\* neither begins nor ends a call.
LEMMA QuietCall ==
  ASSUME TypeOK, StateTypeOK, CallOK, Custody, UNCHANGED <<intents, escrows, wallet, call>>,
         InCall => UNCHANGED now, \A t \in Tokens : vault'[t] \in Nat /\ vault[t] <= vault'[t]
  PROVE  CallOK' /\ Custody'
<1>1. \A t \in Tokens : Owed(t)' = Owed(t) /\ InFlight(t)' = InFlight(t)
  BY DEF Owed, InFlight, InCall
<1>2. InCall' = InCall
  BY DEF InCall
<1>3. ASSUME ~InCall PROVE CallOK'
  BY <1>2, <1>3 DEF CallOK
<1>4. ASSUME InCall PROVE CallOK'
  <2>1. Live(call.intent)'
    BY <1>4 DEF CallOK, Live, Pending
  <2>2. \A t \in Tokens : TotalOf(Owed(t)') <= call'.saved.vault[t]
    BY <1>1, <1>4 DEF CallOK
  <2>3. /\ call'.saved.intents = intents'
        /\ call'.saved.escrows = escrows'
        /\ call'.saved.wallet = wallet'
        /\ escrows'[call'.intent]
             = [token |-> call'.route.tokenIn, amount |-> call'.route.amountIn]
    BY <1>4 DEF CallOK
  <2>4. QED
    BY <2>1, <2>2, <2>3 DEF CallOK
<1>5. CallOK'
  BY <1>3, <1>4
<1>6. Custody'
  <2>1. SUFFICES ASSUME NEW t \in Tokens
                 PROVE  TotalOf(Owed(t)') <= vault'[t] + InFlight(t)'
    BY DEF Custody
  <2>2. TotalOf(Owed(t)) <= vault[t] + InFlight(t)
    BY DEF Custody
  <2>3. vault[t] \in Nat /\ vault'[t] \in Nat /\ vault[t] <= vault'[t]
    BY DEF StateTypeOK
  <2>4. TotalOf(Owed(t)) \in Nat /\ InFlight(t) \in Nat
    BY OwedTotalIsNat, InFlightIsNat
  <2>5. Owed(t)' = Owed(t) /\ InFlight(t)' = InFlight(t)
    BY <1>1
  <2>6. QED
    BY <2>2, <2>3, <2>4, <2>5
<1>7. QED
  BY <1>5, <1>6

\* A revert finds the vault as it was before the call.
LEMMA RevertCustody ==
  ASSUME TypeOK, StateTypeOK, CallOK, Revert
  PROVE  CallOK' /\ Custody'
<1>1. InCall /\ call' = None /\ vault' = call.saved.vault
  BY DEF Revert
<1>2. ~InCall'
  BY <1>1 DEF InCall
<1>3. \A t \in Tokens : Owed(t)' = Owed(t)
  BY RevertKeepsPromises DEF Owed
<1>4. \A t \in Tokens : TotalOf(Owed(t)) <= call.saved.vault[t]
  BY <1>1 DEF CallOK
<1>5. ASSUME NEW t \in Tokens
      PROVE  TotalOf(Owed(t)') <= vault'[t] + InFlight(t)'
  <2>1. InFlight(t)' = 0
    BY <1>2 DEF InFlight
  <2>2. vault'[t] \in Nat
    <3>1. vault' \in [Tokens -> Nat]
      BY RevertTypes DEF StateTypeOK
    <3>2. QED
      BY <3>1
  <2>3. TotalOf(Owed(t)') <= vault'[t]
    BY <1>1, <1>3, <1>4
  <2>4. QED
    BY <2>1, <2>2, <2>3
<1>6. QED
  BY <1>2, <1>5 DEF CallOK, Custody

\* The end of a call drops the record of the amount it took out.
LEMMA FinishCustody ==
  ASSUME TypeOK, StateTypeOK, CallOK, Custody, FinishRoute
  PROVE  CallOK' /\ Custody'
<1>1. InCall /\ call' = None /\ UNCHANGED vault /\ call.intent \in Intents
  BY CallRecord DEF FinishRoute, funds, CallType
<1>2. ~InCall'
  BY <1>1 DEF InCall
<1> DEFINE i == call.intent
<1>3. ASSUME NEW t \in Tokens
      PROVE  TotalOf(Owed(t)') <= vault'[t] + InFlight(t)'
  <2> DEFINE was == IF escrows[i].token = t THEN escrows[i].amount ELSE 0
  <2>1. InFlight(t)' = 0
    BY <1>2 DEF InFlight
  <2>2. InFlight(t) = was
    BY <1>1 DEF InFlight, CallOK
  <2>3. TotalOf(Owed(t)) <= vault[t] + InFlight(t)
    BY DEF Custody
  <2>4. /\ TotalOf(Owed(t)) \in Nat /\ was \in Nat
        /\ TotalOf(Owed(t)') = TotalOf(Owed(t)) - was + 0
    <3>1. Writes(i, NoEscrow) /\ NoEscrow \in EscrowType
      BY DEF FinishRoute, DropEscrow, EscrowType, Writes
    <3>2. Due(NoEscrow, t) = 0 /\ Due(escrows[i], t) = was
      BY DEF NoEscrow, Due
    <3>3. escrows \in [Intents -> EscrowType]
      BY DEF StateTypeOK
    <3> HIDE DEF i
    <3>4. OwedMoves(t, Due(escrows[i], t), Due(NoEscrow, t))
      BY <1>1, <3>1, <3>3, OwedUpdate DEF i
    <3> HIDE DEF was
    <3>5. QED
      BY <3>2, <3>4 DEF OwedMoves
  <2>5. vault[t] \in Nat /\ vault'[t] = vault[t]
    BY <1>1 DEF StateTypeOK
  <2> HIDE DEF was
  <2>6. QED
    BY <2>1, <2>2, <2>3, <2>4, <2>5
<1>4. QED
  BY <1>2, <1>3 DEF CallOK, Custody

LEMMA CustodyStep ==
  ASSUME IntentInv, [Next]_vars
  PROVE  CallOK' /\ Custody'
<1>1. TypeOK /\ StateTypeOK /\ RecordsMatchStatus /\ CallOK /\ Custody
  BY FieldTypes DEF IntentInv, TypeOK
<1>2. CASE UserStep \/ \E i \in Intents : ExecuteIntent(i)
  <2>1. ~InCall /\ UNCHANGED call
    BY <1>2 DEF UserStep, Lock, CancelAndRefund, ExpireAndRefund, ExecuteIntent, Unlocked
  <2>2. CallOK'
    BY <2>1 DEF CallOK, InCall
  <2>3. ASSUME NEW i \in Intents, NEW u \in Users, CancelAndRefund(i, u)
        PROVE  Custody'
    BY <1>1, <2>1, <2>3, PaymentCustody DEF CancelAndRefund, Live
  <2>4. ASSUME NEW i \in Intents, ExpireAndRefund(i)
        PROVE  Custody'
    BY <1>1, <2>1, <2>4, PaymentCustody DEF ExpireAndRefund
  <2>5. ASSUME NEW i \in Intents, ExecuteIntent(i)
        PROVE  Custody'
    BY <1>1, <2>1, <2>5, PaymentCustody DEF ExecuteIntent, Live
  <2>6. Custody'
    BY <1>1, <1>2, <2>3, <2>4, <2>5, LockCustody DEF UserStep
  <2>7. QED
    BY <2>2, <2>6
<1>3. CASE EndCall
  BY <1>1, <1>3, FinishCustody, RevertCustody DEF EndCall
<1>4. CASE OwnerStep \/ StrangerStep \/ Tick \/ UNCHANGED vars
  <2>1. UNCHANGED <<intents, escrows, wallet>>
    BY <1>4, QuietSteps
  <2>2. UNCHANGED call /\ (InCall => UNCHANGED now)
    BY <1>4 DEF OwnerStep, StrangerStep, SetSolver, SetExecutionBinding, SetPaused, SetRecorder,
      Report, StrayToEscrow, StrayToBinding, StrayToSolver, Tick, vars
  <2>3. vault \in [Tokens -> Nat]
    BY <1>1 DEF StateTypeOK
  <2>4. UNCHANGED vault \/ \E t \in Tokens : StrayToEscrow(t)
    BY <1>4 DEF OwnerStep, StrangerStep, SetSolver, SetExecutionBinding, SetPaused, SetRecorder,
      Report, StrayToBinding, StrayToSolver, Tick, vars, funds
  <2>5. \A t \in Tokens : vault'[t] \in Nat /\ vault[t] <= vault'[t]
    BY <2>3, <2>4 DEF StrayToEscrow
  <2>6. QED
    BY <1>1, <2>1, <2>2, <2>5, QuietCall
<1>5. CASE \E i \in Intents, u \in Users, n \in Nonces, r \in Routes : StartRoute(i, u, n, r)
  BY <1>5, StartCall
<1>6. QED
  BY <1>2, <1>3, <1>4, <1>5 DEF Next, OperatorStep

-----------------------------------------------------------------------------
(* The invariants.                                                         *)

LEMMA InitInv == Init => IntentInv
<1> SUFFICES ASSUME Init
             PROVE  IntentInv
  OBVIOUS
<1>1. StateTypeOK
  BY IntentAssumption DEF Init, StateTypeOK, IntentType, EscrowType, ReceiptType, HubType, Recorders
<1>2. TypeOK
  BY <1>1, FieldTypes, IntentAssumption DEF Init, TypeOK
<1>3. RecordsMatchStatus
  BY DEF Init, RecordsMatchStatus, Pending, NoIntent
<1>4. ~InCall
  BY DEF Init, InCall
<1>5. Custody
  <2>1. SUFFICES ASSUME NEW t \in Tokens
                 PROVE  TotalOf(Owed(t)) <= vault[t] + InFlight(t)
    BY DEF Custody
  <2>2. \A i \in Intents : Owed(t)[i] = 0
    BY DEF Init, Owed, NoEscrow
  <2>3. Owed(t) \in [Intents -> Nat]
    BY <1>1, OwedType DEF StateTypeOK
  <2>4. TotalOf(Owed(t)) = 0
    BY <2>2, <2>3, TotalOfNothing
  <2>5. vault[t] = 0 /\ InFlight(t) = 0
    BY <1>4 DEF Init, InFlight
  <2>6. QED
    BY <2>4, <2>5
<1>6. QED
  BY <1>2, <1>3, <1>4, <1>5 DEF IntentInv, CallOK

LEMMA StepInv == IntentInv /\ [Next]_vars => IntentInv'
BY TypeStep, RecordsStep, CustodyStep DEF IntentInv

LEMMA Invariance == Spec => []IntentInv
BY InitInv, StepInv, PTL DEF Spec

\* Every variable keeps its type.
THEOREM IntentTypeCorrect == Spec => []TypeOK
<1>1. IntentInv => TypeOK
  BY DEF IntentInv
<1>2. QED
  BY <1>1, Invariance, PTL

\* The escrow covers its records at every instant, also while foreign code
\* runs: any number of intents, any tokens, any order of steps.
THEOREM CustodyAlways == Spec => []Custody
<1>1. IntentInv => Custody
  BY DEF IntentInv
<1>2. QED
  BY <1>1, Invariance, PTL

\* An intent has an escrow record exactly while it is pending.
THEOREM RecordsAlwaysMatch == Spec => []RecordsMatchStatus
<1>1. IntentInv => RecordsMatchStatus
  BY DEF IntentInv
<1>2. QED
  BY <1>1, Invariance, PTL

-----------------------------------------------------------------------------
(* The promise.                                                            *)

\* The variables of IntentPromise that are not variables here.
PromiseState == [i \in Intents |-> PromiseOf[intents[i].status]]
PromiseOwner == [i \in Intents |-> intents[i].sender]
PromiseDeadline == [i \in Intents |-> intents[i].deadline]

LEMMA PromiseOfStatus ==
  /\ PromiseOf["None"] = "none" /\ PromiseOf["Pending"] = "open"
  /\ PromiseOf["Executed"] = "delivered"
  /\ PromiseOf["Cancelled"] = "returned" /\ PromiseOf["Expired"] = "returned"
BY DEF PromiseOf

\* Settling intent i settles its promise and no other.
LEMMA SettlePromise ==
  ASSUME StateTypeOK, NEW i \in Intents, Pending(i), NEW status, SetStatus(i, status), DropEscrow(i)
  PROVE  /\ PromiseState[i] = "open"
         /\ PromiseState' = [PromiseState EXCEPT ![i] = PromiseOf[status]]
         /\ \A j \in Intents \ {i} : /\ intents'[j] = intents[j]
                                     /\ escrows'[j] = escrows[j]
<1>1. intents[i] \in IntentType /\ intents[i].status = "Pending"
  BY DEF StateTypeOK, Pending
<1>2. PromiseState[i] = "open"
  BY <1>1, PromiseOfStatus DEF PromiseState
<1>3. intents' = [intents EXCEPT ![i] = [intents[i] EXCEPT !.status = status]]
  BY DEF SetStatus
<1>4. \A j \in Intents : j # i => intents'[j] = intents[j]
  BY <1>3 DEF StateTypeOK
<1>5. intents'[i].status = status
  BY <1>1, <1>3 DEF StateTypeOK, IntentType, NoIntent
<1>6. PromiseState' = [PromiseState EXCEPT ![i] = PromiseOf[status]]
  BY <1>4, <1>5 DEF PromiseState
<1>7. \A j \in Intents : j # i => escrows'[j] = escrows[j]
  BY DEF DropEscrow, StateTypeOK
<1>8. QED
  BY <1>2, <1>4, <1>6, <1>7

\* The terms of the promises whose intents are untouched stand.
LEMMA OtherTerms ==
  ASSUME NEW others \in SUBSET Intents,
         \A j \in others : intents'[j] = intents[j] /\ escrows'[j] = escrows[j]
  PROVE  Promise!TermsKept(others)
BY DEF Promise!TermsKept

LEMMA ReturnStep ==
  ASSUME StateTypeOK, NEW i \in Intents, Pending(i), NEW status \in {"Cancelled", "Expired"},
         SetStatus(i, status), DropEscrow(i), PayUser(i, intents[i].sender), UNCHANGED now
  PROVE  Promise!Next
<1>1. /\ PromiseState[i] = "open"
      /\ PromiseState' = [PromiseState EXCEPT ![i] = "returned"]
  BY SettlePromise, PromiseOfStatus
<1>2. Promise!TermsKept(Intents \ {i})
  BY SettlePromise, OtherTerms
<1>3. Promise!PaidTo(intents[i].sender, i)
  BY DEF PayUser, Promise!PaidTo
<1>4. Promise!Return(i)
  BY <1>1, <1>3 DEF Promise!Return, PromiseState
<1>5. QED
  BY <1>2, <1>4 DEF Promise!Next

LEMMA DeliverStep ==
  ASSUME StateTypeOK, NEW i \in Intents, Live(i), SetStatus(i, "Executed"), DropEscrow(i),
         UNCHANGED wallet \/ \E u \in Users : PayUser(i, u), UNCHANGED now
  PROVE  Promise!Next
<1>1. /\ PromiseState[i] = "open"
      /\ PromiseState' = [PromiseState EXCEPT ![i] = "delivered"]
  BY SettlePromise, PromiseOfStatus DEF Live
<1>2. Promise!TermsKept(Intents \ {i})
  BY SettlePromise, OtherTerms DEF Live
<1>3. UNCHANGED wallet \/ \E u \in Users : Promise!PaidTo(u, i)
  BY DEF PayUser, Promise!PaidTo
<1>4. now <= PromiseDeadline[i]
  BY DEF Live, PromiseDeadline
<1>5. Promise!Deliver(i)
  BY <1>1, <1>3, <1>4 DEF Promise!Deliver, PromiseState, PromiseDeadline
<1>6. QED
  BY <1>2, <1>5 DEF Promise!Next

LEMMA OpenStep ==
  ASSUME StateTypeOK, NEW i \in Intents, NEW u \in Users, NEW n \in Nonces, NEW t \in Tokens,
         NEW a \in Amounts, NEW d \in Deadlines, Lock(i, u, n, t, a, d)
  PROVE  Promise!Next
<1>1. \A j \in Intents \ {i} : intents'[j] = intents[j] /\ escrows'[j] = escrows[j]
  BY DEF Lock, StateTypeOK
<1>2. /\ intents'[i].status = "Pending" /\ intents'[i].sender = u /\ intents'[i].deadline = d
      /\ escrows'[i] = [token |-> t, amount |-> a]
  BY DEF Lock, StateTypeOK
<1>3. intents[i].status = "None" /\ d > now /\ UNCHANGED now
  BY DEF Lock
<1>4. PromiseState[i] = "none"
  BY <1>3, PromiseOfStatus DEF PromiseState
<1>5. PromiseState' = [PromiseState EXCEPT ![i] = "open"]
  BY <1>1, <1>2, PromiseOfStatus DEF PromiseState
<1>6. PromiseOwner'[i] = u /\ PromiseDeadline'[i] > now
  BY <1>2, <1>3 DEF PromiseOwner, PromiseDeadline
<1>7. a <= wallet[t][u] /\ wallet' = [wallet EXCEPT ![t][u] = wallet[t][u] - a]
  BY DEF Lock
<1>8. Promise!Open(i, u)
  BY <1>2, <1>4, <1>5, <1>6, <1>7
     DEF Promise!Open, PromiseState, PromiseOwner, PromiseDeadline
<1>9. Promise!TermsKept(Intents \ {i})
  BY <1>1, OtherTerms
<1>10. QED
  BY <1>3, <1>8, <1>9 DEF Promise!Next

LEMMA PromiseQuiet ==
  ASSUME UNCHANGED <<intents, escrows, wallet, now>>
  PROVE  UNCHANGED Promise!vars
BY DEF Promise!vars

LEMMA PromiseTick ==
  ASSUME TypeOK, Tick
  PROVE  Promise!Next
<1>1. now' > now
  BY IntentAssumption DEF Tick, TypeOK
<1>2. UNCHANGED <<intents, escrows, wallet>>
  BY DEF Tick, lifecycle, funds
<1>3. Promise!TermsKept(Intents)
  BY <1>2, OtherTerms
<1>4. QED
  BY <1>1, <1>2, <1>3 DEF Promise!Next, Promise!Tick

LEMMA PromiseStep ==
  ASSUME IntentInv, [Next]_vars
  PROVE  [Promise!Next]_(Promise!vars)
<1>1. TypeOK /\ StateTypeOK /\ CallOK
  BY FieldTypes DEF IntentInv, TypeOK
<1>2. CASE UserStep
  BY <1>1, <1>2, OpenStep, ReturnStep DEF UserStep, CancelAndRefund, ExpireAndRefund, Live
<1>3. ASSUME NEW i \in Intents, ExecuteIntent(i)
      PROVE  Promise!Next
  BY <1>1, <1>3, DeliverStep DEF ExecuteIntent
<1>4. ASSUME FinishRoute
      PROVE  Promise!Next
  <2>1. call.intent \in Intents
    BY <1>1, <1>4, CallRecord DEF FinishRoute, CallType
  <2>2. UNCHANGED wallet /\ UNCHANGED now
    BY <1>4 DEF FinishRoute, funds
  <2>3. QED
    BY <1>1, <1>4, <2>1, <2>2, DeliverStep DEF FinishRoute
<1>5. CASE Revert
  BY <1>1, <1>5, RevertKeepsPromises, PromiseQuiet DEF Revert
<1>6. CASE OwnerStep \/ StrangerStep \/ UNCHANGED vars
           \/ \E i \in Intents, u \in Users, n \in Nonces, r \in Routes : StartRoute(i, u, n, r)
  <2>1. UNCHANGED <<intents, escrows, wallet>>
    BY <1>6, QuietSteps
  <2>2. UNCHANGED now
    BY <1>6 DEF OwnerStep, StrangerStep, SetSolver, SetExecutionBinding, SetPaused, SetRecorder,
      Report, StrayToEscrow, StrayToBinding, StrayToSolver, StartRoute, vars
  <2>3. QED
    BY <2>1, <2>2, PromiseQuiet
<1>7. CASE Tick
  BY <1>1, <1>7, PromiseTick
<1>8. QED
  BY <1>2, <1>3, <1>4, <1>5, <1>6, <1>7 DEF Next, OperatorStep, EndCall

LEMMA PromiseInit == Init => Promise!Init
BY PromiseOfStatus, IntentAssumption DEF Init, Promise!Init, NoIntent

\* The contracts keep the promise: every deposit is settled at most once,
\* delivered in time or paid back whole to its owner, and a routed
\* execution that fails has touched none of it.
THEOREM PromiseIsKept == Spec => PromiseKept
<1>1. Init => Promise!Init
  BY PromiseInit
<1>2. IntentInv /\ [Next]_vars => [Promise!Next]_(Promise!vars)
  BY PromiseStep
<1>3. QED
  BY <1>1, <1>2, Invariance, PTL DEF Spec, PromiseKept, Promise!Spec

-----------------------------------------------------------------------------
(* Nonces.                                                                 *)

\* The nonce of a registered intent points back to it.
NonceTaken ==
  \A i \in Intents :
    intents[i].status # "None" => nonceIntent[intents[i].sender][intents[i].nonce] = i

NonceInv ==
  /\ NonceTaken
  /\ InCall => call.saved.nonceIntent = nonceIntent

LEMMA RegisteredFacts ==
  ASSUME StateTypeOK, NEW i \in Intents, intents[i].status # "None"
  PROVE  intents[i].sender \in Users /\ intents[i].nonce \in Nonces
<1>1. intents[i] \in IntentType /\ intents[i] # NoIntent
  BY DEF StateTypeOK, NoIntent
<1>2. QED
  BY <1>1 DEF IntentType

\* A status that changes after the registration leaves the nonces alone.
LEMMA NonceSettled ==
  ASSUME StateTypeOK, NonceTaken, NEW i \in Intents, intents[i].status # "None",
         NEW status, SetStatus(i, status), UNCHANGED nonceIntent
  PROVE  NonceTaken'
<1>1. \A j \in Intents :
        /\ intents'[j].sender = intents[j].sender
        /\ intents'[j].nonce = intents[j].nonce
        /\ j # i => intents'[j].status = intents[j].status
  <2>1. \A j \in Intents : intents[j] \in IntentType
    BY DEF StateTypeOK
  <2>2. intents' = [intents EXCEPT ![i] = [intents[i] EXCEPT !.status = status]]
    BY DEF SetStatus
  <2>3. QED
    BY <2>1, <2>2 DEF StateTypeOK
<1>2. QED
  BY <1>1 DEF NonceTaken

LEMMA NonceLocked ==
  ASSUME StateTypeOK, NonceTaken, NEW i \in Intents, NEW u \in Users, NEW n \in Nonces,
         NEW t \in Tokens, NEW a \in Amounts, NEW d \in Deadlines, Lock(i, u, n, t, a, d)
  PROVE  NonceTaken'
<1>1. \A j \in Intents \ {i} : intents'[j] = intents[j]
  BY DEF Lock, StateTypeOK
<1>2. intents'[i].sender = u /\ intents'[i].nonce = n
  BY DEF Lock, StateTypeOK
<1>3. nonceIntent[u][n] = None /\ nonceIntent' = [nonceIntent EXCEPT ![u][n] = i]
  BY DEF Lock
<1>4. nonceIntent \in [Users -> [Nonces -> Intents \cup {None}]]
  BY DEF StateTypeOK
<1>5. nonceIntent'[u][n] = i
  BY <1>3, <1>4
<1>6. ASSUME NEW j \in Intents, j # i, intents'[j].status # "None"
      PROVE  nonceIntent'[intents'[j].sender][intents'[j].nonce] = j
  <2>1. intents'[j] = intents[j] /\ intents[j].status # "None"
    BY <1>1, <1>6
  <2>2. intents[j].sender \in Users /\ intents[j].nonce \in Nonces
    BY <2>1, RegisteredFacts
  <2>3. nonceIntent[intents[j].sender][intents[j].nonce] = j
    BY <2>1 DEF NonceTaken
  <2>4. CASE intents[j].sender = u /\ intents[j].nonce = n
    <3>1. j = None
      BY <1>3, <2>3, <2>4
    <3>2. QED
      BY <3>1, IntentAssumption
  <2>5. CASE ~(intents[j].sender = u /\ intents[j].nonce = n)
    BY <1>3, <1>4, <2>1, <2>2, <2>3, <2>5
  <2>6. QED
    BY <2>4, <2>5
<1>7. QED
  BY <1>2, <1>5, <1>6 DEF NonceTaken

LEMMA NonceStep ==
  ASSUME IntentInv, NonceInv, [Next]_vars
  PROVE  NonceInv'
<1>1. TypeOK /\ StateTypeOK /\ RecordsMatchStatus /\ CallOK
  BY FieldTypes DEF IntentInv, TypeOK
<1>2. NonceTaken /\ (InCall => call.saved.nonceIntent = nonceIntent)
  BY DEF NonceInv
<1>3. ASSUME UserStep \/ \E i \in Intents : ExecuteIntent(i)
      PROVE  NonceInv'
  <2>1. ~InCall'
    BY <1>3 DEF UserStep, Lock, CancelAndRefund, ExpireAndRefund, ExecuteIntent, Unlocked, InCall
  <2>2. NonceTaken'
    BY <1>1, <1>2, <1>3, NonceLocked, NonceSettled
       DEF UserStep, CancelAndRefund, ExpireAndRefund, ExecuteIntent, Live, Pending
  <2>3. QED
    BY <2>1, <2>2 DEF NonceInv
<1>4. ASSUME FinishRoute
      PROVE  NonceInv'
  <2>1. call.intent \in Intents /\ ~InCall'
    BY <1>1, <1>4, CallRecord DEF FinishRoute, CallType, InCall
  <2>2. NonceTaken'
    BY <1>1, <1>2, <1>4, <2>1, NonceSettled DEF FinishRoute, Live, Pending
  <2>3. QED
    BY <2>1, <2>2 DEF NonceInv
<1>5. ASSUME Revert
      PROVE  NonceInv'
  <2>1. UNCHANGED <<intents, nonceIntent>> /\ ~InCall'
    BY <1>1, <1>2, <1>5, RevertKeepsPromises DEF Revert, InCall
  <2>2. QED
    BY <1>2, <2>1 DEF NonceInv, NonceTaken
<1>6. ASSUME OwnerStep \/ StrangerStep \/ Tick \/ UNCHANGED vars
      PROVE  NonceInv'
  <2>1. UNCHANGED <<intents, nonceIntent>>
    BY <1>6, QuietSteps
  <2>2. UNCHANGED call
    BY <1>6 DEF OwnerStep, StrangerStep, SetSolver, SetExecutionBinding, SetPaused, SetRecorder,
      Report, StrayToEscrow, StrayToBinding, StrayToSolver, Tick, vars
  <2>3. QED
    BY <1>2, <2>1, <2>2 DEF NonceInv, NonceTaken, InCall
<1>7. ASSUME NEW i \in Intents, NEW u \in Users, NEW n \in Nonces, NEW r \in Routes,
             StartRoute(i, u, n, r)
      PROVE  NonceInv'
  <2>1. UNCHANGED <<intents, nonceIntent>>
    BY <1>7, QuietSteps
  <2>2. call'.saved.nonceIntent = nonceIntent
    BY <1>7 DEF StartRoute, Snapshot
  <2>3. QED
    BY <1>2, <2>1, <2>2 DEF NonceInv, NonceTaken
<1>8. QED
  BY <1>3, <1>4, <1>5, <1>6, <1>7 DEF Next, OperatorStep, EndCall

\* A sender's nonce names one intent for ever.
THEOREM NonceNamesOneIntent == Spec => []OneIntentPerNonce
<1>1. Init => NonceInv
  BY DEF Init, NonceInv, NonceTaken, NoIntent, InCall
<1>2. IntentInv /\ NonceInv /\ [Next]_vars => NonceInv'
  BY NonceStep
<1>3. NonceInv => OneIntentPerNonce
  BY DEF NonceInv, NonceTaken, OneIntentPerNonce
<1>4. QED
  BY <1>1, <1>2, <1>3, Invariance, PTL DEF Spec

-----------------------------------------------------------------------------
(* Sales and receipts.                                                     *)

\* What receipt x reports of token t, and what the receipts rs report of it.
ReportOf(x, t) == IF x # None /\ x.route.tokenIn = t THEN x.route.amountIn ELSE 0
ReportsOf(rs, t) == [i \in Intents |-> ReportOf(rs[i], t)]

\* Every sale has its receipt or is the one under way; what a revert would
\* bring back had its receipts before the call began.
SaleInv ==
  /\ NoSaleWithoutReceipt
  /\ InCall => \A t \in Tokens : call.saved.sold[t] <= TotalOf(ReportsOf(call.saved.receipts, t))

LEMMA ReportedIsReports ==
  ASSUME NEW t
  PROVE  Reported(t) = ReportsOf(receipts, t)
BY DEF Reported, ReportsOf, ReportOf

LEMMA ReportIsNat ==
  ASSUME NEW x \in ReceiptType, NEW t
  PROVE  ReportOf(x, t) \in Nat
<1>1. CASE x = None
  BY <1>1 DEF ReportOf
<1>2. CASE x # None
  <2>1. x.route \in Routes
    BY <1>2 DEF ReceiptType
  <2>2. x.route.amountIn \in Nat
    BY <2>1, IntentAssumption DEF Routes
  <2>3. QED
    BY <2>2 DEF ReportOf
<1>3. QED
  BY <1>1, <1>2

LEMMA ReportsAreNat ==
  ASSUME NEW rs \in [Intents -> ReceiptType], NEW t
  PROVE  /\ ReportsOf(rs, t) \in [Intents -> Nat]
         /\ TotalOf(ReportsOf(rs, t)) \in Nat
<1>1. ReportsOf(rs, t) \in [Intents -> Nat]
  <2>1. \A i \in Intents : ReportOf(rs[i], t) \in Nat
    BY ReportIsNat
  <2>2. QED
    BY <2>1 DEF ReportsOf
<1>2. QED
  BY <1>1, TotalIsNat, IntentAssumption

\* A receipt written where there was none adds its amount to the reports of its
\* token and leaves those of the others alone.
LEMMA NewReceipt ==
  ASSUME receipts \in [Intents -> ReceiptType], NEW i \in Intents, NEW r \in Routes,
         now \in Nat, receipts[i] = None,
         receipts' = [receipts EXCEPT ![i] = [route |-> r, recordedAt |-> now]], NEW t
  PROVE  TotalOf(ReportsOf(receipts', t))
           = TotalOf(ReportsOf(receipts, t)) + (IF r.tokenIn = t THEN r.amountIn ELSE 0)
<1> DEFINE x == [route |-> r, recordedAt |-> now]
<1> DEFINE f == ReportsOf(receipts, t)
<1> DEFINE v == ReportOf(x, t)
<1>1. x \in [route : Routes, recordedAt : Nat] /\ x # None
  BY NoneIsNoReceipt
<1>2. v \in Nat
  BY <1>1, ReportIsNat DEF ReceiptType
<1>3. v = IF r.tokenIn = t THEN r.amountIn ELSE 0
  BY <1>1 DEF ReportOf
<1>4. f \in [Intents -> Nat] /\ TotalOf(f) \in Nat
  BY ReportsAreNat
<1>5. f[i] = 0
  BY DEF ReportsOf, ReportOf
<1>6. receipts' = [receipts EXCEPT ![i] = x]
  OBVIOUS
<1> HIDE DEF x
<1>7. ReportsOf(receipts', t) = [f EXCEPT ![i] = v]
  BY <1>6 DEF ReportsOf
<1>8. TotalOf([f EXCEPT ![i] = v]) = TotalOf(f) - f[i] + v
  <2> HIDE DEF v, f
  <2>1. IsFiniteSet(Intents) /\ f \in [Intents -> Nat] /\ v \in Nat
    BY <1>2, <1>4, IntentAssumption
  <2>2. QED
    BY <2>1, TotalOfUpdate
<1> HIDE DEF v, f
<1>9. QED
  BY <1>2, <1>3, <1>4, <1>5, <1>7, <1>8 DEF f

\* A step with the receipts, the sales and the call as they were.
LEMMA SaleQuiet ==
  ASSUME SaleInv, UNCHANGED <<receipts, sold, call>>
  PROVE  SaleInv'
<1>1. \A t \in Tokens : Reported(t)' = Reported(t) /\ InFlight(t)' = InFlight(t)
  BY DEF Reported, InFlight, InCall
<1>2. InCall' = InCall
  BY DEF InCall
<1>3. QED
  BY <1>1, <1>2 DEF SaleInv, NoSaleWithoutReceipt

\* The DEX gets the input of the call that begins.
LEMMA SaleStarts ==
  ASSUME IntentInv, SaleInv, NEW i \in Intents, NEW u \in Users, NEW n \in Nonces,
         NEW r \in Routes, StartRoute(i, u, n, r)
  PROVE  SaleInv'
<1>1. StateTypeOK
  BY FieldTypes DEF IntentInv, TypeOK
<1>2. ~InCall /\ UNCHANGED receipts
  BY DEF StartRoute, Unlocked, reports
<1>3. InCall' /\ call'.route = r /\ call'.saved.sold = sold /\ call'.saved.receipts = receipts
  <2>1. InCall'
    BY <1>1, StartTypes, NoneIsNoCall DEF IntentInv, InCall
  <2>2. QED
    BY <2>1 DEF StartRoute, Snapshot
<1>4. sold' = [sold EXCEPT ![r.tokenIn] = sold[r.tokenIn] + r.amountIn]
  BY DEF StartRoute
<1>5. r.tokenIn \in Tokens /\ r.amountIn \in Nat
  BY IntentAssumption DEF Routes
<1>6. ASSUME NEW t \in Tokens
      PROVE  /\ sold[t] <= TotalOf(ReportsOf(receipts, t))
             /\ sold'[t] <= TotalOf(Reported(t)') + InFlight(t)'
  <2>1. sold \in [Tokens -> Nat]
    BY <1>1 DEF StateTypeOK
  <2>2. TotalOf(ReportsOf(receipts, t)) \in Nat
    BY <1>1, ReportsAreNat DEF StateTypeOK
  <2>3. Reported(t) = ReportsOf(receipts, t) /\ Reported(t)' = ReportsOf(receipts, t)
    BY <1>2, ReportedIsReports DEF Reported
  <2>4. sold[t] <= TotalOf(Reported(t)) + InFlight(t)
    BY DEF SaleInv, NoSaleWithoutReceipt
  <2>5. InFlight(t) = 0
    BY <1>2 DEF InFlight
  <2>6. InFlight(t)' = IF r.tokenIn = t THEN r.amountIn ELSE 0
    BY <1>3 DEF InFlight
  <2>7. sold'[t] = sold[t] + (IF r.tokenIn = t THEN r.amountIn ELSE 0)
    BY <1>4, <1>5, <2>1
  <2>8. QED
    BY <1>5, <2>1, <2>2, <2>3, <2>4, <2>5, <2>6, <2>7
<1>7. QED
  BY <1>3, <1>6 DEF SaleInv, NoSaleWithoutReceipt

\* The call ends with the receipt of its sale.
LEMMA SaleFinishes ==
  ASSUME IntentInv, SaleInv, FinishRoute
  PROVE  SaleInv'
<1>1. StateTypeOK /\ now \in Nat
  BY FieldTypes, IntentAssumption DEF IntentInv, TypeOK
<1>2. InCall /\ ~InCall' /\ UNCHANGED sold
  BY DEF FinishRoute, InCall, funds
<1>3. call.intent \in Intents /\ call.route \in Routes
  BY <1>2, CallRecord DEF CallType, IntentInv
<1>4. /\ receipts[call.intent] = None
      /\ receipts' = [receipts EXCEPT ![call.intent] = [route |-> call.route, recordedAt |-> now]]
  BY DEF FinishRoute, Record
<1>5. ASSUME NEW t \in Tokens
      PROVE  sold'[t] <= TotalOf(Reported(t)') + InFlight(t)'
  <2>1. Reported(t) = ReportsOf(receipts, t)
    BY ReportedIsReports
  <2>2. Reported(t)' = ReportsOf(receipts', t)
    BY DEF Reported, ReportsOf, ReportOf
  <2>3. InFlight(t)' = 0
    BY <1>2 DEF InFlight
  <2>4. InFlight(t) = IF call.route.tokenIn = t THEN call.route.amountIn ELSE 0
    BY <1>2 DEF InFlight
  <2>5. TotalOf(ReportsOf(receipts', t)) = TotalOf(ReportsOf(receipts, t)) + InFlight(t)
    BY <1>1, <1>3, <1>4, <2>4, NewReceipt DEF StateTypeOK
  <2>6. sold[t] <= TotalOf(Reported(t)) + InFlight(t)
    BY DEF SaleInv, NoSaleWithoutReceipt
  <2>7. TotalOf(ReportsOf(receipts, t)) \in Nat /\ InFlight(t) \in Nat /\ sold[t] \in Nat
    BY <1>1, ReportsAreNat, InFlightIsNat DEF StateTypeOK, IntentInv
  <2>8. QED
    BY <1>2, <2>1, <2>2, <2>3, <2>5, <2>6, <2>7
<1>6. QED
  BY <1>2, <1>5 DEF SaleInv, NoSaleWithoutReceipt

\* A revert takes back the sale and every receipt written since.
LEMMA SaleReverts ==
  ASSUME IntentInv, SaleInv, Revert
  PROVE  SaleInv'
<1>1. InCall /\ ~InCall' /\ sold' = call.saved.sold /\ receipts' = call.saved.receipts
  BY DEF Revert, InCall
<1>2. sold' \in [Tokens -> Nat] /\ receipts' \in [Intents -> ReceiptType]
  BY FieldTypes, RevertTypes DEF IntentInv, TypeOK, StateTypeOK
<1>3. ASSUME NEW t \in Tokens
      PROVE  sold'[t] <= TotalOf(Reported(t)') + InFlight(t)'
  <2>1. Reported(t)' = ReportsOf(receipts', t)
    BY DEF Reported, ReportsOf, ReportOf
  <2>2. InFlight(t)' = 0
    BY <1>1 DEF InFlight
  <2>3. sold'[t] <= TotalOf(ReportsOf(receipts', t))
    BY <1>1 DEF SaleInv
  <2>4. TotalOf(ReportsOf(receipts', t)) \in Nat /\ sold'[t] \in Nat
    BY <1>2, ReportsAreNat
  <2>5. QED
    BY <2>1, <2>2, <2>3, <2>4
<1>4. QED
  BY <1>1, <1>3 DEF SaleInv, NoSaleWithoutReceipt

\* A report of somebody else never lowers what is reported.
LEMMA SaleReported ==
  ASSUME IntentInv, SaleInv, NEW i \in Intents, NEW r \in Routes, NEW reporter \in Reporters,
         Report(i, r, reporter)
  PROVE  SaleInv'
<1>1. StateTypeOK /\ now \in Nat
  BY FieldTypes, IntentAssumption DEF IntentInv, TypeOK
<1>2. UNCHANGED <<sold, call>> /\ InCall' = InCall
  BY DEF Report, funds, InCall
<1>3. /\ receipts[i] = None
      /\ receipts' = [receipts EXCEPT ![i] = [route |-> r, recordedAt |-> now]]
  BY DEF Report, Record
<1>4. r.amountIn \in Nat
  BY IntentAssumption DEF Routes
<1>5. ASSUME NEW t \in Tokens
      PROVE  sold'[t] <= TotalOf(Reported(t)') + InFlight(t)'
  <2>1. Reported(t) = ReportsOf(receipts, t)
    BY ReportedIsReports
  <2>2. Reported(t)' = ReportsOf(receipts', t) /\ InFlight(t)' = InFlight(t)
    BY <1>2 DEF Reported, ReportsOf, ReportOf, InFlight
  <2>3. TotalOf(ReportsOf(receipts', t))
          = TotalOf(ReportsOf(receipts, t)) + (IF r.tokenIn = t THEN r.amountIn ELSE 0)
    BY <1>1, <1>3, NewReceipt DEF StateTypeOK
  <2>4. sold[t] <= TotalOf(Reported(t)) + InFlight(t)
    BY DEF SaleInv, NoSaleWithoutReceipt
  <2>5. TotalOf(ReportsOf(receipts, t)) \in Nat /\ InFlight(t) \in Nat /\ sold[t] \in Nat
    BY <1>1, ReportsAreNat, InFlightIsNat DEF StateTypeOK, IntentInv
  <2>6. QED
    BY <1>2, <1>4, <2>1, <2>2, <2>3, <2>4, <2>5
<1>6. QED
  BY <1>2, <1>5 DEF SaleInv, NoSaleWithoutReceipt

LEMMA SaleStep ==
  ASSUME IntentInv, SaleInv, [Next]_vars
  PROVE  SaleInv'
<1>1. CASE UserStep \/ \E i \in Intents : ExecuteIntent(i)
  <2>1. UNCHANGED <<receipts, sold, call>>
    BY <1>1 DEF UserStep, Lock, CancelAndRefund, ExpireAndRefund, ExecuteIntent, reports
  <2>2. QED
    BY <2>1, SaleQuiet
<1>2. CASE \E i \in Intents, u \in Users, n \in Nonces, r \in Routes : StartRoute(i, u, n, r)
  BY <1>2, SaleStarts
<1>3. CASE EndCall
  BY <1>3, SaleFinishes, SaleReverts DEF EndCall
<1>4. CASE \E i \in Intents, r \in Routes, reporter \in Reporters : Report(i, r, reporter)
  BY <1>4, SaleReported
<1>5. CASE OwnerStep \/ Tick \/ UNCHANGED vars
  <2>1. UNCHANGED <<receipts, sold, call>>
    BY <1>5 DEF OwnerStep, SetSolver, SetExecutionBinding, SetPaused, SetRecorder, Tick, vars,
      funds, reports
  <2>2. QED
    BY <2>1, SaleQuiet
<1>6. CASE \/ \E t \in Tokens : StrayToEscrow(t)
           \/ \E b \in Bindings, t \in Tokens : StrayToBinding(b, t) \/ StrayToSolver(b, t)
  <2>1. UNCHANGED <<receipts, sold, call>>
    BY <1>6 DEF StrayToEscrow, StrayToBinding, StrayToSolver, reports
  <2>2. QED
    BY <2>1, SaleQuiet
<1>7. QED
  BY <1>1, <1>2, <1>3, <1>4, <1>5, <1>6 DEF Next, OperatorStep, StrangerStep

\* No DEX ever received input that no receipt accounts for, whoever the owner
\* names as recorder, however calls fail and whatever runs inside them.
THEOREM EverySaleHasReceipt == Spec => []NoSaleWithoutReceipt
<1>1. Init => SaleInv
  <2> SUFFICES ASSUME Init
               PROVE  SaleInv
    OBVIOUS
  <2>1. ~InCall
    BY DEF Init, InCall
  <2>2. ASSUME NEW t \in Tokens
        PROVE  sold[t] <= TotalOf(Reported(t)) + InFlight(t)
    <3>1. receipts \in [Intents -> ReceiptType]
      BY DEF Init, ReceiptType
    <3>2. TotalOf(Reported(t)) \in Nat
      BY <3>1, ReportsAreNat, ReportedIsReports
    <3>3. sold[t] = 0 /\ InFlight(t) = 0
      BY <2>1 DEF Init, InFlight
    <3>4. QED
      BY <3>2, <3>3
  <2>3. QED
    BY <2>1, <2>2 DEF SaleInv, NoSaleWithoutReceipt
<1>2. IntentInv /\ SaleInv /\ [Next]_vars => SaleInv'
  BY SaleStep
<1>3. SaleInv => NoSaleWithoutReceipt
  BY DEF SaleInv
<1>4. QED
  BY <1>1, <1>2, <1>3, Invariance, PTL DEF Spec
=============================================================================
