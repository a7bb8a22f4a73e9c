---------------------------- MODULE IntentEscrow ----------------------------
(***************************************************************************)
(* Custody of same-chain intents: LQCSourceEscrow with its                 *)
(* LQCCoreIntentState, LQCIntentHub, LQCIntentSolverBinding,               *)
(* LQCInternalSolver and LQCExecutionReceipt.                              *)
(*                                                                         *)
(* A transaction that runs no foreign code is one action.  A routed        *)
(* execution hands control to a DEX in the middle, so it is two: StartRoute *)
(* up to the call of the DEX, then FinishRoute or Revert.  What happens in *)
(* between is nested in the same transaction, and Revert undoes that too.  *)
(***************************************************************************)
EXTENDS AccountSums

CONSTANTS
  Intents,       \* intent hashes
  Users,         \* senders
  Nonces,
  Tokens,        \* input tokens, with exact transfers
  Amounts,
  Deadlines,
  Operators,     \* accounts the owner may name as hub.solver
  Bindings,      \* deployed bindings, each with its own internal solver
  Reporters,     \* recorders other than a binding the owner may name
  InitialFunds,  \* what every user holds of every token at first
  MaxStray,      \* bound on the tokens strangers send to a contract
  MaxTime,       \* bound on the clock
  None           \* address(0), or an absent record

ASSUME IntentAssumption ==
  /\ IsFiniteSet(Intents)
  /\ Amounts \subseteq Nat \ {0}
  /\ Deadlines \subseteq Nat
  /\ InitialFunds \in Nat /\ MaxStray \in Nat /\ MaxTime \in Nat
  /\ None \notin Intents \cup Users \cup Nonces \cup Tokens
               \cup Operators \cup Bindings \cup Reporters

Statuses == {"None", "Pending", "Executed", "Cancelled", "Expired"}
Recorders == Bindings \cup Reporters

\* The part of RouteIntent that is compared with the escrowed intent.
Routes == [tokenIn : Tokens, amountIn : Amounts, deadline : Deadlines]

VARIABLES
  intents,     \* LQCCoreIntentState._intents
  nonceIntent, \* LQCCoreIntentState._nonceIntent
  escrows,     \* LQCSourceEscrow.escrows
  wallet,      \* tokens of the users
  vault,       \* tokens of the escrow
  atBinding,   \* tokens that rest at a binding
  atSolver,    \* tokens that rest at a binding's solver
  sold,        \* tokens the DEXs have received through the router
  receipts,    \* LQCExecutionReceipt.receipts
  recorder,    \* LQCExecutionReceipt.recorder
  hub,         \* LQCIntentHub.solver, executionBinding, paused
  call,        \* the routed execution under way, or None
  now          \* block.timestamp

lifecycle == <<intents, nonceIntent, escrows>>
funds     == <<wallet, vault, atBinding, atSolver, sold>>
reports   == <<receipts, recorder>>
vars      == <<lifecycle, funds, reports, hub, call, now>>

NoIntent == [sender |-> None, nonce |-> None, deadline |-> 0, status |-> "None"]
NoEscrow == [token |-> None, amount |-> 0]

Init ==
  /\ intents = [i \in Intents |-> NoIntent]
  /\ nonceIntent = [u \in Users |-> [n \in Nonces |-> None]]
  /\ escrows = [i \in Intents |-> NoEscrow]
  /\ wallet = [t \in Tokens |-> [u \in Users |-> InitialFunds]]
  /\ vault = [t \in Tokens |-> 0]
  /\ atBinding = [b \in Bindings |-> [t \in Tokens |-> 0]]
  /\ atSolver = [b \in Bindings |-> [t \in Tokens |-> 0]]
  /\ sold = [t \in Tokens |-> 0]
  /\ receipts = [i \in Intents |-> None]
  /\ recorder = None
  /\ hub = [solver |-> None, binding |-> None, paused |-> FALSE]
  /\ call = None
  /\ now = 0

Pending(i) == intents[i].status = "Pending"

\* _requirePending.
Live(i) == Pending(i) /\ now <= intents[i].deadline

InCall == call # None

\* Mutant: the escrow's functions without nonReentrant.
Unguarded == TRUE

\* The nonReentrant guard of every function of the escrow.
Unlocked == ~InCall

SetStatus(i, status) == intents' = [intents EXCEPT ![i].status = status]

DropEscrow(i) == escrows' = [escrows EXCEPT ![i] = NoEscrow]

\* The escrow pays the amount of intent i out of its balance ...
Disburse(i) ==
  /\ escrows[i].amount <= vault[escrows[i].token]
  /\ vault' = [vault EXCEPT ![escrows[i].token] = vault[escrows[i].token] - escrows[i].amount]

\* ... to user u.
PayUser(i, u) ==
  wallet' = [wallet EXCEPT ![escrows[i].token][u] =
               wallet[escrows[i].token][u] + escrows[i].amount]

-----------------------------------------------------------------------------
(* The escrow's users.                                                     *)

\* lock, called by u.
Lock(i, u, n, t, a, d) ==
  /\ Unlocked
  /\ d > now
  /\ intents[i].status = "None"
  /\ nonceIntent[u][n] = None
  /\ a <= wallet[t][u]
  /\ intents' = [intents EXCEPT ![i] =
                   [sender |-> u, nonce |-> n, deadline |-> d, status |-> "Pending"]]
  /\ nonceIntent' = [nonceIntent EXCEPT ![u][n] = i]
  /\ escrows' = [escrows EXCEPT ![i] = [token |-> t, amount |-> a]]
  /\ wallet' = [wallet EXCEPT ![t][u] = wallet[t][u] - a]
  /\ vault' = [vault EXCEPT ![t] = vault[t] + a]
  /\ UNCHANGED <<atBinding, atSolver, sold, reports, hub, call, now>>

\* cancelAndRefund, called by u.
CancelAndRefund(i, u) ==
  /\ Unlocked
  /\ Live(i)
  /\ u = intents[i].sender
  /\ SetStatus(i, "Cancelled")
  /\ DropEscrow(i)
  /\ Disburse(i)
  /\ PayUser(i, u)
  /\ UNCHANGED <<nonceIntent, atBinding, atSolver, sold, reports, hub, call, now>>

\* Mutant: a pause of the hub also stops refunds.
ExpireUnlessPaused(i) ==
  /\ Unlocked
  /\ ~hub.paused
  /\ Pending(i)
  /\ now > intents[i].deadline
  /\ SetStatus(i, "Expired")
  /\ DropEscrow(i)
  /\ Disburse(i)
  /\ PayUser(i, intents[i].sender)
  /\ UNCHANGED <<nonceIntent, atBinding, atSolver, sold, reports, hub, call, now>>

\* expireAndRefund, called by anybody.
ExpireAndRefund(i) ==
  /\ Unlocked
  /\ Pending(i)
  /\ now > intents[i].deadline
  /\ SetStatus(i, "Expired")
  /\ DropEscrow(i)
  /\ Disburse(i)
  /\ PayUser(i, intents[i].sender)
  /\ UNCHANGED <<nonceIntent, atBinding, atSolver, sold, reports, hub, call, now>>

-----------------------------------------------------------------------------
(* The operator.                                                           *)

HubActive == hub.solver # None /\ ~hub.paused

\* executeIntent and release, to a user or to somebody else.
ExecuteIntent(i) ==
  /\ HubActive
  /\ Unlocked
  /\ Live(i)
  /\ SetStatus(i, "Executed")
  /\ DropEscrow(i)
  /\ Disburse(i)
  /\ UNCHANGED wallet \/ \E u \in Users : PayUser(i, u)
  /\ UNCHANGED <<nonceIntent, atBinding, atSolver, sold, reports, hub, call, now>>

\* What the hub and then the binding compare.
Claimed(i, sender, nonce, r) ==
  intents[i].sender = sender /\ intents[i].nonce = nonce /\ intents[i].deadline = r.deadline

\* forward: the binding has received this input, and nothing but this input.
BindingAccepts(b, i, r) ==
  /\ escrows[i] = [token |-> r.tokenIn, amount |-> r.amountIn]
  /\ atBinding[b][r.tokenIn] + escrows[i].amount = r.amountIn

\* execute: likewise the solver.
SolverAccepts(b, r) ==
  /\ atSolver[b][r.tokenIn] + r.amountIn = r.amountIn
  /\ now <= r.deadline

\* All that a revert restores.
Snapshot ==
  [intents |-> intents, nonceIntent |-> nonceIntent, escrows |-> escrows,
   wallet |-> wallet, vault |-> vault, atBinding |-> atBinding, atSolver |-> atSolver,
   sold |-> sold, receipts |-> receipts, recorder |-> recorder, hub |-> hub]

\* executeRoutedIntent down to the DEX: hub, executeThrough, forward,
\* execute, swapExactInput.  The tokens pass from the escrow through
\* binding, solver and router to the DEX; the escrow record stays.
StartRoute(i, sender, nonce, r) ==
  /\ HubActive
  /\ hub.binding # None
  /\ Unlocked
  /\ Live(i)
  /\ Claimed(i, sender, nonce, r)
  /\ BindingAccepts(hub.binding, i, r)
  /\ SolverAccepts(hub.binding, r)
  /\ Disburse(i)
  /\ sold' = [sold EXCEPT ![r.tokenIn] = sold[r.tokenIn] + r.amountIn]
  /\ call' = [intent |-> i, binding |-> hub.binding, route |-> r, saved |-> Snapshot]
  /\ UNCHANGED <<lifecycle, wallet, atBinding, atSolver, reports, hub, now>>

\* record, called by caller.
Record(i, r, caller) ==
  /\ caller = recorder
  /\ receipts[i] = None
  /\ receipts' = [receipts EXCEPT ![i] = [route |-> r, recordedAt |-> now]]

\* The DEX returns: the rest of execute, forward and executeThrough.
FinishRoute ==
  /\ InCall
  /\ atSolver[call.binding][call.route.tokenIn] = 0
  /\ Record(call.intent, call.route, call.binding)
  /\ DropEscrow(call.intent)
  /\ Live(call.intent)
  /\ SetStatus(call.intent, "Executed")
  /\ call' = None
  /\ UNCHANGED <<nonceIntent, funds, recorder, hub, now>>

\* Mutant: the failure is caught, and what was transferred stays transferred.
SwallowFailure ==
  /\ InCall
  /\ call' = None
  /\ UNCHANGED <<lifecycle, funds, reports, hub, now>>

\* The DEX, the router's checks on its output, or any later check fails.
Revert ==
  /\ InCall
  /\ intents' = call.saved.intents
  /\ nonceIntent' = call.saved.nonceIntent
  /\ escrows' = call.saved.escrows
  /\ wallet' = call.saved.wallet
  /\ vault' = call.saved.vault
  /\ atBinding' = call.saved.atBinding
  /\ atSolver' = call.saved.atSolver
  /\ sold' = call.saved.sold
  /\ receipts' = call.saved.receipts
  /\ recorder' = call.saved.recorder
  /\ hub' = call.saved.hub
  /\ call' = None
  /\ UNCHANGED now

-----------------------------------------------------------------------------
(* Steps that may also happen while the DEX is in control.                 *)

SetSolver(o) ==
  /\ hub' = [hub EXCEPT !.solver = o]
  /\ UNCHANGED <<lifecycle, funds, reports, call, now>>

SetExecutionBinding(b) ==
  /\ hub' = [hub EXCEPT !.binding = b]
  /\ UNCHANGED <<lifecycle, funds, reports, call, now>>

SetPaused(value) ==
  /\ hub' = [hub EXCEPT !.paused = value]
  /\ UNCHANGED <<lifecycle, funds, reports, call, now>>

SetRecorder(next) ==
  /\ recorder' = next
  /\ UNCHANGED <<lifecycle, funds, receipts, hub, call, now>>

\* A recorder that is no binding reports an execution of its own account.
Report(i, r, reporter) ==
  /\ Record(i, r, reporter)
  /\ UNCHANGED <<lifecycle, funds, recorder, hub, call, now>>

\* Somebody sends one unit of t to the escrow, a binding or a solver.
StrayToEscrow(t) ==
  /\ vault[t] < MaxStray
  /\ vault' = [vault EXCEPT ![t] = vault[t] + 1]
  /\ UNCHANGED <<lifecycle, wallet, atBinding, atSolver, sold, reports, hub, call, now>>

StrayToBinding(b, t) ==
  /\ atBinding[b][t] < MaxStray
  /\ atBinding' = [atBinding EXCEPT ![b][t] = atBinding[b][t] + 1]
  /\ UNCHANGED <<lifecycle, wallet, vault, atSolver, sold, reports, hub, call, now>>

StrayToSolver(b, t) ==
  /\ atSolver[b][t] < MaxStray
  /\ atSolver' = [atSolver EXCEPT ![b][t] = atSolver[b][t] + 1]
  /\ UNCHANGED <<lifecycle, wallet, vault, atBinding, sold, reports, hub, call, now>>

\* The next block.
Tick ==
  /\ ~InCall
  /\ now < MaxTime
  /\ now' = now + 1
  /\ UNCHANGED <<lifecycle, funds, reports, hub, call>>

-----------------------------------------------------------------------------
UserStep ==
  \E i \in Intents :
    \/ \E u \in Users, n \in Nonces, t \in Tokens, a \in Amounts, d \in Deadlines :
         Lock(i, u, n, t, a, d)
    \/ \E u \in Users : CancelAndRefund(i, u)
    \/ ExpireAndRefund(i)

OperatorStep ==
  \E i \in Intents :
    \/ ExecuteIntent(i)
    \/ \E u \in Users, n \in Nonces, r \in Routes : StartRoute(i, u, n, r)

EndCall == FinishRoute \/ Revert

OwnerStep ==
  \/ \E o \in Operators : SetSolver(o)
  \/ \E b \in Bindings : SetExecutionBinding(b)
  \/ \E value \in BOOLEAN : SetPaused(value)
  \/ \E next \in Recorders : SetRecorder(next)

StrangerStep ==
  \/ \E i \in Intents, r \in Routes, reporter \in Reporters : Report(i, r, reporter)
  \/ \E t \in Tokens : StrayToEscrow(t)
  \/ \E b \in Bindings, t \in Tokens : StrayToBinding(b, t) \/ StrayToSolver(b, t)

Next == UserStep \/ OperatorStep \/ EndCall \/ OwnerStep \/ StrangerStep \/ Tick

Spec == Init /\ [][Next]_vars

-----------------------------------------------------------------------------
(* Properties.                                                             *)

\* The escrowed amounts in token t.
Owed(t) == [i \in Intents |-> IF escrows[i].token = t THEN escrows[i].amount ELSE 0]

\* What the routed execution under way has taken out.
InFlight(t) == IF InCall /\ call.route.tokenIn = t THEN call.route.amountIn ELSE 0

\* The amounts of the recorded executions in token t.
Reported(t) ==
  [i \in Intents |-> IF receipts[i] # None /\ receipts[i].route.tokenIn = t
                     THEN receipts[i].route.amountIn ELSE 0]

IntentType ==
  {NoIntent} \cup [sender : Users, nonce : Nonces, deadline : Deadlines,
                   status : Statuses \ {"None"}]

EscrowType == {NoEscrow} \cup [token : Tokens, amount : Amounts]

ReceiptType == {None} \cup [route : Routes, recordedAt : Nat]

HubType ==
  [solver : Operators \cup {None}, binding : Bindings \cup {None}, paused : BOOLEAN]

StateType ==
  [intents : [Intents -> IntentType],
   nonceIntent : [Users -> [Nonces -> Intents \cup {None}]],
   escrows : [Intents -> EscrowType],
   wallet : [Tokens -> [Users -> Nat]],
   vault : [Tokens -> Nat],
   atBinding : [Bindings -> [Tokens -> Nat]],
   atSolver : [Bindings -> [Tokens -> Nat]],
   sold : [Tokens -> Nat],
   receipts : [Intents -> ReceiptType],
   recorder : Recorders \cup {None},
   hub : HubType]

CallType == [intent : Intents, binding : Bindings, route : Routes, saved : StateType]

ASSUME NoneIsNoCall == None \notin CallType

ASSUME NoneIsNoReceipt == None \notin [route : Routes, recordedAt : Nat]

\* Every variable has its type.
TypeOK ==
  /\ Snapshot \in StateType
  /\ call \in CallType \cup {None}
  /\ now \in 0 .. MaxTime

\* The escrow covers every record it holds, at every instant at which
\* foreign code can run: during a routed execution only the amount of the
\* intent being executed is missing.  (SourceEscrow's comment on why the
\* record may stay readable during the execution.)
Custody ==
  \A t \in Tokens : TotalOf(Owed(t)) <= vault[t] + InFlight(t)

\* An escrow record is there exactly as long as the intent is pending, so
\* that nothing can be paid twice and nothing pending is without record.
RecordsMatchStatus ==
  \A i \in Intents : Pending(i) <=> escrows[i] # NoEscrow

\* Whoever else may record, the DEXs have never received more than the amounts
\* of the executions on record and of the one under way: no swap goes without a
\* receipt, also when a call fails half way or another recorder was faster.
NoSaleWithoutReceipt ==
  \A t \in Tokens : sold[t] <= TotalOf(Reported(t)) + InFlight(t)

\* No two intents of a sender have the same nonce, whatever became of the
\* first ("one sender nonce / one intent lifecycle").
OneIntentPerNonce ==
  \A i, j \in Intents :
    /\ i # j
    /\ intents[i].status # "None"
    /\ intents[j].status # "None"
    => <<intents[i].sender, intents[i].nonce>> # <<intents[j].sender, intents[j].nonce>>

\* The code keeps the promise of IntentPromise: a deposit is settled once,
\* delivered in time or returned whole to its owner; and while a routed
\* execution is under way nothing of that shows, also when it fails.
PromiseOf ==
  [Pending |-> "open", Executed |-> "delivered", Cancelled |-> "returned",
   Expired |-> "returned", None |-> "none"]

Promise == INSTANCE IntentPromise WITH
  promise  <- [i \in Intents |-> PromiseOf[intents[i].status]],
  owner    <- [i \in Intents |-> intents[i].sender],
  deadline <- [i \in Intents |-> intents[i].deadline],
  deposit  <- escrows

PromiseKept == Promise!Spec

\* Time passes, transactions end, and between the transactions of others
\* the refund of an expired intent, which anybody may call, gets its turn.
\* Nothing is assumed of operator, owner or DEX.
FairSpec ==
  /\ Spec
  /\ WF_vars(EndCall)
  /\ SF_vars(Tick)
  /\ \A i \in Intents : SF_vars(ExpireAndRefund(i))

\* No escrowed intent is pending for ever, however the hub is paused or
\* left unset, whatever stray tokens lie at binding and solver, and
\* whoever is the recorder.
EveryIntentSettles ==
  \A i \in Intents : Pending(i) ~> intents[i].status \in {"Executed", "Cancelled", "Expired"}
=============================================================================
