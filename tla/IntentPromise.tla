---------------------------- MODULE IntentPromise ----------------------------
(***************************************************************************)
(* What LQCSourceEscrow promises its users, without hub, binding, solver   *)
(* or router: a deposit taken from its owner's wallet is open until it is  *)
(* settled once, either by delivery no later than its deadline, or by      *)
(* paying the whole deposit back to its owner.                             *)
(***************************************************************************)
EXTENDS Naturals

CONSTANTS Intents, Users, Tokens, Amounts

VARIABLES
  wallet,    \* [Tokens -> [Users -> Nat]], what the users hold themselves
  promise,   \* per intent "none", "open", "delivered" or "returned"
  owner,     \* per intent, meaningful once it is open
  deadline,  \* per intent, meaningful once it is open
  deposit,   \* per open intent its [token, amount]
  now

vars == <<wallet, promise, owner, deadline, deposit, now>>

Init ==
  /\ wallet \in [Tokens -> [Users -> Nat]]
  /\ promise = [i \in Intents |-> "none"]
  /\ now = 0

Open(i, u) ==
  /\ promise[i] = "none"
  /\ promise' = [promise EXCEPT ![i] = "open"]
  /\ owner'[i] = u
  /\ deadline'[i] > now
  /\ \E t \in Tokens, a \in Amounts :
       /\ a <= wallet[t][u]
       /\ deposit'[i] = [token |-> t, amount |-> a]
       /\ wallet' = [wallet EXCEPT ![t][u] = wallet[t][u] - a]

\* The deposit of i, paid to u.
PaidTo(u, i) ==
  wallet' = [wallet EXCEPT ![deposit[i].token][u] =
               wallet[deposit[i].token][u] + deposit[i].amount]

\* To a user or to somebody outside.
Deliver(i) ==
  /\ promise[i] = "open"
  /\ now <= deadline[i]
  /\ promise' = [promise EXCEPT ![i] = "delivered"]
  /\ UNCHANGED wallet \/ \E u \in Users : PaidTo(u, i)

Return(i) ==
  /\ promise[i] = "open"
  /\ promise' = [promise EXCEPT ![i] = "returned"]
  /\ PaidTo(owner[i], i)

\* The terms of the other open promises stand.
TermsKept(others) ==
  \A i \in others :
    promise[i] = "open" => /\ owner'[i] = owner[i]
                           /\ deadline'[i] = deadline[i]
                           /\ deposit'[i] = deposit[i]

Tick ==
  /\ now' > now
  /\ TermsKept(Intents)
  /\ UNCHANGED <<wallet, promise>>

Next ==
  \/ \E i \in Intents :
       /\ (\E u \in Users : Open(i, u)) \/ Deliver(i) \/ Return(i)
       /\ TermsKept(Intents \ {i})
       /\ UNCHANGED now
  \/ Tick

Spec == Init /\ [][Next]_vars
=============================================================================
