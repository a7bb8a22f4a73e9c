------------------------------ MODULE StreamFeed ------------------------------
(***************************************************************************)
(* The mark price stream of one futures market (websocket-stream.js): the  *)
(* gateway numbers the events of the price service for its listeners, and  *)
(* a client follows sequenceRecovery: it applies an event whose number is  *)
(* the next, and otherwise rebuilds its state from the REST snapshot, when *)
(* the snapshot can be had.  The numbers belong to the stream, so its      *)
(* listeners share them.  A new subscription starts without a number.  The *)
(* transport may lose, repeat or reorder envelopes.  (The other streams do *)
(* not ask the oracle: they behave as this one with a healthy market.)     *)
(***************************************************************************)
EXTENDS Integers, Sequences, FiniteSets, SequencesExt

CONSTANTS
    Subscribers,
    MaxEvents,   \* bound: events of the provider
    MaxFaults    \* bound: faults of the transport, restarts, closed subscriptions

ASSUME StreamAssumption == MaxEvents \in Nat /\ MaxFaults \in Nat

VARIABLES
    event,      \* number of the provider's newest event
    healthy,    \* what the oracle status says of the market
    sequence,   \* sequencer.current of the stream
    listeners,  \* the clients subscribed, in the order they came
    onTheWay,   \* onTheWay[c]: envelopes on their way to c
    known,      \* known[c]: [previous, seen], its last number and event
    missing,    \* history: envelopes c did not get to apply, beyond what it has seen
    faults

streamVars == <<event, healthy, sequence, listeners, onTheWay, known, missing, faults>>

NewClient == [previous |-> 0, seen |-> 0]
Fault == faults < MaxFaults /\ faults' = faults + 1

\* A client subscribes; what it knew of an earlier subscription is gone.
Subscribe(c) ==
    /\ c \notin ToSet(listeners)
    /\ listeners' = Append(listeners, c)
    /\ onTheWay' = [onTheWay EXCEPT ![c] = <<>>]
    /\ known' = [known EXCEPT ![c] = NewClient] /\ missing' = [missing EXCEPT ![c] = {}]
    /\ UNCHANGED <<event, healthy, sequence, faults>>

PlaceOf(c) == CHOOSE i \in DOMAIN listeners : listeners[i] = c

Unsubscribe(c) ==
    /\ c \in ToSet(listeners) /\ Fault
    /\ listeners' = RemoveAt(listeners, PlaceOf(c))
    /\ onTheWay' = [onTheWay EXCEPT ![c] = <<>>]
    /\ UNCHANGED <<event, healthy, sequence, known, missing>>

\* envelope: every listener's envelope takes the next number of the stream.
Envelope(c, e) == [sequence |-> sequence + PlaceOf(c), event |-> e]

\* The provider's event; an event of a market whose oracle is unhealthy is
\* dropped before it gets a number.
Publish ==
    /\ event < MaxEvents /\ event' = event + 1
    /\ IF healthy
       THEN /\ sequence' = sequence + Len(listeners)
            /\ onTheWay' = [c \in Subscribers |->
                          IF c \in ToSet(listeners) THEN Append(onTheWay[c], Envelope(c, event'))
                                                    ELSE onTheWay[c]]
       ELSE UNCHANGED <<sequence, onTheWay>>
    /\ UNCHANGED <<healthy, listeners, known, missing, faults>>

OracleTurns ==
    /\ Fault /\ healthy' = ~healthy
    /\ UNCHANGED <<event, sequence, listeners, onTheWay, known, missing>>

\* Mutant: only numbers that do not grow are a gap.
OldNumber(previous, incoming) == previous > 0 /\ incoming <= previous

\* detectSequenceGap
Gap(previous, incoming) == previous > 0 /\ incoming # previous + 1

\* sequenceRecovery: APPLY_EVENT, or REBUILD_FROM_REST with the newest state.
Applied(c, envelope) == [previous |-> envelope.sequence, seen |-> envelope.event]
Rebuilt(c, envelope) == [previous |-> envelope.sequence, seen |-> event]

Recovered(c, envelope) ==
    IF Gap(known[c].previous, envelope.sequence) THEN Rebuilt(c, envelope)
                                                  ELSE Applied(c, envelope)

\* The snapshot of the mark price is refused while the market is unhealthy.
SnapshotAvailable == healthy

\* What c misses when it does not take its i-th envelope.  A client that has no
\* number yet cannot know.
MissingWithout(c, i) ==
    IF /\ known[c].previous > 0 /\ onTheWay[c][i].event > known[c].seen
       /\ onTheWay[c][i] \notin ToSet(RemoveAt(onTheWay[c], i))
    THEN missing[c] \cup {onTheWay[c][i]} ELSE missing[c]

\* Envelopes may overtake one another; the client takes whatever comes, but
\* stays as it is when it should rebuild and cannot.
Receive(c) ==
    \E i \in DOMAIN onTheWay[c] :
        LET gap == Gap(known[c].previous, onTheWay[c][i].sequence) IN
        /\ i = 1 \/ faults < MaxFaults
        /\ faults' = IF i = 1 THEN faults ELSE faults + 1
        /\ onTheWay' = [onTheWay EXCEPT ![c] = RemoveAt(@, i)]
        /\ IF gap /\ ~SnapshotAvailable
           THEN /\ missing' = [missing EXCEPT ![c] = MissingWithout(c, i)]
                /\ UNCHANGED known
           ELSE /\ known' = [known EXCEPT ![c] = Recovered(c, onTheWay[c][i])]
                /\ missing' = [missing EXCEPT ![c] =
                                 IF gap THEN {lost \in @ : lost.event > event} ELSE @]
        /\ UNCHANGED <<event, healthy, sequence, listeners>>

\* An envelope is lost.
LoseEnvelope(c) ==
    /\ Fault
    /\ \E i \in DOMAIN onTheWay[c] :
        /\ onTheWay' = [onTheWay EXCEPT ![c] = RemoveAt(@, i)]
        /\ missing' = [missing EXCEPT ![c] = MissingWithout(c, i)]
    /\ UNCHANGED <<event, healthy, sequence, listeners, known>>

Repeat(c) ==
    /\ Fault
    /\ \E i \in DOMAIN onTheWay[c] : onTheWay' = [onTheWay EXCEPT ![c] = Append(@, onTheWay[c][i])]
    /\ UNCHANGED <<event, healthy, sequence, listeners, known, missing>>

\* The gateway starts again: a new sequencer, and every connection is gone.
Restart ==
    /\ Fault
    /\ sequence' = 0 /\ listeners' = <<>> /\ onTheWay' = [c \in Subscribers |-> <<>>]
    /\ UNCHANGED <<event, healthy, known, missing>>

StreamInit ==
    /\ event = 0 /\ healthy = TRUE /\ sequence = 0 /\ listeners = <<>> /\ faults = 0
    /\ onTheWay = [c \in Subscribers |-> <<>>] /\ known = [c \in Subscribers |-> NewClient]
    /\ missing = [c \in Subscribers |-> {}]

StreamNext ==
    \/ \E c \in Subscribers : Subscribe(c) \/ Unsubscribe(c) \/ Receive(c) \/ LoseEnvelope(c) \/ Repeat(c)
    \/ Publish \/ OracleTurns \/ Restart

StreamSpec == StreamInit /\ [][StreamNext]_streamVars

-----------------------------------------------------------------------------
\* From its first numbered event on, a subscribed client never passes an event
\* it was owed and did not get, unless it rebuilt its state: whatever is lost,
\* repeated or overtaken, however many listeners share the numbers, and whether
\* or not the snapshot could be had (websocket-stream.js:13-48).
NoSilentGap ==
    \A c \in ToSet(listeners) : \A lost \in missing[c] : known[c].seen < lost.event
=============================================================================
