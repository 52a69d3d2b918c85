----------------------------- MODULE ActorMailbox -----------------------------
(***************************************************************************)
(* What NFActorModule promises its callers, with no thread in sight: an    *)
(* actor is a sequential server. What it accepts it takes one at a time in *)
(* the order of the calls; each message either has no handler and is gone, *)
(* or yields one result, and the results of an actor reach the main thread *)
(* in the order in which its messages were sent.                           *)
(***************************************************************************)
EXTENDS Naturals, Sequences

CONSTANTS Actors, Messages

VARIABLES
    inbox,     \* per actor: accepted and not yet processed
    outbox,    \* per actor: processed, result not yet delivered
    delivered  \* the messages whose result the main thread has taken

mailboxVars == <<inbox, outbox, delivered>>

Init ==
    /\ inbox = [a \in Actors |-> <<>>]
    /\ outbox = [a \in Actors |-> <<>>]
    /\ delivered = {}

Accept(a, m) ==
    /\ inbox' = [inbox EXCEPT ![a] = Append(@, m)]
    /\ UNCHANGED <<outbox, delivered>>

Process(a) ==
    /\ inbox[a] # <<>>
    /\ inbox' = [inbox EXCEPT ![a] = Tail(@)]
    /\ outbox' = [outbox EXCEPT ![a] = Append(@, Head(inbox[a]))]
    /\ UNCHANGED delivered

Ignore(a) ==
    /\ inbox[a] # <<>>
    /\ inbox' = [inbox EXCEPT ![a] = Tail(@)]
    /\ UNCHANGED <<outbox, delivered>>

Deliver(a) ==
    /\ outbox[a] # <<>>
    /\ outbox' = [outbox EXCEPT ![a] = Tail(@)]
    /\ delivered' = delivered \cup {Head(outbox[a])}
    /\ UNCHANGED inbox

Next ==
    \E a \in Actors :
        \/ \E m \in Messages : Accept(a, m)
        \/ Process(a)
        \/ Ignore(a)
        \/ Deliver(a)

Spec == Init /\ [][Next]_mailboxVars
===============================================================================
