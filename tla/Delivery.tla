------------------------------ MODULE Delivery ------------------------------
(***************************************************************************)
(* What the outbox promises of the events written to it, with no workers,  *)
(* claims or failures: the broker gets an event of a committed posting     *)
(* only, at most MaxRetries times, and not at all once the event has been  *)
(* settled; it is settled once, as published only if the broker has it.    *)
(***************************************************************************)
EXTENDS Integers

CONSTANTS Entries, MaxRetries

VARIABLES
  outcome,  \* of each event: absent, open, published or dead
  received  \* how often the broker got it

vars == <<outcome, received>>

Init ==
  /\ outcome = [e \in Entries |-> "absent"]
  /\ received = [e \in Entries |-> 0]

Write(e) ==
  /\ outcome[e] = "absent"
  /\ outcome' = [outcome EXCEPT ![e] = "open"]
  /\ UNCHANGED received

Receive(e) ==
  /\ outcome[e] = "open" /\ received[e] < MaxRetries
  /\ received' = [received EXCEPT ![e] = @ + 1]
  /\ UNCHANGED outcome

Settle(e) ==
  /\ outcome[e] = "open"
  /\ \E o \in {"published", "dead"} :
       /\ o = "published" => received[e] > 0
       /\ outcome' = [outcome EXCEPT ![e] = o]
  /\ UNCHANGED received

Next == \E e \in Entries : Write(e) \/ Receive(e) \/ Settle(e)

Spec == Init /\ [][Next]_vars
=============================================================================
