--------------------------- MODULE PacketDelivery ---------------------------
(***************************************************************************)
(* What the server promises for the packets of its clients, and no more: a *)
(* packet is handed to the dispatcher after it was received whole, and at  *)
(* most once. It promises no order, not even among the packets of one      *)
(* client.                                                                 *)
(***************************************************************************)
EXTENDS Naturals, Sequences

CONSTANT Conns  \* clients

VARIABLES
    received,  \* how many packets of each client have arrived
    delivered  \* the numbers of those handed to the dispatcher, as they were

vars == <<received, delivered>>

Init ==
    /\ received = [c \in Conns |-> 0]
    /\ delivered = [c \in Conns |-> <<>>]

Receive(c) ==
    /\ received' = [received EXCEPT ![c] = @ + 1]
    /\ UNCHANGED delivered

Deliver(c, n) ==
    /\ n \in 1 .. received[c]
    /\ \A i \in DOMAIN delivered[c] : delivered[c][i] # n
    /\ delivered' = [delivered EXCEPT ![c] = Append(@, n)]
    /\ UNCHANGED received

Next == \E c \in Conns : Receive(c) \/ \E n \in 1 .. received[c] : Deliver(c, n)

Spec == Init /\ [][Next]_vars

=============================================================================
