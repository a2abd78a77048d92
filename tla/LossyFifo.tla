------------------------------ MODULE LossyFifo ------------------------------
(***************************************************************************)
(* What the message queues of the daemon promise to the request handlers:  *)
(* one channel per peer that never reorders, duplicates or invents a       *)
(* message, and that may lose some.                                        *)
(***************************************************************************)
EXTENDS Naturals, Sequences

CONSTANTS Peers, MaxMsgs

VARIABLES accepted, sent

Msgs == 1..MaxMsgs

Init ==
    /\ accepted = [p \in Peers |-> {}]
    /\ sent = [p \in Peers |-> <<>>]

\* A handler gives the channel a message later than every earlier one
Accept(p, m) ==
    /\ \A q \in Peers : \A k \in accepted[q] : k < m
    /\ accepted' = [accepted EXCEPT ![p] = @ \cup {m}]
    /\ UNCHANGED sent

\* The channel transmits a message later than all it transmitted before
Transmit(p, m) ==
    /\ m \in accepted[p]
    /\ \A i \in DOMAIN sent[p] : sent[p][i] < m
    /\ sent' = [sent EXCEPT ![p] = Append(@, m)]
    /\ UNCHANGED accepted

Next == \E p \in Peers, m \in Msgs : Accept(p, m) \/ Transmit(p, m)

Spec == Init /\ [][Next]_<<accepted, sent>>

=============================================================================
