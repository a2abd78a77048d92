------------------------------ MODULE Binding ------------------------------
(***************************************************************************)
(* What the binding of a feeds service to its owner promises, seen from    *)
(* outside and across every crash and restart: the owner is declared once  *)
(* and stays, then the service gets one DID and keeps it, then it holds a  *)
(* credential that is only ever replaced by one issued later.              *)
(*                                                                         *)
(* A start that cannot read the disk makes the service blind to its DID.   *)
(* It sees it again after another start, but may have replaced the DID or  *)
(* the credential before: then only the owner is sure.                     *)
(***************************************************************************)
EXTENDS Naturals

CONSTANTS Dids, FeedsDids, Dates, NoDid

VARIABLES
    owner, did, date,
    sight       \* "good", "blind" or "replaced"

bindingVars == <<owner, did, date, sight>>

Init == owner = NoDid /\ did = NoDid /\ date = 0 /\ sight = "good"

Declare(d) ==
    /\ owner = NoDid
    /\ owner' = d
    /\ UNCHANGED <<did, date, sight>>

Import(s) ==
    /\ owner # NoDid
    /\ did = NoDid
    /\ sight = "good"
    /\ did' = s
    /\ UNCHANGED <<owner, date, sight>>

Issue(n) ==
    /\ did # NoDid
    /\ n > date
    /\ sight = "good"
    /\ date' = n
    /\ UNCHANGED <<owner, did, sight>>

Blind ==
    /\ did # NoDid
    /\ sight = "good"
    /\ sight' = "blind"
    /\ UNCHANGED <<owner, did, date>>

See ==
    /\ sight = "blind"
    /\ sight' = "good"
    /\ UNCHANGED <<owner, did, date>>

Replace ==
    /\ sight = "blind"
    /\ sight' = "replaced"
    /\ did' = NoDid
    /\ date' = 0
    /\ UNCHANGED owner

Next ==
    \/ \E d \in Dids : Declare(d)
    \/ \E s \in FeedsDids : Import(s)
    \/ \E n \in Dates : Issue(n)
    \/ Blind \/ See \/ Replace

Spec == Init /\ [][Next]_bindingVars

=============================================================================
