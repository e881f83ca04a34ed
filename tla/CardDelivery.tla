---------------------------- MODULE CardDelivery ----------------------------
(***************************************************************************)
(* What the serial link is for, with the characters, the timeouts and the   *)
(* keep-alives left out: the application puts on offer what the board sends, *)
(* one message at a time, each at most once and in the order of sending.    *)
(* Messages may get lost; what is on offer may be withdrawn at any time.    *)
(***************************************************************************)
EXTENDS Naturals

VARIABLES
    sent,        \* messages the board has sent, numbered from 1
    delivered,   \* those that have been put on offer
    offered      \* the one on offer, if there is one

deliveryVars == <<sent, delivered, offered>>

Init ==
    /\ sent = 0
    /\ delivered = {}
    /\ offered = {}

Send ==
    /\ sent' = sent + 1
    /\ UNCHANGED <<delivered, offered>>

\* A message newer than any delivered before goes on offer.
Deliver ==
    /\ offered = {}
    /\ \E k \in 1 .. sent :
         /\ \A d \in delivered : d < k
         /\ delivered' = delivered \cup {k}
         /\ offered' = {k}
    /\ UNCHANGED sent

Withdraw ==
    /\ offered' = {}
    /\ UNCHANGED <<sent, delivered>>

Next == Send \/ Deliver \/ Withdraw

Spec == Init /\ [][Next]_deliveryVars

=============================================================================
