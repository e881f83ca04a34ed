----------------------------- MODULE MirrorFeed -----------------------------
(***************************************************************************)
(* What the mirror protocol is for, with ring, indices and flow control     *)
(* left out: every session has a queue of its own, to which the messages of *)
(* all sessions are appended, and is sent what is in it from the front.     *)
(* Nobody posts with a full queue; a queue that is full when somebody else  *)
(* posts is emptied.                                                        *)
(***************************************************************************)
EXTENDS Naturals, Sequences

CONSTANTS
    Members,    \* sessions that may join
    Capacity    \* messages a queue holds

VARIABLES
    posted,     \* messages posted so far, numbered from 1
    joined,
    queue,      \* member |-> messages to be sent to it
    last        \* member |-> last message it was sent, or posted when it joined

feedVars == <<posted, joined, queue, last>>

Init ==
    /\ posted = 0
    /\ joined = {}
    /\ queue = [m \in Members |-> <<>>]
    /\ last = [m \in Members |-> 0]

Join(m) ==
    /\ m \in Members \ joined
    /\ joined' = joined \cup {m}
    /\ last' = [last EXCEPT ![m] = posted]
    /\ UNCHANGED <<posted, queue>>

Leave(m) ==
    /\ m \in joined
    /\ joined' = joined \ {m}
    /\ queue' = [queue EXCEPT ![m] = <<>>]
    /\ last' = [last EXCEPT ![m] = 0]
    /\ UNCHANGED posted

Post(m) ==
    /\ m \in joined
    /\ Len(queue[m]) < Capacity
    /\ posted' = posted + 1
    /\ queue' = [x \in Members |->
          IF x \in joined /\ Len(queue[x]) < Capacity
          THEN Append(queue[x], posted + 1) ELSE <<>>]
    /\ UNCHANGED <<joined, last>>

Deliver(m) ==
    /\ m \in joined
    /\ queue[m] # <<>>
    /\ last' = [last EXCEPT ![m] = Head(queue[m])]
    /\ queue' = [queue EXCEPT ![m] = Tail(queue[m])]
    /\ UNCHANGED <<posted, joined>>

Next == \E m \in Members : Join(m) \/ Leave(m) \/ Post(m) \/ Deliver(m)

Spec == Init /\ [][Next]_feedVars

=============================================================================
