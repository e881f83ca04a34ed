-------------------------- MODULE ConsentedRelease --------------------------
(***************************************************************************)
(* What the user of the host application is promised, with the two threads, *)
(* the presence flag and the database left out: a page receives texts only  *)
(* after the user said yes to that page, at most a user name and a password *)
(* for each yes, in that order, each of them of a card that was approved.   *)
(***************************************************************************)
EXTENDS Sequences

CONSTANTS
    Portal,     \* pages of the authorised site
    Texts       \* user names and passwords, each with fields kind and of

VARIABLES
    approved,   \* presentations of cards the database allows
    granted,    \* page |-> kinds of text it may still be sent
    wire,       \* page |-> texts sent and not yet delivered
    form        \* page |-> what its two input boxes show

abstractVars == <<approved, granted, wire, form>>

Recipients == DOMAIN wire

Init ==
    /\ approved = {}
    /\ \A p \in Recipients : granted[p] = <<>> /\ wire[p] = <<>>

\* A card has been read and is known to the database.
Approve ==
    /\ \E t \in Texts : approved' = approved \cup {t.of}
    /\ UNCHANGED <<granted, wire, form>>

\* The user said yes to page p.
Grant(p) ==
    /\ p \in Portal
    /\ granted[p] = <<>>
    /\ granted' = [granted EXCEPT ![p] = <<"username", "password">>]
    /\ UNCHANGED <<approved, wire, form>>

\* The next text the grant covers goes out, or comes to nothing.
Send(p) ==
    /\ granted[p] # <<>>
    /\ granted' = [granted EXCEPT ![p] = Tail(granted[p])]
    /\ \/ UNCHANGED wire
       \/ \E t \in Texts :
            /\ t.kind = Head(granted[p])
            /\ t.of \in approved
            /\ wire' = [wire EXCEPT ![p] = Append(wire[p], t)]
    /\ UNCHANGED <<approved, form>>

\* The page puts the next text into one of its boxes.
Deliver(p) ==
    /\ wire[p] # <<>>
    /\ wire' = [wire EXCEPT ![p] = Tail(wire[p])]
    /\ \E box \in {"username", "password"} :
         form' = [form EXCEPT ![p][box] = Head(wire[p])]
    /\ UNCHANGED <<approved, granted>>

\* The page goes away with whatever was under way to it.
Leave(p) ==
    /\ wire' = [wire EXCEPT ![p] = <<>>]
    /\ UNCHANGED <<approved, granted, form>>

Next ==
    \/ Approve
    \/ \E p \in Recipients : Grant(p) \/ Send(p) \/ Deliver(p) \/ Leave(p)

Spec == Init /\ [][Next]_abstractVars

============================================================================
