---------------------------- MODULE LoginSystem ----------------------------
(***************************************************************************)
(* The whole way from a card to a login page: board, serial line and serial *)
(* thread of ReaderLink together with the service thread and the pages of   *)
(* CredentialRelease.  The two parts share what CardPublisher describes, the *)
(* flag and the arrays in the globals of srl/ArgoRFID_Reader.c, and nothing *)
(* else.                                                                    *)
(***************************************************************************)
EXTENDS ReaderLink

CONSTANTS
    Pages,       \* page loads, as in CredentialRelease
    Portal,      \* those of the portal
    MaxPending   \* bound: what may be under way to or from a page

ASSUME SystemAssumption ==
    /\ Portal \subseteq Pages
    /\ MaxPending \in Nat

VARIABLES
    service, request, measured, copy,        \* service thread
    conn, clicks, wire, n_message, form,     \* pages
    consent                                  \* history, as in CredentialRelease

Release == INSTANCE CredentialRelease

releaseVars ==
    <<service, request, measured, copy, conn, clicks, wire, n_message, form, consent>>

systemVars == <<publisherVars, boardVars, linkVars, releaseVars>>

SystemInit == Init /\ Release!ReleaseInit

\* The serial thread works on the line and, seen by the other thread, on the
\* globals; the board works on the line.
LineSide == Next /\ UNCHANGED releaseVars

\* The service thread reads the globals and writes to sockets.
PageSide ==
    /\ Release!ServiceStep \/ \E p \in Pages : Release!PageStep(p)
    /\ UNCHANGED <<boardVars, linkVars>>

SystemNext == LineSide \/ PageSide

SystemSpec == SystemInit /\ [][SystemNext]_systemVars

\* With the fairness of both threads, the browser and the user.  Board and line may
\* stop anywhere.
FairSystemSpec == SystemSpec /\ Release!Fairness

----------------------------------------------------------------------------

\* What the user is asked about was sent by the board: each text in a message of
\* its own that has arrived with its serial number, and the password in the same
\* message as the user name or in a later one (secure-rfid-login.c lines 84 to
\* 101, ArgoRFID_Reader.c lines 33 to 68): provided AcksStandOut and NumbersStandOut.
AnswersInBoardOrder ==
    (service \in {"dialog", "send_username", "send_password"}
      /\ copy["username"] # Empty /\ copy["password"] # Empty) =>
        \E k \in 1 .. sent : \E l \in k .. sent :
            /\ taken[copy["username"].of].messages = {k}
            /\ taken[copy["password"].of].messages = {l}

\* What is on its way to a page, or in one of its boxes.
GivenTo(p) ==
    ({wire[p][i] : i \in DOMAIN wire[p]} \cup {form[p][f] : f \in FieldNames})
        \ {Empty}

\* Whatever a page has been given was read from one card, the one whose serial
\* number was looked up for it and found in the table (ArgoRFID_Reader.c lines 45
\* to 68, secure-rfid-login.c lines 521 to 526): provided the reads of cards succeed,
\* AcksStandOut and NumbersStandOut.
PagesShowAllowedCards ==
    \A p \in Pages : \A t \in GivenTo(p) :
        \E c \in Allowed : taken[t.of].cards = {c}

\* Whatever board and line do meanwhile, INITs are taken up: get_username and
\* get_password give up at once when there is no card (secure-rfid-login.c lines 482
\* to 531, ArgoRFID_Reader.c lines 146 to 168).
ClicksAreServed == Release!ClicksAreServed

\* And a yes ends with both texts in their boxes, however far the board has gone on
\* since: what was copied is sent (secure-rfid-login.c lines 509 to 526, my-script.js
\* lines 62 to 77), unless the page is closed or was out of step.
YesFillsForm == Release!YesFillsForm

=============================================================================
