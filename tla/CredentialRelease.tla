------------------------- MODULE CredentialRelease -------------------------
(***************************************************************************)
(* How credentials reach a web page: the serial thread of CardPublisher,    *)
(* the WebSocket service thread (callback_dumb_increment and get_credential *)
(* in srl/secure-rfid-login.c) and the script of the login page             *)
(* (myaddon/data/my-script.js), interleaved step by step.                   *)
(*                                                                          *)
(* The service thread shows a modal dialog from inside its receive callback *)
(* and services no socket until the user answers.                           *)
(***************************************************************************)
EXTENDS CardPublisher, Sequences

CONSTANTS
    Pages,       \* page loads, each with a WebSocket of its own
    Portal,      \* those whose Origin header is AUTHORIZED_URL
    MaxPending   \* bound: a page with this much under way gets no further click

ASSUME ReleaseAssumption ==
    /\ Portal \subseteq Pages
    /\ MaxPending \in Nat

VARIABLES
    service,      \* where the service thread is
    request,      \* the page whose INIT it is serving
    measured,     \* the string strlen saw in the array being read
    copy,         \* the callback's own username and password
    conn,         \* page |-> state of its WebSocket
    clicks,       \* page |-> INIT messages under way to the server
    wire,         \* page |-> texts under way to the page
    n_message,    \* page |-> its counter of that name
    form,         \* page |-> contents of j_username and j_password
    consent       \* history: page |-> kinds of text the user's last yes to
                  \* that page covers and that have not gone out yet

serviceVars == <<service, request, measured, copy>>
pageVars == <<conn, clicks, wire, n_message, form>>
vars == <<publisherVars, serviceVars, pageVars, consent>>

ServicePlaces ==
    {"poll", "test_username", "measure_username", "copy_username",
     "test_password", "measure_password", "copy_password",
     "dialog", "send_username", "send_password"}

Serve(from, to) == service = from /\ service' = to

ReleaseInit ==
    /\ service = "poll"
    /\ request \in Pages
    /\ measured = Empty
    /\ copy = [f \in FieldNames |-> Empty]
    /\ conn = [p \in Pages |-> "new"]
    /\ clicks = [p \in Pages |-> 0]
    /\ wire = [p \in Pages |-> <<>>]
    /\ n_message = [p \in Pages |-> 0]
    /\ form = [p \in Pages |-> [f \in FieldNames |-> Empty]]
    /\ consent = [p \in Pages |-> <<>>]

Init == PublisherInit /\ ReleaseInit

----------------------------------------------------------------------------
\* The page.

\* new WebSocket("wss://localhost:7681/", "dumb-increment-protocol").
Connect(p) ==
    /\ conn[p] = "new"
    /\ conn' = [conn EXCEPT ![p] = "connecting"]
    /\ UNCHANGED <<publisherVars, serviceVars, clicks, wire, n_message, form, consent>>

\* securedAuth, once the socket is open.
Click(p) ==
    /\ conn[p] = "open"
    /\ clicks[p] + Len(wire[p]) < MaxPending
    /\ clicks' = [clicks EXCEPT ![p] = @ + 1]
    /\ UNCHANGED <<publisherVars, serviceVars, conn, wire, n_message, form, consent>>

\* onmessage: the first message goes into the user name box, the next into the
\* password box, and so on in turn.
BoxFor(p) == IF n_message[p] = 0 THEN "username" ELSE "password"

\* Fault: the counter is set to 1 every time.
OnMessageStuckAtOne(p) ==
    /\ conn[p] = "open"
    /\ wire[p] # <<>>
    /\ wire' = [wire EXCEPT ![p] = Tail(@)]
    /\ form' = [form EXCEPT ![p] = [@ EXCEPT ![BoxFor(p)] = Head(wire[p])]]
    /\ n_message' = [n_message EXCEPT ![p] = 1]
    /\ UNCHANGED <<publisherVars, serviceVars, conn, clicks, consent>>

OnMessage(p) ==
    /\ conn[p] = "open"
    /\ wire[p] # <<>>
    /\ wire' = [wire EXCEPT ![p] = Tail(@)]
    /\ form' = [form EXCEPT ![p] = [@ EXCEPT ![BoxFor(p)] = Head(wire[p])]]
    /\ n_message' = [n_message EXCEPT ![p] = 1 - @]
    /\ UNCHANGED <<publisherVars, serviceVars, conn, clicks, consent>>

\* The user leaves the page or the connection drops.  Texts under way are lost;
\* INITs already sent stay readable in the server's socket.
Close(p) ==
    /\ conn[p] \in {"connecting", "open"}
    /\ conn' = [conn EXCEPT ![p] = "closed"]
    /\ wire' = [wire EXCEPT ![p] = <<>>]
    /\ UNCHANGED <<publisherVars, serviceVars, clicks, n_message, form, consent>>

PageStep(p) == Connect(p) \/ Click(p) \/ OnMessage(p) \/ Close(p)

----------------------------------------------------------------------------
\* The service thread.

\* Fault: every site is let in.
reject_none(p) == FALSE

\* LWS_CALLBACK_FILTER_PROTOCOL_CONNECTION: reject_request looks for an Origin
\* header equal to AUTHORIZED_URL.
reject_request(p) == p \notin Portal

Filter(p) ==
    /\ service = "poll"
    /\ conn[p] = "connecting"
    /\ conn' = [conn EXCEPT ![p] = IF reject_request(p) THEN "closed" ELSE "open"]
    /\ UNCHANGED <<publisherVars, serviceVars, clicks, wire, n_message, form, consent>>

\* LWS_CALLBACK_RECEIVE of an INIT: both buffers of the callback are zeroed.
Receive(p) ==
    /\ Serve("poll", "test_username")
    /\ clicks[p] > 0
    /\ clicks' = [clicks EXCEPT ![p] = @ - 1]
    /\ request' = p
    /\ copy' = [f \in FieldNames |-> Empty]
    /\ UNCHANGED <<publisherVars, measured, conn, wire, n_message, form, consent>>

\* Fault: the service thread waits for a card instead of giving up.
TestFlagAndWait(from, to) ==
    /\ service = from
    /\ service' = IF is_data_present THEN to ELSE from
    /\ UNCHANGED <<publisherVars, request, measured, copy, pageVars, consent>>

\* get_username and get_password test the flag, then take strlen of the array,
\* then copy it: three reads that the serial thread may come between.
TestFlag(from, to) ==
    /\ service = from
    /\ service' = IF is_data_present THEN to ELSE "poll"
    /\ UNCHANGED <<publisherVars, request, measured, copy, pageVars, consent>>

\* A read that goes on while the memset of the array runs comes out cut short.
Clearing(f) == IF f = "username" THEN "clear_username" ELSE "clear_password"

ReadOf(f) ==
    {fields[f]} \cup
    {CutShort(t) : t \in IF reader = Clearing(f) THEN {fields[f]} \ {Empty} ELSE {}}

Measure(f, from, to) ==
    /\ Serve(from, to)
    /\ measured' \in ReadOf(f)
    /\ UNCHANGED <<publisherVars, request, copy, pageVars, consent>>

\* get_credential copies as many bytes of what strcpy found as strlen counted
\* before: when the array changed in between, the text may be cut short.
CutTo(seen, t) ==
    IF seen = Empty \/ t = Empty THEN {Empty}
    ELSE IF seen.of = t.of THEN IF seen.whole THEN {t} ELSE {seen}
    ELSE {t, CutShort(t)}

CopyField(f, from, to) ==
    /\ Serve(from, to)
    /\ \E found \in ReadOf(f) : \E t \in CutTo(measured, found) :
         copy' = [copy EXCEPT ![f] = t]
    /\ measured' = Empty
    /\ UNCHANGED <<publisherVars, request, pageVars, consent>>

\* Fault: the password is read first.
get_credential_swapped ==
    \/ TestFlag("test_username", "measure_username")
    \/ Measure("password", "measure_username", "copy_username")
    \/ CopyField("password", "copy_username", "test_password")
    \/ TestFlag("test_password", "measure_password")
    \/ Measure("username", "measure_password", "copy_password")
    \/ CopyField("username", "copy_password", "dialog")

get_credential ==
    \/ TestFlag("test_username", "measure_username")
    \/ Measure("username", "measure_username", "copy_username")
    \/ CopyField("username", "copy_username", "test_password")
    \/ TestFlag("test_password", "measure_password")
    \/ Measure("password", "measure_password", "copy_password")
    \/ CopyField("password", "copy_password", "dialog")

\* send_notification: the user presses Yes, or anything else.
AnswerYes ==
    /\ Serve("dialog", "send_username")
    /\ consent' = [consent EXCEPT ![request] = <<"username", "password">>]
    /\ UNCHANGED <<publisherVars, request, measured, copy, pageVars>>

AnswerNo ==
    /\ Serve("dialog", "poll")
    /\ UNCHANGED <<publisherVars, request, measured, copy, pageVars, consent>>

\* libwebsocket_write: an empty text is not sent at all, and one for a page
\* that is gone is lost; the callback ignores what the call returns.
Send(f, from, to) ==
    /\ Serve(from, to)
    /\ wire' = IF copy[f] # Empty /\ conn[request] = "open"
               THEN [wire EXCEPT ![request] = Append(@, copy[f])]
               ELSE wire
    /\ consent' = [consent EXCEPT ![request] = Tail(@)]
    /\ UNCHANGED <<publisherVars, request, measured, copy,
                   conn, clicks, n_message, form>>

\* Fault: the password is written first.
SendSwapped ==
    \/ Send("password", "send_username", "send_password")
    \/ Send("username", "send_password", "poll")

SendCredentials ==
    \/ Send("username", "send_username", "send_password")
    \/ Send("password", "send_password", "poll")

ServiceStep ==
    \/ \E p \in Pages : Filter(p) \/ Receive(p)
    \/ get_credential
    \/ AnswerYes
    \/ AnswerNo
    \/ SendCredentials

----------------------------------------------------------------------------

ReaderStep == PublisherNext /\ UNCHANGED <<serviceVars, pageVars, consent>>

Next ==
    \/ ReaderStep
    \/ ServiceStep
    \/ \E p \in Pages : PageStep(p)

Spec == Init /\ [][Next]_vars

\* Fairness: each thread keeps running; poll() reports every readable socket and
\* libwebsocket_service goes through all of them, so no page's INIT is passed
\* over for ever; the browser runs its event loop; and the user, who cannot use
\* the desktop before, answers the dialog.
Fairness ==
    /\ WF_vars(PublisherAlone /\ UNCHANGED <<serviceVars, pageVars, consent>>)
    /\ WF_vars(get_credential \/ AnswerYes \/ AnswerNo \/ SendCredentials)
    /\ \A p \in Pages : SF_vars(Receive(p)) /\ WF_vars(OnMessage(p))

----------------------------------------------------------------------------

\* Only a page the filter let in has an open socket, an INIT under way or a
\* request that is being served.
OnlyPortalPages ==
    /\ \A p \in Pages : conn[p] = "open" \/ clicks[p] > 0 => p \in Portal
    /\ service # "poll" => request \in Portal

\* The locals of the service thread and the state of the pages stay within
\* their types; only a page the filter let in has an INIT under way or is
\* being served (callback_dumb_increment lines 482 and 533).
ReleaseTypeOK ==
    /\ OnlyPortalPages
    /\ PublisherTypeOK
    /\ service \in ServicePlaces
    /\ request \in Pages
    /\ measured \in Text
    /\ copy \in [FieldNames -> Text]
    /\ conn \in [Pages -> {"new", "connecting", "open", "closed"}]
    /\ clicks \in [Pages -> 0 .. MaxPending]
    /\ wire \in [Pages -> Seq(Text)]
    /\ n_message \in [Pages -> {0, 1}]
    /\ form \in [Pages -> [FieldNames -> Text]]
    /\ consent \in [Pages -> Seq(FieldNames)]

\* However the two threads interleave, the password handed to a page never
\* belongs to an earlier card than the user name handed over with it
\* (get_credential reads the user name first, line 91, and the serial thread
\* empties both arrays before it fills either).
PasswordNotOlder ==
    (service \in {"dialog", "send_username", "send_password"}
      /\ copy["username"] # Empty /\ copy["password"] # Empty)
        => copy["username"].of <= copy["password"].of

\* The text sent next will end up in this box of page p.
NextBox(p) ==
    IF (n_message[p] + Len(wire[p])) % 2 = 0 THEN "username" ELSE "password"

InStep(p) ==
    NextBox(p) = IF service = "send_password" /\ request = p
                    /\ copy["username"] # Empty
                 THEN "password" ELSE "username"

\* An open page loses track of which box comes next only when the server
\* answers its request with one text instead of two, because the other was
\* empty: no order of clicks, deliveries and sends does it
\* (my-script.js lines 62 to 77, secure-rfid-login.c lines 524 and 525).
OnlyAnEmptyTextSlips ==
    [][\A p \in Pages :
         (InStep(p) /\ ~InStep(p)' /\ conn'[p] = "open") =>
             /\ service = "send_password" /\ request = p
             /\ (copy["username"] = Empty) # (copy["password"] = Empty)]_vars

\* my-script.js line 6: "Message 0 is USERNAME and message 1 is PASSWORD".  No
\* password is ever put into the user name box.
PasswordStaysHidden ==
    \A p \in Pages : form[p]["username"].kind # "password"

\* The texts a page is sent are those of accepted cards, in the order user name
\* then password, at most one of each for every yes of the user to that page.
Promise == INSTANCE ConsentedRelease WITH
    Texts <- Text \ {Empty}, approved <- accepted, granted <- consent

KeepsPromise == Promise!Spec

\* However long the user leaves a dialog open, and whether there is a card or
\* not, INITs do not pile up behind a request for ever: a page with as many of
\* them waiting as there may be has one taken up (secure-rfid-login.c lines 482
\* to 531, 835 to 887).
ClicksAreServed ==
    \A p \in Pages : clicks[p] = MaxPending ~> clicks[p] < MaxPending

Texts(f) == {t \in Text : t.kind = f}

Showing(p, u, w) == form[p]["username"] = u /\ form[p]["password"] = w

\* After a yes, a page that was in step shows the user name and the password
\* that were read for it, each in its own box, unless it is closed first
\* (secure-rfid-login.c lines 521 to 526, my-script.js lines 62 to 77).
YesFillsForm ==
    \A p \in Pages, u \in Texts("username"), w \in Texts("password") :
        (/\ service = "send_username" /\ request = p /\ InStep(p)
         /\ copy["username"] = u /\ copy["password"] = w)
            ~> (conn[p] = "closed" \/ Showing(p, u, w))

============================================================================
