----------------------------- MODULE MirrorRing -----------------------------
(***************************************************************************)
(* The mirror protocol of the WebSocket service (callback_lws_mirror) with  *)
(* the event loop of the library that calls it: one ring of messages for    *)
(* all sessions, a read position per session, the one-shot request to be    *)
(* called back when a socket can be written to, and the flow control that   *)
(* stops the input of a session which has fallen behind.                    *)
(*                                                                          *)
(* One thread runs all of this.  `serving` says which socket it is serving  *)
(* and how far it has got, because the clients go on reading and sending    *)
(* meanwhile.  Input is counted in bytes: a TLS record, a read and what flow *)
(* control puts aside may end at any byte of a frame.  The program has       *)
(* Size = 32 and Slack = 15.                                                *)
(***************************************************************************)
EXTENDS Naturals

CONSTANTS
    Sessions,    \* connections that may use the protocol
    NoSession,   \* nobody is being served
    Size,        \* MAX_MESSAGE_QUEUE
    Slack,       \* so many short of Size a session may be when input restarts
    Room,        \* messages the send pipe of a socket holds
    FrameLength, \* bytes of a frame, all given to one LWS_CALLBACK_RECEIVE
    LongSenders, \* sessions that may send TLS records longer than service_buffer
    MaxInbox,    \* bound: bytes a session has under way
    MaxStored    \* bound: messages stored in the ring

ASSUME MirrorAssumption ==
    /\ NoSession \notin Sessions
    /\ Size \in Nat /\ Slack \in Nat
    /\ 2 < Slack /\ Slack < Size
    /\ Room \in Nat \ {0}
    /\ FrameLength \in Nat \ {0}
    /\ LongSenders \subseteq Sessions
    /\ MaxInbox \in Nat \ {0}
    /\ MaxStored \in Nat

VARIABLES
    ring,      \* slot |-> number of the message in it, 0 for none yet
    head,      \* ringbuffer_head
    stored,    \* messages stored so far
    up,        \* sessions established
    tail,      \* ringbuffer_tail of each session
    last,      \* last message written to a session, or stored when it joined
    flow,      \* rxflow_change_to and POLLIN of each session
    pollout,   \* sessions with a write callback requested
    inbox,     \* bytes in the socket
    stash,     \* bytes in rxflow_buffer
    partial,   \* bytes of an unfinished frame the parser of a session has taken
    garbled,   \* sessions of whose input something was dropped: their parser is
               \* anywhere in a frame
    owed,      \* history: bytes sent and not yet parsed, of each session whose
               \* records fit service_buffer
    pipe,      \* messages written and not yet read by the client
    serving

ringVars == <<ring, head, stored>>
mirrorVars ==
    <<ring, head, stored, up, tail, last, flow, pollout, inbox, stash, partial,
      garbled, owed, pipe, serving>>

\* The state of a session's parser.
parserVars == <<partial, garbled, owed>>

Slots == 0 .. Size - 1

NoStash == MaxInbox + 1        \* rxflow_buffer is NULL

\* Fault: the index goes past the end.
NextSlotPast(i) == i + 1

NextSlot(i) == IF i = Size - 1 THEN 0 ELSE i + 1

\* (ringbuffer_head - ringbuffer_tail) & (MAX_MESSAGE_QUEUE - 1)
Lag(h, t) == IF t <= h THEN h - t ELSE h + Size - t

Idle == [who |-> NoSession, doing |-> "nothing", left |-> 0, more |-> 0]

Serve(s, doing) == [who |-> s, doing |-> doing, left |-> 0, more |-> 0]

\* The library is at `left` bytes it has read; `more` bytes are in the same record.
Reading(s, left, more) == [who |-> s, doing |-> "reading", left |-> left, more |-> more]

(***************************************************************************)
(* Flow control of the input.                                              *)
(***************************************************************************)
Open == [allow |-> TRUE, pending |-> FALSE, pollin |-> TRUE]

\* libwebsocket_rx_flow_control
Asked(f, enable) ==
    IF f.allow = enable THEN f
    ELSE [allow |-> enable, pending |-> TRUE, pollin |-> f.pollin]

\* _libwebsocket_rx_flow_control, called after a session's own callback.
Applied(f, stashed) ==
    IF f.pending /\ stashed = NoStash
    THEN [allow |-> f.allow, pending |-> FALSE, pollin |-> f.allow]
    ELSE f

\* ... and the write callback it requests to get back to rxflow_buffer.
CallsBack(f, stashed) == f.pending /\ stashed # NoStash

\* libwebsocket_rx_flow_allow_all_protocol
AllowAll == [s \in Sessions |-> IF s \in up THEN Asked(flow[s], TRUE) ELSE flow[s]]

(***************************************************************************)
(* Connections.                                                            *)
(***************************************************************************)
Init ==
    /\ ring = [i \in Slots |-> 0]
    /\ head = 0
    /\ stored = 0
    /\ up = {}
    /\ tail = [s \in Sessions |-> 0]
    /\ last = [s \in Sessions |-> 0]
    /\ flow = [s \in Sessions |-> Open]
    /\ pollout = {}
    /\ inbox = [s \in Sessions |-> 0]
    /\ stash = [s \in Sessions |-> NoStash]
    /\ partial = [s \in Sessions |-> 0]
    /\ garbled = {}
    /\ owed = [s \in Sessions \ LongSenders |-> 0]
    /\ pipe = [s \in Sessions |-> 0]
    /\ serving = Idle

\* Fault: a session starts with whatever the ring still holds.
JoinAtStart == 0

JoinAt == head

\* LWS_CALLBACK_ESTABLISHED
Establish(s) ==
    /\ serving = Idle
    /\ s \notin up
    /\ up' = up \union {s}
    /\ tail' = [tail EXCEPT ![s] = JoinAt]
    /\ last' = [last EXCEPT ![s] = stored]
    /\ UNCHANGED <<ringVars, flow, pollout, inbox, stash, parserVars, pipe, serving>>

\* libwebsocket_rx_sm may find a frame illegal when it has lost its place.
Misparses(s) ==
    s \in garbled /\ serving.who = s /\ serving.doing \in {"reading", "draining"}
        /\ flow[s].allow

\* The connection is gone: libwebsocket_close_and_free_session frees its buffers.
Close(s) ==
    /\ serving = Idle \/ Misparses(s)
    /\ s \in up
    /\ up' = up \ {s}
    /\ tail' = [tail EXCEPT ![s] = 0]
    /\ last' = [last EXCEPT ![s] = 0]
    /\ flow' = [flow EXCEPT ![s] = Open]
    /\ pollout' = pollout \ {s}
    /\ inbox' = [inbox EXCEPT ![s] = 0]
    /\ stash' = [stash EXCEPT ![s] = NoStash]
    /\ partial' = [partial EXCEPT ![s] = 0]
    /\ garbled' = garbled \ {s}
    /\ owed' = [x \in DOMAIN owed |-> IF x = s THEN 0 ELSE owed[x]]
    /\ pipe' = [pipe EXCEPT ![s] = 0]
    /\ serving' = Idle
    /\ UNCHANGED ringVars

(***************************************************************************)
(* The clients.                                                            *)
(***************************************************************************)
InHand(s) == IF serving.who = s THEN serving.left ELSE 0

Stashed(s) == IF stash[s] = NoStash THEN 0 ELSE stash[s]

ClientSends(s) ==
    /\ s \in up
    /\ inbox[s] + Stashed(s) + InHand(s) + FrameLength <= MaxInbox
    /\ stored < MaxStored
    /\ inbox' = [inbox EXCEPT ![s] = @ + FrameLength]
    /\ owed' = [x \in DOMAIN owed |-> IF x = s THEN owed[x] + FrameLength ELSE owed[x]]
    /\ UNCHANGED <<ringVars, up, tail, last, flow, pollout, stash, partial, garbled,
                   pipe, serving>>

ClientReads(s) ==
    /\ pipe[s] > 0
    /\ pipe' = [pipe EXCEPT ![s] = @ - 1]
    /\ UNCHANGED <<ringVars, up, tail, last, flow, pollout, inbox, stash, parserVars,
                   serving>>

(***************************************************************************)
(* POLLOUT: LWS_CALLBACK_SERVER_WRITEABLE.                                 *)
(***************************************************************************)
Choked(s) == pipe'[s] = Room

\* lws_handle_POLLOUT_event: the request is taken back before the callback.
PollOut(s) ==
    /\ serving = Idle
    /\ s \in pollout
    /\ pipe[s] < Room
    /\ pollout' = pollout \ {s}
    /\ serving' = Serve(s, "writing")
    /\ UNCHANGED <<ringVars, up, tail, last, flow, inbox, stash, parserVars, pipe>>

\* What follows a write callback: the change of the session's own flow control,
\* then the rxflow_buffer if its input is allowed.
AfterWriteable(s, flows, requests) ==
    /\ flow' = [flows EXCEPT ![s] = Applied(@, stash[s])]
    /\ pollout' = pollout \union requests
                    \union {x \in {s} : CallsBack(flows[x], stash[x])}
    /\ serving' = IF stash[s] # NoStash /\ flows[s].allow
                  THEN Serve(s, "draining") ELSE Idle

\* Faults: the input is allowed again only at a lag that does not occur; a choked
\* socket does not ask to be called again.
ReopensNever(t) == Lag(head, t) = Size

AskNobody(s) == {}

Reopens(t) == Lag(head, t) = Size - Slack

AskAgain(s) == {s}

\* One turn of the loop.
WriteNext(s) ==
    /\ serving = Serve(s, "writing")
    /\ tail[s] # head
    /\ pipe' = [pipe EXCEPT ![s] = @ + 1]
    /\ last' = [last EXCEPT ![s] = ring[tail[s]]]
    /\ tail' = [tail EXCEPT ![s] = NextSlot(@)]
    /\ LET flows == IF Reopens(tail'[s]) THEN AllowAll ELSE flow
       IN  IF Choked(s) THEN AfterWriteable(s, flows, AskAgain(s))
           ELSE flow' = flows /\ UNCHANGED <<pollout, serving>>
    /\ UNCHANGED <<ringVars, up, inbox, stash, parserVars>>

WriteDone(s) ==
    /\ serving = Serve(s, "writing")
    /\ tail[s] = head
    /\ AfterWriteable(s, flow, {})
    /\ UNCHANGED <<ringVars, up, tail, last, inbox, stash, parserVars, pipe>>

(***************************************************************************)
(* POLLIN: LWS_CALLBACK_RECEIVE.                                           *)
(***************************************************************************)

\* rxflow_buffer comes first; everything there is of a TLS record is read and
\* parsed before another socket is served, at most service_buffer at a time.
PollIn(s) ==
    /\ serving = Idle
    /\ s \in up
    /\ flow[s].pollin
    /\ \E n \in 1 .. inbox[s] : \E more \in 0 .. inbox[s] - n :
         /\ more = 0 \/ s \in LongSenders
         /\ IF stash[s] # NoStash /\ flow[s].allow
            THEN serving' = Serve(s, "draining") /\ UNCHANGED inbox
            ELSE /\ serving' = Reading(s, n, more)
                 /\ inbox' = [inbox EXCEPT ![s] = @ - n]
    /\ UNCHANGED <<ringVars, up, tail, last, flow, pollout, stash, parserVars, pipe>>

\* Fault: the test compares with a lag that does not occur.
FullNever(s) == Lag(head, tail[s]) = Size

Full(s) == Lag(head, tail[s]) = Size - 1

\* Fault: the position is moved before the message is stored.
StoreAhead ==
    /\ ring' = [ring EXCEPT ![NextSlot(head)] = stored + 1]
    /\ head' = NextSlot(head)
    /\ stored' = stored + 1

Store ==
    /\ ring' = [ring EXCEPT ![head] = stored + 1]
    /\ head' = NextSlot(head)
    /\ stored' = stored + 1

\* The callback, and what the library does with the flow control after it.
Receive(s) ==
    /\ IF Full(s) THEN UNCHANGED ringVars ELSE Store
    /\ LET choke == Full(s) \/ Lag(head', tail[s]) = Size - 2
           asked == IF choke THEN Asked(flow[s], FALSE) ELSE flow[s]
       IN  flow' = [flow EXCEPT ![s] = Applied(asked, stash'[s])]
    /\ pollout' = pollout \union up

\* libwebsocket_rx_sm is given n of `there` bytes: up to the end of a frame, when
\* it calls back, or all.  One that has lost its place calls back anywhere.
Completes(s, n) == s \in garbled \/ n = FrameLength - partial[s]

Unfinished(s, n) == s \in garbled \/ n < FrameLength - partial[s]

Parsed(s, n, there) ==
    /\ \/ /\ Completes(s, n)
          /\ partial' = [partial EXCEPT ![s] = 0]
          /\ Receive(s)
       \/ /\ n = there /\ Unfinished(s, n)
          /\ partial' = [partial EXCEPT ![s] = IF s \in garbled THEN 0 ELSE @ + n]
          /\ UNCHANGED <<ringVars, flow, pollout>>
    /\ owed' = [x \in DOMAIN owed |-> IF x = s THEN owed[x] - n ELSE owed[x]]
    /\ UNCHANGED <<up, tail, last, inbox, pipe, garbled>>

HandleUnit(s) ==
    /\ serving.who = s
    /\ serving.doing = "reading" /\ serving.left > 0
    /\ flow[s].allow
    /\ stash' = stash
    /\ \E n \in 1 .. serving.left :
         /\ serving' = [serving EXCEPT !.left = @ - n]
         /\ Parsed(s, n, serving.left)

\* Fault: the byte that was looked at last is not kept.
KeptShort == serving.left - 1

Kept == serving.left

\* SSL_pending: what is left of the record is read on with, again and again.
ReadPending(s) ==
    IF serving.more = 0
    THEN serving' = Idle /\ UNCHANGED inbox
    ELSE \E n \in 1 .. serving.more :
           /\ serving' = Reading(s, n, serving.more - n)
           /\ inbox' = [inbox EXCEPT ![s] = @ - n]

\* Input is not allowed any more: the rest goes to rxflow_buffer, unless there
\* is one already: then it is dropped, and the parser will not know.
KeepRest(s) ==
    /\ serving.who = s
    /\ serving.doing = "reading" /\ serving.left > 0
    /\ ~flow[s].allow
    /\ IF stash[s] = NoStash
       THEN stash' = [stash EXCEPT ![s] = Kept] /\ UNCHANGED <<partial, garbled>>
       ELSE /\ garbled' = garbled \union {s}
            /\ partial' = [partial EXCEPT ![s] = 0]
            /\ UNCHANGED stash
    /\ ReadPending(s)
    /\ UNCHANGED <<ringVars, up, tail, last, flow, pollout, owed, pipe>>

ReadDone(s) ==
    /\ serving.who = s
    /\ serving.doing = "reading" /\ serving.left = 0
    /\ ReadPending(s)
    /\ UNCHANGED <<ringVars, up, tail, last, flow, pollout, stash, parserVars, pipe>>

\* The same from rxflow_buffer; flow control that is asked for now has to wait.
DrainUnit(s) ==
    /\ serving = Serve(s, "draining")
    /\ stash[s] > 0
    /\ flow[s].allow
    /\ serving' = serving
    /\ \E n \in 1 .. stash[s] :
         /\ stash' = [stash EXCEPT ![s] = @ - n]
         /\ Parsed(s, n, stash[s])

DrainStalls(s) ==
    /\ serving = Serve(s, "draining")
    /\ stash[s] > 0
    /\ ~flow[s].allow
    /\ serving' = Idle
    /\ UNCHANGED <<ringVars, up, tail, last, flow, pollout, inbox, stash, parserVars,
                   pipe>>

DrainDone(s) ==
    /\ serving = Serve(s, "draining")
    /\ stash[s] = 0
    /\ stash' = [stash EXCEPT ![s] = NoStash]
    /\ flow' = [flow EXCEPT ![s] = Applied(@, NoStash)]
    /\ serving' = Idle
    /\ UNCHANGED <<ringVars, up, tail, last, pollout, inbox, parserVars, pipe>>

-----------------------------------------------------------------------------

Work(s) ==
    \/ WriteNext(s) \/ WriteDone(s)
    \/ HandleUnit(s) \/ KeepRest(s) \/ ReadDone(s)
    \/ DrainUnit(s) \/ DrainStalls(s) \/ DrainDone(s)

Next ==
    \E s \in Sessions :
        \/ Establish(s) \/ Close(s)
        \/ ClientSends(s) \/ ClientReads(s)
        \/ PollOut(s) \/ PollIn(s)
        \/ Work(s)

Spec == Init /\ [][Next]_mirrorVars

\* The loop goes on and serves every socket that poll reports; a client that
\* stays connected goes on reading.
FairSpec ==
    /\ Spec
    /\ \A s \in Sessions :
         /\ WF_mirrorVars(Work(s))
         /\ SF_mirrorVars(PollOut(s))
         /\ SF_mirrorVars(PollIn(s))
         /\ WF_mirrorVars(ClientReads(s))

(***************************************************************************)
(* Properties.                                                             *)
(***************************************************************************)

\* Messages s will never be sent: the ring has gone round past its position.
Missed(s) == stored - last[s] - Lag(head, tail[s])

\* Every variable has its type, and only established sessions are served.
MirrorTypeOK ==
    /\ ring \in [Slots -> 0 .. stored]
    /\ head \in Slots
    /\ stored \in Nat
    /\ up \subseteq Sessions
    /\ tail \in [Sessions -> Slots]
    /\ last \in [Sessions -> Nat]
    /\ flow \in [Sessions -> [allow : BOOLEAN, pending : BOOLEAN, pollin : BOOLEAN]]
    /\ pollout \subseteq up
    /\ inbox \in [Sessions -> 0 .. MaxInbox]
    /\ stash \in [Sessions -> 0 .. NoStash]
    /\ partial \in [Sessions -> 0 .. FrameLength - 1]
    /\ garbled \subseteq up
    /\ owed \in [Sessions \ LongSenders -> 0 .. MaxInbox]
    /\ pipe \in [Sessions -> 0 .. Room]
    /\ serving \in [who : up \union {NoSession},
                    doing : {"nothing", "writing", "reading", "draining"},
                    left : 0 .. MaxInbox, more : 0 .. MaxInbox]

\* The slots between a session's position and the head hold the newest
\* messages, one after the other: neither an empty slot nor one of a lap before
\* is ever written, although no session's position limits what others store.
RingHoldsNewest ==
    \A s \in up : \A i \in Slots :
        Lag(head, i) \in 1 .. Lag(head, tail[s]) =>
            ring[i] = stored + 1 - Lag(head, i)

\* A session with messages to be sent has a write callback requested or is in
\* one: the one-shot request, taken back before the callback, is never lost.
NoLostWakeup ==
    \A s \in up :
        tail[s] # head =>
            s \in pollout \/ serving = Serve(s, "writing")

\* What was received and put aside by flow control is handed over before poll
\* reports anything newer; and no byte is lost, nor does the parser lose its
\* place in a frame, in the input of a session whose TLS records all fit
\* service_buffer.  Of other sessions nothing is claimed: what is read on with
\* of a record after rxflow_buffer has been filled is dropped.
InputInOrder ==
    /\ \A s \in up : stash[s] # NoStash => ~flow[s].pollin
    /\ \A s \in up \ LongSenders : owed[s] = inbox[s] + Stashed(s) + InHand(s)
    /\ garbled \subseteq LongSenders

\* A session is sent the messages in the order they were stored and none twice,
\* however often it is overrun.
SentInOrder ==
    [][\A s \in up : s \in up' /\ last'[s] # last[s] => last'[s] > last[s]]_mirrorVars

\* A session loses messages of the ring only to those of another session, never
\* to its own: that is all the test of LWS_CALLBACK_RECEIVE protects.
OverrunByOthers ==
    [][\A s \in up : s \in up' /\ Missed(s)' > Missed(s) => serving.who # s]_mirrorVars

\* The slot of the i-th message that s has still to be sent, and all of these.
Place(s, i) == IF tail[s] + i > Size THEN tail[s] + i - Size - 1 ELSE tail[s] + i - 1

ToSend ==
    [s \in Sessions |->
        IF s \in up THEN [i \in 1 .. Lag(head, tail[s]) |-> ring[Place(s, i)]]
        ELSE <<>>]

Feed == INSTANCE MirrorFeed WITH
    Members <- Sessions, Capacity <- Size - 1, posted <- stored, joined <- up,
    queue <- ToSend

\* One ring with a position per session is as good as a queue of its own for each:
\* however the indices go round and overrun each other, what is sent next to a
\* session is the front of its queue (callback_lws_mirror lines 583 to 668).
FeedsEach == Feed!Spec

\* Once nobody sends any more, a session whose input was stopped is read from
\* again: it is further behind than the point at which input restarts, passes it
\* while it catches up, and a callback of its own follows in which the change is
\* applied; unless it goes away or is overrun by messages still on their way.
\* While others send, its distance may stay above that point for good.
ClientsRest == <>[][\A t \in Sessions : ~ClientSends(t)]_mirrorVars

ThrottledResumes ==
    ClientsRest =>
        \A s \in Sessions :
            (s \in up /\ ~flow[s].allow /\ Lag(head, tail[s]) > Size - Slack)
                ~> (flow[s].pollin \/ s \notin up \/ Missed(s) > 0)

=============================================================================
