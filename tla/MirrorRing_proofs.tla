------------------------- MODULE MirrorRing_proofs -------------------------
(***************************************************************************)
(* Theorems about the mirror protocol, for any number of sessions, any size *)
(* of the ring and any traffic.                                             *)
(***************************************************************************)
EXTENDS MirrorRing, Integers, Sequences, TLAPS

Flows == [allow : BOOLEAN, pending : BOOLEAN, pollin : BOOLEAN]

\* What being served means at each place of the library.
ServedInv ==
    /\ serving.doing = "nothing" <=> serving.who = NoSession
    /\ serving.doing # "reading" => serving.left = 0 /\ serving.more = 0
    /\ serving.who \in Sessions =>
         /\ serving.doing = "writing" => pipe[serving.who] < Room
         /\ serving.doing = "draining" => stash[serving.who] # NoStash
         /\ serving.more <= inbox[serving.who]
         /\ serving.doing = "reading" /\ serving.who \notin LongSenders =>
              stash[serving.who] = NoStash /\ serving.more = 0

\* A socket with input put aside, or whose input is not allowed, is not read from.
Stopped(f, stashed) ==
    /\ stashed # NoStash => ~f.pollin
    /\ ~f.allow => ~f.pollin

FlowInv == \A s \in Sessions : Stopped(flow[s], stash[s])

OwedInv ==
    /\ \A s \in Sessions \ LongSenders : owed[s] = inbox[s] + Stashed(s) + InHand(s)
    /\ garbled \subseteq LongSenders

\* The whole ring goes back from the head in the order the messages were stored,
\* and a session has been sent nothing that comes after its position.
RingInv ==
    /\ \A i \in Slots : Lag(head, i) \in 1 .. stored => ring[i] = stored + 1 - Lag(head, i)
    /\ \A s \in up : last[s] + Lag(head, tail[s]) <= stored

MirrorInv ==
    MirrorTypeOK /\ ServedInv /\ FlowInv /\ OwedInv /\ RingInv /\ NoLostWakeup

-----------------------------------------------------------------------------

(***************************************************************************)
(* Lemmas about the positions in the ring.                                 *)
(***************************************************************************)

\* The distance is within the ring and zero only at the head.
LEMMA LagRange ==
    \A h, t \in Slots : Lag(h, t) \in 0 .. Size - 1 /\ (Lag(h, t) = 0 <=> h = t)
  BY MirrorAssumption DEF Slots, Lag

\* A position that moves on stays in the ring.
LEMMA NextInRing == \A i \in Slots : NextSlot(i) \in Slots
  BY MirrorAssumption DEF Slots, NextSlot

\* When the head moves on, the session a whole ring behind is at distance zero,
\* every other one is one further behind.
LEMMA HeadMoves ==
    \A h, t \in Slots :
        Lag(NextSlot(h), t) = IF Lag(h, t) = Size - 1 THEN 0 ELSE Lag(h, t) + 1
  BY MirrorAssumption DEF Slots, NextSlot, Lag

\* A session that is not at the head comes one closer when it moves on.
LEMMA TailMoves ==
    \A h, t \in Slots : h # t => Lag(h, NextSlot(t)) = Lag(h, t) - 1
  BY MirrorAssumption DEF Slots, NextSlot, Lag

(***************************************************************************)
(* Lemmas about the flow control.                                          *)
(***************************************************************************)

\* libwebsocket_rx_flow_control keeps the type.
LEMMA AskedType ==
    ASSUME NEW f \in Flows, NEW e \in BOOLEAN
    PROVE  Asked(f, e) \in Flows
  BY DEF Asked, Flows

\* _libwebsocket_rx_flow_control keeps the type and does not change what is allowed.
LEMMA AppliedType ==
    ASSUME NEW f \in Flows, NEW x
    PROVE  Applied(f, x) \in Flows
  BY DEF Applied, Flows

\* Allowing input does not read from a socket yet.
LEMMA AllowingStopped ==
    ASSUME NEW f \in Flows, NEW x, Stopped(f, x)
    PROVE  Stopped(Asked(f, TRUE), x)
  BY DEF Asked, Flows, Stopped

\* A change takes effect only when nothing is put aside.
LEMMA ApplyingStopped ==
    ASSUME NEW f \in Flows, NEW x, Stopped(f, x)
    PROVE  Stopped(Applied(f, x), x)
  BY DEF Applied, Flows, Stopped

\* Forbidding input and applying the change stops the reading in any case.
LEMMA ChokingStopped ==
    ASSUME NEW f \in Flows, NEW x, Stopped(f, x)
    PROVE  Stopped(Applied(Asked(f, FALSE), x), x)
  BY DEF Asked, Applied, Flows, Stopped

\* ... also when the buffer has just been emptied.
LEMMA DrainedStopped ==
    ASSUME NEW f \in Flows, NEW x, Stopped(f, x)
    PROVE  Stopped(Applied(f, NoStash), NoStash)
  BY DEF Applied, Flows, Stopped

(***************************************************************************)
(* Lemmas about the parts that several actions have in common.              *)
(***************************************************************************)

\* Allowing all sessions keeps type and order of the flow control.
LEMMA AllowAllFlows ==
    ASSUME flow \in [Sessions -> Flows], FlowInv
    PROVE  /\ AllowAll \in [Sessions -> Flows]
           /\ \A x \in Sessions : Stopped(AllowAll[x], stash[x])
<1>1. ASSUME NEW x \in Sessions
      PROVE  AllowAll[x] \in Flows /\ Stopped(AllowAll[x], stash[x])
  <2>1. flow[x] \in Flows /\ Stopped(flow[x], stash[x])
    BY DEF FlowInv
  <2>2. Asked(flow[x], TRUE) \in Flows /\ Stopped(Asked(flow[x], TRUE), stash[x])
    BY <2>1, AskedType, AllowingStopped
  <2>3. AllowAll[x] = Asked(flow[x], TRUE) \/ AllowAll[x] = flow[x]
    BY DEF AllowAll
  <2> QED
    BY <2>1, <2>2, <2>3
<1>2. AllowAll = [x \in Sessions |-> AllowAll[x]]
  BY DEF AllowAll
<1> QED
  BY <1>1, <1>2

\* What follows a write callback: the flow control stays in order, no request to
\* be called back is taken back, and the socket is left or its buffer is drained.
LEMMA AfterWriteableFacts ==
    ASSUME NEW s \in Sessions, NEW flows \in [Sessions -> Flows], NEW requests,
           \A x \in Sessions : Stopped(flows[x], stash[x]),
           AfterWriteable(s, flows, requests)
    PROVE  /\ flow' \in [Sessions -> Flows]
           /\ \A x \in Sessions : Stopped(flow'[x], stash[x])
           /\ pollout \subseteq pollout' /\ requests \subseteq pollout'
           /\ pollout' \subseteq pollout \union requests \union {s}
           /\ \/ serving' = Idle
              \/ serving' = Serve(s, "draining") /\ stash[s] # NoStash
<1>1. flow' = [flows EXCEPT ![s] = Applied(flows[s], stash[s])]
  BY DEF AfterWriteable
<1>2. flows[s] \in Flows /\ Stopped(flows[s], stash[s])
  OBVIOUS
<1>3. /\ Applied(flows[s], stash[s]) \in Flows
      /\ Stopped(Applied(flows[s], stash[s]), stash[s])
  BY <1>2, AppliedType, ApplyingStopped
<1>4. flow' \in [Sessions -> Flows]
  BY <1>1, <1>3
<1>5. ASSUME NEW x \in Sessions PROVE Stopped(flow'[x], stash[x])
  <2>1. CASE x = s
    BY <1>1, <1>3, <2>1
  <2>2. CASE x # s
    BY <1>1, <2>2
  <2> QED
    BY <2>1, <2>2
<1>6. /\ pollout \subseteq pollout' /\ requests \subseteq pollout'
      /\ pollout' \subseteq pollout \union requests \union {s}
  BY DEF AfterWriteable
<1>7. \/ serving' = Idle
      \/ serving' = Serve(s, "draining") /\ stash[s] # NoStash
  BY DEF AfterWriteable
<1> QED
  BY <1>4, <1>5, <1>6, <1>7

\* The callback, with what a parsing step leaves alone.
CalledBack(s) == Receive(s) /\ up' = up /\ tail' = tail /\ last' = last

\* A message that is received is stored unless the session is a whole ring behind.
LEMMA ReceiveRing ==
    ASSUME MirrorTypeOK, NEW s \in up, CalledBack(s)
    PROVE  /\ up' = up /\ tail' = tail /\ last' = last
           /\ \/ ring' = ring /\ head' = head /\ stored' = stored
              \/ /\ Lag(head, tail[s]) # Size - 1
                 /\ ring' = [ring EXCEPT ![head] = stored + 1]
                 /\ head' = NextSlot(head)
                 /\ stored' = stored + 1
  BY DEF CalledBack, Receive, Full, Store, ringVars

\* ... and its sender's input is stopped in good order.
LEMMA ReceiveFlow ==
    ASSUME NEW s \in Sessions, NEW x, flow \in [Sessions -> Flows],
           Stopped(flow[s], x), stash'[s] = x, Receive(s)
    PROVE  /\ flow' \in [Sessions -> Flows]
           /\ Stopped(flow'[s], x)
           /\ \A y \in Sessions \ {s} : flow'[y] = flow[y]
<1> DEFINE calm == Applied(flow[s], x)
           choked == Applied(Asked(flow[s], FALSE), x)
<1>1. flow' = [flow EXCEPT ![s] = calm] \/ flow' = [flow EXCEPT ![s] = choked]
  BY DEF Receive
<1>2. flow[s] \in Flows /\ Asked(flow[s], FALSE) \in Flows
  BY AskedType
<1>3. calm \in Flows /\ choked \in Flows
  BY <1>2, AppliedType
<1>4. Stopped(calm, x) /\ Stopped(choked, x)
  BY <1>2, ApplyingStopped, ChokingStopped
<1> HIDE DEF calm, choked
<1> QED
  BY <1>1, <1>3, <1>4

-----------------------------------------------------------------------------

(***************************************************************************)
(* The ring.                                                               *)
(***************************************************************************)

RingType ==
    /\ ring \in [Slots -> 0 .. stored]
    /\ head \in Slots
    /\ stored \in Nat
    /\ tail \in [Sessions -> Slots]
    /\ last \in [Sessions -> Nat]

\* A received message takes the slot at the head; what was stored before keeps its
\* place in the order.
LEMMA ReceiveKeepsRing ==
    ASSUME MirrorTypeOK, RingInv, NEW s \in up, CalledBack(s)
    PROVE  RingType' /\ RingInv'
<1> USE MirrorAssumption DEF MirrorTypeOK, RingType, RingInv
<1>1. /\ up' = up /\ tail' = tail /\ last' = last
      /\ \/ ring' = ring /\ head' = head /\ stored' = stored
         \/ /\ Lag(head, tail[s]) # Size - 1
            /\ ring' = [ring EXCEPT ![head] = stored + 1]
            /\ head' = NextSlot(head)
            /\ stored' = stored + 1
  BY ReceiveRing
<1>2. CASE ring' = ring /\ head' = head /\ stored' = stored
  BY <1>1, <1>2
<1>3. CASE /\ ring' = [ring EXCEPT ![head] = stored + 1]
           /\ head' = NextSlot(head)
           /\ stored' = stored + 1
  <2>1. RingType'
    BY <1>1, <1>3, NextInRing
  <2>2. \A t \in Slots : Lag(head', t) = IF Lag(head, t) = Size - 1 THEN 0 ELSE Lag(head, t) + 1
    BY <1>3, HeadMoves
  <2>3. \A t \in Slots : Lag(head, t) \in 0 .. Size - 1 /\ (Lag(head, t) = 0 <=> head = t)
    BY LagRange
  <2>4. ASSUME NEW i \in Slots, Lag(head', i) \in 1 .. stored'
        PROVE  ring'[i] = stored' + 1 - Lag(head', i)
    <3>1. Lag(head', i) = Lag(head, i) + 1
      BY <2>2, <2>3, <2>4
    <3>2. CASE i = head
      BY <1>3, <2>3, <3>1, <3>2
    <3>3. CASE i # head
      <4>1. Lag(head, i) \in 1 .. stored
        BY <1>3, <2>3, <2>4, <3>1, <3>3
      <4>2. ring'[i] = stored + 1 - Lag(head, i)
        BY <1>3, <3>3, <4>1
      <4>3. stored \in Nat /\ Lag(head, i) \in Nat /\ stored' = stored + 1
        BY <1>3, <2>3
      <4> HIDE DEF MirrorTypeOK, RingType, RingInv
      <4> QED
        BY <3>1, <4>2, <4>3
    <3> QED
      BY <3>2, <3>3
  <2>5. ASSUME NEW x \in up' PROVE last'[x] + Lag(head', tail'[x]) <= stored'
    <3>1. x \in up /\ tail[x] \in Slots /\ last[x] \in Nat
      BY <1>1
    <3>2. last[x] + Lag(head, tail[x]) <= stored
      BY <3>1
    <3>3. Lag(head', tail[x]) <= Lag(head, tail[x]) + 1
      BY <2>2, <2>3, <3>1
    <3>4. Lag(head', tail[x]) \in Nat
      BY <2>2, <2>3, <3>1
    <3> QED
      BY <1>1, <1>3, <2>3, <3>1, <3>2, <3>3, <3>4
  <2> QED
    BY <2>1, <2>4, <2>5
<1> QED
  BY <1>1, <1>2, <1>3

\* A message that is written is the one that follows what the session was sent.
LEMMA WriteKeepsRing ==
    ASSUME MirrorTypeOK, RingInv, NEW s \in up, WriteNext(s)
    PROVE  /\ RingType' /\ RingInv'
           /\ last'[s] = stored + 1 - Lag(head, tail[s])
           /\ last'[s] > last[s]
           /\ Lag(head, tail'[s]) = Lag(head, tail[s]) - 1
           /\ \A x \in Sessions \ {s} : last'[x] = last[x] /\ tail'[x] = tail[x]
<1> USE MirrorAssumption DEF MirrorTypeOK
<1>1. /\ ring' = ring /\ head' = head /\ stored' = stored /\ up' = up
      /\ tail[s] # head
      /\ tail' = [tail EXCEPT ![s] = NextSlot(tail[s])]
      /\ last' = [last EXCEPT ![s] = ring[tail[s]]]
  BY DEF WriteNext, ringVars
<1>2. tail[s] \in Slots /\ s \in Sessions
  OBVIOUS
<1>3. Lag(head, tail[s]) \in 1 .. stored
  BY <1>1, <1>2, LagRange DEF RingInv
<1>4. ring[tail[s]] = stored + 1 - Lag(head, tail[s])
  BY <1>2, <1>3 DEF RingInv
<1>5. Lag(head, NextSlot(tail[s])) = Lag(head, tail[s]) - 1
  BY <1>1, <1>2, TailMoves
<1>6. last'[s] = stored + 1 - Lag(head, tail[s])
  BY <1>1, <1>2, <1>4
<1>7. tail'[s] = NextSlot(tail[s])
  BY <1>1, <1>2
<1>8. last'[s] > last[s]
  BY <1>2, <1>3, <1>6 DEF RingInv
<1>9. \A x \in Sessions \ {s} : last'[x] = last[x] /\ tail'[x] = tail[x]
  BY <1>1
<1>10. RingType'
  BY <1>1, <1>2, NextInRing DEF RingType
<1>11. RingInv'
  <2>1. ASSUME NEW x \in up PROVE last'[x] + Lag(head, tail'[x]) <= stored
    <3>1. CASE x = s
      BY <1>3, <1>5, <1>6, <1>7, <3>1
    <3>2. CASE x # s
      BY <1>9, <3>2 DEF RingInv
    <3> QED
      BY <3>1, <3>2
  <2> QED
    BY <1>1, <2>1 DEF RingInv
<1> QED
  BY <1>5, <1>6, <1>7, <1>8, <1>9, <1>10, <1>11

\* A session joins at the head.
LEMMA JoinKeepsRing ==
    ASSUME MirrorTypeOK, RingInv, NEW s \in Sessions, Establish(s)
    PROVE  RingType' /\ RingInv'
<1> USE MirrorAssumption DEF MirrorTypeOK
<1>1. /\ ring' = ring /\ head' = head /\ stored' = stored /\ up' = up \union {s}
      /\ tail' = [tail EXCEPT ![s] = head]
      /\ last' = [last EXCEPT ![s] = stored]
  BY DEF Establish, JoinAt, ringVars
<1>2. Lag(head, head) = 0
  BY LagRange
<1>3. ASSUME NEW x \in up' PROVE last'[x] + Lag(head, tail'[x]) <= stored
  <2>1. CASE x = s
    BY <1>1, <1>2, <2>1
  <2>2. CASE x # s
    BY <1>1, <2>2 DEF RingInv
  <2> QED
    BY <2>1, <2>2
<1> QED
  BY <1>1, <1>3 DEF RingType, RingInv

\* A session leaves.
LEMMA LeaveKeepsRing ==
    ASSUME MirrorTypeOK, RingInv, NEW s \in Sessions, Close(s)
    PROVE  RingType' /\ RingInv'
<1> USE MirrorAssumption DEF MirrorTypeOK
<1>1. /\ ring' = ring /\ head' = head /\ stored' = stored /\ up' = up \ {s}
      /\ tail' = [tail EXCEPT ![s] = 0]
      /\ last' = [last EXCEPT ![s] = 0]
  BY DEF Close, ringVars
<1>2. 0 \in Slots
  BY DEF Slots
<1> QED
  BY <1>1, <1>2 DEF RingType, RingInv

\* No other step touches ring or positions.
LEMMA RestKeepsRing ==
    ASSUME MirrorTypeOK, NEW s \in Sessions,
           \/ ClientSends(s) \/ ClientReads(s) \/ PollOut(s) \/ PollIn(s)
           \/ WriteDone(s) \/ KeepRest(s) \/ ReadDone(s) \/ DrainStalls(s)
           \/ DrainDone(s) \/ UNCHANGED mirrorVars
    PROVE  /\ ring' = ring /\ head' = head /\ stored' = stored
           /\ up' = up /\ tail' = tail /\ last' = last
  BY DEF ClientSends, ClientReads, PollOut, PollIn, WriteDone, KeepRest, ReadDone,
         DrainStalls, DrainDone, mirrorVars, ringVars

(***************************************************************************)
(* The sockets.                                                            *)
(***************************************************************************)

Servings(sessions) ==
    [who : sessions \union {NoSession},
     doing : {"nothing", "writing", "reading", "draining"},
     left : 0 .. MaxInbox, more : 0 .. MaxInbox]

SocketType ==
    /\ up \subseteq Sessions
    /\ flow \in [Sessions -> Flows]
    /\ pollout \subseteq up
    /\ inbox \in [Sessions -> 0 .. MaxInbox]
    /\ stash \in [Sessions -> 0 .. NoStash]
    /\ partial \in [Sessions -> 0 .. FrameLength - 1]
    /\ garbled \subseteq up
    /\ owed \in [Sessions \ LongSenders -> 0 .. MaxInbox]
    /\ pipe \in [Sessions -> 0 .. Room]
    /\ serving \in Servings(up)

SocketInv == ServedInv /\ FlowInv /\ OwedInv /\ NoLostWakeup

\* The two halves of the type invariant.
LEMMA TypeHalves == MirrorTypeOK <=> RingType /\ SocketType
  BY DEF MirrorTypeOK, RingType, SocketType, Flows, Servings

\* What a value of `serving` says.
LEMMA ServingFields ==
    ASSUME NEW s, NEW doing, NEW left, NEW more
    PROVE  /\ Serve(s, doing).who = s /\ Serve(s, doing).doing = doing
           /\ Serve(s, doing).left = 0 /\ Serve(s, doing).more = 0
           /\ Reading(s, left, more).who = s /\ Reading(s, left, more).doing = "reading"
           /\ Reading(s, left, more).left = left /\ Reading(s, left, more).more = more
           /\ Idle.who = NoSession /\ Idle.doing = "nothing"
           /\ Idle.left = 0 /\ Idle.more = 0
  BY DEF Serve, Reading, Idle

\* ... and when it is one.
LEMMA ServingTypes ==
    ASSUME NEW sessions, NEW s \in sessions,
           NEW left \in 0 .. MaxInbox, NEW more \in 0 .. MaxInbox
    PROVE  /\ Serve(s, "writing") \in Servings(sessions)
           /\ Serve(s, "draining") \in Servings(sessions)
           /\ Reading(s, left, more) \in Servings(sessions)
           /\ Idle \in Servings(sessions)
  BY MirrorAssumption DEF Servings, Serve, Reading, Idle

\* While nobody is served no session has input in hand.
LEMMA IdleFacts ==
    ASSUME SocketType, serving = Idle
    PROVE  serving.who \notin Sessions /\ \A x \in Sessions : InHand(x) = 0
  BY MirrorAssumption, ServingFields DEF InHand

\* A session joins: nothing has been sent or put aside for it yet.
LEMMA JoinKeepsSockets ==
    ASSUME MirrorInv, NEW s \in Sessions, Establish(s)
    PROVE  SocketType' /\ SocketInv'
<1>1. SocketType /\ serving = Idle /\ s \notin up
  BY TypeHalves DEF MirrorInv, Establish
<1>2. /\ up' = up \union {s} /\ tail' = [tail EXCEPT ![s] = head] /\ head' = head
      /\ flow' = flow /\ pollout' = pollout /\ inbox' = inbox /\ stash' = stash
      /\ owed' = owed /\ pipe' = pipe /\ serving' = serving
      /\ partial' = partial /\ garbled' = garbled
  BY DEF Establish, JoinAt, ringVars, parserVars
<1>3. SocketType'
  <2>1. serving' \in Servings(up')
    BY <1>1, <1>2, MirrorAssumption DEF Servings, Idle
  <2> QED
    BY <1>1, <1>2, <2>1 DEF SocketType
<1>4. ServedInv' /\ FlowInv' /\ OwedInv'
  BY <1>2 DEF MirrorInv, ServedInv, FlowInv, OwedInv, Stashed, InHand
<1>5. NoLostWakeup'
  BY <1>1, <1>2 DEF MirrorInv, MirrorTypeOK, NoLostWakeup
<1> QED
  BY <1>3, <1>4, <1>5 DEF SocketInv

\* A session leaves with everything that was put aside for it.
LEMMA LeaveKeepsSockets ==
    ASSUME MirrorInv, NEW s \in Sessions, Close(s)
    PROVE  SocketType' /\ SocketInv'
<1> USE MirrorAssumption
<1>1. SocketType /\ s \in up
  BY TypeHalves DEF MirrorInv, Close
<1>2. /\ up' = up \ {s} /\ tail' = [tail EXCEPT ![s] = 0] /\ head' = head
      /\ flow' = [flow EXCEPT ![s] = Open] /\ pollout' = pollout \ {s}
      /\ inbox' = [inbox EXCEPT ![s] = 0] /\ stash' = [stash EXCEPT ![s] = NoStash]
      /\ partial' = [partial EXCEPT ![s] = 0] /\ garbled' = garbled \ {s}
      /\ owed' = [x \in DOMAIN owed |-> IF x = s THEN 0 ELSE owed[x]]
      /\ pipe' = [pipe EXCEPT ![s] = 0] /\ serving' = Idle
  BY DEF Close, ringVars
<1>3. Open \in Flows /\ Stopped(Open, NoStash)
  BY DEF Open, Flows, Stopped
<1>4. SocketType'
  <2>1. serving' \in Servings(up')
    BY <1>2 DEF Servings, Idle
  <2>2. /\ 0 \in 0 .. MaxInbox /\ 0 \in 0 .. Room /\ NoStash \in 0 .. NoStash
        /\ 0 \in 0 .. FrameLength - 1
    BY DEF NoStash
  <2>3. owed' \in [Sessions \ LongSenders -> 0 .. MaxInbox]
    BY <1>1, <1>2, <2>2 DEF SocketType
  <2> QED
    BY <1>1, <1>2, <1>3, <2>1, <2>2, <2>3 DEF SocketType
<1>5. ServedInv'
  BY <1>2, ServingFields DEF ServedInv
<1>6. FlowInv'
  BY <1>1, <1>2, <1>3 DEF MirrorInv, FlowInv, SocketType
<1>7. \A x \in Sessions \ {s} : InHand(x) = 0 /\ serving # Serve(x, "writing")
  <2>1. \/ serving = Idle
        \/ serving.who = s /\ serving.doing # "writing"
    BY DEF Close, Misparses
  <2>2. CASE serving = Idle
    <3>1. \A x \in Sessions : InHand(x) = 0
      BY <1>1, <2>2, IdleFacts
    <3>2. serving.doing = "nothing" /\ \A x : Serve(x, "writing").doing = "writing"
      BY <2>2 DEF Idle, Serve
    <3> QED
      BY <3>1, <3>2
  <2>3. CASE serving.who = s /\ serving.doing # "writing"
    <3>1. \A x : Serve(x, "writing").doing = "writing"
      BY DEF Serve
    <3>2. \A x \in Sessions \ {s} : InHand(x) = 0
      BY <2>3 DEF InHand
    <3> QED
      BY <2>3, <3>1, <3>2
  <2> QED
    BY <2>1, <2>2, <2>3
<1>8. OwedInv'
  <2>1. ASSUME NEW x \in Sessions \ LongSenders
        PROVE  owed'[x] = inbox'[x] + Stashed(x)' + InHand(x)'
    <3>1. InHand(x)' = 0
      BY <1>2, ServingFields DEF InHand
    <3>2. CASE x = s
      BY <1>1, <1>2, <3>1, <3>2 DEF SocketType, Stashed
    <3>3. CASE x # s
      <4>1. owed'[x] = owed[x] /\ inbox'[x] = inbox[x] /\ Stashed(x)' = Stashed(x)
        BY <1>1, <1>2, <3>3 DEF SocketType, Stashed
      <4> QED
        BY <1>7, <3>1, <3>3, <4>1 DEF MirrorInv, OwedInv
    <3> QED
      BY <3>2, <3>3
  <2>2. garbled' \subseteq LongSenders
    BY <1>2 DEF MirrorInv, OwedInv
  <2> QED
    BY <2>1, <2>2 DEF OwedInv
<1>9. NoLostWakeup'
  BY <1>1, <1>2, <1>7 DEF MirrorInv, MirrorTypeOK, NoLostWakeup
<1> QED
  BY <1>4, <1>5, <1>6, <1>8, <1>9 DEF SocketInv

\* The clients add to and take from their own socket.
LEMMA ClientKeepsSockets ==
    ASSUME MirrorInv, NEW s \in Sessions, ClientSends(s) \/ ClientReads(s)
    PROVE  SocketType' /\ SocketInv'
<1> USE MirrorAssumption
<1>1. SocketType
  BY TypeHalves DEF MirrorInv
<1>2. /\ up' = up /\ tail' = tail /\ head' = head
      /\ flow' = flow /\ pollout' = pollout /\ stash' = stash /\ serving' = serving
  BY DEF ClientSends, ClientReads, ringVars
<1>3. CASE ClientSends(s)
  <2>1. /\ inbox' = [inbox EXCEPT ![s] = inbox[s] + FrameLength]
        /\ owed' = [x \in DOMAIN owed |->
                       IF x = s THEN owed[x] + FrameLength ELSE owed[x]]
        /\ pipe' = pipe /\ partial' = partial /\ garbled' = garbled
        /\ inbox[s] + Stashed(s) + InHand(s) + FrameLength <= MaxInbox
    BY <1>3 DEF ClientSends
  <2>2. /\ \A x \in Sessions : Stashed(x)' = Stashed(x) /\ InHand(x)' = InHand(x)
        /\ \A x \in Sessions : Stashed(x) \in Nat /\ InHand(x) \in Nat
        /\ inbox[s] \in Nat
    BY <1>1, <1>2 DEF SocketType, Servings, Stashed, InHand, NoStash
  <2>3. inbox[s] + FrameLength \in 0 .. MaxInbox
    BY <2>1, <2>2
  <2>4. s \notin LongSenders => owed[s] + FrameLength \in 0 .. MaxInbox
    <3>1. s \notin LongSenders => owed[s] = inbox[s] + Stashed(s) + InHand(s)
      BY DEF MirrorInv, OwedInv
    <3> QED
      BY <2>1, <2>2, <3>1
  <2>5. SocketType'
    <3>1. owed' \in [Sessions \ LongSenders -> 0 .. MaxInbox]
      BY <1>1, <2>1, <2>4 DEF SocketType
    <3> QED
      BY <1>1, <1>2, <2>1, <2>3, <3>1 DEF SocketType
  <2>6. ServedInv' /\ FlowInv'
    BY <1>1, <1>2, <2>1 DEF MirrorInv, ServedInv, FlowInv, SocketType, Servings
  <2>7. OwedInv'
    <3>1. ASSUME NEW x \in Sessions \ LongSenders
          PROVE  owed'[x] = inbox'[x] + Stashed(x)' + InHand(x)'
      <4>1. owed[x] = inbox[x] + Stashed(x) + InHand(x)
        BY DEF MirrorInv, OwedInv
      <4>2. inbox[x] \in Nat /\ x \in DOMAIN owed
        BY <1>1 DEF SocketType
      <4>3. /\ inbox'[x] = IF x = s THEN inbox[x] + FrameLength ELSE inbox[x]
            /\ owed'[x] = IF x = s THEN owed[x] + FrameLength ELSE owed[x]
        BY <1>1, <2>1, <4>2 DEF SocketType
      <4> QED
        BY <2>2, <4>1, <4>2, <4>3
    <3> QED
      BY <2>1, <3>1 DEF MirrorInv, OwedInv
  <2>8. NoLostWakeup'
    BY <1>2 DEF MirrorInv, NoLostWakeup
  <2> QED
    BY <2>5, <2>6, <2>7, <2>8 DEF SocketInv
<1>4. CASE ClientReads(s)
  <2>1. /\ pipe' = [pipe EXCEPT ![s] = pipe[s] - 1] /\ pipe[s] > 0
        /\ inbox' = inbox /\ owed' = owed /\ partial' = partial /\ garbled' = garbled
    BY <1>4 DEF ClientReads, parserVars
  <2>2. SocketType'
    BY <1>1, <1>2, <2>1 DEF SocketType
  <2>3. ServedInv'
    BY <1>1, <1>2, <2>1 DEF MirrorInv, ServedInv, SocketType
  <2>4. FlowInv' /\ OwedInv' /\ NoLostWakeup'
    BY <1>2, <2>1 DEF MirrorInv, FlowInv, OwedInv, NoLostWakeup, Stashed, InHand
  <2> QED
    BY <2>2, <2>3, <2>4 DEF SocketInv
<1> QED
  BY <1>3, <1>4

\* A socket that can be written to: its request is taken back, and it is served.
LEMMA PollOutKeepsSockets ==
    ASSUME MirrorInv, NEW s \in Sessions, PollOut(s)
    PROVE  SocketType' /\ SocketInv'
<1> USE MirrorAssumption
<1>1. SocketType /\ serving = Idle /\ s \in pollout /\ s \in up /\ pipe[s] < Room
  BY TypeHalves DEF MirrorInv, PollOut, SocketType
<1>2. /\ up' = up /\ tail' = tail /\ head' = head /\ flow' = flow
      /\ pollout' = pollout \ {s} /\ stash' = stash /\ inbox' = inbox
      /\ owed' = owed /\ pipe' = pipe /\ serving' = Serve(s, "writing")
      /\ partial' = partial /\ garbled' = garbled
  BY DEF PollOut, ringVars, parserVars
<1>3. serving' \in Servings(up)
  BY <1>1, <1>2, ServingTypes
<1>4. SocketType'
  BY <1>1, <1>2, <1>3 DEF SocketType
<1>5. /\ serving'.who = s /\ serving'.doing = "writing"
      /\ serving'.left = 0 /\ serving'.more = 0
  BY <1>2, ServingFields
<1>6. ServedInv'
  BY <1>1, <1>2, <1>5 DEF ServedInv, SocketType
<1>7. FlowInv'
  BY <1>2 DEF MirrorInv, FlowInv
<1>8. OwedInv'
  <2>1. \A x \in Sessions : InHand(x) = 0 /\ InHand(x)' = 0 /\ Stashed(x)' = Stashed(x)
    BY <1>1, <1>2, <1>5, IdleFacts DEF InHand, Stashed
  <2> QED
    BY <1>2, <2>1 DEF MirrorInv, OwedInv
<1>9. NoLostWakeup'
  <2>1. \A x \in Sessions : serving # Serve(x, "writing")
    BY <1>1, ServingFields
  <2>2. \A x \in up : tail[x] # head => x \in pollout
    BY <1>1, <2>1 DEF MirrorInv, NoLostWakeup, SocketType
  <2> QED
    BY <1>2, <2>2 DEF NoLostWakeup
<1> QED
  BY <1>4, <1>6, <1>7, <1>8, <1>9 DEF SocketInv

\* A socket with something to read: its buffer comes first, then the socket.
LEMMA PollInKeepsSockets ==
    ASSUME MirrorInv, NEW s \in Sessions, PollIn(s)
    PROVE  SocketType' /\ SocketInv'
<1> USE MirrorAssumption
<1>1. SocketType /\ serving = Idle /\ s \in up
  BY TypeHalves DEF MirrorInv, PollIn
<1>2. /\ up' = up /\ tail' = tail /\ head' = head /\ flow' = flow
      /\ pollout' = pollout /\ stash' = stash /\ owed' = owed /\ pipe' = pipe
      /\ partial' = partial /\ garbled' = garbled
  BY DEF PollIn, ringVars, parserVars
<1>3. FlowInv'
  BY <1>2 DEF MirrorInv, FlowInv
<1>4. NoLostWakeup'
  <2>1. \A x \in Sessions : serving # Serve(x, "writing")
    BY <1>1, ServingFields
  <2>2. \A x \in up : tail[x] # head => x \in pollout
    BY <1>1, <2>1 DEF MirrorInv, NoLostWakeup, SocketType
  <2> QED
    BY <1>2, <2>2 DEF NoLostWakeup
<1>5. \A x \in Sessions : InHand(x) = 0
  BY <1>1, IdleFacts
<1>6. CASE serving' = Serve(s, "draining") /\ stash[s] # NoStash /\ inbox' = inbox
  <2>1. serving' \in Servings(up)
    BY <1>1, <1>6, ServingTypes
  <2>2. SocketType'
    BY <1>1, <1>2, <1>6, <2>1 DEF SocketType
  <2>3. /\ serving'.who = s /\ serving'.doing = "draining"
        /\ serving'.left = 0 /\ serving'.more = 0
    BY <1>6, ServingFields
  <2>4. ServedInv'
    BY <1>1, <1>2, <1>6, <2>3 DEF ServedInv, SocketType
  <2>5. OwedInv'
    BY <1>2, <1>5, <1>6, <2>3 DEF MirrorInv, OwedInv, InHand, Stashed
  <2> QED
    BY <1>3, <1>4, <2>2, <2>4, <2>5 DEF SocketInv
<1>7. ASSUME NEW n \in 1 .. inbox[s], NEW more \in 0 .. inbox[s] - n,
             more = 0 \/ s \in LongSenders, stash[s] = NoStash,
             serving' = Reading(s, n, more), inbox' = [inbox EXCEPT ![s] = inbox[s] - n]
      PROVE  SocketType' /\ SocketInv'
  <2>1. inbox[s] \in 0 .. MaxInbox /\ n \in 0 .. MaxInbox /\ more \in 0 .. MaxInbox
    BY <1>1 DEF SocketType
  <2>2. serving' \in Servings(up)
    BY <1>1, <1>7, <2>1, ServingTypes
  <2>3. SocketType'
    BY <1>1, <1>2, <1>7, <2>1, <2>2 DEF SocketType
  <2>4. /\ serving'.who = s /\ serving'.doing = "reading"
        /\ serving'.left = n /\ serving'.more = more
    BY <1>7, ServingFields
  <2>5. ServedInv'
    BY <1>1, <1>2, <1>7, <2>1, <2>4 DEF ServedInv, SocketType
  <2>6. OwedInv'
    <3>1. \A x \in Sessions : Stashed(x)' = Stashed(x) /\ Stashed(x) \in Nat
      BY <1>1, <1>2 DEF Stashed, SocketType, NoStash
    <3>2. \A x \in Sessions : InHand(x)' = IF x = s THEN n ELSE 0
      BY <2>4 DEF InHand
    <3>3. ASSUME NEW x \in Sessions \ LongSenders
          PROVE  owed'[x] = inbox'[x] + Stashed(x)' + InHand(x)'
      <4>1. owed[x] = inbox[x] + Stashed(x)
        BY <1>1, <1>5, <3>1 DEF MirrorInv, OwedInv, SocketType
      <4>2. inbox'[x] = (IF x = s THEN inbox[x] - n ELSE inbox[x])
        BY <1>1, <1>7 DEF SocketType
      <4>3. inbox[x] \in Nat
        BY <1>1 DEF SocketType
      <4>4. owed'[x] = owed[x]
        BY <1>2
      <4> QED
        BY <2>1, <3>1, <3>2, <4>1, <4>2, <4>3, <4>4
    <3> QED
      BY <1>2, <3>3 DEF MirrorInv, OwedInv
  <2> QED
    BY <1>3, <1>4, <2>3, <2>5, <2>6 DEF SocketInv
<1>8. flow[s].pollin /\ (flow[s].pollin => stash[s] = NoStash)
  BY DEF MirrorInv, FlowInv, Stopped, PollIn
<1> QED
  BY <1>6, <1>7, <1>8 DEF PollIn

\* A session that is served is established.
LEMMA ServedIsUp ==
    ASSUME SocketType, NEW s \in Sessions, serving.who = s
    PROVE  s \in up
  BY MirrorAssumption DEF SocketType, Servings

\* While a session is called back to write, no other one is.
LEMMA OthersAreAwaited ==
    ASSUME MirrorInv, NEW s \in Sessions, serving.who = s
    PROVE  \A x \in up \ {s} : tail[x] # head => x \in pollout
<1>1. \A x \in Sessions \ {s} : serving # Serve(x, "writing")
  BY ServingFields
<1> QED
  BY <1>1 DEF MirrorInv, MirrorTypeOK, NoLostWakeup

\* The end of a write callback, whatever was written in it.
LEMMA AfterWriteableKeeps ==
    ASSUME MirrorInv, NEW s \in Sessions, serving = Serve(s, "writing"),
           NEW flows \in [Sessions -> Flows], NEW requests \in SUBSET up,
           \A x \in Sessions : Stopped(flows[x], stash[x]),
           AfterWriteable(s, flows, requests),
           up' = up, inbox' = inbox, stash' = stash, owed' = owed,
           partial' = partial, garbled' = garbled,
           pipe' \in [Sessions -> 0 .. Room]
    PROVE  SocketType' /\ ServedInv' /\ FlowInv' /\ OwedInv'
<1> USE MirrorAssumption
<1>1. SocketType /\ s \in up
  BY TypeHalves, ServedIsUp, ServingFields DEF MirrorInv
<1>2. /\ flow' \in [Sessions -> Flows]
      /\ \A x \in Sessions : Stopped(flow'[x], stash[x])
      /\ pollout' \subseteq pollout \union requests \union {s}
      /\ \/ serving' = Idle
         \/ serving' = Serve(s, "draining") /\ stash[s] # NoStash
  BY AfterWriteableFacts
<1>3. serving' \in Servings(up)
  BY <1>1, <1>2, ServingTypes
<1>4. SocketType'
  BY <1>1, <1>2, <1>3 DEF SocketType
<1>5. serving'.left = 0 /\ serving'.more = 0
  BY <1>2, ServingFields
<1>6. ServedInv'
  <2>1. CASE serving' = Idle
    BY <2>1, ServingFields DEF ServedInv
  <2>2. CASE serving' = Serve(s, "draining") /\ stash[s] # NoStash
    <3>1. serving'.who = s /\ serving'.doing = "draining"
      BY <2>2, ServingFields
    <3> QED
      BY <1>1, <1>5, <2>2, <3>1 DEF ServedInv, SocketType
  <2> QED
    BY <1>2, <2>1, <2>2
<1>7. FlowInv'
  BY <1>2 DEF FlowInv
<1>8. OwedInv'
  <2>1. \A x \in Sessions : InHand(x) = 0 /\ InHand(x)' = 0 /\ Stashed(x)' = Stashed(x)
    BY <1>5, ServingFields DEF InHand, Stashed
  <2> QED
    BY <2>1 DEF MirrorInv, OwedInv
<1> QED
  BY <1>4, <1>6, <1>7, <1>8

\* A turn of the write loop: either the socket takes more and the loop goes on, or
\* it asks to be called back again.
LEMMA WriteNextKeepsSockets ==
    ASSUME MirrorInv, NEW s \in Sessions, WriteNext(s)
    PROVE  SocketType' /\ SocketInv'
<1> USE MirrorAssumption
<1> DEFINE flows == IF Reopens(tail'[s]) THEN AllowAll ELSE flow
<1>1. SocketType /\ serving = Serve(s, "writing") /\ s \in up
  BY TypeHalves, ServedIsUp, ServingFields DEF MirrorInv, WriteNext
<1>2. /\ up' = up /\ inbox' = inbox /\ stash' = stash /\ owed' = owed /\ head' = head
      /\ partial' = partial /\ garbled' = garbled
      /\ pipe' = [pipe EXCEPT ![s] = pipe[s] + 1]
      /\ tail' = [tail EXCEPT ![s] = NextSlot(tail[s])]
  BY DEF WriteNext, ringVars, parserVars
<1>3. serving.who = s /\ serving.doing = "writing" /\ serving.left = 0 /\ serving.more = 0
  BY <1>1, ServingFields
<1>4. pipe[s] \in 0 .. Room /\ pipe[s] < Room
  BY <1>1, <1>3 DEF MirrorInv, ServedInv, SocketType
<1>5. pipe' \in [Sessions -> 0 .. Room] /\ pipe'[s] = pipe[s] + 1
  BY <1>1, <1>2, <1>4 DEF SocketType
<1>6. flows \in [Sessions -> Flows] /\ \A x \in Sessions : Stopped(flows[x], stash[x])
  BY <1>1, AllowAllFlows DEF MirrorInv, FlowInv, SocketType
<1>7. \/ Choked(s) /\ AfterWriteable(s, flows, {s})
      \/ ~Choked(s) /\ flow' = flows /\ pollout' = pollout /\ serving' = serving
  BY DEF WriteNext, AskAgain
<1>8. \A x \in up \ {s} : tail'[x] # head => x \in pollout
  BY <1>1, <1>2, <1>3, OthersAreAwaited DEF MirrorInv, MirrorTypeOK
<1> HIDE DEF flows
<1>9. CASE Choked(s) /\ AfterWriteable(s, flows, {s})
  <2>1. SocketType' /\ ServedInv' /\ FlowInv' /\ OwedInv'
    BY <1>1, <1>2, <1>5, <1>6, <1>9, AfterWriteableKeeps
  <2>2. pollout \subseteq pollout' /\ s \in pollout'
    BY <1>6, <1>9, AfterWriteableFacts
  <2>3. NoLostWakeup'
    BY <1>2, <1>8, <2>2 DEF NoLostWakeup
  <2> QED
    BY <2>1, <2>3 DEF SocketInv
<1>10. CASE ~Choked(s) /\ flow' = flows /\ pollout' = pollout /\ serving' = serving
  <2>1. SocketType'
    BY <1>1, <1>2, <1>5, <1>6, <1>10 DEF SocketType
  <2>2. pipe'[s] < Room
    BY <1>4, <1>5, <1>10 DEF Choked
  <2>3. ServedInv'
    BY <1>2, <1>3, <1>10, <2>2 DEF MirrorInv, ServedInv
  <2>4. FlowInv'
    BY <1>2, <1>6, <1>10 DEF FlowInv
  <2>5. OwedInv'
    BY <1>2, <1>10 DEF MirrorInv, OwedInv, InHand, Stashed
  <2>6. NoLostWakeup'
    BY <1>1, <1>2, <1>8, <1>10 DEF NoLostWakeup
  <2> QED
    BY <2>1, <2>3, <2>4, <2>5, <2>6 DEF SocketInv
<1> QED
  BY <1>7, <1>9, <1>10

\* The loop ends with nothing left to be sent.
LEMMA WriteDoneKeepsSockets ==
    ASSUME MirrorInv, NEW s \in Sessions, WriteDone(s)
    PROVE  SocketType' /\ SocketInv'
<1>1. SocketType /\ serving = Serve(s, "writing") /\ tail[s] = head
  BY TypeHalves DEF MirrorInv, WriteDone
<1>2. /\ up' = up /\ inbox' = inbox /\ stash' = stash /\ owed' = owed /\ head' = head
      /\ pipe' = pipe /\ tail' = tail /\ partial' = partial /\ garbled' = garbled
  BY DEF WriteDone, ringVars, parserVars
<1>3. flow \in [Sessions -> Flows] /\ \A x \in Sessions : Stopped(flow[x], stash[x])
  BY <1>1 DEF MirrorInv, FlowInv, SocketType
<1>4. AfterWriteable(s, flow, {})
  BY DEF WriteDone
<1>5. SocketType' /\ ServedInv' /\ FlowInv' /\ OwedInv'
  <2>1. pipe' \in [Sessions -> 0 .. Room] /\ {} \in SUBSET up
    BY <1>1, <1>2 DEF SocketType
  <2> QED
    BY <1>1, <1>2, <1>3, <1>4, <2>1, AfterWriteableKeeps
<1>6. pollout \subseteq pollout'
  BY <1>3, <1>4, AfterWriteableFacts
<1>7. NoLostWakeup'
  <2>1. \A x \in up \ {s} : tail[x] # head => x \in pollout
    BY <1>1, ServingFields, OthersAreAwaited
  <2> QED
    BY <1>1, <1>2, <1>6, <2>1 DEF NoLostWakeup
<1> QED
  BY <1>5, <1>7 DEF SocketInv

\* Outside of a write callback every session with something to be sent is awaited.
LEMMA AllAreAwaited ==
    ASSUME MirrorInv, serving.doing # "writing"
    PROVE  \A x \in up : tail[x] # head => x \in pollout
<1>1. \A x \in Sessions : serving # Serve(x, "writing")
  BY ServingFields
<1> QED
  BY <1>1 DEF MirrorInv, MirrorTypeOK, NoLostWakeup

RingStays ==
    /\ ring' = ring /\ head' = head /\ stored' = stored
    /\ up' = up /\ tail' = tail /\ last' = last

\* What is parsed either is the end of a frame, which is given to the callback, or
\* leaves the ring alone.
LEMMA ParsingCallsBack ==
    ASSUME NEW s \in Sessions, HandleUnit(s) \/ DrainUnit(s)
    PROVE  /\ last' = last
           /\ CalledBack(s) \/ RingStays
<1>1. ASSUME NEW n, NEW there, Parsed(s, n, there)
      PROVE  last' = last /\ (CalledBack(s) \/ RingStays)
  BY <1>1 DEF Parsed, CalledBack, RingStays, ringVars
<1> QED
  BY <1>1 DEF HandleUnit, DrainUnit

\* What is known after n bytes were parsed.
ParsedInOrder(s, n) ==
    /\ up' = up /\ inbox' = inbox /\ pipe' = pipe /\ garbled' = garbled
    /\ pollout' \subseteq up
    /\ partial' \in [Sessions -> 0 .. FrameLength - 1]
    /\ flow' \in [Sessions -> Flows] /\ Stopped(flow'[s], stash'[s])
    /\ \A y \in Sessions \ {s} : flow'[y] = flow[y]
    /\ owed' = [y \in Sessions \ LongSenders |->
                  IF y = s THEN owed[y] - n ELSE owed[y]]
    /\ NoLostWakeup'

\* Parsing n bytes: the flow control and the parser keep their types and order, and
\* nobody with something to be sent is forgotten.
LEMMA ParsedFacts ==
    ASSUME MirrorInv, SocketType, NEW s \in Sessions, s \in up,
           serving.doing # "writing",
           NEW there \in Nat, NEW n \in 1 .. there, Stopped(flow[s], stash'[s]),
           Parsed(s, n, there)
    PROVE  ParsedInOrder(s, n)
<1> USE MirrorAssumption
<1>1. /\ up' = up /\ tail' = tail /\ inbox' = inbox /\ pipe' = pipe /\ garbled' = garbled
      /\ owed' = [y \in Sessions \ LongSenders |->
                    IF y = s THEN owed[y] - n ELSE owed[y]]
  BY DEF Parsed, SocketType
<1>2. CASE Receive(s) /\ partial' = [partial EXCEPT ![s] = 0]
  <2>1. /\ flow' \in [Sessions -> Flows] /\ Stopped(flow'[s], stash'[s])
        /\ \A y \in Sessions \ {s} : flow'[y] = flow[y]
    BY <1>2, ReceiveFlow DEF SocketType
  <2>2. pollout' = pollout \union up
    BY <1>2 DEF Receive
  <2>3. partial' \in [Sessions -> 0 .. FrameLength - 1]
    BY <1>2 DEF SocketType
  <2>4. pollout' \subseteq up /\ NoLostWakeup'
    BY <1>1, <2>2 DEF SocketType, NoLostWakeup
  <2> QED
    BY <1>1, <2>1, <2>3, <2>4 DEF ParsedInOrder
<1>3. CASE /\ Unfinished(s, n)
           /\ partial' = [partial EXCEPT ![s] =
                            IF s \in garbled THEN 0 ELSE partial[s] + n]
           /\ UNCHANGED <<ringVars, flow, pollout>>
  <2>1. partial[s] \in 0 .. FrameLength - 1
    BY DEF SocketType
  <2>2. s \in garbled \/ partial[s] + n \in 0 .. FrameLength - 1
    BY <1>3, <2>1 DEF Unfinished
  <2>3. partial' \in [Sessions -> 0 .. FrameLength - 1]
    BY <1>3, <2>2 DEF SocketType
  <2>4. NoLostWakeup'
    BY <1>1, <1>3, AllAreAwaited DEF NoLostWakeup, ringVars
  <2> QED
    BY <1>1, <1>3, <2>3, <2>4 DEF SocketType, ParsedInOrder
<1> QED
  BY <1>2, <1>3 DEF Parsed

\* Bytes are taken in hand or from the buffer, and given to the parser.
LEMMA ParsingKeepsSockets ==
    ASSUME MirrorInv, NEW s \in Sessions, HandleUnit(s) \/ DrainUnit(s)
    PROVE  SocketType' /\ SocketInv'
<1> USE MirrorAssumption
<1>1. SocketType /\ serving.who = s
  BY TypeHalves, ServingFields DEF MirrorInv, HandleUnit, DrainUnit
<1>2. s \in up /\ stash[s] \in 0 .. NoStash /\ inbox[s] \in 0 .. MaxInbox
  BY <1>1, ServedIsUp DEF SocketType
<1>3. serving.left \in 0 .. MaxInbox /\ serving.more \in 0 .. MaxInbox
  BY <1>1 DEF SocketType, Servings
<1>4. /\ Stashed(s) \in Nat
      /\ s \notin LongSenders =>
           owed[s] = inbox[s] + Stashed(s) + serving.left /\ owed[s] \in 0 .. MaxInbox
  BY <1>1, <1>2 DEF MirrorInv, OwedInv, InHand, SocketType, Stashed
<1>5. \A x \in Sessions \ LongSenders :
        x # s => owed[x] = inbox[x] + Stashed(x) /\ InHand(x) = 0
  BY <1>1 DEF MirrorInv, OwedInv, InHand, SocketType, Stashed, NoStash
<1>6. CASE HandleUnit(s)
  <2>1. PICK n \in 1 .. serving.left :
          serving' = [serving EXCEPT !.left = serving.left - n]
            /\ Parsed(s, n, serving.left)
    BY <1>6 DEF HandleUnit
  <2>2. stash' = stash /\ serving.doing = "reading" /\ Stopped(flow[s], stash[s])
    BY <1>6 DEF HandleUnit, MirrorInv, FlowInv
  <2>3. /\ serving'.who = s /\ serving'.doing = "reading"
        /\ serving'.left = serving.left - n /\ serving'.more = serving.more
        /\ serving.left - n \in 0 .. MaxInbox /\ n \in Nat
        /\ serving' \in Servings(up)
    BY <1>1, <1>3, <2>1, <2>2 DEF SocketType, Servings
  <2>p. ParsedInOrder(s, n)
    <3>1. serving.left \in Nat /\ serving.doing # "writing"
      BY <1>3, <2>2
    <3>2. Parsed(s, n, serving.left) /\ Stopped(flow[s], stash'[s])
      BY <2>1, <2>2
    <3> QED
      BY <1>1, <1>2, <2>1, <3>1, <3>2, ParsedFacts
  <2>4. /\ up' = up /\ inbox' = inbox /\ pipe' = pipe /\ garbled' = garbled
        /\ pollout' \subseteq up
        /\ partial' \in [Sessions -> 0 .. FrameLength - 1]
        /\ flow' \in [Sessions -> Flows] /\ Stopped(flow'[s], stash'[s])
        /\ \A y \in Sessions \ {s} : flow'[y] = flow[y]
        /\ owed' = [y \in Sessions \ LongSenders |->
                      IF y = s THEN owed[y] - n ELSE owed[y]]
        /\ NoLostWakeup'
    BY <2>p DEF ParsedInOrder
  <2>5. s \notin LongSenders => owed[s] - n \in 0 .. MaxInbox
    BY <1>2, <1>3, <1>4, <2>3
  <2>6. SocketType'
    <3>1. owed' \in [Sessions \ LongSenders -> 0 .. MaxInbox]
      BY <1>1, <2>4, <2>5 DEF SocketType
    <3> QED
      BY <1>1, <2>2, <2>3, <2>4, <3>1 DEF SocketType
  <2>7. ServedInv'
    BY <1>1, <1>2, <2>2, <2>3, <2>4 DEF MirrorInv, ServedInv
  <2>8. FlowInv'
    BY <2>2, <2>4 DEF MirrorInv, FlowInv
  <2>9. OwedInv'
    <3>1. \A x \in Sessions : Stashed(x)' = Stashed(x)
      BY <2>2 DEF Stashed
    <3>2. ASSUME NEW x \in Sessions \ LongSenders
          PROVE  owed'[x] = inbox'[x] + Stashed(x)' + InHand(x)'
      <4>1. CASE x = s
        <5>1. InHand(x)' = serving.left - n /\ owed'[x] = owed[s] - n
          BY <2>3, <2>4, <4>1 DEF InHand
        <5> QED
          BY <1>2, <1>3, <1>4, <2>3, <2>4, <3>1, <4>1, <5>1
      <4>2. CASE x # s
        <5>1. InHand(x)' = 0 /\ owed'[x] = owed[x] /\ Stashed(x) \in Nat /\ inbox[x] \in Nat
          BY <1>1, <2>3, <2>4, <4>2 DEF InHand, SocketType, Stashed
        <5> QED
          BY <1>5, <2>4, <3>1, <4>2, <5>1
      <4> QED
        BY <4>1, <4>2
    <3> QED
      BY <2>4, <3>2 DEF MirrorInv, OwedInv
  <2> QED
    BY <2>4, <2>6, <2>7, <2>8, <2>9 DEF SocketInv
<1>7. CASE DrainUnit(s)
  <2>1. PICK n \in 1 .. stash[s] :
          stash' = [stash EXCEPT ![s] = stash[s] - n] /\ Parsed(s, n, stash[s])
    BY <1>7 DEF DrainUnit
  <2>2. /\ serving = Serve(s, "draining") /\ serving' = serving
        /\ serving.doing = "draining" /\ serving.left = 0 /\ serving.more = 0
    BY <1>7, ServingFields DEF DrainUnit
  <2>3. stash[s] # NoStash
    BY <1>1, <2>2 DEF MirrorInv, ServedInv
  <2>4. /\ stash'[s] = stash[s] - n /\ stash'[s] # NoStash /\ stash'[s] \in 0 .. NoStash
        /\ stash' \in [Sessions -> 0 .. NoStash] /\ n \in Nat
    BY <1>1, <1>2, <2>1 DEF SocketType, NoStash
  <2>5. Stopped(flow[s], stash'[s])
    BY <2>3, <2>4 DEF MirrorInv, FlowInv, Stopped
  <2>p. ParsedInOrder(s, n)
    <3>1. stash[s] \in Nat /\ serving.doing # "writing"
      BY <1>2, <2>2 DEF NoStash
    <3>2. Parsed(s, n, stash[s]) /\ Stopped(flow[s], stash'[s])
      BY <2>1, <2>4, <2>5
    <3> QED
      BY <1>1, <1>2, <2>1, <3>1, <3>2, ParsedFacts
  <2>6. /\ up' = up /\ inbox' = inbox /\ pipe' = pipe /\ garbled' = garbled
        /\ pollout' \subseteq up
        /\ partial' \in [Sessions -> 0 .. FrameLength - 1]
        /\ flow' \in [Sessions -> Flows] /\ Stopped(flow'[s], stash'[s])
        /\ \A y \in Sessions \ {s} : flow'[y] = flow[y]
        /\ owed' = [y \in Sessions \ LongSenders |->
                      IF y = s THEN owed[y] - n ELSE owed[y]]
        /\ NoLostWakeup'
    BY <2>p DEF ParsedInOrder
  <2>7. Stashed(s) = stash[s] /\ Stashed(s)' = stash[s] - n
    BY <2>3, <2>4 DEF Stashed
  <2>8. s \notin LongSenders => owed[s] - n \in 0 .. MaxInbox
    BY <1>2, <1>4, <2>1, <2>2, <2>4, <2>7
  <2>9. SocketType'
    <3>1. owed' \in [Sessions \ LongSenders -> 0 .. MaxInbox]
      BY <1>1, <2>6, <2>8 DEF SocketType
    <3> QED
      BY <1>1, <2>2, <2>4, <2>6, <3>1 DEF SocketType
  <2>10. ServedInv'
    BY <1>1, <1>2, <2>2, <2>4, <2>6 DEF ServedInv
  <2>11. FlowInv'
    BY <1>1, <2>1, <2>6 DEF MirrorInv, FlowInv, SocketType
  <2>12. OwedInv'
    <3>1. ASSUME NEW x \in Sessions \ LongSenders
          PROVE  owed'[x] = inbox'[x] + Stashed(x)' + InHand(x)'
      <4>1. CASE x = s
        <5>1. InHand(x)' = 0 /\ owed'[x] = owed[s] - n
          BY <2>2, <2>6, <4>1 DEF InHand
        <5> QED
          BY <1>2, <1>4, <2>2, <2>4, <2>6, <2>7, <4>1, <5>1
      <4>2. CASE x # s
        <5>1. /\ InHand(x)' = 0 /\ owed'[x] = owed[x] /\ Stashed(x)' = Stashed(x)
              /\ Stashed(x) \in Nat /\ inbox[x] \in Nat
          BY <1>1, <2>1, <2>2, <2>6, <4>2 DEF InHand, SocketType, Stashed
        <5> QED
          BY <1>5, <2>6, <4>2, <5>1
      <4> QED
        BY <4>1, <4>2
    <3> QED
      BY <2>6, <3>1 DEF MirrorInv, OwedInv
  <2> QED
    BY <2>6, <2>9, <2>10, <2>11, <2>12 DEF SocketInv
<1> QED
  BY <1>6, <1>7

\* What is left of the record is read on with; a session that is not read from any
\* more has the rest of what was read put aside, or dropped.  It is never dropped if
\* nothing is left of the record: nothing is put aside then yet.
LEMMA RestOfReadKeepsSockets ==
    ASSUME MirrorInv, NEW s \in Sessions, KeepRest(s) \/ ReadDone(s)
    PROVE  SocketType' /\ SocketInv'
<1> USE MirrorAssumption
<1>1. SocketType /\ serving.who = s /\ serving.doing = "reading"
  BY TypeHalves DEF MirrorInv, KeepRest, ReadDone
<1>2. s \in up /\ stash[s] \in 0 .. NoStash /\ inbox[s] \in 0 .. MaxInbox
  BY <1>1, ServedIsUp DEF SocketType
<1>3. serving.left \in 0 .. MaxInbox /\ serving.more \in 0 .. MaxInbox
  BY <1>1 DEF SocketType, Servings
<1>4. /\ serving.more <= inbox[s]
      /\ s \notin LongSenders => stash[s] = NoStash /\ serving.more = 0
  BY <1>1 DEF MirrorInv, ServedInv
<1>5. /\ up' = up /\ pipe' = pipe /\ pollout' = pollout /\ flow' = flow
      /\ tail' = tail /\ head' = head /\ owed' = owed /\ ReadPending(s)
  BY DEF KeepRest, ReadDone, ringVars, parserVars
<1>6. PICK n \in 0 .. serving.more :
        /\ inbox' = [inbox EXCEPT ![s] = inbox[s] - n]
        /\ \/ serving.more = 0 /\ n = 0 /\ serving' = Idle
           \/ serving.more # 0 /\ n # 0 /\ serving' = Reading(s, n, serving.more - n)
  <2>1. CASE serving.more = 0
    <3>1. inbox' = inbox /\ serving' = Idle
      BY <1>5, <2>1 DEF ReadPending
    <3>2. inbox' = [inbox EXCEPT ![s] = inbox[s] - 0]
      BY <1>1, <1>2, <3>1 DEF SocketType
    <3>3. 0 \in 0 .. serving.more
      BY <1>3
    <3> QED
      BY <2>1, <3>1, <3>2, <3>3
  <2>2. CASE serving.more # 0
    <3>1. PICK n \in 1 .. serving.more :
            /\ serving' = Reading(s, n, serving.more - n)
            /\ inbox' = [inbox EXCEPT ![s] = inbox[s] - n]
      BY <1>5, <2>2 DEF ReadPending
    <3>2. n \in 0 .. serving.more /\ n # 0
      BY <1>3
    <3>3. /\ inbox' = [inbox EXCEPT ![s] = inbox[s] - n]
          /\ \/ serving.more = 0 /\ n = 0 /\ serving' = Idle
             \/ serving.more # 0 /\ n # 0 /\ serving' = Reading(s, n, serving.more - n)
      BY <2>2, <3>1, <3>2
    <3> QED
      BY <3>2, <3>3
  <2> QED
    BY <2>1, <2>2
<1>7. /\ n \in 0 .. MaxInbox /\ n <= inbox[s] /\ serving.more - n \in 0 .. MaxInbox
      /\ serving.more - n <= inbox[s] - n
  BY <1>2, <1>3, <1>4
<1>8. serving' \in Servings(up)
  <2>1. Idle \in Servings(up) /\ Reading(s, n, serving.more - n) \in Servings(up)
    BY <1>2, <1>7, ServingTypes
  <2> QED
    BY <1>6, <2>1
<1>9. \/ /\ serving.more = 0 /\ n = 0 /\ serving'.who = NoSession
         /\ serving'.doing = "nothing" /\ serving'.left = 0 /\ serving'.more = 0
      \/ /\ serving.more # 0 /\ serving'.who = s /\ serving'.doing = "reading"
         /\ serving'.left = n /\ serving'.more = serving.more - n
  BY <1>6, ServingFields
<1>10. inbox' \in [Sessions -> 0 .. MaxInbox] /\ inbox'[s] = inbox[s] - n
  BY <1>1, <1>2, <1>6, <1>7 DEF SocketType
<1>11. InHand(s)' = n /\ \A x \in Sessions \ {s} : InHand(x) = 0 /\ InHand(x)' = 0
  BY <1>1, <1>9 DEF InHand
<1>12. ServedInv'
  BY <1>2, <1>4, <1>7, <1>9, <1>10 DEF ServedInv
<1>13. NoLostWakeup'
  BY <1>1, <1>5, AllAreAwaited DEF NoLostWakeup
<1>14. s \notin LongSenders =>
         owed[s] = inbox[s] + Stashed(s) + serving.left /\ n = 0
  BY <1>1, <1>3, <1>4 DEF MirrorInv, OwedInv, InHand
<1>15. \A x \in Sessions \ LongSenders : x # s => owed[x] = inbox[x] + Stashed(x)
  BY <1>1, <1>11 DEF MirrorInv, OwedInv, SocketType, Stashed, NoStash
<1>16. \A x \in Sessions \ {s} : inbox'[x] = inbox[x] /\ inbox[x] \in Nat
  BY <1>1, <1>6 DEF SocketType
<1>17. CASE ReadDone(s)
  <2>1. serving.left = 0 /\ stash' = stash /\ partial' = partial /\ garbled' = garbled
    BY <1>17 DEF ReadDone, parserVars
  <2>2. SocketType'
    BY <1>1, <1>5, <1>8, <1>10, <2>1 DEF SocketType
  <2>3. FlowInv'
    BY <1>5, <2>1 DEF MirrorInv, FlowInv
  <2>4. OwedInv'
    <3>1. \A x \in Sessions : Stashed(x)' = Stashed(x) /\ Stashed(x) \in Nat
      BY <1>1, <2>1 DEF Stashed, SocketType, NoStash
    <3>2. ASSUME NEW x \in Sessions \ LongSenders
          PROVE  owed'[x] = inbox'[x] + Stashed(x)' + InHand(x)'
      BY <1>2, <1>5, <1>10, <1>11, <1>14, <1>15, <1>16, <2>1, <3>1
    <3> QED
      BY <2>1, <3>2 DEF MirrorInv, OwedInv
  <2> QED
    BY <1>12, <1>13, <2>2, <2>3, <2>4 DEF SocketInv
<1>18. CASE KeepRest(s) /\ stash[s] # NoStash
  <2>1. /\ stash' = stash /\ garbled' = garbled \union {s}
        /\ partial' = [partial EXCEPT ![s] = 0] /\ s \in LongSenders
    BY <1>4, <1>18 DEF KeepRest
  <2>2. SocketType'
    BY <1>1, <1>2, <1>5, <1>8, <1>10, <2>1 DEF SocketType
  <2>3. FlowInv'
    BY <1>5, <2>1 DEF MirrorInv, FlowInv
  <2>4. OwedInv'
    <3>1. \A x \in Sessions : Stashed(x)' = Stashed(x) /\ Stashed(x) \in Nat
      BY <1>1, <2>1 DEF Stashed, SocketType, NoStash
    <3>2. ASSUME NEW x \in Sessions \ LongSenders
          PROVE  owed'[x] = inbox'[x] + Stashed(x)' + InHand(x)'
      BY <1>5, <1>11, <1>15, <1>16, <2>1, <3>1
    <3> QED
      BY <2>1, <3>2 DEF MirrorInv, OwedInv
  <2> QED
    BY <1>12, <1>13, <2>2, <2>3, <2>4 DEF SocketInv
<1>19. CASE KeepRest(s) /\ stash[s] = NoStash
  <2>1. /\ ~flow[s].allow /\ partial' = partial /\ garbled' = garbled
        /\ stash' = [stash EXCEPT ![s] = serving.left]
    BY <1>19 DEF KeepRest, Kept
  <2>2. stash'[s] = serving.left /\ serving.left # NoStash
    BY <1>1, <1>3, <2>1 DEF SocketType, NoStash
  <2>3. Stashed(s) = 0 /\ Stashed(s)' = serving.left
    BY <1>19, <2>2 DEF Stashed
  <2>4. \A x \in Sessions \ {s} : Stashed(x)' = Stashed(x) /\ Stashed(x) \in Nat
    BY <1>1, <2>1 DEF Stashed, SocketType, NoStash
  <2>5. SocketType'
    BY <1>1, <1>3, <1>5, <1>8, <1>10, <2>1 DEF SocketType, NoStash
  <2>6. FlowInv'
    <3>1. ~flow[s].pollin
      BY <2>1 DEF MirrorInv, FlowInv, Stopped
    <3> QED
      BY <1>1, <1>5, <2>1, <3>1 DEF MirrorInv, FlowInv, Stopped, SocketType
  <2>7. OwedInv'
    <3>1. ASSUME NEW x \in Sessions \ LongSenders
          PROVE  owed'[x] = inbox'[x] + Stashed(x)' + InHand(x)'
      <4>1. CASE x = s
        BY <1>2, <1>3, <1>5, <1>10, <1>11, <1>14, <2>3, <4>1
      <4>2. CASE x # s
        BY <1>5, <1>11, <1>15, <1>16, <2>4, <4>2
      <4> QED
        BY <4>1, <4>2
    <3> QED
      BY <2>1, <3>1 DEF MirrorInv, OwedInv
  <2> QED
    BY <1>12, <1>13, <2>5, <2>6, <2>7 DEF SocketInv
<1> QED
  BY <1>17, <1>18, <1>19

\* A buffer is left with a rest in it, or given up when it is empty.
LEMMA RestOfDrainKeepsSockets ==
    ASSUME MirrorInv, NEW s \in Sessions, DrainStalls(s) \/ DrainDone(s)
    PROVE  SocketType' /\ SocketInv'
<1> USE MirrorAssumption
<1>1. SocketType /\ serving = Serve(s, "draining")
  BY TypeHalves DEF MirrorInv, DrainStalls, DrainDone
<1>2. serving.who = s /\ serving.doing = "draining" /\ serving.left = 0
  BY <1>1, ServingFields
<1>3. s \in up
  BY <1>1, <1>2, ServedIsUp
<1>4. /\ up' = up /\ pipe' = pipe /\ pollout' = pollout /\ owed' = owed
      /\ tail' = tail /\ head' = head /\ inbox' = inbox /\ serving' = Idle
      /\ partial' = partial /\ garbled' = garbled
  BY DEF DrainStalls, DrainDone, ringVars, parserVars
<1>5. serving' \in Servings(up)
  BY <1>3, <1>4, ServingTypes
<1>6. ServedInv'
  BY <1>4, ServingFields DEF ServedInv
<1>7. NoLostWakeup'
  BY <1>2, <1>4, AllAreAwaited DEF NoLostWakeup
<1>8. \A x \in Sessions : InHand(x) = 0 /\ InHand(x)' = 0
  BY <1>2, <1>4, ServingFields DEF InHand
<1>9. CASE DrainStalls(s)
  <2>1. flow' = flow /\ stash' = stash
    BY <1>9 DEF DrainStalls
  <2>2. SocketType'
    BY <1>1, <1>4, <1>5, <2>1 DEF SocketType
  <2>3. FlowInv' /\ OwedInv'
    BY <1>4, <1>8, <2>1 DEF MirrorInv, FlowInv, OwedInv, Stashed
  <2> QED
    BY <1>6, <1>7, <2>2, <2>3 DEF SocketInv
<1>10. CASE DrainDone(s)
  <2>1. /\ stash[s] = 0 /\ stash' = [stash EXCEPT ![s] = NoStash]
        /\ flow' = [flow EXCEPT ![s] = Applied(flow[s], NoStash)]
    BY <1>10 DEF DrainDone
  <2>2. flow[s] \in Flows /\ Stopped(flow[s], stash[s])
    BY <1>1 DEF MirrorInv, FlowInv, SocketType
  <2>3. /\ Applied(flow[s], NoStash) \in Flows
        /\ Stopped(Applied(flow[s], NoStash), NoStash)
    BY <2>2, AppliedType, DrainedStopped
  <2>4. SocketType'
    BY <1>1, <1>4, <1>5, <2>1, <2>3 DEF SocketType, NoStash
  <2>5. FlowInv'
    BY <1>1, <2>1, <2>3 DEF MirrorInv, FlowInv, SocketType
  <2>6. \A x \in Sessions : Stashed(x)' = Stashed(x)
    BY <1>1, <2>1 DEF Stashed, SocketType
  <2>7. OwedInv'
    BY <1>4, <1>8, <2>6 DEF MirrorInv, OwedInv
  <2> QED
    BY <1>6, <1>7, <2>4, <2>5, <2>7 DEF SocketInv
<1> QED
  BY <1>9, <1>10

-----------------------------------------------------------------------------

\* The server starts with an empty ring and no session.
LEMMA MirrorInitInv == Init => MirrorInv
<1> SUFFICES ASSUME Init PROVE MirrorInv
  OBVIOUS
<1> USE MirrorAssumption
<1>1. serving = Idle /\ up = {} /\ stored = 0
  BY DEF Init
<1>2. RingType
  BY DEF Init, RingType, Slots
<1>3. SocketType
  <2>1. Open \in Flows
    BY DEF Open, Flows
  <2>2. Idle \in Servings({})
    BY DEF Idle, Servings
  <2> QED
    BY <2>1, <2>2 DEF Init, SocketType, NoStash
<1>4. ServedInv /\ NoLostWakeup
  BY <1>1, ServingFields DEF ServedInv, NoLostWakeup
<1>5. FlowInv
  BY DEF Init, FlowInv, Stopped, Open
<1>6. OwedInv
  <2>1. \A x \in Sessions : InHand(x) = 0
    BY <1>1, <1>3, IdleFacts
  <2>2. /\ inbox = [s \in Sessions |-> 0]
        /\ owed = [s \in Sessions \ LongSenders |-> 0] /\ garbled = {}
        /\ stash = [s \in Sessions |-> NoStash]
    BY DEF Init
  <2>3. NoStash \in Nat
    BY DEF NoStash
  <2>4. \A x \in Sessions : Stashed(x) = 0
    BY <2>2 DEF Stashed
  <2>5. ASSUME NEW x \in Sessions \ LongSenders
        PROVE  owed[x] = inbox[x] + Stashed(x) + InHand(x)
    <3>1. InHand(x) = 0 /\ Stashed(x) = 0
      BY <2>1, <2>4
    <3>2. owed[x] = 0 /\ inbox[x] = 0
      BY <2>2
    <3> QED
      BY <3>1, <3>2
  <2> QED
    BY <2>2, <2>5 DEF OwedInv
<1>7. RingInv
  BY <1>1 DEF RingInv
<1> QED
  BY <1>2, <1>3, <1>4, <1>5, <1>6, <1>7, TypeHalves DEF MirrorInv

\* Only an established session is written to or received from.
LEMMA WorkIsUp ==
    ASSUME MirrorTypeOK, NEW s \in Sessions,
           WriteNext(s) \/ HandleUnit(s) \/ DrainUnit(s)
    PROVE  s \in up /\ serving.who = s
<1>1. serving.who = s
  BY ServingFields DEF WriteNext, HandleUnit, DrainUnit
<1>2. SocketType
  BY TypeHalves
<1> QED
  BY <1>1, <1>2, ServedIsUp

\* Every step keeps the invariant.
LEMMA MirrorInvStep == MirrorInv /\ [Next]_mirrorVars => MirrorInv'
<1> SUFFICES ASSUME MirrorInv, [Next]_mirrorVars PROVE MirrorInv'
  OBVIOUS
<1>0. MirrorTypeOK /\ RingInv
  BY DEF MirrorInv
<1>1. SUFFICES (RingType' /\ RingInv') /\ (SocketType' /\ SocketInv')
  <2>1. MirrorTypeOK' <=> RingType' /\ SocketType'
    BY DEF MirrorTypeOK, RingType, SocketType, Flows, Servings
  <2> QED
    BY <2>1 DEF MirrorInv, SocketInv
<1>2. ASSUME NEW s \in Sessions, Establish(s)
      PROVE  (RingType' /\ RingInv') /\ (SocketType' /\ SocketInv')
  BY <1>0, <1>2, JoinKeepsRing, JoinKeepsSockets
<1>3. ASSUME NEW s \in Sessions, Close(s)
      PROVE  (RingType' /\ RingInv') /\ (SocketType' /\ SocketInv')
  BY <1>0, <1>3, LeaveKeepsRing, LeaveKeepsSockets
<1>4. ASSUME NEW s \in Sessions, WriteNext(s)
      PROVE  (RingType' /\ RingInv') /\ (SocketType' /\ SocketInv')
  BY <1>0, <1>4, WorkIsUp, WriteKeepsRing, WriteNextKeepsSockets
<1>5. ASSUME NEW s \in Sessions, HandleUnit(s) \/ DrainUnit(s)
      PROVE  (RingType' /\ RingInv') /\ (SocketType' /\ SocketInv')
  <2>1. SocketType' /\ SocketInv'
    BY <1>5, ParsingKeepsSockets
  <2>2. s \in up /\ (CalledBack(s) \/ RingStays)
    BY <1>0, <1>5, WorkIsUp, ParsingCallsBack
  <2>3. CASE CalledBack(s)
    BY <1>0, <2>1, <2>2, <2>3, ReceiveKeepsRing
  <2>4. CASE RingStays
    BY <1>0, <2>1, <2>4 DEF RingStays, MirrorTypeOK, RingType, RingInv
  <2> QED
    BY <2>2, <2>3, <2>4
<1>6. ASSUME ring' = ring, head' = head, stored' = stored,
             up' = up, tail' = tail, last' = last
      PROVE  RingType' /\ RingInv'
  BY <1>0, <1>6 DEF MirrorTypeOK, RingType, RingInv
<1>7. ASSUME NEW s \in Sessions,
             \/ ClientSends(s) \/ ClientReads(s) \/ PollOut(s) \/ PollIn(s)
             \/ WriteDone(s) \/ KeepRest(s) \/ ReadDone(s)
             \/ DrainStalls(s) \/ DrainDone(s)
      PROVE  (RingType' /\ RingInv') /\ (SocketType' /\ SocketInv')
  <2>1. RingType' /\ RingInv'
    BY <1>0, <1>6, <1>7, RestKeepsRing
  <2>2. SocketType' /\ SocketInv'
    BY <1>7, ClientKeepsSockets, PollOutKeepsSockets, PollInKeepsSockets,
       WriteDoneKeepsSockets, RestOfReadKeepsSockets, RestOfDrainKeepsSockets
  <2> QED
    BY <2>1, <2>2
<1>8. CASE UNCHANGED mirrorVars
  <2>1. RingType' /\ RingInv'
    BY <1>6, <1>8 DEF mirrorVars, ringVars
  <2>2. SocketType
    BY <1>0, TypeHalves
  <2> QED
    BY <1>8, <2>1, <2>2
       DEF mirrorVars, ringVars, parserVars, SocketType, SocketInv, MirrorInv, ServedInv, FlowInv,
           OwedInv, NoLostWakeup, InHand, Stashed
<1> QED
  BY <1>2, <1>3, <1>4, <1>5, <1>7, <1>8 DEF Next, Work

\* Ring, flow control and sockets keep their invariant.
THEOREM MirrorInvariant == Spec => []MirrorInv
  BY MirrorInitInv, MirrorInvStep, PTL DEF Spec

\* For any ring and any number of sessions every variable keeps its type: the
\* indices stay in the ring, and only established sessions are served.
THEOREM MirrorTypeCorrect == Spec => []MirrorTypeOK
<1>1. MirrorInv => MirrorTypeOK
  BY DEF MirrorInv
<1> QED
  BY MirrorInvariant, <1>1, PTL

\* However sessions overrun each other, what lies between a session's position and
\* the head is always the newest messages in their order.
THEOREM RingAlwaysHoldsNewest == Spec => []RingHoldsNewest
<1>1. MirrorInv => RingHoldsNewest
  <2> SUFFICES ASSUME MirrorInv, NEW s \in up, NEW i \in Slots,
                      Lag(head, i) \in 1 .. Lag(head, tail[s])
               PROVE  ring[i] = stored + 1 - Lag(head, i)
    BY DEF RingHoldsNewest
  <2>1. s \in Sessions /\ head \in Slots /\ tail[s] \in Slots /\ last[s] \in Nat /\ stored \in Nat
    BY DEF MirrorInv, MirrorTypeOK
  <2>2. Lag(head, i) \in Nat /\ Lag(head, tail[s]) \in Nat
    BY <2>1, LagRange
  <2>3. last[s] + Lag(head, tail[s]) <= stored
    BY DEF MirrorInv, RingInv
  <2>4. Lag(head, i) \in 1 .. stored
    BY <2>1, <2>2, <2>3
  <2> QED
    BY <2>4 DEF MirrorInv, RingInv
<1> QED
  BY MirrorInvariant, <1>1, PTL

\* A session with something to be sent is called back or being called back, always.
THEOREM WakeupIsNeverLost == Spec => []NoLostWakeup
<1>1. MirrorInv => NoLostWakeup
  BY DEF MirrorInv
<1> QED
  BY MirrorInvariant, <1>1, PTL

\* Whatever is cut where, input that was put aside comes before newer input, and
\* of a session whose records all fit service_buffer not a byte is lost: rxflow_buffer
\* is empty whenever something is to be put into it.
THEOREM InputStaysInOrder == Spec => []InputInOrder
<1>1. MirrorInv => InputInOrder
  BY DEF MirrorInv, MirrorTypeOK, FlowInv, OwedInv, Stopped, InputInOrder
<1> QED
  BY MirrorInvariant, <1>1, PTL

\* A session is sent the messages in the order they were stored, and none twice.
THEOREM AlwaysSentInOrder == Spec => SentInOrder
<1>1. MirrorInv /\ [Next]_mirrorVars =>
        [\A s \in up : s \in up' /\ last'[s] # last[s] => last'[s] > last[s]]_mirrorVars
  <2> SUFFICES ASSUME MirrorInv, Next, NEW s \in up, s \in up', last'[s] # last[s]
               PROVE  last'[s] > last[s]
    OBVIOUS
  <2>0. MirrorTypeOK /\ RingInv /\ s \in Sessions
    BY DEF MirrorInv, MirrorTypeOK
  <2>1. ASSUME NEW x \in Sessions, Establish(x) PROVE x # s /\ last'[s] = last[s]
    BY <2>0, <2>1 DEF Establish, MirrorTypeOK
  <2>2. ASSUME NEW x \in Sessions, Close(x) PROVE last'[s] = last[s]
    BY <2>0, <2>2 DEF Close, MirrorTypeOK
  <2>3. ASSUME NEW x \in Sessions, WriteNext(x) PROVE last'[s] > last[s]
    <3>1. x \in up
      BY <2>0, <2>3, WorkIsUp
    <3> QED
      BY <2>0, <2>3, <3>1, WriteKeepsRing
  <2>4. ASSUME NEW x \in Sessions, HandleUnit(x) \/ DrainUnit(x) PROVE last'[s] = last[s]
    BY <2>4, ParsingCallsBack
  <2>5. ASSUME NEW x \in Sessions,
               \/ ClientSends(x) \/ ClientReads(x) \/ PollOut(x) \/ PollIn(x)
               \/ WriteDone(x) \/ KeepRest(x) \/ ReadDone(x)
               \/ DrainStalls(x) \/ DrainDone(x)
        PROVE  last'[s] = last[s]
    BY <2>0, <2>5, RestKeepsRing
  <2> QED
    BY <2>1, <2>2, <2>3, <2>4, <2>5 DEF Next, Work
<1> QED
  BY MirrorInvariant, <1>1, PTL DEF Spec, SentInOrder

\* A session that is being served never makes itself miss a message.
THEOREM AlwaysOverrunByOthers == Spec => OverrunByOthers
<1>1. MirrorInv /\ [Next]_mirrorVars =>
        [\A s \in up : s \in up' /\ Missed(s)' > Missed(s) => serving.who # s]_mirrorVars
  <2> SUFFICES ASSUME MirrorInv, Next, NEW s \in up, s \in up', serving.who = s
               PROVE  ~(Missed(s)' > Missed(s))
    OBVIOUS
  <2>0. /\ MirrorTypeOK /\ RingInv /\ s \in Sessions /\ s # NoSession
        /\ head \in Slots /\ tail[s] \in Slots /\ stored \in Nat /\ last[s] \in Nat
    BY MirrorAssumption DEF MirrorInv, MirrorTypeOK
  <2>1. Lag(head, tail[s]) \in 0 .. Size - 1 /\ last[s] + Lag(head, tail[s]) <= stored
    BY <2>0, LagRange DEF RingInv
  <2>2. Missed(s) \in Nat
    BY <2>0, <2>1 DEF Missed
  <2>3. serving # Idle
    BY <2>0, ServingFields
  <2>4. ASSUME NEW x \in Sessions, WriteNext(x) PROVE ~(Missed(s)' > Missed(s))
    <3>1. x = s
      BY <2>0, <2>4, WorkIsUp
    <3>2. /\ last'[s] = stored + 1 - Lag(head, tail[s])
          /\ Lag(head, tail'[s]) = Lag(head, tail[s]) - 1
          /\ head' = head /\ stored' = stored
      BY <2>0, <2>4, <3>1, WriteKeepsRing DEF WriteNext, ringVars
    <3>3. Missed(s)' = stored' - last'[s] - Lag(head', tail'[s])
      BY DEF Missed
    <3>4. Missed(s)' = 0
      BY <2>0, <2>1, <3>2, <3>3
    <3> QED
      BY <2>2, <3>4
  <2>5. ASSUME NEW x \in Sessions, HandleUnit(x) \/ DrainUnit(x)
        PROVE  ~(Missed(s)' > Missed(s))
    <3>1. x = s /\ (CalledBack(s) \/ RingStays)
      BY <2>0, <2>5, WorkIsUp, ParsingCallsBack
    <3>2. /\ tail' = tail /\ last' = last
          /\ \/ head' = head /\ stored' = stored
             \/ /\ Lag(head, tail[s]) # Size - 1
                /\ head' = NextSlot(head) /\ stored' = stored + 1
      BY <2>0, <3>1, ReceiveRing DEF RingStays
    <3>3. Missed(s)' = stored' - last[s] - Lag(head', tail[s])
      BY <3>2 DEF Missed
    <3>4. CASE head' = head /\ stored' = stored
      BY <2>2, <3>3, <3>4 DEF Missed
    <3>5. CASE /\ Lag(head, tail[s]) # Size - 1
               /\ head' = NextSlot(head) /\ stored' = stored + 1
      <4>1. Lag(head', tail[s]) = Lag(head, tail[s]) + 1
        BY <2>0, <3>5, HeadMoves
      <4>2. Missed(s) = stored - last[s] - Lag(head, tail[s])
        BY DEF Missed
      <4>3. Missed(s)' = Missed(s)
        BY <2>0, <2>1, <3>3, <3>5, <4>1, <4>2
      <4> QED
        BY <2>2, <4>3
    <3> QED
      BY <3>2, <3>4, <3>5
  <2>6. ASSUME NEW x \in Sessions,
               \/ ClientSends(x) \/ ClientReads(x) \/ PollOut(x) \/ PollIn(x)
               \/ WriteDone(x) \/ KeepRest(x) \/ ReadDone(x)
               \/ DrainStalls(x) \/ DrainDone(x)
        PROVE  ~(Missed(s)' > Missed(s))
    <3>1. head' = head /\ stored' = stored /\ tail' = tail /\ last' = last
      BY <2>0, <2>6, RestKeepsRing
    <3>2. Missed(s)' = Missed(s)
      BY <3>1 DEF Missed
    <3> QED
      BY <2>2, <3>2
  <2>7. ASSUME NEW x \in Sessions, Establish(x) \/ Close(x) PROVE FALSE
    BY <2>3, <2>7 DEF Establish, Close, Misparses
  <2> QED
    BY <2>4, <2>5, <2>6, <2>7 DEF Next, Work
<1> QED
  BY MirrorInvariant, <1>1, PTL DEF Spec, OverrunByOthers

-----------------------------------------------------------------------------

(***************************************************************************)
(* The ring as a queue of its own for each session.                        *)
(***************************************************************************)

\* The newest n of the messages up to top.
Newest(n, top) == [i \in 1 .. n |-> top - n + i]

\* The newest none.
LEMMA NewestNone == \A top : Newest(0, top) = <<>>
  BY DEF Newest

ToSendNewest ==
    ToSend = [s \in Sessions |->
                 IF s \in up THEN Newest(Lag(head, tail[s]), stored) ELSE <<>>]

\* The slots after a session's position come closer to the head one by one.
LEMMA PlaceInRing ==
    ASSUME NEW s \in Sessions, head \in Slots, tail[s] \in Slots,
           NEW i \in 1 .. Lag(head, tail[s])
    PROVE  Place(s, i) \in Slots /\ Lag(head, Place(s, i)) = Lag(head, tail[s]) - i + 1
<1>1. Size \in Nat /\ 2 < Size
  BY MirrorAssumption
<1> QED
  BY <1>1 DEF Slots, Lag, Place

\* What a session has still to be sent are the newest messages, in their order.
LEMMA ToSendIsNewest ==
    ASSUME MirrorInv
    PROVE  ToSend = [s \in Sessions |->
               IF s \in up THEN Newest(Lag(head, tail[s]), stored) ELSE <<>>]
<1>1. ASSUME NEW s \in up
      PROVE  [i \in 1 .. Lag(head, tail[s]) |-> ring[Place(s, i)]]
               = Newest(Lag(head, tail[s]), stored)
  <2>1. /\ s \in Sessions /\ head \in Slots /\ tail[s] \in Slots
        /\ stored \in Nat /\ last[s] \in Nat
    BY DEF MirrorInv, MirrorTypeOK
  <2>2. Lag(head, tail[s]) \in Nat /\ last[s] + Lag(head, tail[s]) <= stored
    BY <2>1, LagRange DEF MirrorInv, RingInv
  <2>3. ASSUME NEW i \in 1 .. Lag(head, tail[s])
        PROVE  ring[Place(s, i)] = stored - Lag(head, tail[s]) + i
    <3>1. /\ Place(s, i) \in Slots
          /\ Lag(head, Place(s, i)) = Lag(head, tail[s]) - i + 1
      BY <2>1, PlaceInRing
    <3>2. Lag(head, Place(s, i)) \in 1 .. stored
      BY <2>1, <2>2, <3>1
    <3>3. ring[Place(s, i)] = stored + 1 - Lag(head, Place(s, i))
      BY <3>1, <3>2 DEF MirrorInv, RingInv
    <3> QED
      BY <2>1, <2>2, <3>1, <3>3
  <2> QED
    BY <2>3 DEF Newest
<1> QED
  BY <1>1 DEF ToSend

\* Sequences of one length with the same elements are equal.
LEMMA SameSequence ==
    ASSUME NEW f \in Seq(Int), NEW g \in Seq(Int), NEW n, Len(f) = n, Len(g) = n,
           \A i \in 1 .. n : f[i] = g[i]
    PROVE  f = g
  OBVIOUS

\* The newest messages as a sequence: empty, one more stored, the oldest sent.
LEMMA NewestIsQueue ==
    ASSUME NEW n \in Nat, NEW top \in Nat
    PROVE  /\ Newest(n, top) \in Seq(Int)
           /\ Len(Newest(n, top)) = n
           /\ Newest(n, top) = <<>> <=> n = 0
           /\ Append(Newest(n, top), top + 1) = Newest(n + 1, top + 1)
           /\ n # 0 => /\ Head(Newest(n, top)) = top + 1 - n
                       /\ Tail(Newest(n, top)) = Newest(n - 1, top)
<1>1. Newest(n, top) \in Seq(Int) /\ Len(Newest(n, top)) = n
  BY DEF Newest
<1>2. Newest(n, top) = <<>> <=> n = 0
  BY <1>1
<1>3. Append(Newest(n, top), top + 1) = Newest(n + 1, top + 1)
  <2>1. /\ Append(Newest(n, top), top + 1) \in Seq(Int)
        /\ Len(Append(Newest(n, top), top + 1)) = n + 1
    BY <1>1
  <2>2. Newest(n + 1, top + 1) \in Seq(Int) /\ Len(Newest(n + 1, top + 1)) = n + 1
    BY DEF Newest
  <2>3. ASSUME NEW i \in 1 .. n + 1
        PROVE  Append(Newest(n, top), top + 1)[i] = Newest(n + 1, top + 1)[i]
    BY <1>1, <2>3 DEF Newest
  <2> QED
    BY <2>1, <2>2, <2>3, SameSequence
<1>4. ASSUME n # 0
      PROVE  /\ Head(Newest(n, top)) = top + 1 - n
             /\ Tail(Newest(n, top)) = Newest(n - 1, top)
  <2>1. Head(Newest(n, top)) = Newest(n, top)[1]
    BY <1>1, <1>4
  <2>2. Newest(n, top)[1] = top + 1 - n
    BY <1>4 DEF Newest
  <2>3. Tail(Newest(n, top)) \in Seq(Int) /\ Len(Tail(Newest(n, top))) = n - 1
    BY <1>1, <1>2, <1>4
  <2>4. Newest(n - 1, top) \in Seq(Int) /\ Len(Newest(n - 1, top)) = n - 1
    BY <1>4 DEF Newest
  <2>5. ASSUME NEW i \in 1 .. n - 1
        PROVE  Tail(Newest(n, top))[i] = Newest(n - 1, top)[i]
    <3>1. Tail(Newest(n, top))[i] = Newest(n, top)[i + 1]
      BY <1>1, <1>2, <1>4
    <3> QED
      BY <1>4, <3>1 DEF Newest
  <2>6. Tail(Newest(n, top)) = Newest(n - 1, top)
    BY <2>3, <2>4, <2>5, SameSequence
  <2> QED
    BY <2>1, <2>2, <2>6
<1> QED
  BY <1>1, <1>2, <1>3, <1>4

\* The same, one step later.
LEMMA ToSendIsNewestNext ==
    MirrorInv' =>
        ToSend' = [s \in Sessions |->
               IF s \in up' THEN Newest(Lag(head', tail'[s]), stored') ELSE <<>>]
<1>1. MirrorInv => ToSendNewest
  BY ToSendIsNewest DEF ToSendNewest
<1>2. MirrorInv' => ToSendNewest'
  BY <1>1, PTL
<1> QED
  BY <1>2 DEF ToSendNewest

\* A session joins with an empty queue.
LEMMA JoinFeeds ==
    ASSUME MirrorInv, MirrorInv', NEW s \in Sessions, Establish(s)
    PROVE  Feed!Join(s)
<1>1. /\ s \notin up /\ up' = up \union {s}
      /\ head' = head /\ stored' = stored
      /\ tail' = [tail EXCEPT ![s] = head] /\ last' = [last EXCEPT ![s] = stored]
  BY DEF Establish, JoinAt, ringVars
<1>2. head \in Slots /\ stored \in Nat /\ tail \in [Sessions -> Slots]
  BY DEF MirrorInv, MirrorTypeOK
<1>3. Lag(head, head) = 0
  BY <1>2, LagRange
<1>4. Newest(Lag(head, head), stored) = <<>>
  BY <1>3, NewestNone
<1>5. ToSend' = ToSend
  <2>1. ASSUME NEW x \in Sessions
        PROVE  (IF x \in up' THEN Newest(Lag(head', tail'[x]), stored') ELSE <<>>)
                 = IF x \in up THEN Newest(Lag(head, tail[x]), stored) ELSE <<>>
    <3>1. CASE x = s
      BY <1>1, <1>2, <1>4, <3>1
    <3>2. CASE x # s
      BY <1>1, <1>2, <3>2
    <3> QED
      BY <3>1, <3>2
  <2> QED
    BY <2>1, ToSendIsNewest, ToSendIsNewestNext
<1> QED
  BY <1>1, <1>5 DEF Feed!Join

\* A session leaves its queue behind.
LEMMA LeaveFeeds ==
    ASSUME MirrorInv, MirrorInv', NEW s \in Sessions, Close(s)
    PROVE  Feed!Leave(s)
<1>1. /\ s \in up /\ up' = up \ {s}
      /\ head' = head /\ stored' = stored
      /\ tail' = [tail EXCEPT ![s] = 0] /\ last' = [last EXCEPT ![s] = 0]
  BY DEF Close, ringVars
<1>2. tail \in [Sessions -> Slots]
  BY DEF MirrorInv, MirrorTypeOK
<1>3. ToSend' = [ToSend EXCEPT ![s] = <<>>]
  <2>1. ASSUME NEW x \in Sessions
        PROVE  (IF x \in up' THEN Newest(Lag(head', tail'[x]), stored') ELSE <<>>)
                 = IF x = s THEN <<>>
                   ELSE IF x \in up THEN Newest(Lag(head, tail[x]), stored) ELSE <<>>
    BY <1>1, <1>2
  <2> QED
    BY <2>1, ToSendIsNewest, ToSendIsNewestNext
<1> QED
  BY <1>1, <1>3 DEF Feed!Leave

\* A message that is written is the front of the session's queue.
LEMMA WriteFeeds ==
    ASSUME MirrorInv, MirrorInv', NEW s \in Sessions, WriteNext(s)
    PROVE  Feed!Deliver(s)
<1>1. s \in up /\ MirrorTypeOK /\ RingInv
  BY WorkIsUp DEF MirrorInv
<1>2. /\ up' = up /\ head' = head /\ stored' = stored
      /\ tail[s] # head
      /\ last' = [last EXCEPT ![s] = ring[tail[s]]]
  BY DEF WriteNext, ringVars
<1>3. /\ head \in Slots /\ stored \in Nat /\ tail \in [Sessions -> Slots]
      /\ last \in [Sessions -> Nat] /\ tail[s] \in Slots
  BY <1>1 DEF MirrorTypeOK
<1>4. /\ last'[s] = stored + 1 - Lag(head, tail[s])
      /\ Lag(head, tail'[s]) = Lag(head, tail[s]) - 1
      /\ \A x \in Sessions \ {s} : tail'[x] = tail[x]
  BY <1>1, WriteKeepsRing
<1>5. Lag(head, tail[s]) \in Nat /\ Lag(head, tail[s]) # 0
  BY <1>2, <1>3, LagRange
<1>6. ToSend[s] = Newest(Lag(head, tail[s]), stored)
  BY <1>1, ToSendIsNewest
<1>7. /\ ToSend[s] # <<>>
      /\ Head(ToSend[s]) = stored + 1 - Lag(head, tail[s])
      /\ Tail(ToSend[s]) = Newest(Lag(head, tail[s]) - 1, stored)
  <2> DEFINE n == Lag(head, tail[s])
  <2>1. n \in Nat /\ n # 0 /\ stored \in Nat /\ ToSend[s] = Newest(n, stored)
    BY <1>3, <1>5, <1>6
  <2> HIDE DEF n
  <2>2. /\ ToSend[s] # <<>>
        /\ Head(ToSend[s]) = stored + 1 - n
        /\ Tail(ToSend[s]) = Newest(n - 1, stored)
    BY <2>1, NewestIsQueue
  <2> QED
    BY <2>2 DEF n
<1>8. last' = [last EXCEPT ![s] = Head(ToSend[s])]
  BY <1>2, <1>3, <1>4, <1>7
<1>9. ToSend' = [ToSend EXCEPT ![s] = Tail(ToSend[s])]
  <2>1. ASSUME NEW x \in Sessions
        PROVE  (IF x \in up' THEN Newest(Lag(head', tail'[x]), stored') ELSE <<>>)
                 = IF x = s THEN Tail(ToSend[s])
                   ELSE IF x \in up THEN Newest(Lag(head, tail[x]), stored) ELSE <<>>
    <3>1. CASE x = s
      BY <1>1, <1>2, <1>4, <1>7, <3>1
    <3>2. CASE x # s
      BY <1>2, <1>4, <3>2
    <3> QED
      BY <3>1, <3>2
  <2> QED
    BY <2>1, ToSendIsNewest, ToSendIsNewestNext
<1> QED
  BY <1>1, <1>2, <1>7, <1>8, <1>9 DEF Feed!Deliver

\* A message that is received goes to every queue, empties those that were full, or
\* is dropped because its sender's is.
LEMMA ReceiveFeeds ==
    ASSUME MirrorInv, MirrorInv', NEW s \in up, CalledBack(s)
    PROVE  Feed!Post(s) \/ UNCHANGED Feed!feedVars
<1>1. /\ up' = up /\ tail' = tail /\ last' = last
      /\ \/ ring' = ring /\ head' = head /\ stored' = stored
         \/ /\ Lag(head, tail[s]) # Size - 1
            /\ ring' = [ring EXCEPT ![head] = stored + 1]
            /\ head' = NextSlot(head)
            /\ stored' = stored + 1
  BY ReceiveRing DEF MirrorInv
<1>2. /\ s \in Sessions /\ head \in Slots /\ stored \in Nat
      /\ tail \in [Sessions -> Slots] /\ up \subseteq Sessions
  BY DEF MirrorInv, MirrorTypeOK
<1>3. CASE ring' = ring /\ head' = head /\ stored' = stored
  <2>1. ToSend' = ToSend
    BY <1>1, <1>3 DEF ToSend, Place
  <2> QED
    BY <1>1, <1>3, <2>1 DEF Feed!feedVars
<1>4. CASE /\ Lag(head, tail[s]) # Size - 1
           /\ head' = NextSlot(head) /\ stored' = stored + 1
  <2>1. ASSUME NEW x \in up
        PROVE  /\ ToSend[x] = Newest(Lag(head, tail[x]), stored)
               /\ Lag(head, tail[x]) \in 0 .. Size - 1
               /\ Len(ToSend[x]) = Lag(head, tail[x])
               /\ Append(ToSend[x], stored + 1)
                    = Newest(Lag(head, tail[x]) + 1, stored + 1)
    <3>1. x \in Sessions /\ tail[x] \in Slots
      BY <1>2
    <3>2. Lag(head, tail[x]) \in 0 .. Size - 1
      BY <1>2, <3>1, LagRange
    <3>3. ToSend[x] = Newest(Lag(head, tail[x]), stored)
      BY <3>1, ToSendIsNewest
    <3>4. Lag(head, tail[x]) \in Nat
      BY <3>2
    <3> QED
      BY <1>2, <3>2, <3>3, <3>4, NewestIsQueue
  <2>2. Size - 1 \in Nat
    BY MirrorAssumption
  <2>3. Newest(0, stored + 1) = <<>>
    BY NewestNone
  <2>4. ToSend' = [x \in Sessions |->
             IF x \in up /\ Len(ToSend[x]) < Size - 1
             THEN Append(ToSend[x], stored + 1) ELSE <<>>]
    <3>1. ASSUME NEW x \in Sessions
          PROVE  (IF x \in up' THEN Newest(Lag(head', tail'[x]), stored') ELSE <<>>)
                   = IF x \in up /\ Len(ToSend[x]) < Size - 1
                     THEN Append(ToSend[x], stored + 1) ELSE <<>>
      <4>1. CASE x \notin up
        BY <1>1, <4>1
      <4>2. CASE x \in up /\ Lag(head, tail[x]) = Size - 1
        <5>1. Lag(head', tail[x]) = 0
          BY <1>2, <1>4, <4>2, HeadMoves
        <5>2. ~(Len(ToSend[x]) < Size - 1)
          BY <2>1, <2>2, <4>2
        <5> QED
          BY <1>1, <1>4, <2>3, <4>2, <5>1, <5>2
      <4>3. CASE x \in up /\ Lag(head, tail[x]) # Size - 1
        <5>1. Lag(head', tail[x]) = Lag(head, tail[x]) + 1
          BY <1>2, <1>4, <4>3, HeadMoves
        <5>2. Len(ToSend[x]) < Size - 1
          BY <2>1, <2>2, <4>3
        <5> QED
          BY <1>1, <1>4, <2>1, <4>3, <5>1, <5>2
      <4> QED
        BY <4>1, <4>2, <4>3
    <3> QED
      BY <3>1, ToSendIsNewestNext
  <2>5. Len(ToSend[s]) < Size - 1
    BY <1>4, <2>1, <2>2
  <2> QED
    BY <1>1, <1>4, <2>4, <2>5 DEF Feed!Post
<1> QED
  BY <1>1, <1>3, <1>4

\* One ring with a position per session implements a queue for each of them: a step
\* is a join, a leave, a post, a delivery from the front of a queue, or none of these.
THEOREM RingFeedsEach == Spec => FeedsEach
<1>1. Init => Feed!Init
  <2> SUFFICES ASSUME Init PROVE Feed!Init
    OBVIOUS
  <2>1. ToSend = [s \in Sessions |-> <<>>]
    BY DEF Init, ToSend
  <2> QED
    BY <2>1 DEF Init, Feed!Init
<1>2. MirrorInv /\ MirrorInv' /\ [Next]_mirrorVars => [Feed!Next]_(Feed!feedVars)
  <2> SUFFICES ASSUME MirrorInv, MirrorInv', [Next]_mirrorVars
               PROVE  [Feed!Next]_(Feed!feedVars)
    OBVIOUS
  <2>0. MirrorTypeOK
    BY DEF MirrorInv
  <2>1. ASSUME NEW s \in Sessions, Establish(s) PROVE Feed!Next
    BY <2>1, JoinFeeds DEF Feed!Next
  <2>2. ASSUME NEW s \in Sessions, Close(s) PROVE Feed!Next
    BY <2>2, LeaveFeeds DEF Feed!Next
  <2>3. ASSUME NEW s \in Sessions, WriteNext(s) PROVE Feed!Next
    BY <2>3, WriteFeeds DEF Feed!Next
  <2>4. ASSUME NEW s \in Sessions, HandleUnit(s) \/ DrainUnit(s)
        PROVE  Feed!Next \/ UNCHANGED Feed!feedVars
    <3>1. s \in up /\ (CalledBack(s) \/ RingStays)
      BY <2>0, <2>4, WorkIsUp, ParsingCallsBack
    <3>2. CASE CalledBack(s)
      <4>1. Feed!Post(s) \/ UNCHANGED Feed!feedVars
        BY <3>1, <3>2, ReceiveFeeds
      <4> QED
        BY <2>4, <4>1 DEF Feed!Next
    <3>3. CASE RingStays
      <4>1. ToSend' = ToSend
        BY <3>3 DEF RingStays, ToSend, Place
      <4> QED
        BY <3>3, <4>1 DEF RingStays, Feed!feedVars
    <3> QED
      BY <3>1, <3>2, <3>3
  <2>5. ASSUME ring' = ring, head' = head, stored' = stored,
               up' = up, tail' = tail, last' = last
        PROVE  UNCHANGED Feed!feedVars
    <3>1. ToSend' = ToSend
      BY <2>5 DEF ToSend, Place
    <3> QED
      BY <2>5, <3>1 DEF Feed!feedVars
  <2>6. ASSUME NEW s \in Sessions,
               \/ ClientSends(s) \/ ClientReads(s) \/ PollOut(s) \/ PollIn(s)
               \/ WriteDone(s) \/ KeepRest(s) \/ ReadDone(s)
               \/ DrainStalls(s) \/ DrainDone(s)
        PROVE  UNCHANGED Feed!feedVars
    BY <2>0, <2>5, <2>6, RestKeepsRing
  <2>7. CASE UNCHANGED mirrorVars
    BY <2>5, <2>7 DEF mirrorVars, ringVars
  <2> QED
    BY <2>1, <2>2, <2>3, <2>4, <2>6, <2>7 DEF Next, Work
<1> QED
  BY <1>1, <1>2, MirrorInvariant, PTL DEF Spec, FeedsEach, Feed!Spec

=============================================================================
