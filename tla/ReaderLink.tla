----------------------------- MODULE ReaderLink -----------------------------
(***************************************************************************)
(* The serial thread of the host at the level of characters: keep-alives,   *)
(* wait_message and wait_serial_number of srl/ArduinoRFID.c against the     *)
(* board of ReaderBoard, then is_serial_present and publication as in       *)
(* CardPublisher.  Each step of the thread that CardPublisher knows is that *)
(* step together with what it does to the line.                             *)
(***************************************************************************)
EXTENDS CardPublisher, ReaderBoard

CONSTANTS
    SerialLength,     \* characters wait_serial_number reads
    MismatchReturns,  \* what compare_keep_alive may return for other answers
    SplitReplies,     \* whether a poll may find only the start of an answer
    StrayNumbers,     \* whose number characters that are no serial number may be
    MaxHeys           \* bound: HEY! messages on their way at one time

ASSUME LinkAssumption ==
    /\ SerialLength \in Nat \ {0}
    /\ MismatchReturns \subseteq {"KA", "SS", "other"}
    /\ MismatchReturns # {}
    /\ SplitReplies \in BOOLEAN
    /\ StrayNumbers \subseteq Cards
    /\ StrayNumbers # {}
    /\ MaxHeys \in Nat
    /\ Nobody \in Cards \ Allowed
    /\ BoardCards = Cards \ {Nobody}

VARIABLES
    keepalive,   \* with reader = "link": whether the HEY! of this turn is out
    buff,        \* the message buffer, never cleared
    received,    \* how many characters wait_message has put into it
    serial,      \* what wait_serial_number has read so far
    taken        \* history: announcement |-> messages and cards its bytes are of

linkVars == <<keepalive, buff, received, serial, taken>>
vars == <<publisherVars, boardVars, linkVars>>

NoChar == Letter(OtherByte)

Init ==
    /\ PublisherInit
    /\ BoardInit
    /\ keepalive = "send"
    /\ buff = [i \in 1 .. MessageLength |-> NoChar]
    /\ received = 0
    /\ serial = <<>>
    /\ taken = [i \in Announcements |-> [messages |-> {}, cards |-> {}]]

\* The host takes the first n characters off the line.
Take(n) == toHost' = SubSeq(toHost, n + 1, Len(toHost))

LineOnly == UNCHANGED <<connection_done, somthing_to_send, buffer, uid, sent, resets>>

----------------------------------------------------------------------------

\* send_keep_alive.  Beyond the bounds the HEY! is one that empty_serial throws
\* away.
SendHey ==
    /\ reader = "link"
    /\ keepalive = "send"
    /\ keepalive' = "poll"
    /\ heys' = IF heys < MaxHeys /\ Len(toHost) <= MaxBacklog THEN heys + 1 ELSE heys
    /\ LineOnly
    /\ UNCHANGED <<publisherVars, toHost, buff, received, serial, taken>>

\* What receive_keep_alive makes of the characters it polled: for anything that
\* is neither answer compare_keep_alive ends without a return statement.
BytesOf(chars) == [i \in DOMAIN chars |-> chars[i].byte]

Answers(chars) ==
    IF BytesOf(chars) = BytesOf(KA) THEN {"KA"}
    ELSE IF BytesOf(chars) = BytesOf(SS) THEN {"SS"}
    ELSE MismatchReturns

\* How many of at most two characters RS232_PollComport finds.
Found ==
    LET there == IF Len(toHost) < 2 THEN Len(toHost) ELSE 2
    IN  IF SplitReplies THEN 0 .. there ELSE {there}

Poll(n) ==
    /\ reader = "link"
    /\ keepalive = "poll"
    /\ keepalive' = "send"
    /\ Take(n)
    /\ LineOnly
    /\ UNCHANGED <<heys, buff, serial, taken>>

\* receive_keep_alive returned SS_RECEIVED: wait_message starts.
PollAnnouncement ==
    \E n \in Found :
        /\ Poll(n)
        /\ "SS" \in Answers(SubSeq(toHost, 1, n))
        /\ RecognizeAnnouncement
        /\ received' = 0

\* It returned anything else: another turn after Sleep(1000).
PollOther ==
    \E n \in Found :
        /\ Poll(n)
        /\ Answers(SubSeq(toHost, 1, n)) # {"SS"}
        /\ UNCHANGED <<publisherVars, received>>

\* Fault: the length of buff is not looked at.
ReceiveCharUnbounded ==
    /\ reader = "receive"
    /\ toHost # <<>>
    /\ buff' = [buff EXCEPT ![received + 1] = Head(toHost)]
    /\ received' = received + 1
    /\ Take(1)
    /\ LineOnly
    /\ UNCHANGED <<publisherVars, heys, keepalive, serial, taken>>

\* wait_message: characters go into buff one behind the other.
ReceiveChar ==
    /\ reader = "receive"
    /\ received < MessageLength
    /\ toHost # <<>>
    /\ buff' = [buff EXCEPT ![received + 1] = Head(toHost)]
    /\ received' = received + 1
    /\ Take(1)
    /\ LineOnly
    /\ UNCHANGED <<publisherVars, heys, keepalive, serial, taken>>

\* Fault: the timeout does not work.
TimedOutNever == FALSE

\* TIMEOUT is 10 seconds, more than the board takes to answer a HEY! and to write
\* all it has to write: when it ends the wait, nothing is under way any more.
TimedOut == toHost = <<>> /\ heys = 0

MessageOver == received = MessageLength \/ TimedOut

\* Fault: any message is good.
AcknowledgedAlways == TRUE

\* check_message four times: behind each field is a byte that is its acknowledge
\* byte, whatever it was written as.
Acknowledged ==
    \A i \in 1 .. MessageLength : IsAck(i) => buff[i].byte = FieldAt(i)

SomethingArrived == received > 0

WaitMessageValid ==
    /\ MessageOver
    /\ SomethingArrived /\ Acknowledged
    /\ MessageValid
    /\ UNCHANGED <<boardVars, linkVars>>

WaitMessageInvalid ==
    /\ MessageOver
    /\ ~(SomethingArrived /\ Acknowledged)
    /\ MessageInvalid
    /\ UNCHANGED <<boardVars, linkVars>>

\* wait_serial_number polls until it has enough, for as long as it takes.
ReceiveSerial ==
    /\ reader = "serial"
    /\ Len(serial) < SerialLength
    /\ toHost # <<>>
    /\ serial' = Append(serial, Head(toHost))
    /\ Take(1)
    /\ LineOnly
    /\ UNCHANGED <<publisherVars, heys, keepalive, buff, received, taken>>

\* Characters that are the start of a card's number.
StartOf(chars, c) ==
    \A i \in DOMAIN chars :
        chars[i].kind = "serial" /\ chars[i].place = i /\ chars[i].card = c

\* Whose number they are: is_serial_present looks up any four characters, and the
\* table may have some that are no card's start.
Owners(chars) ==
    IF \E c \in BoardCards : StartOf(chars, c)
    THEN {c \in BoardCards : StartOf(chars, c)}
    ELSE StrayNumbers

\* The messages whose characters buffer and serial number consist of, and the
\* cards that the fields are of.
TakenMessages ==
    {buff[i].message : i \in 1 .. MessageLength} \cup
    {serial[i].message : i \in 1 .. SerialLength}

FieldCards == {buff[i].card : i \in DataPlaces}

TakenAs(c) ==
    /\ serialnumber' = c
    /\ taken' = [taken EXCEPT ![announced] =
          [messages |-> TakenMessages, cards |-> FieldCards \cup {c}]]

\* Fault: rec keeps its value from one call of wait_serial_number to the next.
SerialKept ==
    /\ Len(serial) = SerialLength
    /\ SerialRead
    /\ \E c \in Owners(serial) : TakenAs(c)
    /\ UNCHANGED <<boardVars, keepalive, buff, received, serial>>

SerialComplete ==
    /\ Len(serial) = SerialLength
    /\ SerialRead
    /\ \E c \in Owners(serial) : TakenAs(c)
    /\ serial' = <<>>
    /\ UNCHANGED <<boardVars, keepalive, buff, received>>

\* From memset to notification; the line is left alone.
ThreadStep == PublisherAlone /\ UNCHANGED <<boardVars, linkVars>>

HostNext ==
    \/ SendHey
    \/ PollAnnouncement \/ PollOther
    \/ ReceiveChar \/ WaitMessageValid \/ WaitMessageInvalid
    \/ ReceiveSerial \/ SerialComplete
    \/ ThreadStep

BoardStep == BoardNext /\ UNCHANGED <<publisherVars, linkVars>>

Next == HostNext \/ BoardStep

Spec == Init /\ [][Next]_vars

\* Fairness: the serial thread runs; characters written arrive; the board's loop
\* deals with a HEY! one way or the other, and does not always come to it in the
\* moment between its loop over Serial.available() and empty_serial.
Fairness ==
    /\ WF_vars(HostNext)
    /\ WF_vars((Announce \/ KeepAlive \/ EmptySerial)
                 /\ UNCHANGED <<publisherVars, linkVars>>)
    /\ SF_vars((Announce \/ KeepAlive) /\ UNCHANGED <<publisherVars, linkVars>>)

FairSpec == Spec /\ Fairness

----------------------------------------------------------------------------

Chars ==
    [kind : {"text", "data", "ack", "serial"}, byte : Bytes, place : Nat,
     message : 0 .. MaxSent, card : BoardCards \cup {Nobody}]

\* Board, line and host stay within their types; the counters of wait_message and
\* wait_serial_number stay within their buffers (ArduinoRFID.c lines 143 to 145,
\* 251 to 255).
LinkTypeOK ==
    /\ PublisherTypeOK
    /\ connection_done \in BOOLEAN
    /\ somthing_to_send \in BOOLEAN
    /\ buffer \in [DataPlaces -> BoardCards \cup {Nobody}]
    /\ uid \in BoardCards
    /\ heys \in 0 .. MaxHeys
    /\ toHost \in Seq(Chars)
    /\ sent \in 0 .. MaxSent
    /\ resets \in 0 .. MaxResets
    /\ keepalive \in {"send", "poll"}
    /\ buff \in [1 .. MessageLength -> Chars]
    /\ received \in 0 .. MessageLength
    /\ serial \in Seq(Chars) /\ Len(serial) <= SerialLength

\* What no card may spoil: for two of the fields, the acknowledge byte is found in
\* no field of a card.  And a serial number has no more characters than a field.
AcksStandOut ==
    /\ \E f, g \in BoardFields :
         /\ f # g
         /\ \A c \in BoardCards : \A i \in DataPlaces : FieldBytes[c][i] \notin {f, g}
    /\ \A c \in BoardCards : Len(Digits[c]) <= BlockLength

\* Nor the table: it has numbers of cards, not other characters off the line.
NumbersStandOut == StrayNumbers \cap Allowed = {}

\* Four acknowledge bytes in place in a buffer that was filled to the end mean
\* that the buffer holds one message of the board, byte for byte, whatever was
\* left on the line before it (ArduinoRFID.c lines 251 to 276).  Bytes of the
\* fields may look like acknowledge bytes as far as AcksStandOut allows it, and
\* digits of the serial number may be any.
FilledIsOneMessage ==
    (reader = "serial" /\ received = MessageLength) =>
        \E k \in 1 .. sent : \A i \in 1 .. MessageLength :
            buff[i].message = k /\ buff[i].place = i

\* Each accepted announcement is of one message of the board, to which the serial
\* number that was looked up belongs too, and no message is accepted twice,
\* although buff keeps the last one for good (ArgoRFID_Reader.c lines 40 to 60):
\* provided AcksStandOut and NumbersStandOut.
AcceptedIsFresh ==
    \A i \in accepted :
        /\ Cardinality(taken[i].messages) = 1
        /\ \A j \in accepted \ {i} : taken[i].messages # taken[j].messages

\* Board, line and serial thread together put messages on offer one at a time,
\* each at most once and in the order in which the board sent them, whatever is
\* lost, misread or left over in between (ArgoRFID_Reader.c lines 33 to 68):
\* provided AcksStandOut and NumbersStandOut.
Published == IF reader = "publish" THEN accepted \ {announced} ELSE accepted

Delivery == INSTANCE CardDelivery WITH
    delivered <- UNION {taken[i].messages : i \in Published},
    offered <- IF is_data_present THEN taken[announced].messages ELSE {}

DeliversInOrder == Delivery!Spec

\* argoRFID_Reader.ino line 97: "one card have released its data".  Whatever is
\* accepted is of one card, the one whose serial number was looked up and found in
\* the table (ArgoRFID_Reader.c lines 45 to 60).
AcceptedIsOfOneCard ==
    \A i \in accepted : \E c \in Allowed : taken[i].cards = {c}

\* ArduinoRFID.h line 28: "Return 0 if message is corrupt or 1 if message is
\* valid".  A message found valid has arrived to the end.
ValidHasArrived ==
    reader = "serial" => received = MessageLength

\* Once the host turns to a message it comes back to keep-alives: the wait for
\* the message ends, in time if the board restarts while it writes, and the serial
\* number arrives, unless the board that was to send it has restarted
\* (ArduinoRFID.c lines 136 to 153, 235 to 279).  ArgoRFID_Reader.c line 39 says
\* "Non funziona il timeout"; as the code is, it works: RS232_PollComport does not
\* wait, so line 251 looks at the time again and again.
MessageIsDealtWith ==
    reader = "receive" ~>
        \/ reader = "link"
        \/ reader = "serial" /\ ~connection_done

\* ArduinoRFID.h line 19: "Wait a message (KA or SS) and return it".  A card whose
\* data are ready on the board is announced, and the host hears it, if the board
\* stays powered.
ReadyIsHeard ==
    \A k \in 1 .. MaxSent :
        (somthing_to_send /\ sent = k - 1) ~>
            \/ reader = "receive" /\ sent = k
            \/ ~connection_done

=============================================================================
