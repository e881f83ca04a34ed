---------------------------- MODULE ReaderBoard ----------------------------
(***************************************************************************)
(* The firmware of the card reader (arduino/argoRFID_Reader), from the      *)
(* moment the host has found it: loop() answers keep-alives and reads       *)
(* cards, one thing at a time, and both write to the same serial line.      *)
(*                                                                          *)
(* Characters on the line are bytes: those of fields and serial numbers are *)
(* whatever the card has there, and may be the same as an acknowledge byte  *)
(* or a letter of KA and SS.  Where a byte comes from is carried along for  *)
(* the properties.  Sizes are parameters: the program has NumFields = 4,    *)
(* BlockLength = 64 and SerialLength = 4.                                   *)
(***************************************************************************)
EXTENDS Naturals, Sequences, FiniteSets

CONSTANTS
    BoardCards,    \* cards that may be put on the reader
    Nobody,        \* stands for no card
    NumFields,     \* fields on a card: name, surname, user name, password
    BlockLength,   \* bytes of a field
    FieldBytes,    \* card |-> place in the message |-> byte on the card
    Digits,        \* card |-> what print_serial prints for it
    ReadOutcomes,  \* how many bytes read_blocks may have before a read fails
    ReadsReport,   \* whether read_blocks returns the result it computed
    ErrorLength,   \* characters error_dump prints
    MaxResets,     \* bound: times the board restarts
    MaxSent,       \* bound: messages the board sends
    MaxBacklog     \* bound: with more unread characters no text is added

BoardFields == 1 .. NumFields

\* A byte, as far as the host tells bytes apart: the acknowledge byte of a field
\* is the number of the field.
OtherByte == 0

LetterK == NumFields + 1

LetterA == NumFields + 2

LetterS == NumFields + 3

Bytes == 0 .. NumFields + 3

\* send_data writes the fields one after the other, each followed by its
\* acknowledge byte; then print_serial writes the serial number.
MessageLength == NumFields * (BlockLength + 1)

FieldAt(i) == (i - 1) \div (BlockLength + 1) + 1

PlaceInField(i) == i - (FieldAt(i) - 1) * (BlockLength + 1)

IsAck(i) == i % (BlockLength + 1) = 0

DataPlaces == {i \in 1 .. MessageLength : ~IsAck(i)}

ASSUME BoardAssumption ==
    /\ Nobody \notin BoardCards
    /\ NumFields \in Nat \ {0}
    /\ BlockLength \in Nat \ {0}
    /\ FieldBytes \in [BoardCards -> [DataPlaces -> Bytes]]
    /\ Digits \in [BoardCards -> Seq(Bytes)]
    /\ \A c \in BoardCards : Digits[c] # <<>>
    /\ ReadOutcomes \subseteq 0 .. BlockLength
    /\ ReadsReport \in BOOLEAN
    /\ ErrorLength \in Nat
    /\ MaxResets \in Nat
    /\ MaxSent \in Nat
    /\ MaxBacklog \in Nat

VARIABLES
    connection_done,
    somthing_to_send,
    buffer,      \* place |-> card whose byte nome, cognome, user or psw has there
    uid,         \* card selected last
    heys,        \* HEY! messages on their way to the board
    toHost,      \* characters on their way to the host
    sent,        \* messages sent so far
    resets

boardVars ==
    <<connection_done, somthing_to_send, buffer, uid, heys, toHost, sent, resets>>

\* A character: its byte, which is all the program sees of it, and what it was
\* written as: its place in which message or serial number, and of which card.
Char(kind, byte, place, message, card) ==
    [kind |-> kind, byte |-> byte, place |-> place, message |-> message, card |-> card]

Letter(byte) == Char("text", byte, 0, 0, Nobody)

KA == <<Letter(LetterK), Letter(LetterA)>>

SS == <<Letter(LetterS), Letter(LetterS)>>

\* The byte at place i of a field, if it was read from a card.
DataByte(i) == IF buffer[i] = Nobody THEN OtherByte ELSE FieldBytes[buffer[i]][i]

Message(k) ==
    [i \in 1 .. MessageLength |->
        IF IsAck(i) THEN Char("ack", FieldAt(i), i, k, Nobody)
        ELSE Char("data", DataByte(i), i, k, buffer[i])]

\* Fault: println instead of print.
SerialNumberLine(k) ==
    [i \in 1 .. Len(Digits[uid]) + 1 |->
        Char("serial", IF i <= Len(Digits[uid]) THEN Digits[uid][i] ELSE OtherByte, i, k, uid)]

\* Serial.print(byte, HEX) writes no leading zero, so the length varies.
SerialNumber(k) ==
    [i \in 1 .. Len(Digits[uid]) |-> Char("serial", Digits[uid][i], i, k, uid)]

BoardInit ==
    /\ connection_done = TRUE
    /\ somthing_to_send = FALSE
    /\ buffer = [i \in DataPlaces |-> Nobody]
    /\ uid \in BoardCards
    /\ heys = 0
    /\ toHost = <<>>
    /\ sent = 0
    /\ resets = 0

\* Serial.find(HEY_MSG) with a card's data waiting.  The board does nothing else
\* until all of it is written.
Announce ==
    /\ connection_done
    /\ heys > 0
    /\ somthing_to_send
    /\ sent < MaxSent
    /\ sent' = sent + 1
    /\ toHost' = toHost \o SS \o Message(sent + 1) \o SerialNumber(sent + 1)
    /\ heys' = heys - 1
    /\ somthing_to_send' = FALSE
    /\ UNCHANGED <<connection_done, buffer, uid, resets>>

\* Serial.find(HEY_MSG) with nothing to send.
KeepAlive ==
    /\ connection_done
    /\ heys > 0
    /\ ~somthing_to_send
    /\ toHost' = toHost \o KA
    /\ heys' = heys - 1
    /\ UNCHANGED <<connection_done, somthing_to_send, buffer, uid, sent, resets>>

\* empty_serial throws away what came in after the loop over Serial.available();
\* before connection_done, Serial.find(INIT_MSG) does so with every HEY!.
EmptySerial ==
    /\ heys > 0
    /\ heys' = 0
    /\ UNCHANGED <<connection_done, somthing_to_send, buffer, uid, toHost, sent, resets>>

\* Fault: fill_array copies one byte too few.
AfterReadShort(c, i, copied) ==
    IF PlaceInField(i) < copied THEN c ELSE buffer[i]

\* read_blocks copies block after block and stops at the first read that fails:
\* at place i of the message there is a byte of card c if it came that far.
AfterRead(c, i, copied) ==
    IF PlaceInField(i) <= copied THEN c ELSE buffer[i]

ErrorText(n) == [i \in 1 .. n * ErrorLength |-> Letter(OtherByte)]

Failures(outcomes) == {f \in DOMAIN outcomes : outcomes[f] # BlockLength}

\* read_blocks ends without a return statement: what loop() tests is the result
\* only if the compiler happens to leave it where the caller looks.
Reported(outcome) == IF ReadsReport THEN {outcome = BlockLength} ELSE BOOLEAN

\* A card is selected and its fields are read in turn until a read is reported to
\* have failed.  Whatever the board had to send before, it still has.
ReadCard(c) ==
    /\ connection_done
    /\ uid' = c
    /\ \E last \in BoardFields : \E outcomes \in [1 .. last -> ReadOutcomes] :
         /\ \A f \in 1 .. last - 1 : TRUE \in Reported(outcomes[f])
         /\ \E done \in Reported(outcomes[last]) :
              /\ done => last = NumFields
              /\ somthing_to_send' = (done \/ somthing_to_send)
         /\ buffer' = [i \in DataPlaces |->
                IF FieldAt(i) <= last THEN AfterRead(c, i, outcomes[FieldAt(i)])
                ELSE buffer[i]]
         /\ Failures(outcomes) = {} \/ Len(toHost) <= MaxBacklog
         /\ toHost' = toHost \o ErrorText(Cardinality(Failures(outcomes)))
    /\ UNCHANGED <<connection_done, heys, sent, resets>>

\* The board loses power or is reset: what it has not written yet is never
\* written, and connection_done waits for an INIT the host sends only once.
Reset ==
    /\ resets < MaxResets
    /\ resets' = resets + 1
    /\ connection_done' = FALSE
    /\ somthing_to_send' = FALSE
    /\ buffer' = [i \in DataPlaces |-> Nobody]
    /\ heys' = 0
    /\ \E n \in 0 .. Len(toHost) : toHost' = SubSeq(toHost, 1, n)
    /\ UNCHANGED <<uid, sent>>

BoardNext ==
    \/ Announce
    \/ KeepAlive
    \/ EmptySerial
    \/ \E c \in BoardCards : ReadCard(c)
    \/ Reset

=============================================================================
