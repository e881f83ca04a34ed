------------------------- MODULE ReaderLink_proofs -------------------------
(***************************************************************************)
(* Theorems about the serial line, for any sizes and bytes of fields and    *)
(* serial numbers, any answers of the functions that lack a return          *)
(* statement, any leftovers on the line and any number of restarts of the   *)
(* board.                                                                    *)
(***************************************************************************)
EXTENDS ReaderLink, CardPublisher_proofs, FiniteSetTheorems, SequenceTheorems

\* What wait_message has read of the message in hand, followed by what is on the
\* line: characters that were sent one behind the other.
Base == IF reader = "receive" THEN received ELSE 0

Stream ==
    [p \in 1 .. Base + Len(toHost) |->
        IF p <= Base THEN buff[p] ELSE toHost[p - Base]]

InMessage(c) == c.kind \in {"data", "ack"}

\* The character at place i of message k.
IsOf(c, k, i) == InMessage(c) /\ c.message = k /\ c.place = i

\* Of the characters s[1] to s[n], those of messages come from the m messages
\* sent, with acknowledge bytes where acknowledge bytes are.
Genuine(s, n, m) ==
    \A p \in 1 .. n : InMessage(s[p]) =>
        /\ s[p].place \in 1 .. MessageLength
        /\ s[p].message \in 1 .. m
        /\ s[p].kind = "ack" => IsAck(s[p].place)

\* Around each of them are the others of its message, as far as they are there.
InOnePiece(s, n) ==
    \A p, q \in 1 .. n :
        (InMessage(s[p]) /\ s[p].place + q - p \in 1 .. MessageLength)
            => IsOf(s[q], s[p].message, s[p].place + q - p)

\* What was begun is there to its end.
Complete(s, n) ==
    \A p \in 1 .. n :
        InMessage(s[p]) => p + MessageLength - s[p].place <= n

\* Only a board that has restarted leaves a message incomplete, and then it sends
\* nothing any more.
Orderly(s, n, m, connected) ==
    /\ Genuine(s, n, m)
    /\ InOnePiece(s, n)
    /\ connected => Complete(s, n)

LineInv ==
    /\ PublisherInv
    /\ LinkTypeOK
    /\ Orderly(Stream, Base + Len(toHost), sent, connection_done)

----------------------------------------------------------------------------

\* Places, fields and acknowledge bytes of a message.
LEMMA Layout ==
    /\ MessageLength \in Nat \ {0}
    /\ \A i \in 1 .. MessageLength : FieldAt(i) \in BoardFields
<1> USE BoardAssumption DEF MessageLength, FieldAt, BoardFields
<1>1. MessageLength \in Nat \ {0}
  OBVIOUS
<1>2. \A i \in 1 .. MessageLength : FieldAt(i) \in BoardFields
  OBVIOUS
<1> QED
  BY <1>1, <1>2

\* The bytes of fields, serial numbers and texts are bytes.
LEMMA BytesAre ==
    /\ BoardFields \subseteq Bytes
    /\ {OtherByte, LetterK, LetterA, LetterS} \subseteq Bytes \ BoardFields
    /\ \A c \in BoardCards : Digits[c] \in Seq(Bytes) /\ Len(Digits[c]) \in Nat \ {0}
<1>1. /\ BoardFields \subseteq Bytes
      /\ {OtherByte, LetterK, LetterA, LetterS} \subseteq Bytes \ BoardFields
  BY BoardAssumption DEF Bytes, BoardFields, OtherByte, LetterK, LetterA, LetterS
<1>2. ASSUME NEW c \in BoardCards
      PROVE  Digits[c] \in Seq(Bytes) /\ Len(Digits[c]) \in Nat \ {0}
  <2>1. Digits[c] \in Seq(Bytes) /\ Digits[c] # <<>>
    BY BoardAssumption
  <2>2. Len(Digits[c]) \in Nat /\ Len(Digits[c]) # 0
    BY <2>1, EmptySeq, LenProperties
  <2> QED
    BY <2>1, <2>2
<1> QED
  BY <1>1, <1>2

\* Characters taken off the front leave the rest orderly.
LEMMA FrontGone ==
    ASSUME NEW s, NEW t, NEW n \in Nat, NEW d \in 0 .. n, NEW m \in Nat,
           NEW connected \in BOOLEAN,
           Orderly(s, n, m, connected),
           \A p \in 1 .. n - d : t[p] = s[p + d]
    PROVE  Orderly(t, n - d, m, connected)
<1> USE DEF Orderly, IsOf
<1>1. Genuine(t, n - d, m)
  BY DEF Genuine
<1>2. InOnePiece(t, n - d)
  <2> SUFFICES ASSUME NEW p \in 1 .. n - d, NEW q \in 1 .. n - d, InMessage(t[p]),
                      t[p].place + q - p \in 1 .. MessageLength
               PROVE  IsOf(t[q], t[p].message, t[p].place + q - p)
    BY DEF InOnePiece
  <2>1. p + d \in 1 .. n /\ q + d \in 1 .. n /\ t[p] = s[p + d] /\ t[q] = s[q + d]
    OBVIOUS
  <2>2. s[p + d].place \in 1 .. MessageLength
    BY <2>1 DEF Genuine
  <2>3. s[p + d].place + (q + d) - (p + d) = t[p].place + q - p
    BY <2>1, <2>2, Layout
  <2> QED
    BY <2>1, <2>3 DEF InOnePiece
<1>3. connected => Complete(t, n - d)
  <2> SUFFICES ASSUME connected, NEW p \in 1 .. n - d, InMessage(t[p])
               PROVE  p + MessageLength - t[p].place <= n - d
    BY DEF Complete
  <2>1. p + d \in 1 .. n /\ t[p] = s[p + d]
    OBVIOUS
  <2>2. s[p + d].place \in 1 .. MessageLength
    BY <2>1 DEF Genuine
  <2>3. (p + d) + MessageLength - s[p + d].place <= n
    BY <2>1 DEF Complete
  <2> QED
    BY <2>1, <2>2, <2>3, Layout
<1> QED
  BY <1>1, <1>2, <1>3

\* So do characters lost at the end, once the board is not connected.
LEMMA EndLost ==
    ASSUME NEW s, NEW t, NEW n \in Nat, NEW d \in 0 .. n, NEW m \in Nat,
           NEW connected \in BOOLEAN,
           Orderly(s, n, m, connected),
           \A p \in 1 .. n - d : t[p] = s[p]
    PROVE  Orderly(t, n - d, m, FALSE)
<1>1. 1 .. n - d \subseteq 1 .. n
  OBVIOUS
<1>2. Genuine(t, n - d, m)
  BY <1>1 DEF Genuine, Orderly
<1>3. InOnePiece(t, n - d)
  BY <1>1 DEF InOnePiece, Orderly
<1> QED
  BY <1>2, <1>3 DEF Orderly

\* Characters that belong to no message may follow.
LEMMA TextFollows ==
    ASSUME NEW s, NEW t, NEW n \in Nat, NEW a \in Nat, NEW m \in Nat,
           Orderly(s, n, m, TRUE),
           \A p \in 1 .. n : t[p] = s[p],
           \A p \in n + 1 .. n + a : ~InMessage(t[p])
    PROVE  Orderly(t, n + a, m, TRUE)
<1> USE DEF Orderly
<1>1. Genuine(t, n + a, m)
  BY DEF Genuine
<1>2. Complete(t, n + a)
  <2> SUFFICES ASSUME NEW p \in 1 .. n + a, InMessage(t[p])
               PROVE  p + MessageLength - t[p].place <= n + a
    BY DEF Complete
  <2>1. p \in 1 .. n /\ t[p] = s[p]
    OBVIOUS
  <2>2. s[p].place \in 1 .. MessageLength
    BY <2>1 DEF Genuine
  <2>3. p + MessageLength - s[p].place <= n
    BY <2>1 DEF Complete
  <2> QED
    BY <2>1, <2>2, <2>3, Layout
<1>3. InOnePiece(t, n + a)
  <2> SUFFICES ASSUME NEW p \in 1 .. n + a, NEW q \in 1 .. n + a, InMessage(t[p]),
                      t[p].place + q - p \in 1 .. MessageLength
               PROVE  IsOf(t[q], t[p].message, t[p].place + q - p)
    BY DEF InOnePiece
  <2>1. p \in 1 .. n /\ t[p] = s[p]
    OBVIOUS
  <2>2. s[p].place \in 1 .. MessageLength
    BY <2>1 DEF Genuine
  <2>3. p + MessageLength - s[p].place <= n
    BY <2>1 DEF Complete
  <2>4. q \in 1 .. n /\ t[q] = s[q]
    BY <2>1, <2>2, <2>3, Layout
  <2> QED
    BY <2>1, <2>4 DEF InOnePiece, IsOf
<1> QED
  BY <1>1, <1>2, <1>3

\* So may the next message, with text before and after it.
LEMMA MessageFollows ==
    ASSUME NEW s, NEW t, NEW n \in Nat, NEW before \in Nat, NEW after \in Nat,
           NEW m \in Nat,
           Orderly(s, n, m, TRUE),
           \A p \in 1 .. n : t[p] = s[p],
           \A p \in n + 1 .. n + before : ~InMessage(t[p]),
           \A i \in 1 .. MessageLength :
               /\ IsOf(t[n + before + i], m + 1, i)
               /\ t[n + before + i].kind = "ack" => IsAck(i),
           \A p \in n + before + MessageLength + 1
                        .. n + before + MessageLength + after : ~InMessage(t[p])
    PROVE  Orderly(t, n + before + MessageLength + after, m + 1, TRUE)
<1> DEFINE first == n + before
           total == n + before + MessageLength + after
<1>0. MessageLength \in Nat /\ first \in Nat /\ total \in Nat
  BY Layout
<1>1. ASSUME NEW p \in 1 .. total, InMessage(t[p])
      PROVE  \/ p \in 1 .. n
             \/ /\ p - first \in 1 .. MessageLength
                /\ IsOf(t[p], m + 1, p - first)
                /\ t[p].kind = "ack" => IsAck(p - first)
  <2>1. CASE p \in first + 1 .. first + MessageLength
    <3>1. p - first \in 1 .. MessageLength /\ n + before + (p - first) = p
      BY <1>0, <2>1
    <3> QED
      BY <3>1
  <2>2. CASE p \notin first + 1 .. first + MessageLength
    BY <1>0, <1>1, <2>2
  <2> QED
    BY <2>1, <2>2
<1>2. ASSUME NEW p \in 1 .. n, InMessage(t[p])
      PROVE  /\ t[p] = s[p]
             /\ s[p].place \in 1 .. MessageLength
             /\ s[p].message \in 1 .. m
             /\ s[p].kind = "ack" => IsAck(s[p].place)
             /\ p + MessageLength - s[p].place <= n
  BY <1>2 DEF Orderly, Genuine, Complete
<1>3. Genuine(t, total, m + 1)
  <2> SUFFICES ASSUME NEW p \in 1 .. total, InMessage(t[p])
               PROVE  /\ t[p].place \in 1 .. MessageLength
                      /\ t[p].message \in 1 .. m + 1
                      /\ t[p].kind = "ack" => IsAck(t[p].place)
    BY DEF Genuine
  <2>1. CASE p \in 1 .. n
    BY <1>2, <2>1
  <2>2. CASE p \notin 1 .. n
    BY <1>1, <2>2 DEF IsOf
  <2> QED
    BY <2>1, <2>2
<1>4. Complete(t, total)
  <2> SUFFICES ASSUME NEW p \in 1 .. total, InMessage(t[p])
               PROVE  p + MessageLength - t[p].place <= total
    BY DEF Complete
  <2>1. CASE p \in 1 .. n
    BY <1>0, <1>2, <2>1
  <2>2. CASE p \notin 1 .. n
    <3>1. t[p].place = p - first
      BY <1>1, <2>2 DEF IsOf
    <3> QED
      BY <1>0, <3>1
  <2> QED
    BY <2>1, <2>2
<1>5. InOnePiece(t, total)
  <2> SUFFICES ASSUME NEW p \in 1 .. total, NEW q \in 1 .. total, InMessage(t[p]),
                      t[p].place + q - p \in 1 .. MessageLength
               PROVE  IsOf(t[q], t[p].message, t[p].place + q - p)
    BY DEF InOnePiece
  <2>1. CASE p \in 1 .. n
    <3>1. q \in 1 .. n
      BY <1>0, <1>2, <2>1
    <3> QED
      BY <1>2, <2>1, <3>1 DEF Orderly, InOnePiece
  <2>2. CASE p \notin 1 .. n
    <3>1. t[p].place = p - first /\ t[p].message = m + 1
      BY <1>1, <2>2 DEF IsOf
    <3>2. t[p].place + q - p = q - first
      BY <1>0, <3>1
    <3>3. q - first \in 1 .. MessageLength /\ n + before + (q - first) = q
      BY <1>0, <3>2
    <3> QED
      BY <3>1, <3>2, <3>3
  <2> QED
    BY <2>1, <2>2
<1> QED
  BY <1>3, <1>4, <1>5 DEF Orderly

----------------------------------------------------------------------------

\* What the board writes is a sequence of characters of the length it has, and
\* only Message writes characters of a message.

\* A function on 1 .. n is a sequence of length n.
LEMMA IsSequence ==
    ASSUME NEW S, NEW n \in Nat, NEW f \in [1 .. n -> S]
    PROVE  f \in Seq(S) /\ Len(f) = n
BY SeqDef

\* Two sequences of known lengths, joined.
LEMMA Joined ==
    ASSUME NEW S, NEW s \in Seq(S), NEW t \in Seq(S), NEW m, NEW n,
           Len(s) = m, Len(t) = n
    PROVE  /\ s \o t \in Seq(S)
           /\ Len(s \o t) = m + n
           /\ \A i \in 1 .. m + n : (s \o t)[i] = IF i <= m THEN s[i] ELSE t[i - m]
BY ConcatProperties

\* KA, SS and the text of error_dump.
LEMMA Texts ==
    ASSUME LinkTypeOK
    PROVE  /\ SS \in Seq(Chars) /\ Len(SS) = 2
           /\ \A p \in 1 .. 2 : ~InMessage(SS[p])
           /\ KA \in Seq(Chars) /\ Len(KA) = 2
           /\ \A p \in 1 .. 2 : ~InMessage(KA[p])
           /\ \A n \in Nat :
                /\ ErrorText(n) \in Seq(Chars) /\ Len(ErrorText(n)) = n * ErrorLength
                /\ \A p \in 1 .. n * ErrorLength : ~InMessage(ErrorText(n)[p])
<1>1. \A l \in {LetterK, LetterA, LetterS, OtherByte} :
        Letter(l) \in Chars /\ ~InMessage(Letter(l))
  BY BytesAre, BoardAssumption DEF Letter, Char, Chars, InMessage
<1>2. SS \in Seq(Chars) /\ Len(SS) = 2 /\ \A p \in 1 .. 2 : ~InMessage(SS[p])
  BY <1>1 DEF SS
<1>3. KA \in Seq(Chars) /\ Len(KA) = 2 /\ \A p \in 1 .. 2 : ~InMessage(KA[p])
  BY <1>1 DEF KA
<1>4. ASSUME NEW n \in Nat
      PROVE  /\ ErrorText(n) \in Seq(Chars) /\ Len(ErrorText(n)) = n * ErrorLength
             /\ \A p \in 1 .. n * ErrorLength : ~InMessage(ErrorText(n)[p])
  <2>1. n * ErrorLength \in Nat
    BY BoardAssumption
  <2>2. ErrorText(n) \in [1 .. n * ErrorLength -> Chars]
    BY <1>1 DEF ErrorText
  <2>3. \A p \in 1 .. n * ErrorLength : ErrorText(n)[p] = Letter(OtherByte)
    BY DEF ErrorText
  <2> QED
    BY <1>1, <2>1, <2>2, <2>3, IsSequence
<1> QED
  BY <1>2, <1>3, <1>4

\* What print_serial writes.
LEMMA SerialNumbers ==
    ASSUME LinkTypeOK, NEW k \in 0 .. MaxSent
    PROVE  /\ SerialNumber(k) \in Seq(Chars)
           /\ Len(SerialNumber(k)) = Len(Digits[uid]) /\ Len(Digits[uid]) \in Nat
           /\ \A p \in 1 .. Len(Digits[uid]) : ~InMessage(SerialNumber(k)[p])
<1> DEFINE n == Len(Digits[uid])
           digit(p) == Char("serial", Digits[uid][p], p, k, uid)
<1>1. uid \in BoardCards /\ Digits[uid] \in Seq(Bytes) /\ n \in Nat
  BY BytesAre DEF LinkTypeOK
<1>2. \A p \in 1 .. n : SerialNumber(k)[p] = digit(p)
  BY DEF SerialNumber
<1>3. ASSUME NEW p \in 1 .. n
      PROVE  digit(p) \in Chars /\ ~InMessage(digit(p))
  <2>1. Digits[uid][p] \in Bytes
    BY <1>1, ElementOfSeq
  <2> QED
    BY <1>1, <2>1 DEF Char, Chars, InMessage
<1>4. SerialNumber(k) \in [1 .. n -> Chars]
  BY <1>2, <1>3 DEF SerialNumber
<1> QED
  BY <1>1, <1>2, <1>3, <1>4, IsSequence

\* A byte of a field, or none.
LEMMA DataBytes ==
    ASSUME LinkTypeOK, NEW i \in DataPlaces PROVE DataByte(i) \in Bytes
<1>1. buffer[i] \in BoardCards \cup {Nobody}
  BY DEF LinkTypeOK
<1>2. CASE buffer[i] = Nobody
  BY <1>2, BytesAre DEF DataByte
<1>3. CASE buffer[i] # Nobody
  BY <1>1, <1>3, BoardAssumption DEF DataByte
<1> QED
  BY <1>2, <1>3

\* What send_data writes: the character at place i says that it is.
LEMMA Messages ==
    ASSUME LinkTypeOK, NEW k \in 0 .. MaxSent
    PROVE  /\ Message(k) \in Seq(Chars) /\ Len(Message(k)) = MessageLength
           /\ \A i \in 1 .. MessageLength :
                IsOf(Message(k)[i], k, i) /\ (Message(k)[i].kind = "ack" => IsAck(i))
<1>1. ASSUME NEW i \in 1 .. MessageLength
      PROVE  /\ Message(k)[i] \in Chars
             /\ IsOf(Message(k)[i], k, i)
             /\ Message(k)[i].kind = "ack" => IsAck(i)
  <2>2. CASE IsAck(i)
    <3>1. Message(k)[i] = Char("ack", FieldAt(i), i, k, Nobody)
      BY <2>2 DEF Message
    <3>2. FieldAt(i) \in Bytes
      BY Layout, BytesAre
    <3> QED
      BY <2>2, <3>1, <3>2, Layout DEF Char, Chars, IsOf, InMessage
  <2>3. CASE ~IsAck(i)
    <3>1. Message(k)[i] = Char("data", DataByte(i), i, k, buffer[i])
      BY <2>3 DEF Message
    <3>2. i \in DataPlaces
      BY <2>3 DEF DataPlaces
    <3>3. DataByte(i) \in Bytes /\ buffer[i] \in BoardCards \cup {Nobody}
      BY <3>2, DataBytes DEF LinkTypeOK
    <3> QED
      BY <3>1, <3>3, Layout DEF Char, Chars, IsOf, InMessage
  <2> QED
    BY <2>2, <2>3
<1>2. Message(k) \in [1 .. MessageLength -> Chars]
  BY <1>1 DEF Message
<1> QED
  BY <1>1, <1>2, Layout, IsSequence

\* A message behind its announcement.
LEMMA Headed ==
    ASSUME LinkTypeOK, NEW k \in 0 .. MaxSent
    PROVE  /\ SS \o Message(k) \in Seq(Chars)
           /\ Len(SS \o Message(k)) = 2 + MessageLength
           /\ \A i \in 1 .. 2 + MessageLength :
                (SS \o Message(k))[i] = IF i <= 2 THEN SS[i] ELSE Message(k)[i - 2]
<1>1. SS \in Seq(Chars) /\ Message(k) \in Seq(Chars)
  BY Texts, Messages
<1>2. Len(SS) = 2 /\ Len(Message(k)) = MessageLength
  BY Texts, Messages
<1>3. /\ SS \o Message(k) \in Seq(Chars)
      /\ Len(SS \o Message(k)) = Len(SS) + Len(Message(k))
      /\ \A i \in 1 .. Len(SS) + Len(Message(k)) :
           (SS \o Message(k))[i] =
             IF i <= Len(SS) THEN SS[i] ELSE Message(k)[i - Len(SS)]
  BY <1>1, ConcatProperties
<1> QED
  BY <1>2, <1>3

\* How many reads of a card failed is a number.
LEMMA FailuresCount ==
    ASSUME NEW last \in Nat, NEW outcomes \in [1 .. last -> ReadOutcomes]
    PROVE  Cardinality(Failures(outcomes)) \in Nat
<1>1. IsFiniteSet(1 .. last)
  BY FS_Interval
<1>2. Failures(outcomes) \subseteq 1 .. last
  BY DEF Failures
<1> QED
  BY <1>1, <1>2, FS_Subset, FS_CardinalityType

----------------------------------------------------------------------------

\* Each step of the whole is a step of the serial thread as CardPublisher knows
\* it, or leaves its state alone.
LEMMA LinkStepsAlone == [Next]_vars => [PublisherNext]_publisherVars
<1> SUFFICES ASSUME Next, publisherVars' # publisherVars PROVE PublisherNext
  BY DEF vars
<1> QED
  BY DEF Next, HostNext, BoardStep, SendHey, PollAnnouncement, PollOther,
         ReceiveChar, WaitMessageValid, WaitMessageInvalid, ReceiveSerial,
         SerialComplete, ThreadStep, PublisherNext

\* The line and the counters at the start.
LEMMA LinkInitInv == Init => LineInv
<1> SUFFICES ASSUME Init PROVE LineInv
  OBVIOUS
<1> USE DEF Init, BoardInit
<1>1. PublisherInv
  BY PublisherInitInv
<1>2. reader = "link" /\ Base = 0 /\ Len(toHost) = 0
  BY DEF PublisherInit, Base
<1>3. NoChar \in Chars
  BY BytesAre, BoardAssumption DEF NoChar, Letter, Char, Chars
<1>4. LinkTypeOK
  <2>1. buff \in [1 .. MessageLength -> Chars]
    BY <1>3
  <2>2. toHost \in Seq(Chars) /\ serial \in Seq(Chars) /\ Len(serial) = 0
    BY EmptySeq
  <2>3. heys \in 0 .. MaxHeys /\ sent \in 0 .. MaxSent /\ resets \in 0 .. MaxResets
        /\ received \in 0 .. MessageLength /\ 0 <= SerialLength
    BY BoardAssumption, LinkAssumption, Layout
  <2>4. buffer \in [DataPlaces -> BoardCards \cup {Nobody}]
    OBVIOUS
  <2> QED
    BY <1>1, <2>1, <2>2, <2>3, <2>4 DEF LinkTypeOK, PublisherInv
<1>5. Orderly(Stream, Base + Len(toHost), sent, connection_done)
  BY <1>2 DEF Orderly, Genuine, InOnePiece, Complete
<1> QED
  BY <1>1, <1>4, <1>5 DEF LineInv

\* What the board writes comes behind all that was sent before.
LEMMA Written ==
    ASSUME LinkTypeOK, UNCHANGED <<reader, received, buff>>,
           NEW text \in Seq(Chars), toHost' = toHost \o text
    PROVE  /\ Base' = Base /\ Base \in Nat
           /\ Base' + Len(toHost') = Base + Len(toHost) + Len(text)
           /\ toHost' \in Seq(Chars)
           /\ \A p \in 1 .. Base + Len(toHost) : Stream'[p] = Stream[p]
           /\ \A a \in 1 .. Len(text) :
                Stream'[Base + Len(toHost) + a] = text[a]
<1>1. Base' = Base /\ Base \in Nat
  BY Layout DEF Base, LinkTypeOK
<1>2. toHost \in Seq(Chars) /\ Len(toHost) \in Nat /\ Len(text) \in Nat
  BY LenProperties DEF LinkTypeOK
<1>3. /\ toHost' \in Seq(Chars)
      /\ Len(toHost') = Len(toHost) + Len(text)
      /\ \A i \in 1 .. Len(toHost) + Len(text) :
           toHost'[i] = IF i <= Len(toHost) THEN toHost[i] ELSE text[i - Len(toHost)]
  BY <1>2, ConcatProperties
<1>4. \A p \in 1 .. Base + Len(toHost) + Len(text) :
        Stream'[p] = IF p <= Base THEN buff[p] ELSE toHost'[p - Base]
  BY <1>1, <1>2, <1>3, SMTT(20) DEF Stream
<1>5. \A p \in 1 .. Base + Len(toHost) : Stream'[p] = Stream[p]
  <2> SUFFICES ASSUME NEW p \in 1 .. Base + Len(toHost) PROVE Stream'[p] = Stream[p]
    OBVIOUS
  <2>1. Stream[p] = IF p <= Base THEN buff[p] ELSE toHost[p - Base]
    BY DEF Stream
  <2>2. p \in 1 .. Base + Len(toHost) + Len(text)
    BY <1>1, <1>2
  <2>3. CASE p <= Base
    BY <1>4, <2>1, <2>2, <2>3
  <2>4. CASE ~(p <= Base)
    <3>1. p - Base \in 1 .. Len(toHost)
      BY <1>1, <1>2, <2>4
    <3> QED
      BY <1>2, <1>3, <1>4, <2>1, <2>2, <2>4, <3>1
  <2> QED
    BY <2>3, <2>4
<1>6. ASSUME NEW a \in 1 .. Len(text)
      PROVE  Stream'[Base + Len(toHost) + a] = text[a]
  <2> DEFINE p == Base + Len(toHost) + a
  <2>0. p \in 1 .. Base + Len(toHost) + Len(text) /\ ~(p <= Base)
        /\ p - Base = Len(toHost) + a
    BY <1>1, <1>2
  <2>1. Stream'[p] = toHost'[Len(toHost) + a]
    BY <1>4, <2>0
  <2>2. Len(toHost) + a \in 1 .. Len(toHost) + Len(text)
    BY <1>2
  <2>3. toHost'[Len(toHost) + a] = text[(Len(toHost) + a) - Len(toHost)]
    BY <1>2, <1>3, <2>2
  <2>4. (Len(toHost) + a) - Len(toHost) = a
    BY <1>2
  <2> QED
    BY <2>1, <2>3, <2>4
<1> QED
  BY <1>1, <1>2, <1>3, <1>5, <1>6

\* Announce: the message follows, whole and behind its two letters.
LEMMA AnnounceInv ==
    ASSUME LineInv, Announce, UNCHANGED <<publisherVars, linkVars>>
    PROVE  /\ toHost' \in Seq(Chars)
           /\ Orderly(Stream, Base + Len(toHost), sent, connection_done)'
<1> DEFINE k == sent + 1
           n == Base + Len(toHost)
           message == SS \o Message(k)
           text == message \o SerialNumber(k)
           digits == Len(Digits[uid])
<1>1. LinkTypeOK /\ k \in 0 .. MaxSent /\ sent \in Nat /\ Len(toHost) \in Nat
  BY BoardAssumption, LenProperties DEF LineInv, LinkTypeOK, Announce
<1>2. /\ message \in Seq(Chars) /\ Len(message) = 2 + MessageLength
      /\ \A i \in 1 .. 2 + MessageLength :
           message[i] = IF i <= 2 THEN SS[i] ELSE Message(k)[i - 2]
  BY <1>1, Headed
<1>3. /\ text \in Seq(Chars)
      /\ Len(text) = 2 + MessageLength + digits
      /\ digits \in Nat
      /\ \A i \in 1 .. 2 + MessageLength + digits :
           text[i] = IF i <= 2 + MessageLength THEN message[i]
                     ELSE SerialNumber(k)[i - (2 + MessageLength)]
  <2>1. SerialNumber(k) \in Seq(Chars) /\ Len(SerialNumber(k)) = digits
        /\ digits \in Nat
    BY <1>1, SerialNumbers
  <2> HIDE DEF message, digits
  <2> QED
    BY <1>2, <2>1, Joined
<1>4. toHost' = toHost \o text
  <2>1. toHost' = ((toHost \o SS) \o Message(k)) \o SerialNumber(k)
    BY DEF Announce
  <2>2. toHost \in Seq(Chars) /\ SS \in Seq(Chars) /\ Message(k) \in Seq(Chars)
        /\ SerialNumber(k) \in Seq(Chars)
    BY <1>1, Texts, Messages, SerialNumbers DEF LinkTypeOK
  <2>3. (toHost \o SS) \o Message(k) = toHost \o message
    <3> DEFINE t == SS
               u == Message(k)
    <3>1. toHost \in Seq(Chars) /\ t \in Seq(Chars) /\ u \in Seq(Chars)
      BY <2>2
    <3> HIDE DEF t, u
    <3>2. (toHost \o t) \o u = toHost \o (t \o u)
      BY <3>1, ConcatAssociative
    <3> QED
      BY <3>2 DEF t, u
  <2>4. message \in Seq(Chars) /\ text = message \o SerialNumber(k)
    BY <1>2
  <2> HIDE DEF message, text
  <2>5. (toHost \o message) \o SerialNumber(k) = toHost \o (message \o SerialNumber(k))
    <3> DEFINE v == SerialNumber(k)
    <3>1. toHost \in Seq(Chars) /\ message \in Seq(Chars) /\ v \in Seq(Chars)
      BY <2>2, <2>4
    <3> HIDE DEF v
    <3>2. (toHost \o message) \o v = toHost \o (message \o v)
      BY <3>1, ConcatAssociative
    <3> QED
      BY <3>2 DEF v
  <2> QED
    BY <2>1, <2>3, <2>4, <2>5, Zenon
<1>5. UNCHANGED <<reader, received, buff>>
  BY DEF publisherVars, linkVars
<1>s. /\ Len(SerialNumber(k)) = digits
      /\ \A p \in 1 .. digits : ~InMessage(SerialNumber(k)[p])
  BY <1>1, SerialNumbers
<1> HIDE DEF text, message, digits
<1>6. /\ Base' = Base /\ Base \in Nat /\ n \in Nat
      /\ (Base + Len(toHost))' = n + Len(text)
      /\ toHost' \in Seq(Chars)
      /\ \A p \in 1 .. n : Stream'[p] = Stream[p]
      /\ \A a \in 1 .. Len(text) : Stream'[n + a] = text[a]
  <2>1. n \in Nat /\ (Base + Len(toHost))' = Base' + Len(toHost')
    BY <1>1, Layout DEF Base, LinkTypeOK
  <2>2. /\ Base' = Base /\ Base \in Nat
        /\ Base' + Len(toHost') = Base + Len(toHost) + Len(text)
        /\ toHost' \in Seq(Chars)
        /\ \A p \in 1 .. Base + Len(toHost) : Stream'[p] = Stream[p]
        /\ \A a \in 1 .. Len(text) : Stream'[Base + Len(toHost) + a] = text[a]
    BY <1>1, <1>3, <1>4, <1>5, Written
  <2> QED
    BY <2>1, <2>2
<1> HIDE DEF n
<1>7. \A p \in n + 1 .. n + 2 : ~InMessage(Stream'[p])
  <2> SUFFICES ASSUME NEW p \in n + 1 .. n + 2 PROVE ~InMessage(Stream'[p])
    OBVIOUS
  <2>1. p - n \in 1 .. 2 /\ p - n \in 1 .. Len(text) /\ n + (p - n) = p
    <3>1. n \in Nat
      BY <1>6
    <3>2. Len(text) \in Nat /\ 2 <= Len(text)
      BY <1>3, Layout
    <3> HIDE <1>3, <1>6
    <3> QED
      BY <3>1, <3>2
  <2>2. Stream'[p] = text[p - n]
    BY <1>6, <2>1
  <2>3. p - n \in 1 .. 2 + MessageLength + digits /\ p - n <= 2 + MessageLength
        /\ p - n \in 1 .. 2 + MessageLength /\ p - n <= 2
    BY <1>3, <2>1, Layout
  <2>4. text[p - n] = message[p - n] /\ message[p - n] = SS[p - n]
    BY <1>2, <1>3, <2>3
  <2> QED
    BY <1>1, <2>1, <2>2, <2>4, Texts
<1>8. \A i \in 1 .. MessageLength :
        /\ IsOf(Stream'[n + 2 + i], k, i)
        /\ Stream'[n + 2 + i].kind = "ack" => IsAck(i)
  <2> SUFFICES ASSUME NEW i \in 1 .. MessageLength
               PROVE  Stream'[n + 2 + i] = Message(k)[i]
    BY <1>1, Messages
  <2>1. 2 + i \in 1 .. Len(text) /\ n + (2 + i) = n + 2 + i /\ (2 + i) - 2 = i
        /\ 2 + i \in 1 .. 2 + MessageLength /\ ~(2 + i <= 2)
    BY <1>3, <1>6, Layout
  <2>2. Stream'[n + 2 + i] = text[2 + i]
    BY <1>6, <2>1
  <2>3. text[2 + i] = message[2 + i]
    BY <1>3, <2>1, Layout
  <2>4. message[2 + i] = Message(k)[i]
    BY <1>2, <2>1
  <2> QED
    BY <2>2, <2>3, <2>4
<1>9. \A p \in n + 2 + MessageLength + 1 .. n + 2 + MessageLength + digits :
        ~InMessage(Stream'[p])
  <2> SUFFICES ASSUME NEW p \in n + 2 + MessageLength + 1
                                  .. n + 2 + MessageLength + digits
               PROVE  ~InMessage(Stream'[p])
    OBVIOUS
  <2> DEFINE a == p - n
             b == a - (2 + MessageLength)
  <2>1. a \in 1 .. Len(text) /\ n + a = p /\ ~(a <= 2 + MessageLength)
        /\ b \in 1 .. digits
    BY <1>3, <1>6, Layout
  <2>2. Stream'[p] = text[a]
    BY <1>6, <2>1
  <2>3. text[a] = SerialNumber(k)[b]
    BY <1>3, <2>1
  <2> QED
    BY <1>s, <2>1, <2>2, <2>3
<1>10. Orderly(Stream, n, sent, TRUE)
  BY DEF LineInv, Orderly, Announce, n
<1>11. Orderly(Stream', n + 2 + MessageLength + digits, k, TRUE)
  BY <1>1, <1>3, <1>6, <1>7, <1>8, <1>9, <1>10, MessageFollows
<1>12. n + 2 + MessageLength + digits = (Base + Len(toHost))'
  BY <1>3, <1>6, Layout
<1>13. sent' = k /\ connection_done' = TRUE
  BY <1>1 DEF Announce, LinkTypeOK
<1> QED
  BY <1>6, <1>11, <1>12, <1>13 DEF Orderly

\* KeepAlive, ReadCard: characters of no message follow.
LEMMA TextInv ==
    ASSUME LineInv, connection_done,
           UNCHANGED <<reader, received, buff, sent, connection_done>>,
           NEW text \in Seq(Chars),
           \A a \in 1 .. Len(text) : ~InMessage(text[a]),
           toHost' = toHost \o text
    PROVE  /\ toHost' \in Seq(Chars)
           /\ Orderly(Stream, Base + Len(toHost), sent, connection_done)'
<1> DEFINE n == Base + Len(toHost)
<1>1. /\ LinkTypeOK /\ sent \in Nat /\ connection_done = TRUE
      /\ Len(toHost) \in Nat /\ Len(text) \in Nat /\ n \in Nat
  BY BoardAssumption, Layout, LenProperties DEF LineInv, LinkTypeOK, Base
<1>2. /\ Base' = Base /\ Base \in Nat
      /\ Base' + Len(toHost') = Base + Len(toHost) + Len(text)
      /\ toHost' \in Seq(Chars)
      /\ \A p \in 1 .. Base + Len(toHost) : Stream'[p] = Stream[p]
      /\ \A a \in 1 .. Len(text) : Stream'[Base + Len(toHost) + a] = text[a]
  BY <1>1, Written
<1>3. (Base + Len(toHost))' = n + Len(text)
  BY <1>2
<1>4. Orderly(Stream, n, sent, TRUE)
  BY DEF LineInv, Orderly
<1>5. \A p \in 1 .. n : Stream'[p] = Stream[p]
  BY <1>2
<1>6. \A a \in 1 .. Len(text) : Stream'[n + a] = text[a]
  BY <1>2
<1> HIDE DEF n
<1>7. \A p \in n + 1 .. n + Len(text) : ~InMessage(Stream'[p])
  <2> SUFFICES ASSUME NEW p \in n + 1 .. n + Len(text) PROVE ~InMessage(Stream'[p])
    OBVIOUS
  <2>1. p - n \in 1 .. Len(text) /\ n + (p - n) = p
    BY <1>1
  <2> QED
    BY <1>6, <2>1
<1>8. Orderly(Stream', n + Len(text), sent, TRUE)
  BY <1>1, <1>4, <1>5, <1>7, TextFollows
<1>9. sent' = sent /\ connection_done' = TRUE
  BY <1>1
<1> QED
  BY <1>2, <1>3, <1>8, <1>9 DEF Orderly

\* Nothing on the line or read of the message in hand changes.
LEMMA SameInv ==
    ASSUME LineInv, UNCHANGED <<toHost, sent, connection_done>>, Base' = Base,
           \A p \in 1 .. Base : buff'[p] = buff[p]
    PROVE  Orderly(Stream, Base + Len(toHost), sent, connection_done)'
<1> DEFINE n == Base + Len(toHost)
<1>1. /\ sent \in Nat /\ connection_done \in BOOLEAN
      /\ Base \in Nat /\ Len(toHost) \in Nat /\ n \in Nat
  BY BoardAssumption, Layout, LenProperties DEF LineInv, LinkTypeOK, Base
<1>2. (Base + Len(toHost))' = n
  OBVIOUS
<1>3. \A p \in 1 .. n :
        (IF p <= Base THEN buff[p] ELSE toHost[p - Base])'
          = IF p <= Base THEN buff[p] ELSE toHost[p - Base]
  BY <1>1
<1>4. Stream' = Stream
  BY <1>2, <1>3 DEF Stream
<1> QED
  BY <1>2, <1>4 DEF LineInv, Orderly

\* What the host leaves when it takes n characters off the line.
LEMMA Shortened ==
    ASSUME LinkTypeOK, NEW n \in 0 .. Len(toHost), Take(n)
    PROVE  /\ toHost' \in Seq(Chars)
           /\ Len(toHost) \in Nat /\ Len(toHost') = Len(toHost) - n
           /\ \A i \in 1 .. Len(toHost) - n : toHost'[i] = toHost[i + n]
<1>1. toHost \in Seq(Chars) /\ Len(toHost) \in Nat
  BY LenProperties DEF LinkTypeOK
<1>2. \A i \in n + 1 .. Len(toHost) : toHost[i] \in Chars
  BY <1>1, ElementOfSeq
<1>3. /\ SubSeq(toHost, n + 1, Len(toHost)) \in Seq(Chars)
      /\ Len(SubSeq(toHost, n + 1, Len(toHost))) =
           (IF n + 1 <= Len(toHost) THEN Len(toHost) - (n + 1) + 1 ELSE 0)
      /\ \A i \in 1 .. Len(toHost) - (n + 1) + 1 :
           SubSeq(toHost, n + 1, Len(toHost))[i] = toHost[(n + 1) + i - 1]
  BY <1>1, <1>2, SubSeqProperties
<1> QED
  BY <1>1, <1>3 DEF Take

\* The host takes n characters that go into no message.
LEMMA TakenInv ==
    ASSUME LineInv, UNCHANGED <<sent, connection_done>>, Base = 0, Base' = 0,
           NEW n \in 0 .. Len(toHost), Take(n)
    PROVE  /\ toHost' \in Seq(Chars)
           /\ Orderly(Stream, Base + Len(toHost), sent, connection_done)'
<1>1. /\ LinkTypeOK /\ Len(toHost) \in Nat
      /\ sent \in Nat /\ connection_done \in BOOLEAN
  BY BoardAssumption, LenProperties DEF LineInv, LinkTypeOK
<1>4. /\ toHost' \in Seq(Chars)
      /\ Len(toHost') = Len(toHost) - n
      /\ \A i \in 1 .. Len(toHost) - n : toHost'[i] = toHost[i + n]
  BY <1>1, Shortened
<1>5. \A p \in 1 .. Len(toHost) - n : Stream'[p] = Stream[p + n]
  <2> SUFFICES ASSUME NEW p \in 1 .. Len(toHost) - n PROVE Stream'[p] = Stream[p + n]
    OBVIOUS
  <2>1. Stream'[p] = toHost'[p - 0]
    <3>1. p \in 1 .. Base' + Len(toHost') /\ ~(p <= 0)
      BY <1>1, <1>4
    <3> QED
      BY <3>1 DEF Stream
  <2>2. Stream[p + n] = toHost[(p + n) - 0]
    <3>1. p + n \in 1 .. Base + Len(toHost) /\ ~(p + n <= 0)
      BY <1>1
    <3> QED
      BY <3>1 DEF Stream
  <2> QED
    BY <1>1, <1>4, <2>1, <2>2
<1>6. Orderly(Stream, Len(toHost), sent, connection_done)
  BY <1>1 DEF LineInv
<1>7. Orderly(Stream', Len(toHost) - n, sent, connection_done)
  BY <1>1, <1>5, <1>6, FrontGone
<1>8. (Base + Len(toHost))' = Len(toHost) - n
  BY <1>1, <1>4
<1> QED
  BY <1>4, <1>7, <1>8 DEF Orderly

\* The message in hand is done with, well or not.
LEMMA LeaveInv ==
    ASSUME LineInv, UNCHANGED <<toHost, sent, connection_done>>, Base' = 0
    PROVE  Orderly(Stream, Base + Len(toHost), sent, connection_done)'
<1> DEFINE n == Base + Len(toHost)
<1>1. /\ sent \in Nat /\ connection_done \in BOOLEAN
      /\ Base \in Nat /\ Len(toHost) \in Nat /\ n \in Nat /\ Base \in 0 .. n
      /\ n - Base = Len(toHost)
  BY BoardAssumption, Layout, LenProperties DEF LineInv, LinkTypeOK, Base
<1>2. \A p \in 1 .. Len(toHost) : Stream'[p] = Stream[p + Base]
  <2> SUFFICES ASSUME NEW p \in 1 .. Len(toHost) PROVE Stream'[p] = Stream[p + Base]
    OBVIOUS
  <2>1. Stream'[p] = toHost[p - 0]
    <3>1. p \in 1 .. Base' + Len(toHost') /\ ~(p <= 0)
      BY <1>1
    <3> QED
      BY <3>1 DEF Stream
  <2>2. Stream[p + Base] = toHost[(p + Base) - Base]
    <3>1. p + Base \in 1 .. Base + Len(toHost) /\ ~(p + Base <= Base)
      BY <1>1
    <3> QED
      BY <3>1 DEF Stream
  <2> QED
    BY <1>1, <2>1, <2>2
<1>3. Orderly(Stream, n, sent, connection_done)
  BY DEF LineInv
<1>4. \A p \in 1 .. n - Base : Stream'[p] = Stream[p + Base]
  BY <1>1, <1>2
<1> HIDE DEF n
<1>5. Orderly(Stream', n - Base, sent, connection_done)
  BY <1>1, <1>3, <1>4, FrontGone
<1>6. (Base + Len(toHost))' = n - Base
  BY <1>1
<1> QED
  BY <1>5, <1>6 DEF Orderly

\* A character moves from the line into the buffer.
LEMMA ReceiveInv ==
    ASSUME LineInv, ReceiveChar
    PROVE  /\ toHost' \in Seq(Chars)
           /\ buff' \in [1 .. MessageLength -> Chars]
           /\ received' \in 0 .. MessageLength
           /\ Orderly(Stream, Base + Len(toHost), sent, connection_done)'
<1>1. /\ LinkTypeOK /\ received \in 0 .. MessageLength /\ received < MessageLength
      /\ toHost \in Seq(Chars) /\ toHost # <<>>
      /\ buff \in [1 .. MessageLength -> Chars]
  BY DEF LineInv, LinkTypeOK, ReceiveChar
<1>2. Len(toHost) \in Nat /\ 1 \in 0 .. Len(toHost) /\ Head(toHost) = toHost[1]
      /\ toHost[1] \in Chars
  BY <1>1, EmptySeq, ElementOfSeq
<1>3. /\ toHost' \in Seq(Chars)
      /\ Len(toHost') = Len(toHost) - 1
      /\ \A i \in 1 .. Len(toHost) - 1 : toHost'[i] = toHost[i + 1]
  BY <1>1, <1>2, Shortened DEF ReceiveChar
<1>4. buff' = [buff EXCEPT ![received + 1] = toHost[1]] /\ received' = received + 1
      /\ received + 1 \in 1 .. MessageLength
  BY <1>1, <1>2, Layout DEF ReceiveChar
<1>5. buff' \in [1 .. MessageLength -> Chars] /\ received' \in 0 .. MessageLength
  BY <1>1, <1>2, <1>4, Layout
<1>6. Base = received /\ Base' = received + 1
  BY <1>4 DEF Base, ReceiveChar, publisherVars
<1>7. (Base + Len(toHost))' = Base + Len(toHost)
  BY <1>1, <1>2, <1>3, <1>6, Layout
<1>8. \A p \in 1 .. Base + Len(toHost) :
        (IF p <= Base THEN buff[p] ELSE toHost[p - Base])'
          = IF p <= Base THEN buff[p] ELSE toHost[p - Base]
  <2> SUFFICES ASSUME NEW p \in 1 .. received + Len(toHost)
               PROVE  (IF p <= received + 1 THEN buff'[p]
                                            ELSE toHost'[p - (received + 1)])
                        = IF p <= received THEN buff[p] ELSE toHost[p - received]
    BY <1>6
  <2>1. CASE p <= received
    <3>1. p <= received + 1 /\ p \in 1 .. MessageLength /\ p # received + 1
      BY <1>1, <2>1, Layout
    <3> QED
      BY <1>1, <1>4, <2>1, <3>1
  <2>2. CASE p = received + 1
    <3>1. ~(p <= received) /\ p - received = 1 /\ p <= received + 1
      BY <1>1, <2>2, Layout
    <3> QED
      BY <1>1, <1>4, <2>2, <3>1
  <2>3. CASE p > received + 1
    <3>1. ~(p <= received) /\ ~(p <= received + 1)
          /\ p - (received + 1) \in 1 .. Len(toHost) - 1
          /\ (p - (received + 1)) + 1 = p - received
      BY <1>1, <1>2, <2>3, Layout
    <3> QED
      BY <1>3, <3>1
  <2> QED
    BY <1>1, <2>1, <2>2, <2>3, Layout
<1>9. Stream' = Stream
  BY <1>7, <1>8 DEF Stream
<1>10. sent' = sent /\ connection_done' = connection_done
  BY DEF ReceiveChar, LineOnly
<1> QED
  BY <1>3, <1>5, <1>7, <1>9, <1>10 DEF LineInv, Orderly

\* The board restarts with part of its output unwritten.
LEMMA ResetInv ==
    ASSUME LineInv, Reset, UNCHANGED <<publisherVars, linkVars>>
    PROVE  /\ toHost' \in Seq(Chars)
           /\ Orderly(Stream, Base + Len(toHost), sent, connection_done)'
<1>1. PICK n \in 0 .. Len(toHost) : toHost' = SubSeq(toHost, 1, n)
  BY DEF Reset
<1>2. /\ toHost \in Seq(Chars) /\ Len(toHost) \in Nat /\ n \in Nat
      /\ sent \in Nat /\ connection_done \in BOOLEAN
      /\ Base \in Nat /\ Base' = Base /\ buff' = buff
  BY BoardAssumption, Layout, LenProperties
     DEF LineInv, LinkTypeOK, Base, publisherVars, linkVars
<1>3. \A i \in 1 .. n : toHost[i] \in Chars
  BY <1>2, ElementOfSeq
<1>4. /\ SubSeq(toHost, 1, n) \in Seq(Chars)
      /\ Len(SubSeq(toHost, 1, n)) = (IF 1 <= n THEN n - 1 + 1 ELSE 0)
      /\ \A i \in 1 .. n - 1 + 1 : SubSeq(toHost, 1, n)[i] = toHost[1 + i - 1]
  BY <1>2, <1>3, SubSeqProperties
<1>5. /\ toHost' \in Seq(Chars) /\ Len(toHost') = n
      /\ \A i \in 1 .. n : toHost'[i] = toHost[i]
  BY <1>1, <1>2, <1>4
<1> DEFINE total == Base + Len(toHost)
           lost == Len(toHost) - n
<1>6. /\ total \in Nat /\ lost \in 0 .. total
      /\ (Base + Len(toHost))' = total - lost /\ total - lost = Base + n
  BY <1>2, <1>5
<1>7. \A p \in 1 .. Base + n : Stream'[p] = Stream[p]
  <2> SUFFICES ASSUME NEW p \in 1 .. Base + n PROVE Stream'[p] = Stream[p]
    OBVIOUS
  <2>1. p \in 1 .. Base + Len(toHost) /\ p \in 1 .. Base' + Len(toHost')
    BY <1>2, <1>5
  <2>2. Stream[p] = IF p <= Base THEN buff[p] ELSE toHost[p - Base]
    BY <2>1 DEF Stream
  <2>3. Stream'[p] = IF p <= Base THEN buff[p] ELSE toHost'[p - Base]
    BY <1>2, <2>1 DEF Stream
  <2>4. ~(p <= Base) => p - Base \in 1 .. n
    BY <1>2
  <2> QED
    BY <1>5, <2>2, <2>3, <2>4
<1>8. Orderly(Stream, total, sent, connection_done)
  BY DEF LineInv
<1>9. \A p \in 1 .. total - lost : Stream'[p] = Stream[p]
  BY <1>6, <1>7
<1> HIDE DEF total, lost
<1>10. Orderly(Stream', total - lost, sent, FALSE)
  BY <1>2, <1>6, <1>8, <1>9, EndLost
<1>11. sent' = sent /\ connection_done' = FALSE
  BY DEF Reset
<1> QED
  BY <1>5, <1>6, <1>10, <1>11 DEF Orderly

\* Types and order after a step of the host.
LEMMA HostStep ==
    ASSUME LineInv, HostNext, PublisherTypeOK'
    PROVE  LinkTypeOK' /\ Orderly(Stream, Base + Len(toHost), sent, connection_done)'
<1> DEFINE Ordered == Orderly(Stream, Base + Len(toHost), sent, connection_done)
<1>0. LinkTypeOK
  BY DEF LineInv
<1> HIDE DEF Ordered
<1>1. CASE SendHey
  <2>1. heys' \in 0 .. MaxHeys
    BY <1>0, <1>1, LinkAssumption DEF SendHey, LinkTypeOK
  <2>2. Base' = Base /\ UNCHANGED <<toHost, sent, connection_done, buff>>
    BY <1>1 DEF SendHey, LineOnly, publisherVars, Base
  <2>3. Ordered'
    BY <2>2, SameInv DEF Ordered
  <2> QED
    BY <1>0, <1>1, <2>1, <2>2, <2>3 DEF SendHey, LineOnly, LinkTypeOK, Ordered
<1>2. ASSUME NEW n \in Found, Poll(n), received' = received \/ received' = 0,
             reader' = "receive" => received' = 0
      PROVE  LinkTypeOK' /\ Ordered'
  <2>1. n \in 0 .. Len(toHost)
    BY <1>0, LenProperties DEF Found, LinkTypeOK
  <2>2. Base = 0 /\ Base' = 0
    BY <1>2 DEF Base, Poll
  <2>3. Take(n) /\ UNCHANGED <<sent, connection_done>>
    BY <1>2 DEF Poll, LineOnly
  <2>4. toHost' \in Seq(Chars) /\ Ordered'
    BY <2>1, <2>2, <2>3, TakenInv DEF Ordered
  <2>5. received' \in 0 .. MessageLength
    BY <1>0, <1>2, Layout DEF LinkTypeOK
  <2> QED
    BY <1>0, <1>2, <2>4, <2>5 DEF Poll, LineOnly, LinkTypeOK
<1>3. CASE PollAnnouncement
  BY <1>2, <1>3 DEF PollAnnouncement, Ordered
<1>4. CASE PollOther
  <2>1. PICK n \in Found : Poll(n) /\ UNCHANGED <<publisherVars, received>>
    BY <1>4 DEF PollOther
  <2>2. reader' # "receive"
    BY <2>1 DEF Poll, publisherVars
  <2> QED
    BY <1>2, <2>1, <2>2 DEF Ordered
<1>5. CASE ReceiveChar
  <2>1. /\ toHost' \in Seq(Chars)
        /\ buff' \in [1 .. MessageLength -> Chars]
        /\ received' \in 0 .. MessageLength
        /\ Ordered'
    BY <1>5, ReceiveInv DEF Ordered
  <2> QED
    BY <1>0, <1>5, <2>1 DEF ReceiveChar, LineOnly, LinkTypeOK, Ordered
<1>6. CASE WaitMessageValid \/ WaitMessageInvalid
  <2>1. UNCHANGED <<boardVars, linkVars>> /\ reader' # "receive"
    BY <1>6 DEF WaitMessageValid, WaitMessageInvalid, MessageValid, MessageInvalid, Move
  <2>2. Base' = 0 /\ UNCHANGED <<toHost, sent, connection_done>>
    BY <2>1 DEF Base, boardVars
  <2>3. Ordered'
    BY <2>2, LeaveInv DEF Ordered
  <2> QED
    BY <1>0, <2>1, <2>3 DEF boardVars, linkVars, LinkTypeOK, Ordered
<1>7. CASE ReceiveSerial
  <2>1. /\ toHost \in Seq(Chars) /\ toHost # <<>> /\ serial \in Seq(Chars)
        /\ Len(serial) \in Nat /\ Len(serial) < SerialLength
    BY <1>0, <1>7, LenProperties DEF LinkTypeOK, ReceiveSerial
  <2>2. 1 \in 0 .. Len(toHost) /\ Head(toHost) \in Chars
    BY <2>1, EmptySeq, HeadTailProperties
  <2>3. serial' \in Seq(Chars) /\ Len(serial') <= SerialLength
    <3>1. serial' \in Seq(Chars) /\ Len(serial') = Len(serial) + 1
      BY <1>7, <2>1, <2>2, AppendProperties DEF ReceiveSerial
    <3> QED
      BY <2>1, <3>1, LinkAssumption
  <2>4. Base = 0 /\ Base' = 0
    BY <1>7 DEF Base, ReceiveSerial, publisherVars
  <2>5. Take(1) /\ UNCHANGED <<sent, connection_done>>
    BY <1>7 DEF ReceiveSerial, LineOnly
  <2>6. toHost' \in Seq(Chars) /\ Ordered'
    BY <2>2, <2>4, <2>5, TakenInv DEF Ordered
  <2> QED
    BY <1>0, <1>7, <2>3, <2>6 DEF ReceiveSerial, LineOnly, LinkTypeOK, Ordered
<1>8. CASE SerialComplete
  <2>1. Base' = 0 /\ UNCHANGED <<toHost, sent, connection_done>>
    BY <1>8 DEF SerialComplete, SerialRead, Move, Base, boardVars
  <2>2. Ordered'
    BY <2>1, LeaveInv DEF Ordered
  <2>3. serial' \in Seq(Chars) /\ Len(serial') <= SerialLength
    BY <1>8, EmptySeq, LinkAssumption DEF SerialComplete
  <2> QED
    BY <1>0, <1>8, <2>2, <2>3 DEF SerialComplete, boardVars, LinkTypeOK, Ordered
<1>9. CASE ThreadStep
  <2>1. reader' # "receive"
    BY <1>9 DEF ThreadStep, PublisherAlone, ClearUsername, ClearPassword,
            SerialAllowed, SerialUnknown, DatabaseError, Publish, Decrypt,
            DecryptSome, DecryptRest, Move
  <2>2. Base' = 0 /\ UNCHANGED <<toHost, sent, connection_done>>
    BY <1>9, <2>1 DEF ThreadStep, Base, boardVars
  <2>3. Ordered'
    BY <2>2, LeaveInv DEF Ordered
  <2> QED
    BY <1>0, <1>9, <2>3 DEF ThreadStep, boardVars, linkVars, LinkTypeOK, Ordered
<1> QED
  BY <1>1, <1>3, <1>4, <1>5, <1>6, <1>7, <1>8, <1>9 DEF HostNext

\* And after a step of the board.
LEMMA BoardSteps ==
    ASSUME LineInv, BoardStep, PublisherTypeOK'
    PROVE  LinkTypeOK' /\ Orderly(Stream, Base + Len(toHost), sent, connection_done)'
<1> DEFINE Ordered == Orderly(Stream, Base + Len(toHost), sent, connection_done)
<1>0. LinkTypeOK /\ UNCHANGED <<publisherVars, linkVars>>
  BY DEF LineInv, BoardStep
<1>u. UNCHANGED <<reader, received, buff, keepalive, serial>>
  BY <1>0 DEF publisherVars, linkVars
<1> HIDE DEF Ordered
<1>1. CASE Announce
  <2>1. toHost' \in Seq(Chars) /\ Ordered'
    BY <1>0, <1>1, AnnounceInv DEF Ordered
  <2>2. sent' \in 0 .. MaxSent /\ heys' \in 0 .. MaxHeys
    BY <1>0, <1>1, BoardAssumption, LinkAssumption DEF Announce, LinkTypeOK
  <2> QED
    BY <1>0, <1>u, <1>1, <2>1, <2>2 DEF Announce, LinkTypeOK, Ordered
<1>2. CASE KeepAlive
  <2>1. KA \in Seq(Chars) /\ \A a \in 1 .. Len(KA) : ~InMessage(KA[a])
    BY <1>0, Texts
  <2>2. /\ connection_done /\ toHost' = toHost \o KA
        /\ UNCHANGED <<reader, received, buff, sent, connection_done>>
    BY <1>u, <1>2 DEF KeepAlive
  <2>3. toHost' \in Seq(Chars) /\ Ordered'
    BY <2>1, <2>2, TextInv DEF Ordered
  <2>4. heys' \in 0 .. MaxHeys
    BY <1>0, <1>2, LinkAssumption DEF KeepAlive, LinkTypeOK
  <2> QED
    BY <1>0, <1>u, <1>2, <2>3, <2>4 DEF KeepAlive, LinkTypeOK, Ordered
<1>3. CASE EmptySerial
  <2>1. Base' = Base /\ UNCHANGED <<toHost, sent, connection_done, buff>>
    BY <1>u, <1>3 DEF EmptySerial, Base
  <2>2. Ordered'
    BY <2>1, SameInv DEF Ordered
  <2>3. heys' \in 0 .. MaxHeys
    BY <1>3, LinkAssumption DEF EmptySerial
  <2> QED
    BY <1>0, <1>u, <1>3, <2>2, <2>3 DEF EmptySerial, LinkTypeOK, Ordered
<1>4. ASSUME NEW c \in BoardCards, ReadCard(c)
      PROVE  LinkTypeOK' /\ Ordered'
  <2> DEFINE filled(last, outcomes) ==
               [i \in DataPlaces |->
                  IF FieldAt(i) <= last THEN AfterRead(c, i, outcomes[FieldAt(i)])
                  ELSE buffer[i]]
  <2>1. PICK last \in BoardFields : \E outcomes \in [1 .. last -> ReadOutcomes] :
          /\ \E done \in Reported(outcomes[last]) :
               somthing_to_send' = (done \/ somthing_to_send)
          /\ buffer' = filled(last, outcomes)
          /\ toHost' = toHost \o ErrorText(Cardinality(Failures(outcomes)))
    BY <1>4 DEF ReadCard
  <2>2. PICK outcomes \in [1 .. last -> ReadOutcomes] :
          /\ \E done \in Reported(outcomes[last]) :
               somthing_to_send' = (done \/ somthing_to_send)
          /\ buffer' = filled(last, outcomes)
          /\ toHost' = toHost \o ErrorText(Cardinality(Failures(outcomes)))
    BY <2>1
  <2> DEFINE failed == Cardinality(Failures(outcomes))
  <2>3. failed \in Nat
    BY FailuresCount, BoardAssumption DEF BoardFields
  <2> HIDE DEF failed
  <2>4. /\ ErrorText(failed) \in Seq(Chars)
        /\ \A a \in 1 .. Len(ErrorText(failed)) : ~InMessage(ErrorText(failed)[a])
    BY <1>0, <2>3, Texts
  <2>5. /\ connection_done /\ toHost' = toHost \o ErrorText(failed)
        /\ UNCHANGED <<reader, received, buff, sent, connection_done>>
    BY <1>u, <1>4, <2>2 DEF ReadCard, failed
  <2>6. toHost' \in Seq(Chars) /\ Ordered'
    BY <2>4, <2>5, TextInv DEF Ordered
  <2>7. buffer' \in [DataPlaces -> BoardCards \cup {Nobody}]
    <3>1. \A i \in DataPlaces : buffer[i] \in BoardCards \cup {Nobody}
      BY <1>0 DEF LinkTypeOK
    <3>2. \A i \in DataPlaces :
            AfterRead(c, i, outcomes[FieldAt(i)]) \in BoardCards \cup {Nobody}
      BY <3>1 DEF AfterRead
    <3> QED
      BY <2>2, <3>1, <3>2
  <2>8. somthing_to_send' \in BOOLEAN
    <3>1. PICK done \in Reported(outcomes[last]) :
            somthing_to_send' = (done \/ somthing_to_send)
      BY <2>2
    <3> QED
      BY <3>1, Zenon
  <2> QED
    BY <1>0, <1>u, <1>4, <2>6, <2>7, <2>8 DEF ReadCard, LinkTypeOK
<1>5. CASE Reset
  <2>1. toHost' \in Seq(Chars) /\ Ordered'
    BY <1>0, <1>5, ResetInv DEF Ordered
  <2>2. resets' \in 0 .. MaxResets /\ heys' \in 0 .. MaxHeys
    BY <1>0, <1>5, BoardAssumption, LinkAssumption DEF Reset, LinkTypeOK
  <2>3. buffer' \in [DataPlaces -> BoardCards \cup {Nobody}]
    BY <1>5 DEF Reset
  <2> QED
    BY <1>0, <1>u, <1>5, <2>1, <2>2, <2>3 DEF Reset, LinkTypeOK, Ordered
<1> QED
  BY <1>1, <1>2, <1>3, <1>4, <1>5 DEF BoardStep, BoardNext, Ordered

\* The invariant is inductive.
LEMMA LineInvStep == LineInv /\ [Next]_vars => LineInv'
<1> SUFFICES ASSUME LineInv, [Next]_vars PROVE LineInv'
  OBVIOUS
<1>1. PublisherInv' /\ PublisherTypeOK'
  BY LinkStepsAlone, PublisherInvStep DEF LineInv, PublisherInv
<1>2. CASE Next
  <2>1. LinkTypeOK' /\ Orderly(Stream, Base + Len(toHost), sent, connection_done)'
    BY <1>1, <1>2, HostStep, BoardSteps DEF Next
  <2> QED
    BY <1>1, <2>1 DEF LineInv
<1>3. CASE UNCHANGED vars
  <2>1. UNCHANGED <<publisherVars, boardVars, linkVars>>
    BY <1>3 DEF vars
  <2>2. LinkTypeOK'
    BY <1>1, <2>1 DEF LineInv, LinkTypeOK, boardVars, linkVars
  <2>3. Base' = Base /\ UNCHANGED <<toHost, sent, connection_done, buff, received, reader>>
    BY <2>1 DEF Base, publisherVars, boardVars, linkVars
  <2>4. Orderly(Stream, Base + Len(toHost), sent, connection_done)'
    BY <2>3, SameInv
  <2> QED
    BY <1>1, <2>2, <2>4 DEF LineInv
<1> QED
  BY <1>2, <1>3

\* Every behaviour of board and host keeps the line orderly.
THEOREM LineInvariant == Spec => []LineInv
BY LinkInitInv, LineInvStep, PTL DEF Spec

\* Board, line and host stay within their types, and the counters of wait_message
\* and wait_serial_number within their buffers, for any sizes.
THEOREM LinkTypeCorrect == Spec => []LinkTypeOK
<1>1. LineInv => LinkTypeOK
  BY DEF LineInv
<1> QED
  BY <1>1, LineInvariant, PTL

\* The serial thread on the line does what CardPublisher says.
THEOREM LinkImplementsPublisher == Spec => PublisherSpec
<1>1. Init => PublisherInit
  BY DEF Init
<1> QED
  BY <1>1, LinkStepsAlone, PTL DEF Spec, PublisherSpec

=============================================================================
