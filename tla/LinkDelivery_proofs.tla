------------------------ MODULE LinkDelivery_proofs ------------------------
(***************************************************************************)
(* What is accepted from the serial line is one message of the board with   *)
(* its own serial number, no message twice and none after a later one: for  *)
(* any sizes, leftovers, misread answers and restarts of the board, and for *)
(* any bytes that AcksStandOut and NumbersStandOut allow.                   *)
(***************************************************************************)
EXTENDS ReaderLink_proofs

\* What the serial thread holds of the characters in hand: those of the message
\* it is receiving, or of the message it received in full with what has come of
\* the serial number.
Held ==
    IF reader = "receive" THEN received
    ELSE IF reader = "serial" /\ received = MessageLength
    THEN MessageLength + Len(serial)
    ELSE 0

FlowLength == Held + Len(toHost)

\* Together with what is on the line they were sent one behind the other.
Flow ==
    [p \in 1 .. FlowLength |->
        IF p > Held THEN toHost[p - Held]
        ELSE IF p <= MessageLength THEN buff[p]
        ELSE serial[p - MessageLength]]

\* Characters of a message or of the serial number behind it, and their place
\* in the two together.
Numbered(c) == InMessage(c) \/ c.kind = "serial"

Spot(c) == IF c.kind = "serial" THEN MessageLength + c.place ELSE c.place

\* They come from the m messages sent.
Sourced(s, n, m) ==
    \A p \in 1 .. n : Numbered(s[p]) =>
        /\ s[p].place \in Nat \ {0}
        /\ s[p].message \in 1 .. m
        /\ InMessage(s[p]) => s[p].place <= MessageLength
        /\ s[p].kind = "ack" => IsAck(s[p].place)

\* Before each of them are those that were sent before it, as far back as s goes.
Led(s, n) ==
    \A p, q \in 1 .. n :
        (Numbered(s[p]) /\ q <= p /\ Spot(s[p]) + q > p) =>
            /\ Numbered(s[q])
            /\ s[q].message = s[p].message
            /\ Spot(s[q]) + p = Spot(s[p]) + q

\* Messages come in the order of sending, and each once.
InOrder(s, n) ==
    \A p, q \in 1 .. n :
        (Numbered(s[p]) /\ Numbered(s[q]) /\ p < q) =>
            /\ s[p].message <= s[q].message
            /\ s[p].message = s[q].message => Spot(s[p]) + q = Spot(s[q]) + p

\* The bytes found in fields.
BytesOfCards ==
    {FieldBytes[x[1]][x[2]] : x \in BoardCards \X DataPlaces} \cup {OtherByte}

\* A character has a byte, and a digit a place, that what it was written as may
\* have.
Fits(c) ==
    /\ c.kind = "text" => c.byte \notin BoardFields
    /\ c.kind = "data" => c.byte \in BytesOfCards
    /\ c.kind = "ack" => c.byte = FieldAt(c.place)
    /\ c.kind = "serial" => \E b \in BoardCards : c.place <= Len(Digits[b])

AllFit(s, n) == \A p \in 1 .. n : Fits(s[p])

\* The board as its authors meant it: a read is whole, and reported to be.
ReadsSucceed == ReadOutcomes = {BlockLength} /\ ReadsReport = TRUE

\* Then the bytes of fields and serial number that came with one message are of
\* one card.
CardBytes(c) == c.kind \in {"data", "serial"}

OneCard(s, n) ==
    \A p \in 1 .. n : CardBytes(s[p]) =>
        /\ s[p].card \in BoardCards
        /\ \A q \in 1 .. n :
             (CardBytes(s[q]) /\ s[q].message = s[p].message) => s[q].card = s[p].card

Tracked(s, n, m) ==
    /\ Sourced(s, n, m)
    /\ Led(s, n)
    /\ InOrder(s, n)
    /\ AllFit(s, n)
    /\ ReadsSucceed => OneCard(s, n)

----------------------------------------------------------------------------

\* A numbered character has a spot.
LEMMA Spots ==
    ASSUME NEW s, NEW n \in Nat, NEW m, Sourced(s, n, m), NEW p \in 1 .. n, Numbered(s[p])
    PROVE  /\ s[p].place \in Nat \ {0}
           /\ Spot(s[p]) \in Nat \ {0}
           /\ s[p].message \in 1 .. m
           /\ InMessage(s[p]) <=> Spot(s[p]) <= MessageLength
<1>1. s[p].place \in Nat \ {0} /\ s[p].message \in 1 .. m
      /\ (InMessage(s[p]) => s[p].place <= MessageLength)
  BY DEF Sourced
<1> QED
  BY <1>1, Layout DEF Spot, Numbered, InMessage

\* A stretch of the stream is tracked as the whole is.
LEMMA Stretch ==
    ASSUME NEW s, NEW t, NEW n \in Nat, NEW k \in Nat, NEW d \in Nat, d + k <= n, NEW m,
           Tracked(s, n, m),
           \A p \in 1 .. k : t[p] = s[p + d]
    PROVE  Tracked(t, k, m)
<1>1. \A p \in 1 .. k : p + d \in 1 .. n /\ t[p] = s[p + d]
  OBVIOUS
<1>2. Sourced(s, n, m) /\ Led(s, n) /\ InOrder(s, n)
  BY DEF Tracked
<1>3. Sourced(t, k, m)
  BY <1>1, <1>2 DEF Sourced
<1>4. Led(t, k)
  <2> SUFFICES ASSUME NEW p \in 1 .. k, NEW q \in 1 .. k, Numbered(t[p]), q <= p,
                      Spot(t[p]) + q > p
               PROVE  /\ Numbered(t[q])
                      /\ t[q].message = t[p].message
                      /\ Spot(t[q]) + p = Spot(t[p]) + q
    BY DEF Led
  <2>1. p + d \in 1 .. n /\ q + d \in 1 .. n /\ t[p] = s[p + d] /\ t[q] = s[q + d]
    BY <1>1
  <2>2. Spot(t[p]) \in Nat
    BY <1>3, Spots
  <2>3. q + d <= p + d /\ Spot(s[p + d]) + (q + d) > p + d
    BY <2>1, <2>2
  <2>4. /\ Numbered(s[q + d])
        /\ s[q + d].message = s[p + d].message
        /\ Spot(s[q + d]) + (p + d) = Spot(s[p + d]) + (q + d)
    BY <1>2, <2>1, <2>3 DEF Led
  <2>5. Spot(t[q]) \in Nat
    BY <1>3, <2>1, <2>4, Spots
  <2> QED
    BY <2>1, <2>2, <2>4, <2>5
<1>5. InOrder(t, k)
  <2> SUFFICES ASSUME NEW p \in 1 .. k, NEW q \in 1 .. k, Numbered(t[p]), Numbered(t[q]),
                      p < q
               PROVE  /\ t[p].message <= t[q].message
                      /\ t[p].message = t[q].message => Spot(t[p]) + q = Spot(t[q]) + p
    BY DEF InOrder
  <2>1. p + d \in 1 .. n /\ q + d \in 1 .. n /\ t[p] = s[p + d] /\ t[q] = s[q + d]
    BY <1>1
  <2>2. Spot(t[p]) \in Nat /\ Spot(t[q]) \in Nat
    BY <1>3, Spots
  <2>3. p + d < q + d
    OBVIOUS
  <2>4. /\ s[p + d].message <= s[q + d].message
        /\ s[p + d].message = s[q + d].message =>
             Spot(s[p + d]) + (q + d) = Spot(s[q + d]) + (p + d)
    BY <1>2, <2>1, <2>3 DEF InOrder
  <2> QED
    BY <2>1, <2>2, <2>4
<1>6. ReadsSucceed => OneCard(t, k)
  <2> SUFFICES ASSUME ReadsSucceed PROVE OneCard(t, k)
    OBVIOUS
  <2>1. OneCard(s, n)
    BY DEF Tracked
  <2> QED
    BY <1>1, <2>1 DEF OneCard
<1>7. AllFit(t, k)
  BY <1>1 DEF Tracked, AllFit
<1> QED
  BY <1>3, <1>4, <1>5, <1>6, <1>7 DEF Tracked

\* Text may follow.
LEMMA TextTracked ==
    ASSUME NEW s, NEW t, NEW n \in Nat, NEW a \in Nat, NEW m,
           Tracked(s, n, m),
           \A p \in 1 .. n : t[p] = s[p],
           \A p \in n + 1 .. n + a : ~Numbered(t[p]) /\ Fits(t[p])
    PROVE  Tracked(t, n + a, m)
<1>1. ASSUME NEW p \in 1 .. n + a, Numbered(t[p])
      PROVE  p \in 1 .. n /\ t[p] = s[p]
  BY <1>1
<1>2. Sourced(s, n, m) /\ Led(s, n) /\ InOrder(s, n)
  BY DEF Tracked
<1>3. Sourced(t, n + a, m)
  BY <1>1, <1>2 DEF Sourced
<1>4. Led(t, n + a)
  <2> SUFFICES ASSUME NEW p \in 1 .. n + a, NEW q \in 1 .. n + a, Numbered(t[p]), q <= p,
                      Spot(t[p]) + q > p
               PROVE  /\ Numbered(t[q])
                      /\ t[q].message = t[p].message
                      /\ Spot(t[q]) + p = Spot(t[p]) + q
    BY DEF Led
  <2>1. p \in 1 .. n /\ q \in 1 .. n /\ t[p] = s[p] /\ t[q] = s[q]
    BY <1>1
  <2> QED
    BY <1>2, <2>1 DEF Led
<1>5. InOrder(t, n + a)
  BY <1>1, <1>2 DEF InOrder
<1>6. ReadsSucceed => OneCard(t, n + a)
  <2> SUFFICES ASSUME ReadsSucceed PROVE OneCard(t, n + a)
    OBVIOUS
  <2>1. OneCard(s, n)
    BY DEF Tracked
  <2>2. ASSUME NEW p \in 1 .. n + a, CardBytes(t[p])
        PROVE  p \in 1 .. n /\ t[p] = s[p]
    BY <1>1, <2>2 DEF CardBytes, Numbered, InMessage
  <2> QED
    BY <2>1, <2>2 DEF OneCard
<1>7. AllFit(t, n + a)
  <2> SUFFICES ASSUME NEW p \in 1 .. n + a PROVE Fits(t[p])
    BY DEF AllFit
  <2>1. p \in 1 .. n \/ p \in n + 1 .. n + a
    OBVIOUS
  <2>2. AllFit(s, n)
    BY DEF Tracked
  <2> QED
    BY <2>1, <2>2 DEF AllFit
<1> QED
  BY <1>3, <1>4, <1>5, <1>6, <1>7 DEF Tracked

\* What Announce writes at place i of what it sends with message k.
SentAs(c, k, i) ==
    /\ Numbered(c)
    /\ c.message = k
    /\ Spot(c) = i
    /\ c.place \in Nat \ {0}
    /\ InMessage(c) => c.place <= MessageLength
    /\ c.kind = "ack" => IsAck(c.place)
    /\ Fits(c)

\* The next message with its serial number may follow, behind some text.
LEMMA SendingTracked ==
    ASSUME NEW s, NEW t, NEW n \in Nat, NEW a \in Nat, NEW len \in Nat, NEW m \in Nat,
           NEW u,
           Tracked(s, n, m),
           \A p \in 1 .. n : t[p] = s[p],
           \A p \in n + 1 .. n + a : ~Numbered(t[p]) /\ Fits(t[p]),
           \A i \in 1 .. len : SentAs(t[n + a + i], m + 1, i),
           ReadsSucceed =>
               /\ u \in BoardCards
               /\ \A i \in 1 .. len :
                    CardBytes(t[n + a + i]) => t[n + a + i].card = u
    PROVE  Tracked(t, n + a + len, m + 1)
<1> DEFINE first == n + a
           total == n + a + len
<1>1. ASSUME NEW p \in 1 .. total, Numbered(t[p])
      PROVE  \/ p \in 1 .. n /\ t[p] = s[p] /\ Numbered(s[p])
             \/ p - first \in 1 .. len /\ SentAs(t[p], m + 1, p - first)
  <2>1. CASE p \in first + 1 .. first + len
    <3>1. p - first \in 1 .. len /\ n + a + (p - first) = p
      BY <2>1
    <3>2. SentAs(t[n + a + (p - first)], m + 1, p - first)
      BY <3>1
    <3> QED
      BY <3>1, <3>2
  <2>2. CASE p \notin first + 1 .. first + len
    BY <1>1, <2>2
  <2> QED
    BY <2>1, <2>2
<1>2. Sourced(s, n, m) /\ Led(s, n) /\ InOrder(s, n)
  BY DEF Tracked
<1>3. Sourced(t, total, m + 1)
  <2> SUFFICES ASSUME NEW p \in 1 .. total, Numbered(t[p])
               PROVE  /\ t[p].place \in Nat \ {0}
                      /\ t[p].message \in 1 .. m + 1
                      /\ InMessage(t[p]) => t[p].place <= MessageLength
                      /\ t[p].kind = "ack" => IsAck(t[p].place)
    BY DEF Sourced
  <2>1. CASE p \in 1 .. n /\ t[p] = s[p] /\ Numbered(s[p])
    BY <1>2, <2>1 DEF Sourced
  <2>2. CASE p - first \in 1 .. len /\ SentAs(t[p], m + 1, p - first)
    BY <2>2 DEF SentAs
  <2> QED
    BY <1>1, <2>1, <2>2
<1>4. Led(t, total)
  <2> SUFFICES ASSUME NEW p \in 1 .. total, NEW q \in 1 .. total, Numbered(t[p]), q <= p,
                      Spot(t[p]) + q > p
               PROVE  /\ Numbered(t[q])
                      /\ t[q].message = t[p].message
                      /\ Spot(t[q]) + p = Spot(t[p]) + q
    BY DEF Led
  <2>1. CASE p \in 1 .. n /\ t[p] = s[p] /\ Numbered(s[p])
    <3>1. q \in 1 .. n /\ t[q] = s[q]
      BY <2>1
    <3> QED
      BY <1>2, <2>1, <3>1 DEF Led
  <2>2. CASE p - first \in 1 .. len /\ SentAs(t[p], m + 1, p - first)
    <3>1. q - first \in 1 .. len /\ n + a + (q - first) = q
      BY <2>2 DEF SentAs
    <3>2. SentAs(t[q], m + 1, q - first)
      BY <3>1
    <3> QED
      BY <2>2, <3>2 DEF SentAs
  <2> QED
    BY <1>1, <2>1, <2>2
<1>5. InOrder(t, total)
  <2> SUFFICES ASSUME NEW p \in 1 .. total, NEW q \in 1 .. total, Numbered(t[p]),
                      Numbered(t[q]), p < q
               PROVE  /\ t[p].message <= t[q].message
                      /\ t[p].message = t[q].message => Spot(t[p]) + q = Spot(t[q]) + p
    BY DEF InOrder
  <2>1. CASE q \in 1 .. n /\ t[q] = s[q] /\ Numbered(s[q])
    <3>1. p \in 1 .. n /\ t[p] = s[p] /\ Numbered(s[p])
      BY <2>1
    <3> QED
      BY <1>2, <2>1, <3>1 DEF InOrder
  <2>2. CASE q - first \in 1 .. len /\ SentAs(t[q], m + 1, q - first)
    <3>1. CASE p \in 1 .. n /\ t[p] = s[p] /\ Numbered(s[p])
      <4>1. t[p].message \in 1 .. m
        BY <1>2, <3>1 DEF Sourced
      <4> QED
        BY <2>2, <4>1 DEF SentAs
    <3>2. CASE p - first \in 1 .. len /\ SentAs(t[p], m + 1, p - first)
      BY <2>2, <3>2 DEF SentAs
    <3> QED
      BY <1>1, <3>1, <3>2
  <2> QED
    BY <1>1, <2>1, <2>2
<1>6. ReadsSucceed => OneCard(t, total)
  <2> SUFFICES ASSUME ReadsSucceed, NEW p \in 1 .. total, CardBytes(t[p])
               PROVE  /\ t[p].card \in BoardCards
                      /\ \A q \in 1 .. total :
                           (CardBytes(t[q]) /\ t[q].message = t[p].message)
                             => t[q].card = t[p].card
    BY DEF OneCard
  <2>1. OneCard(s, n)
    BY DEF Tracked
  <2>2. ASSUME NEW q \in 1 .. total, CardBytes(t[q])
        PROVE  \/ q \in 1 .. n /\ t[q] = s[q] /\ CardBytes(s[q]) /\ t[q].message \in 1 .. m
               \/ t[q].message = m + 1 /\ t[q].card = u
    <3>1. Numbered(t[q])
      BY <2>2 DEF CardBytes, Numbered, InMessage
    <3>2. CASE q \in 1 .. n /\ t[q] = s[q] /\ Numbered(s[q])
      BY <1>2, <2>2, <3>2 DEF Sourced
    <3>3. CASE q - first \in 1 .. len /\ SentAs(t[q], m + 1, q - first)
      <4>1. n + a + (q - first) = q
        OBVIOUS
      <4>2. CardBytes(t[n + a + (q - first)]) => t[n + a + (q - first)].card = u
        BY <3>3
      <4> QED
        BY <2>2, <3>3, <4>1, <4>2 DEF SentAs
    <3> QED
      BY <1>1, <3>1, <3>2, <3>3
  <2>3. CASE p \in 1 .. n /\ t[p] = s[p] /\ CardBytes(s[p]) /\ t[p].message \in 1 .. m
    <3>1. t[p].card \in BoardCards
      BY <2>1, <2>3 DEF OneCard
    <3>2. ASSUME NEW q \in 1 .. total, CardBytes(t[q]), t[q].message = t[p].message
          PROVE  t[q].card = t[p].card
      <4>1. q \in 1 .. n /\ t[q] = s[q] /\ CardBytes(s[q])
        BY <2>2, <2>3, <3>2
      <4> QED
        BY <2>1, <2>3, <3>2, <4>1 DEF OneCard
    <3> QED
      BY <3>1, <3>2
  <2>4. CASE t[p].message = m + 1 /\ t[p].card = u
    BY <2>2, <2>4
  <2> QED
    BY <2>2, <2>3, <2>4
<1>7. AllFit(t, total)
  <2> SUFFICES ASSUME NEW p \in 1 .. total PROVE Fits(t[p])
    BY DEF AllFit
  <2>1. CASE p \in 1 .. n
    BY <2>1 DEF Tracked, AllFit
  <2>2. CASE p \in n + 1 .. n + a
    BY <2>2
  <2>3. CASE p \in first + 1 .. first + len
    <3>1. p - first \in 1 .. len /\ n + a + (p - first) = p
      BY <2>3
    <3>2. SentAs(t[n + a + (p - first)], m + 1, p - first)
      BY <3>1
    <3> QED
      BY <3>1, <3>2 DEF SentAs
  <2> QED
    BY <2>1, <2>2, <2>3
<1> HIDE DEF first
<1> QED
  BY <1>3, <1>4, <1>5, <1>6, <1>7 DEF Tracked

----------------------------------------------------------------------------

\* What the thread holds and what is on its way are sequences of characters.
LEMMA FlowTypes ==
    ASSUME LinkTypeOK
    PROVE  /\ toHost \in Seq(Chars) /\ Len(toHost) \in Nat
           /\ serial \in Seq(Chars) /\ Len(serial) \in Nat
           /\ Held \in Nat /\ FlowLength \in Nat
           /\ MessageLength \in Nat \ {0} /\ received \in Nat
           /\ sent \in Nat
BY Layout, LenProperties, BoardAssumption DEF LinkTypeOK, Held, FlowLength

\* What the board writes comes behind all that was sent before.
LEMMA FlowWritten ==
    ASSUME LinkTypeOK, UNCHANGED <<reader, received, buff, serial>>,
           NEW text \in Seq(Chars), toHost' = toHost \o text
    PROVE  /\ FlowLength' = FlowLength + Len(text)
           /\ \A p \in 1 .. FlowLength : Flow'[p] = Flow[p]
           /\ \A a \in 1 .. Len(text) : Flow'[FlowLength + a] = text[a]
<1>1. /\ Len(toHost) \in Nat /\ Len(text) \in Nat /\ Held \in Nat
      /\ toHost \in Seq(Chars) /\ MessageLength \in Nat
  BY FlowTypes, LenProperties
<1>2. /\ Len(toHost') = Len(toHost) + Len(text)
      /\ \A i \in 1 .. Len(toHost) + Len(text) :
           toHost'[i] = IF i <= Len(toHost) THEN toHost[i] ELSE text[i - Len(toHost)]
  BY <1>1, ConcatProperties
<1>3. Held' = Held
  BY DEF Held
<1>4. FlowLength' = FlowLength + Len(text) /\ FlowLength = Held + Len(toHost)
  BY <1>1, <1>2, <1>3 DEF FlowLength
<1>5. ASSUME NEW p \in 1 .. FlowLength PROVE Flow'[p] = Flow[p]
  <2>1. p \in 1 .. FlowLength'
    BY <1>1, <1>4
  <2>2. CASE p > Held
    <3>1. Flow[p] = toHost[p - Held] /\ Flow'[p] = toHost'[p - Held]
      BY <1>3, <2>1, <2>2 DEF Flow
    <3>2. p - Held \in 1 .. Len(toHost)
      BY <1>1, <1>4, <2>2
    <3> QED
      BY <1>1, <1>2, <3>1, <3>2
  <2>3. CASE ~(p > Held)
    BY <1>3, <2>1, <2>3 DEF Flow
  <2> QED
    BY <2>2, <2>3
<1>6. ASSUME NEW a \in 1 .. Len(text) PROVE Flow'[FlowLength + a] = text[a]
  <2> DEFINE p == FlowLength + a
  <2>1. p \in 1 .. FlowLength' /\ p > Held /\ p - Held = Len(toHost) + a
    BY <1>1, <1>4
  <2>2. Flow'[p] = toHost'[Len(toHost) + a]
    BY <1>3, <2>1 DEF Flow
  <2>3. Len(toHost) + a \in 1 .. Len(toHost) + Len(text)
        /\ ~(Len(toHost) + a <= Len(toHost)) /\ (Len(toHost) + a) - Len(toHost) = a
    BY <1>1
  <2> QED
    BY <1>2, <2>2, <2>3
<1> QED
  BY <1>4, <1>5, <1>6

\* Every other step leaves a stretch of it.
Shortens ==
    \E d \in Nat :
        /\ d + FlowLength' <= FlowLength
        /\ \A p \in 1 .. FlowLength' : Flow'[p] = Flow[p + d]

\* Neither the line nor what the thread holds of it changes.
LEMMA FlowSame ==
    ASSUME LinkTypeOK, UNCHANGED <<toHost, buff, serial>>, Held' = Held
    PROVE  Shortens
<1>1. FlowLength' = FlowLength /\ FlowLength \in Nat
  BY FlowTypes DEF FlowLength
<1>2. \A p \in 1 .. FlowLength' : Flow'[p] = Flow[p + 0]
  BY <1>1 DEF Flow
<1> QED
  BY <1>1, <1>2 DEF Shortens

\* The thread is done with what it held.
LEMMA FlowLetGo ==
    ASSUME LinkTypeOK, UNCHANGED toHost, Held' = 0
    PROVE  Shortens
<1>1. FlowLength' = Len(toHost) /\ FlowLength = Held + Len(toHost)
      /\ Held \in Nat /\ Len(toHost) \in Nat
  BY FlowTypes DEF FlowLength
<1>2. ASSUME NEW p \in 1 .. FlowLength' PROVE Flow'[p] = Flow[p + Held]
  <2>1. Flow'[p] = toHost[p - 0]
    BY <1>1 DEF Flow
  <2>2. p + Held \in 1 .. FlowLength /\ p + Held > Held /\ (p + Held) - Held = p - 0
    BY <1>1
  <2>3. Flow[p + Held] = toHost[(p + Held) - Held]
    BY <2>2 DEF Flow
  <2> QED
    BY <2>1, <2>2, <2>3
<1> QED
  BY <1>1, <1>2 DEF Shortens

\* The thread holds nothing and takes characters it does not keep.
LEMMA FlowTaken ==
    ASSUME LinkTypeOK, Held = 0, Held' = 0, NEW n \in 0 .. Len(toHost), Take(n)
    PROVE  Shortens
<1>1. /\ Len(toHost) \in Nat /\ Len(toHost') = Len(toHost) - n
      /\ \A i \in 1 .. Len(toHost) - n : toHost'[i] = toHost[i + n]
  BY Shortened
<1>2. FlowLength = Len(toHost) /\ FlowLength' = Len(toHost) - n
  BY <1>1 DEF FlowLength
<1>3. ASSUME NEW p \in 1 .. FlowLength' PROVE Flow'[p] = Flow[p + n]
  <2>1. Flow'[p] = toHost'[p - 0]
    BY <1>2 DEF Flow
  <2>2. p + n \in 1 .. FlowLength /\ p + n > 0 /\ (p + n) - 0 = p + n
        /\ p - 0 = p /\ p \in 1 .. Len(toHost) - n
    BY <1>1, <1>2
  <2>3. Flow[p + n] = toHost[(p + n) - 0]
    BY <2>2 DEF Flow
  <2> QED
    BY <1>1, <2>1, <2>2, <2>3
<1>4. n \in Nat /\ n + FlowLength' <= FlowLength
  BY <1>1, <1>2
<1> QED
  BY <1>3, <1>4 DEF Shortens

\* A character goes from the line to the end of what the thread holds.
LEMMA FlowMoved ==
    ASSUME LinkTypeOK, toHost # <<>>, Take(1), Held' = Held + 1,
           \A p \in 1 .. Held :
               (IF p <= MessageLength THEN buff[p] ELSE serial[p - MessageLength])'
                 = IF p <= MessageLength THEN buff[p] ELSE serial[p - MessageLength],
           (IF Held + 1 <= MessageLength THEN buff'[Held + 1]
            ELSE serial'[Held + 1 - MessageLength]) = Head(toHost)
    PROVE  Shortens
<1>1. /\ Len(toHost) \in Nat /\ 1 \in 0 .. Len(toHost) /\ Head(toHost) = toHost[1]
      /\ Held \in Nat /\ MessageLength \in Nat /\ MessageLength' = MessageLength
  BY FlowTypes, EmptySeq, HeadTailProperties DEF MessageLength
<1>2. /\ Len(toHost') = Len(toHost) - 1
      /\ \A i \in 1 .. Len(toHost) - 1 : toHost'[i] = toHost[i + 1]
  BY <1>1, Shortened
<1>3. FlowLength = Held + Len(toHost) /\ FlowLength' = FlowLength
  BY <1>1, <1>2 DEF FlowLength
<1>4. ASSUME NEW p \in 1 .. FlowLength' PROVE Flow'[p] = Flow[p + 0]
  <2>0. p \in 1 .. FlowLength /\ p + 0 = p
    BY <1>3
  <2>1. Flow'[p] = IF p > Held + 1 THEN toHost'[p - (Held + 1)]
                   ELSE IF p <= MessageLength THEN buff'[p]
                   ELSE serial'[p - MessageLength]
    BY DEF Flow
  <2>2. Flow[p] = IF p > Held THEN toHost[p - Held]
                  ELSE IF p <= MessageLength THEN buff[p]
                  ELSE serial[p - MessageLength]
    BY <2>0 DEF Flow
  <2>3. CASE p > Held + 1
    <3>1. p - (Held + 1) \in 1 .. Len(toHost) - 1 /\ (p - (Held + 1)) + 1 = p - Held
          /\ p > Held
      BY <1>1, <1>3, <2>0, <2>3
    <3> QED
      BY <1>2, <2>0, <2>1, <2>2, <2>3, <3>1
  <2>4. CASE p = Held + 1
    <3>1. ~(p > Held + 1) /\ p > Held /\ p - Held = 1
      BY <1>1, <2>4
    <3> QED
      BY <1>1, <2>0, <2>1, <2>2, <2>4, <3>1
  <2>5. CASE p <= Held
    <3>1. ~(p > Held + 1) /\ ~(p > Held) /\ p \in 1 .. Held
      BY <1>1, <2>0, <2>5
    <3> QED
      BY <1>1, <2>0, <2>1, <2>2, <3>1
  <2> QED
    BY <1>1, <2>0, <2>3, <2>4, <2>5
<1>5. 0 \in Nat /\ 0 + FlowLength' <= FlowLength
  BY <1>1, <1>3
<1> QED
  BY <1>4, <1>5 DEF Shortens

\* wait_serial_number starts with nothing and leaves nothing.
SerialInTurn == reader # "serial" => serial = <<>>

\* Whatever the host does, it takes from the front or lets go of what it held.
LEMMA HostShortens ==
    ASSUME LineInv, SerialInTurn, HostNext
    PROVE  Shortens /\ UNCHANGED <<sent, connection_done, somthing_to_send, buffer, uid>>
<1>0. LinkTypeOK
  BY DEF LineInv
<1>1. CASE SendHey
  <2>1. UNCHANGED <<toHost, buff, serial>> /\ Held' = Held
    BY <1>1 DEF SendHey, publisherVars, Held
  <2> QED
    BY <1>0, <1>1, <2>1, FlowSame DEF SendHey, LineOnly
<1>2. CASE PollAnnouncement \/ PollOther
  <2>1. PICK n \in Found : Poll(n) /\ (reader' = "receive" => received' = 0)
                           /\ reader' \in {"receive", "link"}
    <3>1. CASE PollAnnouncement
      BY <3>1 DEF PollAnnouncement, RecognizeAnnouncement, Move
    <3>2. CASE PollOther
      BY <3>2 DEF PollOther, Poll, publisherVars
    <3> QED
      BY <1>2, <3>1, <3>2
  <2>2. n \in 0 .. Len(toHost)
    BY <1>0, FlowTypes DEF Found
  <2>3. Held = 0 /\ Held' = 0 /\ Take(n)
    BY <2>1 DEF Held, Poll
  <2> QED
    BY <1>0, <2>1, <2>2, <2>3, FlowTaken DEF Poll, LineOnly
<1>3. CASE ReceiveChar
  <2>1. /\ reader = "receive" /\ reader' = "receive" /\ toHost # <<>> /\ Take(1)
        /\ received \in 0 .. MessageLength /\ received < MessageLength
        /\ buff' = [buff EXCEPT ![received + 1] = Head(toHost)]
        /\ received' = received + 1 /\ MessageLength \in Nat
        /\ buff \in [1 .. MessageLength -> Chars]
    BY <1>0, <1>3, Layout DEF ReceiveChar, LinkTypeOK, publisherVars
  <2>2. Held = received /\ Held' = received + 1
    BY <2>1 DEF Held
  <2>3. received + 1 \in 1 .. MessageLength /\ buff'[received + 1] = Head(toHost)
    BY <2>1
  <2>4. \A p \in 1 .. received : p <= MessageLength /\ buff'[p] = buff[p]
    BY <2>1
  <2>5. Shortens
    BY <1>0, <2>1, <2>2, <2>3, <2>4, FlowMoved
  <2> QED
    BY <1>3, <2>5 DEF ReceiveChar, LineOnly
<1>4. CASE WaitMessageValid
  <2>1. /\ reader = "receive" /\ reader' = "serial"
        /\ UNCHANGED <<toHost, buff, serial, received>>
        /\ UNCHANGED <<sent, connection_done, somthing_to_send, buffer, uid>>
    BY <1>4 DEF WaitMessageValid, MessageValid, Move, boardVars, linkVars
  <2>2. CASE received = MessageLength
    <3>1. Len(serial) = 0
      BY <2>1, EmptySeq DEF SerialInTurn
    <3>2. Held' = Held
      <4>1. Held = MessageLength
        BY <2>1, <2>2 DEF Held
      <4>2. Held' = MessageLength' + Len(serial')
        BY <2>1, <2>2 DEF Held, MessageLength
      <4> QED
        BY <2>1, <3>1, <4>1, <4>2, Layout DEF MessageLength
    <3> QED
      BY <1>0, <2>1, <3>2, FlowSame
  <2>3. CASE received # MessageLength
    <3>1. Held' = 0
      BY <2>1, <2>3 DEF Held, MessageLength
    <3> QED
      BY <1>0, <2>1, <3>1, FlowLetGo
  <2> QED
    BY <2>2, <2>3
<1>5. CASE WaitMessageInvalid \/ SerialComplete \/ ThreadStep
  <2>1. reader' # "receive" /\ reader' # "serial"
    BY <1>5 DEF WaitMessageInvalid, MessageInvalid, SerialComplete, SerialRead, ThreadStep,
            PublisherAlone, ClearUsername, ClearPassword, SerialAllowed, SerialUnknown,
            DatabaseError, Publish, Decrypt, DecryptSome, DecryptRest, Move
  <2>2. UNCHANGED boardVars
    BY <1>5 DEF WaitMessageInvalid, SerialComplete, ThreadStep
  <2>3. Held' = 0 /\ UNCHANGED toHost
    BY <2>1, <2>2 DEF Held, boardVars
  <2> QED
    BY <1>0, <2>2, <2>3, FlowLetGo DEF boardVars
<1>6. CASE ReceiveSerial
  <2>1. /\ reader = "serial" /\ reader' = "serial" /\ toHost # <<>> /\ Take(1)
        /\ UNCHANGED <<buff, received>>
        /\ serial' = Append(serial, Head(toHost))
        /\ UNCHANGED <<sent, connection_done, somthing_to_send, buffer, uid>>
    BY <1>6 DEF ReceiveSerial, publisherVars, LineOnly
  <2>2. /\ serial \in Seq(Chars) /\ Len(serial) \in Nat /\ toHost \in Seq(Chars)
        /\ Len(toHost) \in Nat /\ Head(toHost) \in Chars /\ 1 \in 0 .. Len(toHost)
        /\ MessageLength \in Nat
    BY <1>0, <2>1, FlowTypes, EmptySeq, HeadTailProperties
  <2>3. /\ Len(serial') = Len(serial) + 1
        /\ \A i \in 1 .. Len(serial) : serial'[i] = serial[i]
        /\ serial'[Len(serial) + 1] = Head(toHost)
    BY <2>1, <2>2, AppendProperties
  <2>4. CASE received = MessageLength
    <3>1. Held = MessageLength + Len(serial) /\ Held' = Held + 1
      BY <2>1, <2>2, <2>3, <2>4 DEF Held, MessageLength
    <3>2. \A p \in 1 .. Held : ~(p <= MessageLength) =>
            serial'[p - MessageLength] = serial[p - MessageLength]
      <4> SUFFICES ASSUME NEW p \in 1 .. Held, ~(p <= MessageLength)
                   PROVE  p - MessageLength \in 1 .. Len(serial)
        BY <2>3
      <4> QED
        BY <2>2, <3>1
    <3>3. \A p \in 1 .. Held :
           (IF p <= MessageLength THEN buff[p] ELSE serial[p - MessageLength])'
             = IF p <= MessageLength THEN buff[p] ELSE serial[p - MessageLength]
      <4>1. MessageLength' = MessageLength
        BY DEF MessageLength
      <4> QED
        BY <2>1, <3>2, <4>1
    <3>4. ~(Held + 1 <= MessageLength) /\ Held + 1 - MessageLength = Len(serial) + 1
      BY <2>2, <3>1
    <3>5. Shortens
      BY <1>0, <2>1, <2>3, <3>1, <3>3, <3>4, FlowMoved
    <3> QED
      BY <2>1, <3>5
  <2>5. CASE received # MessageLength
    <3>1. Held = 0 /\ Held' = 0
      BY <2>1, <2>5 DEF Held, MessageLength
    <3> QED
      BY <1>0, <2>1, <2>2, <3>1, FlowTaken
  <2> QED
    BY <2>4, <2>5
<1> QED
  BY <1>1, <1>2, <1>3, <1>4, <1>5, <1>6 DEF HostNext

----------------------------------------------------------------------------

\* With reads that succeed, what waits to be sent is of the card selected last.
ReadyIsOfOneCard ==
    (ReadsSucceed /\ somthing_to_send) => \A i \in DataPlaces : buffer[i] = uid

\* What Announce writes, piece by piece.
LEMMA AnnounceText ==
    ASSUME LinkTypeOK, Announce
    PROVE  /\ sent + 1 \in 0 .. MaxSent /\ Len(Digits[uid]) \in Nat
           /\ \E text \in Seq(Chars) :
                /\ toHost' = toHost \o text
                /\ Len(text) = 2 + MessageLength + Len(Digits[uid])
                /\ \A i \in 1 .. 2 : text[i] = SS[i]
                /\ \A i \in 1 .. MessageLength : text[2 + i] = Message(sent + 1)[i]
                /\ \A i \in 1 .. Len(Digits[uid]) :
                     text[2 + (MessageLength + i)] = SerialNumber(sent + 1)[i]
<1> DEFINE k == sent + 1
           message == SS \o Message(k)
           text == message \o SerialNumber(k)
           digits == Len(Digits[uid])
<1>1. k \in 0 .. MaxSent /\ MessageLength \in Nat
  BY BoardAssumption, Layout DEF LinkTypeOK, Announce
<1>2. /\ message \in Seq(Chars) /\ Len(message) = 2 + MessageLength
      /\ \A i \in 1 .. 2 + MessageLength :
           message[i] = IF i <= 2 THEN SS[i] ELSE Message(k)[i - 2]
  BY <1>1, Headed
<1>3. SerialNumber(k) \in Seq(Chars) /\ Len(SerialNumber(k)) = digits
      /\ digits \in Nat
  BY <1>1, SerialNumbers
<1>4. /\ text \in Seq(Chars)
      /\ Len(text) = 2 + MessageLength + digits
      /\ \A i \in 1 .. 2 + MessageLength + digits :
           text[i] = IF i <= 2 + MessageLength THEN message[i]
                     ELSE SerialNumber(k)[i - (2 + MessageLength)]
  <2> HIDE DEF message, digits
  <2> QED
    BY <1>2, <1>3, Joined
<1>5. toHost' = toHost \o text
  <2>1. toHost' = ((toHost \o SS) \o Message(k)) \o SerialNumber(k)
    BY DEF Announce
  <2>2. toHost \in Seq(Chars) /\ SS \in Seq(Chars) /\ Message(k) \in Seq(Chars)
        /\ SerialNumber(k) \in Seq(Chars)
    BY <1>1, Texts, Messages, SerialNumbers DEF LinkTypeOK
  <2>3. (toHost \o SS) \o Message(k) = toHost \o message
    <3> DEFINE t == SS
               u == Message(k)
    <3>1. toHost \in Seq(Chars) /\ t \in Seq(Chars) /\ u \in Seq(Chars)
      BY <2>2
    <3> HIDE DEF t, u
    <3>2. (toHost \o t) \o u = toHost \o (t \o u)
      BY <3>1, ConcatAssociative
    <3> QED
      BY <3>2 DEF t, u
  <2>4. message \in Seq(Chars) /\ text = message \o SerialNumber(k)
    BY <1>2
  <2> HIDE DEF message, text
  <2>5. (toHost \o message) \o SerialNumber(k) = toHost \o (message \o SerialNumber(k))
    <3> DEFINE v == SerialNumber(k)
    <3>1. toHost \in Seq(Chars) /\ message \in Seq(Chars) /\ v \in Seq(Chars)
      BY <2>2, <2>4
    <3> HIDE DEF v
    <3>2. (toHost \o message) \o v = toHost \o (message \o v)
      BY <3>1, ConcatAssociative
    <3> QED
      BY <3>2 DEF v
  <2> QED
    BY <2>1, <2>3, <2>4, <2>5, Zenon
<1> HIDE DEF text, message, k, digits
<1>6. \A i \in 1 .. 2 : text[i] = SS[i]
  BY <1>1, <1>2, <1>3, <1>4
<1>7. ASSUME NEW i \in 1 .. MessageLength PROVE text[2 + i] = Message(k)[i]
  <2>1. 2 + i \in 1 .. 2 + MessageLength + digits /\ 2 + i <= 2 + MessageLength
        /\ 2 + i \in 1 .. 2 + MessageLength /\ ~(2 + i <= 2) /\ (2 + i) - 2 = i
    BY <1>1, <1>3
  <2>2. text[2 + i] = message[2 + i]
    BY <1>4, <2>1
  <2>3. message[2 + i] = Message(k)[(2 + i) - 2]
    BY <1>2, <2>1
  <2> QED
    BY <2>1, <2>2, <2>3
<1>8. ASSUME NEW i \in 1 .. digits
      PROVE  text[2 + (MessageLength + i)] = SerialNumber(k)[i]
  <2> DEFINE a == 2 + (MessageLength + i)
  <2>1. a \in 1 .. 2 + MessageLength + digits /\ ~(a <= 2 + MessageLength)
        /\ a - (2 + MessageLength) = i
    BY <1>1, <1>3
  <2> HIDE DEF a
  <2>2. text[a] = SerialNumber(k)[a - (2 + MessageLength)]
    BY <1>4, <2>1
  <2> QED
    BY <2>1, <2>2 DEF a
<1> QED
  BY <1>1, <1>3, <1>4, <1>5, <1>6, <1>7, <1>8 DEF k, digits

\* The letters of KA, SS and the text of error_dump.
LEMMA LettersFit ==
    \A l \in {LetterK, LetterA, LetterS, OtherByte} :
        ~Numbered(Letter(l)) /\ Fits(Letter(l))
BY BytesAre DEF Letter, Char, Numbered, InMessage, Fits

\* Each character of it is sent as what it is.
LEMMA SentChars ==
    ASSUME LinkTypeOK, NEW k \in 0 .. MaxSent, ReadyIsOfOneCard, somthing_to_send
    PROVE  /\ \A i \in 1 .. MessageLength :
                /\ SentAs(Message(k)[i], k, i)
                /\ (ReadsSucceed /\ CardBytes(Message(k)[i]))
                     => Message(k)[i].card = uid
           /\ \A i \in 1 .. Len(Digits[uid]) :
                /\ SentAs(SerialNumber(k)[i], k, MessageLength + i)
                /\ SerialNumber(k)[i].card = uid
<1>1. ASSUME NEW i \in 1 .. MessageLength
      PROVE  /\ SentAs(Message(k)[i], k, i)
             /\ (ReadsSucceed /\ CardBytes(Message(k)[i])) => Message(k)[i].card = uid
  <2>1. IsOf(Message(k)[i], k, i) /\ (Message(k)[i].kind = "ack" => IsAck(i))
    BY Messages
  <2>2. Fits(Message(k)[i])
    <3>1. CASE IsAck(i)
      BY <3>1 DEF Message, Char, Fits
    <3>2. CASE ~IsAck(i)
      <4>1. Message(k)[i] = Char("data", DataByte(i), i, k, buffer[i]) /\ i \in DataPlaces
        BY <3>2 DEF Message, DataPlaces
      <4>2. DataByte(i) \in BytesOfCards
        <5>1. CASE buffer[i] = Nobody
          BY <5>1 DEF DataByte, BytesOfCards
        <5>2. CASE buffer[i] # Nobody
          <6>1. <<buffer[i], i>> \in BoardCards \X DataPlaces
            BY <4>1, <5>2 DEF LinkTypeOK
          <6> QED
            BY <5>2, <6>1 DEF DataByte, BytesOfCards
        <5> QED
          BY <5>1, <5>2
      <4> QED
        BY <4>1, <4>2 DEF Char, Fits
    <3> QED
      BY <3>1, <3>2
  <2>3. SentAs(Message(k)[i], k, i)
    <3>1. i \in Nat \ {0} /\ i <= MessageLength
      BY Layout
    <3> QED
      BY <2>1, <2>2, <3>1 DEF SentAs, IsOf, Numbered, Spot, InMessage
  <2>4. ASSUME ReadsSucceed, CardBytes(Message(k)[i]) PROVE Message(k)[i].card = uid
    <3>1. CASE IsAck(i)
      <4>1. Message(k)[i].kind = "ack"
        BY <3>1 DEF Message, Char
      <4> QED
        BY <2>4, <4>1 DEF CardBytes
    <3>2. CASE ~IsAck(i)
      <4>1. Message(k)[i].card = buffer[i] /\ i \in DataPlaces
        BY <3>2 DEF Message, Char, DataPlaces
      <4> QED
        BY <2>4, <4>1 DEF ReadyIsOfOneCard
    <3> QED
      BY <3>1, <3>2
  <2> QED
    BY <2>3, <2>4
<1>2. ASSUME NEW i \in 1 .. Len(Digits[uid])
      PROVE  /\ SentAs(SerialNumber(k)[i], k, MessageLength + i)
             /\ SerialNumber(k)[i].card = uid
  <2>1. SerialNumber(k)[i] = Char("serial", Digits[uid][i], i, k, uid)
    BY DEF SerialNumber
  <2>2. i \in Nat \ {0} /\ i <= Len(Digits[uid]) /\ uid \in BoardCards
    BY SerialNumbers DEF LinkTypeOK
  <2> QED
    BY <2>1, <2>2 DEF SentAs, Numbered, Spot, InMessage, Char, Fits
<1> QED
  BY <1>1, <1>2

\* What is there after a step of the messages is new or was there before.
NothingComesBack ==
    \A p \in 1 .. FlowLength' :
        InMessage(Flow'[p]) =>
            Flow'[p].message = sent + 1 \/ \E q \in 1 .. FlowLength : Flow'[p] = Flow[q]

\* The sizes of the message do not change with the state.
LEMMA TrackedNext ==
    ASSUME NEW s, NEW n, NEW m, Flow' = s, FlowLength' = n, sent' = m, Tracked(s, n, m)
    PROVE  Tracked(Flow, FlowLength, sent)'
BY DEF Tracked, Sourced, Led, InOrder, OneCard, Spot, IsAck, MessageLength,
       AllFit, Fits, FieldAt, BoardFields, BytesOfCards, DataPlaces, OtherByte

\* A message announced is behind all others on the line.
LEMMA AnnounceTracked ==
    ASSUME LineInv, Tracked(Flow, FlowLength, sent), ReadyIsOfOneCard, Announce,
           UNCHANGED <<publisherVars, linkVars>>
    PROVE  Tracked(Flow, FlowLength, sent)' /\ NothingComesBack
<1> DEFINE k == sent + 1
           digits == Len(Digits[uid])
           len == MessageLength + digits
<1>1. LinkTypeOK /\ somthing_to_send /\ k \in 0 .. MaxSent /\ digits \in Nat
      /\ sent \in Nat /\ uid \in BoardCards /\ sent' = k
      /\ MessageLength \in Nat /\ FlowLength \in Nat
  BY AnnounceText, FlowTypes DEF LineInv, Announce, LinkTypeOK
<1>2. PICK text \in Seq(Chars) :
        /\ toHost' = toHost \o text
        /\ Len(text) = 2 + MessageLength + digits
        /\ \A i \in 1 .. 2 : text[i] = SS[i]
        /\ \A i \in 1 .. MessageLength : text[2 + i] = Message(k)[i]
        /\ \A i \in 1 .. digits :
             text[2 + (MessageLength + i)] = SerialNumber(k)[i]
  BY <1>1, AnnounceText
<1>d. \A j \in 1 .. digits :
        /\ SentAs(SerialNumber(k)[j], k, MessageLength + j)
        /\ SerialNumber(k)[j].card = uid
  BY <1>1, SentChars
<1> HIDE DEF digits
<1>3. UNCHANGED <<reader, received, buff, serial>>
  BY DEF publisherVars, linkVars
<1>4. /\ FlowLength' = FlowLength + Len(text)
      /\ \A p \in 1 .. FlowLength : Flow'[p] = Flow[p]
      /\ \A a \in 1 .. Len(text) : Flow'[FlowLength + a] = text[a]
  BY <1>1, <1>2, <1>3, FlowWritten
<1>5. \A p \in 1 .. 2 : ~Numbered(SS[p]) /\ Fits(SS[p])
  BY LettersFit DEF SS
<1>6. \A p \in FlowLength + 1 .. FlowLength + 2 : ~Numbered(Flow'[p]) /\ Fits(Flow'[p])
  <2> SUFFICES ASSUME NEW p \in FlowLength + 1 .. FlowLength + 2
               PROVE  ~Numbered(Flow'[p]) /\ Fits(Flow'[p])
    OBVIOUS
  <2>1. p - FlowLength \in 1 .. 2 /\ FlowLength + (p - FlowLength) = p
    BY <1>1
  <2>2. 2 <= Len(text)
    BY <1>1, <1>2
  <2>3. p - FlowLength \in 1 .. Len(text)
    BY <2>1, <2>2
  <2> QED
    BY <1>2, <1>4, <1>5, <2>1, <2>3
<1>7. ASSUME NEW i \in 1 .. len
      PROVE  /\ SentAs(Flow'[FlowLength + 2 + i], k, i)
             /\ (ReadsSucceed /\ CardBytes(Flow'[FlowLength + 2 + i]))
                  => Flow'[FlowLength + 2 + i].card = uid
  <2>1. 2 + i \in 1 .. Len(text) /\ FlowLength + (2 + i) = FlowLength + 2 + i
    BY <1>1, <1>2, SMTT(20)
  <2>2. Flow'[FlowLength + 2 + i] = text[2 + i]
    BY <1>4, <2>1
  <2>3. CASE i <= MessageLength
    <3>1. i \in 1 .. MessageLength
      BY <1>1, <2>3
    <3>2. text[2 + i] = Message(k)[i]
      BY <1>2, <3>1
    <3> QED
      BY <1>1, <2>2, <3>1, <3>2, SentChars
  <2>4. CASE ~(i <= MessageLength)
    <3>1. PICK j \in 1 .. digits : i = MessageLength + j
      <4>1. i - MessageLength \in 1 .. digits
            /\ i = MessageLength + (i - MessageLength)
        BY <1>1, <2>4
      <4> QED
        BY <4>1
    <3>2. text[2 + i] = SerialNumber(k)[j]
      BY <1>2, <3>1
    <3> QED
      BY <1>d, <2>2, <3>1, <3>2
  <2> QED
    BY <2>3, <2>4
<1>8. FlowLength' = FlowLength + 2 + len /\ len \in Nat
  <2>1. FlowLength' = FlowLength + (2 + MessageLength + digits)
    BY <1>2, <1>4
  <2>2. FlowLength \in Nat /\ MessageLength \in Nat /\ digits \in Nat
    BY <1>1
  <2> QED
    BY <2>1, <2>2
<1> HIDE DEF len, k
<1>9. Tracked(Flow', FlowLength + 2 + len, k)
  <2>1. ReadsSucceed =>
          /\ uid \in BoardCards
          /\ \A i \in 1 .. len :
               CardBytes(Flow'[FlowLength + 2 + i]) => Flow'[FlowLength + 2 + i].card = uid
    BY <1>1, <1>7
  <2>2. \A i \in 1 .. len : SentAs(Flow'[FlowLength + 2 + i], sent + 1, i)
    BY <1>7 DEF k
  <2>3. \A p \in 1 .. FlowLength : Flow'[p] = Flow[p]
    BY <1>4
  <2>4. Tracked(Flow', FlowLength + 2 + len, sent + 1)
    BY <1>1, <1>6, <1>8, <2>1, <2>2, <2>3, SendingTracked
  <2> QED
    BY <2>4 DEF k
<1>10. Tracked(Flow, FlowLength, sent)'
  BY <1>1, <1>8, <1>9, TrackedNext
<1>11. ASSUME NEW p \in 1 .. FlowLength', InMessage(Flow'[p])
       PROVE  Flow'[p].message = sent + 1 \/ \E q \in 1 .. FlowLength : Flow'[p] = Flow[q]
  <2>1. CASE p \in 1 .. FlowLength
    BY <1>4, <2>1
  <2>2. CASE p \in FlowLength + 1 .. FlowLength + 2
    BY <1>6, <1>11, <2>2 DEF Numbered
  <2>3. CASE p \notin 1 .. FlowLength + 2
    <3>1. p - (FlowLength + 2) \in 1 .. len
          /\ FlowLength + 2 + (p - (FlowLength + 2)) = p
      BY <1>1, <1>8, <2>3
    <3>2. SentAs(Flow'[p], k, p - (FlowLength + 2))
      BY <1>7, <3>1
    <3> QED
      BY <3>2 DEF SentAs, k
  <2>4. p \in 1 .. FlowLength \/ p \in FlowLength + 1 .. FlowLength + 2
        \/ p \notin 1 .. FlowLength + 2
    BY <1>1
  <2> QED
    BY <2>1, <2>2, <2>3, <2>4
<1> QED
  BY <1>10, <1>11 DEF NothingComesBack

\* So is text.
LEMMA WrittenTracked ==
    ASSUME LinkTypeOK, Tracked(Flow, FlowLength, sent),
           UNCHANGED <<reader, received, buff, serial, sent>>,
           NEW text \in Seq(Chars), toHost' = toHost \o text,
           \A a \in 1 .. Len(text) : ~Numbered(text[a]) /\ Fits(text[a])
    PROVE  Tracked(Flow, FlowLength, sent)' /\ NothingComesBack
<1>1. /\ FlowLength' = FlowLength + Len(text)
      /\ \A p \in 1 .. FlowLength : Flow'[p] = Flow[p]
      /\ \A a \in 1 .. Len(text) : Flow'[FlowLength + a] = text[a]
  BY FlowWritten
<1>2. FlowLength \in Nat /\ Len(text) \in Nat
  BY FlowTypes, LenProperties
<1>3. ASSUME NEW p \in FlowLength + 1 .. FlowLength + Len(text)
      PROVE  ~Numbered(Flow'[p]) /\ Fits(Flow'[p])
  <2>1. p - FlowLength \in 1 .. Len(text) /\ FlowLength + (p - FlowLength) = p
    BY <1>2
  <2> QED
    BY <1>1, <2>1
<1>4. Tracked(Flow', FlowLength + Len(text), sent)
  BY <1>1, <1>2, <1>3, TextTracked
<1>5. NothingComesBack
  <2> SUFFICES ASSUME NEW p \in 1 .. FlowLength', InMessage(Flow'[p])
               PROVE  \E q \in 1 .. FlowLength : Flow'[p] = Flow[q]
    BY DEF NothingComesBack
  <2>1. p \in 1 .. FlowLength \/ p \in FlowLength + 1 .. FlowLength + Len(text)
    BY <1>1, <1>2
  <2>2. p \in 1 .. FlowLength
    BY <1>3, <2>1 DEF Numbered
  <2> QED
    BY <1>1, <2>2
<1> QED
  BY <1>1, <1>4, <1>5, TrackedNext

\* And a stretch of what was there.
LEMMA ShortTracked ==
    ASSUME LinkTypeOK, LinkTypeOK', Tracked(Flow, FlowLength, sent), Shortens, sent' = sent
    PROVE  Tracked(Flow, FlowLength, sent)' /\ NothingComesBack
<1> DEFINE n == FlowLength
           k == FlowLength'
<1>1. n \in Nat /\ k \in Nat
  <2>1. Len(toHost') \in Nat /\ Len(serial') \in Nat /\ received' \in Nat
    BY Layout, LenProperties DEF LinkTypeOK, MessageLength
  <2>2. Held' \in Nat
    BY <2>1, Layout DEF Held, MessageLength
  <2> QED
    BY <2>1, <2>2, FlowTypes DEF FlowLength
<1>2. PICK d \in Nat :
        /\ d + k <= n
        /\ \A p \in 1 .. k : Flow'[p] = Flow[p + d]
  BY DEF Shortens
<1>3. d + k <= n
  BY <1>2
<1>4. NothingComesBack
  <2> SUFFICES ASSUME NEW p \in 1 .. k
               PROVE  \E q \in 1 .. n : Flow'[p] = Flow[q]
    BY DEF NothingComesBack
  <2> HIDE DEF n, k
  <2>1. p + d \in 1 .. n
    BY <1>1, <1>3
  <2>2. Flow'[p] = Flow[p + d]
    BY <1>2
  <2> QED
    BY <2>1, <2>2
<1>5. Tracked(Flow', k, sent)
  <2> HIDE DEF n, k
  <2>1. Tracked(Flow, n, sent)
    BY DEF n
  <2> QED
    BY <1>1, <1>2, <1>3, <2>1, Stretch
<1> QED
  BY <1>4, <1>5, TrackedNext

\* The board restarts with part of its output unwritten.
LEMMA ResetShortens ==
    ASSUME LinkTypeOK, Reset, UNCHANGED <<publisherVars, linkVars>>
    PROVE  Shortens
<1>1. PICK n \in 0 .. Len(toHost) : toHost' = SubSeq(toHost, 1, n)
  BY DEF Reset
<1>2. /\ toHost \in Seq(Chars) /\ Len(toHost) \in Nat /\ n \in Nat
      /\ Held \in Nat /\ Held' = Held /\ UNCHANGED <<buff, serial>>
  BY FlowTypes DEF Held, publisherVars, linkVars
<1>3. \A i \in 1 .. n : toHost[i] \in Chars
  BY <1>2, ElementOfSeq
<1>4. /\ Len(SubSeq(toHost, 1, n)) = (IF 1 <= n THEN n - 1 + 1 ELSE 0)
      /\ \A i \in 1 .. n - 1 + 1 : SubSeq(toHost, 1, n)[i] = toHost[1 + i - 1]
  BY <1>2, <1>3, SubSeqProperties
<1>5. Len(toHost') = n /\ \A i \in 1 .. n : toHost'[i] = toHost[i]
  BY <1>1, <1>2, <1>4
<1>6. FlowLength' = Held + n /\ FlowLength = Held + Len(toHost)
  BY <1>2, <1>5 DEF FlowLength
<1>7. ASSUME NEW p \in 1 .. FlowLength' PROVE Flow'[p] = Flow[p + 0]
  <2>1. p \in 1 .. FlowLength /\ p + 0 = p
    BY <1>2, <1>6
  <2>2. CASE p > Held
    <3>1. Flow[p] = toHost[p - Held] /\ Flow'[p] = toHost'[p - Held]
      BY <1>2, <2>1, <2>2 DEF Flow
    <3>2. p - Held \in 1 .. n
      BY <1>2, <1>6, <2>2
    <3> QED
      BY <1>5, <2>1, <3>1, <3>2
  <2>3. CASE ~(p > Held)
    BY <1>2, <2>1, <2>3 DEF Flow
  <2> QED
    BY <2>2, <2>3
<1>8. 0 \in Nat /\ 0 + FlowLength' <= FlowLength
  BY <1>2, <1>6
<1> QED
  BY <1>7, <1>8 DEF Shortens

\* Board and host keep the stream tracked.
LEMMA FlowStep ==
    ASSUME LineInv, LinkTypeOK', SerialInTurn, Tracked(Flow, FlowLength, sent),
           ReadyIsOfOneCard, Next
    PROVE  Tracked(Flow, FlowLength, sent)' /\ NothingComesBack
<1>0. LinkTypeOK
  BY DEF LineInv
<1>1. CASE HostNext
  BY <1>0, <1>1, HostShortens, ShortTracked
<1>2. CASE BoardStep
  <2>0. /\ UNCHANGED <<publisherVars, linkVars>>
        /\ UNCHANGED <<reader, received, buff, serial>>
    BY <1>2 DEF BoardStep, publisherVars, linkVars
  <2>1. CASE Announce
    BY <2>0, <2>1, AnnounceTracked
  <2>2. CASE KeepAlive
    <3>1. KA \in Seq(Chars) /\ Len(KA) = 2
      BY <1>0, Texts
    <3>2. \A a \in 1 .. 2 : ~Numbered(KA[a]) /\ Fits(KA[a])
      BY LettersFit DEF KA
    <3>3. toHost' = toHost \o KA /\ sent' = sent
      BY <2>2 DEF KeepAlive
    <3> QED
      BY <1>0, <2>0, <3>1, <3>2, <3>3, WrittenTracked
  <2>3. CASE EmptySerial
    <3>1. UNCHANGED <<toHost, sent>> /\ Held' = Held
      BY <2>0, <2>3 DEF EmptySerial, Held, MessageLength
    <3> QED
      BY <1>0, <2>0, <3>1, FlowSame, ShortTracked
  <2>4. ASSUME NEW c \in BoardCards, ReadCard(c)
        PROVE  Tracked(Flow, FlowLength, sent)' /\ NothingComesBack
    <3>1. PICK last \in BoardFields : \E outcomes \in [1 .. last -> ReadOutcomes] :
            toHost' = toHost \o ErrorText(Cardinality(Failures(outcomes)))
      BY <2>4 DEF ReadCard
    <3>2. PICK outcomes \in [1 .. last -> ReadOutcomes] :
            toHost' = toHost \o ErrorText(Cardinality(Failures(outcomes)))
      BY <3>1
    <3> DEFINE failed == Cardinality(Failures(outcomes))
    <3>3. failed \in Nat
      BY FailuresCount, BoardAssumption DEF BoardFields
    <3>4. toHost' = toHost \o ErrorText(failed)
      BY <3>2
    <3> HIDE DEF failed
    <3>5. ErrorText(failed) \in Seq(Chars)
          /\ Len(ErrorText(failed)) = failed * ErrorLength
      BY <1>0, <3>3, Texts
    <3>6. \A a \in 1 .. failed * ErrorLength : ErrorText(failed)[a] = Letter(OtherByte)
      BY DEF ErrorText
    <3>7. ~Numbered(Letter(OtherByte)) /\ Fits(Letter(OtherByte))
      BY LettersFit
    <3>8. \A a \in 1 .. Len(ErrorText(failed)) :
            ~Numbered(ErrorText(failed)[a]) /\ Fits(ErrorText(failed)[a])
      BY <3>5, <3>6, <3>7
    <3>9. sent' = sent
      BY <2>4 DEF ReadCard
    <3> QED
      BY <1>0, <2>0, <3>4, <3>5, <3>8, <3>9, WrittenTracked
  <2>5. CASE Reset
    <3>1. Shortens /\ sent' = sent
      BY <1>0, <2>0, <2>5, ResetShortens DEF Reset
    <3> QED
      BY <1>0, <3>1, ShortTracked
  <2> QED
    BY <1>2, <2>1, <2>2, <2>3, <2>4, <2>5 DEF BoardStep, BoardNext
<1> QED
  BY <1>1, <1>2 DEF Next

----------------------------------------------------------------------------

\* The announcements with a serial number that may be in the table: accepted, or
\* about to be looked up.
LookedUp == {"clear_username", "clear_password", "check"}

Settled ==
    accepted \cup
    (IF reader \in LookedUp /\ serialnumber \in Allowed THEN {announced} ELSE {})

\* A message has been taken off the line with all that came before it.
Past(k) ==
    /\ k \in 1 .. sent
    /\ \A p \in 1 .. FlowLength : InMessage(Flow[p]) => k < Flow[p].message

SettledArePast ==
    \A i \in Settled : \E k \in 1 .. sent : taken[i].messages = {k} /\ Past(k)

SettledInOrder ==
    \A i, j \in Settled : i < j =>
        \A k \in taken[i].messages, l \in taken[j].messages : k < l

SettledOfOneCard ==
    ReadsSucceed => \A i \in Settled : \E c \in Cards : taken[i].cards = {c}

\* FilledIsOneMessage, with what its characters look like.
HandIsOneMessage ==
    (reader = "serial" /\ received = MessageLength) =>
        \E k \in 1 .. sent : \A i \in 1 .. MessageLength : IsOf(buff[i], k, i)

\* A message that was cut off and found valid by the remains of an older one is
\* followed by error texts at most.
OnlyText(s) == \A i \in 1 .. Len(s) : s[i].kind = "text"

ShortIsIdle ==
    (reader = "serial" /\ received < MessageLength) =>
        heys = 0 /\ OnlyText(serial) /\ OnlyText(toHost)

NotYetAccepted ==
    reader \in {"receive", "serial"} \cup LookedUp => announced \notin accepted

TakenTypeOK ==
    taken \in [Announcements -> [messages : SUBSET Nat, cards : SUBSET Cards]]

AcceptInv ==
    /\ TakenTypeOK
    /\ SerialInTurn
    /\ ReadyIsOfOneCard
    /\ Tracked(Flow, FlowLength, sent)
    /\ HandIsOneMessage
    /\ ShortIsIdle
    /\ NotYetAccepted
    /\ SettledArePast
    /\ SettledInOrder
    /\ SettledOfOneCard

\* At the start nothing is taken and the line is empty.
LEMMA AcceptInitInv == Init => AcceptInv
<1> SUFFICES ASSUME Init PROVE AcceptInv
  OBVIOUS
<1>1. /\ reader = "link" /\ accepted = {} /\ serial = <<>> /\ toHost = <<>>
      /\ somthing_to_send = FALSE
      /\ taken = [i \in Announcements |-> [messages |-> {}, cards |-> {}]]
  BY DEF Init, PublisherInit, BoardInit
<1>2. FlowLength = 0
  <2>1. Held = 0 /\ Len(toHost) = 0
    BY <1>1, EmptySeq DEF Held
  <2> QED
    BY <2>1 DEF FlowLength
<1>3. Tracked(Flow, FlowLength, sent)
  BY <1>2 DEF Tracked, Sourced, Led, InOrder, AllFit, OneCard
<1>4. Settled = {}
  BY <1>1 DEF Settled, LookedUp
<1>5. TakenTypeOK
  BY <1>1 DEF TakenTypeOK
<1>6. SerialInTurn /\ ReadyIsOfOneCard /\ HandIsOneMessage /\ ShortIsIdle /\ NotYetAccepted
  BY <1>1 DEF SerialInTurn, ReadyIsOfOneCard, HandIsOneMessage, ShortIsIdle, NotYetAccepted
<1>7. SettledArePast /\ SettledInOrder /\ SettledOfOneCard
  BY <1>4 DEF SettledArePast, SettledInOrder, SettledOfOneCard
<1> QED
  BY <1>3, <1>5, <1>6, <1>7 DEF AcceptInv

\* Only wait_serial_number writes into serial.
LEMMA SerialInTurnStep ==
    ASSUME SerialInTurn, Next PROVE SerialInTurn'
<1>1. CASE BoardStep
  BY <1>1 DEF BoardStep, publisherVars, linkVars, SerialInTurn
<1>2. CASE ReceiveSerial \/ SerialComplete
  BY <1>2 DEF ReceiveSerial, SerialComplete, SerialInTurn, publisherVars
<1>3. CASE SendHey \/ PollAnnouncement \/ PollOther \/ ReceiveChar
  BY <1>3 DEF SendHey, PollAnnouncement, PollOther, Poll, ReceiveChar, SerialInTurn
<1>4. CASE WaitMessageValid \/ WaitMessageInvalid
  BY <1>4 DEF WaitMessageValid, WaitMessageInvalid, MessageValid, MessageInvalid, Move,
              SerialInTurn, linkVars
<1>5. CASE ThreadStep
  <2>1. reader # "serial" /\ serial' = serial
    BY <1>5 DEF ThreadStep, PublisherAlone, ClearUsername, ClearPassword, SerialAllowed,
            SerialUnknown, DatabaseError, Publish, Decrypt, DecryptSome, DecryptRest, Move,
            linkVars
  <2> QED
    BY <2>1 DEF SerialInTurn
<1> QED
  BY <1>1, <1>2, <1>3, <1>4, <1>5 DEF Next, HostNext

\* A number lies in one stretch of length w, and w divides those at its end.
LEMMA Division ==
    ASSUME NEW w \in Nat \ {0}, NEW i \in Nat \ {0}
    PROVE  LET q == (i - 1) \div w IN
           /\ q \in Nat
           /\ i - q * w \in 1 .. w
           /\ i % w = 0 => i = q * w + w
           /\ i - q * w = w => i % w = 0
<1> DEFINE q == (i - 1) \div w
           r == i - q * w
<1>1. q \in Nat /\ w * q <= i - 1 /\ i - 1 < w * q + w
  OBVIOUS
<1> HIDE DEF q
<1>2. w * q = q * w /\ q * w \in Nat /\ w * (q + 1) = q * w + w
  BY <1>1
<1>3. r \in 1 .. w /\ i = q * w + r
  BY <1>1, <1>2
<1> HIDE DEF r
<1>4. ASSUME r < w PROVE i % w = r
  <2>1. r \in 0 .. w - 1 /\ i = w * q + r
    BY <1>2, <1>3, <1>4
  <2> QED
    BY <1>1, <2>1
<1>5. ASSUME r = w PROVE i % w = 0
  <2>1. i = w * (q + 1) + 0 /\ q + 1 \in Nat
    BY <1>1, <1>2, <1>3, <1>5
  <2>2. (w * (q + 1) + 0) % w = 0
    BY <1>1
  <2> QED
    BY <2>1, <2>2
<1>6. i - q * w = r
  BY <1>1, <1>2, <1>3
<1>7. /\ q \in Nat
      /\ i - q * w \in 1 .. w
      /\ i % w = 0 => i = q * w + w
      /\ i - q * w = w => i % w = 0
  BY <1>1, <1>2, <1>3, <1>4, <1>5, <1>6
<1> QED
  BY <1>7 DEF q

\* The bytes of a field come before its acknowledge byte.
LEMMA PlacesInFields ==
    \A i \in 1 .. MessageLength : ~IsAck(i) => PlaceInField(i) <= BlockLength
<1> SUFFICES ASSUME NEW i \in 1 .. MessageLength, ~IsAck(i)
             PROVE  PlaceInField(i) <= BlockLength
  OBVIOUS
<1> DEFINE w == BlockLength + 1
           q == (i - 1) \div w
<1>1. w \in Nat \ {0} /\ i \in Nat \ {0} /\ BlockLength \in Nat
  BY BoardAssumption DEF MessageLength
<1>2. q \in Nat /\ i - q * w \in 1 .. w /\ i - q * w # w
  BY <1>1, Division DEF IsAck
<1>3. FieldAt(i) = q + 1
  BY DEF FieldAt
<1> HIDE DEF q
<1>4. FieldAt(i) - 1 = q /\ PlaceInField(i) = i - (FieldAt(i) - 1) * w
  BY <1>2, <1>3 DEF PlaceInField
<1>5. i - q * w <= w - 1
  BY <1>1, <1>2
<1> QED
  BY <1>1, <1>4, <1>5

\* A read that succeeds fills every field from the card just selected.
LEMMA ReadyStep ==
    ASSUME LineInv, SerialInTurn, ReadyIsOfOneCard, Next PROVE ReadyIsOfOneCard'
<1> SUFFICES ASSUME ReadsSucceed, somthing_to_send'
             PROVE  \A i \in DataPlaces : buffer'[i] = uid'
  BY DEF ReadyIsOfOneCard, DataPlaces, MessageLength, IsAck
<1>1. CASE UNCHANGED <<somthing_to_send, buffer, uid>>
  BY <1>1 DEF ReadyIsOfOneCard
<1>2. CASE HostNext
  BY <1>1, <1>2, HostShortens
<1>3. CASE Announce \/ KeepAlive \/ EmptySerial \/ Reset
  <2>1. UNCHANGED <<somthing_to_send, buffer, uid>>
    BY <1>3 DEF Announce, KeepAlive, EmptySerial, Reset
  <2> QED
    BY <1>1, <2>1
<1>4. ASSUME NEW c \in BoardCards, ReadCard(c)
      PROVE  \A i \in DataPlaces : buffer'[i] = uid'
  <2> DEFINE filled(last, outcomes) ==
               [i \in DataPlaces |->
                  IF FieldAt(i) <= last THEN AfterRead(c, i, outcomes[FieldAt(i)])
                  ELSE buffer[i]]
  <2>1. PICK last \in BoardFields : \E outcomes \in [1 .. last -> ReadOutcomes] :
          /\ \E done \in Reported(outcomes[last]) : done => last = NumFields
          /\ buffer' = filled(last, outcomes)
    BY <1>4 DEF ReadCard
  <2>2. PICK outcomes \in [1 .. last -> ReadOutcomes] :
          /\ \E done \in Reported(outcomes[last]) : done => last = NumFields
          /\ buffer' = filled(last, outcomes)
    BY <2>1
  <2>3. last \in 1 .. last /\ last \in 1 .. NumFields
    BY BoardAssumption DEF BoardFields
  <2>4. \A f \in 1 .. last : outcomes[f] = BlockLength
    BY DEF ReadsSucceed
  <2>5. last = NumFields
    <3>1. PICK done \in Reported(outcomes[last]) : done => last = NumFields
      BY <2>2
    <3>2. outcomes[last] = BlockLength
      BY <2>3, <2>4
    <3>3. Reported(BlockLength) = {TRUE}
      BY DEF ReadsSucceed, Reported
    <3>4. done = TRUE
      BY <3>1, <3>2, <3>3, Zenon
    <3> QED
      BY <3>1, <3>4, Zenon
  <2>6. ASSUME NEW i \in DataPlaces PROVE buffer'[i] = c
    <3>1. i \in 1 .. MessageLength /\ ~IsAck(i) /\ FieldAt(i) \in 1 .. last
          /\ FieldAt(i) <= last
      BY <2>5, Layout, BoardAssumption DEF DataPlaces, BoardFields
    <3>2. outcomes[FieldAt(i)] = BlockLength
      BY <2>4, <3>1
    <3>3. PlaceInField(i) <= BlockLength
      BY <3>1, PlacesInFields
    <3>4. buffer'[i] = AfterRead(c, i, outcomes[FieldAt(i)])
      BY <2>2, <3>1
    <3> QED
      BY <3>2, <3>3, <3>4 DEF AfterRead
  <2>9. uid' = c
    BY <1>4 DEF ReadCard
  <2> QED
    BY <2>6, <2>9
<1> QED
  BY <1>2, <1>3, <1>4 DEF Next, BoardStep, BoardNext

----------------------------------------------------------------------------

\* The place of a field's acknowledge byte.
AckOf(f) == f * (BlockLength + 1)

\* It is the only one whose acknowledge byte it is, and a field further on is more
\* than a field's length away.
LEMMA AckPlaces ==
    /\ \A f \in BoardFields :
         /\ AckOf(f) \in 1 .. MessageLength
         /\ IsAck(AckOf(f))
         /\ FieldAt(AckOf(f)) = f
    /\ \A i \in 1 .. MessageLength : IsAck(i) => i = AckOf(FieldAt(i))
    /\ \A f, g \in BoardFields : f < g => AckOf(f) + BlockLength + 1 <= AckOf(g)
<1> DEFINE w == BlockLength + 1
<1>0. w \in Nat /\ w > 1 /\ NumFields \in Nat \ {0}
  BY BoardAssumption
<1> HIDE DEF w
<1>1. ASSUME NEW f \in 1 .. NumFields
      PROVE  /\ f * w \in 1 .. NumFields * w
             /\ (f * w) % w = 0
             /\ (f * w - 1) \div w + 1 = f
  BY <1>0, <1>1
<1>2. ASSUME NEW i \in 1 .. NumFields * w, i % w = 0
      PROVE  i = ((i - 1) \div w + 1) * w
  <2> DEFINE q == (i - 1) \div w
  <2>1. i \in Nat \ {0} /\ w \in Nat \ {0}
    BY <1>0, <1>2
  <2>2. q \in Nat /\ i = q * w + w
    BY <1>2, <2>1, Division
  <2> HIDE DEF q
  <2>3. q * w + w = (q + 1) * w
    BY <1>0, <2>2
  <2>4. i = (q + 1) * w
    BY <2>2, <2>3
  <2> QED
    BY <2>4 DEF q
<1>3. ASSUME NEW f \in 1 .. NumFields, NEW g \in 1 .. NumFields, f < g
      PROVE  f * w + w <= g * w
  BY <1>0, <1>3
<1> QED
  BY <1>1, <1>2, <1>3, BoardAssumption DEF w, AckOf, MessageLength, IsAck, FieldAt, BoardFields

\* A byte that stands out, found behind its field, is an acknowledge byte or a digit
\* of a serial number.
LEMMA StandsOut ==
    ASSUME NEW c \in Chars, Fits(c), NEW f \in BoardFields, c.byte = f,
           \A d \in BoardCards : \A i \in DataPlaces : FieldBytes[d][i] # f
    PROVE  \/ c.kind = "ack" /\ FieldAt(c.place) = f
           \/ c.kind = "serial"
<1>1. c.kind \in {"text", "data", "ack", "serial"}
  BY DEF Chars
<1>2. f \notin BytesOfCards
  BY BytesAre DEF BytesOfCards
<1> QED
  BY <1>1, <1>2 DEF Fits

\* A buffer filled to the end with its acknowledge bytes in place: of the two that
\* no field has, one at least is what it was written as, as two digits of a serial
\* number are never that far apart.  It fixes the message and its beginning, and
\* the stream around it is in one piece.
LEMMA FilledIsHeld ==
    ASSUME AcksStandOut, LineInv, Tracked(Flow, FlowLength, sent),
           reader = "receive", received = MessageLength, Acknowledged
    PROVE  \E k \in 1 .. sent : \A i \in 1 .. MessageLength : IsOf(buff[i], k, i)
<1>0. /\ MessageLength \in Nat \ {0} /\ FlowLength \in Nat /\ Held = MessageLength
      /\ MessageLength <= FlowLength /\ BlockLength \in Nat
      /\ buff \in [1 .. MessageLength -> Chars]
      /\ Base = MessageLength /\ Len(toHost) \in Nat
  BY FlowTypes, BoardAssumption DEF LineInv, LinkTypeOK, Held, FlowLength, Base
<1>1. \A i \in 1 .. MessageLength : i \in 1 .. FlowLength /\ Flow[i] = buff[i]
  BY <1>0 DEF Flow
<1>2. \A i \in 1 .. MessageLength : i \in 1 .. Base + Len(toHost) /\ Stream[i] = buff[i]
  BY <1>0 DEF Stream
<1>3. ASSUME NEW f \in BoardFields,
             \A d \in BoardCards : \A i \in DataPlaces : FieldBytes[d][i] # f
      PROVE  /\ AckOf(f) \in 1 .. MessageLength
             /\ \/ buff[AckOf(f)].kind = "ack" /\ FieldAt(buff[AckOf(f)].place) = f
                \/ buff[AckOf(f)].kind = "serial"
  <2>1. AckOf(f) \in 1 .. MessageLength /\ IsAck(AckOf(f)) /\ FieldAt(AckOf(f)) = f
    BY AckPlaces
  <2>2. buff[AckOf(f)].byte = f /\ buff[AckOf(f)] \in Chars
    BY <1>0, <2>1 DEF Acknowledged
  <2>3. Fits(buff[AckOf(f)])
    BY <1>1, <2>1 DEF Tracked, AllFit
  <2> QED
    BY <1>3, <2>1, <2>2, <2>3, StandsOut
<1>4. ASSUME NEW f \in BoardFields, AckOf(f) \in 1 .. MessageLength,
             buff[AckOf(f)].kind = "ack", FieldAt(buff[AckOf(f)].place) = f
      PROVE  \E k \in 1 .. sent : \A i \in 1 .. MessageLength : IsOf(buff[i], k, i)
  <2> DEFINE b == AckOf(f)
  <2>1. Stream[b] = buff[b] /\ b \in 1 .. Base + Len(toHost) /\ InMessage(Stream[b])
    BY <1>2, <1>4 DEF InMessage
  <2>2. /\ buff[b].place \in 1 .. MessageLength
        /\ buff[b].message \in 1 .. sent
        /\ IsAck(buff[b].place)
    BY <1>4, <2>1 DEF LineInv, Orderly, Genuine
  <2>3. buff[b].place = b
    BY <1>4, <2>2, AckPlaces
  <2>4. ASSUME NEW i \in 1 .. MessageLength PROVE IsOf(buff[i], buff[b].message, i)
    <3>1. buff[b].place + i - b = i
      BY <1>0, <1>4, <2>3
    <3> QED
      BY <1>2, <2>1, <3>1 DEF LineInv, Orderly, InOnePiece
  <2> QED
    BY <2>2, <2>4
<1>5. ASSUME NEW f \in BoardFields, NEW g \in BoardFields, f < g,
             AckOf(f) \in 1 .. MessageLength, AckOf(g) \in 1 .. MessageLength,
             buff[AckOf(f)].kind = "serial", buff[AckOf(g)].kind = "serial"
      PROVE  FALSE
  <2> DEFINE x == AckOf(f)
             y == AckOf(g)
  <2>1. x \in Nat /\ y \in Nat /\ x + BlockLength + 1 <= y
        /\ x \in 1 .. FlowLength /\ y \in 1 .. FlowLength
        /\ Flow[x] = buff[x] /\ Flow[y] = buff[y]
    BY <1>0, <1>1, <1>5, AckPlaces
  <2>2. /\ Numbered(Flow[x]) /\ Spot(Flow[x]) = MessageLength + Flow[x].place
        /\ Numbered(Flow[y]) /\ Spot(Flow[y]) = MessageLength + Flow[y].place
    BY <1>5, <2>1 DEF Numbered, Spot
  <2>3. Flow[x].place \in Nat \ {0} /\ Flow[y].place \in Nat \ {0}
    BY <2>1, <2>2 DEF Tracked, Sourced
  <2>4. Flow[y].place <= BlockLength
    <3>1. PICK d \in BoardCards : Flow[y].place <= Len(Digits[d])
      BY <1>5, <2>1 DEF Tracked, AllFit, Fits
    <3>2. Len(Digits[d]) <= BlockLength /\ Len(Digits[d]) \in Nat
      BY BytesAre DEF AcksStandOut
    <3> QED
      BY <1>0, <2>3, <3>1, <3>2
  <2>5. x <= y /\ Spot(Flow[y]) + x > y
    <3>1. y <= MessageLength /\ x > 0
      BY <1>5
    <3> HIDE DEF x, y
    <3> QED
      BY <1>0, <2>1, <2>2, <2>3, <3>1
  <2>6. Spot(Flow[x]) + y = Spot(Flow[y]) + x
    BY <2>1, <2>2, <2>5 DEF Tracked, Led
  <2> HIDE DEF x, y
  <2> DEFINE u == Flow[x].place
             v == Flow[y].place
             m == MessageLength
  <2>7. /\ m + u + y = m + v + x
        /\ u \in Nat \ {0} /\ v \in Nat /\ v <= BlockLength
        /\ x \in Nat /\ y \in Nat /\ x + BlockLength + 1 <= y
    BY <2>1, <2>2, <2>3, <2>4, <2>6
  <2>8. m \in Nat /\ BlockLength \in Nat
    BY <1>0
  <2> HIDE DEF u, v, m
  <2>9. u + y = v + x
    BY <2>7, <2>8
  <2> QED
    BY <2>7, <2>8, <2>9
<1>6. PICK f \in BoardFields, g \in BoardFields :
        /\ f # g
        /\ \A d \in BoardCards : \A i \in DataPlaces : FieldBytes[d][i] \notin {f, g}
  BY DEF AcksStandOut
<1>7. /\ AckOf(f) \in 1 .. MessageLength
      /\ \/ buff[AckOf(f)].kind = "ack" /\ FieldAt(buff[AckOf(f)].place) = f
         \/ buff[AckOf(f)].kind = "serial"
      /\ AckOf(g) \in 1 .. MessageLength
      /\ \/ buff[AckOf(g)].kind = "ack" /\ FieldAt(buff[AckOf(g)].place) = g
         \/ buff[AckOf(g)].kind = "serial"
  BY <1>3, <1>6
<1>8. f < g \/ g < f
  BY <1>6 DEF BoardFields
<1> QED
  BY <1>4, <1>5, <1>7, <1>8

\* The board never takes a message back.
LEMMA SentGrows ==
    ASSUME LinkTypeOK, Next
    PROVE  /\ sent \in Nat /\ sent' \in Nat /\ sent <= sent'
           /\ \A k \in 1 .. sent : k \in 1 .. sent'
<1>1. sent \in Nat
  BY FlowTypes
<1>2. sent' = sent \/ sent' = sent + 1
  BY DEF Next, HostNext, BoardStep, BoardNext, SendHey, PollAnnouncement, PollOther,
         Poll, ReceiveChar, WaitMessageValid, WaitMessageInvalid, ReceiveSerial,
         SerialComplete, ThreadStep, LineOnly, Announce, KeepAlive, EmptySerial,
         ReadCard, Reset, boardVars
<1> QED
  BY <1>1, <1>2

\* wait_serial_number is entered from wait_message, and while it runs neither
\* touches the buffer.
LEMMA IntoSerial ==
    ASSUME Next, reader' = "serial"
    PROVE  WaitMessageValid \/ (reader = "serial" /\ UNCHANGED <<buff, received>>)
<1>1. CASE BoardStep
  BY <1>1 DEF BoardStep, publisherVars, linkVars
<1>2. CASE HostNext
  BY <1>2
     DEF HostNext, SendHey, PollAnnouncement, PollOther, Poll, ReceiveChar,
         WaitMessageInvalid, ReceiveSerial, SerialComplete, ThreadStep,
         RecognizeAnnouncement, MessageInvalid, SerialRead, PublisherAlone,
         ClearUsername, ClearPassword, SerialAllowed, SerialUnknown,
         DatabaseError, Publish, Decrypt, DecryptSome, DecryptRest, Move,
         publisherVars, linkVars
<1> QED
  BY <1>1, <1>2 DEF Next

\* The message in hand stays what it is until its serial number is complete.
LEMMA HandStep ==
    ASSUME AcksStandOut, LineInv, Tracked(Flow, FlowLength, sent), HandIsOneMessage, Next
    PROVE  HandIsOneMessage'
<1> SUFFICES ASSUME reader' = "serial", received' = MessageLength
             PROVE  \E k \in 1 .. sent' : \A i \in 1 .. MessageLength : IsOf(buff'[i], k, i)
  BY DEF HandIsOneMessage, MessageLength, IsOf, InMessage
<1>0. \A k \in 1 .. sent : k \in 1 .. sent'
  BY SentGrows DEF LineInv
<1>1. CASE WaitMessageValid
  <2>1. reader = "receive" /\ received = MessageLength /\ Acknowledged /\ buff' = buff
    BY <1>1 DEF WaitMessageValid, MessageValid, Move, linkVars
  <2> QED
    BY <1>0, <2>1, FilledIsHeld
<1>2. CASE reader = "serial" /\ UNCHANGED <<buff, received>>
  BY <1>0, <1>2 DEF HandIsOneMessage
<1> QED
  BY <1>1, <1>2, IntoSerial

\* Together with the stream it is in.
HandInv ==
    /\ SerialInTurn
    /\ ReadyIsOfOneCard
    /\ Tracked(Flow, FlowLength, sent)
    /\ HandIsOneMessage

LEMMA HandInvStep ==
    AcksStandOut /\ LineInv /\ LineInv' /\ HandInv /\ [Next]_vars => HandInv'
<1> SUFFICES ASSUME AcksStandOut, LineInv, LineInv', HandInv, [Next]_vars PROVE HandInv'
  OBVIOUS
<1>0. LinkTypeOK /\ LinkTypeOK'
  BY DEF LineInv
<1>1. CASE Next
  <2>1. Tracked(Flow, FlowLength, sent)'
    BY <1>0, <1>1, FlowStep DEF HandInv
  <2>2. SerialInTurn' /\ ReadyIsOfOneCard' /\ HandIsOneMessage'
    BY <1>1, SerialInTurnStep, ReadyStep, HandStep DEF HandInv
  <2> QED
    BY <2>1, <2>2 DEF HandInv
<1>2. CASE UNCHANGED vars
  <2>1. UNCHANGED <<publisherVars, boardVars, linkVars>>
    BY <1>2 DEF vars
  <2>2. UNCHANGED <<reader, somthing_to_send, buffer, uid, toHost, sent, buff, received,
                    serial>>
    BY <2>1 DEF publisherVars, boardVars, linkVars
  <2>3. Held' = Held /\ FlowLength' = FlowLength /\ Flow' = Flow
    BY <2>2 DEF Held, FlowLength, Flow, MessageLength
  <2>4. Tracked(Flow, FlowLength, sent)'
    BY <2>2, <2>3, TrackedNext DEF HandInv
  <2>5. (SerialInTurn /\ ReadyIsOfOneCard /\ HandIsOneMessage)'
    BY <2>2 DEF HandInv, SerialInTurn, ReadyIsOfOneCard, HandIsOneMessage, MessageLength,
       IsOf, InMessage, DataPlaces, IsAck
  <2> QED
    BY <2>4, <2>5 DEF HandInv
<1> QED
  BY <1>1, <1>2

\* With nothing under way and no HEY! out, the board has nothing to answer.
LEMMA ShortStep ==
    ASSUME LineInv, SerialInTurn, ShortIsIdle, Next
    PROVE  ShortIsIdle'
<1> SUFFICES ASSUME reader' = "serial", received' < MessageLength
             PROVE  heys' = 0 /\ OnlyText(serial') /\ OnlyText(toHost')
  BY DEF ShortIsIdle, MessageLength, OnlyText
<1>0. LinkTypeOK /\ toHost \in Seq(Chars) /\ Len(toHost) \in Nat
      /\ serial \in Seq(Chars) /\ Len(serial) \in Nat
  BY FlowTypes DEF LineInv
<1>1. CASE WaitMessageValid
  <2>1. /\ reader = "receive" /\ TimedOut
        /\ UNCHANGED <<heys, serial, toHost>>
    BY <1>1, Layout DEF WaitMessageValid, MessageOver, MessageValid, Move, linkVars, boardVars
  <2>2. heys = 0 /\ toHost = <<>> /\ serial = <<>>
    BY <2>1 DEF TimedOut, SerialInTurn
  <2> QED
    BY <2>1, <2>2, EmptySeq DEF OnlyText
<1>2. CASE reader = "serial" /\ UNCHANGED <<buff, received>> /\ ~WaitMessageValid
  <2>1. heys = 0 /\ OnlyText(serial) /\ OnlyText(toHost)
    BY <1>2 DEF ShortIsIdle
  <2>2. CASE HostNext
    <3>1. ReceiveSerial
      BY <1>2, <2>2
         DEF HostNext, SendHey, PollAnnouncement, PollOther, Poll, ReceiveChar,
             WaitMessageInvalid, SerialComplete, ThreadStep,
             RecognizeAnnouncement, MessageInvalid, SerialRead, PublisherAlone,
             ClearUsername, ClearPassword, SerialAllowed, SerialUnknown,
             DatabaseError, Publish, Decrypt, DecryptSome, DecryptRest, Move
    <3>2. /\ toHost # <<>> /\ Take(1) /\ heys' = heys
          /\ serial' = Append(serial, Head(toHost))
      BY <3>1 DEF ReceiveSerial
    <3>3. 1 \in 0 .. Len(toHost) /\ 1 \in 1 .. Len(toHost) /\ Head(toHost) = toHost[1]
          /\ toHost[1] \in Chars
      BY <1>0, <3>2, EmptySeq, HeadTailProperties
    <3>4. /\ Len(toHost') = Len(toHost) - 1
          /\ \A i \in 1 .. Len(toHost) - 1 : toHost'[i] = toHost[i + 1]
      BY <1>0, <3>2, <3>3, Shortened
    <3>5. OnlyText(toHost')
      BY <1>0, <2>1, <3>4 DEF OnlyText
    <3>6. /\ Len(serial') = Len(serial) + 1
          /\ \A i \in 1 .. Len(serial) : serial'[i] = serial[i]
          /\ serial'[Len(serial) + 1] = toHost[1]
      BY <1>0, <3>2, <3>3, AppendProperties
    <3>7. OnlyText(serial')
      BY <1>0, <2>1, <3>3, <3>6 DEF OnlyText
    <3> QED
      BY <2>1, <3>2, <3>5, <3>7
  <2>3. CASE BoardStep
    <3>0. serial' = serial
      BY <2>3 DEF BoardStep, linkVars
    <3>1. ~Announce /\ ~KeepAlive /\ ~EmptySerial
      BY <2>1 DEF Announce, KeepAlive, EmptySerial
    <3>2. ASSUME NEW c \in BoardCards, ReadCard(c)
          PROVE  heys' = 0 /\ OnlyText(toHost')
      <4>1. PICK last \in BoardFields : \E outcomes \in [1 .. last -> ReadOutcomes] :
              toHost' = toHost \o ErrorText(Cardinality(Failures(outcomes)))
        BY <3>2 DEF ReadCard
      <4>2. PICK outcomes \in [1 .. last -> ReadOutcomes] :
              toHost' = toHost \o ErrorText(Cardinality(Failures(outcomes)))
        BY <4>1
      <4> DEFINE failed == Cardinality(Failures(outcomes))
      <4>3. failed \in Nat
        BY FailuresCount, BoardAssumption DEF BoardFields
      <4>4. toHost' = toHost \o ErrorText(failed)
        BY <4>2
      <4> HIDE DEF failed
      <4> DEFINE len == failed * ErrorLength
      <4>5. ErrorText(failed) \in Seq(Chars) /\ Len(ErrorText(failed)) = len
        BY <1>0, <4>3, Texts
      <4>6. \A a \in 1 .. len : ErrorText(failed)[a].kind = "text"
        BY DEF ErrorText, Letter, Char
      <4>7. len \in Nat
        BY <4>5, LenProperties
      <4> HIDE DEF len
      <4>8. /\ Len(toHost') = Len(toHost) + len
            /\ \A i \in 1 .. Len(toHost) + len :
                 toHost'[i] = IF i <= Len(toHost) THEN toHost[i]
                              ELSE ErrorText(failed)[i - Len(toHost)]
        BY <1>0, <4>4, <4>5, Joined
      <4>9. ASSUME NEW i \in 1 .. Len(toHost') PROVE toHost'[i].kind = "text"
        <5>1. CASE i <= Len(toHost)
          <6>1. i \in 1 .. Len(toHost) /\ toHost'[i] = toHost[i]
            BY <1>0, <4>7, <4>8, <5>1
          <6> QED
            BY <2>1, <6>1 DEF OnlyText
        <5>2. CASE ~(i <= Len(toHost))
          <6>1. i - Len(toHost) \in 1 .. len
                /\ toHost'[i] = ErrorText(failed)[i - Len(toHost)]
            BY <1>0, <4>7, <4>8, <5>2
          <6> QED
            BY <4>6, <6>1
        <5> QED
          BY <5>1, <5>2
      <4> QED
        BY <2>1, <3>2, <4>9 DEF OnlyText, ReadCard
    <3>3. ASSUME Reset PROVE heys' = 0 /\ OnlyText(toHost')
      <4>1. PICK n \in 0 .. Len(toHost) : toHost' = SubSeq(toHost, 1, n)
        BY <3>3 DEF Reset
      <4>2. n \in Nat /\ \A i \in 1 .. n : toHost[i] \in Chars
        BY <1>0, ElementOfSeq
      <4>3. /\ Len(SubSeq(toHost, 1, n)) = (IF 1 <= n THEN n - 1 + 1 ELSE 0)
            /\ \A i \in 1 .. n - 1 + 1 : SubSeq(toHost, 1, n)[i] = toHost[1 + i - 1]
        BY <1>0, <4>2, SubSeqProperties
      <4>4. Len(toHost') = n /\ \A i \in 1 .. n : toHost'[i] = toHost[i]
        BY <4>1, <4>2, <4>3
      <4> QED
        BY <1>0, <2>1, <3>3, <4>2, <4>4 DEF OnlyText, Reset
    <3> QED
      BY <2>1, <2>3, <3>0, <3>1, <3>2, <3>3 DEF BoardStep, BoardNext
  <2> QED
    BY <2>2, <2>3 DEF Next
<1> QED
  BY <1>1, <1>2, IntoSerial

----------------------------------------------------------------------------

\* Apart from SerialComplete, a step is one that CardPublisher knows, or none, and
\* takes nothing.
LEMMA OtherSteps ==
    ASSUME Next, ~SerialComplete
    PROVE  /\ taken' = taken
           /\ \/ UNCHANGED publisherVars
              \/ RecognizeAnnouncement \/ MessageValid \/ MessageInvalid \/ PublisherAlone
BY DEF Next, HostNext, BoardStep, SendHey, PollAnnouncement, PollOther, Poll, ReceiveChar,
       WaitMessageValid, WaitMessageInvalid, ReceiveSerial, ThreadStep, linkVars

\* Such a step settles no announcement.
LEMMA SettledKept ==
    ASSUME LineInv, NotYetAccepted, Next, ~SerialComplete
    PROVE  /\ taken' = taken
           /\ Settled' \subseteq Settled
           /\ NotYetAccepted'
<1>0. /\ announced \in Nat /\ accepted \subseteq 1 .. announced
  BY PublisherAssumption DEF LineInv, LinkTypeOK, PublisherTypeOK
<1> SUFFICES ASSUME \/ UNCHANGED publisherVars
                    \/ RecognizeAnnouncement \/ MessageValid \/ MessageInvalid
                    \/ PublisherAlone
             PROVE  Settled' \subseteq Settled /\ NotYetAccepted'
  BY OtherSteps
<1>1. CASE UNCHANGED publisherVars
  BY <1>1 DEF publisherVars, Settled, NotYetAccepted, LookedUp
<1>2. CASE RecognizeAnnouncement
  <2>1. reader' = "receive" /\ announced' = announced + 1 /\ accepted' = accepted
    BY <1>2 DEF RecognizeAnnouncement, Move, database
  <2>2. announced + 1 \notin accepted
    BY <1>0
  <2> QED
    BY <2>1, <2>2 DEF Settled, NotYetAccepted, LookedUp
<1>3. CASE MessageValid \/ MessageInvalid
  <2>1. /\ reader = "receive" /\ reader' \in {"serial", "link"}
        /\ announced' = announced /\ accepted' = accepted
    BY <1>3 DEF MessageValid, MessageInvalid, Move, database
  <2> QED
    BY <2>1 DEF Settled, NotYetAccepted, LookedUp
<1>4. CASE PublisherAlone
  <2>1. CASE ClearUsername \/ ClearPassword
    <3>1. /\ reader \in LookedUp /\ reader' \in LookedUp
          /\ announced' = announced /\ accepted' = accepted /\ serialnumber' = serialnumber
      BY <2>1 DEF ClearUsername, ClearPassword, Move, LookedUp, database
    <3> QED
      BY <3>1 DEF Settled, NotYetAccepted
  <2>2. CASE SerialAllowed
    <3>1. /\ reader \in LookedUp /\ reader' = "publish" /\ serialnumber \in Allowed
          /\ accepted' = accepted \cup {announced}
      BY <1>0, <2>2 DEF SerialAllowed, Move, LookedUp
    <3> QED
      BY <3>1 DEF Settled, NotYetAccepted, LookedUp
  <2>3. CASE SerialUnknown \/ DatabaseError \/ Publish \/ Decrypt
    <3>1. reader' \notin {"receive", "serial"} \cup LookedUp /\ accepted' = accepted
      BY <2>3 DEF SerialUnknown, DatabaseError, Publish, Decrypt, DecryptSome, DecryptRest,
              Move, LookedUp, database
    <3> QED
      BY <3>1 DEF Settled, NotYetAccepted
  <2> QED
    BY <1>4, <2>1, <2>2, <2>3 DEF PublisherAlone
<1> QED
  BY <1>1, <1>2, <1>3, <1>4

\* What is past stays past.
LEMMA PastStep ==
    ASSUME LinkTypeOK, Next, NothingComesBack, NEW k, Past(k)
    PROVE  k \in 1 .. sent' /\ Past(k)'
<1>1. k \in 1 .. sent' /\ sent \in Nat /\ k \in 1 .. sent
  BY SentGrows DEF Past
<1>2. ASSUME NEW p \in 1 .. FlowLength', InMessage(Flow'[p])
      PROVE  k < Flow'[p].message
  <2>1. CASE Flow'[p].message = sent + 1
    BY <1>1, <2>1
  <2>2. CASE \E q \in 1 .. FlowLength : Flow'[p] = Flow[q]
    BY <1>2, <2>2 DEF Past
  <2> QED
    BY <1>2, <2>1, <2>2 DEF NothingComesBack
<1> QED
  BY <1>1, <1>2 DEF Past, InMessage

\* Four characters found in the table are the start of a card's number.
LEMMA OwnerStarts ==
    ASSUME NumbersStandOut, LinkTypeOK, Len(serial) = SerialLength,
           NEW owner \in Owners(serial), owner \in Allowed
    PROVE  /\ SerialLength \in Nat \ {0}
           /\ \A i \in 1 .. SerialLength :
                serial[i].kind = "serial" /\ serial[i].place = i /\ serial[i].card = owner
<1>1. DOMAIN serial = 1 .. SerialLength /\ SerialLength \in Nat \ {0}
  BY FlowTypes, LenProperties, LinkAssumption
<1>2. StartOf(serial, owner)
  BY DEF Owners, NumbersStandOut
<1> QED
  BY <1>1, <1>2 DEF StartOf

\* A serial number that is some card's, behind a message received in full, is that
\* message's own.
LEMMA SerialIsOwn ==
    ASSUME NumbersStandOut, LineInv, AcceptInv, reader = "serial",
           Len(serial) = SerialLength, NEW owner \in Owners(serial), owner \in Allowed
    PROVE  \E k \in 1 .. sent :
             /\ \A i \in 1 .. MessageLength : IsOf(buff[i], k, i)
             /\ TakenMessages = {k}
             /\ \A i \in Settled : \A l \in taken[i].messages : l < k
             /\ \A p \in Held + 1 .. FlowLength : InMessage(Flow[p]) => k < Flow[p].message
             /\ ReadsSucceed => FieldCards \cup {owner} = {owner}
<1> DEFINE ML == MessageLength
<1>0. LinkTypeOK /\ Tracked(Flow, FlowLength, sent) /\ HandIsOneMessage /\ ShortIsIdle
      /\ SettledArePast
  BY DEF LineInv, AcceptInv
<1>1. /\ SerialLength \in Nat \ {0}
      /\ \A i \in 1 .. SerialLength :
           serial[i].kind = "serial" /\ serial[i].place = i /\ serial[i].card = owner
  BY <1>0, OwnerStarts
<1>2. received = ML
  <2>1. SUFFICES ASSUME received < ML PROVE FALSE
    BY <1>0, Layout DEF LinkTypeOK
  <2>2. serial[1].kind = "text"
    BY <1>0, <1>1, <2>1 DEF ShortIsIdle, OnlyText
  <2> QED
    BY <1>1, <2>2
<1>3. PICK k \in 1 .. sent : \A i \in 1 .. ML : IsOf(buff[i], k, i)
  BY <1>0, <1>2 DEF HandIsOneMessage
<1>4. /\ ML \in Nat \ {0} /\ Held = ML + SerialLength /\ FlowLength = Held + Len(toHost)
      /\ Len(toHost) \in Nat /\ FlowLength \in Nat /\ Held <= FlowLength /\ sent \in Nat
  BY <1>0, <1>1, <1>2, FlowTypes DEF Held, FlowLength
<1> HIDE DEF ML
<1>5. \A i \in 1 .. ML : i \in 1 .. FlowLength /\ Flow[i] = buff[i]
  <2> SUFFICES ASSUME NEW i \in 1 .. ML PROVE i \in 1 .. FlowLength /\ Flow[i] = buff[i]
    OBVIOUS
  <2>1. i \in 1 .. FlowLength /\ ~(i > Held) /\ i <= ML
    BY <1>1, <1>4
  <2> QED
    BY <2>1 DEF Flow, ML
<1>6. \A i \in 1 .. SerialLength : ML + i \in 1 .. FlowLength /\ Flow[ML + i] = serial[i]
  <2> SUFFICES ASSUME NEW i \in 1 .. SerialLength
               PROVE  ML + i \in 1 .. FlowLength /\ Flow[ML + i] = serial[i]
    OBVIOUS
  <2>1. ML + i \in 1 .. FlowLength /\ ~(ML + i > Held) /\ ~(ML + i <= ML)
        /\ (ML + i) - ML = i
    BY <1>1, <1>4
  <2> QED
    BY <2>1 DEF Flow, ML
<1>7. 1 \in 1 .. ML /\ ML \in 1 .. ML
  BY <1>4
<1>8. \A i \in 1 .. ML : InMessage(Flow[i]) /\ Flow[i].message = k /\ Spot(Flow[i]) = i
  BY <1>3, <1>5 DEF IsOf, Spot, InMessage
<1>9. ASSUME NEW i \in 1 .. SerialLength
      PROVE  Numbered(Flow[ML + i]) /\ Flow[ML + i].message = k
  <2>1. Numbered(Flow[ML + i]) /\ Spot(Flow[ML + i]) = ML + i
    BY <1>1, <1>6 DEF Numbered, Spot, ML
  <2>2. ML <= ML + i /\ Spot(Flow[ML + i]) + ML > ML + i
    BY <1>1, <1>4, <2>1
  <2>3. ML \in 1 .. FlowLength /\ ML + i \in 1 .. FlowLength
    BY <1>5, <1>6, <1>7
  <2>4. Flow[ML].message = Flow[ML + i].message
    BY <1>0, <2>1, <2>2, <2>3 DEF Tracked, Led
  <2> QED
    BY <1>7, <1>8, <2>1, <2>4
<1>10. TakenMessages = {k}
  <2>1. \A i \in 1 .. ML : buff[i].message = k
    BY <1>3 DEF IsOf
  <2>2. \A i \in 1 .. SerialLength : serial[i].message = k
    BY <1>6, <1>9
  <2> QED
    BY <1>7, <2>1, <2>2 DEF TakenMessages, ML
<1>11. ASSUME NEW i \in Settled, NEW l \in taken[i].messages PROVE l < k
  <2>1. PICK j \in 1 .. sent : taken[i].messages = {j} /\ Past(j)
    BY <1>0 DEF SettledArePast
  <2>2. l = j
    BY <2>1
  <2>3. j < Flow[1].message
    BY <1>5, <1>7, <1>8, <2>1 DEF Past
  <2> QED
    BY <1>7, <1>8, <2>2, <2>3
<1>12. ASSUME NEW p \in Held + 1 .. FlowLength, InMessage(Flow[p])
       PROVE  k < Flow[p].message
  <2>1. p \in 1 .. FlowLength /\ ML < p /\ ML \in 1 .. FlowLength
    BY <1>1, <1>4, <1>5, <1>7
  <2>2. Numbered(Flow[p]) /\ Numbered(Flow[ML])
    BY <1>7, <1>8, <1>12 DEF Numbered
  <2>3. /\ Flow[ML].message <= Flow[p].message
        /\ Flow[ML].message = Flow[p].message => Spot(Flow[ML]) + p = Spot(Flow[p]) + ML
    BY <1>0, <2>1, <2>2 DEF Tracked, InOrder
  <2>4. /\ Spot(Flow[p]) \in Nat /\ Flow[p].message \in 1 .. sent
        /\ Spot(Flow[p]) <= MessageLength
    BY <1>0, <1>4, <1>12, <2>1, <2>2, Spots DEF Tracked
  <2>5. Flow[ML].message = k /\ Spot(Flow[ML]) = ML
    BY <1>7, <1>8
  <2>6. Flow[p].message # k
    <3>1. SUFFICES ASSUME Flow[p].message = k PROVE FALSE
      OBVIOUS
    <3>2. ML + p = Spot(Flow[p]) + ML
      BY <2>3, <2>5, <3>1
    <3>3. Spot(Flow[p]) <= ML
      BY <2>4 DEF ML
    <3> QED
      BY <1>4, <2>1, <2>4, <3>2, <3>3
  <2>7. k <= Flow[p].message
    BY <2>3, <2>5
  <2>8. k \in Nat /\ Flow[p].message \in Nat
    <3>1. sent \in Nat /\ k \in 1 .. sent /\ Flow[p].message \in 1 .. sent
      BY <1>4, <2>4
    <3> HIDE <1>4, <2>4
    <3> QED
      BY <3>1
  <2> QED
    BY <2>6, <2>7, <2>8
<1>13. ASSUME ReadsSucceed PROVE FieldCards \cup {owner} = {owner}
  <2>1. OneCard(Flow, FlowLength)
    BY <1>0, <1>13 DEF Tracked
  <2>2. 1 \in 1 .. SerialLength
    BY <1>1
  <2>3. ML + 1 \in 1 .. FlowLength /\ Flow[ML + 1] = serial[1]
        /\ CardBytes(Flow[ML + 1]) /\ Flow[ML + 1].message = k
    BY <1>1, <1>6, <1>9, <2>2 DEF CardBytes
  <2>4. Flow[ML + 1].card = owner
    BY <1>1, <2>2, <2>3
  <2>6. ASSUME NEW i \in DataPlaces PROVE buff[i].card = owner
    <3>1. i \in 1 .. ML /\ ~IsAck(i)
      BY DEF DataPlaces, ML
    <3>2. i \in 1 .. FlowLength /\ Flow[i] = buff[i] /\ IsOf(Flow[i], k, i)
      BY <1>3, <1>5, <3>1
    <3>3. Flow[i].kind # "ack"
      <4>1. Flow[i].kind = "ack" => IsAck(Flow[i].place)
        BY <1>0, <3>2 DEF Tracked, Sourced, Numbered, IsOf
      <4> QED
        BY <3>1, <3>2, <4>1 DEF IsOf
    <3>4. CardBytes(Flow[i]) /\ Flow[i].message = Flow[ML + 1].message
      BY <2>3, <3>2, <3>3 DEF CardBytes, IsOf, InMessage
    <3>5. Flow[i].card = Flow[ML + 1].card
      BY <2>1, <2>3, <3>2, <3>4 DEF OneCard
    <3> QED
      BY <2>4, <3>2, <3>5
  <2>7. FieldCards \subseteq {owner}
    BY <2>6 DEF FieldCards
  <2> QED
    BY <2>7
<1>14. \A i \in Settled : \A l \in taken[i].messages : l < k
  BY <1>11
<1>15. \A p \in Held + 1 .. FlowLength : InMessage(Flow[p]) => k < Flow[p].message
  BY <1>12
<1> QED
  BY <1>3, <1>10, <1>13, <1>14, <1>15 DEF ML

----------------------------------------------------------------------------

\* A step that takes nothing keeps what is known of what was taken.
LEMMA OthersSettled ==
    ASSUME LineInv, AcceptInv, Next, NothingComesBack, ~SerialComplete
    PROVE  (TakenTypeOK /\ NotYetAccepted /\ SettledArePast /\ SettledInOrder
              /\ SettledOfOneCard)'
<1>0. LinkTypeOK
  BY DEF LineInv
<1>1. taken' = taken /\ Settled' \subseteq Settled /\ NotYetAccepted'
  BY SettledKept DEF AcceptInv
<1>2. TakenTypeOK'
  BY <1>1 DEF AcceptInv, TakenTypeOK
<1>3. SettledArePast'
  <2> SUFFICES ASSUME NEW i \in Settled'
               PROVE  \E k \in 1 .. sent' : taken[i].messages = {k} /\ Past(k)'
    BY <1>1 DEF SettledArePast
  <2>1. PICK k \in 1 .. sent : taken[i].messages = {k} /\ Past(k)
    BY <1>1 DEF AcceptInv, SettledArePast
  <2>2. k \in 1 .. sent' /\ Past(k)'
    BY <1>0, <2>1, PastStep
  <2> QED
    BY <2>1, <2>2
<1>4. SettledInOrder'
  BY <1>1 DEF AcceptInv, SettledInOrder
<1>5. SettledOfOneCard'
  BY <1>1 DEF AcceptInv, SettledOfOneCard
<1> QED
  BY <1>1, <1>2, <1>3, <1>4, <1>5

\* SerialComplete, with a serial number that is not in the table or that belongs to
\* a message newer than all before it.
LEMMA CompleteSettled ==
    ASSUME NumbersStandOut, LineInv, AcceptInv, Next, NothingComesBack, SerialComplete
    PROVE  (TakenTypeOK /\ NotYetAccepted /\ SettledArePast /\ SettledInOrder
              /\ SettledOfOneCard)'
<1>p. PICK owner \in Owners(serial) : TakenAs(owner)
  BY DEF SerialComplete
<1> DEFINE new == [messages |-> TakenMessages, cards |-> FieldCards \cup {owner}]
<1>0. /\ LinkTypeOK /\ announced \in Announcements /\ accepted \subseteq Announcements
      /\ announced \in Nat /\ accepted \subseteq 1 .. announced
  BY PublisherAssumption DEF LineInv, LinkTypeOK, PublisherInv, PublisherTypeOK, Announcements,
     SerialComplete, SerialRead, Move
<1>1. /\ reader = "serial" /\ reader' = "clear_username" /\ Len(serial) = SerialLength
      /\ serialnumber' = owner /\ owner \in Cards
      /\ taken' = [taken EXCEPT ![announced] = new]
      /\ announced' = announced /\ accepted' = accepted
  <2>1. owner \in Cards
    BY LinkAssumption DEF Owners
  <2> QED
    BY <1>p, <2>1 DEF SerialComplete, SerialRead, TakenAs, Move, database
<1>2. announced \notin accepted
  BY <1>1 DEF AcceptInv, NotYetAccepted
<1>3. Settled = accepted
  BY <1>1 DEF Settled, LookedUp
<1>4. Settled' = accepted \cup (IF owner \in Allowed THEN {announced} ELSE {})
  BY <1>1 DEF Settled, LookedUp
<1>5. /\ taken'[announced] = new
      /\ \A i \in accepted : taken'[i] = taken[i]
  BY <1>0, <1>1, <1>2 DEF AcceptInv, TakenTypeOK
<1>6. TakenTypeOK'
  <2>1. TakenMessages \in SUBSET Nat
    <3>0. \A c \in Chars : c.message \in Nat
      BY BoardAssumption DEF Chars
    <3>1. \A i \in 1 .. MessageLength : buff[i].message \in Nat
      BY <1>0, <3>0 DEF LinkTypeOK
    <3>2. \A i \in 1 .. SerialLength : serial[i].message \in Nat
      <4> SUFFICES ASSUME NEW i \in 1 .. SerialLength PROVE serial[i] \in Chars
        BY <3>0
      <4> QED
        BY <1>0, <1>1, FlowTypes, ElementOfSeq
    <3> QED
      BY <3>1, <3>2 DEF TakenMessages
  <2>2. FieldCards \cup {owner} \in SUBSET Cards
    <3>1. \A i \in 1 .. MessageLength : buff[i].card \in BoardCards \cup {Nobody}
      BY <1>0 DEF LinkTypeOK, Chars
    <3>2. \A i \in DataPlaces : buff[i].card \in Cards
      BY <3>1, LinkAssumption DEF DataPlaces
    <3> QED
      BY <1>1, <3>2 DEF FieldCards
  <2>3. new \in [messages : SUBSET Nat, cards : SUBSET Cards]
    BY <2>1, <2>2
  <2> HIDE DEF new
  <2> QED
    BY <1>0, <1>1, <2>3 DEF AcceptInv, TakenTypeOK
<1>7. NotYetAccepted'
  BY <1>1, <1>2 DEF NotYetAccepted, LookedUp
<1>8. ASSUME NEW i \in accepted
      PROVE  \E k \in 1 .. sent' : taken'[i].messages = {k} /\ Past(k)'
  <2>1. PICK k \in 1 .. sent : taken[i].messages = {k} /\ Past(k)
    BY <1>3 DEF AcceptInv, SettledArePast
  <2>2. k \in 1 .. sent' /\ Past(k)'
    BY <1>0, <2>1, PastStep
  <2> QED
    BY <1>5, <2>1, <2>2
<1>9. CASE owner \notin Allowed
  <2>1. Settled' = accepted
    BY <1>4, <1>9
  <2>2. SettledArePast'
    BY <1>8, <2>1 DEF SettledArePast
  <2>3. SettledInOrder'
    BY <1>3, <1>5, <2>1 DEF AcceptInv, SettledInOrder
  <2>4. SettledOfOneCard'
    BY <1>3, <1>5, <2>1 DEF AcceptInv, SettledOfOneCard
  <2> QED
    BY <1>6, <1>7, <2>2, <2>3, <2>4
<1>10. CASE owner \in Allowed
  <2>1. Settled' = accepted \cup {announced}
    BY <1>4, <1>10
  <2>2. PICK k \in 1 .. sent :
          /\ \A i \in 1 .. MessageLength : IsOf(buff[i], k, i)
          /\ TakenMessages = {k}
          /\ \A i \in Settled : \A l \in taken[i].messages : l < k
          /\ \A p \in Held + 1 .. FlowLength : InMessage(Flow[p]) => k < Flow[p].message
          /\ ReadsSucceed => FieldCards \cup {owner} = {owner}
    BY <1>1, <1>10, SerialIsOwn
  <2>3. taken'[announced].messages = {k}
    BY <1>5, <2>2
  <2>4. Past(k)'
    <3>1. k \in 1 .. sent'
      BY <1>0, SentGrows
    <3>2. /\ FlowLength' = Len(toHost) /\ FlowLength = Held + Len(toHost)
          /\ Held \in Nat /\ Len(toHost) \in Nat /\ toHost' = toHost /\ Held' = 0
      <4>1. Held' = 0 /\ toHost' = toHost
        BY <1>1 DEF Held, SerialComplete, boardVars
      <4> QED
        BY <1>0, <4>1, FlowTypes DEF FlowLength
    <3>3. ASSUME NEW p \in 1 .. FlowLength', InMessage(Flow'[p])
          PROVE  k < Flow'[p].message
      <4>1. Flow'[p] = toHost[p - 0]
        BY <3>2 DEF Flow
      <4>2. p + Held \in Held + 1 .. FlowLength /\ p + Held \in 1 .. FlowLength
            /\ p + Held > Held /\ (p + Held) - Held = p - 0
        BY <3>2
      <4>3. Flow[p + Held] = toHost[(p + Held) - Held]
        BY <4>2 DEF Flow
      <4> QED
        BY <2>2, <3>3, <4>1, <4>2, <4>3
    <3> QED
      BY <3>1, <3>3 DEF Past, InMessage
  <2>5. SettledArePast'
    <3>1. k \in 1 .. sent'
      BY <2>4 DEF Past
    <3> QED
      BY <1>8, <2>1, <2>3, <2>4, <3>1 DEF SettledArePast
  <2>6. SettledInOrder'
    <3> SUFFICES ASSUME NEW i \in Settled', NEW j \in Settled', i < j,
                        NEW x \in taken'[i].messages, NEW y \in taken'[j].messages
                 PROVE  x < y
      BY DEF SettledInOrder
    <3>1. i \in accepted
      BY <1>0, <2>1
    <3>2. x \in taken[i].messages
      BY <1>5, <3>1
    <3>3. CASE j \in accepted
      BY <1>3, <1>5, <3>1, <3>2, <3>3 DEF AcceptInv, SettledInOrder
    <3>4. CASE j = announced
      BY <1>3, <2>2, <2>3, <3>1, <3>2, <3>4
    <3> QED
      BY <2>1, <3>3, <3>4
  <2>7. SettledOfOneCard'
    <3> SUFFICES ASSUME ReadsSucceed, NEW i \in Settled'
                 PROVE  \E c \in Cards : taken'[i].cards = {c}
      BY DEF SettledOfOneCard
    <3>1. CASE i \in accepted
      BY <1>3, <1>5, <3>1 DEF AcceptInv, SettledOfOneCard
    <3>2. CASE i = announced
      BY <1>1, <1>5, <2>2, <3>2
    <3> QED
      BY <2>1, <3>1, <3>2
  <2> QED
    BY <1>6, <1>7, <2>5, <2>6, <2>7
<1> QED
  BY <1>9, <1>10

\* The invariant is inductive.
LEMMA AcceptInvStep ==
    AcksStandOut /\ NumbersStandOut
      /\ LineInv /\ LineInv' /\ AcceptInv /\ [Next]_vars => AcceptInv'
<1> SUFFICES ASSUME AcksStandOut, NumbersStandOut, LineInv, LineInv', AcceptInv, [Next]_vars PROVE AcceptInv'
  OBVIOUS
<1>1. CASE Next
  <2>1. /\ LinkTypeOK /\ LinkTypeOK' /\ SerialInTurn /\ ReadyIsOfOneCard
        /\ Tracked(Flow, FlowLength, sent) /\ HandIsOneMessage /\ ShortIsIdle
    BY DEF LineInv, AcceptInv
  <2>2. Tracked(Flow, FlowLength, sent)' /\ NothingComesBack
    BY <1>1, <2>1, FlowStep
  <2>3. SerialInTurn' /\ ReadyIsOfOneCard' /\ HandIsOneMessage' /\ ShortIsIdle'
    BY <1>1, <2>1, SerialInTurnStep, ReadyStep, HandStep, ShortStep
  <2>4. (TakenTypeOK /\ NotYetAccepted /\ SettledArePast /\ SettledInOrder
           /\ SettledOfOneCard)'
    BY <1>1, <2>2, OthersSettled, CompleteSettled
  <2> QED
    BY <2>2, <2>3, <2>4 DEF AcceptInv
<1>2. CASE UNCHANGED vars
  <2>1. UNCHANGED <<publisherVars, boardVars, linkVars>>
    BY <1>2 DEF vars
  <2>2. UNCHANGED <<reader, announced, serialnumber, accepted, connection_done,
                    somthing_to_send, buffer, uid, heys, toHost, sent, buff, received,
                    serial, taken>>
    BY <2>1 DEF publisherVars, boardVars, linkVars
  <2>3. Held' = Held /\ FlowLength' = FlowLength /\ Flow' = Flow
    BY <2>2 DEF Held, FlowLength, Flow, MessageLength
  <2>4. Tracked(Flow, FlowLength, sent)'
    BY <2>2, <2>3, TrackedNext DEF AcceptInv
  <2>5. (SerialInTurn /\ ReadyIsOfOneCard /\ HandIsOneMessage /\ ShortIsIdle
           /\ NotYetAccepted /\ TakenTypeOK)'
    BY <2>2 DEF AcceptInv, SerialInTurn, ReadyIsOfOneCard, HandIsOneMessage, ShortIsIdle,
       NotYetAccepted, TakenTypeOK, OnlyText, MessageLength, IsOf, InMessage
  <2>6. Settled' = Settled
    BY <2>2 DEF Settled
  <2>7. SettledArePast'
    BY <2>2, <2>3, <2>6 DEF AcceptInv, SettledArePast, Past, InMessage
  <2>8. SettledInOrder' /\ SettledOfOneCard'
    BY <2>2, <2>6 DEF AcceptInv, SettledInOrder, SettledOfOneCard
  <2> QED
    BY <2>4, <2>5, <2>7, <2>8 DEF AcceptInv
<1> QED
  BY <1>1, <1>2

\* Every behaviour keeps what is accepted apart from what is still to come.
THEOREM AcceptInvariant ==
    AcksStandOut /\ NumbersStandOut => (Spec => [](LineInv /\ AcceptInv))
<1> SUFFICES ASSUME AcksStandOut, NumbersStandOut
             PROVE  Spec => [](LineInv /\ AcceptInv)
  OBVIOUS
<1>1. Init => LineInv /\ AcceptInv
  BY LinkInitInv, AcceptInitInv
<1>2. (LineInv /\ AcceptInv) /\ [Next]_vars => (LineInv /\ AcceptInv)'
  BY LineInvStep, AcceptInvStep
<1> QED
  BY <1>1, <1>2, PTL DEF Spec

----------------------------------------------------------------------------

\* A buffer filled to the end and found good is one message of the board, byte for
\* byte, whatever was left on the line before it, whatever compare_keep_alive and
\* read_blocks return and wherever a restart cut the output of the board off: if
\* two of the acknowledge bytes are found in no field and a serial number is no
\* longer than a field.
THEOREM FilledIsAlwaysOneMessage ==
    AcksStandOut => (Spec => []FilledIsOneMessage)
<1> SUFFICES ASSUME AcksStandOut PROVE Spec => []FilledIsOneMessage
  OBVIOUS
<1>1. Init => HandInv
  BY AcceptInitInv DEF AcceptInv, HandInv
<1>2. LineInv /\ LineInv' /\ HandInv /\ [Next]_vars => HandInv'
  BY HandInvStep
<1>3. HandInv => FilledIsOneMessage
  BY DEF HandInv, HandIsOneMessage, FilledIsOneMessage, IsOf
<1> QED
  BY <1>1, <1>2, <1>3, LineInvariant, PTL DEF Spec

\* The invariant makes acceptances fresh: the message of each is a single one and
\* they follow each other.
LEMMA FreshFromInv == LineInv /\ AcceptInv => AcceptedIsFresh
<1> SUFFICES ASSUME LineInv, AcceptInv, NEW i \in accepted
             PROVE  /\ Cardinality(taken[i].messages) = 1
                    /\ \A j \in accepted \ {i} : taken[i].messages # taken[j].messages
  BY DEF AcceptedIsFresh
<1>1. ASSUME NEW j \in accepted
      PROVE  j \in Nat /\ j \in Settled /\ \E k \in 1 .. sent : taken[j].messages = {k}
  <2>1. j \in Settled
    BY DEF Settled
  <2>2. j \in Nat
    BY DEF LineInv, LinkTypeOK, PublisherTypeOK
  <2> QED
    BY <2>1, <2>2 DEF AcceptInv, SettledArePast
<1>2. PICK k \in 1 .. sent : taken[i].messages = {k}
  BY <1>1
<1>3. Cardinality(taken[i].messages) = 1
  BY <1>2, FS_Singleton
<1>4. ASSUME NEW j \in accepted \ {i} PROVE taken[i].messages # taken[j].messages
  <2>1. PICK l \in 1 .. sent : taken[j].messages = {l}
    BY <1>1
  <2>2. i < j \/ j < i
    BY <1>1
  <2>3. k < l \/ l < k
    BY <1>1, <1>2, <2>1, <2>2 DEF AcceptInv, SettledInOrder
  <2>4. k # l
    BY <2>3
  <2> QED
    BY <1>2, <2>1, <2>4
<1> QED
  BY <1>3, <1>4

\* No message is accepted twice, each acceptance is of one message of the board and
\* its own serial number: for any sizes, leftovers on the line, misread answers,
\* reads that fail and restarts of the board, with bytes and a table that meet the
\* two conditions.
THEOREM AcceptedIsAlwaysFresh ==
    AcksStandOut /\ NumbersStandOut => (Spec => []AcceptedIsFresh)
BY AcceptInvariant, FreshFromInv, PTL

\* The serial number looked up is one of what was taken, so a card of the table is
\* among the cards of what is accepted.
NumberIsTaken ==
    /\ reader \in LookedUp => serialnumber \in taken[announced].cards
    /\ \A i \in accepted : \E c \in Allowed : c \in taken[i].cards

\* Nothing is looked up or accepted at the start.
LEMMA NumberInit == Init => NumberIsTaken
BY DEF Init, PublisherInit, NumberIsTaken, LookedUp

\* SerialComplete brings the number into what is taken, SerialAllowed accepts it.
LEMMA NumberStep ==
    LineInv /\ AcceptInv /\ NumberIsTaken /\ [Next]_vars => NumberIsTaken'
<1> SUFFICES ASSUME LineInv, AcceptInv, NumberIsTaken, [Next]_vars
             PROVE  NumberIsTaken'
  OBVIOUS
<1>0. /\ announced \in 0 .. MaxAnnounced /\ accepted \subseteq 1 .. announced
      /\ NotYetAccepted /\ TakenTypeOK
  BY DEF LineInv, LinkTypeOK, PublisherTypeOK, AcceptInv
<1>1. CASE Next /\ SerialComplete
  <2>1. /\ reader = "serial" /\ announced' = announced /\ accepted' = accepted
        /\ \E c \in Owners(serial) : TakenAs(c)
    BY <1>1 DEF SerialComplete, SerialRead, Move, database
  <2>2. announced \in Announcements
    BY <2>1, PublisherAssumption
       DEF LineInv, LinkTypeOK, PublisherTypeOK, PublisherInv, Announcements
  <2>3. serialnumber' \in taken'[announced'].cards
    BY <1>0, <2>1, <2>2 DEF TakenAs, TakenTypeOK
  <2>4. \A i \in accepted' : taken'[i] = taken[i]
    BY <1>0, <2>1 DEF NotYetAccepted, TakenAs, TakenTypeOK
  <2> QED
    BY <2>1, <2>3, <2>4 DEF NumberIsTaken
<1>2. CASE Next /\ ~SerialComplete
  <2>1. taken' = taken
    BY <1>2, OtherSteps
  <2> SUFFICES ASSUME \/ UNCHANGED publisherVars
                      \/ RecognizeAnnouncement \/ MessageValid \/ MessageInvalid
                      \/ PublisherAlone
               PROVE  NumberIsTaken'
    BY <1>2, OtherSteps
  <2>2. CASE UNCHANGED publisherVars
    BY <2>1, <2>2 DEF publisherVars, NumberIsTaken
  <2>3. CASE SerialAllowed
    BY <2>1, <2>3 DEF SerialAllowed, Move, NumberIsTaken, LookedUp
  <2>4. CASE ClearUsername \/ ClearPassword
    BY <2>1, <2>4 DEF ClearUsername, ClearPassword, Move, NumberIsTaken, LookedUp, database
  <2>5. CASE \/ RecognizeAnnouncement \/ MessageValid \/ MessageInvalid
             \/ SerialUnknown \/ DatabaseError \/ Publish \/ Decrypt
    <3>1. reader' \notin LookedUp /\ accepted' = accepted
      BY <2>5 DEF RecognizeAnnouncement, MessageValid, MessageInvalid, SerialUnknown,
              DatabaseError, Publish, Decrypt, DecryptSome, DecryptRest, Move,
              LookedUp, database
    <3> QED
      BY <2>1, <3>1 DEF NumberIsTaken
  <2> QED
    BY <2>2, <2>3, <2>4, <2>5 DEF PublisherAlone
<1>3. CASE UNCHANGED vars
  BY <1>3 DEF vars, publisherVars, linkVars, NumberIsTaken
<1> QED
  BY <1>1, <1>2, <1>3

\* Behind every acceptance is a card of the table that was looked up for it.
LEMMA NumberInvariant ==
    AcksStandOut /\ NumbersStandOut => (Spec => []NumberIsTaken)
BY NumberInit, NumberStep, AcceptInvariant, PTL DEF Spec

\* As long as the reads of a card succeed and say so, whatever is accepted is of one
\* card, which the table has: even when the board restarts while it writes.
THEOREM AcceptedIsAlwaysOfOneCard ==
    AcksStandOut /\ NumbersStandOut /\ ReadsSucceed => (Spec => []AcceptedIsOfOneCard)
<1> SUFFICES ASSUME AcksStandOut, NumbersStandOut, ReadsSucceed
             PROVE  Spec => []AcceptedIsOfOneCard
  OBVIOUS
<1>1. AcceptInv /\ NumberIsTaken => AcceptedIsOfOneCard
  <2> SUFFICES ASSUME AcceptInv, NumberIsTaken, NEW i \in accepted
               PROVE  \E c \in Allowed : taken[i].cards = {c}
    BY DEF AcceptedIsOfOneCard
  <2>1. i \in Settled
    BY DEF Settled
  <2>2. PICK d \in Cards : taken[i].cards = {d}
    BY <2>1 DEF AcceptInv, SettledOfOneCard
  <2>3. PICK c \in Allowed : c \in taken[i].cards
    BY DEF NumberIsTaken
  <2> QED
    BY <2>2, <2>3
<1> QED
  BY <1>1, AcceptInvariant, NumberInvariant, PTL

----------------------------------------------------------------------------

\* What has been delivered, and what is on offer, in terms of CardDelivery.
Delivered == UNION {taken[i].messages : i \in Published}

Offered == IF is_data_present THEN taken[announced].messages ELSE {}

\* At the start nothing is.
LEMMA DeliveryInit == Init => Delivery!Init
<1> SUFFICES ASSUME Init PROVE Delivery!Init
  OBVIOUS
<1>1. sent = 0 /\ accepted = {} /\ is_data_present = FALSE /\ reader = "link"
  BY DEF Init, BoardInit, PublisherInit
<1>2. Published = {}
  BY <1>1 DEF Published
<1>3. UNION {taken[i].messages : i \in Published} = {}
  BY <1>2
<1> QED
  BY <1>1, <1>3 DEF Delivery!Init

\* Publish delivers the message that was accepted last.
LEMMA PublishDelivers ==
    ASSUME LineInv, AcceptInv, Publish, UNCHANGED <<boardVars, linkVars>>
    PROVE  Delivery!Deliver
<1>1. /\ reader = "publish" /\ reader' = "decrypt_username" /\ is_data_present' = TRUE
      /\ UNCHANGED <<announced, accepted, taken, sent>>
  BY DEF Publish, Move, database, boardVars, linkVars
<1>2. announced \in accepted /\ is_data_present = FALSE
  BY <1>1 DEF LineInv, PublisherInv, PublisherTypeOK, ArraysByPlace, Decrypting
<1>3. Published = accepted \ {announced} /\ Published' = accepted
  BY <1>1 DEF Published
<1>4. announced \in Settled /\ announced \in Nat /\ accepted \subseteq 1 .. announced
  BY <1>2 DEF Settled, LineInv, LinkTypeOK, PublisherTypeOK
<1>5. PICK k \in 1 .. sent : taken[announced].messages = {k}
  BY <1>4 DEF AcceptInv, SettledArePast
<1>6. ASSUME NEW d \in Delivered PROVE d < k
  <2>1. PICK i \in Published : d \in taken[i].messages
    BY DEF Delivered
  <2>2. i \in Settled /\ i < announced
    BY <1>3, <1>4, <2>1 DEF Settled
  <2> QED
    BY <1>4, <1>5, <2>1, <2>2 DEF AcceptInv, SettledInOrder
<1>7. Delivered' = Delivered \cup {k}
  <2>1. Delivered' = UNION {taken[i].messages : i \in accepted}
    BY <1>1, <1>3 DEF Delivered
  <2>2. Delivered = UNION {taken[i].messages : i \in accepted \ {announced}}
    BY <1>3 DEF Delivered
  <2> QED
    BY <1>2, <1>5, <2>1, <2>2
<1>8. Offered = {} /\ Offered' = {k}
  BY <1>1, <1>2, <1>5 DEF Offered
<1> QED
  BY <1>1, <1>6, <1>7, <1>8 DEF Delivery!Deliver, Delivered, Offered

\* Every other step sends, withdraws or delivers nothing.
LEMMA DeliveryStep ==
    ASSUME LineInv, AcceptInv, Next PROVE [Delivery!Next]_(Delivery!deliveryVars)
<1> DEFINE same == Delivered' = Delivered /\ Offered' = Offered
<1>a. ASSUME same, sent' = sent \/ sent' = sent + 1
      PROVE  [Delivery!Next]_(Delivery!deliveryVars)
  BY <1>a DEF Delivery!Next, Delivery!Send, Delivery!deliveryVars, Delivered, Offered
<1>b. ASSUME UNCHANGED <<reader, accepted, announced, taken, is_data_present>> PROVE same
  BY <1>b DEF Delivered, Offered, Published
<1>0. /\ announced \in Nat /\ accepted \subseteq 1 .. announced
      /\ is_data_present \in BOOLEAN
  BY DEF LineInv, LinkTypeOK, PublisherTypeOK
<1>1. CASE SerialComplete
  <2>1. /\ reader = "serial" /\ reader' = "clear_username"
        /\ UNCHANGED <<announced, accepted, is_data_present, sent>>
        /\ \A i \in Announcements \ {announced} : taken'[i] = taken[i]
    BY <1>1 DEF SerialComplete, SerialRead, TakenAs, Move, database, boardVars, AcceptInv,
                TakenTypeOK
  <2>2. announced \notin accepted /\ is_data_present = FALSE
    BY <1>0, <2>1 DEF AcceptInv, NotYetAccepted, LineInv, PublisherInv, ArraysByPlace, Decrypting
  <2>3. accepted \subseteq Announcements \ {announced}
    BY <2>2, PublisherAssumption
       DEF LineInv, LinkTypeOK, PublisherTypeOK, Announcements
  <2>4. Published = accepted /\ Published' = accepted
    BY <2>1 DEF Published
  <2>5. \A i \in accepted : taken'[i] = taken[i]
    BY <2>1, <2>3
  <2>6. Delivered' = Delivered
    BY <2>4, <2>5 DEF Delivered
  <2>7. Offered' = Offered
    BY <2>1, <2>2 DEF Offered
  <2> QED
    BY <1>a, <2>1, <2>6, <2>7
<1>2. CASE ~SerialComplete
  <2>0. taken' = taken /\ (sent' = sent \/ sent' = sent + 1)
    <3>1. sent' = sent \/ sent' = sent + 1
      BY DEF Next, HostNext, BoardStep, BoardNext, SendHey, PollAnnouncement, PollOther,
             Poll, ReceiveChar, WaitMessageValid, WaitMessageInvalid, ReceiveSerial,
             SerialComplete, ThreadStep, LineOnly, Announce, KeepAlive, EmptySerial,
             ReadCard, Reset, boardVars
    <3> QED
      BY <1>2, <3>1, OtherSteps
  <2>1. CASE UNCHANGED publisherVars
    BY <1>a, <1>b, <2>0, <2>1 DEF publisherVars
  <2>2. CASE ~(UNCHANGED publisherVars)
    <3>0. sent' = sent
      BY <2>2 DEF Next, HostNext, BoardStep, SendHey, PollAnnouncement, PollOther,
             Poll, ReceiveChar, WaitMessageValid, WaitMessageInvalid, ReceiveSerial,
             SerialComplete, ThreadStep, LineOnly, boardVars
    <3>1. CASE RecognizeAnnouncement
      <4>1. /\ reader = "link" /\ reader' = "receive" /\ is_data_present' = FALSE
            /\ accepted' = accepted
        BY <3>1 DEF RecognizeAnnouncement, Move, database
      <4>2. Delivered' = Delivered
        BY <2>0, <4>1 DEF Delivered, Published
      <4>3. Offered' = {}
        BY <4>1 DEF Offered
      <4> QED
        BY <3>0, <4>2, <4>3 DEF Delivery!Next, Delivery!Withdraw, Delivered, Offered
    <3>2. CASE SerialAllowed
      <4>1. /\ reader = "check" /\ reader' = "publish"
            /\ accepted' = accepted \cup {announced}
            /\ UNCHANGED <<announced, is_data_present>>
        BY <3>2 DEF SerialAllowed, Move
      <4>2. announced \notin accepted
        BY <4>1 DEF AcceptInv, NotYetAccepted, LookedUp
      <4>3. Published' = Published
        BY <4>1, <4>2 DEF Published
      <4>4. Delivered' = Delivered /\ Offered' = Offered
        BY <2>0, <4>1, <4>3 DEF Delivered, Offered
      <4> QED
        BY <1>a, <3>0, <4>4
    <3>3. CASE Publish
      <4>1. UNCHANGED <<boardVars, linkVars>>
        BY <1>2, <2>2, <3>3
           DEF Publish, Move, Next, HostNext, BoardStep, SendHey, PollAnnouncement, PollOther,
               Poll, ReceiveChar, WaitMessageValid, WaitMessageInvalid, ReceiveSerial,
               ThreadStep, MessageValid, MessageInvalid
      <4> QED
        BY <3>3, <4>1, PublishDelivers DEF Delivery!Next
    <3>4. CASE MessageValid \/ MessageInvalid \/ ClearUsername \/ ClearPassword
               \/ SerialUnknown \/ DatabaseError \/ Decrypt
      <4>1. /\ reader # "publish" /\ reader' # "publish"
            /\ UNCHANGED <<announced, accepted, is_data_present>>
        BY <3>4 DEF MessageValid, MessageInvalid, ClearUsername, ClearPassword, SerialUnknown,
                DatabaseError, Decrypt, DecryptSome, DecryptRest, Move, database
      <4>2. Delivered' = Delivered /\ Offered' = Offered
        BY <2>0, <4>1 DEF Delivered, Offered, Published
      <4> QED
        BY <1>a, <3>0, <4>2
    <3> QED
      BY <1>2, <2>2, <3>1, <3>2, <3>3, <3>4, OtherSteps DEF PublisherAlone
  <2> QED
    BY <2>1, <2>2
<1> QED
  BY <1>1, <1>2

\* Board, line and serial thread implement CardDelivery: messages go on offer one at
\* a time, none twice and none behind a later one.
THEOREM LinkDeliversInOrder ==
    AcksStandOut /\ NumbersStandOut => (Spec => DeliversInOrder)
<1> SUFFICES ASSUME AcksStandOut, NumbersStandOut PROVE Spec => DeliversInOrder
  OBVIOUS
<1>1. LineInv /\ AcceptInv /\ [Next]_vars => [Delivery!Next]_(Delivery!deliveryVars)
  <2> SUFFICES ASSUME LineInv, AcceptInv, [Next]_vars
               PROVE  [Delivery!Next]_(Delivery!deliveryVars)
    OBVIOUS
  <2>1. CASE UNCHANGED vars
    <3>1. UNCHANGED <<reader, accepted, announced, taken, is_data_present, sent>>
      BY <2>1 DEF vars, publisherVars, boardVars, linkVars
    <3> QED
      BY <3>1 DEF Delivery!deliveryVars, Published
  <2> QED
    BY <2>1, DeliveryStep
<1> QED
  BY <1>1, DeliveryInit, AcceptInvariant, PTL DEF Spec, DeliversInOrder, Delivery!Spec

=============================================================================
