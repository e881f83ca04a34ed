------------------------- MODULE CardWriter_proofs -------------------------
(***************************************************************************)
(* Theorems about the card writer, for any length of the fields and of the  *)
(* chunks, any data and any loss on the line.                               *)
(***************************************************************************)
EXTENDS CardWriter, TLAPS

\* Places of this run that the board may still read.
ToCome == {q \in Nat : q \in line \/ q >= chunks * Chunk}

\* Of the current field n bytes have been read, none before its turn and with
\* what follows in order behind them.
InTurn(b, n) ==
    /\ \A a \in Blocks : a < b =>
         \A i \in 0 .. BlockLen - 1 : field[a][i] = a * Stride + i
    /\ \A q \in ToCome : b * Stride + n <= q
    /\ \A i \in 0 .. n - 1 :
         /\ b * Stride + i <= field[b][i]
         /\ \A q \in ToCome : field[b][i] + (n - i) <= q

\* A field cut short was taken for whole: the line is ahead by a chunk at least.
Fooled(b, n) == \A q \in ToCome : b * Stride + n + Chunk <= q

\* What is on the line is of one chunk, and there is always one more to be sent.
HostInv ==
    /\ host = "sending" => chunks < AllChunks
    /\ host = "checking" => serial # Nothing
    /\ \A q \in line : chunks * Chunk - Chunk <= q /\ q < chunks * Chunk

\* In the loop after a refusal the bytes read are of the chunk that was refused.
ReadInv ==
    /\ inLoop => /\ board.connection_done = 0
                 /\ \A q \in line : chunks * Chunk - Chunk + 1 + board.num_of_byte <= q
    /\ board.connection_done = 0 => board.block_ready = 0
    /\ board.connection_done = 1 /\ board.block_ready = 0 =>
         \/ InTurn(board.num_of_block, board.num_of_byte)
         \/ Fooled(board.num_of_block, board.num_of_byte)
    /\ board.block_ready = 1 => board.num_of_block = 0 /\ board.num_of_byte = 0
    /\ ReadyIsWhole

\* Step k of field f comes before the one that write_blocks has reached.
Before(f, k) == f < writing.field \/ (f = writing.field /\ k < writing.step)

Holds(c, f, k) ==
    content[c][Steps(f)[k].block] = [run |-> run, field |-> f, part |-> Steps(f)[k].part]

StepsOf(f) == 1 .. Len(Steps(f))

\* A card being written whose steps all went well holds what the steps before wrote.
CardInv ==
    /\ writing.card \in Cards => writing.step \in StepsOf(writing.field)
    /\ writing.card \in Cards \ failed =>
         \A f \in Blocks : \A k \in StepsOf(f) :
             Before(f, k) /\ ~Steps(f)[k].key => Holds(writing.card, f, k)
    /\ KeyBeforeWrite
    /\ PrintedIsWritten

WriterInv == WriterTypeOK /\ HostInv /\ ReadInv /\ CardInv

-----------------------------------------------------------------------------

(***************************************************************************)
(* Lemmas about the places.                                                *)
(***************************************************************************)

\* A field is a whole number of chunks.
LEMMA WholeChunks ==
    /\ BlockLen \div Chunk \in Nat
    /\ (BlockLen \div Chunk) * Chunk = BlockLen
    /\ Chunk <= BlockLen
    /\ AllChunks \in Nat
    /\ AllChunks * Chunk = NumBlocks * Stride
<1>1. BlockLen \div Chunk \in Nat /\ (BlockLen \div Chunk) * Chunk = BlockLen
  BY WriterAssumption
<1>2. Chunk <= BlockLen
  BY <1>1, WriterAssumption
<1> QED
  BY <1>1, <1>2, WriterAssumption DEF AllChunks, NumBlocks, Stride

\* Whoever has sent beyond the beginning of a chunk has sent the chunk.
LEMMA ChunkEnds ==
    ASSUME NEW n \in Nat, NEW k \in Nat, k * Chunk < n * Chunk
    PROVE  k * Chunk + Chunk <= n * Chunk
<1> USE WriterAssumption
<1>1. k < n
  <2>1. SUFFICES ASSUME n <= k PROVE n * Chunk <= k * Chunk
    OBVIOUS
  <2> QED
    BY <2>1
<1>2. (k + 1) * Chunk <= n * Chunk
  BY <1>1
<1> QED
  BY <1>2

\* A chunk lies within the places of the data.
LEMMA ChunkWithin ==
    ASSUME NEW n \in Nat, n < AllChunks
    PROVE  /\ ChunkPlaces(n) \subseteq Places
           /\ \A q \in ChunkPlaces(n) :
                q \in Nat /\ n * Chunk <= q /\ q < (n + 1) * Chunk
<1>1. (n + 1) * Chunk <= AllChunks * Chunk
  BY WholeChunks, WriterAssumption
<1>2. n * Chunk \in Nat /\ (n + 1) * Chunk = n * Chunk + Chunk
  BY WriterAssumption
<1> QED
  BY <1>1, <1>2, WholeChunks, WriterAssumption DEF ChunkPlaces, Places

\* A byte at the place of the acknowledge byte or later is taken for it only if it
\* is it, or one of the data of a later field.
LEMMA AckOrLater ==
    ASSUME NEW b \in Blocks, NEW p \in Places, Acks(p, b), b * Stride + BlockLen <= p
    PROVE  p = b * Stride + BlockLen \/ (b + 1) * Stride <= p
<1>1. CASE p = AckPlace(b)
  BY <1>1 DEF AckPlace
<1>2. CASE <<p, b>> \in Twins
  <2>1. p \in DataPlaces
    BY <1>2, WriterAssumption
  <2>2. PICK a \in Blocks : a * Stride <= p /\ p < a * Stride + BlockLen
    BY <2>1 DEF DataPlaces, AckPlace
  <2>3. b + 1 <= a
    <3>1. a \in Nat /\ b \in Nat /\ Stride \in Nat
      BY WriterAssumption DEF Blocks, NumBlocks, Stride
    <3>2. a * Stride > b * Stride
      BY <2>2, <3>1, WriterAssumption DEF Places
    <3> QED
      BY <3>1, <3>2 DEF Blocks, NumBlocks
  <2>4. (b + 1) * Stride <= a * Stride
    BY <2>3, WriterAssumption DEF Blocks, NumBlocks, Stride
  <2> QED
    BY <2>2, <2>4, WriterAssumption DEF Blocks, NumBlocks, Stride, Places
<1> QED
  BY <1>1, <1>2 DEF Acks

(***************************************************************************)
(* Lemmas about the tables of write_blocks and read_blocks.                *)
(***************************************************************************)

\* Every step is on a block of the card.
LEMMA StepTypes ==
    ASSUME NEW f \in Blocks
    PROVE  /\ Len(Steps(f)) \in 5 .. 6
           /\ \A k \in StepsOf(f) :
                /\ Steps(f)[k].block \in CardBlocks
                /\ Steps(f)[k].part \in {0} \union Parts
<1>1. f = 0 \/ f = 1 \/ f = 2 \/ f = 3
  BY DEF Blocks, NumBlocks
<1>2. CASE f = 0
  <2>1. Steps(f) = <<Auth(7), Put(4, 1), Put(5, 2), Put(6, 3), Auth(11), Put(8, 4)>>
    BY <1>2 DEF Steps
  <2> QED
    BY <2>1 DEF StepsOf, Auth, Put, CardBlocks, Parts
<1>3. CASE f = 1
  <2>1. Steps(f) = <<Put(9, 1), Put(10, 2), Auth(15), Put(12, 3), Put(13, 4)>>
    BY <1>3 DEF Steps
  <2> QED
    BY <2>1 DEF StepsOf, Auth, Put, CardBlocks, Parts
<1>4. CASE f = 2
  <2>1. Steps(f) = <<Put(14, 1), Auth(19), Put(16, 2), Put(17, 3), Put(18, 4)>>
    BY <1>4 DEF Steps
  <2> QED
    BY <2>1 DEF StepsOf, Auth, Put, CardBlocks, Parts
<1>5. CASE f = 3
  <2>1. Steps(f) = <<Auth(23), Put(20, 1), Put(21, 2), Put(22, 3), Auth(26), Put(24, 4)>>
    BY <1>5 DEF Steps
  <2> QED
    BY <2>1 DEF StepsOf, Auth, Put, CardBlocks, Parts
<1> QED
  BY <1>1, <1>2, <1>3, <1>4, <1>5

\* Steps are counted from 1.
LEMMA StepNumbers ==
    ASSUME NEW f \in Blocks
    PROVE  1 \in StepsOf(f) /\ \A k \in StepsOf(f) : k \in Nat /\ k >= 1
<1>1. PICK m \in 5 .. 6 : m = Len(Steps(f))
  BY StepTypes
<1> QED
  BY <1>1 DEF StepsOf

\* The sector of a block that is written is the one of the step before.
LEMMA NextInSector ==
    ASSUME NEW f \in Blocks, NEW k \in StepsOf(f), k + 1 \in StepsOf(f), ~Steps(f)[k + 1].key
    PROVE  Sector(Steps(f)[k + 1].block) = Sector(Steps(f)[k].block)
<1>1. f = 0 \/ f = 1 \/ f = 2 \/ f = 3
  BY DEF Blocks, NumBlocks
<1>2. CASE f = 0
  <2>1. Steps(f) = <<Auth(7), Put(4, 1), Put(5, 2), Put(6, 3), Auth(11), Put(8, 4)>>
    BY <1>2 DEF Steps
  <2> QED
    BY <2>1 DEF StepsOf, Auth, Put, Sector
<1>3. CASE f = 1
  <2>1. Steps(f) = <<Put(9, 1), Put(10, 2), Auth(15), Put(12, 3), Put(13, 4)>>
    BY <1>3 DEF Steps
  <2> QED
    BY <2>1 DEF StepsOf, Auth, Put, Sector
<1>4. CASE f = 2
  <2>1. Steps(f) = <<Put(14, 1), Auth(19), Put(16, 2), Put(17, 3), Put(18, 4)>>
    BY <1>4 DEF Steps
  <2> QED
    BY <2>1 DEF StepsOf, Auth, Put, Sector
<1>5. CASE f = 3
  <2>1. Steps(f) = <<Auth(23), Put(20, 1), Put(21, 2), Put(22, 3), Auth(26), Put(24, 4)>>
    BY <1>5 DEF Steps
  <2> QED
    BY <2>1 DEF StepsOf, Auth, Put, Sector
<1> QED
  BY <1>1, <1>2, <1>3, <1>4, <1>5

\* Fields 1 and 2 begin in the sector in which the field before them ends.
LEMMA NextFieldInSector ==
    ASSUME NEW f \in Blocks, f + 1 \in Blocks, ~Steps(f + 1)[1].key
    PROVE  Sector(Steps(f + 1)[1].block) = Sector(Steps(f)[Len(Steps(f))].block)
<1>1. f = 0 \/ f = 1 \/ f = 2
  BY DEF Blocks, NumBlocks
<1>2. CASE f = 0
  <2>1. /\ Steps(f) = <<Auth(7), Put(4, 1), Put(5, 2), Put(6, 3), Auth(11), Put(8, 4)>>
        /\ Steps(f + 1) = <<Put(9, 1), Put(10, 2), Auth(15), Put(12, 3), Put(13, 4)>>
    <3>1. f + 1 = 1
      BY <1>2
    <3> QED
      BY <1>2, <3>1 DEF Steps
  <2> QED
    BY <2>1 DEF Auth, Put, Sector
<1>3. CASE f = 1
  <2>1. /\ Steps(f) = <<Put(9, 1), Put(10, 2), Auth(15), Put(12, 3), Put(13, 4)>>
        /\ Steps(f + 1) = <<Put(14, 1), Auth(19), Put(16, 2), Put(17, 3), Put(18, 4)>>
    <3>1. f + 1 = 2
      BY <1>3
    <3> QED
      BY <1>3, <3>1 DEF Steps
  <2> QED
    BY <2>1 DEF Auth, Put, Sector
<1>4. CASE f = 2
  <2>1. Steps(f + 1)
            = <<Auth(23), Put(20, 1), Put(21, 2), Put(22, 3), Auth(26), Put(24, 4)>>
    <3>1. f + 1 = 3
      BY <1>4
    <3> QED
      BY <3>1 DEF Steps
  <2> QED
    BY <2>1 DEF Auth
<1> QED
  BY <1>1, <1>2, <1>3, <1>4

\* The first thing done to a card is to authenticate.
LEMMA FirstIsKey == Steps(0)[1].key
<1>1. Steps(0) = <<Auth(7), Put(4, 1), Put(5, 2), Put(6, 3), Auth(11), Put(8, 4)>>
  BY DEF Steps
<1>2. Steps(0)[1] = Auth(7)
  BY <1>1
<1> QED
  BY <1>2 DEF Auth

\* The blocks written in a field are in their range and in the order of the steps.
LEMMA BlocksOfField ==
    ASSUME NEW f \in Blocks, NEW k \in StepsOf(f), ~Steps(f)[k].key
    PROVE  /\ 5 * f + 4 <= Steps(f)[k].block
           /\ f < 3 => Steps(f)[k].block <= 5 * f + 8
           /\ \A j \in StepsOf(f) :
                j < k /\ ~Steps(f)[j].key => Steps(f)[j].block < Steps(f)[k].block
<1>1. f = 0 \/ f = 1 \/ f = 2 \/ f = 3
  BY DEF Blocks, NumBlocks
<1>2. CASE f = 0
  <2>1. Steps(f) = <<Auth(7), Put(4, 1), Put(5, 2), Put(6, 3), Auth(11), Put(8, 4)>>
    BY <1>2 DEF Steps
  <2>2. /\ Steps(f)[2].block = 4 /\ Steps(f)[3].block = 5
        /\ Steps(f)[4].block = 6 /\ Steps(f)[6].block = 8
    BY <2>1 DEF Put
  <2>3. \A j \in StepsOf(f) :
          j \in {2, 3, 4, 6} \/ Steps(f)[j].key
    BY <2>1 DEF StepsOf, Auth
  <2>4. \A j \in StepsOf(f) : ~Steps(f)[j].key => j \in {2, 3, 4, 6}
    BY <2>3
  <2> QED
    BY <1>2, <2>2, <2>4
<1>3. CASE f = 1
  <2>1. Steps(f) = <<Put(9, 1), Put(10, 2), Auth(15), Put(12, 3), Put(13, 4)>>
    BY <1>3 DEF Steps
  <2>2. /\ Steps(f)[1].block = 9 /\ Steps(f)[2].block = 10
        /\ Steps(f)[4].block = 12 /\ Steps(f)[5].block = 13
    BY <2>1 DEF Put
  <2>3. \A j \in StepsOf(f) :
          j \in {1, 2, 4, 5} \/ Steps(f)[j].key
    BY <2>1 DEF StepsOf, Auth
  <2>4. \A j \in StepsOf(f) : ~Steps(f)[j].key => j \in {1, 2, 4, 5}
    BY <2>3
  <2> QED
    BY <1>3, <2>2, <2>4
<1>4. CASE f = 2
  <2>1. Steps(f) = <<Put(14, 1), Auth(19), Put(16, 2), Put(17, 3), Put(18, 4)>>
    BY <1>4 DEF Steps
  <2>2. /\ Steps(f)[1].block = 14 /\ Steps(f)[3].block = 16
        /\ Steps(f)[4].block = 17 /\ Steps(f)[5].block = 18
    BY <2>1 DEF Put
  <2>3. \A j \in StepsOf(f) :
          j \in {1, 3, 4, 5} \/ Steps(f)[j].key
    BY <2>1 DEF StepsOf, Auth
  <2>4. \A j \in StepsOf(f) : ~Steps(f)[j].key => j \in {1, 3, 4, 5}
    BY <2>3
  <2> QED
    BY <1>4, <2>2, <2>4
<1>5. CASE f = 3
  <2>1. Steps(f) = <<Auth(23), Put(20, 1), Put(21, 2), Put(22, 3), Auth(26), Put(24, 4)>>
    BY <1>5 DEF Steps
  <2>2. /\ Steps(f)[2].block = 20 /\ Steps(f)[3].block = 21
        /\ Steps(f)[4].block = 22 /\ Steps(f)[6].block = 24
    BY <2>1 DEF Put
  <2>3. \A j \in StepsOf(f) :
          j \in {2, 3, 4, 6} \/ Steps(f)[j].key
    BY <2>1 DEF StepsOf, Auth
  <2>4. \A j \in StepsOf(f) : ~Steps(f)[j].key => j \in {2, 3, 4, 6}
    BY <2>3
  <2> QED
    BY <1>5, <2>2, <2>4
<1> QED
  BY <1>1, <1>2, <1>3, <1>4, <1>5

\* Every block the reader looks at is written in some step with the part it expects.
LEMMA ReadIsWritten ==
    ASSUME NEW f \in Blocks, NEW i \in Parts
    PROVE  \E k \in StepsOf(f) :
             ~Steps(f)[k].key /\ Steps(f)[k].block = ReadFrom(f)[i] /\ Steps(f)[k].part = i
<1>1. f = 0 \/ f = 1 \/ f = 2 \/ f = 3
  BY DEF Blocks, NumBlocks
<1>2. CASE f = 0
  <2>1. /\ Steps(f) = <<Auth(7), Put(4, 1), Put(5, 2), Put(6, 3), Auth(11), Put(8, 4)>>
        /\ ReadFrom(f) = <<4, 5, 6, 8>>
    BY <1>2 DEF Steps, ReadFrom
  <2>2. i = 1 \/ i = 2 \/ i = 3 \/ i = 4
    BY DEF Parts
  <2>3. {2, 3, 4, 6} \subseteq StepsOf(f)
    BY <2>1 DEF StepsOf
  <2>4. /\ Steps(f)[2] = Put(ReadFrom(f)[1], 1) /\ Steps(f)[3] = Put(ReadFrom(f)[2], 2)
        /\ Steps(f)[4] = Put(ReadFrom(f)[3], 3) /\ Steps(f)[6] = Put(ReadFrom(f)[4], 4)
    BY <2>1
  <2> QED
    BY <2>2, <2>3, <2>4 DEF Put
<1>3. CASE f = 1
  <2>1. /\ Steps(f) = <<Put(9, 1), Put(10, 2), Auth(15), Put(12, 3), Put(13, 4)>>
        /\ ReadFrom(f) = <<9, 10, 12, 13>>
    BY <1>3 DEF Steps, ReadFrom
  <2>2. i = 1 \/ i = 2 \/ i = 3 \/ i = 4
    BY DEF Parts
  <2>3. {1, 2, 4, 5} \subseteq StepsOf(f)
    BY <2>1 DEF StepsOf
  <2>4. /\ Steps(f)[1] = Put(ReadFrom(f)[1], 1) /\ Steps(f)[2] = Put(ReadFrom(f)[2], 2)
        /\ Steps(f)[4] = Put(ReadFrom(f)[3], 3) /\ Steps(f)[5] = Put(ReadFrom(f)[4], 4)
    BY <2>1
  <2> QED
    BY <2>2, <2>3, <2>4 DEF Put
<1>4. CASE f = 2
  <2>1. /\ Steps(f) = <<Put(14, 1), Auth(19), Put(16, 2), Put(17, 3), Put(18, 4)>>
        /\ ReadFrom(f) = <<14, 16, 17, 18>>
    BY <1>4 DEF Steps, ReadFrom
  <2>2. i = 1 \/ i = 2 \/ i = 3 \/ i = 4
    BY DEF Parts
  <2>3. {1, 3, 4, 5} \subseteq StepsOf(f)
    BY <2>1 DEF StepsOf
  <2>4. /\ Steps(f)[1] = Put(ReadFrom(f)[1], 1) /\ Steps(f)[3] = Put(ReadFrom(f)[2], 2)
        /\ Steps(f)[4] = Put(ReadFrom(f)[3], 3) /\ Steps(f)[5] = Put(ReadFrom(f)[4], 4)
    BY <2>1
  <2> QED
    BY <2>2, <2>3, <2>4 DEF Put
<1>5. CASE f = 3
  <2>1. /\ Steps(f) = <<Auth(23), Put(20, 1), Put(21, 2), Put(22, 3), Auth(26), Put(24, 4)>>
        /\ ReadFrom(f) = <<20, 21, 22, 24>>
    BY <1>5 DEF Steps, ReadFrom
  <2>2. i = 1 \/ i = 2 \/ i = 3 \/ i = 4
    BY DEF Parts
  <2>3. {2, 3, 4, 6} \subseteq StepsOf(f)
    BY <2>1 DEF StepsOf
  <2>4. /\ Steps(f)[2] = Put(ReadFrom(f)[1], 1) /\ Steps(f)[3] = Put(ReadFrom(f)[2], 2)
        /\ Steps(f)[4] = Put(ReadFrom(f)[3], 3) /\ Steps(f)[6] = Put(ReadFrom(f)[4], 4)
    BY <2>1
  <2> QED
    BY <2>2, <2>3, <2>4 DEF Put
<1> QED
  BY <1>1, <1>2, <1>3, <1>4, <1>5

-----------------------------------------------------------------------------

(***************************************************************************)
(* Types, by the parts of the system.                                      *)
(***************************************************************************)

Hosts == {"idle", "sending", "waiting", "checking", "done"}

HostType ==
    /\ host \in Hosts
    /\ run \in 0 .. MaxRuns
    /\ chunks \in 0 .. AllChunks
    /\ serial \in Cards \union {NotACard, Nothing}
    /\ registered \subseteq Cards \union {NotACard}

LineType == line \subseteq Places /\ lost \in 0 .. MaxLost

Boards == [connection_done : {0, 1}, num_of_block : Blocks,
           num_of_byte : 0 .. BlockLen, block_ready : {0, 1}]

InputType ==
    /\ board \in Boards
    /\ inLoop \in BOOLEAN
    /\ field \in [Blocks -> [0 .. BlockLen -> Places \union {Unset}]]
    /\ printed \in Cards \union {NotACard, Nothing}

Writings == [card : Cards \union {Nothing}, field : Blocks, step : 1 .. 6, sector : 0 .. 6]

CardType ==
    /\ writing \in Writings
    /\ content \in [Cards -> [CardBlocks -> [run : 0 .. MaxRuns, field : Blocks,
                                             part : {0} \union Parts]]]
    /\ failed \subseteq Cards

\* The type invariant is made of these.
LEMMA TypeParts == WriterTypeOK <=> HostType /\ LineType /\ InputType /\ CardType
  BY DEF WriterTypeOK, HostType, LineType, InputType, CardType, Hosts, Boards, Writings

\* The same after a step.
LEMMA TypePartsNext == WriterTypeOK' <=> HostType' /\ LineType' /\ InputType' /\ CardType'
  BY DEF WriterTypeOK, HostType, LineType, InputType, CardType, Hosts, Boards, Writings

\* The places of the data.
LEMMA PlaceNumbers ==
    /\ Places \subseteq Nat
    /\ Stride \in Nat
    /\ \A b \in Blocks : b \in Nat /\ AckPlace(b) \in Places
  BY WriterAssumption DEF Places, Stride, Blocks, NumBlocks, AckPlace

\* The program starts with nothing sent and blank cards.
LEMMA WriterInitType == Init => WriterTypeOK /\ HostInv
<1> SUFFICES ASSUME Init PROVE WriterTypeOK /\ HostInv
  OBVIOUS
<1> USE WriterAssumption
<1>1. HostType /\ HostInv
  <2>1. 0 \in 0 .. AllChunks
    BY WholeChunks
  <2> QED
    BY <2>1 DEF Init, HostType, Hosts, HostInv
<1>2. LineType
  BY DEF Init, LineType
<1>3. InputType
  <2>1. 0 \in Blocks
    BY DEF Blocks, NumBlocks
  <2> QED
    <3>1. board \in Boards
      BY <2>1 DEF Init, Boards, Restarted
    <3>2. field \in [Blocks -> [0 .. BlockLen -> Places \union {Unset}]]
      BY DEF Init
    <3> QED
      BY <3>1, <3>2 DEF Init, InputType
<1>4. CardType
  <2>1. 0 \in Blocks
    BY DEF Blocks, NumBlocks
  <2> QED
    BY <2>1 DEF Init, CardType, Writings, Idle, Blank
<1> QED
  BY <1>1, <1>2, <1>3, <1>4, TypeParts

\* The host's steps.
LEMMA HostTypes ==
    ASSUME WriterTypeOK, HostInv, HostSteps \/ Quit
    PROVE  WriterTypeOK' /\ HostInv'
<1> USE WriterAssumption
<1>0. HostType /\ LineType /\ InputType /\ CardType
  BY TypeParts
<1>1. CASE StartRun
  <2>1. HostType'
    <3>1. run' = run + 1 /\ run < MaxRuns /\ chunks' = 0 /\ host' = "sending"
          /\ serial' = Nothing /\ registered' = registered
      BY <1>1 DEF StartRun
    <3>2. run' \in 0 .. MaxRuns
      BY <1>0, <3>1 DEF HostType
    <3>3. chunks' \in 0 .. AllChunks
      BY <3>1, WholeChunks
    <3> QED
      BY <1>0, <3>1, <3>2, <3>3 DEF HostType, Hosts
  <2>2. LineType' /\ HostInv'
    <3>1. line' = {} /\ lost' = lost /\ chunks' = 0 /\ host' = "sending"
      BY <1>1 DEF StartRun
    <3>2. 0 < AllChunks
      BY WholeChunks DEF AllChunks, NumBlocks
    <3> QED
      BY <1>0, <3>1, <3>2 DEF LineType, HostInv
  <2>3. InputType'
    <3>1. /\ board' = [Restarted EXCEPT !.connection_done = 1]
          /\ inLoop' = FALSE
          /\ field' = [b \in Blocks |-> [i \in 0 .. BlockLen |-> Unset]]
          /\ printed' = Nothing
      BY <1>1 DEF StartRun
    <3>2. 0 \in Blocks
      BY DEF Blocks, NumBlocks
    <3>3. board' \in Boards
      BY <3>1, <3>2 DEF Boards, Restarted
    <3>4. field' \in [Blocks -> [0 .. BlockLen -> Places \union {Unset}]]
      BY <3>1
    <3> QED
      BY <3>1, <3>3, <3>4 DEF InputType
  <2>4. CardType'
    <3>1. writing' = Idle /\ failed' = {} /\ content' = content
      BY <1>1 DEF StartRun
    <3>2. Idle \in Writings
      BY DEF Idle, Writings, Blocks, NumBlocks
    <3> QED
      BY <1>0, <3>1, <3>2 DEF CardType
  <2> QED
    BY <2>1, <2>2, <2>3, <2>4, TypePartsNext
<1>2. CASE SendChunk
  <2>1. PICK gone \in SUBSET ChunkPlaces(chunks) :
          /\ gone # {} => lost < MaxLost
          /\ line' = ChunkPlaces(chunks) \ gone
          /\ lost' = IF gone = {} THEN lost ELSE lost + 1
    BY <1>2 DEF SendChunk
  <2>2. /\ host = "sending" /\ chunks' = chunks + 1
        /\ host' = IF chunks' = AllChunks THEN "waiting" ELSE "sending"
        /\ UNCHANGED <<run, serial, registered, inputVars, printed, cardVars>>
    BY <1>2 DEF SendChunk
  <2>3. chunks \in Nat /\ chunks < AllChunks
    BY <1>0, <2>2, WholeChunks DEF HostInv, HostType
  <2>4. HostType'
    BY <1>0, <2>2, <2>3, WholeChunks DEF HostType, Hosts
  <2>5. LineType'
    BY <1>0, <2>1, <2>3, ChunkWithin DEF LineType
  <2>6. HostInv'
    <3>1. \A q \in line' : chunks * Chunk <= q /\ q < chunks' * Chunk
      BY <2>1, <2>2, <2>3, ChunkWithin
    <3>2. chunks' * Chunk - Chunk = chunks * Chunk
      BY <2>2, <2>3
    <3>3. host' = "sending" => chunks' < AllChunks
      BY <2>2, <2>3, WholeChunks
    <3>4. host' # "checking"
      BY <2>2
    <3> QED
      BY <3>1, <3>2, <3>3, <3>4 DEF HostInv
  <2>7. InputType' /\ CardType'
    BY <1>0, <2>2 DEF InputType, CardType, inputVars, cardVars
  <2> QED
    BY <2>4, <2>5, <2>6, <2>7, TypePartsNext
<1>3. CASE Quit \/ TakeSerial \/ RegistersNothing \/ Registers
  <2>1. /\ UNCHANGED <<run, chunks, lineVars, inputVars, printed, cardVars>>
        /\ host' \in {"idle", "checking", "done"}
    BY <1>3 DEF Quit, TakeSerial, RegistersNothing, Registers
  <2>2. serial' \in Cards \union {NotACard, Nothing}
    BY <1>0, <1>3 DEF Quit, TakeSerial, RegistersNothing, Registers, HostType, InputType
  <2>3. registered' \subseteq Cards \union {NotACard}
    <3>1. CASE Registers
      <4>1. serial # Nothing
        BY <3>1 DEF Registers, HostInv
      <4> QED
        BY <1>0, <3>1, <4>1 DEF Registers, HostType
    <3>2. CASE Quit \/ TakeSerial \/ RegistersNothing
      BY <1>0, <3>2 DEF Quit, TakeSerial, RegistersNothing, HostType
    <3> QED
      BY <1>3, <3>1, <3>2
  <2>4. HostType'
    BY <1>0, <2>1, <2>2, <2>3 DEF HostType, Hosts
  <2>5. LineType' /\ InputType' /\ CardType'
    BY <1>0, <2>1 DEF LineType, InputType, CardType, lineVars, inputVars, cardVars
  <2>6. HostInv'
    <3>1. host' = "checking" => serial' # Nothing
      BY <1>3, <2>1 DEF Quit, TakeSerial, RegistersNothing, Registers
    <3> QED
      BY <2>1, <3>1 DEF HostInv, lineVars
  <2> QED
    BY <2>4, <2>5, <2>6, TypePartsNext
<1> QED
  BY <1>1, <1>2, <1>3 DEF HostSteps

\* What remains of the line is of the same chunk.
LEMMA LineShrinks ==
    ASSUME LineType, HostInv, line' \subseteq line, UNCHANGED <<hostVars, lost>>
    PROVE  LineType' /\ HostInv'
  BY DEF LineType, HostInv, hostVars

\* What the steps of the board do to its four counters.
LEMMA BoardUpdates ==
    ASSUME NEW b \in Boards
    PROVE  LET counted == [b EXCEPT !.num_of_byte = b.num_of_byte + 1]
               last == [b EXCEPT !.num_of_byte = 0, !.num_of_block = 0, !.block_ready = 1]
               next == [b EXCEPT !.num_of_byte = 0, !.num_of_block = b.num_of_block + 1]
               refused == [b EXCEPT !.num_of_byte = 0, !.connection_done = 0]
               written == [b EXCEPT !.block_ready = 0]
           IN  /\ b.num_of_byte # BlockLen =>
                    /\ counted \in Boards
                    /\ counted.num_of_byte = b.num_of_byte + 1
                    /\ counted.num_of_block = b.num_of_block
                    /\ counted.connection_done = b.connection_done
                    /\ counted.block_ready = b.block_ready
               /\ last \in Boards
               /\ last.num_of_byte = 0 /\ last.num_of_block = 0
               /\ last.connection_done = b.connection_done /\ last.block_ready = 1
               /\ b.num_of_block # NumBlocks - 1 =>
                    /\ next \in Boards
                    /\ next.num_of_byte = 0 /\ next.num_of_block = b.num_of_block + 1
                    /\ next.connection_done = b.connection_done
                    /\ next.block_ready = b.block_ready
               /\ refused \in Boards
               /\ refused.num_of_byte = 0 /\ refused.connection_done = 0
               /\ refused.num_of_block = b.num_of_block
               /\ refused.block_ready = b.block_ready
               /\ written \in Boards
               /\ written.num_of_byte = b.num_of_byte
               /\ written.num_of_block = b.num_of_block
               /\ written.connection_done = b.connection_done /\ written.block_ready = 0
<1>1. /\ b.num_of_byte \in 0 .. BlockLen /\ b.num_of_block \in Blocks
      /\ b.connection_done \in {0, 1} /\ b.block_ready \in {0, 1}
      /\ b = [connection_done |-> b.connection_done, num_of_block |-> b.num_of_block,
              num_of_byte |-> b.num_of_byte, block_ready |-> b.block_ready]
  BY DEF Boards
<1>2. BlockLen \in Nat /\ 0 \in 0 .. BlockLen /\ 0 \in Blocks
  BY WriterAssumption DEF Blocks, NumBlocks
<1>3. b.num_of_byte # BlockLen => b.num_of_byte + 1 \in 0 .. BlockLen
  BY <1>1, <1>2
<1>4. b.num_of_block # NumBlocks - 1 => b.num_of_block + 1 \in Blocks
  BY <1>1 DEF Blocks, NumBlocks
<1>5. b.num_of_byte # BlockLen => [b EXCEPT !.num_of_byte = b.num_of_byte + 1] \in Boards
  BY <1>1, <1>3 DEF Boards
<1>6. [b EXCEPT !.num_of_byte = 0, !.num_of_block = 0, !.block_ready = 1] \in Boards
  BY <1>1, <1>2 DEF Boards
<1>7. b.num_of_block # NumBlocks - 1 =>
        [b EXCEPT !.num_of_byte = 0, !.num_of_block = b.num_of_block + 1] \in Boards
  BY <1>1, <1>2, <1>4 DEF Boards
<1>8. [b EXCEPT !.num_of_byte = 0, !.connection_done = 0] \in Boards
  BY <1>1, <1>2 DEF Boards
<1>9. [b EXCEPT !.block_ready = 0] \in Boards
  BY <1>1 DEF Boards
<1> QED
  BY <1>1, <1>5, <1>6, <1>7, <1>8, <1>9

\* What reading a byte comes to: one more of the field, or a decision on the field.
Counts(p) ==
    /\ board.num_of_byte # BlockLen
    /\ line' = line \ {p}
    /\ board'.num_of_byte = board.num_of_byte + 1
    /\ board'.num_of_block = board.num_of_block
    /\ board'.connection_done = board.connection_done
    /\ board'.block_ready = board.block_ready
    /\ inLoop' = inLoop
    /\ printed' = printed

Accepts(p) ==
    /\ board.num_of_byte = BlockLen
    /\ Acks(p, board.num_of_block)
    /\ line' = {}
    /\ board'.num_of_byte = 0
    /\ board'.connection_done = board.connection_done
    /\ \/ /\ board.num_of_block = NumBlocks - 1
          /\ board'.num_of_block = 0 /\ board'.block_ready = 1
       \/ /\ board.num_of_block # NumBlocks - 1
          /\ board'.num_of_block = board.num_of_block + 1
          /\ board'.block_ready = board.block_ready
    /\ inLoop' = inLoop
    /\ printed' = printed

Refuses(p) ==
    /\ board.num_of_byte = BlockLen
    /\ line' \subseteq line \ {p}
    /\ board'.num_of_byte = 0
    /\ board'.num_of_block = board.num_of_block
    /\ board'.connection_done = 0
    /\ board'.block_ready = board.block_ready
    /\ inLoop' = TRUE
    /\ printed' \in {NotACard, printed}

\* The least byte of the line goes into the field, and the board decides.
LEMMA ReadOutcome ==
    ASSUME InputType, ReadByte
    PROVE  /\ board' \in Boards
           /\ \E p \in line :
                /\ \A q \in line : p <= q
                /\ field' = [field EXCEPT ![board.num_of_block][board.num_of_byte] = p]
                /\ Counts(p) \/ Accepts(p) \/ Refuses(p)
<1>1. board \in Boards
  BY DEF InputType
<1>2. PICK p \in line :
        /\ \A q \in line : p <= q
        /\ field' = [field EXCEPT ![board.num_of_block][board.num_of_byte] = p]
        /\ IF board.num_of_byte = BlockLen
           THEN IF Acks(p, board.num_of_block) THEN Accepted(line \ {p})
                ELSE Refused(line \ {p})
           ELSE /\ line' = line \ {p}
                /\ board' = [board EXCEPT !.num_of_byte = @ + 1]
                /\ UNCHANGED <<inLoop, printed>>
  BY DEF ReadByte
<1>3. CASE board.num_of_byte # BlockLen
  <2>1. board' = [board EXCEPT !.num_of_byte = board.num_of_byte + 1]
    BY <1>2, <1>3
  <2>2. Counts(p) /\ board' \in Boards
    BY <1>1, <1>2, <1>3, <2>1, BoardUpdates DEF Counts
  <2> QED
    BY <1>2, <2>2
<1>4. CASE board.num_of_byte = BlockLen /\ Acks(p, board.num_of_block)
  <2>1. Accepted(line \ {p})
    BY <1>2, <1>4
  <2>2. line' = {} /\ inLoop' = inLoop /\ printed' = printed
    BY <2>1 DEF Accepted, LeftAfterBlock
  <2>3. CASE board.num_of_block = NumBlocks - 1
    <3>1. board' = [board EXCEPT !.num_of_byte = 0, !.num_of_block = 0, !.block_ready = 1]
      BY <2>1, <2>3 DEF Accepted, LastBlock
    <3>2. Accepts(p) /\ board' \in Boards
      BY <1>1, <1>4, <2>2, <2>3, <3>1, BoardUpdates DEF Accepts
    <3> QED
      BY <1>2, <3>2
  <2>4. CASE board.num_of_block # NumBlocks - 1
    <3>1. board' = [board EXCEPT !.num_of_byte = 0, !.num_of_block = board.num_of_block + 1]
      BY <2>1, <2>4 DEF Accepted, LastBlock
    <3>2. Accepts(p) /\ board' \in Boards
      BY <1>1, <1>4, <2>2, <2>4, <3>1, BoardUpdates DEF Accepts
    <3> QED
      BY <1>2, <3>2
  <2> QED
    BY <2>3, <2>4
<1>5. CASE board.num_of_byte = BlockLen /\ ~Acks(p, board.num_of_block)
  <2>1. Refused(line \ {p})
    BY <1>2, <1>5
  <2>2. board' = [board EXCEPT !.num_of_byte = 0, !.connection_done = 0]
    BY <2>1 DEF Refused
  <2>3. line' \subseteq line \ {p} /\ inLoop' = TRUE /\ printed' \in {NotACard, printed}
    BY <2>1 DEF Refused
  <2>4. Refuses(p) /\ board' \in Boards
    BY <1>1, <1>5, <2>2, <2>3, BoardUpdates DEF Refuses
  <2> QED
    BY <1>2, <2>4
<1> QED
  BY <1>3, <1>4, <1>5

\* Reading a byte puts nothing onto the line and keeps the types.
LEMMA ReadTypes ==
    ASSUME WriterTypeOK, HostInv, ReadByte
    PROVE  WriterTypeOK' /\ HostInv'
<1>0. HostType /\ LineType /\ InputType /\ CardType
  BY TypeParts
<1>1. board' \in Boards
  BY <1>0, ReadOutcome
<1>2. PICK p \in line :
        /\ field' = [field EXCEPT ![board.num_of_block][board.num_of_byte] = p]
        /\ Counts(p) \/ Accepts(p) \/ Refuses(p)
  BY <1>0, ReadOutcome
<1>3. UNCHANGED <<hostVars, lost, cardVars>>
  BY DEF ReadByte
<1>4. p \in Places /\ board.num_of_block \in Blocks /\ board.num_of_byte \in 0 .. BlockLen
  BY <1>0 DEF LineType, InputType, Boards
<1>5. field' \in [Blocks -> [0 .. BlockLen -> Places \union {Unset}]]
  BY <1>0, <1>2, <1>4 DEF InputType
<1>6. line' \subseteq line /\ inLoop' \in BOOLEAN
  BY <1>0, <1>2 DEF Counts, Accepts, Refuses, InputType
<1>7. printed' \in Cards \union {NotACard, Nothing}
  BY <1>0, <1>2 DEF Counts, Accepts, Refuses, InputType
<1>8. LineType' /\ HostInv'
  BY <1>0, <1>3, <1>6, LineShrinks
<1>9. HostType' /\ CardType'
  BY <1>0, <1>3 DEF HostType, CardType, hostVars, cardVars
<1>10. InputType'
  BY <1>1, <1>5, <1>6, <1>7 DEF InputType
<1> QED
  BY <1>8, <1>9, <1>10, TypePartsNext

\* Where write_blocks goes on: the next step, the next field, or it is done.
NextStep(sector) ==
    /\ writing.step < Len(Steps(writing.field))
    /\ writing' = [writing EXCEPT !.step = writing.step + 1, !.sector = sector]
    /\ board' = board

NextField(sector) ==
    /\ writing.field < NumBlocks - 1
    /\ writing' = [writing EXCEPT !.field = writing.field + 1, !.step = 1, !.sector = sector]
    /\ board' = board

AllDone ==
    /\ ~(writing.field < NumBlocks - 1)
    /\ writing' = Idle
    /\ board' = [board EXCEPT !.block_ready = 0]

LEMMA AfterStep ==
    ASSUME NEW sector
    PROVE  /\ Proceeds(FALSE, sector) =>
                \/ NextStep(sector)
                \/ /\ ~(writing.step < Len(Steps(writing.field)))
                   /\ NextField(sector) \/ AllDone
           /\ Proceeds(TRUE, sector) => NextField(sector) \/ AllDone
  BY Zenon DEF Proceeds, NextStep, NextField, AllDone

\* After any of the three, write_blocks is at a step that there is.
LEMMA GoesOnAt ==
    ASSUME CardType, InputType, NEW sector \in 0 .. 6,
           writing.step \in StepsOf(writing.field),
           NextStep(sector) \/ NextField(sector) \/ AllDone
    PROVE  /\ writing' \in Writings /\ board' \in Boards
           /\ writing'.step \in StepsOf(writing'.field)
           /\ NextStep(sector) =>
                /\ writing'.card = writing.card /\ writing'.field = writing.field
                /\ writing'.step = writing.step + 1 /\ writing'.sector = sector
           /\ NextField(sector) =>
                /\ writing'.card = writing.card /\ writing'.field = writing.field + 1
                /\ writing'.step = 1 /\ writing'.sector = sector
<1>1. writing \in Writings /\ board \in Boards
  BY DEF CardType, InputType
<1> DEFINE At(f, k) == [card |-> writing.card, field |-> f, step |-> k, sector |-> sector]
<1>7. ASSUME NEW f \in Blocks, NEW k \in 1 .. 6
      PROVE  /\ At(f, k) \in Writings /\ At(f, k).card = writing.card
             /\ At(f, k).field = f /\ At(f, k).step = k /\ At(f, k).sector = sector
  BY <1>1 DEF Writings
<1>8. writing = [card |-> writing.card, field |-> writing.field, step |-> writing.step,
                 sector |-> writing.sector]
  BY <1>1 DEF Writings
<1>2. PICK f \in Blocks, n \in Nat : f = writing.field /\ n = writing.step
  BY <1>1 DEF Writings
<1>3. PICK m \in 5 .. 6 : m = Len(Steps(f))
  BY <1>2, StepTypes
<1>0. n \in 1 .. m
  BY <1>2, <1>3 DEF StepsOf
<1>4. ASSUME NextStep(sector)
      PROVE  /\ writing' \in Writings /\ board' \in Boards
             /\ writing'.step \in StepsOf(writing'.field)
             /\ writing'.card = writing.card /\ writing'.field = writing.field
             /\ writing'.step = writing.step + 1 /\ writing'.sector = sector
  <2>1. /\ writing' = [writing EXCEPT !.step = n + 1, !.sector = sector]
        /\ board' = board /\ n < m
    BY <1>2, <1>3, <1>4 DEF NextStep
  <2>2. PICK k \in 1 .. 6 : k = n + 1 /\ k \in 1 .. m
    BY <1>0, <2>1
  <2>3. writing' = At(f, k)
    BY <1>2, <1>8, <2>1, <2>2
  <2>4. /\ writing' \in Writings /\ writing'.step = k /\ writing'.field = writing.field
        /\ writing'.card = writing.card /\ writing'.sector = sector
    BY <1>2, <1>7, <2>3
  <2> QED
    BY <1>1, <1>2, <1>3, <2>1, <2>2, <2>4 DEF StepsOf
<1>5. ASSUME NextField(sector)
      PROVE  /\ writing' \in Writings /\ board' \in Boards
             /\ writing'.step \in StepsOf(writing'.field)
             /\ writing'.card = writing.card /\ writing'.field = writing.field + 1
             /\ writing'.step = 1 /\ writing'.sector = sector
  <2>1. /\ writing' = [writing EXCEPT !.field = f + 1, !.step = 1, !.sector = sector]
        /\ board' = board /\ f < NumBlocks - 1
    BY <1>2, <1>5 DEF NextField
  <2>2. PICK g \in Blocks : g = f + 1
    BY <2>1 DEF Blocks, NumBlocks
  <2>3. 1 \in StepsOf(g)
    BY StepNumbers
  <2>4. 1 \in 1 .. 6
    OBVIOUS
  <2>5. writing' = At(g, 1)
    BY <1>8, <2>1, <2>2
  <2>6. /\ writing' \in Writings /\ writing'.step = 1 /\ writing'.field = g
        /\ writing'.card = writing.card /\ writing'.sector = sector
    BY <1>7, <2>4, <2>5
  <2> QED
    BY <1>1, <1>2, <2>1, <2>2, <2>3, <2>6
<1>6. ASSUME AllDone
      PROVE  /\ writing' \in Writings /\ board' \in Boards
             /\ writing'.step \in StepsOf(writing'.field)
  <2>1. writing' = Idle /\ board' = [board EXCEPT !.block_ready = 0]
    BY <1>6 DEF AllDone
  <2>2. board' \in Boards
    BY <1>1, <2>1, BoardUpdates
  <2>3. Idle \in Writings /\ Idle.step = 1 /\ Idle.field = 0 /\ 0 \in Blocks
    BY DEF Idle, Writings, Blocks, NumBlocks
  <2>4. 1 \in StepsOf(0)
    BY <2>3, StepNumbers
  <2> QED
    BY <2>1, <2>2, <2>3, <2>4
<1> QED
  BY <1>4, <1>5, <1>6

\* The step that write_blocks is at is one on a block of the card.
LEMMA StepAt ==
    ASSUME CardType, writing.step \in StepsOf(writing.field)
    PROVE  /\ writing.field \in Blocks
           /\ Step = Steps(writing.field)[writing.step]
           /\ Step.block \in CardBlocks
           /\ Step.part \in {0} \union Parts
           /\ Sector(Step.block) \in 0 .. 6
<1>1. writing.field \in Blocks
  BY DEF CardType, Writings
<1>2. Step = Steps(writing.field)[writing.step]
  BY DEF Step
<1>3. Step.block \in CardBlocks /\ Step.part \in {0} \union Parts
  BY <1>1, <1>2, StepTypes
<1>4. \A x \in CardBlocks : Sector(x) \in 0 .. 6
  BY DEF CardBlocks, Sector
<1> QED
  BY <1>1, <1>2, <1>3, <1>4

\* The board's other steps.
LEMMA BoardTypes ==
    ASSUME WriterTypeOK, HostInv,
           writing.card \in Cards => writing.step \in StepsOf(writing.field),
           LeavesLoop \/ EmptySerial \/ StepDone \/ StepFails \/ \E c \in Cards : SelectCard(c)
    PROVE  WriterTypeOK' /\ HostInv'
<1>0. HostType /\ LineType /\ InputType /\ CardType
  BY TypeParts
<1>1. /\ line' \subseteq line
      /\ UNCHANGED <<hostVars, lost>>
  BY DEF LeavesLoop, EmptySerial, StepDone, StepFails, SelectCard, lineVars
<1>2. HostType' /\ LineType' /\ HostInv'
  <2>1. HostType'
    BY <1>0, <1>1 DEF HostType, hostVars
  <2> QED
    BY <1>0, <1>1, <2>1, LineShrinks
<1>3. CASE LeavesLoop \/ EmptySerial
  <2>1. /\ inLoop' \in {inLoop, FALSE}
        /\ UNCHANGED <<board, field, printed, cardVars>>
    BY <1>3 DEF LeavesLoop, EmptySerial, inputVars
  <2>2. InputType' /\ CardType'
    BY <1>0, <2>1 DEF InputType, CardType, cardVars
  <2> QED
    BY <1>2, <2>2, TypePartsNext
<1>4. ASSUME NEW c \in Cards, SelectCard(c) PROVE InputType' /\ CardType'
  <2>1. /\ printed' \in {printed, c}
        /\ writing' = [Idle EXCEPT !.card = c]
        /\ UNCHANGED <<inputVars, content, failed>>
    BY <1>4 DEF SelectCard
  <2>2. writing' \in Writings
    BY <2>1 DEF Idle, Writings, Blocks, NumBlocks
  <2> QED
    BY <1>0, <2>1, <2>2 DEF InputType, CardType, inputVars
<1>5. CASE StepDone
  <2>1. writing.step \in StepsOf(writing.field) /\ writing.card \in Cards
    BY <1>5 DEF StepDone
  <2>2. Sector(Step.block) \in 0 .. 6 /\ Step.block \in CardBlocks
        /\ Step.part \in {0} \union Parts /\ writing.field \in Blocks
    BY <1>0, <2>1, StepAt
  <2>3. Proceeds(FALSE, Sector(Step.block))
    BY <1>5 DEF StepDone
  <2>4. NextStep(Sector(Step.block)) \/ NextField(Sector(Step.block)) \/ AllDone
    BY <2>3, AfterStep
  <2>5. writing' \in Writings /\ board' \in Boards
    BY <1>0, <2>1, <2>2, <2>4, GoesOnAt
  <2>6. content' \in [Cards -> [CardBlocks -> [run : 0 .. MaxRuns, field : Blocks,
                                               part : {0} \union Parts]]]
    <3>1. content' = content \/
          content' = [content EXCEPT ![writing.card][Step.block] =
                        [run |-> run, field |-> writing.field, part |-> Step.part]]
      BY <1>5 DEF StepDone
    <3>2. run \in 0 .. MaxRuns
      BY <1>0 DEF HostType
    <3>3. [run |-> run, field |-> writing.field, part |-> Step.part]
            \in [run : 0 .. MaxRuns, field : Blocks, part : {0} \union Parts]
      BY <2>2, <3>2
    <3>4. PICK tags : tags = [run : 0 .. MaxRuns, field : Blocks, part : {0} \union Parts]
      OBVIOUS
    <3>5. content \in [Cards -> [CardBlocks -> tags]]
      BY <1>0, <3>4 DEF CardType
    <3>6. PICK c \in Cards, x \in CardBlocks, v \in tags :
            content' = content \/ content' = [content EXCEPT ![c][x] = v]
      BY <2>1, <2>2, <3>1, <3>3, <3>4
    <3>7. content' \in [Cards -> [CardBlocks -> tags]]
      BY <3>5, <3>6
    <3> QED
      BY <3>4, <3>7
  <2>7. UNCHANGED <<inLoop, field, printed, failed>>
    BY <1>5 DEF StepDone
  <2>8. InputType' /\ CardType'
    BY <1>0, <2>5, <2>6, <2>7 DEF InputType, CardType
  <2> QED
    BY <1>2, <2>8, TypePartsNext
<1>6. CASE StepFails
  <2>1. writing.step \in StepsOf(writing.field) /\ writing.card \in Cards
    BY <1>6 DEF StepFails
  <2>2. PICK sector \in 0 .. 6 : Proceeds(TRUE, sector)
    <3>1. writing.sector \in 0 .. 6 /\ 0 \in 0 .. 6
      BY <1>0 DEF CardType, Writings
    <3>2. \E sector \in {0, writing.sector} : Proceeds(TRUE, sector)
      BY <1>6, Zenon DEF StepFails
    <3> QED
      BY <3>1, <3>2
  <2>3. NextField(sector) \/ AllDone
    BY <2>2, AfterStep
  <2>4. writing' \in Writings /\ board' \in Boards
    BY <1>0, <2>1, <2>3, GoesOnAt
  <2>5. UNCHANGED <<inLoop, field, printed, content>> /\ failed' = failed \union {writing.card}
    BY <1>6 DEF StepFails
  <2>6. InputType' /\ CardType'
    BY <1>0, <2>1, <2>4, <2>5 DEF InputType, CardType
  <2> QED
    BY <1>2, <2>6, TypePartsNext
<1> QED
  BY <1>2, <1>3, <1>4, <1>5, <1>6, TypePartsNext

-----------------------------------------------------------------------------

(***************************************************************************)
(* What the board has read.                                                *)
(***************************************************************************)

\* The acknowledge byte of a field begins a chunk, and so does the next field.
LEMMA ChunkAligned ==
    ASSUME NEW b \in Blocks
    PROVE  /\ \E k \in Nat : b * Stride + BlockLen = k * Chunk
           /\ \E k \in Nat : (b + 1) * Stride = k * Chunk
           /\ (b + 1) * Stride = b * Stride + BlockLen + Chunk
<1>1. PICK d \in Nat : d * Chunk = BlockLen
  BY WholeChunks
<1>2. Stride = (d + 1) * Chunk
  BY <1>1, WriterAssumption DEF Stride
<1>3. b \in Nat /\ Stride \in Nat /\ Chunk \in Nat /\ BlockLen \in Nat
  BY WriterAssumption DEF Blocks, NumBlocks, Stride
<1>4. b * (d + 1) \in Nat /\ (b * (d + 1)) * Chunk = b * Stride
  BY <1>1, <1>2, <1>3
<1>5. (b * (d + 1) + d) * Chunk = b * Stride + BlockLen
  <2>1. PICK e \in Nat : e = b * (d + 1)
    BY <1>4
  <2>2. (e + d) * Chunk = e * Chunk + d * Chunk
    BY <1>3
  <2> QED
    BY <1>1, <1>4, <2>1, <2>2
<1>6. (b + 1) * Stride = b * Stride + Stride
  BY <1>3
<1>7. (b * (d + 1) + d + 1) * Chunk = (b + 1) * Stride
  <2>1. PICK e \in Nat : e = b * (d + 1)
    BY <1>4
  <2>2. (e + d + 1) * Chunk = e * Chunk + (d + 1) * Chunk
    BY <1>3
  <2> QED
    BY <1>2, <1>4, <1>6, <2>1, <2>2
<1>8. \E k \in Nat : b * Stride + BlockLen = k * Chunk
  <2>1. b * (d + 1) + d \in Nat
    BY <1>4
  <2> QED
    BY <1>5, <2>1
<1>9. \E k \in Nat : (b + 1) * Stride = k * Chunk
  <2>1. b * (d + 1) + d + 1 \in Nat
    BY <1>4
  <2> QED
    BY <1>7, <2>1
<1>10. (b + 1) * Stride = b * Stride + BlockLen + Chunk
  <2>1. Stride = BlockLen + Chunk
    BY DEF Stride
  <2> QED
    BY <1>3, <1>6, <2>1
<1> QED
  BY <1>8, <1>9, <1>10

\* Once something at the acknowledge byte or later is on the line, the field has
\* been sent; once something of the next field is, a chunk of that has.
LEMMA SentBeyond ==
    ASSUME HostType, NEW b \in Blocks, NEW p \in Nat, p < chunks * Chunk
    PROVE  /\ b * Stride + BlockLen <= p => (b + 1) * Stride <= chunks * Chunk
           /\ (b + 1) * Stride <= p => (b + 1) * Stride + Chunk <= chunks * Chunk
<1>1. chunks \in Nat /\ chunks * Chunk \in Nat /\ Chunk \in Nat
  BY WholeChunks, WriterAssumption DEF HostType
<1>2. PICK k \in Nat : b * Stride + BlockLen = k * Chunk
  BY ChunkAligned
<1>3. PICK l \in Nat : (b + 1) * Stride = l * Chunk
  BY ChunkAligned
<1>4. k * Chunk \in Nat /\ l * Chunk \in Nat
  BY <1>1
<1>5. ASSUME b * Stride + BlockLen <= p PROVE (b + 1) * Stride <= chunks * Chunk
  <2>1. k * Chunk < chunks * Chunk
    BY <1>1, <1>2, <1>4, <1>5
  <2>2. k * Chunk + Chunk <= chunks * Chunk
    BY <1>1, <2>1, ChunkEnds
  <2> QED
    BY <1>2, <2>2, ChunkAligned
<1>6. ASSUME (b + 1) * Stride <= p PROVE (b + 1) * Stride + Chunk <= chunks * Chunk
  <2>1. l * Chunk < chunks * Chunk
    BY <1>1, <1>3, <1>4, <1>6
  <2>2. l * Chunk + Chunk <= chunks * Chunk
    BY <1>1, <2>1, ChunkEnds
  <2> QED
    BY <1>3, <2>2
<1> QED
  BY <1>5, <1>6

\* The board starts without a connection.
LEMMA ReadInitInv == Init => ReadInv
  BY DEF Init, Restarted, ReadInv, ReadyIsWhole

\* A step that leaves the input alone and brings nothing back that was read or
\* lost keeps what is known of the input.
LEMMA LessToCome ==
    ASSUME WriterTypeOK, ReadInv, field' = field,
           board' = board \/ (board' = [board EXCEPT !.block_ready = 0]),
           ToCome' \subseteq ToCome,
           inLoop' => inLoop /\ line' \subseteq line /\ chunks' = chunks
    PROVE  ReadInv'
<1>1. board \in Boards
  BY DEF WriterTypeOK, Boards
<1>2. CASE board' = board
  <2>1. ReadyIsWhole' /\ (inLoop => board.connection_done = 0)
    BY <1>2 DEF ReadInv, ReadyIsWhole
  <2>2. ASSUME InTurn(board.num_of_block, board.num_of_byte)
        PROVE  InTurn(board.num_of_block, board.num_of_byte)'
    BY <1>2, <2>2 DEF InTurn
  <2>3. ASSUME Fooled(board.num_of_block, board.num_of_byte)
        PROVE  Fooled(board.num_of_block, board.num_of_byte)'
    BY <1>2, <2>3 DEF Fooled
  <2>4. inLoop' => /\ board'.connection_done = 0
                   /\ \A q \in line' : chunks' * Chunk - Chunk + 1 + board'.num_of_byte <= q
    BY <1>2 DEF ReadInv
  <2> QED
    BY <1>2, <2>1, <2>2, <2>3, <2>4 DEF ReadInv
<1>3. CASE board' = [board EXCEPT !.block_ready = 0]
  <2>1. /\ board'.num_of_byte = board.num_of_byte
        /\ board'.num_of_block = board.num_of_block
        /\ board'.connection_done = board.connection_done
        /\ board'.block_ready = 0
    BY <1>1, <1>3, BoardUpdates
  <2>2. ReadyIsWhole'
    BY <2>1 DEF ReadyIsWhole
  <2>3. inLoop' => /\ board'.connection_done = 0
                   /\ \A q \in line' : chunks' * Chunk - Chunk + 1 + board'.num_of_byte <= q
    BY <2>1 DEF ReadInv
  <2>4. CASE board.block_ready = 0
    <3>1. ASSUME InTurn(board.num_of_block, board.num_of_byte)
          PROVE  InTurn(board.num_of_block, board.num_of_byte)'
      BY <2>1, <3>1 DEF InTurn
    <3>2. ASSUME Fooled(board.num_of_block, board.num_of_byte)
          PROVE  Fooled(board.num_of_block, board.num_of_byte)'
      BY <2>1, <3>2 DEF Fooled
    <3> QED
      BY <2>1, <2>2, <2>3, <2>4, <3>1, <3>2 DEF ReadInv
  <2>5. CASE board.block_ready = 1
    <3>1. board'.num_of_block = 0 /\ board'.num_of_byte = 0
      BY <2>1, <2>5 DEF ReadInv
    <3>2. \A q \in ToCome' : 0 <= q
      BY DEF ToCome
    <3>3. 0 * Stride = 0
      BY PlaceNumbers
    <3>4. InTurn(board.num_of_block, board.num_of_byte)'
      BY <3>1, <3>2, <3>3 DEF InTurn, Blocks, NumBlocks
    <3> QED
      BY <2>1, <2>2, <2>3, <3>4 DEF ReadInv
  <2>6. board.block_ready \in {0, 1}
    BY <1>1 DEF Boards
  <2> QED
    BY <2>4, <2>5, <2>6
<1> QED
  BY <1>2, <1>3

\* Reading a byte takes it and everything before it from what is to come.
LEMMA ReadTakesLeast ==
    ASSUME WriterTypeOK, HostInv, NEW p \in line, \A q \in line : p <= q,
           line' \subseteq line \ {p}, chunks' = chunks
    PROVE  /\ p \in ToCome /\ p \in Places /\ p \in Nat
           /\ chunks * Chunk - Chunk <= p /\ p < chunks * Chunk
           /\ \A q \in ToCome' : q \in Nat /\ q \in ToCome /\ p + 1 <= q
<1>1. p \in Places /\ line \subseteq Places /\ chunks \in Nat
  BY WholeChunks DEF WriterTypeOK
<1>2. p \in Nat /\ \A q \in line : q \in Nat
  BY <1>1, PlaceNumbers
<1>3. chunks * Chunk - Chunk <= p /\ p < chunks * Chunk
  BY DEF HostInv
<1>4. chunks * Chunk \in Nat
  BY <1>1, WriterAssumption
<1>5. ASSUME NEW q \in ToCome' PROVE q \in Nat /\ q \in ToCome /\ p + 1 <= q
  BY <1>2, <1>3, <1>4, <1>5 DEF ToCome
<1> QED
  BY <1>1, <1>2, <1>3, <1>5 DEF ToCome

\* One more byte of the field.
LEMMA CountsKeepsRead ==
    ASSUME WriterTypeOK, HostInv, ReadInv, UNCHANGED hostVars,
           inLoop \/ (board.connection_done = 1 /\ board.block_ready = 0),
           NEW p \in line, \A q \in line : p <= q, Counts(p),
           field' = [field EXCEPT ![board.num_of_block][board.num_of_byte] = p]
    PROVE  ReadInv'
<1>1. PICK b \in Blocks, n \in 0 .. BlockLen :
        b = board.num_of_block /\ n = board.num_of_byte
  BY DEF WriterTypeOK
<1>2. /\ board'.num_of_byte = n + 1 /\ board'.num_of_block = b
      /\ board'.connection_done = board.connection_done
      /\ board'.block_ready = board.block_ready
      /\ inLoop' = inLoop /\ line' = line \ {p} /\ n # BlockLen
  BY <1>1 DEF Counts
<1>3. chunks' = chunks
  BY DEF hostVars
<1>4. /\ p \in ToCome /\ p \in Nat
      /\ \A q \in ToCome' : q \in Nat /\ q \in ToCome /\ p + 1 <= q
  BY <1>2, <1>3, ReadTakesLeast
<1>5. board.block_ready = 0 /\ (inLoop => board.connection_done = 0)
  BY DEF ReadInv
<1>6. ReadyIsWhole'
  BY <1>2, <1>5 DEF ReadyIsWhole
<1>7. BlockLen \in Nat /\ n \in Nat /\ b \in Nat /\ Stride \in Nat /\ b * Stride \in Nat
  BY <1>1, WriterAssumption, PlaceNumbers
<1>8. /\ field'[b][n] = p
      /\ \A i \in 0 .. n - 1 : field'[b][i] = field[b][i]
      /\ \A a \in Blocks : a < b => field'[a] = field[a]
  BY <1>1, <1>7 DEF WriterTypeOK
<1>9. ASSUME InTurn(b, n) PROVE InTurn(board.num_of_block, board.num_of_byte)'
  <2>1. \A a \in Blocks : a < b =>
          \A i \in 0 .. BlockLen - 1 : field'[a][i] = a * Stride + i
    BY <1>8, <1>9 DEF InTurn
  <2>2. \A q \in ToCome' : b * Stride + (n + 1) <= q
    BY <1>4, <1>7, <1>9 DEF InTurn
  <2>3. ASSUME NEW i \in 0 .. n
        PROVE  /\ b * Stride + i <= field'[b][i]
               /\ \A q \in ToCome' : field'[b][i] + (n + 1 - i) <= q
    <3>1. CASE i = n
      BY <1>4, <1>7, <1>8, <1>9, <3>1 DEF InTurn
    <3>2. CASE i # n
      <4>1. i \in 0 .. n - 1
        BY <1>7, <3>2
      <4>2. field[b][i] \in Int
        <5>1. i \in 0 .. BlockLen
          BY <1>1, <1>7
        <5>2. field[b][i] \in Places \union {Unset}
          <6>1. field \in [Blocks -> [0 .. BlockLen -> Places \union {Unset}]]
            BY DEF WriterTypeOK
          <6> QED
            BY <5>1, <6>1
        <5> QED
          BY <5>2, PlaceNumbers DEF Unset
      <4>3. b * Stride + i <= field[b][i] /\ field[b][i] + (n - i) <= p
        BY <1>4, <1>9, <4>1 DEF InTurn
      <4> QED
        BY <1>4, <1>7, <1>8, <4>1, <4>2, <4>3
    <3> QED
      BY <3>1, <3>2
  <2>4. 0 .. n + 1 - 1 = 0 .. n
    BY <1>7
  <2> QED
    BY <1>2, <2>1, <2>2, <2>3, <2>4 DEF InTurn
<1>10. ASSUME Fooled(b, n) PROVE Fooled(board.num_of_block, board.num_of_byte)'
  <2>1. \A q \in ToCome' : b * Stride + (n + 1) + Chunk <= q
    BY <1>4, <1>7, <1>10, WriterAssumption DEF Fooled
  <2> QED
    BY <1>2, <2>1 DEF Fooled
<1>11. ASSUME inLoop
       PROVE  \A q \in line' : chunks' * Chunk - Chunk + 1 + board'.num_of_byte <= q
  <2>1. chunks * Chunk - Chunk + 1 + n <= p
    BY <1>1, <1>11 DEF ReadInv
  <2>2. \A q \in line' : q \in Nat /\ p + 1 <= q
    BY <1>2, <1>4, PlaceNumbers DEF ToCome, WriterTypeOK
  <2>3. chunks * Chunk - Chunk \in Int
    BY WholeChunks, WriterAssumption DEF WriterTypeOK
  <2> QED
    BY <1>2, <1>3, <1>4, <1>7, <2>1, <2>2, <2>3
<1>12. board.connection_done = 1 => InTurn(b, n) \/ Fooled(b, n)
  BY <1>1, <1>5 DEF ReadInv
<1> QED
  BY <1>2, <1>5, <1>6, <1>9, <1>10, <1>11, <1>12 DEF ReadInv

\* A field is taken for whole: it is, or the line is ahead of the board by a chunk,
\* and that never at the last field.
LEMMA AcceptsKeepsRead ==
    ASSUME WriterTypeOK, HostInv, ReadInv, UNCHANGED hostVars,
           inLoop \/ (board.connection_done = 1 /\ board.block_ready = 0),
           NEW p \in line, \A q \in line : p <= q, Accepts(p),
           field' = [field EXCEPT ![board.num_of_block][board.num_of_byte] = p]
    PROVE  ReadInv'
<1>1. PICK b \in Blocks : b = board.num_of_block /\ board.num_of_byte = BlockLen
  BY DEF WriterTypeOK, Accepts
<1>2. chunks' = chunks /\ line' = {}
  BY DEF hostVars, Accepts
<1>3. /\ p \in ToCome /\ p \in Places /\ p \in Nat
      /\ chunks * Chunk - Chunk <= p /\ p < chunks * Chunk
  BY <1>2, ReadTakesLeast
<1>4. chunks \in Nat /\ chunks * Chunk \in Nat /\ BlockLen \in Nat /\ Chunk \in Nat
  BY WholeChunks, WriterAssumption DEF WriterTypeOK
<1>5. b \in Nat /\ Stride \in Nat /\ b * Stride \in Nat /\ (b + 1) * Stride \in Nat
  BY <1>1, PlaceNumbers
<1>6. ~inLoop /\ board.connection_done = 1 /\ board.block_ready = 0
  <2>1. SUFFICES ASSUME inLoop PROVE FALSE
    OBVIOUS
  <2>2. chunks * Chunk - Chunk + 1 + BlockLen <= p
    BY <1>1, <2>1 DEF ReadInv
  <2> QED
    BY <1>3, <1>4, <2>2, WholeChunks
<1>7. InTurn(b, BlockLen) \/ Fooled(b, BlockLen)
  BY <1>1, <1>6 DEF ReadInv
<1>8. (b + 1) * Stride = b * Stride + BlockLen + Chunk
  BY ChunkAligned
<1>9. HostType
  BY TypeParts
<1>10. \A q \in ToCome' : q \in Nat /\ chunks * Chunk <= q
  BY <1>2 DEF ToCome
<1>11. \A a \in Blocks : \A i \in 0 .. BlockLen - 1 : field'[a][i] = field[a][i]
  BY <1>1, <1>4 DEF WriterTypeOK
<1>12. inLoop' = inLoop /\ board'.connection_done = 1 /\ board'.num_of_byte = 0
  BY <1>6 DEF Accepts
<1>13. Acks(p, b)
  BY <1>1 DEF Accepts
<1>14. b * Stride + BlockLen <= p
  <2>1. CASE InTurn(b, BlockLen)
    BY <1>3, <2>1 DEF InTurn
  <2>2. CASE Fooled(b, BlockLen)
    BY <1>3, <1>4, <1>5, <2>2 DEF Fooled
  <2> QED
    BY <1>7, <2>1, <2>2
<1>15. CASE (b + 1) * Stride <= p
  <2>1. b # NumBlocks - 1
    <3>1. p < NumBlocks * Stride
      BY <1>3, <1>5 DEF Places, NumBlocks
    <3> QED
      BY <1>3, <1>5, <1>15, <3>1 DEF NumBlocks
  <2>2. board'.num_of_block = b + 1 /\ board'.block_ready = 0
    BY <1>1, <1>6, <2>1 DEF Accepts
  <2>3. (b + 1) * Stride + Chunk <= chunks * Chunk
    BY <1>3, <1>9, <1>15, SentBeyond
  <2>4. \A q \in ToCome' : (b + 1) * Stride + 0 + Chunk <= q
    BY <1>4, <1>5, <1>10, <2>3
  <2>5. Fooled(board.num_of_block, board.num_of_byte)'
    BY <1>12, <2>2, <2>4 DEF Fooled
  <2>6. ReadyIsWhole'
    BY <2>2 DEF ReadyIsWhole
  <2> QED
    BY <1>6, <1>12, <2>2, <2>5, <2>6 DEF ReadInv
<1>16. CASE ~((b + 1) * Stride <= p)
  <2>1. p = b * Stride + BlockLen
    BY <1>3, <1>13, <1>14, <1>16, AckOrLater
  <2>2. InTurn(b, BlockLen)
    BY <1>3, <1>4, <1>5, <1>7, <2>1, WriterAssumption DEF Fooled
  <2>3. ASSUME NEW i \in 0 .. BlockLen - 1 PROVE field[b][i] = b * Stride + i
    <3>1. field[b][i] \in Int
      <4>1. field \in [Blocks -> [0 .. BlockLen -> Places \union {Unset}]]
        BY DEF WriterTypeOK
      <4>2. field[b][i] \in Places \union {Unset}
        BY <1>4, <4>1
      <4> QED
        BY <4>2, PlaceNumbers DEF Unset
    <3>2. b * Stride + i <= field[b][i] /\ field[b][i] + (BlockLen - i) <= p
      BY <1>3, <2>2 DEF InTurn
    <3> QED
      BY <1>4, <1>5, <2>1, <3>1, <3>2
  <2>4. \A a \in Blocks : a <= b =>
          \A i \in 0 .. BlockLen - 1 : field'[a][i] = a * Stride + i
    <3>1. \A a \in Blocks : a <= b => a < b \/ a = b
      BY <1>5 DEF Blocks, NumBlocks
    <3> QED
      BY <1>11, <2>2, <2>3, <3>1 DEF InTurn
  <2>5. (b + 1) * Stride <= chunks * Chunk
    BY <1>3, <1>9, <1>14, SentBeyond
  <2>6. CASE b = NumBlocks - 1
    <3>1. board'.num_of_block = 0 /\ board'.block_ready = 1
      BY <1>1, <2>6 DEF Accepts
    <3>2. \A a \in Blocks : a <= b
      BY <2>6 DEF Blocks, NumBlocks
    <3>3. ReadyIsWhole'
      BY <2>4, <3>2 DEF ReadyIsWhole
    <3> QED
      BY <1>6, <1>12, <3>1, <3>3 DEF ReadInv
  <2>7. CASE b # NumBlocks - 1
    <3>1. board'.num_of_block = b + 1 /\ board'.block_ready = 0
      BY <1>1, <1>6, <2>7 DEF Accepts
    <3>2. ReadyIsWhole'
      BY <3>1 DEF ReadyIsWhole
    <3>3. \A a \in Blocks : a < b + 1 => a <= b
      BY <1>5 DEF Blocks, NumBlocks
    <3>4. \A q \in ToCome' : (b + 1) * Stride + 0 <= q
      BY <1>4, <1>5, <1>10, <2>5
    <3>5. InTurn(board.num_of_block, board.num_of_byte)'
      BY <1>12, <2>4, <3>1, <3>3, <3>4 DEF InTurn
    <3> QED
      BY <1>6, <1>12, <3>1, <3>2, <3>5 DEF ReadInv
  <2> QED
    BY <2>6, <2>7
<1> QED
  BY <1>15, <1>16

\* A field is refused: what is left in the loop is of the same chunk.
LEMMA RefusesKeepsRead ==
    ASSUME WriterTypeOK, HostInv, ReadInv, UNCHANGED hostVars,
           inLoop \/ (board.connection_done = 1 /\ board.block_ready = 0),
           NEW p \in line, \A q \in line : p <= q, Refuses(p)
    PROVE  ReadInv'
<1>1. /\ board'.num_of_byte = 0 /\ board'.connection_done = 0
      /\ board'.block_ready = board.block_ready
      /\ line' \subseteq line \ {p} /\ chunks' = chunks
  BY DEF Refuses, hostVars
<1>2. board.block_ready = 0
  BY DEF ReadInv
<1>3. /\ chunks * Chunk - Chunk <= p /\ p \in Nat
      /\ \A q \in ToCome' : q \in Nat /\ p + 1 <= q
  BY <1>1, ReadTakesLeast
<1>4. chunks * Chunk - Chunk \in Int
  BY WholeChunks, WriterAssumption DEF WriterTypeOK
<1>5. \A q \in line' : q \in Nat /\ p + 1 <= q
  BY <1>1, <1>3, PlaceNumbers DEF ToCome, WriterTypeOK
<1>6. \A q \in line' : chunks' * Chunk - Chunk + 1 + board'.num_of_byte <= q
  BY <1>1, <1>3, <1>4, <1>5
<1>7. ReadyIsWhole'
  BY <1>1, <1>2 DEF ReadyIsWhole
<1> QED
  BY <1>1, <1>2, <1>6, <1>7 DEF ReadInv

\* Every step keeps what is known of the input.
LEMMA ReadStep ==
    ASSUME WriterTypeOK, HostInv, ReadInv, [Next]_writerVars
    PROVE  ReadInv'
<1>0. HostType /\ LineType /\ InputType /\ CardType
  BY TypeParts
<1>1. chunks \in Nat /\ chunks * Chunk \in Nat /\ Chunk \in Nat
  BY <1>0, WholeChunks, WriterAssumption DEF HostType
<1>2. CASE ReadByte
  <2>1. PICK p \in line :
          /\ \A q \in line : p <= q
          /\ field' = [field EXCEPT ![board.num_of_block][board.num_of_byte] = p]
          /\ Counts(p) \/ Accepts(p) \/ Refuses(p)
    BY <1>0, <1>2, ReadOutcome
  <2>2. /\ UNCHANGED hostVars
        /\ inLoop \/ (board.connection_done = 1 /\ board.block_ready = 0)
    BY <1>2 DEF ReadByte
  <2>3. CASE Counts(p)
    BY <2>1, <2>2, <2>3, CountsKeepsRead
  <2>4. CASE Accepts(p)
    BY <2>1, <2>2, <2>4, AcceptsKeepsRead
  <2>5. CASE Refuses(p)
    BY <2>1, <2>2, <2>5, RefusesKeepsRead
  <2> QED
    BY <2>1, <2>3, <2>4, <2>5
<1>3. CASE StartRun
  <2>1. inLoop' = FALSE /\ board' = [Restarted EXCEPT !.connection_done = 1]
    BY <1>3 DEF StartRun
  <2>2. /\ board'.connection_done = 1 /\ board'.block_ready = 0
        /\ board'.num_of_block = 0 /\ board'.num_of_byte = 0
    BY <2>1 DEF Restarted
  <2>3. \A q \in ToCome' : 0 <= q
    BY DEF ToCome
  <2>4. 0 * Stride = 0
    BY PlaceNumbers
  <2>5. InTurn(board.num_of_block, board.num_of_byte)'
    BY <2>2, <2>3, <2>4 DEF InTurn, Blocks, NumBlocks
  <2>6. ReadyIsWhole'
    BY <2>2 DEF ReadyIsWhole
  <2> QED
    BY <2>1, <2>2, <2>5, <2>6 DEF ReadInv
<1>4. CASE SendChunk
  <2>1. /\ line = {} /\ inLoop' = FALSE /\ chunks' = chunks + 1
        /\ line' \subseteq ChunkPlaces(chunks)
        /\ UNCHANGED <<board, field>>
    BY <1>0, <1>4 DEF SendChunk, inputVars, InputType
  <2>2. chunks < AllChunks
    BY <1>4 DEF SendChunk, HostInv
  <2>3. \A q \in line' : chunks * Chunk <= q
    BY <1>1, <2>1, <2>2, ChunkWithin
  <2>4. chunks' * Chunk = chunks * Chunk + Chunk
    BY <1>1, <2>1
  <2>5. ToCome' \subseteq ToCome
    <3>1. SUFFICES ASSUME NEW q \in ToCome' PROVE q \in Nat /\ q >= chunks * Chunk
      BY DEF ToCome
    <3>2. q \in Nat /\ (q \in line' \/ q >= chunks' * Chunk)
      BY DEF ToCome
    <3> QED
      BY <1>1, <2>3, <2>4, <3>2
  <2> QED
    BY <2>1, <2>5, LessToCome
<1>5. ASSUME line' \subseteq line, chunks' = chunks, field' = field, inLoop' => inLoop,
             board' = board \/ board' = [board EXCEPT !.block_ready = 0]
      PROVE  ReadInv'
  <2>1. ToCome' \subseteq ToCome
    BY <1>5 DEF ToCome
  <2> QED
    BY <1>5, <2>1, LessToCome
<1>6. CASE TakeSerial \/ RegistersNothing \/ Registers \/ Quit \/ LeavesLoop \/ EmptySerial
  BY <1>5, <1>6 DEF TakeSerial, RegistersNothing, Registers, Quit, LeavesLoop, EmptySerial,
     lineVars, inputVars, hostVars
<1>7. CASE StepDone
  <2>1. NextStep(Sector(Step.block)) \/ NextField(Sector(Step.block)) \/ AllDone
    <3>1. Proceeds(FALSE, Sector(Step.block))
      BY <1>7 DEF StepDone
    <3> QED
      BY <3>1, AfterStep
  <2>2. board' = board \/ board' = [board EXCEPT !.block_ready = 0]
    BY <2>1 DEF NextStep, NextField, AllDone
  <2>3. UNCHANGED <<hostVars, lineVars, inLoop, field>>
    BY <1>7 DEF StepDone
  <2> QED
    BY <1>5, <2>2, <2>3 DEF hostVars, lineVars
<1>8. CASE StepFails
  <2>1. \E sector \in {0, writing.sector} : Proceeds(TRUE, sector)
    BY <1>8, Zenon DEF StepFails
  <2>2. board' = board \/ board' = [board EXCEPT !.block_ready = 0]
    BY <2>1, AfterStep DEF NextField, AllDone
  <2>3. UNCHANGED <<hostVars, lineVars, inLoop, field>>
    BY <1>8 DEF StepFails
  <2> QED
    BY <1>5, <2>2, <2>3 DEF hostVars, lineVars
<1>9. CASE \E c \in Cards : SelectCard(c)
  BY <1>5, <1>9 DEF SelectCard, hostVars, lineVars, inputVars
<1>10. CASE UNCHANGED writerVars
  BY <1>5, <1>10 DEF writerVars, hostVars, lineVars, inputVars
<1> QED
  BY <1>2, <1>3, <1>4, <1>6, <1>7, <1>8, <1>9, <1>10 DEF Next, HostSteps, BoardSteps

-----------------------------------------------------------------------------

(***************************************************************************)
(* What is on a card.                                                      *)
(***************************************************************************)

\* Two steps that write do not write the same block.
LEMMA BlocksDiffer ==
    ASSUME NEW f \in Blocks, NEW k \in StepsOf(f), ~Steps(f)[k].key,
           NEW g \in Blocks, NEW l \in StepsOf(g), ~Steps(g)[l].key,
           f < g \/ (f = g /\ k < l)
    PROVE  Steps(f)[k].block # Steps(g)[l].block
<1>1. Steps(f)[k].block \in Nat /\ Steps(g)[l].block \in Nat
  BY StepTypes DEF CardBlocks
<1>2. CASE f < g
  <2>1. f \in Nat /\ g \in Nat /\ f < 3
    BY <1>2 DEF Blocks, NumBlocks
  <2>2. Steps(f)[k].block <= 5 * f + 8 /\ 5 * g + 4 <= Steps(g)[l].block
    BY <2>1, BlocksOfField
  <2> QED
    BY <1>1, <1>2, <2>1, <2>2
<1>3. CASE f = g /\ k < l
  <2>1. Steps(f)[k].block < Steps(g)[l].block
    BY <1>3, BlocksOfField
  <2> QED
    BY <1>1, <2>1
<1> QED
  BY <1>2, <1>3

\* A card that all steps have been done on holds what the reader looks for.
LEMMA AllHeld ==
    ASSUME NEW held, NEW r,
           \A f \in Blocks : \A k \in StepsOf(f) :
             ~Steps(f)[k].key =>
               held[Steps(f)[k].block] = [run |-> r, field |-> f, part |-> Steps(f)[k].part]
    PROVE  \A f \in Blocks : \A i \in Parts :
             held[ReadFrom(f)[i]] = [run |-> r, field |-> f, part |-> i]
<1> SUFFICES ASSUME NEW f \in Blocks, NEW i \in Parts
             PROVE  held[ReadFrom(f)[i]] = [run |-> r, field |-> f, part |-> i]
  OBVIOUS
<1>1. PICK k \in StepsOf(f) :
        ~Steps(f)[k].key /\ Steps(f)[k].block = ReadFrom(f)[i] /\ Steps(f)[k].part = i
  BY ReadIsWritten
<1>2. held[Steps(f)[k].block] = [run |-> r, field |-> f, part |-> Steps(f)[k].part]
  BY <1>1
<1> QED
  BY <1>1, <1>2

\* Nothing comes before the first step, which is no write.
LEMMA AtFirstStep ==
    ASSUME writing'.field = 0, writing'.step = 1
    PROVE  /\ writing'.step \in StepsOf(writing'.field)
           /\ \A f \in Blocks : \A k \in StepsOf(f) : ~Before(f, k)'
           /\ Step.key'
<1>1. 0 \in Blocks
  BY DEF Blocks, NumBlocks
<1>2. 1 \in StepsOf(0)
  BY <1>1, StepNumbers
<1>3. ASSUME NEW f \in Blocks, NEW k \in StepsOf(f) PROVE ~Before(f, k)'
  <2>1. f \in Nat /\ k \in Nat /\ k >= 1
    BY StepNumbers DEF Blocks, NumBlocks
  <2> QED
    BY <2>1 DEF Before
<1>4. Step' = Steps(0)[1]
  BY DEF Step
<1> QED
  BY <1>2, <1>3, <1>4, FirstIsKey

\* Where a card is being written again from the first step, only what was printed
\* matters.
LEMMA StartsOver ==
    ASSUME writing'.field = 0, writing'.step = 1, PrintedIsWritten'
    PROVE  CardInv'
  BY AtFirstStep DEF CardInv, KeyBeforeWrite

\* A step that leaves the cards alone.
LEMMA CardAlone ==
    ASSUME CardInv, UNCHANGED <<run, cardVars>>, printed' \in {printed, NotACard}
    PROVE  CardInv'
<1>1. run' = run /\ writing' = writing /\ content' = content /\ failed' = failed
  BY DEF cardVars
<1>2. \A f \in Blocks : \A k \in StepsOf(f) :
        /\ Before(f, k)' <=> Before(f, k)
        /\ Holds(writing.card, f, k)' <=> Holds(writing.card, f, k)
  BY <1>1 DEF Before, Holds
<1>3. KeyBeforeWrite'
  BY <1>1 DEF CardInv, KeyBeforeWrite, Step
<1>4. PrintedIsWritten'
  BY <1>1, WriterAssumption DEF CardInv, PrintedIsWritten
<1> QED
  BY <1>1, <1>2, <1>3, <1>4 DEF CardInv

\* What one step done leaves on the cards.
LEMMA StepHeld ==
    ASSUME WriterTypeOK, CardInv, StepDone, writing.card \notin failed
    PROVE  /\ \A f \in Blocks : \A k \in StepsOf(f) :
                /\ Before(f, k) \/ (f = writing.field /\ k = writing.step)
                /\ ~Steps(f)[k].key
                => content'[writing.card][Steps(f)[k].block]
                     = [run |-> run, field |-> f, part |-> Steps(f)[k].part]
<1>1. PICK c \in Cards, g \in Blocks, l \in 1 .. 6 :
        c = writing.card /\ g = writing.field /\ l = writing.step
  BY DEF StepDone, WriterTypeOK
<1>9. l \in StepsOf(g)
  BY <1>1 DEF CardInv
<1>2. Step = Steps(g)[l]
  BY <1>1 DEF Step
<1>3. content \in [Cards -> [CardBlocks -> [run : 0 .. MaxRuns, field : Blocks,
                                            part : {0} \union Parts]]]
  BY DEF WriterTypeOK
<1>4. PICK tags : content \in [Cards -> [CardBlocks -> tags]]
  BY <1>3
<1> SUFFICES ASSUME NEW f \in Blocks, NEW k \in StepsOf(f), ~Steps(f)[k].key,
                    Before(f, k) \/ (f = g /\ k = l)
             PROVE  content'[c][Steps(f)[k].block]
                      = [run |-> run, field |-> f, part |-> Steps(f)[k].part]
  BY <1>1
<1>5. Steps(f)[k].block \in CardBlocks /\ Steps(g)[l].block \in CardBlocks
  BY <1>9, StepTypes
<1>6. Before(f, k) => content[c][Steps(f)[k].block]
                        = [run |-> run, field |-> f, part |-> Steps(f)[k].part]
  BY <1>1 DEF CardInv, Holds
<1>7. CASE Step.key
  <2>1. content' = content
    BY <1>7 DEF StepDone
  <2>2. ~(f = g /\ k = l)
    BY <1>2, <1>7
  <2> QED
    BY <1>6, <2>1, <2>2
<1>8. CASE ~Step.key
  <2>1. content' = [content EXCEPT ![c][Steps(g)[l].block] =
                      [run |-> run, field |-> g, part |-> Steps(g)[l].part]]
    BY <1>1, <1>2, <1>8 DEF StepDone
  <2>2. PICK x \in CardBlocks,
             v \in {[run |-> run, field |-> g, part |-> Steps(g)[l].part]} :
          x = Steps(g)[l].block
    BY <1>5
  <2>3. content' = [content EXCEPT ![c][x] = v]
    BY <2>1, <2>2
  <2>4. content'[c][x] = v /\ \A y \in CardBlocks : y # x => content'[c][y] = content[c][y]
    BY <1>4, <2>3
  <2>5. CASE f = g /\ k = l
    BY <2>2, <2>4, <2>5
  <2>6. CASE Before(f, k)
    <3>1. f < g \/ (f = g /\ k < l)
      BY <1>1, <2>6 DEF Before
    <3>2. Steps(f)[k].block # Steps(g)[l].block
      BY <1>2, <1>8, <1>9, <3>1, BlocksDiffer
    <3> QED
      BY <1>5, <1>6, <2>2, <2>4, <2>6, <3>2
  <2> QED
    BY <2>5, <2>6
<1> QED
  BY <1>7, <1>8

\* A step of write_blocks that succeeds.
LEMMA StepDoneKeepsCard ==
    ASSUME WriterTypeOK, CardInv, StepDone
    PROVE  CardInv'
<1>0. HostType /\ LineType /\ InputType /\ CardType
  BY TypeParts
<1> DEFINE s == Sector(Step.block)
<1>1. PICK c \in Cards, g \in Blocks, l \in 1 .. 6 :
        c = writing.card /\ g = writing.field /\ l = writing.step
  BY DEF StepDone, WriterTypeOK
<1>2. l \in StepsOf(g) /\ writing.step \in StepsOf(writing.field)
  BY <1>1 DEF CardInv
<1>3. PICK m \in 5 .. 6 : m = Len(Steps(g))
  BY StepTypes
<1>4. l \in 1 .. m
  BY <1>2, <1>3 DEF StepsOf
<1>5. s \in 0 .. 6 /\ Step = Steps(g)[l]
  BY <1>0, <1>1, <1>2, StepAt
<1>6. run' = run /\ failed' = failed /\ printed' = printed
  BY DEF StepDone, hostVars
<1>7. Proceeds(FALSE, s)
  BY DEF StepDone
<1>8. NextStep(s) \/ (~(writing.step < Len(Steps(writing.field))) /\ (NextField(s) \/ AllDone))
  BY <1>7, AfterStep
<1>9. writing'.step \in StepsOf(writing'.field)
  BY <1>0, <1>2, <1>5, <1>8, GoesOnAt
<1>10. \A x \in Cards : x # c => content'[x] = content[x]
  <2>1. PICK tags : content \in [Cards -> tags]
    BY <1>0 DEF CardType
  <2>2. content' = content \/ content' = [content EXCEPT ![c][Step.block] =
                                [run |-> run, field |-> g, part |-> Step.part]]
    BY <1>1 DEF StepDone
  <2> QED
    BY <2>1, <2>2
<1>11. ASSUME NEW f \in Blocks, NEW k \in StepsOf(f), c \notin failed, ~Steps(f)[k].key,
              Before(f, k) \/ (f = g /\ k = l)
       PROVE  content'[c][Steps(f)[k].block]
                = [run |-> run, field |-> f, part |-> Steps(f)[k].part]
  BY <1>1, <1>11, StepHeld
<1>12. CASE NextStep(s)
  <2>1. /\ writing'.card = c /\ writing'.field = g
        /\ writing'.step = l + 1 /\ writing'.sector = s
    BY <1>0, <1>1, <1>2, <1>5, <1>12, GoesOnAt
  <2>2. \A f \in Blocks : \A k \in StepsOf(f) :
          Before(f, k)' => Before(f, k) \/ (f = g /\ k = l)
    <3>1. \A f \in Blocks : \A k \in StepsOf(f) : k \in Nat
      BY StepNumbers
    <3> QED
      BY <1>1, <2>1, <3>1 DEF Before
  <2>3. ASSUME NEW f \in Blocks, NEW k \in StepsOf(f), c \notin failed, ~Steps(f)[k].key,
               Before(f, k)'
        PROVE  Holds(writing.card, f, k)'
    BY <1>6, <1>11, <2>1, <2>2, <2>3 DEF Holds
  <2>4. KeyBeforeWrite'
    <3>1. Step' = Steps(g)[l + 1]
      BY <2>1 DEF Step
    <3>2. l + 1 \in StepsOf(g)
      BY <1>9, <2>1
    <3>3. ~Steps(g)[l + 1].key => Sector(Steps(g)[l + 1].block) = Sector(Steps(g)[l].block)
      BY <1>2, <3>2, NextInSector
    <3> QED
      BY <1>5, <2>1, <3>1, <3>3 DEF KeyBeforeWrite
  <2>5. PrintedIsWritten'
    BY <1>1, <1>6, <1>10, <2>1 DEF CardInv, PrintedIsWritten
  <2> QED
    BY <1>6, <1>9, <2>1, <2>3, <2>4, <2>5 DEF CardInv
<1>13. CASE ~(writing.step < Len(Steps(writing.field))) /\ NextField(s)
  <2>1. /\ writing'.card = c /\ writing'.field = g + 1
        /\ writing'.step = 1 /\ writing'.sector = s
    BY <1>0, <1>1, <1>2, <1>5, <1>13, GoesOnAt
  <2>2. l = m
    BY <1>1, <1>3, <1>4, <1>13
  <2>3. g < NumBlocks - 1
    BY <1>1, <1>13 DEF NextField
  <2>4. PICK h \in Blocks : h = g + 1
    BY <2>3 DEF Blocks, NumBlocks
  <2>5. \A f \in Blocks : \A k \in StepsOf(f) :
          Before(f, k)' => Before(f, k) \/ (f = g /\ k = l)
    <3>1. SUFFICES ASSUME NEW f \in Blocks, NEW k \in StepsOf(f), Before(f, k)'
                   PROVE  Before(f, k) \/ (f = g /\ k = l)
      OBVIOUS
    <3>2. PICK o \in 5 .. 6 : o = Len(Steps(f))
      BY StepTypes
    <3>3. k \in 1 .. o /\ f \in Nat /\ g \in Nat
      BY <3>2 DEF StepsOf, Blocks, NumBlocks
    <3>4. f < g + 1
      BY <2>1, <3>1, <3>3 DEF Before
    <3>5. f = g => k <= l
      BY <1>3, <2>2, <3>2, <3>3
    <3> QED
      BY <1>1, <3>3, <3>4, <3>5 DEF Before
  <2>6. ASSUME NEW f \in Blocks, NEW k \in StepsOf(f), c \notin failed, ~Steps(f)[k].key,
               Before(f, k)'
        PROVE  Holds(writing.card, f, k)'
    BY <1>6, <1>11, <2>1, <2>5, <2>6 DEF Holds
  <2>7. KeyBeforeWrite'
    <3>1. Step' = Steps(g + 1)[1]
      BY <2>1 DEF Step
    <3>2. ~Steps(g + 1)[1].key => Sector(Steps(g + 1)[1].block) = Sector(Steps(g)[l].block)
      BY <1>3, <2>2, <2>4, NextFieldInSector
    <3> QED
      BY <1>5, <2>1, <3>1, <3>2 DEF KeyBeforeWrite
  <2>8. PrintedIsWritten'
    BY <1>1, <1>6, <1>10, <2>1 DEF CardInv, PrintedIsWritten
  <2> QED
    BY <1>6, <1>9, <2>1, <2>6, <2>7, <2>8 DEF CardInv
<1>14. CASE ~(writing.step < Len(Steps(writing.field))) /\ AllDone
  <2>1. writing'.card = Nothing /\ writing'.field = 0 /\ writing'.step = 1
    BY <1>14 DEF AllDone, Idle
  <2>2. l = m /\ g = NumBlocks - 1
    BY <1>1, <1>3, <1>4, <1>14 DEF AllDone, Blocks, NumBlocks
  <2>3. ASSUME c \notin failed
        PROVE  \A f \in Blocks : \A i \in Parts :
                 content'[c][ReadFrom(f)[i]] = [run |-> run, field |-> f, part |-> i]
    <3>1. ASSUME NEW f \in Blocks, NEW k \in StepsOf(f)
          PROVE  Before(f, k) \/ (f = g /\ k = l)
      <4>1. PICK o \in 5 .. 6 : o = Len(Steps(f))
        BY StepTypes
      <4>2. k \in 1 .. o /\ f \in Nat /\ f <= g /\ g \in Nat
        BY <2>2, <4>1 DEF StepsOf, Blocks, NumBlocks
      <4>3. f = g => k <= l
        BY <1>3, <2>2, <4>1, <4>2
      <4> QED
        BY <1>1, <4>2, <4>3 DEF Before
    <3>2. \A f \in Blocks : \A k \in StepsOf(f) :
            ~Steps(f)[k].key =>
              content'[c][Steps(f)[k].block]
                = [run |-> run, field |-> f, part |-> Steps(f)[k].part]
      BY <1>11, <2>3, <3>1
    <3>3. PICK held, r : held = content'[c] /\ r = run
      OBVIOUS
    <3>4. \A f \in Blocks : \A k \in StepsOf(f) :
            ~Steps(f)[k].key =>
              held[Steps(f)[k].block] = [run |-> r, field |-> f, part |-> Steps(f)[k].part]
      BY <3>2, <3>3
    <3>5. \A f \in Blocks : \A i \in Parts :
            held[ReadFrom(f)[i]] = [run |-> r, field |-> f, part |-> i]
      BY <3>4, AllHeld
    <3> QED
      BY <3>3, <3>5
  <2>4. PrintedIsWritten'
    BY <1>1, <1>6, <1>10, <2>3 DEF CardInv, PrintedIsWritten
  <2> QED
    BY <2>1, <2>4, StartsOver
<1> QED
  BY <1>8, <1>12, <1>13, <1>14

\* Every step keeps what is known of the cards.
LEMMA CardStep ==
    ASSUME WriterTypeOK, CardInv, [Next]_writerVars
    PROVE  CardInv'
<1>0. HostType /\ LineType /\ InputType /\ CardType
  BY TypeParts
<1>1. CASE SendChunk \/ TakeSerial \/ RegistersNothing \/ Registers \/ Quit \/ LeavesLoop
           \/ EmptySerial \/ UNCHANGED writerVars
  <2>1. UNCHANGED <<run, cardVars, printed>>
    BY <1>1 DEF SendChunk, TakeSerial, RegistersNothing, Registers, Quit, LeavesLoop,
       EmptySerial, writerVars, hostVars
  <2> QED
    BY <2>1, CardAlone
<1>2. CASE ReadByte
  <2>1. UNCHANGED <<run, cardVars>>
    BY <1>2 DEF ReadByte, hostVars
  <2>2. printed' \in {printed, NotACard}
    BY <1>0, <1>2, ReadOutcome DEF Counts, Accepts, Refuses
  <2> QED
    BY <2>1, <2>2, CardAlone
<1>3. CASE StartRun
  <2>1. writing' = Idle /\ printed' = Nothing
    BY <1>3 DEF StartRun
  <2>2. writing'.card = Nothing /\ writing'.field = 0 /\ writing'.step = 1
    BY <2>1 DEF Idle
  <2>3. PrintedIsWritten'
    BY <2>1, <2>2 DEF PrintedIsWritten
  <2> QED
    BY <2>2, <2>3, StartsOver
<1>4. ASSUME NEW c \in Cards, SelectCard(c) PROVE CardInv'
  <2>1. /\ writing = Idle /\ writing' = [Idle EXCEPT !.card = c]
        /\ printed' = IF printed = Nothing THEN c ELSE printed
        /\ UNCHANGED <<run, content, failed>>
    BY <1>4 DEF SelectCard, hostVars
  <2>2. writing'.card = c /\ writing'.field = 0 /\ writing'.step = 1 /\ writing.card = Nothing
    BY <2>1 DEF Idle
  <2>3. PrintedIsWritten'
    BY <2>1, <2>2 DEF CardInv, PrintedIsWritten
  <2> QED
    BY <2>2, <2>3, StartsOver
<1>5. CASE StepDone
  BY <1>5, StepDoneKeepsCard
<1>6. CASE StepFails
  <2>1. writing.card \in Cards /\ writing.step \in StepsOf(writing.field)
    BY <1>6 DEF StepFails, CardInv
  <2>2. /\ UNCHANGED <<run, content, printed>>
        /\ failed' = failed \union {writing.card}
    BY <1>6 DEF StepFails, hostVars
  <2>3. PICK sector \in 0 .. 6 : Proceeds(TRUE, sector)
    <3>1. writing.sector \in 0 .. 6 /\ 0 \in 0 .. 6
      BY <1>0 DEF CardType, Writings
    <3>2. \E sector \in {0, writing.sector} : Proceeds(TRUE, sector)
      BY <1>6, Zenon DEF StepFails
    <3> QED
      BY <3>1, <3>2
  <2>4. NextField(sector) \/ AllDone
    BY <2>3, AfterStep
  <2>5. PrintedIsWritten'
    BY <2>2 DEF CardInv, PrintedIsWritten
  <2>6. CASE NextField(sector)
    <3>1. /\ writing'.card = writing.card
          /\ writing'.step \in StepsOf(writing'.field)
      BY <1>0, <2>1, <2>6, GoesOnAt
    <3>2. writing'.card \in failed'
      BY <2>2, <3>1
    <3> QED
      BY <2>5, <3>1, <3>2 DEF CardInv, KeyBeforeWrite
  <2>7. CASE AllDone
    <3>1. writing'.field = 0 /\ writing'.step = 1
      BY <2>7 DEF AllDone, Idle
    <3> QED
      BY <2>5, <3>1, StartsOver
  <2> QED
    BY <2>4, <2>6, <2>7
<1> QED
  BY <1>1, <1>2, <1>3, <1>4, <1>5, <1>6 DEF Next, HostSteps, BoardSteps

-----------------------------------------------------------------------------

(***************************************************************************)
(* The theorems.                                                           *)
(***************************************************************************)

\* The invariant holds initially.
LEMMA WriterInitInv == Init => WriterInv
<1> SUFFICES ASSUME Init PROVE WriterInv
  OBVIOUS
<1>1. WriterTypeOK /\ HostInv
  BY WriterInitType
<1>2. ReadInv
  BY ReadInitInv
<1>3. CardInv
  <2>1. writing = Idle /\ printed = Nothing
    BY DEF Init
  <2>2. writing.card = Nothing /\ writing.field = 0 /\ writing.step = 1
    BY <2>1 DEF Idle
  <2>3. 0 \in Blocks
    BY DEF Blocks, NumBlocks
  <2>4. 1 \in StepsOf(0)
    BY <2>3, StepNumbers
  <2>5. ASSUME NEW f \in Blocks, NEW k \in StepsOf(f) PROVE ~Before(f, k)
    <3>1. f \in Nat /\ k \in Nat /\ k >= 1
      BY StepNumbers DEF Blocks, NumBlocks
    <3> QED
      BY <2>2, <3>1 DEF Before
  <2>6. KeyBeforeWrite
    BY <2>2, FirstIsKey DEF KeyBeforeWrite, Step
  <2>7. PrintedIsWritten
    BY <2>1, <2>2 DEF PrintedIsWritten
  <2> QED
    BY <2>2, <2>4, <2>5, <2>6, <2>7 DEF CardInv
<1> QED
  BY <1>1, <1>2, <1>3 DEF WriterInv

\* Every step keeps the invariant.
LEMMA WriterInvStep == WriterInv /\ [Next]_writerVars => WriterInv'
<1> SUFFICES ASSUME WriterInv, [Next]_writerVars PROVE WriterInv'
  OBVIOUS
<1>0. WriterTypeOK /\ HostInv /\ ReadInv /\ CardInv
  BY DEF WriterInv
<1>1. writing.card \in Cards => writing.step \in StepsOf(writing.field)
  BY <1>0 DEF CardInv
<1>2. WriterTypeOK' /\ HostInv'
  <2>1. CASE HostSteps \/ Quit
    BY <1>0, <2>1, HostTypes
  <2>2. CASE ReadByte
    BY <1>0, <2>2, ReadTypes
  <2>3. CASE LeavesLoop \/ EmptySerial \/ StepDone \/ StepFails \/ \E c \in Cards : SelectCard(c)
    BY <1>0, <1>1, <2>3, BoardTypes
  <2>4. CASE UNCHANGED writerVars
    BY <1>0, <2>4 DEF WriterTypeOK, HostInv, writerVars, hostVars, lineVars, inputVars, cardVars
  <2> QED
    BY <2>1, <2>2, <2>3, <2>4 DEF Next, BoardSteps
<1>3. ReadInv'
  BY <1>0, ReadStep
<1>4. CardInv'
  BY <1>0, CardStep
<1> QED
  BY <1>2, <1>3, <1>4 DEF WriterInv

\* Host, line, board and cards keep their invariant.
THEOREM WriterInvariant == Spec => []WriterInv
  BY WriterInitInv, WriterInvStep, PTL DEF Spec

\* For any length of fields and chunks every variable keeps its type: the board
\* never stores a byte outside of its arrays.
THEOREM WriterTypeCorrect == Spec => []WriterTypeOK
<1>1. WriterInv => WriterTypeOK
  BY DEF WriterInv
<1> QED
  BY WriterInvariant, <1>1, PTL

\* Whatever is lost on the line and whatever the data is, a board that is ready for
\* a card has every byte of the four fields where it belongs.
THEOREM ReadyIsAlwaysWhole == Spec => []ReadyIsWhole
<1>1. WriterInv => ReadyIsWhole
  BY DEF WriterInv, ReadInv
<1> QED
  BY WriterInvariant, <1>1, PTL

\* While all goes well, every block is written in a sector that is authenticated.
THEOREM KeyAlwaysBeforeWrite == Spec => []KeyBeforeWrite
<1>1. WriterInv => KeyBeforeWrite
  BY DEF WriterInv, CardInv
<1> QED
  BY WriterInvariant, <1>1, PTL

\* A card whose number was printed and on which no step failed holds all the data
\* of the run where the reader looks for it, once it is no longer being written.
THEOREM PrintedIsAlwaysWritten == Spec => []PrintedIsWritten
<1>1. WriterInv => PrintedIsWritten
  BY DEF WriterInv, CardInv
<1> QED
  BY WriterInvariant, <1>1, PTL

=============================================================================
