------------------------------ MODULE CardWriter ------------------------------
(***************************************************************************)
(* Writing a card: the program argoRFID-Writer sends the four fields over   *)
(* the serial line and registers the serial number that comes back; the     *)
(* firmware argoRFID_Writer checks the fields, waits for a card, prints its *)
(* serial number and writes the fields on it.                               *)
(*                                                                          *)
(* A byte is known by its place in the stream of one run of the program, so *)
(* what is on the line is a set of places, read from the least on.  The     *)
(* program has BlockLen = 64 and Chunk = 16.  A serial number is the card    *)
(* it is printed for; that the host takes four characters of it is the       *)
(* subject of ReaderLink.                                                   *)
(***************************************************************************)
EXTENDS Integers, Sequences

CONSTANTS
    Cards,       \* cards that may be put on the board
    NotACard,    \* what the host takes for a serial number if it reads "ERRO"
    BlockLen,    \* bytes of a field
    Chunk,       \* bytes write_block sends at a time
    Twins,       \* <<place, b>>: a byte of data that equals the acknowledge byte of b
    MaxRuns,     \* bound: times the program is started
    MaxLost      \* bound: bytes lost on the line

NumBlocks == 4

Blocks == 0 .. NumBlocks - 1

\* The acknowledge byte and the zeros after it make one more chunk: a block of
\* my_block is BlockLen + Chunk bytes.
Stride == BlockLen + Chunk

Places == 0 .. NumBlocks * Stride - 1

AckPlace(b) == b * Stride + BlockLen

DataPlaces == {p \in Places : \E b \in Blocks : b * Stride <= p /\ p < AckPlace(b)}

ASSUME WriterAssumption ==
    /\ NotACard \notin Cards
    /\ BlockLen \in Nat /\ Chunk \in Nat
    /\ 0 < Chunk /\ 0 < BlockLen /\ BlockLen % Chunk = 0
    /\ Twins \subseteq DataPlaces \X Blocks
    /\ MaxRuns \in Nat
    /\ MaxLost \in Nat

VARIABLES
    host,        \* where main of the writer is
    run,         \* times it has been started
    chunks,      \* chunks of this run sent
    serial,      \* the serial number it has read
    registered,  \* table allowcard
    line,        \* places of the bytes that have left the host and wait to be read
    lost,        \* bytes lost
    board,       \* connection_done, num_of_block, num_of_byte, block_ready
    inLoop,      \* still in the loop over Serial.available() after a refusal
    field,       \* nome, cognome, user, psw: index |-> place of the byte there
    printed,     \* first thing printed to the host in this run
    writing,     \* card, field and step write_blocks has reached, sector authenticated
    content,     \* card |-> block of it |-> run, field and part written there
    failed       \* history: cards of this run at which a step has failed

hostVars == <<host, run, chunks, serial, registered>>
lineVars == <<line, lost>>
inputVars == <<board, inLoop, field>>
cardVars == <<writing, content, failed>>
writerVars == <<hostVars, lineVars, inputVars, printed, cardVars>>

Nothing == "nothing"
Unset == -1

(***************************************************************************)
(* MifareRFID: where the four parts of each field are, and the trailers by  *)
(* which the sector is authenticated first.  Fields 1 and 2 begin in the     *)
(* sector the field before has authenticated.                               *)
(***************************************************************************)
\* Fault: the trailer of the sector before.
AuthBefore(block) == [key |-> TRUE, block |-> block - 4, part |-> 0]

Auth(block) == [key |-> TRUE, block |-> block, part |-> 0]

Put(block, part) == [key |-> FALSE, block |-> block, part |-> part]

\* write_blocks
Steps(f) ==
    CASE f = 0 -> <<Auth(7), Put(4, 1), Put(5, 2), Put(6, 3), Auth(11), Put(8, 4)>>
      [] f = 1 -> <<Put(9, 1), Put(10, 2), Auth(15), Put(12, 3), Put(13, 4)>>
      [] f = 2 -> <<Put(14, 1), Auth(19), Put(16, 2), Put(17, 3), Put(18, 4)>>
      [] f = 3 -> <<Auth(23), Put(20, 1), Put(21, 2), Put(22, 3), Auth(26), Put(24, 4)>>

\* Fault: four blocks after each other, over the trailers.
ReadFromOnward(f) == [i \in 1 .. 4 |-> 4 * f + 3 + i]

\* read_blocks of the reader: the block that part i of field f is read from.
ReadFrom(f) ==
    CASE f = 0 -> <<4, 5, 6, 8>>
      [] f = 1 -> <<9, 10, 12, 13>>
      [] f = 2 -> <<14, 16, 17, 18>>
      [] f = 3 -> <<20, 21, 22, 24>>

CardBlocks == 4 .. 26
Parts == 1 .. 4

Sector(block) == block \div 4

Blank == [run |-> 0, field |-> 0, part |-> 0]

Idle == [card |-> Nothing, field |-> 0, step |-> 1, sector |-> 0]

Restarted == [connection_done |-> 0, num_of_block |-> 0, num_of_byte |-> 0,
              block_ready |-> 0]

Init ==
    /\ host = "idle" /\ run = 0 /\ chunks = 0 /\ serial = Nothing
    /\ registered = {}
    /\ line = {} /\ lost = 0
    /\ board = Restarted
    /\ inLoop = FALSE
    /\ field = [b \in Blocks |-> [i \in 0 .. BlockLen |-> Unset]]
    /\ printed = Nothing
    /\ writing = Idle
    /\ content = [c \in Cards |-> [b \in CardBlocks |-> Blank]]
    /\ failed = {}

(***************************************************************************)
(* The host.                                                               *)
(***************************************************************************)

\* main until wait_for_device has returned: opening the port restarts the board,
\* which then answers INIT.
StartRun ==
    /\ host \in {"idle", "done"}
    /\ run < MaxRuns
    /\ host' = "sending" /\ run' = run + 1 /\ chunks' = 0 /\ serial' = Nothing
    /\ line' = {}
    /\ board' = [Restarted EXCEPT !.connection_done = 1]
    /\ inLoop' = FALSE
    /\ field' = [b \in Blocks |-> [i \in 0 .. BlockLen |-> Unset]]
    /\ printed' = Nothing
    /\ writing' = Idle
    /\ failed' = {}
    /\ UNCHANGED <<registered, lost, content>>

\* The user closes the window.
Quit ==
    /\ host \in {"sending", "waiting", "checking"}
    /\ host' = "idle"
    /\ UNCHANGED <<run, chunks, serial, registered, lineVars, inputVars, printed,
                   cardVars>>

ChunkPlaces(n) == n * Chunk .. (n + 1) * Chunk - 1

AllChunks == NumBlocks * (BlockLen \div Chunk + 1)

\* One turn of the loop in write_block.  The half second before it is enough for
\* the board to read what was sent before.  A chunk that could not be sent, and a
\* byte that gets lost, are not sent again.
SendChunk ==
    /\ host = "sending"
    /\ line = {} /\ ~inLoop
    /\ \E gone \in SUBSET ChunkPlaces(chunks) :
         /\ gone # {} => lost < MaxLost
         /\ line' = ChunkPlaces(chunks) \ gone
         /\ lost' = IF gone = {} THEN lost ELSE lost + 1
    /\ chunks' = chunks + 1
    /\ host' = IF chunks' = AllChunks THEN "waiting" ELSE "sending"
    /\ UNCHANGED <<run, serial, registered, inputVars, printed, cardVars>>

\* wait_serial_number
TakeSerial ==
    /\ host = "waiting"
    /\ printed # Nothing
    /\ serial' = printed
    /\ host' = "checking"
    /\ UNCHANGED <<run, chunks, registered, lineVars, inputVars, printed, cardVars>>

\* is_serial_present says 1 or -1, or insert_serial fails without anyone noticing.
RegistersNothing ==
    /\ host = "checking"
    /\ host' = "done"
    /\ UNCHANGED <<run, chunks, serial, registered, lineVars, inputVars, printed,
                   cardVars>>

Registers ==
    /\ host = "checking"
    /\ serial \notin registered
    /\ registered' = registered \union {serial}
    /\ host' = "done"
    /\ UNCHANGED <<run, chunks, serial, lineVars, inputVars, printed, cardVars>>

(***************************************************************************)
(* The board: loop and check_and_fill.                                     *)
(***************************************************************************)
\* Fault: any byte will do where the acknowledge byte should be.
AcksAny(p, b) == p \in Places

Acks(p, b) == p = AckPlace(b) \/ <<p, b>> \in Twins

\* Fault: the board does not empty its buffer after a block.
KeptAfterBlock(rest) == rest

\* A tone of 200 ms comes before empty_serial: all that was sent has arrived.
LeftAfterBlock(rest) == {}

\* Faults: the block before the last is taken for the last; none is.
LastBlockEarly(b) == b = NumBlocks - 2

LastBlockNever(b) == b = NumBlocks

LastBlock(b) == b = NumBlocks - 1

Accepted(rest) ==
    /\ line' = LeftAfterBlock(rest)
    /\ board' =
         IF LastBlock(board.num_of_block)
         THEN [board EXCEPT !.num_of_byte = 0, !.num_of_block = 0, !.block_ready = 1]
         ELSE [board EXCEPT !.num_of_byte = 0, !.num_of_block = @ + 1]
    /\ UNCHANGED <<inLoop, printed>>

\* num_of_block is kept.  Only what has arrived by now is dropped; the rest comes
\* while the loop goes on or later.  The last block's refusal is printed.
Refused(rest) ==
    /\ \E k \in rest \union {NumBlocks * Stride} : line' = {p \in rest : p >= k}
    /\ board' = [board EXCEPT !.num_of_byte = 0, !.connection_done = 0]
    /\ inLoop' = TRUE
    /\ printed' = IF LastBlock(board.num_of_block) /\ printed = Nothing
                  THEN NotACard ELSE printed

ReadByte ==
    /\ inLoop \/ (board.connection_done = 1 /\ board.block_ready = 0)
    /\ \E p \in line :
         /\ \A q \in line : p <= q
         /\ field' = [field EXCEPT ![board.num_of_block][board.num_of_byte] = p]
         /\ IF board.num_of_byte = BlockLen
            THEN IF Acks(p, board.num_of_block) THEN Accepted(line \ {p})
                 ELSE Refused(line \ {p})
            ELSE /\ line' = line \ {p}
                 /\ board' = [board EXCEPT !.num_of_byte = @ + 1]
                 /\ UNCHANGED <<inLoop, printed>>
    /\ UNCHANGED <<hostVars, lost, cardVars>>

\* For a moment nothing is available: the loop ends.
LeavesLoop ==
    /\ inLoop
    /\ inLoop' = FALSE
    /\ UNCHANGED <<hostVars, lineVars, board, field, printed, cardVars>>

\* Waiting for INIT, which is no part of the data, or for a card.
EmptySerial ==
    /\ ~inLoop
    /\ board.connection_done = 0 \/ board.block_ready = 1
    /\ line # {}
    /\ line' = {}
    /\ UNCHANGED <<hostVars, lost, inputVars, printed, cardVars>>

(***************************************************************************)
(* The board: a card is there.                                             *)
(***************************************************************************)

\* select_card and print_serial, before anything is written.
SelectCard(c) ==
    /\ board.connection_done = 1 /\ board.block_ready = 1 /\ ~inLoop
    /\ writing = Idle
    /\ printed' = IF printed = Nothing THEN c ELSE printed
    /\ writing' = [Idle EXCEPT !.card = c]
    /\ UNCHANGED <<hostVars, lineVars, inputVars, content, failed>>

Step == Steps(writing.field)[writing.step]

\* The next step of the field, the next field, or stop_write.
Proceeds(skip, sector) ==
    IF ~skip /\ writing.step < Len(Steps(writing.field))
    THEN /\ writing' = [writing EXCEPT !.step = @ + 1, !.sector = sector]
         /\ UNCHANGED board
    ELSE IF writing.field < NumBlocks - 1
    THEN /\ writing' = [writing EXCEPT !.field = @ + 1, !.step = 1, !.sector = sector]
         /\ UNCHANGED board
    ELSE /\ writing' = Idle
         /\ board' = [board EXCEPT !.block_ready = 0]

StepDone ==
    /\ writing.card \in Cards
    /\ Step.key \/ Sector(Step.block) = writing.sector
    /\ Proceeds(FALSE, Sector(Step.block))
    /\ content' =
         IF Step.key THEN content
         ELSE [content EXCEPT ![writing.card][Step.block] =
                  [run |-> run, field |-> writing.field, part |-> Step.part]]
    /\ UNCHANGED <<hostVars, lineVars, inLoop, field, printed, failed>>

\* error_dump: the rest of the field is given up, its result ignored.  A card
\* refuses to be written in a sector that is not authenticated.
StepFails ==
    /\ writing.card \in Cards
    /\ Proceeds(TRUE, IF Step.key THEN 0 ELSE writing.sector)
    /\ failed' = failed \union {writing.card}
    /\ UNCHANGED <<hostVars, lineVars, inLoop, field, printed, content>>

-----------------------------------------------------------------------------

HostSteps ==
    StartRun \/ SendChunk \/ TakeSerial \/ RegistersNothing \/ Registers

BoardSteps == ReadByte \/ LeavesLoop \/ EmptySerial \/ StepDone \/ StepFails

Next ==
    \/ HostSteps \/ Quit
    \/ BoardSteps
    \/ \E c \in Cards : SelectCard(c)

Spec == Init /\ [][Next]_writerVars

\* Host and board go on, and some card is put on the board again and again.
FairSpec ==
    /\ Spec
    /\ WF_writerVars(SendChunk \/ TakeSerial \/ RegistersNothing \/ Registers)
    /\ WF_writerVars(BoardSteps)
    /\ WF_writerVars(\E c \in Cards : SelectCard(c))

(***************************************************************************)
(* Properties.                                                             *)
(***************************************************************************)

\* Every variable has its type.
WriterTypeOK ==
    /\ host \in {"idle", "sending", "waiting", "checking", "done"}
    /\ run \in 0 .. MaxRuns
    /\ chunks \in 0 .. AllChunks
    /\ serial \in Cards \union {NotACard, Nothing}
    /\ registered \subseteq Cards \union {NotACard}
    /\ line \subseteq Places
    /\ lost \in 0 .. MaxLost
    /\ board \in [connection_done : {0, 1}, num_of_block : Blocks,
                  num_of_byte : 0 .. BlockLen, block_ready : {0, 1}]
    /\ inLoop \in BOOLEAN
    /\ field \in [Blocks -> [0 .. BlockLen -> Places \union {Unset}]]
    /\ printed \in Cards \union {NotACard, Nothing}
    /\ writing \in [card : Cards \union {Nothing}, field : Blocks, step : 1 .. 6,
                    sector : 0 .. 6]
    /\ content \in [Cards -> [CardBlocks -> [run : 0 .. MaxRuns, field : Blocks,
                                             part : {0} \union Parts]]]
    /\ failed \subseteq Cards

\* When the board is ready for a card it has all four fields of this run, every
\* byte where it belongs, whatever was lost on the line and even if a byte of the
\* data is equal to an acknowledge byte: a block that was cut short can be taken
\* for whole, but then the next one is short of a chunk, and so on to the last.
ReadyIsWhole ==
    board.block_ready = 1 =>
        \A b \in Blocks : \A i \in 0 .. BlockLen - 1 : field[b][i] = b * Stride + i

\* No step writes to a sector that is not authenticated unless a step before it
\* has failed: the fields that rely on the authentication of the one before have
\* it.
KeyBeforeWrite ==
    writing.card \in Cards \ failed /\ ~Step.key =>
        Sector(Step.block) = writing.sector

\* A card whose serial number was printed, and so may be in the table, is being
\* written, has got all the data of this run where the reader looks for it, or
\* has had a step fail that nobody is told of.
PrintedIsWritten ==
    printed \in Cards /\ writing.card # printed /\ printed \notin failed =>
        \A f \in Blocks : \A i \in Parts :
            content[printed][ReadFrom(f)[i]] = [run |-> run, field |-> f, part |-> i]

\* A run on whose way nothing is lost comes to an end once a card is put on the
\* board.
LosslessRunEnds ==
    (host = "sending") ~> (host \in {"idle", "done"} \/ lost > 0)

=============================================================================
