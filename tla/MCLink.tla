------------------------------- MODULE MCLink -------------------------------
(* Cards of the small instances of ReaderLink. *)
EXTENDS ReaderLink

\* Fields full of bytes that look like the first acknowledge byte and like SS.
LookalikeBytes ==
    [c \in BoardCards |->
        [i \in DataPlaces |-> IF FieldAt(i) % 2 = 1 THEN 1 ELSE LetterS]]

\* Fields full of bytes that look like nothing the host waits for.
PlainBytes == [c \in BoardCards |-> [i \in DataPlaces |-> OtherByte]]

\* Fields that one place on look like a message: AcksStandOut does not hold.
ShiftedBytes == [c \in BoardCards |-> [i \in DataPlaces |-> FieldAt(i)]]

\* Digits that look like the last acknowledge byte, and one that does not.
NumberOf(length) ==
    [c \in BoardCards |-> [i \in 1 .. length |-> IF i = 2 THEN LetterA ELSE NumFields]]

\* As many characters as wait_serial_number reads.
ExactDigits == NumberOf(SerialLength)

\* Two characters more: four bytes of two digits each, scaled.
LongDigits == NumberOf(SerialLength + 2)

\* One character more: one of the bytes is below 0x10.
OddDigits == NumberOf(SerialLength + 1)

=============================================================================
