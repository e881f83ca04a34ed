------------------------------ MODULE MCSystem ------------------------------
(* Cards of the small instance of LoginSystem. *)
EXTENDS LoginSystem

\* Fields full of bytes that look like the first acknowledge byte.
LookalikeBytes == [c \in BoardCards |-> [i \in DataPlaces |-> 1]]

\* As many digits as wait_serial_number reads, which look like acknowledge bytes.
ExactDigits == [c \in BoardCards |-> [i \in 1 .. SerialLength |-> NumFields]]

=============================================================================
