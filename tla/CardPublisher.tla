--------------------------- MODULE CardPublisher ---------------------------
(***************************************************************************)
(* The serial thread of the host application (srl/ArgoRFID_Reader.c): how   *)
(* a message from the card reader becomes the user name and password that   *)
(* the WebSocket thread may hand out.  The globals is_data_present,         *)
(* username and password have no lock; the other thread reads them between  *)
(* any two steps taken here, so every store the other thread can observe    *)
(* is a step of its own.                                                    *)
(*                                                                          *)
(* A text is identified by the number of the "something to send"            *)
(* announcement it arrived with.  The bytes of the messages are the subject *)
(* of module ReaderLink.                                                    *)
(***************************************************************************)
EXTENDS Naturals

CONSTANTS
    Cards,           \* cards that may be put on the reader
    Allowed,         \* cards whose serial number is in table allowcard
    MaxAnnounced,    \* bound: announcements in a behaviour
    MaxConnections   \* connections the MySQL server grants before refusing

ASSUME PublisherAssumption ==
    /\ Allowed \subseteq Cards
    /\ MaxAnnounced \in Nat
    /\ MaxConnections \in Nat

VARIABLES
    reader,            \* where the serial thread is in start_rfid_reader
    announced,         \* number of SS announcements recognised so far
    serialnumber,      \* the card whose serial number came last
    is_data_present,
    fields,            \* the global arrays username and password
    dbConnections,     \* MySQL connections is_serial_present left open
    accepted           \* history: announcements is_serial_present said 1 to

publisherVars ==
    <<reader, announced, serialnumber, is_data_present, fields,
      dbConnections, accepted>>

database == <<dbConnections, accepted>>

FieldNames == {"username", "password"}

Announcements == 1 .. MaxAnnounced

\* A C string held in one of the arrays: empty, or the contents of one field
\* of a message, whole or only a proper prefix of it.
Empty == [kind |-> "none", of |-> 0, whole |-> TRUE]

Text == {Empty} \cup
        [kind : FieldNames, of : Announcements, whole : BOOLEAN]

FieldText(f, i, whole) == [kind |-> f, of |-> i, whole |-> whole]

CutShort(t) == [kind |-> t.kind, of |-> t.of, whole |-> FALSE]

ReaderPlaces ==
    {"link", "receive", "serial", "clear_username", "clear_password",
     "check", "publish",
     "decrypt_username", "decrypting_username",
     "decrypt_password", "decrypting_password"}

\* The first store of decrypt_data into an array is still to come, or its last.
Decrypting == {"decrypt_username", "decrypting_username",
               "decrypt_password", "decrypting_password"}

Move(from, to) == reader = from /\ reader' = to

----------------------------------------------------------------------------

PublisherInit ==
    /\ reader = "link"
    /\ announced = 0
    /\ serialnumber \in Cards
    /\ is_data_present = FALSE
    /\ fields = [f \in FieldNames |-> Empty]
    /\ dbConnections = 0
    /\ accepted = {}

\* Fault: what was on offer stays on offer while the next message comes in.
RecognizeWithoutWithdrawal ==
    /\ Move("link", "receive")
    /\ announced < MaxAnnounced
    /\ announced' = announced + 1
    /\ UNCHANGED <<serialnumber, is_data_present, fields, database>>

\* receive_keep_alive returned SS_RECEIVED: withdraw what is on offer.
RecognizeAnnouncement ==
    /\ Move("link", "receive")
    /\ announced < MaxAnnounced
    /\ announced' = announced + 1
    /\ is_data_present' = FALSE
    /\ UNCHANGED <<serialnumber, fields, database>>

\* wait_message returned 1.
MessageValid ==
    /\ Move("receive", "serial")
    /\ UNCHANGED <<announced, serialnumber, is_data_present, fields, database>>

\* wait_message returned 0: "INVALID message received!".
MessageInvalid ==
    /\ Move("receive", "link")
    /\ UNCHANGED <<announced, serialnumber, is_data_present, fields, database>>

\* wait_serial_number got its four bytes; whose they are is up to the board.
SerialRead ==
    /\ Move("serial", "clear_username")
    /\ serialnumber' \in Cards
    /\ UNCHANGED <<announced, is_data_present, fields, database>>

\* memset of the arrays, the user name before the password; enc_username,
\* enc_password and the serial number are locals of this thread.
ClearUsername ==
    /\ Move("clear_username", "clear_password")
    /\ fields' = [fields EXCEPT !["username"] = Empty]
    /\ UNCHANGED <<announced, serialnumber, is_data_present, database>>

\* Fault: one memset too few.
ClearPasswordForgotten ==
    /\ Move("clear_password", "check")
    /\ UNCHANGED <<announced, serialnumber, is_data_present, fields, database>>

ClearPassword ==
    /\ Move("clear_password", "check")
    /\ fields' = [fields EXCEPT !["password"] = Empty]
    /\ UNCHANGED <<announced, serialnumber, is_data_present, database>>

\* is_serial_present found the serial number; this return path is the one
\* that does not close its connection.
SerialAllowed ==
    /\ Move("check", "publish")
    /\ serialnumber \in Allowed
    /\ dbConnections < MaxConnections
    /\ dbConnections' = dbConnections + 1
    /\ accepted' = accepted \cup {announced}
    /\ UNCHANGED <<announced, serialnumber, is_data_present, fields>>

\* Fault: the answer 0 is taken for a yes.
SerialUnknownTaken ==
    /\ Move("check", "publish")
    /\ serialnumber \notin Allowed
    /\ dbConnections < MaxConnections
    /\ UNCHANGED <<announced, serialnumber, is_data_present, fields, database>>

\* is_serial_present returned 0: connected, no such row.
SerialUnknown ==
    /\ Move("check", "link")
    /\ serialnumber \notin Allowed
    /\ dbConnections < MaxConnections
    /\ UNCHANGED <<announced, serialnumber, is_data_present, fields, database>>

\* is_serial_present returned -1: the server is down, or has no connection
\* left to give.
DatabaseError ==
    /\ Move("check", "link")
    /\ UNCHANGED <<announced, serialnumber, is_data_present, fields, database>>

\* The flag is set before decrypt_data is called.
Publish ==
    /\ Move("publish", "decrypt_username")
    /\ is_data_present' = TRUE
    /\ UNCHANGED <<announced, serialnumber, fields, database>>

\* dec_cfb writes the array one byte after the other: after the first bytes the
\* string there is a prefix of the field, after the last it is the field.
DecryptSome(f, from, to) ==
    /\ Move(from, to)
    /\ fields' = [fields EXCEPT ![f] = FieldText(f, announced, FALSE)]
    /\ UNCHANGED <<announced, serialnumber, is_data_present, database>>

DecryptRest(f, from, to) ==
    /\ Move(from, to)
    /\ fields' = [fields EXCEPT ![f] = FieldText(f, announced, TRUE)]
    /\ UNCHANGED <<announced, serialnumber, is_data_present, database>>

\* decrypt_data: the user name first.  After the password come the balloon, the
\* browser and Sleep, which touch none of this state, and the loop starts over.
Decrypt ==
    \/ DecryptSome("username", "decrypt_username", "decrypting_username")
    \/ DecryptRest("username", "decrypting_username", "decrypt_password")
    \/ DecryptSome("password", "decrypt_password", "decrypting_password")
    \/ DecryptRest("password", "decrypting_password", "link")

\* Steps the serial thread takes without waiting for the board.
PublisherAlone ==
    \/ ClearUsername \/ ClearPassword
    \/ SerialAllowed \/ SerialUnknown \/ DatabaseError
    \/ Publish
    \/ Decrypt

PublisherNext ==
    \/ RecognizeAnnouncement
    \/ MessageValid
    \/ MessageInvalid
    \/ SerialRead
    \/ PublisherAlone

PublisherSpec == PublisherInit /\ [][PublisherNext]_publisherVars

----------------------------------------------------------------------------

\* The state of the serial thread stays within the values its C types and the
\* order of its calls allow; an acceptance costs one connection, so both are
\* bounded by what the server grants (is_serial_present line 75).
PublisherTypeOK ==
    /\ reader \in ReaderPlaces
    /\ announced \in 0 .. MaxAnnounced
    /\ serialnumber \in Cards
    /\ is_data_present \in BOOLEAN
    /\ fields \in [FieldNames -> Text]
    /\ dbConnections \in 0 .. MaxConnections
    /\ accepted \subseteq 1 .. announced

\* Outside decrypt_data, credentials on offer are complete, both come from the
\* last message announced, and the database accepted that message's card
\* (start_rfid_reader lines 37 to 68).
PublishedIsWhole ==
    (is_data_present /\ reader \notin Decrypting) =>
        /\ announced \in accepted
        /\ \A f \in FieldNames : fields[f] = FieldText(f, announced, TRUE)

\* While credentials are on offer, no array holds anything of an earlier
\* message: what the other thread finds there is new, cut short or empty, never
\* stale (the memset of lines 50 and 51 after the withdrawal of line 37).
NothingStaleOnOffer ==
    is_data_present =>
        \A f \in FieldNames : fields[f] # Empty => fields[f].of = announced

\* The arrays never hold anything of a message whose card the database did not
\* accept, on offer or not (start_rfid_reader lines 60 to 68).
OnlyAcceptedDecrypted ==
    \A f \in FieldNames :
        fields[f] # Empty => fields[f].kind = f /\ fields[f].of \in accepted

============================================================================
