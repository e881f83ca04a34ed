------------------------ MODULE CardPublisher_proofs ------------------------
(***************************************************************************)
(* Theorems about the serial thread, for any cards and any bounds.          *)
(***************************************************************************)
EXTENDS CardPublisher, TLAPS

BothEmpty == \A f \in FieldNames : fields[f] = Empty

BothWhole(i) == \A f \in FieldNames : fields[f] = FieldText(f, i, TRUE)

\* What the arrays hold at each place of the serial thread.  Between messages
\* they are empty or hold one accepted message, on offer only if it is the last
\* one announced; from the memset on they hold what the place says.
AtRest ==
    /\ is_data_present => BothWhole(announced) /\ announced \in accepted
    /\ BothEmpty \/ \E i \in accepted : BothWhole(i)

ArraysByPlace ==
    /\ reader \in {"link", "receive", "serial", "clear_username"} => AtRest
    /\ reader \notin {"link"} \cup Decrypting => ~is_data_present
    /\ reader = "clear_password" =>
         /\ fields["username"] = Empty
         /\ fields["password"] # Empty =>
              \E i \in accepted : fields["password"] = FieldText("password", i, TRUE)
    /\ reader \in {"check", "publish", "decrypt_username"} => BothEmpty
    /\ reader \in {"publish"} \cup Decrypting => announced \in accepted
    /\ reader = "decrypting_username" =>
         fields["username"] = FieldText("username", announced, FALSE)
    /\ reader \in {"decrypt_password", "decrypting_password"} =>
         fields["username"] = FieldText("username", announced, TRUE)
    /\ reader \in {"decrypting_username", "decrypt_password"} =>
         fields["password"] = Empty
    /\ reader = "decrypting_password" =>
         fields["password"] = FieldText("password", announced, FALSE)

PublisherInv ==
    /\ PublisherTypeOK
    /\ reader # "link" => announced >= 1
    /\ ArraysByPlace

----------------------------------------------------------------------------

\* The initial state of the process satisfies the invariant.
LEMMA PublisherInitInv == PublisherInit => PublisherInv
<1> SUFFICES ASSUME PublisherInit PROVE PublisherInv
  OBVIOUS
<1> USE DEF PublisherInit
<1>1. PublisherTypeOK
  <2>1. fields \in [FieldNames -> Text]
    BY DEF Text
  <2>2. announced \in 0 .. MaxAnnounced /\ dbConnections \in 0 .. MaxConnections
    BY PublisherAssumption
  <2> QED
    BY <2>1, <2>2 DEF PublisherTypeOK, ReaderPlaces
<1>2. ArraysByPlace
  <2>1. BothEmpty
    BY DEF BothEmpty
  <2> QED
    BY <2>1 DEF ArraysByPlace, AtRest, Decrypting
<1> QED
  BY <1>1, <1>2 DEF PublisherInv

\* The place of the thread, the counters and the arrays stay in their types.
LEMMA PublisherTypeStep ==
    PublisherInv /\ [PublisherNext]_publisherVars => PublisherTypeOK'
<1> SUFFICES ASSUME PublisherInv, [PublisherNext]_publisherVars
             PROVE  PublisherTypeOK'
  OBVIOUS
<1> USE PublisherAssumption
    DEF PublisherInv, PublisherTypeOK, Move, database
<1>0. reader' \in ReaderPlaces
  BY DEF ReaderPlaces, PublisherNext, PublisherAlone, publisherVars,
         RecognizeAnnouncement, MessageValid, MessageInvalid, SerialRead,
         ClearUsername, ClearPassword, SerialAllowed, SerialUnknown,
         DatabaseError, Publish, Decrypt, DecryptSome, DecryptRest, FieldText
<1>1. CASE RecognizeAnnouncement
  <2>1. announced' \in 0 .. MaxAnnounced
    BY <1>0, <1>1 DEF RecognizeAnnouncement
  <2>2. accepted' \subseteq 1 .. announced'
    BY <1>0, <1>1 DEF RecognizeAnnouncement
  <2> QED
    BY <1>0, <1>1, <2>1, <2>2 DEF RecognizeAnnouncement
<1>2. CASE MessageValid
  BY <1>0, <1>2 DEF MessageValid
<1>3. CASE MessageInvalid
  BY <1>0, <1>3 DEF MessageInvalid
<1>4. CASE SerialRead
  BY <1>0, <1>4 DEF SerialRead
<1>5. CASE ClearUsername
  BY <1>0, <1>5 DEF ClearUsername, Text, FieldNames
<1>6. CASE ClearPassword
  BY <1>0, <1>6 DEF ClearPassword, Text, FieldNames
<1>7. CASE SerialAllowed
  BY <1>0, <1>7 DEF SerialAllowed
<1>8. CASE SerialUnknown
  BY <1>0, <1>8 DEF SerialUnknown
<1>9. CASE DatabaseError
  BY <1>0, <1>9 DEF DatabaseError
<1>10. CASE Publish
  BY <1>0, <1>10 DEF Publish
<1>11. CASE Decrypt
  <2>1. announced \in Announcements
    <3>1. reader # "link"
      BY <1>0, <1>11 DEF Decrypt, DecryptSome, DecryptRest, FieldText
    <3> QED
      BY <3>1 DEF Announcements
  <2>2. \A f \in FieldNames, w \in BOOLEAN : FieldText(f, announced, w) \in Text
    BY <2>1 DEF FieldText, Text
  <2>3. fields' \in [FieldNames -> Text]
    BY <1>0, <1>11, <2>2 DEF Decrypt, DecryptSome, DecryptRest, FieldNames, FieldText
  <2> QED
    BY <1>0, <1>11, <2>3 DEF Decrypt, DecryptSome, DecryptRest, FieldText
<1>12. CASE UNCHANGED publisherVars
  BY <1>0, <1>12 DEF publisherVars
<1> QED
  BY <1>1, <1>2, <1>3, <1>4, <1>5, <1>6, <1>7, <1>8, <1>9, <1>10, <1>11, <1>12
     DEF PublisherNext, PublisherAlone

\* Each step of the thread leaves the arrays as its next place says.
LEMMA PublisherArraysStep ==
    PublisherInv /\ [PublisherNext]_publisherVars => ArraysByPlace'
<1> SUFFICES ASSUME PublisherInv, [PublisherNext]_publisherVars
             PROVE  ArraysByPlace'
  OBVIOUS
<1> USE DEF PublisherInv, ArraysByPlace, AtRest, BothEmpty, BothWhole,
            Decrypting, Move, database
<1>1. CASE RecognizeAnnouncement
  BY <1>1 DEF RecognizeAnnouncement
<1>2. CASE MessageValid
  BY <1>2 DEF MessageValid
<1>3. CASE MessageInvalid
  BY <1>3 DEF MessageInvalid
<1>4. CASE SerialRead
  BY <1>4 DEF SerialRead
<1>5. CASE ClearUsername
  BY <1>5 DEF ClearUsername, PublisherTypeOK, FieldNames
<1>6. CASE ClearPassword
  BY <1>6 DEF ClearPassword, PublisherTypeOK, FieldNames
<1>7. CASE SerialAllowed
  BY <1>7 DEF SerialAllowed
<1>8. CASE SerialUnknown
  BY <1>8 DEF SerialUnknown
<1>9. CASE DatabaseError
  BY <1>9 DEF DatabaseError
<1>10. CASE Publish
  BY <1>10 DEF Publish
<1>11. CASE Decrypt
  <2> USE DEF DecryptSome, DecryptRest, PublisherTypeOK, FieldNames, FieldText
  <2>1. CASE DecryptSome("username", "decrypt_username", "decrypting_username")
    BY <2>1
  <2>2. CASE DecryptRest("username", "decrypting_username", "decrypt_password")
    BY <2>2
  <2>3. CASE DecryptSome("password", "decrypt_password", "decrypting_password")
    BY <2>3
  <2>4. CASE DecryptRest("password", "decrypting_password", "link")
    BY <2>4
  <2> QED
    BY <1>11, <2>1, <2>2, <2>3, <2>4 DEF Decrypt
<1>12. CASE UNCHANGED publisherVars
  BY <1>12 DEF publisherVars
<1> QED
  BY <1>1, <1>2, <1>3, <1>4, <1>5, <1>6, <1>7, <1>8, <1>9, <1>10, <1>11, <1>12
     DEF PublisherNext, PublisherAlone

\* The invariant is inductive.
LEMMA PublisherInvStep ==
    PublisherInv /\ [PublisherNext]_publisherVars => PublisherInv'
<1> SUFFICES ASSUME PublisherInv, [PublisherNext]_publisherVars
             PROVE  PublisherInv'
  OBVIOUS
<1>1. (reader # "link" => announced >= 1)'
  BY DEF PublisherInv, PublisherTypeOK, PublisherNext, PublisherAlone,
         RecognizeAnnouncement, MessageValid, MessageInvalid, SerialRead,
         ClearUsername, ClearPassword, SerialAllowed, SerialUnknown,
         DatabaseError, Publish, Decrypt, DecryptSome, DecryptRest, FieldText, Move,
         publisherVars
<1> QED
  BY <1>1, PublisherTypeStep, PublisherArraysStep DEF PublisherInv

\* What the other thread may find in one array: nothing, or a text of that
\* array's kind, of an accepted message, of the last one while on offer.
LEMMA ArrayContents ==
    ASSUME PublisherInv, NEW f \in FieldNames, fields[f] # Empty
    PROVE  /\ fields[f].kind = f
           /\ fields[f].of \in accepted
           /\ is_data_present => fields[f].of = announced
<1>1. reader \in ReaderPlaces /\ ArraysByPlace
  BY DEF PublisherInv, PublisherTypeOK
<1>2. CASE reader \in {"link", "receive", "serial", "clear_username"}
  <2>1. AtRest /\ ~BothEmpty
    BY <1>1, <1>2 DEF ArraysByPlace, BothEmpty
  <2>2. PICK i \in accepted : BothWhole(i)
    BY <2>1 DEF AtRest
  <2>3. fields[f] = [kind |-> f, of |-> i, whole |-> TRUE]
    BY <2>2 DEF BothWhole, FieldText
  <2>4. is_data_present => fields[f] = [kind |-> f, of |-> announced, whole |-> TRUE]
    BY <2>1 DEF AtRest, BothWhole, FieldText
  <2> QED
    BY <2>3, <2>4
<1>3. CASE reader = "clear_password"
  <2>1. f = "password" /\ ~is_data_present
    BY <1>1, <1>3 DEF ArraysByPlace, FieldNames, Decrypting
  <2>2. PICK i \in accepted : fields[f] = [kind |-> f, of |-> i, whole |-> TRUE]
    BY <1>1, <1>3, <2>1 DEF ArraysByPlace, FieldText
  <2> QED
    BY <2>1, <2>2
<1>4. CASE reader \in {"check", "publish", "decrypt_username"}
  BY <1>1, <1>4 DEF ArraysByPlace, BothEmpty
<1>5. CASE reader \in {"decrypting_username", "decrypt_password", "decrypting_password"}
  <2>1. announced \in accepted
    BY <1>1, <1>5 DEF ArraysByPlace, Decrypting
  <2>2. \/ fields[f] = [kind |-> f, of |-> announced, whole |-> TRUE]
        \/ fields[f] = [kind |-> f, of |-> announced, whole |-> FALSE]
    <3>1. CASE f = "username"
      BY <1>1, <1>5, <3>1 DEF ArraysByPlace, FieldText
    <3>2. CASE f = "password"
      BY <1>1, <1>5, <3>2 DEF ArraysByPlace, FieldText
    <3> QED
      BY <3>1, <3>2 DEF FieldNames
  <2> QED
    BY <2>1, <2>2
<1> QED
  BY <1>1, <1>2, <1>3, <1>4, <1>5 DEF ReaderPlaces

\* The three safety properties follow from it.
LEMMA PublisherInvSafe ==
    PublisherInv => /\ PublishedIsWhole
                    /\ NothingStaleOnOffer
                    /\ OnlyAcceptedDecrypted
<1> SUFFICES ASSUME PublisherInv
             PROVE  PublishedIsWhole /\ NothingStaleOnOffer /\ OnlyAcceptedDecrypted
  OBVIOUS
<1>1. PublishedIsWhole
  BY DEF PublisherInv, ArraysByPlace, AtRest, BothWhole, Decrypting, FieldText,
         PublishedIsWhole
<1>2. NothingStaleOnOffer
  BY ArrayContents DEF NothingStaleOnOffer
<1>3. OnlyAcceptedDecrypted
  BY ArrayContents DEF OnlyAcceptedDecrypted
<1> QED
  BY <1>1, <1>2, <1>3

\* Every behaviour of the serial thread keeps the invariant.
THEOREM PublisherInvariant == PublisherSpec => []PublisherInv
BY PublisherInitInv, PublisherInvStep, PTL DEF PublisherSpec

\* Outside decrypt_data, credentials on offer are whole, belong to the last
\* message and to a card the database accepted: for any number of cards and
\* messages, and whatever the database answers.
THEOREM PublishedIsAlwaysWhole == PublisherSpec => []PublishedIsWhole
BY PublisherInvariant, PublisherInvSafe, PTL

\* The arrays never hold anything of a card the database did not accept.
THEOREM OnlyAcceptedIsDecrypted == PublisherSpec => []OnlyAcceptedDecrypted
BY PublisherInvariant, PublisherInvSafe, PTL

\* While credentials are on offer, nothing of an earlier message is in the arrays.
THEOREM NothingIsStaleOnOffer == PublisherSpec => []NothingStaleOnOffer
BY PublisherInvariant, PublisherInvSafe, PTL

============================================================================
