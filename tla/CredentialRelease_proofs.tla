---------------------- MODULE CredentialRelease_proofs ----------------------
(***************************************************************************)
(* Theorems about both threads and any number of pages.                     *)
(***************************************************************************)
EXTENDS CredentialRelease, CardPublisher_proofs, SequenceTheorems

ReadingPassword == {"test_password", "measure_password", "copy_password"}

AfterReading == {"dialog", "send_username", "send_password"}

\* A text in the hands of the service thread that was read from array f.
ReadFrom(f, t) == t # Empty => t.kind = f /\ t.of \in accepted /\ t \in Text

\* The user name already copied is no later than the password still to come.
PasswordToComeNotOlder ==
    (copy["username"] # Empty /\ fields["password"] # Empty)
        => copy["username"].of <= fields["password"].of

ServiceInv ==
    /\ service \in ServicePlaces
    /\ copy \in [FieldNames -> Text]
    /\ \A f \in FieldNames : ReadFrom(f, copy[f])
    /\ service = "copy_username" => ReadFrom("username", measured)
    /\ service = "copy_password" => ReadFrom("password", measured)
    /\ service \in ReadingPassword => PasswordToComeNotOlder
    /\ PasswordNotOlder

\* Only portal pages have anything to do with the service thread.
PortalInv ==
    /\ request \in Pages
    /\ conn \in [Pages -> {"new", "connecting", "open", "closed"}]
    /\ clicks \in [Pages -> Nat]
    /\ OnlyPortalPages

\* A yes covers exactly the texts still to be sent to the page it was given to.
ConsentInv ==
    /\ consent \in [Pages -> Seq(FieldNames)]
    /\ wire \in [Pages -> Seq(Text)]
    /\ form \in [Pages -> [FieldNames -> Text]]
    /\ \A p \in Pages :
         consent[p] = IF p # request THEN <<>>
                      ELSE IF service = "send_username" THEN <<"username", "password">>
                      ELSE IF service = "send_password" THEN <<"password">>
                      ELSE <<>>

ReleaseInv == PublisherInv /\ ServiceInv /\ PortalInv /\ ConsentInv

----------------------------------------------------------------------------

\* In the whole system the serial thread does what CardPublisher says.
LEMMA ReaderStepsAlone == [Next]_vars => [PublisherNext]_publisherVars
<1> SUFFICES ASSUME Next, publisherVars' # publisherVars PROVE PublisherNext
  BY DEF vars
<1> QED
  BY DEF Next, ReaderStep, ServiceStep, PageStep, Filter, Receive,
         get_credential, TestFlag, Measure, CopyField, AnswerYes, AnswerNo,
         SendCredentials, Send, Connect, Click, OnMessage, Close

\* The composition implements the component.
THEOREM ReleaseImplementsPublisher == Spec => PublisherSpec
<1>1. Init => PublisherInit
  BY DEF Init
<1> QED
  BY <1>1, ReaderStepsAlone, PTL DEF Spec, PublisherSpec

\* Two texts in the arrays at one time are of the same message.
LEMMA SameMessage ==
    ASSUME PublisherInv, fields["username"] # Empty, fields["password"] # Empty
    PROVE  fields["username"].of = fields["password"].of
<1>1. reader \in ReaderPlaces /\ ArraysByPlace
  BY DEF PublisherInv, PublisherTypeOK
<1>2. CASE reader \in {"link", "receive", "serial", "clear_username"}
  <2>1. PICK i \in accepted : BothWhole(i)
    BY <1>1, <1>2 DEF ArraysByPlace, AtRest, BothEmpty, FieldNames
  <2> QED
    BY <2>1 DEF BothWhole, FieldText, FieldNames
<1>3. CASE reader = "decrypting_password"
  BY <1>1, <1>3 DEF ArraysByPlace, FieldText
<1> QED
  BY <1>1, <1>2, <1>3 DEF ArraysByPlace, ReaderPlaces, BothEmpty, FieldNames

\* A text cut short is still of the same array and message.
LEMMA CutShortIsReadFrom ==
    ASSUME NEW f \in FieldNames, NEW t \in Text, ReadFrom(f, t), t # Empty
    PROVE  /\ ReadFrom(f, CutShort(t)) /\ CutShort(t) \in Text
           /\ CutShort(t).of = t.of
<1>1. PICK i \in Announcements, w \in BOOLEAN :
        t = [kind |-> f, of |-> i, whole |-> w] /\ i \in accepted
  BY DEF ReadFrom, Text
<1>2. CutShort(t) = [kind |-> f, of |-> i, whole |-> FALSE]
  BY <1>1 DEF CutShort
<1>3. CutShort(t) \in Text
  BY <1>2 DEF Text
<1> QED
  BY <1>1, <1>2, <1>3 DEF ReadFrom

\* What strlen or strcpy finds in array f is a text of that array, and of the
\* message that is there.
LEMMA ArrayIsReadFrom ==
    ASSUME PublisherInv, NEW f \in FieldNames, NEW t \in ReadOf(f)
    PROVE  /\ ReadFrom(f, t) /\ t \in Text
           /\ t # Empty => fields[f] # Empty /\ t.of = fields[f].of
<1>1. ReadFrom(f, fields[f]) /\ fields[f] \in Text
  BY ArrayContents DEF ReadFrom, PublisherInv, PublisherTypeOK
<1>2. t = fields[f] \/ (fields[f] # Empty /\ t = CutShort(fields[f]))
  BY DEF ReadOf
<1> QED
  BY <1>1, <1>2, CutShortIsReadFrom

\* A copy, cut short or not, is of the message that is in the array when it is
\* made.
LEMMA CutIsReadFrom ==
    ASSUME PublisherInv, NEW f \in FieldNames, ReadFrom(f, measured),
           NEW found \in ReadOf(f), NEW t \in CutTo(measured, found)
    PROVE  /\ ReadFrom(f, t) /\ t \in Text
           /\ t # Empty => fields[f] # Empty /\ t.of = fields[f].of
<1>1. /\ ReadFrom(f, found) /\ found \in Text
      /\ found # Empty => fields[f] # Empty /\ found.of = fields[f].of
  BY ArrayIsReadFrom
<1>2. CASE measured = Empty \/ found = Empty
  <2>1. t = Empty
    BY <1>2 DEF CutTo
  <2> QED
    BY <2>1 DEF ReadFrom, Text
<1>3. CASE measured # Empty /\ found # Empty
  <2>1. \/ t = found
        \/ t = measured /\ measured.of = found.of
        \/ t = CutShort(found)
    BY <1>3 DEF CutTo
  <2>2. CASE t = found
    BY <1>1, <1>3, <2>2
  <2>3. CASE t = measured /\ measured.of = found.of
    BY <1>1, <1>3, <2>3 DEF ReadFrom
  <2>4. CASE t = CutShort(found)
    BY <1>1, <1>3, <2>4, CutShortIsReadFrom
  <2> QED
    BY <2>1, <2>2, <2>3, <2>4
<1> QED
  BY <1>2, <1>3

\* A step of the serial thread leaves the service thread's texts in order: it
\* empties the password array, or fills it from the newest message.
LEMMA ReaderKeepsService ==
    ASSUME PublisherInv, ServiceInv, [PublisherNext]_publisherVars,
           UNCHANGED serviceVars
    PROVE  ServiceInv'
<1>1. accepted \subseteq accepted'
  BY DEF PublisherNext, PublisherAlone, publisherVars, database,
         RecognizeAnnouncement, MessageValid, MessageInvalid, SerialRead,
         ClearUsername, ClearPassword, SerialAllowed, SerialUnknown,
         DatabaseError, Publish, Decrypt, DecryptSome, DecryptRest
<1>2. \/ fields'["password"] = fields["password"]
      \/ fields'["password"] = Empty
      \/ fields'["password"].of = announced
  BY DEF PublisherNext, PublisherAlone, publisherVars, database, FieldText,
         RecognizeAnnouncement, MessageValid, MessageInvalid, SerialRead,
         ClearUsername, ClearPassword, SerialAllowed, SerialUnknown,
         DatabaseError, Publish, Decrypt, DecryptSome, DecryptRest,
         PublisherInv, PublisherTypeOK, FieldNames
<1>3. copy["username"] # Empty => copy["username"].of <= announced
  <2>1. copy["username"] # Empty => copy["username"].of \in accepted
    BY DEF ServiceInv, ReadFrom, FieldNames
  <2>2. announced \in Nat /\ \A i \in accepted : i <= announced
    BY DEF PublisherInv, PublisherTypeOK
  <2> QED
    BY <2>1, <2>2
<1>4. (service \in ReadingPassword => PasswordToComeNotOlder)'
  BY <1>2, <1>3 DEF ServiceInv, serviceVars, PasswordToComeNotOlder
<1>5. \A f \in FieldNames : ReadFrom(f, copy[f])'
  BY <1>1 DEF ServiceInv, serviceVars, ReadFrom
<1>6. /\ (service = "copy_username" => ReadFrom("username", measured))'
      /\ (service = "copy_password" => ReadFrom("password", measured))'
  BY <1>1 DEF ServiceInv, serviceVars, ReadFrom
<1> QED
  BY <1>4, <1>5, <1>6 DEF ServiceInv, serviceVars, PasswordNotOlder

\* The service thread's own steps keep its texts in order.
LEMMA ServiceStepInv ==
    ASSUME PublisherInv, ServiceInv, ServiceStep, UNCHANGED publisherVars
    PROVE  ServiceInv'
<1> USE DEF publisherVars
<1>0. ServicePlaces =
        {"poll", "test_username", "measure_username", "copy_username",
         "test_password", "measure_password", "copy_password",
         "dialog", "send_username", "send_password"}
  BY DEF ServicePlaces
<1>1. ASSUME NEW p \in Pages, Filter(p) PROVE ServiceInv'
  BY <1>1 DEF Filter, serviceVars, ServiceInv, ReadFrom, PasswordToComeNotOlder,
              PasswordNotOlder
<1>2. ASSUME NEW p \in Pages, Receive(p) PROVE ServiceInv'
  <2>1. copy' = [f \in FieldNames |-> Empty] /\ service' = "test_username"
    BY <1>2 DEF Receive, Serve
  <2> QED
    BY <2>1, <1>0 DEF ServiceInv, ReadFrom, PasswordNotOlder, ReadingPassword, Text
<1>3. CASE TestFlag("test_username", "measure_username")
  BY <1>3, <1>0 DEF TestFlag, ServiceInv, ReadFrom, PasswordNotOlder,
                    ReadingPassword
<1>4. CASE Measure("username", "measure_username", "copy_username")
  <2>1. ReadFrom("username", measured')
    BY <1>4, ArrayIsReadFrom DEF Measure, FieldNames
  <2> QED
    BY <1>4, <1>0, <2>1 DEF Measure, Serve, ServiceInv, ReadFrom, PasswordNotOlder,
                            ReadingPassword
<1>5. CASE CopyField("username", "copy_username", "test_password")
  <2>0. PICK found \in ReadOf("username") :
          \E t \in CutTo(measured, found) :
            copy' = [copy EXCEPT !["username"] = t]
    BY <1>5 DEF CopyField
  <2>1. PICK t \in CutTo(measured, found) :
          copy' = [copy EXCEPT !["username"] = t]
    BY <2>0
  <2>2. /\ ReadFrom("username", t) /\ t \in Text
        /\ t # Empty => fields["username"] # Empty /\ t.of = fields["username"].of
    BY <1>5, CutIsReadFrom DEF ServiceInv, CopyField, Serve, FieldNames
  <2>3. copy' \in [FieldNames -> Text] /\ copy'["username"] = t
        /\ copy'["password"] = copy["password"]
    BY <2>1, <2>2 DEF ServiceInv, FieldNames
  <2>4. \A f \in FieldNames : ReadFrom(f, copy[f])'
    BY <2>2, <2>3 DEF ServiceInv, ReadFrom, FieldNames
  <2>5. PasswordToComeNotOlder'
    <3>1. fields["password"] # Empty /\ fields["username"] # Empty =>
            fields["username"].of = fields["password"].of
      BY SameMessage
    <3>2. t # Empty => t.of \in Nat
      <4>1. \A i \in accepted : i \in Nat
        BY DEF PublisherInv, PublisherTypeOK
      <4> QED
        BY <2>2, <4>1 DEF ReadFrom
    <3> QED
      BY <2>2, <2>3, <3>1, <3>2 DEF PasswordToComeNotOlder
  <2> QED
    BY <1>5, <1>0, <2>3, <2>4, <2>5
       DEF CopyField, Serve, ServiceInv, PasswordNotOlder
<1>6. CASE TestFlag("test_password", "measure_password")
  BY <1>6, <1>0 DEF TestFlag, ServiceInv, ReadFrom, PasswordNotOlder,
                    ReadingPassword, PasswordToComeNotOlder
<1>7. CASE Measure("password", "measure_password", "copy_password")
  <2>1. ReadFrom("password", measured')
    BY <1>7, ArrayIsReadFrom DEF Measure, FieldNames
  <2> QED
    BY <1>7, <1>0, <2>1 DEF Measure, Serve, ServiceInv, ReadFrom, PasswordNotOlder,
                            ReadingPassword, PasswordToComeNotOlder
<1>8. CASE CopyField("password", "copy_password", "dialog")
  <2>0. PICK found \in ReadOf("password") :
          \E t \in CutTo(measured, found) :
            copy' = [copy EXCEPT !["password"] = t]
    BY <1>8 DEF CopyField
  <2>1. PICK t \in CutTo(measured, found) :
          copy' = [copy EXCEPT !["password"] = t]
    BY <2>0
  <2>2. /\ ReadFrom("password", t) /\ t \in Text
        /\ t # Empty => fields["password"] # Empty /\ t.of = fields["password"].of
    BY <1>8, CutIsReadFrom DEF ServiceInv, CopyField, Serve, FieldNames
  <2>3. copy' \in [FieldNames -> Text] /\ copy'["password"] = t
        /\ copy'["username"] = copy["username"]
    BY <2>1, <2>2 DEF ServiceInv, FieldNames
  <2>4. \A f \in FieldNames : ReadFrom(f, copy[f])'
    BY <2>2, <2>3 DEF ServiceInv, ReadFrom, FieldNames
  <2>5. PasswordToComeNotOlder
    BY <1>8 DEF ServiceInv, CopyField, Serve, ReadingPassword
  <2>6. PasswordNotOlder'
    BY <2>2, <2>3, <2>5 DEF PasswordNotOlder, PasswordToComeNotOlder
  <2> QED
    BY <1>8, <1>0, <2>3, <2>4, <2>6 DEF CopyField, Serve, ServiceInv,
                                        ReadingPassword
<1>9. CASE AnswerYes \/ AnswerNo \/ SendCredentials
  <2>1. /\ service \in AfterReading /\ service' \in AfterReading \cup {"poll"}
        /\ copy' = copy
    BY <1>9 DEF AnswerYes, AnswerNo, SendCredentials, Send, Serve, AfterReading
  <2>2. PasswordNotOlder'
    BY <2>1 DEF ServiceInv, PasswordNotOlder, AfterReading
  <2> QED
    BY <2>1, <2>2, <1>0 DEF ServiceInv, ReadFrom, AfterReading, ReadingPassword
<1> QED
  BY <1>1, <1>2, <1>3, <1>4, <1>5, <1>6, <1>7, <1>8, <1>9
     DEF ServiceStep, get_credential

\* Pages step without touching what the service thread holds.
LEMMA PageKeepsService ==
    ASSUME ServiceInv, NEW p \in Pages, PageStep(p)
    PROVE  ServiceInv' /\ UNCHANGED <<publisherVars, serviceVars>>
BY DEF PageStep, Connect, Click, OnMessage, Close, publisherVars, serviceVars,
       ServiceInv, ReadFrom, PasswordToComeNotOlder, PasswordNotOlder

\* The filter of reject_request is what keeps other sites away from the
\* receive callback, whatever pages do afterwards.
LEMMA PortalStep ==
    ASSUME PortalInv, [Next]_vars
    PROVE  PortalInv'
<1> USE ReleaseAssumption DEF PortalInv, OnlyPortalPages
<1>1. CASE ReaderStep \/ UNCHANGED vars
  BY <1>1 DEF ReaderStep, vars, serviceVars, pageVars
<1>2. ASSUME NEW p \in Pages, Connect(p) PROVE PortalInv'
  BY <1>2 DEF Connect, serviceVars
<1>3. ASSUME NEW p \in Pages, Click(p) PROVE PortalInv'
  BY <1>3 DEF Click, serviceVars
<1>4. ASSUME NEW p \in Pages, OnMessage(p) \/ Close(p) PROVE PortalInv'
  BY <1>4 DEF OnMessage, Close, serviceVars
<1>5. ASSUME NEW p \in Pages, Filter(p) PROVE PortalInv'
  BY <1>5 DEF Filter, reject_request, serviceVars
<1>6. ASSUME NEW p \in Pages, Receive(p) PROVE PortalInv'
  BY <1>6 DEF Receive, Serve
<1>7. CASE get_credential
  BY <1>7 DEF get_credential, TestFlag, Measure, CopyField, Serve, pageVars
<1>8. CASE AnswerYes \/ AnswerNo \/ SendCredentials
  BY <1>8 DEF AnswerYes, AnswerNo, SendCredentials, Send, Serve, pageVars
<1> QED
  BY <1>1, <1>2, <1>3, <1>4, <1>5, <1>6, <1>7, <1>8
     DEF Next, ServiceStep, PageStep

\* A yes is used up by the two sends that follow it.
LEMMA ConsentStep ==
    ASSUME ConsentInv, ServiceInv, PortalInv, [Next]_vars
    PROVE  ConsentInv'
<1>0. /\ request \in Pages /\ "username" \in FieldNames /\ "password" \in FieldNames
      /\ copy \in [FieldNames -> Text] /\ service \in ServicePlaces
      /\ Empty \in Text
  BY DEF PortalInv, OnlyPortalPages, ServiceInv, FieldNames, Text
<1> USE <1>0 DEF ConsentInv
<1>1. CASE ReaderStep \/ UNCHANGED vars
  BY <1>1 DEF ReaderStep, vars, serviceVars, pageVars
<1>2. ASSUME NEW p \in Pages, Connect(p) \/ Click(p) \/ Filter(p) PROVE ConsentInv'
  BY <1>2 DEF Connect, Click, Filter, serviceVars
<1>3. ASSUME NEW p \in Pages, OnMessage(p) PROVE ConsentInv'
  <2>1. Head(wire[p]) \in Text /\ Tail(wire[p]) \in Seq(Text)
    BY <1>3 DEF OnMessage
  <2>2. BoxFor(p) \in FieldNames
    BY DEF BoxFor
  <2>3. wire' \in [Pages -> Seq(Text)] /\ form' \in [Pages -> [FieldNames -> Text]]
    BY <1>3, <2>1, <2>2 DEF OnMessage
  <2> QED
    BY <1>3, <2>3 DEF OnMessage, serviceVars
<1>4. ASSUME NEW p \in Pages, Close(p) PROVE ConsentInv'
  <2>1. wire' \in [Pages -> Seq(Text)]
    BY <1>4 DEF Close
  <2> QED
    BY <1>4, <2>1 DEF Close, serviceVars
<1>5. ASSUME NEW p \in Pages, Receive(p) PROVE ConsentInv'
  BY <1>5 DEF Receive, Serve
<1>6. CASE get_credential
  BY <1>6 DEF get_credential, TestFlag, Measure, CopyField, Serve, pageVars
<1>7. CASE AnswerYes
  BY <1>7 DEF AnswerYes, Serve, pageVars
<1>8. CASE AnswerNo
  BY <1>8 DEF AnswerNo, Serve, pageVars
<1>9. CASE Send("username", "send_username", "send_password")
  <2>1. wire' \in [Pages -> Seq(Text)]
    BY <1>9 DEF Send
  <2>2. consent' = [consent EXCEPT ![request] = <<"password">>]
    <3>1. consent[request] = <<"username", "password">>
      BY <1>9 DEF Send, Serve
    <3>2. Tail(<<"username", "password">>) = <<"password">>
      OBVIOUS
    <3> QED
      BY <1>9, <3>1, <3>2 DEF Send
  <2>3. consent' \in [Pages -> Seq(FieldNames)]
    BY <2>2
  <2>4. service' = "send_password" /\ request' = request /\ form' = form
    BY <1>9 DEF Send, Serve
  <2>5. \A p \in Pages : consent'[p] = IF p # request THEN <<>> ELSE <<"password">>
    BY <2>2
  <2> QED
    BY <2>1, <2>3, <2>4, <2>5
<1>10. CASE Send("password", "send_password", "poll")
  <2>1. wire' \in [Pages -> Seq(Text)]
    BY <1>10 DEF Send
  <2>2. consent' = [consent EXCEPT ![request] = <<>>]
    <3>1. consent[request] = <<"password">>
      BY <1>10 DEF Send, Serve
    <3>2. Tail(<<"password">>) = <<>>
      OBVIOUS
    <3> QED
      BY <1>10, <3>1, <3>2 DEF Send
  <2>3. consent' \in [Pages -> Seq(FieldNames)]
    BY <2>2
  <2>4. service' = "poll" /\ request' = request /\ form' = form
    BY <1>10 DEF Send, Serve
  <2>5. \A p \in Pages : consent'[p] = IF p # request THEN <<>> ELSE <<>>
    BY <2>2
  <2> QED
    BY <2>1, <2>3, <2>4, <2>5
<1> QED
  BY <1>1, <1>2, <1>3, <1>4, <1>5, <1>6, <1>7, <1>8, <1>9, <1>10
     DEF Next, ServiceStep, PageStep, SendCredentials

\* The invariant of the composition holds at the start.
LEMMA ReleaseInitInv == Init => ReleaseInv
<1> SUFFICES ASSUME Init PROVE ReleaseInv
  OBVIOUS
<1> USE DEF Init, ReleaseInit
<1>1. PublisherInv
  BY PublisherInitInv
<1>2. ServiceInv
  <2>1. Empty \in Text
    BY DEF Text
  <2> QED
    BY <2>1 DEF ServiceInv, ServicePlaces, ReadFrom, ReadingPassword,
                PasswordNotOlder
<1>3. PortalInv
  BY DEF PortalInv, OnlyPortalPages
<1>4. ConsentInv
  <2>1. Empty \in Text
    BY DEF Text
  <2> QED
    BY <2>1 DEF ConsentInv
<1> QED
  BY <1>1, <1>2, <1>3, <1>4 DEF ReleaseInv

\* The invariant of the composition is inductive.
LEMMA ReleaseInvStep == ReleaseInv /\ [Next]_vars => ReleaseInv'
<1> SUFFICES ASSUME ReleaseInv, [Next]_vars PROVE ReleaseInv'
  OBVIOUS
<1>1. PublisherInv'
  BY ReaderStepsAlone, PublisherInvStep DEF ReleaseInv
<1>2. ServiceInv'
  <2>1. CASE ReaderStep \/ UNCHANGED vars
    BY <2>1, ReaderKeepsService DEF ReaderStep, vars, ReleaseInv
  <2>2. CASE ServiceStep
    <3>1. UNCHANGED publisherVars
      BY <2>2 DEF ServiceStep, Filter, Receive, get_credential, TestFlag, Measure,
                  CopyField, AnswerYes, AnswerNo, SendCredentials, Send
    <3> QED
      BY <2>2, <3>1, ServiceStepInv DEF ReleaseInv
  <2>3. CASE \E p \in Pages : PageStep(p)
    BY <2>3, PageKeepsService DEF ReleaseInv
  <2> QED
    BY <2>1, <2>2, <2>3 DEF Next
<1>3. PortalInv' /\ ConsentInv'
  BY PortalStep, ConsentStep DEF ReleaseInv
<1> QED
  BY <1>1, <1>2, <1>3 DEF ReleaseInv

\* The strengthening everything below rests on: where each text the service
\* thread holds came from, who it serves, and what the user agreed to.
THEOREM ReleaseInvariant == Spec => []ReleaseInv
BY ReleaseInitInv, ReleaseInvStep, PTL DEF Spec

\* In every interleaving of the two threads, for any number of cards, messages
\* and pages, a page is never given a password older than the user name.
THEOREM PasswordIsNeverOlder == Spec => []PasswordNotOlder
<1>1. ReleaseInv => PasswordNotOlder
  BY DEF ReleaseInv, ServiceInv
<1> QED
  BY <1>1, ReleaseInvariant, PTL

\* What PublishedIsAlwaysWhole says of the serial thread holds in the system.
THEOREM ReleasePublishedIsWhole == Spec => []PublishedIsWhole
BY ReleaseImplementsPublisher, PublishedIsAlwaysWhole, PTL

\* Nor is there ever anything stale behind a flag that says there is a card.
THEOREM ReleaseNothingStale == Spec => []NothingStaleOnOffer
BY ReleaseImplementsPublisher, NothingIsStaleOnOffer, PTL

----------------------------------------------------------------------------
\* Types, and the alternation of texts on each socket.

\* What the types have beyond ReleaseInv.
CounterInv ==
    /\ measured \in Text
    /\ clicks \in [Pages -> 0 .. MaxPending]
    /\ n_message \in [Pages -> {0, 1}]

\* Counters and the string measured stay within their types.
LEMMA CounterStep ==
    ASSUME ReleaseInv, CounterInv, [Next]_vars PROVE CounterInv'
<1> USE DEF CounterInv
<1>1. measured' \in Text
  <2>1. Empty \in Text
    BY DEF Text
  <2>2. CASE get_credential
    <3>1. ASSUME NEW f \in FieldNames, measured' \in ReadOf(f)
          PROVE  measured' \in Text
      BY <3>1, ArrayIsReadFrom DEF ReleaseInv
    <3> QED
      BY <2>1, <2>2, <3>1
         DEF get_credential, TestFlag, Measure, CopyField, FieldNames
  <2>3. CASE ~get_credential
    BY <2>3 DEF Next, ReaderStep, ServiceStep, PageStep, Filter, Receive, AnswerYes,
                AnswerNo, SendCredentials, Send, Connect, Click, OnMessage, Close,
                serviceVars, vars
  <2> QED
    BY <2>2, <2>3
<1>2. clicks' \in [Pages -> 0 .. MaxPending]
  <2>1. ASSUME NEW p \in Pages, Click(p) PROVE clicks[p] + 1 \in 0 .. MaxPending
    BY <2>1, LenProperties, ReleaseAssumption DEF Click, ReleaseInv, ConsentInv
  <2>2. ASSUME NEW p \in Pages, Receive(p) PROVE clicks[p] - 1 \in 0 .. MaxPending
    BY <2>2, ReleaseAssumption DEF Receive
  <2>3. CASE \E p \in Pages : Click(p)
    BY <2>1, <2>3 DEF Click
  <2>4. CASE \E p \in Pages : Receive(p)
    BY <2>2, <2>4 DEF Receive
  <2>5. CASE ~(\E p \in Pages : Click(p) \/ Receive(p))
    BY <2>5 DEF Next, ReaderStep, ServiceStep, PageStep, Filter, get_credential,
                TestFlag, Measure, CopyField, AnswerYes, AnswerNo, SendCredentials,
                Send, Connect, OnMessage, Close, pageVars, vars
  <2> QED
    BY <2>3, <2>4, <2>5
<1>3. n_message' \in [Pages -> {0, 1}]
  BY DEF Next, ReaderStep, ServiceStep, PageStep, Filter, Receive, get_credential,
         TestFlag, Measure, CopyField, AnswerYes, AnswerNo, SendCredentials, Send,
         Connect, Click, OnMessage, Close, pageVars, vars
<1> QED
  BY <1>1, <1>2, <1>3

\* Every behaviour of the system keeps them.
LEMMA CounterInvariant == Spec => []CounterInv
<1>1. Init => CounterInv
  BY ReleaseAssumption DEF Init, ReleaseInit, CounterInv, Text
<1>2. ReleaseInv /\ CounterInv /\ [Next]_vars => CounterInv'
  BY CounterStep
<1> QED
  BY <1>1, <1>2, ReleaseInvariant, PTL DEF Spec

\* The state of both threads and of the pages stays within its types.
THEOREM ReleaseTypeCorrect == Spec => []ReleaseTypeOK
<1>1. ReleaseInv /\ CounterInv => ReleaseTypeOK
  BY DEF ReleaseInv, CounterInv, PublisherInv, ServiceInv, PortalInv, ConsentInv,
         ReleaseTypeOK
<1> QED
  BY <1>1, ReleaseInvariant, CounterInvariant, PTL

\* A text more on the wire turns the box around; a text that moves from the wire
\* into the form does not.
LEMMA BoxParity ==
    ASSUME NEW n \in {0, 1}, NEW l \in Nat
    PROVE  /\ (n + (l + 1)) % 2 = 0 <=> (n + l) % 2 # 0
           /\ l > 0 => ((1 - n) + (l - 1)) % 2 = (n + l) % 2
OBVIOUS

\* One step of the system takes a page out of step only as the property says.
LEMMA SlipStep ==
    ASSUME ReleaseInv, CounterInv, [Next]_vars, NEW p \in Pages,
           InStep(p), ~InStep(p)', conn'[p] = "open"
    PROVE  /\ service = "send_password" /\ request = p
           /\ (copy["username"] = Empty) # (copy["password"] = Empty)
<1>1. /\ wire \in [Pages -> Seq(Text)] /\ wire[p] \in Seq(Text) /\ Len(wire[p]) \in Nat
      /\ n_message[p] \in {0, 1} /\ request \in Pages
  BY LenProperties DEF ReleaseInv, ConsentInv, PortalInv, OnlyPortalPages, CounterInv
<1>2. NextBox(p) \in {"username", "password"}
  BY DEF NextBox
<1> DEFINE half == service = "send_password" /\ request = p /\ copy["username"] # Empty
<1>3. InStep(p) <=> NextBox(p) = IF half THEN "password" ELSE "username"
  BY DEF InStep
<1>4. ASSUME NextBox(p)' = NextBox(p), half' <=> half PROVE FALSE
  BY <1>3, <1>4 DEF InStep
<1>5. CASE ReaderStep \/ UNCHANGED vars
  BY <1>4, <1>5 DEF ReaderStep, vars, serviceVars, pageVars, NextBox
<1>6. CASE \E q \in Pages : Filter(q) \/ Receive(q)
  BY <1>4, <1>6 DEF Filter, Receive, Serve, serviceVars, NextBox
<1>7. CASE get_credential \/ AnswerYes \/ AnswerNo
  BY <1>4, <1>7 DEF get_credential, TestFlag, Measure, CopyField, AnswerYes, AnswerNo,
                    Serve, pageVars, NextBox
<1>8. CASE SendCredentials
  <2> DEFINE sends(f) == copy[f] # Empty /\ request = p
  <2>1. ASSUME NEW f \in FieldNames, NEW from, NEW to, Send(f, from, to)
        PROVE  /\ n_message' = n_message /\ UNCHANGED <<request, copy>>
               /\ sends(f) => (NextBox(p)' = "username" <=> NextBox(p) = "password")
               /\ ~sends(f) => NextBox(p)' = NextBox(p)
    <3>1. n_message' = n_message /\ UNCHANGED <<request, copy, conn>>
      BY <2>1 DEF Send
    <3>2. CASE sends(f)
      <4>1. wire' = [wire EXCEPT ![p] = Append(@, copy[f])]
        BY <2>1, <3>1, <3>2 DEF Send
      <4>2. copy[f] \in Text
        BY DEF ReleaseInv, ServiceInv
      <4>3. Len(wire'[p]) = Len(wire[p]) + 1
        BY <1>1, <4>1, <4>2, AppendProperties
      <4>4. n_message[p] \in {0, 1} /\ Len(wire[p]) \in Nat /\ n_message'[p] = n_message[p]
        BY <1>1, <3>1
      <4>5. (n_message[p] + (Len(wire[p]) + 1)) % 2 = 0
              <=> (n_message[p] + Len(wire[p])) % 2 # 0
        BY <4>4, BoxParity
      <4>6. NextBox(p)' = "username" <=> (n_message[p] + (Len(wire[p]) + 1)) % 2 = 0
        BY <4>3, <4>4 DEF NextBox
      <4>7. NextBox(p) = "password" <=> (n_message[p] + Len(wire[p])) % 2 # 0
        BY DEF NextBox
      <4> QED
        BY <3>1, <3>2, <4>5, <4>6, <4>7
    <3>3. CASE ~sends(f)
      <4>1. wire'[p] = wire[p]
        BY <1>1, <2>1, <3>3 DEF Send
      <4> QED
        BY <3>1, <3>3, <4>1 DEF NextBox
    <3> QED
      BY <3>1, <3>2, <3>3
  <2>2. CASE Send("username", "send_username", "send_password")
    <3>1. service = "send_username" /\ service' = "send_password"
      BY <2>2 DEF Send, Serve
    <3>2. NextBox(p) = "username" /\ (half' <=> sends("username"))
      BY <1>3, <2>1, <2>2, <3>1 DEF FieldNames
    <3>3. NextBox(p)' = IF sends("username") THEN "password" ELSE "username"
      BY <2>1, <2>2, <3>2 DEF FieldNames, NextBox
    <3> QED
      BY <3>2, <3>3 DEF InStep
  <2>3. CASE Send("password", "send_password", "poll")
    <3>1. service = "send_password" /\ service' = "poll"
      BY <2>3 DEF Send, Serve
    <3>2. NextBox(p)' # "username"
      BY <3>1 DEF InStep
    <3>3. request = p
      BY <1>3, <2>1, <2>3, <3>1, <3>2 DEF FieldNames
    <3>4. copy["username"] = Empty <=> NextBox(p) = "username"
      BY <1>3, <3>1, <3>3
    <3>5. copy["password"] # Empty <=> NextBox(p) = "username"
      BY <1>2, <2>1, <2>3, <3>2, <3>3 DEF FieldNames
    <3> QED
      BY <3>1, <3>3, <3>4, <3>5
  <2> QED
    BY <1>8, <2>2, <2>3 DEF SendCredentials
<1>9. ASSUME NEW q \in Pages, PageStep(q) PROVE FALSE
  <2>1. half' <=> half
    BY <1>9 DEF PageStep, Connect, Click, OnMessage, Close, serviceVars
  <2>2. CASE Connect(q) \/ Click(q)
    BY <1>4, <2>1, <2>2 DEF Connect, Click, NextBox
  <2>3. CASE Close(q)
    <3>1. q # p
      BY <2>3 DEF Close, ReleaseInv, PortalInv, OnlyPortalPages
    <3> QED
      BY <1>1, <1>4, <2>1, <2>3, <3>1 DEF Close, NextBox
  <2>4. CASE OnMessage(q)
    <3>1. CASE q # p
      <4>1. wire'[p] = wire[p] /\ n_message'[p] = n_message[p]
        BY <1>1, <2>4, <3>1 DEF OnMessage, CounterInv
      <4> QED
        BY <1>4, <2>1, <4>1 DEF NextBox
    <3>2. CASE q = p
      <4>1. wire'[p] = Tail(wire[p]) /\ wire[p] # <<>>
            /\ n_message'[p] = 1 - n_message[p]
        BY <1>1, <2>4, <3>2 DEF OnMessage, CounterInv
      <4>2. Len(wire'[p]) = Len(wire[p]) - 1 /\ Len(wire[p]) > 0
        BY <1>1, <4>1, HeadTailProperties, EmptySeq
      <4>3. (n_message'[p] + Len(wire'[p])) % 2 = (n_message[p] + Len(wire[p])) % 2
        BY <1>1, <4>1, <4>2, BoxParity
      <4> QED
        BY <1>4, <2>1, <4>3 DEF NextBox
    <3> QED
      BY <3>1, <3>2
  <2> QED
    BY <1>9, <2>2, <2>3, <2>4 DEF PageStep
<1> QED
  BY <1>5, <1>6, <1>7, <1>8, <1>9 DEF Next, ServiceStep

\* For any number of pages, and whatever they do, a page loses its place in the
\* alternation only when one of the two texts sent to it was empty.
THEOREM SlipsOnlyOnEmptyText == Spec => OnlyAnEmptyTextSlips
<1>1. ReleaseInv /\ CounterInv /\ [Next]_vars =>
        [\A p \in Pages :
           (InStep(p) /\ ~InStep(p)' /\ conn'[p] = "open") =>
             /\ service = "send_password" /\ request = p
             /\ (copy["username"] = Empty) # (copy["password"] = Empty)]_vars
  BY SlipStep
<1> QED
  BY <1>1, ReleaseInvariant, CounterInvariant, PTL DEF Spec, OnlyAnEmptyTextSlips

----------------------------------------------------------------------------
\* The system keeps the promise of ConsentedRelease.

\* Nothing is approved, granted or under way when the application starts.
LEMMA PromiseInit == Init => Promise!Init
<1> SUFFICES ASSUME Init PROVE Promise!Init
  OBVIOUS
<1>1. accepted = {}
  BY DEF Init, PublisherInit
<1>2. \A p \in DOMAIN wire : consent[p] = <<>> /\ wire[p] = <<>>
  BY DEF Init, ReleaseInit
<1> QED
  BY <1>1, <1>2 DEF Promise!Init, Promise!Recipients

\* Each step of the threads and pages is one of the promise, or changes nothing
\* the promise speaks of.
LEMMA PromiseStep ==
    ReleaseInv /\ [Next]_vars => [Promise!Next]_(Promise!abstractVars)
<1> SUFFICES ASSUME ReleaseInv, [Next]_vars
             PROVE  Promise!Next \/ UNCHANGED Promise!abstractVars
  OBVIOUS
<1> USE DEF Promise!abstractVars
<1>0. Promise!Recipients = Pages
  BY DEF Promise!Recipients, ReleaseInv, ConsentInv
<1>1. CASE ReaderStep
  <2>1. UNCHANGED <<consent, wire, form>>
    BY <1>1 DEF ReaderStep, pageVars
  <2>2. CASE SerialAllowed
    <3>1. announced \in Announcements
      BY <2>2 DEF SerialAllowed, Move, ReleaseInv, PublisherInv, PublisherTypeOK,
                  Announcements
    <3>2. PICK t \in Text \ {Empty} : t.of = announced
      <4>1. [kind |-> "username", of |-> announced, whole |-> TRUE] \in Text \ {Empty}
        BY <3>1 DEF Text, Empty, FieldNames
      <4> QED
        BY <4>1
    <3>3. accepted' = accepted \cup {t.of}
      BY <2>2, <3>2 DEF SerialAllowed
    <3> QED
      BY <2>1, <3>3 DEF Promise!Next, Promise!Approve
  <2>3. CASE ~SerialAllowed
    <3>1. UNCHANGED accepted
      BY <1>1, <2>3
         DEF ReaderStep, PublisherNext, PublisherAlone, database,
             RecognizeAnnouncement, MessageValid, MessageInvalid, SerialRead,
             ClearUsername, ClearPassword, SerialUnknown,
             DatabaseError, Publish, Decrypt, DecryptSome, DecryptRest
    <3> QED
      BY <2>1, <3>1
  <2> QED
    BY <2>2, <2>3
<1>2. CASE UNCHANGED vars
  BY <1>2 DEF vars, publisherVars, pageVars
<1>3. ASSUME NEW p \in Pages, Connect(p) \/ Click(p) \/ Filter(p) \/ Receive(p)
      PROVE  UNCHANGED Promise!abstractVars
  BY <1>3 DEF Connect, Click, Filter, Receive, publisherVars
<1>4. ASSUME NEW p \in Pages, OnMessage(p) PROVE Promise!Deliver(p)
  <2>1. BoxFor(p) \in {"username", "password"}
    BY DEF BoxFor
  <2>2. form' = [form EXCEPT ![p][BoxFor(p)] = Head(wire[p])]
    BY <1>4 DEF OnMessage
  <2>3. \E box \in {"username", "password"} :
          form' = [form EXCEPT ![p][box] = Head(wire[p])]
    BY <2>1, <2>2
  <2> QED
    BY <1>4, <2>3 DEF OnMessage, Promise!Deliver, publisherVars
<1>5. ASSUME NEW p \in Pages, Close(p) PROVE Promise!Leave(p)
  BY <1>5 DEF Close, Promise!Leave, publisherVars
<1>6. CASE get_credential \/ AnswerNo
  BY <1>6 DEF get_credential, TestFlag, Measure, CopyField, AnswerNo,
              publisherVars, pageVars
<1>7. CASE AnswerYes
  <2>1. request \in Portal /\ request \in Pages /\ consent[request] = <<>>
    BY <1>7 DEF AnswerYes, Serve, ReleaseInv, PortalInv, OnlyPortalPages, ConsentInv
  <2>2. Promise!Grant(request)
    BY <1>7, <2>1 DEF AnswerYes, Promise!Grant, publisherVars, pageVars
  <2> QED
    BY <1>0, <2>1, <2>2 DEF Promise!Next
<1>8. ASSUME NEW f \in FieldNames, NEW from, NEW to, Send(f, from, to),
             consent[request] # <<>>, Head(consent[request]) = f
      PROVE  Promise!Next
  <2>1. request \in Pages
    BY DEF ReleaseInv, PortalInv, OnlyPortalPages
  <2>2. \/ UNCHANGED wire
        \/ copy[f] # Empty /\ wire' = [wire EXCEPT ![request] = Append(wire[request], copy[f])]
    BY <1>8 DEF Send
  <2>3. copy[f] # Empty =>
          copy[f] \in Text \ {Empty} /\ copy[f].kind = f /\ copy[f].of \in accepted
    BY DEF ReleaseInv, ServiceInv, ReadFrom
  <2>4. Promise!Send(request)
    BY <1>8, <2>2, <2>3 DEF Send, Promise!Send, publisherVars
  <2> QED
    BY <1>0, <2>1, <2>4 DEF Promise!Next
<1>9. CASE Send("username", "send_username", "send_password")
  <2>1. consent[request] = <<"username", "password">>
    BY <1>9 DEF Send, Serve, ReleaseInv, ConsentInv, PortalInv, OnlyPortalPages
  <2> QED
    BY <1>8, <1>9, <2>1 DEF FieldNames
<1>10. CASE Send("password", "send_password", "poll")
  <2>1. consent[request] = <<"password">>
    BY <1>10 DEF Send, Serve, ReleaseInv, ConsentInv, PortalInv, OnlyPortalPages
  <2> QED
    BY <1>8, <1>10, <2>1 DEF FieldNames
<1> QED
  BY <1>0, <1>1, <1>2, <1>3, <1>4, <1>5, <1>6, <1>7, <1>9, <1>10
     DEF Next, ServiceStep, PageStep, SendCredentials, Promise!Next

\* The two threads and the pages together implement ConsentedRelease, for any
\* cards, pages and bounds.
THEOREM ReleaseKeepsPromise == Spec => KeepsPromise
BY PromiseInit, PromiseStep, ReleaseInvariant, PTL
   DEF Spec, KeepsPromise, Promise!Spec

============================================================================
