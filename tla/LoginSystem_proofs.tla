------------------------- MODULE LoginSystem_proofs -------------------------
(***************************************************************************)
(* The composition implements both of its parts, so what is proved of each  *)
(* holds of the whole; together they say what a page can be given, from the *)
(* card on.                                                                 *)
(***************************************************************************)
EXTENDS LoginSystem, LinkDelivery_proofs

Threads == INSTANCE CredentialRelease_proofs

----------------------------------------------------------------------------

\* Both parts know the same serial thread.
LEMMA SamePublisher ==
    /\ PublisherNext <=> Threads!PublisherNext
    /\ PublisherInit <=> Threads!PublisherInit
    /\ UNCHANGED publisherVars <=> UNCHANGED Threads!publisherVars
    /\ Empty = Threads!Empty
BY DEF PublisherNext, PublisherAlone, PublisherInit, publisherVars, database,
       RecognizeAnnouncement, MessageValid, MessageInvalid, SerialRead,
       ClearUsername, ClearPassword, SerialAllowed, SerialUnknown, DatabaseError,
       Publish, Decrypt, DecryptSome, DecryptRest, Move, FieldText, Empty, FieldNames,
       Threads!PublisherNext, Threads!PublisherAlone, Threads!PublisherInit,
       Threads!publisherVars, Threads!database,
       Threads!RecognizeAnnouncement, Threads!MessageValid, Threads!MessageInvalid,
       Threads!SerialRead, Threads!ClearUsername, Threads!ClearPassword,
       Threads!SerialAllowed, Threads!SerialUnknown, Threads!DatabaseError,
       Threads!Publish, Threads!Decrypt, Threads!DecryptSome, Threads!DecryptRest,
       Threads!Move, Threads!FieldText, Threads!Empty, Threads!FieldNames

\* So do model and proofs the service thread and the pages.
LEMMA SameThreads ==
    /\ Release!ServiceStep <=> Threads!ServiceStep
    /\ \A p \in Pages : Release!PageStep(p) <=> Threads!PageStep(p)
    /\ Release!ReleaseInit <=> Threads!ReleaseInit
<1>1. Release!ServiceStep <=> Threads!ServiceStep
  BY DEF Release!ServiceStep, Release!Filter, Release!Receive, Release!get_credential,
       Release!TestFlag, Release!Measure, Release!CopyField, Release!AnswerYes,
       Release!AnswerNo, Release!SendCredentials, Release!Send, Release!Serve,
       Release!ReadOf, Release!CutTo, Release!CutShort, Release!Clearing,
       Release!reject_request, Release!publisherVars, Release!serviceVars,
       Release!pageVars, Release!Empty, Release!FieldNames,
       Threads!ServiceStep, Threads!Filter, Threads!Receive, Threads!get_credential,
       Threads!TestFlag, Threads!Measure, Threads!CopyField, Threads!AnswerYes,
       Threads!AnswerNo, Threads!SendCredentials, Threads!Send, Threads!Serve,
       Threads!ReadOf, Threads!CutTo, Threads!CutShort, Threads!Clearing,
       Threads!reject_request, Threads!publisherVars, Threads!serviceVars,
       Threads!pageVars, Threads!Empty, Threads!FieldNames
<1>2. \A p \in Pages : Release!PageStep(p) <=> Threads!PageStep(p)
  BY DEF Release!PageStep, Release!Connect, Release!Click, Release!OnMessage,
       Release!Close, Release!BoxFor, Release!publisherVars, Release!serviceVars,
       Threads!PageStep, Threads!Connect, Threads!Click, Threads!OnMessage,
       Threads!Close, Threads!BoxFor, Threads!publisherVars, Threads!serviceVars
<1>3. Release!ReleaseInit <=> Threads!ReleaseInit
  BY DEF Release!ReleaseInit, Threads!ReleaseInit, Release!Empty, Threads!Empty,
       Release!FieldNames, Threads!FieldNames
<1> QED
  BY <1>1, <1>2, <1>3

\* Service thread and pages write nothing that the serial thread reads.
LEMMA PagesApart ==
    ASSUME Threads!ServiceStep \/ \E p \in Pages : Threads!PageStep(p)
    PROVE  UNCHANGED publisherVars
<1>1. UNCHANGED Threads!publisherVars
  <2>1. ASSUME NEW p \in Pages, Threads!PageStep(p)
        PROVE  UNCHANGED Threads!publisherVars
    BY <2>1 DEF Threads!PageStep, Threads!Connect, Threads!Click, Threads!OnMessage,
                Threads!Close
  <2>2. CASE Threads!ServiceStep
    BY <2>2 DEF Threads!ServiceStep, Threads!Filter, Threads!Receive,
                Threads!get_credential, Threads!TestFlag, Threads!Measure,
                Threads!CopyField, Threads!AnswerYes, Threads!AnswerNo,
                Threads!SendCredentials, Threads!Send
  <2> QED
    BY <2>1, <2>2
<1> QED
  BY <1>1, SamePublisher

\* A step of the whole is one of the line or leaves the line alone.
LEMMA LineSteps == [SystemNext]_systemVars => [Next]_vars
<1>1. CASE LineSide
  BY <1>1 DEF LineSide
<1>2. CASE PageSide
  BY <1>2, PagesApart, SameThreads DEF PageSide, vars
<1>3. CASE UNCHANGED systemVars
  BY <1>3 DEF systemVars, vars
<1> QED
  BY <1>1, <1>2, <1>3 DEF SystemNext

\* And one of the threads and pages, or one they do not see.
LEMMA ThreadSteps == [SystemNext]_systemVars => [Threads!Next]_(Threads!vars)
<1> USE DEF Threads!vars, Threads!serviceVars, Threads!pageVars
<1>1. CASE LineSide
  <2>1. [PublisherNext]_publisherVars
    BY <1>1, LinkStepsAlone DEF LineSide
  <2>2. UNCHANGED <<Threads!serviceVars, Threads!pageVars, consent>>
    BY <1>1 DEF LineSide, releaseVars
  <2>3. CASE PublisherNext
    BY <2>2, <2>3, SamePublisher DEF Threads!Next, Threads!ReaderStep
  <2>4. CASE UNCHANGED publisherVars
    BY <2>2, <2>4, SamePublisher
  <2> QED
    BY <2>1, <2>3, <2>4
<1>2. CASE PageSide
  BY <1>2, SameThreads DEF PageSide, Threads!Next
<1>3. CASE UNCHANGED systemVars
  <2>1. UNCHANGED publisherVars /\ UNCHANGED releaseVars
    BY <1>3 DEF systemVars
  <2>2. UNCHANGED Threads!publisherVars
    BY <2>1, SamePublisher
  <2> QED
    BY <2>1, <2>2 DEF releaseVars
<1> QED
  BY <1>1, <1>2, <1>3 DEF SystemNext

\* The whole implements the serial link: what is proved of ReaderLink holds of it.
THEOREM SystemImplementsLink == SystemSpec => Spec
<1>1. SystemInit => Init
  BY DEF SystemInit
<1> QED
  BY <1>1, LineSteps, PTL DEF SystemSpec, Spec

\* And the two threads with their pages: what is proved of CredentialRelease holds
\* of it.
THEOREM SystemImplementsRelease == SystemSpec => Threads!Spec
<1>1. SystemInit => Threads!Init
  BY SamePublisher, SameThreads DEF SystemInit, Init, Threads!Init
<1> QED
  BY <1>1, ThreadSteps, PTL DEF SystemSpec, Threads!Spec

\* So messages are put on offer in the order of sending, each at most once, with any
\* number of pages asking, under the two conditions on the bytes and the table.
THEOREM SystemDeliversInOrder ==
    AcksStandOut /\ NumbersStandOut => (SystemSpec => DeliversInOrder)
<1> SUFFICES ASSUME AcksStandOut, NumbersStandOut PROVE SystemSpec => DeliversInOrder
  OBVIOUS
<1>1. Spec => DeliversInOrder
  BY LinkDeliversInOrder
<1> QED
  BY <1>1, SystemImplementsLink, PTL

\* And what a page is sent is covered by a yes of the user to that page, with the
\* real board and line behind the serial thread.
THEOREM SystemKeepsPromise == SystemSpec => Threads!KeepsPromise
<1>1. Threads!Spec => Threads!KeepsPromise
  BY Threads!ReleaseKeepsPromise, SystemAssumption, PublisherAssumption
<1> QED
  BY <1>1, SystemImplementsRelease, PTL

----------------------------------------------------------------------------
\* What pages have been given.

\* Every text on its way to a page or shown by it is of an accepted message.
GivenIsAccepted ==
    \A p \in Pages : \A t \in GivenTo(p) : t.of \in accepted

\* Pages start with nothing.
LEMMA GivenInit == SystemInit => GivenIsAccepted
<1> SUFFICES ASSUME SystemInit, NEW p \in Pages PROVE GivenTo(p) = {}
  BY DEF GivenIsAccepted
<1>1. wire[p] = <<>> /\ \A f \in FieldNames : form[p][f] = Empty
  BY SamePublisher, SameThreads
     DEF SystemInit, Threads!ReleaseInit, FieldNames, Threads!FieldNames
<1>2. DOMAIN wire[p] = {}
  BY <1>1
<1> QED
  BY <1>1, <1>2 DEF GivenTo

\* An element of a sequence to which something was appended.
LEMMA AppendHas ==
    ASSUME NEW S, NEW s \in Seq(S), NEW e \in S, NEW i \in DOMAIN Append(s, e)
    PROVE  \/ Append(s, e)[i] = e
           \/ i \in DOMAIN s /\ Append(s, e)[i] = s[i]
<1>1. Len(s) \in Nat /\ DOMAIN s = 1 .. Len(s)
  BY LenProperties
<1>2. i \in 1 .. Len(s) \/ i = Len(s) + 1
  BY <1>1
<1> QED
  BY <1>1, <1>2, AppendProperties

\* A page is given what the service thread holds for it, and passes on what it has
\* from the socket to a box.
LEMMA GivenGrows ==
    ASSUME Threads!ReleaseInv, [Threads!Next]_(Threads!vars),
           NEW p \in Pages, NEW t \in GivenTo(p)'
    PROVE  t \in GivenTo(p) \/ t.of \in accepted
<1> USE DEF Threads!FieldNames, FieldNames
<1>0. /\ wire \in [Pages -> Seq(Threads!Text)]
      /\ form \in [Pages -> [FieldNames -> Threads!Text]]
      /\ request \in Pages
  BY DEF Threads!ReleaseInv, Threads!ConsentInv, Threads!PortalInv,
         Threads!OnlyPortalPages
<1>1. t # Empty
  BY SamePublisher DEF GivenTo, Empty
<1>2. ASSUME UNCHANGED <<wire, form>> PROVE t \in GivenTo(p)
  BY <1>2 DEF GivenTo, Empty
<1>3. ASSUME NEW f \in FieldNames, NEW from, NEW to, Threads!Send(f, from, to)
      PROVE  t \in GivenTo(p) \/ t.of \in accepted
  <2>1. CASE UNCHANGED wire
    BY <1>2, <1>3, <2>1 DEF Threads!Send
  <2>2. CASE /\ copy[f] # Empty
             /\ wire' = [wire EXCEPT ![request] = Append(wire[request], copy[f])]
    <3>1. copy[f].of \in accepted
      BY <2>2, SamePublisher DEF Threads!ReleaseInv, Threads!ServiceInv, Threads!ReadFrom
    <3>2. form' = form
      BY <1>3 DEF Threads!Send
    <3>3. \A i \in DOMAIN wire'[p] :
            \/ wire'[p][i] = copy[f]
            \/ i \in DOMAIN wire[p] /\ wire'[p][i] = wire[p][i]
      <4>1. CASE p = request
        <5>1. wire[p] \in Seq(Threads!Text) /\ wire'[p] = Append(wire[p], copy[f])
          BY <1>0, <2>2, <4>1
        <5>2. copy[f] \in Threads!Text
          BY DEF Threads!ReleaseInv, Threads!ServiceInv
        <5> QED
          BY <5>1, <5>2, AppendHas
      <4>2. CASE p # request
        BY <1>0, <2>2, <4>2
      <4> QED
        BY <4>1, <4>2
    <3> QED
      BY <1>1, <3>1, <3>2, <3>3 DEF GivenTo, Empty
  <2> QED
    BY <1>3, <2>1, <2>2, SamePublisher DEF Threads!Send
<1>4. ASSUME NEW q \in Pages, Threads!OnMessage(q) PROVE t \in GivenTo(p)
  <2>1. /\ wire[q] # <<>>
        /\ wire' = [wire EXCEPT ![q] = Tail(wire[q])]
        /\ form' = [form EXCEPT ![q] = [form[q] EXCEPT
                        ![Threads!BoxFor(q)] = Head(wire[q])]]
    BY <1>4 DEF Threads!OnMessage
  <2>2. \A i \in DOMAIN wire'[p] : \E j \in DOMAIN wire[p] : wire'[p][i] = wire[p][j]
    <3>1. CASE p = q
      BY <1>0, <2>1, <3>1, HeadTailProperties
    <3>2. CASE p # q
      BY <1>0, <2>1, <3>2
    <3> QED
      BY <3>1, <3>2
  <2>3. \A f \in FieldNames :
          \/ form'[p][f] = form[p][f]
          \/ \E j \in DOMAIN wire[p] : form'[p][f] = wire[p][j]
    <3>1. CASE p = q
      <4>1. 1 \in DOMAIN wire[q] /\ Head(wire[q]) = wire[q][1]
        BY <1>0, <2>1, <3>1
      <4> QED
        BY <1>0, <2>1, <3>1, <4>1
    <3>2. CASE p # q
      BY <1>0, <2>1, <3>2
    <3> QED
      BY <3>1, <3>2
  <2> QED
    BY <1>1, <2>2, <2>3 DEF GivenTo, Empty
<1>5. ASSUME NEW q \in Pages, Threads!Close(q) PROVE t \in GivenTo(p)
  <2>1. form' = form /\ wire' = [wire EXCEPT ![q] = <<>>]
    BY <1>5 DEF Threads!Close
  <2>2. \A i \in DOMAIN wire'[p] : i \in DOMAIN wire[p] /\ wire'[p][i] = wire[p][i]
    BY <1>0, <2>1
  <2> QED
    BY <1>1, <2>1, <2>2 DEF GivenTo, Empty
<1>6. CASE UNCHANGED Threads!vars
  BY <1>2, <1>6 DEF Threads!vars, Threads!pageVars
<1>7. CASE Threads!ReaderStep
  BY <1>2, <1>7 DEF Threads!ReaderStep, Threads!pageVars
<1>8. ASSUME NEW q \in Pages,
             Threads!Connect(q) \/ Threads!Click(q) \/ Threads!Filter(q) \/ Threads!Receive(q)
      PROVE  t \in GivenTo(p)
  BY <1>2, <1>8 DEF Threads!Connect, Threads!Click, Threads!Filter, Threads!Receive
<1>9. CASE Threads!get_credential \/ Threads!AnswerYes \/ Threads!AnswerNo
  BY <1>2, <1>9 DEF Threads!get_credential, Threads!TestFlag, Threads!Measure,
         Threads!CopyField, Threads!AnswerYes, Threads!AnswerNo, Threads!pageVars
<1>10. CASE Threads!SendCredentials
  BY <1>3, <1>10 DEF Threads!SendCredentials
<1> QED
  BY <1>4, <1>5, <1>6, <1>7, <1>8, <1>9, <1>10
     DEF Threads!Next, Threads!ServiceStep, Threads!PageStep

\* What has been accepted stays accepted.
LEMMA AcceptedGrows ==
    ASSUME [Next]_vars PROVE accepted \subseteq accepted'
<1>1. [PublisherNext]_publisherVars
  BY LinkStepsAlone
<1> QED
  BY <1>1 DEF PublisherNext, PublisherAlone, publisherVars, database,
         RecognizeAnnouncement, MessageValid, MessageInvalid, SerialRead,
         ClearUsername, ClearPassword, SerialAllowed, SerialUnknown,
         DatabaseError, Publish, Decrypt, DecryptSome, DecryptRest

\* So a page is only ever given what was accepted.
LEMMA GivenInvariant == SystemSpec => []GivenIsAccepted
<1>1. GivenIsAccepted /\ Threads!ReleaseInv /\ [SystemNext]_systemVars => GivenIsAccepted'
  <2> SUFFICES ASSUME GivenIsAccepted, Threads!ReleaseInv, [SystemNext]_systemVars,
                      NEW p \in Pages, NEW t \in GivenTo(p)'
               PROVE  t.of \in accepted'
    BY DEF GivenIsAccepted
  <2>1. t \in GivenTo(p) \/ t.of \in accepted
    BY GivenGrows, ThreadSteps
  <2>2. accepted \subseteq accepted'
    BY AcceptedGrows, LineSteps
  <2> QED
    BY <2>1, <2>2 DEF GivenIsAccepted
<1>2. Threads!Spec => []Threads!ReleaseInv
  BY Threads!ReleaseInvariant, SystemAssumption, PublisherAssumption
<1> QED
  BY <1>1, <1>2, GivenInit, SystemImplementsRelease, PTL DEF SystemSpec

----------------------------------------------------------------------------

\* User name and password the user is asked about were sent by the board, the
\* password in the same message or a later one: in every interleaving of both
\* threads, the board and the pages, whatever is left over or misread on the line and
\* however often the board restarts, if acknowledge bytes and numbers stand out.
THEOREM AnswersAlwaysInBoardOrder ==
    AcksStandOut /\ NumbersStandOut => (SystemSpec => []AnswersInBoardOrder)
<1> SUFFICES ASSUME AcksStandOut, NumbersStandOut
             PROVE  SystemSpec => []AnswersInBoardOrder
  OBVIOUS
<1>0. Spec => [](LineInv /\ AcceptInv)
  BY AcceptInvariant
<1>1. LineInv /\ AcceptInv /\ Threads!ReleaseInv => AnswersInBoardOrder
  <2> SUFFICES ASSUME LineInv, AcceptInv, Threads!ReleaseInv,
                      service \in {"dialog", "send_username", "send_password"},
                      copy["username"] # Empty, copy["password"] # Empty
               PROVE  \E k \in 1 .. sent : \E l \in k .. sent :
                        /\ taken[copy["username"].of].messages = {k}
                        /\ taken[copy["password"].of].messages = {l}
    BY DEF AnswersInBoardOrder
  <2> DEFINE u == copy["username"].of
             w == copy["password"].of
  <2>1. u \in accepted /\ w \in accepted
    BY SamePublisher
       DEF Threads!ReleaseInv, Threads!ServiceInv, Threads!ReadFrom, Threads!FieldNames
  <2>2. u <= w
    BY SamePublisher
       DEF Threads!ReleaseInv, Threads!ServiceInv, Threads!PasswordNotOlder
  <2>3. u \in Settled /\ w \in Settled /\ u \in Nat /\ w \in Nat
    <3>1. announced \in Nat /\ accepted \subseteq 1 .. announced
      BY DEF LineInv, LinkTypeOK, PublisherTypeOK
    <3> HIDE DEF u, w
    <3> QED
      BY <2>1, <3>1 DEF Settled
  <2>4. SettledArePast /\ SettledInOrder
    BY DEF AcceptInv
  <2> HIDE DEF u, w
  <2>5. PICK k \in 1 .. sent : taken[u].messages = {k}
    BY <2>3, <2>4 DEF SettledArePast
  <2>6. PICK l \in 1 .. sent : taken[w].messages = {l}
    BY <2>3, <2>4 DEF SettledArePast
  <2>7. k <= l
    <3>1. CASE u = w
      BY <2>5, <2>6, <3>1
    <3>2. CASE u < w
      BY <2>3, <2>4, <2>5, <2>6, <3>2 DEF SettledInOrder
    <3> QED
      BY <2>2, <2>3, <3>1, <3>2
  <2>8. l \in k .. sent
    BY <2>7
  <2> QED
    BY <2>5, <2>6, <2>8 DEF u, w
<1>2. Threads!Spec => []Threads!ReleaseInv
  BY Threads!ReleaseInvariant, SystemAssumption, PublisherAssumption
<1> QED
  BY <1>0, <1>1, <1>2, SystemImplementsLink, SystemImplementsRelease, PTL

\* As long as the reads of a card succeed and say so, and acknowledge bytes and
\* numbers stand out, whatever a page has been given comes from one card, which the
\* table has, and not from another whose data waited on the board: for any number of
\* cards and pages, restarts included.
THEOREM PagesAlwaysShowAllowedCards ==
    AcksStandOut /\ NumbersStandOut /\ ReadsSucceed =>
        (SystemSpec => []PagesShowAllowedCards)
<1> SUFFICES ASSUME AcksStandOut, NumbersStandOut, ReadsSucceed
             PROVE  SystemSpec => []PagesShowAllowedCards
  OBVIOUS
<1>0. Spec => [](LineInv /\ AcceptInv) /\ []NumberIsTaken
  BY AcceptInvariant, NumberInvariant
<1>1. AcceptInv /\ NumberIsTaken /\ GivenIsAccepted => PagesShowAllowedCards
  <2> SUFFICES ASSUME AcceptInv, NumberIsTaken, GivenIsAccepted,
                      NEW p \in Pages, NEW t \in GivenTo(p)
               PROVE  \E c \in Allowed : taken[t.of].cards = {c}
    BY DEF PagesShowAllowedCards
  <2>1. t.of \in accepted /\ t.of \in Settled
    BY DEF GivenIsAccepted, Settled
  <2>2. PICK d \in Cards : taken[t.of].cards = {d}
    BY <2>1 DEF AcceptInv, SettledOfOneCard
  <2>3. PICK c \in Allowed : c \in taken[t.of].cards
    BY <2>1 DEF NumberIsTaken
  <2> QED
    BY <2>2, <2>3
<1> QED
  BY <1>0, <1>1, GivenInvariant, SystemImplementsLink, PTL

=============================================================================
