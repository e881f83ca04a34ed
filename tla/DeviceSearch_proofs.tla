------------------------ MODULE DeviceSearch_proofs ------------------------
(***************************************************************************)
(* Theorems about the search for the board, for any number of ports and     *)
(* threads, any devices and any bounds.                                     *)
(***************************************************************************)
EXTENDS DeviceSearch, TLAPS

\* While nobody has used Reset there is one thread; what it found is a board at a
\* port whose handle it has, and what it reads from is what it found.
FirstHolds ==
    /\ pc[First] # "unborn"
    /\ NoReset /\ tray = "waiting" =>
         /\ pc[First] = "found" => at[First] \in BoardPorts /\ at[First] \in Cport
         /\ pc[First] \in Reading => port \in BoardPorts /\ port \in Cport

SearchInv == SearchTypeOK /\ FirstHolds

-----------------------------------------------------------------------------

\* A port number is again one after it has been counted up and wrapped, and one
\* that is in range is left alone.
LEMMA WrapStays ==
    \A n \in Ports : n \in 0 .. NumPorts - 1 /\ Wrap(n) = n /\ Wrap(n + 1) \in Ports
  BY SearchAssumption DEF Ports, Wrap

\* Closing a port by whatever number leaves the table within the open ports.
LEMMA ClosedWithin ==
    ASSUME NEW p, SearchTypeOK, CloseComport(p)
    PROVE  taken' \subseteq Ports /\ Cport' \subseteq taken'
  BY DEF SearchTypeOK, CloseComport

\* The program starts with its first thread searching.
LEMMA SearchInitInv == Init => SearchInv
  BY SearchAssumption DEF Init, SearchInv, SearchTypeOK, FirstHolds, Ports, NoPort,
       Searching, Reading

\* A step of the search keeps the types.
LEMMA SearchKeepsTypes ==
    ASSUME SearchTypeOK, NEW t \in Threads, Search(t)
    PROVE  SearchTypeOK'
<1> USE SearchAssumption, WrapStays
    DEF SearchTypeOK, Goes, deviceVars, Searching, Reading
<1>1. CASE OpenFails(t)
  BY <1>1 DEF OpenFails
<1>2. CASE Opens(t)
  BY <1>2 DEF Opens
<1>3. CASE SendsInit(t)
  BY <1>3 DEF SendsInit
<1>4. CASE SendsShort(t)
  <2>1. taken' \subseteq Ports /\ Cport' \subseteq taken'
    BY <1>4, ClosedWithin DEF SendsShort
  <2>2. pc' \in [Threads -> {"unborn", "ended"} \union Searching \union Reading]
    BY <1>4 DEF SendsShort
  <2>3. at[t] \in Ports /\ Wrap(at[t]) = at[t]
    OBVIOUS
  <2>4. at' \in [Threads -> Ports]
    BY <1>4, <2>3 DEF SendsShort
  <2>5. odd' \in 0 .. MaxOdd
    BY <1>4 DEF SendsShort
  <2> QED
    BY <1>4, <2>1, <2>2, <2>4, <2>5 DEF SendsShort
<1>5. CASE Discovers(t)
  BY <1>5 DEF Discovers
<1>6. CASE GivesUp(t)
  <2>1. taken' \subseteq Ports /\ Cport' \subseteq taken'
    BY <1>6, ClosedWithin DEF GivesUp
  <2> QED
    BY <1>6, <2>1 DEF GivesUp
<1>7. CASE Returns(t)
  BY <1>7 DEF Returns, At
<1> QED
  BY <1>1, <1>2, <1>3, <1>4, <1>5, <1>6, <1>7 DEF Search

\* A step of the loop that uses the port keeps the types.
LEMMA ReadKeepsTypes ==
    ASSUME SearchTypeOK, NEW t \in Threads, Read(t)
    PROVE  SearchTypeOK'
<1> USE DEF SearchTypeOK, At, deviceVars, Searching, Reading
<1>1. CASE Tests(t)
  BY <1>1 DEF Tests
<1>2. CASE NothingToRead(t)
  BY <1>2 DEF NothingToRead
<1>3. CASE Announced(t)
  BY <1>3 DEF Announced
<1>4. CASE Refused(t)
  BY <1>4 DEF Refused
<1>5. CASE Received(t)
  BY <1>5 DEF Received
<1>6. CASE GotSerial(t)
  BY <1>6 DEF GotSerial
<1> QED
  BY <1>1, <1>2, <1>3, <1>4, <1>5, <1>6 DEF Read

\* Devices, tray and threads: every step keeps the types.
LEMMA SearchTypeStep == SearchTypeOK /\ [Next]_searchVars => SearchTypeOK'
<1> SUFFICES ASSUME SearchTypeOK, [Next]_searchVars PROVE SearchTypeOK'
  OBVIOUS
<1>1. ASSUME NEW p \in Ports, Attach(p) \/ Detach(p) PROVE SearchTypeOK'
  <2>1. changes' \in 0 .. MaxChanges
    BY <1>1, SearchAssumption DEF SearchTypeOK, Attach, Detach
  <2>2. attached' \subseteq Ports /\ invited' \subseteq BoardPorts
    BY <1>1 DEF SearchTypeOK, Attach, Detach
  <2> QED
    BY <1>1, <2>1, <2>2 DEF SearchTypeOK, Attach, Detach
<1>2. ASSUME NEW t \in Threads, Search(t) PROVE SearchTypeOK'
  BY <1>2, SearchKeepsTypes
<1>3. ASSUME NEW t \in Threads, Read(t) PROVE SearchTypeOK'
  BY <1>3, ReadKeepsTypes
<1>4. ASSUME NEW t \in Threads, StartsThread(t) PROVE SearchTypeOK'
  BY <1>4, SearchAssumption
     DEF SearchTypeOK, StartsThread, Goes, deviceVars, Searching, Reading, Ports
<1>5. CASE Reset
  <2>1. taken' \subseteq Ports /\ Cport' \subseteq taken'
    BY <1>5, ClosedWithin DEF Reset
  <2> QED
    BY <1>5, <2>1 DEF SearchTypeOK, Reset, deviceVars
<1>6. CASE UNCHANGED searchVars
  BY <1>6 DEF SearchTypeOK, searchVars, deviceVars
<1> QED
  BY <1>1, <1>2, <1>3, <1>4, <1>5, <1>6 DEF Next

\* With no other thread than the first, only the first takes a step.
LEMMA OnlyFirstSteps ==
    ASSUME NoReset, NEW t \in Threads, Search(t) \/ Read(t)
    PROVE  t = First
  BY DEF NoReset, Search, Read, OpenFails, Opens, SendsInit, SendsShort, Discovers,
         GivesUp, Returns, At, Tests, NothingToRead, Announced, Refused, Received,
         GotSerial

\* A thread that has been started stays so.
LEMMA StartedStays ==
    ASSUME SearchTypeOK, NEW t \in Threads, Search(t) \/ Read(t)
    PROVE  \A u \in Threads : pc[u] # "unborn" <=> pc'[u] # "unborn"
<1> USE DEF SearchTypeOK, Goes, At
<1>1. CASE Search(t)
  BY <1>1 DEF Search, OpenFails, Opens, SendsInit, SendsShort, Discovers, GivesUp,
              Returns
<1>2. CASE Read(t)
  BY <1>2 DEF Read, Tests, NothingToRead, Announced, Refused, Received, GotSerial
<1> QED
  BY <1>1, <1>2

\* While it is alone, the thread that searches takes for the device only a board
\* that it has invited over a handle that is good.
LEMMA SearchHolds ==
    ASSUME SearchInv, NoReset, tray = "waiting", Search(First)
    PROVE  /\ pc'[First] = "found" => at'[First] \in BoardPorts /\ at'[First] \in Cport'
           /\ pc'[First] \in Reading => port' \in BoardPorts /\ port' \in Cport'
<1> USE SearchAssumption
    DEF SearchInv, SearchTypeOK, FirstHolds, Goes, At, Reading
<1>1. CASE OpenFails(First)
  BY <1>1 DEF OpenFails
<1>2. CASE Opens(First)
  BY <1>2 DEF Opens
<1>3. CASE SendsInit(First)
  BY <1>3 DEF SendsInit
<1>4. CASE SendsShort(First)
  BY <1>4 DEF SendsShort
<1>5. CASE Discovers(First)
  <2>1. "OK!" \in Replies(at[First])
    BY <1>5 DEF Discovers, Accepts
  <2>2. Live(at[First]) /\ at[First] \in invited
    BY <2>1 DEF Replies
  <2>3. at'[First] = at[First] /\ Cport' = Cport
    BY <1>5, WrapStays DEF Discovers
  <2>4. pc'[First] = "found"
    BY <1>5 DEF Discovers
  <2> QED
    BY <2>2, <2>3, <2>4 DEF Live
<1>6. CASE GivesUp(First)
  BY <1>6 DEF GivesUp
<1>7. CASE Returns(First)
  BY <1>7 DEF Returns
<1> QED
  BY <1>1, <1>2, <1>3, <1>4, <1>5, <1>6, <1>7 DEF Search

\* ... and goes on reading from that port only.
LEMMA ReadHolds ==
    ASSUME SearchInv, NoReset, tray = "waiting", Read(First)
    PROVE  /\ pc'[First] # "found"
           /\ port' \in BoardPorts /\ port' \in Cport'
  BY SearchAssumption
     DEF SearchInv, SearchTypeOK, FirstHolds, At, Reading, Read, Tests, NothingToRead,
         Announced, Refused, Received, GotSerial

\* Every step keeps what the first thread holds.
LEMMA FirstHoldsStep == SearchInv /\ [Next]_searchVars => FirstHolds'
<1> SUFFICES ASSUME SearchInv, [Next]_searchVars PROVE FirstHolds'
  OBVIOUS
<1> USE SearchAssumption
<1>1. ASSUME NEW p \in Ports, Attach(p) \/ Detach(p) PROVE FirstHolds'
  BY <1>1 DEF SearchInv, FirstHolds, NoReset, Attach, Detach
<1>2. ASSUME NEW t \in Threads, Search(t) \/ Read(t) PROVE FirstHolds'
  <2>1. pc'[First] # "unborn" /\ (NoReset' => NoReset)
    BY <1>2, StartedStays DEF SearchInv, FirstHolds, NoReset
  <2>2. tray' = tray
    BY <1>2 DEF Search, Read, OpenFails, Opens, SendsInit, SendsShort, Discovers,
         GivesUp, Returns, At, Tests, NothingToRead, Announced, Refused, Received,
         GotSerial
  <2>3. ASSUME NoReset, tray = "waiting" PROVE FirstHolds'
    <3>1. t = First
      BY <1>2, <2>3, OnlyFirstSteps
    <3> QED
      BY <1>2, <2>1, <2>3, <3>1, SearchHolds, ReadHolds DEF FirstHolds
  <2> QED
    BY <2>1, <2>2, <2>3 DEF FirstHolds
<1>3. ASSUME NEW t \in Threads, StartsThread(t) PROVE FirstHolds'
  <2>1. t # First /\ pc'[t] = "search" /\ pc'[First] = pc[First]
    BY <1>3 DEF SearchInv, SearchTypeOK, FirstHolds, StartsThread, Goes
  <2>2. ~NoReset'
    BY <2>1 DEF NoReset
  <2> QED
    BY <2>1, <2>2 DEF SearchInv, FirstHolds
<1>4. CASE Reset
  BY <1>4 DEF SearchInv, FirstHolds, Reset
<1>5. CASE UNCHANGED searchVars
  BY <1>5 DEF SearchInv, FirstHolds, NoReset, searchVars, deviceVars
<1> QED
  BY <1>1, <1>2, <1>3, <1>4, <1>5 DEF Next

\* The types and what the first thread holds are invariant.
THEOREM SearchInvariant == Spec => []SearchInv
<1>1. SearchInv /\ [Next]_searchVars => SearchInv'
  BY SearchTypeStep, FirstHoldsStep DEF SearchInv
<1> QED
  BY SearchInitInv, <1>1, PTL DEF Spec

\* Ports, table of handles, threads and tray stay within their types: an entry of
\* the table that is taken for a handle is always one of an open port.
THEOREM SearchTypeCorrect == Spec => []SearchTypeOK
<1>1. SearchInv => SearchTypeOK
  BY DEF SearchInv
<1> QED
  BY SearchInvariant, <1>1, PTL

\* For any number of ports and whatever devices come and go, the thread that reads
\* before a Reset reads from a board over a good handle.
THEOREM ReaderAlwaysHoldsBoard == Spec => []ReaderHoldsBoard
<1>1. SearchInv => ReaderHoldsBoard
  BY DEF SearchInv, FirstHolds, ReaderHoldsBoard
<1> QED
  BY SearchInvariant, <1>1, PTL

=============================================================================
