----------------------------- MODULE DeviceSearch -----------------------------
(***************************************************************************)
(* How the serial threads of the host find the board, use the port they     *)
(* have found, and are replaced by the tray command Reset: wait_for_device, *)
(* the table of port handles of rs232.c, the loop of start_rfid_reader as    *)
(* far as it uses the port, and close_rfid_reader.                          *)
(*                                                                          *)
(* What a thread and the board say to each other once the board is found is *)
(* the subject of ReaderLink.  The program has NumPorts = 16.               *)
(***************************************************************************)
EXTENDS Integers, FiniteSets

CONSTANTS
    Threads,      \* serial threads that are ever created
    First,        \* the one WinMain creates
    NumPorts,     \* ports wait_for_device tries
    BoardPorts,   \* ports at which a device that is attached is a board
    MaxChanges,   \* bound: times a device is attached or detached
    MaxOdd        \* bound: times a driver refuses the settings or writes short

ASSUME SearchAssumption ==
    /\ First \in Threads
    /\ NumPorts \in Nat \ {0}
    /\ BoardPorts \subseteq 0 .. NumPorts - 1
    /\ MaxChanges \in Nat
    /\ MaxOdd \in Nat

VARIABLES
    attached,   \* ports at which there is a device
    taken,      \* ports the process has open, whether or not it knows the handle
    Cport,      \* ports whose entry of the table is the handle of the open port
    invited,    \* boards that have read INIT since their port was opened
    pc,         \* where each thread is
    at,         \* port_number of each thread
    local,      \* port that wait_message or wait_serial_number was called with
    port,       \* the global port
    tray,       \* what the window procedure is doing
    changes,
    odd

deviceVars == <<attached, changes>>
searchVars ==
    <<attached, taken, Cport, invited, pc, at, local, port, tray, changes, odd>>

Ports == 0 .. NumPorts - 1

NoPort == -1

\* Faults: the numbers go on past the last port; the last port is never tried.
WrapNever(n) == n

WrapEarly(n) == IF n = NumPorts - 1 THEN 0 ELSE n

\* if(port_number == 16) port_number = 0;
Wrap(n) == IF n = NumPorts THEN 0 ELSE n

Searching == {"search", "opened", "asked", "found"}
Reading == {"test", "turn", "receiving", "serial"}

Init ==
    /\ attached \in SUBSET Ports
    /\ taken = {}
    /\ Cport = {}
    /\ invited = {}
    /\ pc = [t \in Threads |-> IF t = First THEN "search" ELSE "unborn"]
    /\ at = [t \in Threads |-> 0]
    /\ local = [t \in Threads |-> NoPort]
    /\ port = NoPort
    /\ tray = "waiting"
    /\ changes = 0
    /\ odd = 0

(***************************************************************************)
(* The devices.                                                            *)
(***************************************************************************)
Attach(p) ==
    /\ changes < MaxChanges
    /\ p \notin attached
    /\ attached' = attached \union {p}
    /\ changes' = changes + 1
    /\ UNCHANGED <<taken, Cport, invited, pc, at, local, port, tray, odd>>

\* The handle stays open and every use of it fails.
Detach(p) ==
    /\ changes < MaxChanges
    /\ p \in attached
    /\ attached' = attached \ {p}
    /\ invited' = invited \ {p}
    /\ changes' = changes + 1
    /\ UNCHANGED <<taken, Cport, pc, at, local, port, tray, odd>>

(***************************************************************************)
(* rs232.c: the ports are opened without sharing, so a port the process has *)
(* open cannot be opened again, by whichever thread.                        *)
(***************************************************************************)
CanOpen(p) == p \in attached /\ p \notin taken

\* Bytes go through: the entry of the table is good and the device is there.
Live(p) == p \in Cport /\ p \in attached

\* RS232_CloseComport: an entry that is no handle of ours, or an index outside of
\* the table, closes nothing.
CloseComport(p) ==
    /\ taken' = IF p \in Cport THEN taken \ {p} ELSE taken
    /\ Cport' = Cport \ {p}

(***************************************************************************)
(* wait_for_device                                                         *)
(***************************************************************************)
Goes(t, where, n) ==
    /\ pc' = [pc EXCEPT ![t] = where]
    /\ at' = [at EXCEPT ![t] = n]

\* The entry of the table is overwritten when the port cannot be opened, too.
OpenFails(t) ==
    /\ pc[t] = "search"
    /\ \/ ~CanOpen(at[t]) /\ UNCHANGED odd
       \/ CanOpen(at[t]) /\ odd < MaxOdd /\ odd' = odd + 1
    /\ Cport' = Cport \ {at[t]}
    /\ Goes(t, "search", Wrap(at[t] + 1))
    /\ UNCHANGED <<deviceVars, taken, invited, local, port, tray>>

\* Opening a port raises DTR, which restarts the board.
Opens(t) ==
    /\ pc[t] = "search"
    /\ CanOpen(at[t])
    /\ taken' = taken \union {at[t]}
    /\ Cport' = Cport \union {at[t]}
    /\ invited' = invited \ {at[t]}
    /\ Goes(t, "opened", at[t])
    /\ UNCHANGED <<deviceVars, local, port, tray, odd>>

\* Both a whole write and a failed one go on to wait for an answer.
SendsInit(t) ==
    /\ pc[t] = "opened"
    /\ invited' = IF Live(at[t]) THEN invited \union ({at[t]} \intersect BoardPorts)
                  ELSE invited
    /\ Goes(t, "asked", at[t])
    /\ UNCHANGED <<deviceVars, taken, Cport, local, port, tray, odd>>

\* RS232_SendBuf returns 1: the same port is tried again.
SendsShort(t) ==
    /\ pc[t] = "opened"
    /\ Live(at[t]) /\ odd < MaxOdd
    /\ odd' = odd + 1
    /\ CloseComport(at[t])
    /\ Goes(t, "search", Wrap(at[t]))
    /\ UNCHANGED <<deviceVars, invited, local, port, tray>>

\* What RS232_PollComport may find 100 ms later: a board's answer may be late or
\* not whole, other devices may send anything else.
Replies(p) ==
    IF ~Live(p) THEN {"nothing"}
    ELSE {"nothing", "other"} \union (IF p \in invited THEN {"OK!"} ELSE {})

\* Fault: whatever arrives is taken for the answer.
AcceptsAny(reply) == reply # "nothing"

Accepts(reply) == reply = "OK!"

Discovers(t) ==
    /\ pc[t] = "asked"
    /\ \E reply \in Replies(at[t]) : Accepts(reply)
    /\ invited' = invited \ {at[t]}      \* it answers once, then waits for HEY!
    /\ Goes(t, "found", Wrap(at[t]))
    /\ UNCHANGED <<deviceVars, taken, Cport, local, port, tray, odd>>

\* port_number is incremented before RS232_CloseComport is called with it.
GivesUp(t) ==
    /\ pc[t] = "asked"
    /\ \E reply \in Replies(at[t]) : ~Accepts(reply)
    /\ CloseComport(at[t] + 1)
    /\ Goes(t, "search", Wrap(at[t] + 1))
    /\ UNCHANGED <<deviceVars, invited, local, port, tray, odd>>

(***************************************************************************)
(* start_rfid_reader: the loop looks at the global port again at every call. *)
(***************************************************************************)
At(t, here, where, called) ==
    /\ pc[t] = here
    /\ pc' = [pc EXCEPT ![t] = where]
    /\ local' = [local EXCEPT ![t] = called]
    /\ UNCHANGED <<deviceVars, taken, Cport, invited, at, tray, odd>>

\* port = wait_for_device()
Returns(t) == port' = at[t] /\ At(t, "found", "test", NoPort)

\* Fault: the loop is entered again without a look at the port.
GoesOnAnyway == TRUE

GoesOn == port # NoPort

Tests(t) ==
    /\ UNCHANGED port
    /\ At(t, "test", IF GoesOn THEN "turn" ELSE "ended", NoPort)

\* Keep-alive: compare_keep_alive returns no value for an answer that is neither
\* KA nor SS, nor for none at all, so anything can be taken for an announcement.
NothingToRead(t) == UNCHANGED port /\ At(t, "turn", "test", NoPort)

Announced(t) == UNCHANGED port /\ At(t, "turn", "receiving", port)

\* wait_message: the time is up or the message is not the one expected, or
\* wait_serial_number is called with the port as it is by then.
Refused(t) == UNCHANGED port /\ At(t, "receiving", "test", NoPort)

Received(t) ==
    /\ Live(local[t])
    /\ UNCHANGED port
    /\ At(t, "receiving", "serial", port)

\* wait_serial_number has no time limit.
GotSerial(t) ==
    /\ Live(local[t])
    /\ UNCHANGED port
    /\ At(t, "serial", "test", NoPort)

(***************************************************************************)
(* The tray command Reset.                                                 *)
(***************************************************************************)

\* close_rfid_reader sets port before it passes it to RS232_CloseComport.
Reset ==
    /\ tray = "waiting"
    /\ \E t \in Threads : pc[t] = "unborn"
    /\ tray' = "closing"
    /\ port' = NoPort
    /\ CloseComport(port')
    /\ UNCHANGED <<deviceVars, invited, pc, at, local, odd>>

\* ... and 100 ms later CreateThread.
StartsThread(t) ==
    /\ tray = "closing"
    /\ pc[t] = "unborn"
    /\ tray' = "waiting"
    /\ Goes(t, "search", 0)
    /\ UNCHANGED <<deviceVars, taken, Cport, invited, local, port, odd>>

-----------------------------------------------------------------------------

Search(t) ==
    OpenFails(t) \/ Opens(t) \/ SendsInit(t) \/ SendsShort(t)
        \/ Discovers(t) \/ GivesUp(t) \/ Returns(t)

Read(t) ==
    Tests(t) \/ NothingToRead(t) \/ Announced(t) \/ Refused(t)
        \/ Received(t) \/ GotSerial(t)

Next ==
    \/ \E p \in Ports : Attach(p) \/ Detach(p)
    \/ \E t \in Threads : Search(t) \/ Read(t) \/ StartsThread(t)
    \/ Reset

Spec == Init /\ [][Next]_searchVars

\* Every thread is scheduled, wait_message has a time limit, and a board that is
\* asked again and again answers in time once.
FairSpec ==
    /\ Spec
    /\ \A t \in Threads :
         /\ WF_searchVars(Search(t))
         /\ SF_searchVars(Discovers(t))
         /\ WF_searchVars(Read(t))
         /\ WF_searchVars(StartsThread(t))

(***************************************************************************)
(* Properties.                                                             *)
(***************************************************************************)

NoReset == \A t \in Threads \ {First} : pc[t] = "unborn"

\* Every variable has its type, and an entry of the table that is taken for a
\* handle is the handle of an open port.
SearchTypeOK ==
    /\ attached \subseteq Ports
    /\ taken \subseteq Ports
    /\ Cport \subseteq taken
    /\ invited \subseteq BoardPorts
    /\ pc \in [Threads -> {"unborn", "ended"} \union Searching \union Reading]
    /\ at \in [Threads -> Ports]
    /\ local \in [Threads -> Ports \union {NoPort}]
    /\ port \in Ports \union {NoPort}
    /\ tray \in {"waiting", "closing"}
    /\ changes \in 0 .. MaxChanges
    /\ odd \in 0 .. MaxOdd

\* As long as nobody has used Reset, the thread that reads has the open port of a
\* board: no port that the search left behind or closed by the wrong number is
\* ever taken for the device.
ReaderHoldsBoard ==
    NoReset /\ tray = "waiting" /\ pc[First] \in Reading =>
        port \in BoardPorts /\ port \in Cport

\* As long as a thread searches, every device whose port is not open is tried.
EveryPortTried ==
    \A p \in Ports :
        (CanOpen(p) /\ \E t \in Threads : pc[t] \in Searching)
            ~> (~CanOpen(p) \/ \A t \in Threads : pc[t] \notin Searching)

\* Reset ends the thread that reads, unless the port is set again before it
\* looks, or it has already gone on to wait for a serial number.
ResetEndsReading ==
    \A t \in Threads :
        (port = NoPort /\ pc[t] \in {"test", "turn", "receiving"})
            ~> (pc[t] \in {"ended", "serial"} \/ port # NoPort)

\* wait_for_device returns the port of the board that is connected.
BoardIsFound ==
    \A p \in BoardPorts :
        (p \in attached /\ pc[First] \in Searching)
            ~> (p \notin attached \/ pc[First] \notin Searching)

=============================================================================
