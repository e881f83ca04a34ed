# secure-rfid-login: models, checks and proofs

secure-rfid-login logs a teacher or parent in to the Argo school portal with a
MIFARE card.  An Arduino board reads the card and sends its four fields over a
serial line; a Windows tray application decrypts user name and password, looks
the card up in a MySQL table and offers the credentials to the login page, which
asks for them over a WebSocket on port 7681.  This directory holds TLA+ models of
that system, what TLC checks of them and what TLAPS proves about them.

Paths below are relative to `src/`; `srl/` stands for
`app/libwebsockets-master/srl/`.

## The system

| Component | State | Operations | Talks to |
|---|---|---|---|
| Serial thread (`srl/ArgoRFID_Reader.c`) | `port`, `buff`, `is_data_present`, `username`, `password`, `name`, `surname` (globals, no lock) | loop: keep-alive, receive, check card, publish, decrypt; getters; `close_rfid_reader` | serial protocol, database, decryption; read by the service thread |
| Serial protocol, host (`srl/ArduinoRFID.c`) | `response_buffer`, progress of a message | `wait_for_device`, `send_keep_alive`, `receive_keep_alive`, `wait_message`, `wait_serial_number`, `write_block` | board, over `rs232.c` |
| Reader firmware (`arduino/argoRFID_Reader`) | `connection_done`, `somthing_to_send`, four field buffers, uid of the last card | `loop`: handshake, answer `HEY!`, read a card; `send_data`, `empty_serial` | host, card |
| Credential protocol (`callback_dumb_increment` in `srl/secure-rfid-login.c`) | locals of the callback | filter by Origin, INIT, dialog, two writes | getters of the serial thread, user, page |
| Login page (`myaddon/data/my-script.js`) | socket, `n_message`, two input boxes | click, `onmessage` | credential protocol |
| Mirror protocol (same file) | ring of 32 messages, a tail per session, receive throttling | established, receive, writeable, destroy | all its sessions |
| HTTP file server (same file) | open file per connection | serve files | browser |
| Device discovery and ports (`wait_for_device`, `srl/rs232.c`) | table `Cport` of port handles, `port_number` of each search | open, send INIT, look for `OK!`, close, go on | board or other devices at up to 16 ports |
| Tray (`srl/tray.c`) | `g_bModalState`, thread handles | menu: about, reset, exit | starts and restarts the serial thread |
| Card database (`srl/DatabaseManager.c`) | table `allowcard`, connections of the server | `is_serial_present`, `insert_serial` | MySQL |
| Encryption (`srl/EncDec.c`, `aes.c`) | fixed key and IV | CFB8 both ways | - |
| Card writer, host and board (`app/srl-rfid-writer`, `arduino/argoRFID_Writer`) | field being filled, byte count, `block_ready` | four blocks to the board, board to card, registration of the serial number | database, card |
| Start-up registration (`srl/system-register.c`) | registry value | register once | - |

What is hard in it, and what makes each part correct:

* **Two threads and four global arrays.** The service thread reads flag, length
  and bytes of user name and password in separate reads while the serial thread
  withdraws, clears and refills them.  What a page is sent must be of an accepted
  card, must not pair an old password with a new user name, and must be covered
  by a yes of the user to that page.
* **A page that counts.** The page knows a password only by its being the second
  message; anything not sent puts it out of step.
* **A serial line without frames.** Answers are two characters, messages have an
  acknowledge byte per field, serial numbers have a varying length, error texts
  share the line, the buffer is never cleared, two functions end without a
  `return`, and the board can restart.  A message taken as valid must be one
  message of the board, of one card, and used once; the host must come back to
  its keep-alives; a card that is ready must be heard.
* **Ports and threads that outlive their use** (discovery, Reset).  The number is
  incremented before it is passed to `RS232_CloseComport`, `port` is overwritten
  before it is passed to it, failed attempts overwrite the handle of a port in use,
  and a Reset leaves the old thread to find out by itself.  Every free port must go
  on being tried, what is taken for the device must be a board at a port that is
  open, and the old thread must end.
* **A ring shared by sessions** (mirror).  Only the sender's own distance is tested;
  the wakeup is one-shot; input restarts at one exact distance; what flow control
  put aside waits in a second place.  A session must get the messages in order and
  none twice, must be woken as long as there is something for it, must not lose its
  place in its own input, and must be allowed to send again.
* **A writer that is checked by one byte per field** and registers a card before it
  is written.  What the board takes for whole must be whole, a sector must be
  authenticated before it is written, and a card in the table must hold what was
  entered or have had an error.

`PROJECT.json` lists each hazard with its line and the properties that cover it.

## Plan

1. `CardPublisher`, `CredentialRelease`, abstract `ConsentedRelease` - both threads
   and the pages.  *Done: checked and proved.*
2. `ReaderBoard`, `ReaderLink`, abstract `CardDelivery` - firmware, line and serial
   thread, character by character; `ReaderLink` composes `ReaderBoard` with
   `CardPublisher`.  *Done: checked; every invariant and the implementation of
   `CardPublisher` and of `CardDelivery` proved.*
3. `CardWriter` - host, line and board of the writer, steps on the card.  *Done:
   checked; every invariant proved.*
4. `DeviceSearch` - the search over the port handles, the loop that uses the port,
   and the tray's Reset.  *Done: checked; type invariant and `ReaderHoldsBoard`
   proved.*
5. `MirrorRing`, abstract `MirrorFeed` - ring, tails and throttling of the mirror
   protocol together with the library's receive flow control.  *Done: checked; every
   invariant, every action property and the implementation of `MirrorFeed` proved.*
6. `LoginSystem` - board, line, both threads and pages as one system.  *Done: it
   implements `ReaderLink` and `CredentialRelease`, and what a page is given is traced
   back to the card.*
7. Left: nothing that a run checks and that a proof could reach; what remains to the
   runs alone is liveness.

## Modules

**`CardPublisher`** is the serial thread from the recognised announcement to the
last byte of `decrypt_data`.  Every store the other thread can observe is an
action: `RecognizeAnnouncement` clears the flag, `ClearUsername` and
`ClearPassword` are the two `memset`s, `Publish` sets the flag, `Decrypt` has two
steps per array because `dec_cfb` writes byte after byte.  A text is the number of
the announcement it came with, the array it was written to and whether it is
complete.  `SerialAllowed`, `SerialUnknown` and `DatabaseError` are the results
1, 0 and -1 of `is_serial_present`; the first takes a connection for good.
`accepted` is a history variable.

**`CredentialRelease`** adds the service thread and the pages.  `get_credential` is
six steps: test, `strlen` and `strcpy` for each array.  `CutTo` says what is left
when the array changed between the last two, and `ReadOf` what a read finds that
runs while the array is cleared.  `Send` is `libwebsocket_write`, which sends
nothing for an empty text.  The dialog blocks the thread: no `Receive` or `Filter`
is enabled in it.  A page is one load with its socket; `consent` is a history
variable with the kinds of text the last yes still covers.

**`ConsentedRelease`** is what the user is promised, with threads, flag and database
left out: texts go only to portal pages, only after a yes to that page, at most a
user name and then a password for each yes, each of an approved card.
`CredentialRelease` implements it with `approved <- accepted`, `granted <- consent`
(`KeepsPromise`).

**`ReaderBoard`** is the firmware after the handshake.  `loop()` does one thing at a
time, so answering a `HEY!` with everything `send_data` writes is one action, and
reading a card another; the host may still find any beginning of what was
written.  A character is a byte, which is all the program sees, and carries where it
comes from (message, place, card), which the properties see.  Bytes are those the
host tells apart: the acknowledge bytes (the number of a field), the letters of `KA`
and `SS`, and all others (`OtherByte`).  `FieldBytes` and `Digits` say what is on a
card and what `print_serial` prints for it: a field is ciphertext and a digit one of
`0` to `F`, so both may equal an acknowledge byte.  `ReadCard` covers the four calls
of `read_blocks`, which copies block after block until a read fails: each may
come to the end or stop after one of `ReadOutcomes` bytes and, with
`ReadsReport = FALSE`, report anything.  `Reset` cuts off what was not written.

**`ReaderLink`** composes it with `CardPublisher`: each step of the serial thread is
its `CardPublisher` action together with what it does to line and buffer.
`PollAnnouncement` and `PollOther` are `receive_keep_alive`; `MismatchReturns` is
what its comparison may return for other answers.  `Acknowledged` is `check_message`: it
compares the byte behind each field with a number, whatever it was written as.
`TimedOut` says when the ten seconds are over: the board needs at most about four
for all it writes, so nothing is under way by then.  A comment in
`srl/ArgoRFID_Reader.c:39` says "Non funziona il timeout"; `rs232.c` opens its ports
with reads that do not wait, so the loop of `wait_message` looks at the clock again
and again and does come to an end, and the model follows the code.
`wait_serial_number` has no way out.  `is_serial_present` looks up whatever four
characters have come; `Owners` says whose number they may be found to be: that of
every card whose digits begin with them, and for characters that are no such
beginning one of `StrayNumbers`, because the writer registers other texts as well.
`taken` is a history variable: for each announcement, which messages the characters
of buffer and serial number are of (`TakenMessages`), and of which cards the fields
(`FieldCards`) and the number looked up.

**`CardDelivery`** is what the line is for, with characters, timeouts and keep-alives
left out: messages go on offer one at a time, each at most once and in the order of
sending; they may get lost, and an offer may be withdrawn.  `ReaderLink` implements
it (`DeliversInOrder`): a message is delivered when the flag is set after its
acceptance, and on offer as long as the flag is.

**`MCLink`** gives `ReaderLink` bytes of fields and digits of serial numbers.

**`LoginSystem`** puts `ReaderLink` and `CredentialRelease` together, which share what
`CardPublisher` describes and nothing else.  A step is one of board, line or serial
thread that leaves service thread and pages alone (`LineSide`), or one of those that
leaves board and line alone (`PageSide`).  It has no state and no action of its own;
what it adds are properties that go from one end to the other, which need `taken`
from the one part and `wire`, `form` and `copy` from the other.  **`MCSystem`** gives
it bytes and digits.

**`MirrorRing`** is `callback_lws_mirror` with the library around it.  One thread runs
both; `serving` says which socket it is at and how far it has got, because the clients
read and send meanwhile.  `PollOut` is `lws_handle_POLLOUT_event` up to the callback,
`WriteNext` one turn of the callback's loop (write, move the tail, perhaps allow all
sessions, ask again and stop when the pipe is choked), `AfterWriteable` what the
library does after it: the session's own change of flow control and the input put
aside.  Input is counted in bytes: `PollIn` reads up to any byte of a frame,
`HandleUnit` gives the parser what there is, at most to the end of a frame, which is
one call with `LWS_CALLBACK_RECEIVE` (`Receive`: test, store, perhaps stop the input,
ask for everybody); `partial` is how far into a frame the parser of a session is.
`KeepRest` is what `libwebsocket_interpret_incoming_packet` does with the rest once
input is stopped, `Drain...` the same from `rxflow_buffer`.  `flow` has the two bits of
`rxflow_change_to` and the POLLIN bit of the socket.  A message is the number it was
stored with; `last` and `owed` are history variables.  The sockets of the program are
blocking (`lws_set_socket_options` passes no length with FIONBIO), so a write is whole
and `truncated_send` never comes into play; TLS is on, hence `ReadPending`: a record
longer than the service buffer is read on with at once, again and again.  Only
`LongSenders` send such records (more than 4096 bytes).  What is read of them after
`rxflow_buffer` has been filled is dropped, and the parser, which does not know, takes
what follows for the rest of the frame it was in: such a session is `garbled`, its
parser may call back anywhere and may find a frame illegal (`Misparses`).

**`MirrorFeed`** is what a session may expect of it, with ring, indices and flow
control left out: a queue of its own for each session, holding one message less than
the ring has slots.  A message goes to all queues; nobody posts with a full one, and
one that is full when somebody else posts is emptied.  `MirrorRing` implements it
(`FeedsEach`): the queue is what lies from the session's position to the head
(`ToSend`).

**`DeviceSearch`** is `wait_for_device` for any number of serial threads, together
with where `start_rfid_reader` looks at the global `port` again: the test of the
loop, `wait_message` and `wait_serial_number` are called with what it is at that
time (`local`).  `taken` are the ports the process has open, `Cport` those whose
handle is still in the table: `CloseComport` closes the latter only, and an index
outside of the table closes nothing.  `Reset` is `close_rfid_reader`, `StartsThread`
the `CreateThread` 100 ms later.  A device may be there or not, be a board or
something else, answer late or with anything.

**`CardWriter`** is one run after the other of the writer's `main` with the firmware
`argoRFID_Writer`.  A byte is known by its place in the stream the host sends, so
that the field arrays say which byte is where; `Twins` are bytes of data with the
value of an acknowledge byte.  `SendChunk` is one `RS232_SendBuf` of `write_block`
after its half second, of which any part may be lost.  `ReadByte` is one turn of the
board's loop with `check_and_fill` (`Accepted`, `Refused`); `Steps` are the
authentications and writes of `write_blocks`, each of which may fail (`StepFails`:
`error_dump`, the rest of the field is given up).  `ReadFrom` comes from the
*reader's* `read_blocks`, so `PrintedIsWritten` compares the two programs' layouts.

**`MCWriter`** gives `CardWriter` three bytes of data equal to acknowledge bytes.

The operators marked *Fault* are plausible mistakes; each stands next to the
definition it would replace and shows that some property would notice.

## Runs

| Run | Module, configuration | Shows |
|---|---|---|
| `release` | `CredentialRelease`, `MCRelease.cfg` | type invariant; `PublishedIsWhole`, `NothingStaleOnOffer`, `OnlyAcceptedDecrypted`, `PasswordNotOlder`; `OnlyAnEmptyTextSlips`; `KeepsPromise` |
| `release_mixup` | `CredentialRelease`, `MCReleaseMixup.cfg` | finding: a password in the user name box |
| `link` | `MCLink`, `MCLink.cfg` | type invariant with the bounds of both buffers; `FilledIsOneMessage`; `AcceptedIsFresh`; `DeliversInOrder` |
| `link_progress` | `MCLink`, `MCLinkProgress.cfg` | `AcceptedIsOfOneCard`, `MessageIsDealtWith`, `ReadyIsHeard` when reads succeed |
| `link_odd` | `MCLink`, `MCLinkOdd.cfg` | finding: a card that is ready and never heard |
| `link_cards` | `MCLink`, `MCLinkCards.cfg` | finding: fields of one card accepted with the number of another |
| `link_stale` | `MCLink`, `MCLinkStale.cfg` | finding: a message cut off and found valid |
| `system` | `MCSystem`, `MCSystem.cfg` | `PagesShowAllowedCards` when reads succeed; `ClicksAreServed`, `YesFillsForm` under fairness |
| `mirror` | `MirrorRing`, `MCMirror.cfg` | type invariant; `RingHoldsNewest`, `NoLostWakeup`, `InputInOrder`; `SentInOrder`, `OverrunByOthers`, `FeedsEach`; `ThrottledResumes` under fairness |
| `search` | `DeviceSearch`, `MCSearch.cfg` | type invariant with the table of handles; `ReaderHoldsBoard`; `EveryPortTried`, `ResetEndsReading` under fairness |
| `search_late` | `DeviceSearch`, `MCSearchLate.cfg` | finding: a board that answered late once is never found |
| `writer` | `MCWriter`, `MCWriter.cfg` | type invariant; `ReadyIsWhole`, `KeyBeforeWrite`, `PrintedIsWritten`; `LosslessRunEnds` under fairness |

`PasswordNotOlder` is the strongest statement the code allows: user name and
password of *different* cards can be sent together, the password being the newer.
`OnlyAnEmptyTextSlips` says that the early `is_data_present = TRUE` is the only
cause of the mix-up in the page: no order of clicks, deliveries and sends is.
`AcceptedIsFresh` shows that the stale buffer, bad as it is for progress, never
leads to a card being accepted twice: the serial number has to arrive anew.
`DeliversInOrder` says the same of order: a message that was overtaken is lost, never
published late.

Both, and `FilledIsOneMessage`, hold on two conditions, which the constants of `link`
meet.  `AcksStandOut`: of the four acknowledge bytes two are found in no field of a
card, and a serial number has no more characters than a field (8 and 64).  The other
two may be anywhere, and digits may equal any of the four.  `NumbersStandOut`: the
table has numbers of cards, not other characters off the line.  Neither is checked by
the program, and neither can be left out: with fields that read like a message one
place on (`ShiftedBytes`) TLC finds `FilledIsOneMessage` violated by a shifted
message, and with a stray number in the table (`StrayNumbers`) it finds
`AcceptedIsFresh` violated.  Either takes the leftovers of a line that has got out of
step as well.

`MessageIsDealtWith` is the timeout at work: without it (`TimedOutNever`) a restart in
the middle of a message keeps the host waiting.  It leaves out what the code has no
way out of, a restart behind the message while the host waits for the serial number.

`AcceptedIsOfOneCard` is what the table of cards is for, and it hangs on the reads:
`link_cards` shows how a read that fails puts the credentials of a card the table does
not have behind the number of one that it has.

`PagesShowAllowedCards` is the purpose of the system in one formula: whatever is on
its way to a page, or in one of its boxes, came from the card that was looked up for
it and found in the table, and from no other.  `AcceptedIsOfOneCard` says it of the
moment of acceptance; between that and the page lie the flag, the arrays, the reads
without a lock and the socket.  `AnswersInBoardOrder` is `PasswordNotOlder` in terms of
what the board sent: password and user name are each of one message, the password of
the same or of a later one.  It takes two messages to say anything, which is
millions of states; so it is proved (`AnswersAlwaysInBoardOrder`) and not in a run.

`RingHoldsNewest` is what makes the missing test of the other tails harmless: a
session that is overrun is not shown stale or empty slots, it only misses messages
(`OverrunByOthers`: never through its own sending; `FeedsEach`: all that were
waiting for it at that moment).  `InputInOrder` says that no byte is lost or
overtaken on the way of a session whose records fit the buffer of the service,
wherever reads and stops of the input cut its frames; it claims nothing for
`LongSenders`, who do lose bytes (`parsers.c:1076`).  `ThrottledResumes` ends when
poll looks at the socket again, not with the mark that it may: the library's
changelog (75-82) says that `libwebsocket_rx_flow_allow_all_protocol` frees every
connection in one call, but in the code the mark takes effect after the next callback
of each connection itself, and the property needs that callback to come.  It is about
clients that rest (`ClientsRest`): while others send as fast as a session is sent to,
its distance to the head may stay above the one point at which input restarts.

`EveryPortTried` and `search_late` draw the line: a port that is not open is tried
again and again, but a port that was tried in vain stays open and so is never tried
again.  `ResetEndsReading` names the two ways in which Reset does not end the old
thread: it is already waiting for a serial number, or the new thread has set `port`
before it looked.

`ReadyIsWhole` holds although there is one acknowledge byte per field, no count and
no retry: a field cut short may be taken for whole by means of a byte of the next
one, but the loss is carried on to the last field, which has no bytes after it.
`PrintedIsWritten` is the most that can be said for registering a card before it is
written: a card in the table has all its data where the reader looks for them, is
being written, or has had a step fail; of that the board prints a text that nobody
reads.  A refused last field prints one too, and then the host registers its first
four characters: `NotACard` is in the type invariant for that reason.

### Bounds

* Two announcements are enough for a request to span the change from one card to
  the next, two connections for one refusal after two cards, one page of the portal
  and one of another site for the filter, two messages under way to a page for one
  request's answer and the next click.  `MaxAnnounced`, `MaxPending` and
  `MaxConnections` occur only in guards.
* The line is scaled: in `link` three fields of two bytes and serial numbers of which
  the host reads one character of two.  Two bytes are what an answer takes, so a field
  can be overwritten by one and a shift by one or two characters moves every
  acknowledge byte.  The first field and the third are full of bytes equal to the first
  acknowledge byte, the second of letters of `SS`, and a digit of the serial number
  equals the last acknowledge byte: as much as `AcksStandOut` allows.  Two messages and
  two announcements are enough for one message to be stale, overtaken or announced by
  what is left of another; a read that fails stops before the first byte.  `MaxHeys`
  and `MaxBacklog` bound what is on the line; a `HEY!` beyond them is one that
  `empty_serial` throws away.  In `link_progress` fields read like a message one place
  on (`ShiftedBytes`): the line is in step there and it makes no difference.
  `ReadsReport` is TRUE in the runs; the theorems hold for either value.
* The whole system is checked with two cards, of which the table has one, one message,
  fields of one byte, one page and one `INIT` or answer under way: enough for data of
  one card to wait while another is read, for a request between the flag and the last
  byte of `decrypt_data`, and for a click during the dialog.  Its parts are checked
  with larger bounds, and its theorems have none.
* The ring has four slots, so that it goes round; input stops at a distance of two
  and restarts at one, as at 30 and 17 of 32.  Two sessions are enough for one to
  overrun the other, a pipe of one message for a callback to be choked, two frames
  of two bytes for one to stop the input and for reads, stops and drops to come in
  the middle of the other.  `MaxStored` and `MaxInbox` bound what the clients send;
  `ThrottledResumes` names that as its condition (`ClientsRest`).
* Three ports have a first, a last and one between; with boards at two of them the
  search may leave one open and find the other.  One Reset and two threads: a third
  thread meets what the second meets.  Two devices come or go, one driver misbehaves
  once.
* Fields of four bytes in chunks of two: a field and its acknowledge byte take three
  chunks, as 80 bytes take five of 16, and a loss of one or two bytes may or may not
  leave the grid of chunks.  Two runs let the second find what the first left on the
  card and in the table.  One chunk of each behaviour suffers a loss; two were
  checked with the same result.
* `CHECK_DEADLOCK FALSE`: the bounded system stops when the announcements are used
  up, and the real one when `wait_serial_number` waits for a silent board.

### Fairness

Each thread runs (weak fairness of its steps).  `poll()` reports every readable socket
and the library goes through all of them, hence strong fairness of `Receive(p)`: it is
disabled whenever the thread is busy with another request.  The browser delivers
messages.  The user answers the dialog, which is modal; that is assumed of `AnswerYes`
or `AnswerNo` together and of no click.  The board deals with each `HEY!` (weak
fairness of `Announce`, `KeepAlive` and `EmptySerial` together: one of them takes it
off the line) and answers some of infinitely many (strong fairness): `empty_serial`
takes one only when it comes in the moment between two statements.  A board that has
restarted only ever throws them away.  In `LoginSystem` the fairness is that of
`CredentialRelease`: nothing is assumed of board and line, so that `ClicksAreServed`
and `YesFillsForm` hold however long they are silent.  Nothing is assumed of the cards,
of the database or of the board's restarts.

In `MirrorRing` the loop goes on (weak fairness of `Work`) and serves every socket
that `poll` reports (strong fairness of `PollOut` and `PollIn`, which the serving of
other sockets disables); a client that stays connected reads.  In `DeviceSearch`
each thread runs, `wait_message` has its time limit (it is part of `Read`), and a
board that is asked again and again answers in time once (strong fairness of
`Discovers`); devices, drivers and the user are free.  In `CardWriter` host and
board go on and some card is put on the board again and again.

## Proofs

The theorems hold for any cards, pages, sizes and bounds.

* `PublisherInvariant`: types, and what each array holds at each place of the
  thread (`ArraysByPlace`).  That is the strengthening `PublishedIsWhole` needs: it
  says nothing of the time before the flag is set.  `PublishedIsAlwaysWhole` and
  `OnlyAcceptedIsDecrypted` follow.
* `ReleaseImplementsPublisher`: the whole system implements the serial thread's
  specification, so the theorems above carry over (`ReleasePublishedIsWhole`,
  `ReleaseNothingStale`).
* `ReleaseInvariant`: `ServiceInv` (where the texts of the service thread come from
  and, while the password is being read, that the user name already copied is not
  newer than what is in the password array), `PortalInv` (only portal pages are
  ever served) and `ConsentInv` (a yes covers just the texts still to be sent).
  `PasswordIsNeverOlder` follows: the serial thread only ever empties the password
  array or fills it from the newest message.
* `ReleaseKeepsPromise`: each step is a step of `ConsentedRelease` or leaves it
  alone.
* `ReleaseTypeCorrect` and `SlipsOnlyOnEmptyText`: the type invariant of the whole,
  and, by the parity of texts taken plus texts under way, that only an empty text
  takes a page out of step.
* `LineInvariant` (in `ReaderLink_proofs`, for any field size, number of fields and
  serial number length): what `wait_message` has read so far followed by what is on
  the line (`Stream`) is orderly.  `Genuine`: acknowledge bytes sit only where the
  message layout puts them; `InOnePiece`: around each character of a message stand
  the others of that message; `Complete`: while the board is connected no message is
  cut off, so nothing it writes later can follow half a message.  Host and board
  touch the stream only at its ends, where four lemmas show that order survives
  (`FrontGone`, `EndLost`, `TextFollows` and `MessageFollows`).
  `LinkTypeCorrect` and `LinkImplementsPublisher` come with it.
* `AcceptInvariant` (in `LinkDelivery_proofs`) follows a message from the board until
  its serial number has been looked up.  `Flow` is what the thread holds of it, buffer
  and serial number, followed by what is on the line; `Tracked` says of it that
  numbered characters are of messages sent (`Sourced`), that before each stand those
  sent before it, as far back as `Flow` goes (`Led`), that messages follow each other
  in the order of sending and none comes twice (`InOrder`), that each has a byte it may
  have as what it was written as (`AllFit`), and, as long as reads succeed, that a
  message is of one card (`OneCard`).  It survives as `Orderly` does, at the two ends
  (`TextTracked`, `SendingTracked`) and in any `Stretch`.  What is in hand with a full
  buffer that was found good is one message (`FilledIsHeld`, `HandIsOneMessage`), under
  `AcksStandOut`: of the two bytes that no field has, each is where it was found an
  acknowledge byte or a digit of a serial number; they cannot both be digits, since
  digits less than a message apart are of one number (`Led`) and the two places are
  more than a field apart; and one acknowledge byte in its place fixes where the
  message begins, with which all the rest is in one piece.  `FilledIsAlwaysOneMessage`
  is that for every behaviour.  A message that was cut off and found valid all the same
  is followed by error texts at most, because no `HEY!` is out that the board could
  answer (`ShortIsIdle`), so that it never gets the serial number of a card.
  `NumbersStandOut` makes sure that characters which are not the beginning of a card's
  number are not found in the table.  Hence an announcement with the number of a card
  (`Settled`) is of one message that has left the line with all before it
  (`SettledArePast`), and such announcements follow each other as their messages do
  (`SettledInOrder`).  `AcceptedIsAlwaysFresh`, `AcceptedIsAlwaysOfOneCard` and, step
  by step, `LinkDeliversInOrder` follow, all three under `AcksStandOut` and
  `NumbersStandOut`, which the theorems state.  The second assumes `ReadsSucceed` as
  well (every `read_blocks` fills its array and is reported to), without which
  `link_cards` refutes it; restarts of the board are allowed.  It takes one invariant
  more, `NumberIsTaken`: behind every acceptance is a card of the table that was looked
  up for it.
* `SystemImplementsLink` and `SystemImplementsRelease` (in `LoginSystem_proofs`): each
  step of the whole is a step of either part or one it does not see, since the line
  does not touch what the pages have, and the pages write nothing the serial thread
  reads (`PagesApart`).  So every theorem about a part holds of the whole;
  `SystemDeliversInOrder` and `SystemKeepsPromise` are two of them, the first under the
  same two conditions as before.  Two more need both parts.
  `AnswersAlwaysInBoardOrder`: `ReleaseInvariant` says that the texts of the dialog are
  of accepted announcements, the password's not older, and `AcceptInvariant` that these
  stand for messages in the order of sending, under its two conditions.
  `PagesAlwaysShowAllowedCards`, for any cards, pages, sizes and restarts, under these
  and `ReadsSucceed`: it takes one invariant of the whole, `GivenIsAccepted` (a page
  has been given nothing but texts of accepted announcements: `GivenGrows` goes through
  socket and boxes), and `AcceptInvariant` and `NumberIsTaken` for where those came
  from.
* `SearchInvariant` (in `DeviceSearch_proofs`, for any number of ports, threads and
  starts, any devices): the types, and `FirstHolds`, that until Reset is used the
  first thread alone opens and closes ports, so that between finding a board and
  reading from it neither its handle nor the global `port` can change.
  `ReaderAlwaysHoldsBoard` and `SearchTypeCorrect` follow.
* `MirrorInvariant` (in `MirrorRing_proofs`, for any sessions and any ring longer than
  the slack): `RingInv` strengthens `RingHoldsNewest`: the ring goes back from the head
  in the order of storing all the way round, not only as far as some session is behind,
  and what a session was last written plus its distance from the head is no more than
  was stored, which is what keeps the order of sending when it was overrun.
  `HeadMoves` and `TailMoves` are the arithmetic of the two indices.  `FlowInv` (input
  put aside, or not allowed, means that poll does not look at the socket) and `OwedInv`
  (nothing between client and callback is counted twice or lost, for sessions outside
  of `LongSenders`) are `InputInOrder` at every place of the library, `ServedInv` says
  which places those are.  `NoLostWakeup` is inductive with them: the request is taken
  back only when the callback runs, which asks again before it stops with something
  left.  From the invariant also follow the action properties, `AlwaysSentInOrder`
  (positions only move forward or are those of a session that was overrun to the head)
  and `AlwaysOverrunByOthers` (the test of `LWS_CALLBACK_RECEIVE` keeps the sender from
  catching up with itself).
* `RingFeedsEach`: each step is a step of `MirrorFeed` or leaves it alone.  By
  `RingInv`, the slots after a session's position hold the newest messages one by
  one (`PlaceInRing`, `ToSendIsNewest`), and such a run behaves as a queue: one more
  stored is appended, the one sent is the front (`NewestIsQueue`).
* `WriterInvariant` (in `CardWriter_proofs`, for fields of any whole number of chunks,
  any data and any loss): `ReadInv` says that the field being read is either
  `InTurn` (all before it whole, none of its bytes before its turn, and enough places
  between what was read and what is `ToCome`) or that the board is `Fooled` (what is
  to come is ahead of it by a chunk at least).  Only a byte of a later field that
  equals the acknowledge byte leads from one to the other, since a place at or behind
  the acknowledge byte that is not it is data of a later field (`AckOrLater`); what
  was sent ends with a chunk (`ChunkEnds`, `SentBeyond`), so the board stays fooled
  to the last field, behind which there is no data that could pass.
  `ReadyIsAlwaysWhole` follows; after a refusal, the rest of one chunk is too short
  for another decision.  `CardInv` keeps, for a card on which no step has failed, what
  the steps before this one wrote (`Before`, `Holds`): no two steps write the same
  block (`BlocksDiffer`), every block the reader looks at is among them
  (`ReadIsWritten`), and sectors follow each other (`NextInSector`,
  `NextFieldInSector`), hence `KeyAlwaysBeforeWrite` and `PrintedIsAlwaysWritten`.

The assumptions are the `ASSUME`s on the constants; TLC evaluates them in every run.
Every invariant, action property and implementation that a passing run checks is
proved.  Only model-checked are the liveness properties (fairness is out of the
prover's reach): `ClicksAreServed`, `YesFillsForm`, `MessageIsDealtWith`,
`ReadyIsHeard`, `ThrottledResumes`, `EveryPortTried`, `ResetEndsReading` and
`LosslessRunEnds`.

## Not modelled

* The contents of texts: lengths, terminators and `strcpy_s` at 64 bytes, the
  encryption.  No order of steps matters to them; a model would restate the code.
* Exit in the tray menu ends the process with both threads in it.  About, the icon
  and the balloon keep no state that anything else looks at.
* `close_testing` and `LWS_CALLBACK_PROTOCOL_DESTROY` of the mirror protocol: a
  command line option of the library's example and the end of the program.
* The formatting of serial numbers: the host reads four of the characters that the
  board prints, which stand for the first two to four bytes of the card's number;
  which cards share them is a matter of the cards.
* The HTTP file server, start-up registration, the add-on's `main.js`, installers:
  no state worth a model.
* The rest of the 40000 lines is vendored: libwebsockets beyond the paths above
  (handshake and frame parser, extensions, client, daemon), zlib, three copies of
  `aes.c`, test programs of the library.  Next to nothing of it is particular to this
  program, most of it is never reached by it, and a model of it would be one of
  another project.
* MySQL, the MFRC522 library, the serial drivers and the browser are modelled
  by what the code observes of them.
