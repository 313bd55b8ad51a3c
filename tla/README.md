# TLA+ specifications for ipmi-rs

`ipmi-rs` is an IPMI client library. Most of its source encodes and decodes
single commands; its difficulty lies in the places that keep state over several
messages with a peer that may answer late, twice, out of order, only in part or
not at all. Most of these specifications are about those places; the last group
is about the encodings themselves.

## 1. The system

Paths are relative to `src/`; `rmcp/` stands for `ipmi-rs/src/rmcp/`.

| Component | Source | State | Operations | What is hard |
|---|---|---|---|---|
| IPMB request correlation | `rmcp/internal.rs` | sequence ring, retired numbers, one pending request (acknowledgements, poll, deferred reply), reservation | begin, poll, receive, retire, reserve, release | replies of earlier requests, replies nested in acknowledgements and in queue polls, any order |
| RMCP+ transport (2.0) | `rmcp/v2_0/mod.rs`, `rmcp/socket.rs` | outbound and inbound session sequence, deadline, pending SOL packet, the IPMB state | send, recv, send_sol_frame, poll_sol | duplicated and reordered datagrams, bounds on unrelated traffic, deadlines, what an error says of the request |
| RMCP transport (1.5) | `rmcp/v1_5/mod.rs` | the same, with an activation phase | activate, send, recv | as above |
| Activation | `rmcp/mod.rs`, `rmcp/internal.rs`, `rmcp/cipher_policy.rs` | unbound, inactive or active session; RAKP state | activate, close, drop | downgrade, wrong console identifier, half-open sessions, replacement of an active session |
| SOL flow control | `rmcp/v2_0/sol.rs` | last packet from each side, partial acceptance, output queue | accept, next_sequence, take_output | retransmission after partial acceptance, reordering |
| SOL console session | `rmcp/sol.rs` | active flag, `remote_close_unconfirmed` | activate, open, read, send_input, send_control, close, reconnect, drop | unknown outcome of input, session loss, deactivation on every exit |
| Tyan SOL console | `rmcp/tyan_tsol.rs` | its own UDP socket, active flag, the pending datagram | open, read, send_input, close, drop | clean-up after a start in doubt, output that arrived before the end |
| Typed requests | `ipmi-rs/src/lib.rs`, `error.rs` | none beyond the connection | send_recv, iterators | outcome of a mutation whose answer is lost |
| SDR iteration | `ipmi-rs/src/lib.rs` | reservation, next id, read limit | next | repository changes during a read, lost reservations |
| SEL iteration | `ipmi-rs/src/sel.rs` | reservation, next id, `seen`, `scanned`, read and restart budgets | next, clear | log erased or appended during the walk |
| SEL poller | `ipmi-rs/src/events.rs` | records and info of the last complete scan | new, poll_once, wait_next | changes between the reads of one scan and between two scans |
| FRU inventory | `ipmi-rs/src/fru.rs` | offset, chunk size | read | short reads |
| FWUM update | `ipmi-rs/src/fwum/update.rs` | phase, bytes confirmed, buffers changed | prepare, upload, activate, verify, rollback | unknown outcome of a destructive step, banks that change meanwhile, buffers to reset |
| HPM.1 update | `ipmi-rs/src/hpm/update.rs` | phase, action, bytes confirmed, uncertain operation | upload, activate, rollback | long-running commands, block number wrap, sections of the target's choice |
| Kontron workflow | `ipmi-rs/src/kontron_workflow.rs` | step, saved values, reserved IPMB numbers | change, verify, restore; boot; buffers | failure between two steps, numbers that run out |
| Set In Progress transactions | `ipmi-rs-core/src/transport/`, `ipmi-rs-core/src/sensor_event/pef.rs`, `ipmi-rs-core/src/app/system_info.rs` | the advisory lock of the BMC | begin, write, commit, complete | failure between two writes, a lock that is another's |
| OEM workflows (Dell, Sun, Intel ME) | `ipmi-rs/src/oem/` | none beyond the call | checked settings, values in blocks and pages, ME update | state read before it is written, partial writes |
| Linux file transport | `ipmi-rs/src/file.rs` | message id, event queue, subscription | send, recv, subscribe, drop | a late answer to a timed-out request, events between answers |
| Serial transport | `ipmi-rs/src/serial.rs` | six-bit sequence number, uncertain flag | send, recv | late answers, a number that comes round |
| AMI USB transport | `ipmi-rs/src/ami_usb.rs` | uncertain flag | send, recv | a mailbox that holds the last answer |
| Command encodings | `ipmi-rs-core/src/` | none | encode, decode | short and garbled answers, fields that overlap, values split over messages |
| Wire wrappers and cryptography | `rmcp/v2_0/crypto/`, `rmcp/v2_0/messages/` | none | encode, decode | nothing a state machine shows |

### How they interact

The program is a library without threads of its own. A caller owns an `Ipmi`
handle, which owns one connection; a call on the handle borrows both until it
returns, so operations of one client never interleave with each other. What
interleaves with them is the outside: the network and the BMC, the passing of
time, a `CancellationToken` set by another thread, and other consoles that use
the same BMC.

* An RMCP session (`v1_5::State`, `v2_0::State`) owns an `IpmbState`. `send()`
  calls `begin()`, `recv()` alternates between `next_poll()` and reading a
  datagram for `receive()`, and ends with `retire_pending()` or a response.
* In an RMCP+ session with an open console, `receive_one()` hands SOL frames to
  `SolFlow::accept()` and writes the acknowledgement before it goes on. Console
  output may so arrive during any call, not only during `SolSession::read()`.
* `SolSession` borrows the `Rmcp` connection, sends Activate and Deactivate
  Payload through it, reads with `poll_sol()`, and on reconnection replaces the
  session underneath itself.
* A Tyan console borrows an IPMI 1.5 session for its commands and has a UDP
  listener of its own for the output.
* The iterators (SDR, SEL), the SEL poller, the updates and the workflows send
  one typed request after the other through any connection. The Kontron workflow
  reserves the sequence numbers it needs in the session's `IpmbState` first.

### What makes each component correct

| Component | Correct when |
|---|---|
| IPMB correlation | a reply is only taken for the request it answers; no sequence number is issued twice; a bridged reply is reported after all acknowledgements; reserved numbers stay available |
| RMCP+ transport | no inbound number is acted upon twice, no outbound number is used twice; an error that says "not sent" is right; calls read a bounded number of datagrams, end, and leave nothing pending |
| Activation | the session in use is authenticated with the parameters asked for; no unauthenticated answer selects a weaker one |
| SOL output | the reader gets the console's characters once, in order, without gaps; what was acknowledged is not lost; the stream does not stop |
| SOL input | the BMC gets the caller's characters once and in order; what is reported as confirmed or certain is right |
| SOL session | reports about the remote payload are right; no payload stays active without a report; acknowledged output is returned |
| SEL walk and poller | a walk is complete or ends with an error; no event is missed in silence or reported twice; scans end |
| SDR walk, paged values | a record or value returned was read as a whole from one version; a walk that ends without an error left nothing out that was there all the time; reads end |
| Updates, workflows, settings | every write is sent at most once, and none after one whose outcome is unknown, but cleanup; a reported success is one; what is left changed is reported; nothing of another console's is lost |
| File, serial and USB transport | an answer is only taken for its own request; late answers do not disturb later ones; no event is lost |
| Tyan console | output that arrived is returned; what is reported of a keystroke and of the stream is right |
| Encodings | what is written is read back; a parser reads nothing that is not there |

## 2. Modules

| Module | Models | Uses |
|---|---|---|
| `IpmbState` | `IpmbState` of `rmcp/internal.rs` | |
| `IpmbContract` | what a transport needs of it: the abstract specification | |
| `RmcpSession` | `State` of `rmcp/v2_0/mod.rs` and the socket | extends `IpmbContract` |
| `ConsoleStream` | what SOL promises a reader: the abstract specification | |
| `SolFlow` | console output: `SolFlow` of `rmcp/v2_0/sol.rs` and the SOL branch of `receive_one()` | instantiates `ConsoleStream` |
| `SolInput` | console input: `send_input()`, `send_control()`, `transmit()` of `rmcp/sol.rs` | |
| `SolSession` | life of the console: the rest of `rmcp/sol.rs` | |
| `TyanSol` | the Tyan console of `rmcp/tyan_tsol.rs` | |
| `Consoles` | the four consoles side by side | extends `SolFlow`, instantiates the others |
| `SelWalk`, `SelPoll` | `SelIter` of `ipmi-rs/src/sel.rs`, `SelPoller` of `events.rs` | `SelPoll` extends `SelWalk` |
| `SdrWalk` | `FallibleSdrIter` of `ipmi-rs/src/lib.rs` | |
| `PagedReads` | values read in pages: FRU, SPD, DCMI, Dell, Sun | |
| `Reading` | these readers side by side | extends `SelPoll`, instantiates the others |
| `OneShot` | what every mutating workflow promises: the abstract specification | |
| `FwumUpdate`, `HpmUpdate`, `KontronWorkflow`, `ImeUpdate` | `fwum/update.rs`, `hpm/update.rs`, `kontron_workflow.rs`, `oem/ime.rs` | |
| `GuardedWrite`, `BlockWrites`, `OemSettings` | Set In Progress transactions; values written in blocks; checked settings of Dell and Sun | |
| `DirectLink` | `file.rs`, `serial.rs`, `ami_usb.rs` | |
| `RmcpV15`, `RmcpActivate` | an IPMI 1.5 session; the activation of a connection | |
| `WireLayout` | what a layout of fields is: `ValueOf`, `Encode`, `Reply` | |
| `AppCodecs`, `ChassisDcmiCodecs`, `SdrCodecs`, `SensorCodecs`, `StorageCodecs`, `TransportCodecs` | requests and responses of `ipmi-rs-core/src/` | extend `WireLayout` |
| `Commands` | a typed command: written, answered, read | instantiates the codecs |
| `Workflows` | the workflows and the links side by side: their state and their promise | instantiates them and `OneShot` |
| `Updates` | whichever of them runs, or a command | extends `Workflows`, instantiates `Commands` |
| `MCIpmbState`, `MCConsoles`, `MCUpdates` | the constants of the small instances | extend the module |
| `IpmbState_proofs`, `RmcpSession_proofs`, `SolFlow_proofs` | theorems and their proofs | extend the module and TLAPS |
| `Workflows_proofs`, `Consoles_proofs`, `Updates_proofs`, `Reading_proofs` | theorems about the compositions and the parts that have no proofs of their own | extend the module and TLAPS; `Consoles_proofs` extends `SolFlow_proofs` |
| `Transfers_proofs` | what each workflow sends, and what that leaves in the target | extends `Workflows_proofs`; `Updates_proofs` extends it |

Three refinements hold the parts together. `IpmbState` implements `IpmbContract`
(property `ImplementsContract`), and `RmcpSession` is built from the actions of
`IpmbContract`, so that the transport is checked against everything the
correlation can do without repeating it. `SolFlow` implements `ConsoleStream`
(`ImplementsStream`). The seven workflows implement `OneShot` (`ImplementsOneShot`):
each maps its own plan of writes and its own notion of being halted to that
module's.

`Consoles`, `Reading` and `Updates` hold programs that do not run at the same
time: an operation borrows its connection until it returns. The variable
`program` says which one a behaviour is about; the variables of the others
keep the value 0. They are composed to be checked together, and so that workflows
share one transfer and one promise.

Definitions keep the names of the source: `Begin`, `Issue`, `receive_nested`,
`retired_sequences`, `last_inbound_sequence`, `previous_accepted`. A definition
named `X_Something` is a variant of `X` with one plausible mistake. It is used by
no specification; put in the place of `X`, it breaks the property that watches
over `X`.

### IpmbState

State: the ring position (`ipmb_sequence`), the numbers retired in this session,
`reserved_sequences` and `pending`, fields as in the source. `Begin` is the whole
of `begin()` with its refusals in the order of the code (`Refusal`), `Route` and
`ValidRoute` its routing, `PollMessage` and `PollExhausted` `next_poll()`,
`RetirePending`, `ReserveSequences` and `ReleaseSequences` the functions of these
names. `receive_nested` walks a datagram as the code does: it opens one layer
after the other, each of which may be the reply to a queue poll, an
acknowledgement or the final reply (`OpenPoll`, `OpenAck`, `OpenFinal`).

The managed side is the set `Datagrams`: every nesting, up to `MaxLayers`, of
replies with any completion code to anything issued in the session, of foreign,
corrupt and short messages. A datagram is never used up, so that loss, delay,
copies and reordering are all included. Histories: `issued`, `heard` (the
acknowledgements taken), `op`.

### RmcpSession

One call takes many steps. `pc` says where the call stands, `call` holds its local
variables. `SendBegin` and `SendPayload` are `send()`; `Recv`, `Poll`, `NoPoll`,
`PollRefused`, `GiveUp`, `ProbeTimeout` and the `Read...` actions are the loop of
`recv()` and `receive_one()`, one action for each way a datagram is disposed of;
`PollSol` enters the same loop without a request; `SendAck` writes the
acknowledgement of a SOL frame. A write has one of the fates of `Fates`: sent,
failed, or failed although it left the host. `Finish` is what every return does:
`commit_session_sequences()` and `retire_pending()`.

The environment lets the deadline pass, lets the next probe come due and cancels
at any step. The network delivers any number in any order. Encryption and
integrity are abstracted to "readable or not", the contents of SOL frames to
"accepted", "refused" and "accepted, but the stream ends". A session with an open
console does no queue polls, as in the code.

### RmcpV15 and RmcpActivate

`RmcpV15` is the IPMI 1.5 session through its three exchanges (`stage`): Get
Session Challenge, Activate Session, and the requests of the session. `air` keeps
every datagram ever sent to the console, so that old ones come back at any time;
before activation the code compares no session numbers (`v1_5/mod.rs:402`), which
is why `TrafficOnce` has to hold across the change. What the IPMB correlation
makes of a datagram is left open here.

`RmcpActivate` is `Rmcp::activate()` from the ping to the installed session, for
an IPMI 2.0 BMC step by step (`Discover`, `OpenSession`, `Rakp2`, `Rakp4`), with
the 1.5 exchange as one step (`V15`). The peer (`Peers`) supports a version and
suites and has the password or not; every reply may be lost, belong to something
else, or say what was not asked for. `Version` decides which version is used,
`Install` is the only place that makes a session. An attempt on a connection with
a session drops that session first, as the code does.

### SolFlow and ConsoleStream

A character is its position in what the console printed; `CharAt` gives its byte,
which is all the code can compare. `ReceiveAccepted` and `ReceiveRefused` are
`accept()` with the decision of `receive_one()`; `Repeated`, `Conflicts`, `Skips`,
`Already`, `Accepted` and `Acknowledge` are its cases. `ReadOutput` is
`read()`/`take_output()`.

The BMC (external) sends one packet at a time and repeats it until it is accepted.
After a partial acceptance it either repeats the packet, which may have grown,
under the same number or sends the rest under the next one (`resend`). The
second kind waits for the acknowledgements that are under way and sends the whole
rest; `accept()` requires it (`starts_with`). It may drop output once its packet
has left the network, and says so with the overrun flag. The channel is a lossy
FIFO, because the session layer removes copies and old numbers. The limit on the
frame length (lines 208-210) is left out: frames are within it.

### SolInput

`SendInput`, `NextPacket`, `SendPacket`, `Acked`, `AckedTooMany`, `Retry` and
`SendControl`, `ControlAcked` are the two nested loops of `send_input()` and
`transmit()` and the one of `send_control()`. `uncertain` is
`input_delivery_uncertain` of the error.

UDP keeps no order. The packets on the way are a set, `copies`: any of them may be
lost or arrive next, an old copy after newer packets too. The BMC's datagrams bear
session sequence numbers, and `receive_one()` refuses what is not above
`last_inbound_sequence`; so `acks` holds the answers in the order they were sent,
each may be lost, any may be read next, and those before it are then gone (`Later`). An
acknowledgement may thus come as late as it likes as long as no newer one was read, and one
for an earlier packet may meet a later packet that waits. One under the very number that waits,
which has come round, has been overtaken by newer ones and is refused; `Later_AnyOrder`, in
which the session accepts it, is a mutant that breaks `ReportExact`. (Within one `recv()` the order is not that strict, see
`rmcp_reorder`; `poll_sol()`, through which input reads, commits each number before the
next datagram.)

The BMC knows a copy by the number of its last packet, and answers it as it
answered the first (`BmcRepeat`); for a control, `unavailable` stands for a refusal too.
A copy that newer packets have overtaken has another number and is taken for new
(`BmcAcceptOld`, `overtaken`). Nothing in this code can prevent that once it has sent a
packet again, since SOL has no other identity for a packet; `InputOnce` states it as the
limit: without an overtaking everything is accepted once and in order, and an overtaking
takes a packet that was sent more than once (`repeated`). What is on the way after one is
not followed further.

### SolSession

`op` is the running operation and `pc` what it waits for. Activate and Deactivate
Payload may be executed, refused or not executed, and answered or not. A request
that was not executed when its call ended never is; deactivation frees the
payload whoever owns it. Output arrives during any wait and is acknowledged.
`doubtful` and `told` are histories of the payload: its last deactivation was not
confirmed, and the caller was told. Drop discards the output that is queued.

Two behaviours follow from the code and contradict no document of it. When the
answer "already active" of an activation is lost, the clean-up deactivates the
payload of another console. And an activation that is repeated in the same
session after an uncertain one is refused as already active, though the payload
is the caller's own.

### TyanSol

`Preflight` is the chain of probes as one step, with the privilege that is forgotten
before it is asked for; `Start`, `Stop` and `Keystroke` are commands with one of
five fates (`Fates`): answered, refused, not sent, and executed or not without an
answer. `EndSession` is `interrupt()`, whose single Stop is a step of its own, so
that the stream may end, or a cancellation come, in between. A read passes
through `check` (pending output goes first), `keepalive` and `receive`, the
order of the loop of `read_until()`. Each console has a listener of its own
(port 0); `streaming` is about that one. The keystroke's sequence number, which
nothing here depends on, and the checks of argument lengths are left out.

### SelWalk and SelPoll

One action is one command of the iterator with the handling of its answer: `FirstInfo`,
`Reserve`, `ReadEntry`, `ReadAbsent`, `ReadCancelled`, `InfoAfterAbsent`, and
`CheckNext` for the checks of `next()` between two commands. Between any two of
them the BMC may log an event, another console delete a record or clear the log.
The BMC (external) numbers records one after the other and again from 1 after a
clear, the case in which numbers come round soonest; deleting and clearing
cancel the reservation and reset the overflow flag; a read of a whole record is
answered with a stale reservation or refused. Its timestamps tell any two changes
apart. Besides, there is a BMC that answers anything (`faulty`), and one without
Reserve SEL (`has_reservation`).

`SelPoll` adds the poller. `EndScan` is the Get SEL Info after the walk and what
`new()` (`Baseline`) or `poll_once()` (`PollOnce`) make of the scan. The field
`wrapped`, reported and used for nothing, is left out; `wait_next()` is repeated
polls; a failed command, the deadline and a cancellation are one action
(`CommandFails`). The history `owed` holds the events that were logged after the
baseline and neither reported nor excused. Excused are, by a batch with
`continuity_lost`, events that are gone or repeat number and content of a scanned
record; and in any case an event that repeats number and content of a record that
was erased while the last scan read it. The second case is the limit the source
names ("Identical reused IDs cannot be disambiguated"): Get SEL Info is read only
after the traversal, so a clear and refill to the same count in between leaves
erased records in the baseline under timestamps taken after the clear, and no
later comparison shows it.

### SdrWalk and PagedReads

`SdrWalk` reads a record in pieces, its header first (`Read`), halves the piece that
a BMC refuses (`Halved`), renews a cancelled reservation and starts the record again
(`Renew`). Other consoles rewrite, remove and add records between any two commands
and cancel the reservation by it. A record's bytes are numbered by the version
they belong to, so that a record put together from two versions shows
(`RecordsWhole`). Offsets have one byte: `OffsetOutOfRange` ends the walk
before a read past `MaxOffset` is sent, and every command of a read needs `Asks`. A
record of 5 and up to 255 bytes goes on past offset 255 when its body has more than
251 bytes. In pieces of 32 bytes the last one still begins below it; a
BMC that returns a few bytes at a time must be asked beyond it, and the record,
with the rest of the walk, cannot be read.

`PagedReads` has one loop for nine readers, which differ in what an answer says
of the length (`Totals`), in what is accepted (`Acceptable`) and in when the value is
complete (`Complete`). The target answers anything (`Junk`), or truly while another
console changes the value or selects another page. Only some readers can tell a
change; `ValueWhole` says which.

### OneShot and the workflows

`executed` is what the target carried out, `confirmed` how many writes of the plan
were acknowledged. A write is acknowledged, refused, executed without an answer, or
not executed without one (`Outcomes` of each module). `OneShot` allows one
write in doubt, the last, and an undo.

* `FwumUpdate`: one action per command of `fwum_prepare_update()`, `upload`,
  `activate`, `verify_activation`, `verify_rollback` and `rollback`. `Arm` records a
  buffer before its size is changed (`armed_buffers`), `ClearBuffer` resets it;
  what could not be reset is in `cleanup`. The BMC boots at any time (`Boot`) and
  another console may write the other bank once (`Meddle`).
* `HpmUpdate`: `Select`, `Initiate`, `UploadBlock`, `Finish` for each action of the
  package; `uncertain` is recorded before a command is sent; the target may ask
  for any section (`NextSections`). Polls of a long-running command end like the
  command. Packages are the ones that `new()` accepts.
* `KontronWorkflow`: the image is read, backed up, changed chunk by chunk and read back;
  a failure restores nothing by itself, a restoration is a workflow of its own;
  buffers are set in order and restored in reverse. `available` and `reserved` are
  the IPMB numbers, `StillNeeded` what the next step requires of them.
* `GuardedWrite`: the four helpers differ in what they do after a failed Begin
  (`CleansUp`): SOL sends Set Complete after any, PEF and LAN not after one that was refused,
  System Info never. `LockRespected` leaves SOL out for that reason. `lock` is the BMC's, which another console takes and gives back.
* `BlockWrites`: five writers, `Chunk` giving the block k of a value; `applied` is the
  value that is in force.
* `ImeUpdate`: each mutation is believed only when the status read next says so
  (`AsExpected`).
* `OemSettings`: generation check, read, one write; the other console changes a
  setting, or the controller is replaced, between any two.

### DirectLink

One module for three connections, which differ in how an answer is recognised
(`FileMatches`, `SerialMatches`, none for the virtual CD), in what is refused
after an uncertain request, and in the event receiver of the file. `queue` is
what has arrived; late answers of earlier requests, foreign frames and events are
in it in any order. Framing and checksums are abstracted to whole frames.

The file compares the number of a message and whether it is a response, not its
`recv_type`. An event that an event receiver left queued (`listened`) has a number of
the driver's choice, so the model gives it any, that of a request included: `Deliver`
then takes it for the answer, otherwise `Mismatch` consumes it. `README.md:150-153`
warns of it; `AnswersCurrent` states what is left: the file takes an event only if a
receiver was open on this opening, and never a late answer of its own.

### Layouts and Commands

A codec module gives for each command a `...Written` layout (fixed bits and fields
of the request, `Request`) and a `...Reply` (what is accepted, and which bits are
which field, `Reply`). Enumerations are the set of their numbers, so that names do
not appear. `Commands` writes a setting (`Write`), lets the target store the bytes,
reads them back (`ReadBack`) and compares values by field; for queries
(`Query`) it disturbs an answer (`Disturbed`) and looks at what is read. Values of
several messages (System Info strings, DUIDs, DHCP timing, cipher suite lists)
are split and assembled by the operators of the codecs.

## 3. Runs

| Run | Module, cfg | States | Shows |
|---|---|---|---|
| `ipmb_session` | `MCIpmbState`, `IpmbState.cfg` | 30 thousand | correlation, sequence use, order of acknowledgements, reservations, polling; implements `IpmbContract` |
| `rmcp_session` | `RmcpSession`, `RmcpSession.cfg` | 745 thousand | replay protection, outbound numbers, definite failures, limits, calls end |
| `consoles` | `MCConsoles`, `Consoles.cfg` | 806 thousand | output reaches the caller or is kept, in order (implements `ConsoleStream`), and is read in the end; input is accepted once; reports of input, output and the remote payload are right |
| `reading` | `Reading`, `Reading.cfg` | 1.9 million | walks of SEL and SDR and paged values are complete and whole, or refused, and for a reason; no event is missed or doubled; reads end |
| `updates` | `MCUpdates`, `Updates.cfg` | 485 thousand | the workflows implement `OneShot`, report truly what they did and left, keep the work of others; links and 1.5 sessions give no answer of another request; activation gives the session asked for or none; settings are read back as written and no parser reads too far |
| `ipmb_deferred` | `MCIpmbState`, `IpmbDeferred.cfg` | violation | `DeferredWaitsForAck` (section 6) |
| `rmcp_reorder` | `RmcpSession`, `RmcpReorder.cfg` | violation | `ReorderedRejected` (section 6) |
| `sol_session_gap` | `SolSession`, `SolSessionGap.cfg` | violation | `GapTruthful` (section 6) |
| `fwum_straddle` | `FwumUpdate`, `FwumStraddle.cfg` | violation | `PendingRetried` (section 6) |
| `sdr_gap` | `SdrWalk`, `SdrGap.cfg` | violation | `EndMeansAll` (section 6) |
| `link_reopen` | `DirectLink`, `LinkReopen.cfg` | violation | `ReopenedIsFresh` (section 6) |
| `file_event` | `DirectLink`, `FileEvents.cfg` | violation | `OnlyResponsesRead` (section 6) |

Each property is stated in words above its definition. Those of the three
compositions are conjunctions of one per program, which is named with its module
below; `ConsolesTypeOK`, `ReadingTypeOK` and `TypeOK` are the type invariants.

| Property | Of | Made of |
|---|---|---|
| `OutputKept` | `Consoles` | `SolFlow!AcknowledgedKept`, `SolSession!OutputAccounted`, `TyanSol!OutputAccounted` |
| `HonestNotRefused`, `ImplementsStream`, `PrintedIsRead` | `Consoles` | `SolFlow` (`AllDelivered`) and `ConsoleStream` |
| `InputInOrder`, `InputCallsEnd` | `Consoles` | `SolInput!InputOnce`, `InputEnds` |
| `ReportExact` | `Consoles` | `SolInput!ConfirmedArrived`, `CertainIsExact`, `TyanSol!KeysExact` |
| `CloseTruthful`, `OrphansTold` | `Consoles` | `SolSession!ClosedIsClosed`, `TyanSol!StoppedIsStopped`; `SolSession!OrphansReported` |
| `WalkComplete`, `NothingMissed`, `ReportedOnce` | `Reading` | `SelWalk`, `SelPoll` |
| `QuietReadsSucceed` | `Reading` | `SelWalk!QuietWalkSucceeds`, `SdrWalk!QuietWalkComplete`, `PagedReads!QuietReadSucceeds` |
| `ValuesIntact`, `ReadsEnd` | `Reading` | `SdrWalk!RecordsWhole`, `NoneTwice`, `PagedReads!ValueWhole`; all three walks |
| `ImplementsOneShot`, `ReportsTruthful`, `LeftoversReported` | `Updates` | the workflows |
| `OthersWorkKept` | `Updates` | `FwumUpdate`, `GuardedWrite!LockRespected`, `OemSettings!OthersPreserved` |
| `BudgetSuffices` | `Updates` | `KontronWorkflow!ReservationEnough` |
| `AnswersCurrent` | `Updates` | `DirectLink!AnswersCurrent`, `RmcpV15!TrafficOnce` |
| `SessionAsRequired` | `Updates` | `RmcpActivate` |
| `RepliesInBounds`, `SettingsReadBack` | `Updates` | `Commands` |

The ones
that take most steps to violate: `OnlyCurrentReplies` (a reply to an abandoned,
identical request is not taken for the current one), `ConsumedOnce` (copies split
between `recv()` and `poll_sol()`, in calls that fail), `DefiniteFailure`,
`HonestNotRefused` (a packet grown after a partial acceptance whose
acknowledgement was lost), `ReportExact`, `OrphansTold` (over several sessions of
one reconnection), `WalkComplete` and `NothingMissed`, `LeftoversReported` (a
buffer changed by a command without an answer, in an update that failed later),
`ReportsTruthful`, `BudgetSuffices` (a change that repeats its reads until the
numbers run short), `AnswersCurrent`.

### Bounds, and why they are enough

* `IpmbState.cfg`: three requests on a ring of six numbers. A two-hop request
  takes three numbers, so the ring runs out in the middle of a request, of polls
  and of a reservation; a third request meets late replies to two others. Two
  layers nest every kind of reply in every other; nestings of three and four
  layers were model-checked apart, for one two-hop request. `DeliveredAfterAllAcks`,
  which depends on the nesting, is proved for any depth.
* `RmcpSession.cfg`: four numbers each way: one below, two within and one above
  what a call remembers, and the last one, which must never be sent. Three
  counted datagrams and two remembered numbers let each limit be reached before
  the other. The properties are proved for all values.
* `Consoles.cfg`. Output: packets of up to three characters and a queue of two: a
  packet is accepted not at all, in part, in two parts, or whole. Repeated bytes
  (`aababb`) let a wrong offset go unnoticed by a comparison. Packet numbers 1 to
  3 wrap within six characters. Three datagrams may be on the way in each
  direction. Input: three characters in chunks of two, and one control, which is up to
  six packets under numbers 1 to 3: a number comes round while an old
  copy or an old acknowledgement is on the way. Two packets and two answers may be
  under way, and a packet is sent again once (twice in the code), which is enough for a copy to
  overtake and to be overtaken; the proofs hold for any number. After an overtaking, and
  after a call that gave up in doubt, the network is not followed. Sessions: three, which
  is an open and two reconnections, or one reconnection that needs more than one
  attempt. Three attempts, as in the code. Tyan: three keystrokes, two characters
  (a datagram read in one or two parts, or two datagrams), two unrelated datagrams.
* `Reading.cfg`. Events: a log of up to three records, one more than the walk may
  return; two contents, so that a record may repeat number and content of one that
  is gone; four changes, which is a clear and refill in a scan and one more event.
  Sensor records: three of a two-byte header and a body of two or three bytes,
  in pieces of four or one, so that a record takes two to five reads; the last offset is
  3, which is just enough for the shorter record and, one byte at a time, not
  for the longer; two changes, which remove and add a record. (Records without a body are in
  `sdr_gap`.) Values: up to eight items in pages of three, at most
  seven accepted: short, exact, one too long, and with a last page of any length.
* `Updates.cfg`. FWUM: six image bytes, pages of four, three at most in a command, so
  that a page is written in two commands and the last is short. HPM.1: blocks of
  two, images of odd and even length, a package of every kind of action. Kontron: four
  chunks, two of them in one area, budgets just below and above what a change, a
  bridged change and a restoration need. Two guarded writes. Values of up to
  seven units in blocks of two and three. Links: four requests, a ring of
  two numbers, two openings: a number comes round, in one opening and across two. 1.5: session numbers up to 3, the last one included.
  Activation: two attempts, the second with the first's session in place; three suites.
  Commands: all fields but one at an end of their ranges, that one at either
  end, next to the lower and, up to sixteen values, everywhere; answers cut at
  any of their first 60 bytes and at the end, extended, or with a byte
  set to 0, 1, 127, 128 or 255; completion codes 0 and 128; strings of 0, 1, 13,
  14, 15, 30, 31, 254 and 255 bytes, DUIDs of 0, 1, 14, 15, 16, 31, 32 and 255.
* The runs that expect a violation use the smallest constants that show it.

### Fairness and deadlock

* `rmcp_session`: weak fairness of `DeadlinePasses` (time passes; every call has a
  deadline) and of `Step` (the owner's thread runs). None of the network: nothing
  need ever arrive.
* `consoles`: for output, the reader reads, the BMC sends what the console prints and
  repeats what is not acknowledged (weak fairness), and a packet or
  acknowledgement that is sent again and again arrives some time (strong
  fairness of receiving). Loss of all traffic is not excluded by the code but by
  the question. For input, weak fairness of `Step`, the caller's thread, whose
  waits end by `RETRY_WAIT`; none of the network or the BMC.
* `reading`: weak fairness of `Scan`, `SdrWalk!Step` and `PagedReads!Step`, the
  caller's thread. The BMC may answer what it likes, but each command returns, as
  the transports guarantee.
* `updates` states no fairness: its properties are safety properties.
* Deadlock is checked where a caller can always go on (`ipmb_session`,
  `rmcp_session` and their variants, `sol_session_gap`); not in `consoles`, `reading`,
  `updates` and the other variants, whose programs come to an end.

## 4. Proofs

The theorems hold for every value of the constants under the assumptions the
modules state, which TLC evaluates in every run of the module:

* `ConstantsAssumption`, `NSeqAssumption`, `SessionAssumption`: limits are positive,
  and a request has as many hops as its kind of target allows.
* `FlowAssumption`, `InputAssumption`: packets have one to 255 characters, their
  numbers wrap after two or more, and the queue has room for one character.
* `TextAssumption`, `BoundsAssumption`: what is printed is finite; the bounds are numbers, and at
  least one unrelated datagram is read over.
* `LinkAssumption`: the serial port has at least one sequence number (it has 64).
* `KontronAssumption`: sizes and budgets are numbers.
* `SizesAssumption`: images, values and chunks have sizes, and a chunk, a page or a block is
  not empty (`UpdateOptions::new()` refuses a chunk of 0 bytes; the others are constants).
* `PackagesAssumption`: an HPM.1 package has at least one action, which `Package::parse()`
  ensures (`MissingImage`); the actions are of any kind, component and length.
* `WalkAssumption`: limits are numbers, records have contents, and the log's record numbers do not reach
  65535, the number that stands for the end. A record number has 16 bits, and a
  BMC that used 0xffff for a record would end every walk there.
* `ReadingAssumption`: a sensor record's header, a piece and a page are not empty, a BMC
  returns at least one byte at a time, and record ids are 16 bits; the other sizes are numbers.

Nothing is assumed for the activation.

| Theorem | States |
|---|---|
| `IpmbState_proofs!TypeCorrect` | `Spec => []TypeOK` |
| `NeverReused` | `Spec => []SequencesNeverReused` |
| `CurrentReplies` | `Spec => []OnlyCurrentReplies` |
| `AllAcksFirst` | `Spec => []DeliveredAfterAllAcks` |
| `ReservationKept` | `Spec => []ReservationHonoured` |
| `StateImplementsContract` | `Spec => ImplementsContract`: `IpmbState` implements `IpmbContract` |
| `RmcpSession_proofs!TypeCorrect` | `Spec => []TypeOK` |
| `NumbersConsumedOnce` | `Spec => []ConsumedOnce` |
| `NumbersSentOnce` | `Spec => []SentOnce` |
| `FailureIsDefinite` | `Spec => []DefiniteFailure` |
| `CallsReadBoundedly` | `Spec => []ReadsBounded` |
| `RequestsRetired` | `Spec => []NothingLeftPending` |
| `Workflows_proofs!ActivationSafe` | `Activation!Spec => []Activation!SessionAsRequired`, for any number of attempts |
| `SolFlow_proofs!FlowSafety` | `Spec => [](FlowInv /\ AcknowledgedKept /\ HonestNotRefused)` |
| `FlowImplementsStream` | `Spec => ImplementsStream`: `SolFlow` implements `ConsoleStream` |
| `Consoles_proofs!ConsolesInvariant` | `ConsolesSpec => []ConsolesInv` |
| `ConsolesAreTyped` | `ConsolesSpec => []ConsolesTypeOK` |
| `OutputIsKept`, `HonestIsAccepted` | `ConsolesSpec => []OutputKept`, `[]HonestNotRefused` |
| `InputIsInOrder`, `ReportIsExact` | `ConsolesSpec => []InputInOrder`, `[]ReportExact` |
| `CloseIsTruthful`, `OrphansAreTold` | `ConsolesSpec => []CloseTruthful`, `[]OrphansTold` |
| `ConsolesImplementStream` | `ConsolesSpec => ImplementsStream` |
| `Updates_proofs!UpdatesInvariant` | `Spec => []UpdatesInv` |
| `AnswersAreCurrent`, `SessionIsAsRequired` | `Spec => []AnswersCurrent`, `[]SessionAsRequired` |
| `OthersWorkIsKept`, `LeftoversAreReported` | `Spec => []OthersWorkKept`, `[]LeftoversReported` |
| `BudgetIsEnough` | `Spec => []BudgetSuffices` |
| `TransfersInvariant` | `Spec => [](UpdatesInv /\ TransfersInv)` |
| `WorkflowsImplementOneShot` | `Spec => ImplementsOneShot`: the seven workflows implement `OneShot` |
| `ReportsAreTruthful` | `Spec => []ReportsTruthful` |
| `Reading_proofs!ReadingInvariant` | `ReadingSpec => []ReadingInv` |
| `WalkIsComplete`, `NothingIsMissed`, `EventsReportedOnce` | `ReadingSpec => []WalkComplete`, `[]NothingMissed`, `ReportedOnce` |
| `ValuesAreIntact` | `ReadingSpec => []ValuesIntact` |
| `QuietReadsAlwaysSucceed` | `ReadingSpec => []QuietReadsSucceed` |
| `ReadersAreTyped` | `ReadingSpec => []ReadingTypeOK` |

**IPMB.** `OnlyCurrentReplies` is not inductive: that a reply is consumed only for
its own request depends on what earlier requests left on the wire. `SequenceInv`
adds what connects them. A number is retired exactly if a reply with it was issued
(`RetiredAreIssued`), no two replies issued share a number
(`SequencesNeverReused`), and everything the pending request expects was issued for
it (`PendingIsCurrent`). A reply that correlates agrees on the number and is
therefore the very one expected. For `DeliveredAfterAllAcks`, `AcksAreHeard` adds
that a hop marked `acked` was heard and that the pending request knows all its Send
Message hops. The code
descends at most three layers, so `receive_nested` is four applications of
`Descend`; `WalkLayer` shows that each keeps what `WalkOK` says of the layers
opened so far (from `WalkPoll`, `WalkAck` and `WalkFinal`, one for each kind of
reply), and `WalkEnd` chains them, with no induction over the datagram.
`ReservationKept` is proved from `Issue` alone: outside a
reservation's own requests only numbers beyond it are taken. For `StateImplementsContract` each
operation is mapped to one step of the contract (`ContractBegin`, `ContractRetire`, `ContractPoll`,
`ContractReceive`): a request takes as many numbers as it has hops, a poll one, and none of them was
retired before, which is `SequenceInv` again.

**RMCP+.** `ConsumedOnce` is not inductive: the numbers are remembered in two
places. `Covers(last, seen, consumed)` says that each number acted upon is at most
`last_inbound_sequence` or in the running call's `seen`, and all of `seen` is above
`last_inbound_sequence`. `CommitCovers` shows that committing the largest of `seen`
keeps it, `ConsumeCovers` that a fresh number may be added. `Running` ties the
call's variables to `pc`, `Counted` bounds the datagrams read by those remembered
and those counted, `Outbound` is the numbering of what is sent, `Flags` the rest.
Each step either ends the call or goes on with it (`EndsKeeps`, `GoesOnKeeps`), so
that an action needs a proof only of what it adds.

**Activation.** `SessionAsRequired` speaks of the end of an activation only.
`ActivateInv` adds what each step on the way has secured: while an activation runs
the old session is gone and nothing is installed (`Underway`), the version in use is
one the caller allowed (`VersionAllowed`), the suite asked for follows the policy
(`SuiteAsked`), and after Open Session and RAKP 4 the BMC has agreed to that very
suite and shown that it knows the password (`Proved`). There is one lemma per
action; every error goes through `FailureKeeps`. TLC checks the same property
in `updates` for two attempts.

**Console output.** `FlowInv` says what console and BMC agree on while packets and
acknowledgements are lost, repeated and partly accepted (`Agreed`). The packet being
sent starts at `base`, and either the console holds part of a copy of it, up to
`base + previous_accepted`, or it has not seen it and its text ends at `base`. Each
datagram on the way is a copy of the current packet, at least as long as what the
console knows of it (`Current`), or of the one before, all of it accepted (`Stale`);
no stale one follows a current one. `HonestNotRefused` follows from `Current` and
`Stale` (`HonestAccepted`): for a packet of either kind `accept()` finds no conflict
and no gap. `Acknowledged`, `Accepting` and `PacketSent` are the steps that move the agreement. After
characters were dropped only `Behind` holds: what still comes is flagged or stale. The
refinement maps each accepted frame to one step of `ConsoleStream` and every
other step to a stutter.

**Console input.** Copies of any packet may be on the way, so `InputInv` says nothing of
old ones but what they cannot do. As long as no old copy was taken for new, the BMC has the last
packet or the one before (`Marks`); copies of these two bear their numbers, and one of the
last that did not arrive carries what remains of the chunk (`CopiesKnown`). The answers to the last
packet come last among those that can still be accepted, and are all the same
(`AcksKnown`): once one was read, `Later` leaves no older one, so that none is there when
its number comes round. The BMC took what was confirmed and, if the last packet arrived,
what it took of that one (`Taken`); a packet that was certainly not sent has not arrived
(`Unsent`). `CertainIsExact` needs all of these. That only a packet sent again can be overtaken is
`Once`: until then the last packet is the only one that can be on the way (`Sole`,
`SoleCopy`), for a new one is sent only after an answer to it was read.

**Sessions and the Tyan console.** A payload that may be active is known to the
operation under way (`op.unconfirmed`) or was reported (`PayloadKnown`), and output is
queued only where some call will return it (`OutputPlaced`). `ReturnKeeps` and
`NextAttemptKeeps` are the two ways on from any operation. `ConsolesInv` says each
part's invariant of the program that runs, so that a step of `Consoles` is a step of
one part.

**Walks of the event log.** `WalkComplete` and `NothingMissed` have one invariant,
`SelTrue`. A record is identified by the serial number of its event, which the code does not see
(`SerialsTell`); the log is ordered by number and by serial (`LogOrdered`). Each record
that was there when the scan began is among those returned or lies ahead of
`next_id` (`StillAhead`), which every change of the log but a clear keeps; what a clear undoes
the code notices by the timestamps, and `NothingErased` says what equal timestamps
imply for the previous scan, this one and the events owed. `ReportedOnce` is an action property, from the same invariant
and `Remembered`: a record whose event is known was in the last scan.

**Sensor records and paged values.** Under a valid reservation all parts read so far are
of versions that the repository holds at the place the read is at (`OfOnePiece`), and the records
returned, but for the first, were visited under their number (`Visited`). `RecordsWhole` claims
nothing for a BMC without reservations. For values in pages
`SoFar` says that what was got is the value as far as it goes. A page is a new sequence of any
length, so the proof is about positions and not about recursion.

**Quiet reads.** `QuietReadsSucceed` speaks of how a read ends; `QuietInv` says how far it has come
while nobody changes what is read. A scan of the log has read its first records and is at
the next of them (`Reached`), so that the record is there, was not seen and leaves room and reads
for the rest (`ReachedRoom`: the seen numbers are as many as the records read). A
traversal of the repository has returned its first records as they are and has visited exactly
their numbers (`Progress`); of the record it reads it has the header and so
many bytes (`Piece`), so that an offset past `MaxOffset` is inside a record that goes on there,
which `QuietWalkComplete` names as the one that may be refused. The pages a reader counts are
full ones (`FullPages`), so that the limit on their number refuses only a value longer than the reader takes. A target that answers truly
returns a page that the reader accepts (`PagesAccept`).

**Types.** The type invariants of the consoles and the readers bound what their programs count,
and need more than the types. A console authenticates again only while it has an attempt left
(`OpTyped`); a chunk of input is sent again only while its retries last, so that the
partial answers stay within them (`InputSizes`); a scan reads a record only while it may
return one more (`ScanTyped`); a paged reader asks for no more than it was told there is and
the most it takes, and refuses a longer page, even of a BMC that answers anything (`Limited`).
Flags have lemmas of their own, because Zenon handles them and SMT the numbers.

**Links.** `AnswersCurrent` needs different reasons for each connection: the file's
message numbers never repeat, so that what has the number awaited is the answer or, after
an event receiver was open, an event (`FileNumbers`); the serial port's frames bear the number of
their request modulo `Ring`, so that two which agree are a whole ring apart
(`SerialNumbers`, `RingApart`); in the first opening, and for the virtual CD, only one request is under way
(`SerialSole`, `AmiSole`). An earlier form of the property promised the same for a
reopened serial port. It held for three requests and is false for four on a ring
of two: a late answer to a request of the earlier opening may be
taken for one of the later opening that has its number. The property now states the limit, a whole
ring; the run has a fourth request, so that it meets the case.
`V15Inv` is for `RmcpV15` what `Covers` is for RMCP+: each number accepted is at most
`last_inbound_sequence` or among those taken by the call.

**Workflows.** `FwumInv`: the bank that is written is never the one that runs, and a buffer
of another size is to be reset (`armed`) or named in `cleanup`. `GuardedInv`: the lock is held
from Begin to Set Complete, and Set Complete is sent to a lock that may be another's only after a
Begin in doubt, or by the SOL helper, which by design cleans up after any failed Begin
("cleanup was still attempted", `ipmi-rs-core/src/transport/sol.rs:410`; `README.md:1125-1128`). `SettingsInv`: what is written back was
read after the generation was checked, and differs from what is there only where the
other console wrote since. `KontronReserve`: as many numbers are reserved as the rest of the workflow
draws, step by step (`SetDue`, `UndoDue`, the chunks still to write and the read-back); a
restoration only knows the least a read-back costs, and so may run out.

**Transfers.** To implement `OneShot` a workflow must send, at each place where it sends, the very
next write of its plan; so its invariant says where in the plan it is. `Sending` and `Quiet`
are the two ways a step maps to `OneShot`: the next write, acknowledged or the last; or no write
at all. The rest is per workflow (`FwumSends`, `HpmSends`, and so on; `TransfersStep` puts
them together):

* FWUM: each offset that the upload reaches has a rank among the starts of the pieces (`Ranks`,
  `PieceEnds`), and the plan's writes are the buffers', the start, one for each rank, the finish and
  the activation (`FwumPlan`, `FwumCount`). `FwumReports` follows the image into the bank: until the
  activation the spare bank is not good, and what was read of it after is what it holds.
* HPM.1: the plan is the writes of the actions one after the other. `Chain` says what
  such a joining is up to each action; `ChainExists` shows that there is one, by a least
  position at which there were none, and `HpmPlan` where in the plan each action begins (`HpmFrom`).
  `HpmPosition` and `HpmProgress` tie the action, the bytes and the finished images to it.
* Kontron: the steps done are the writes acknowledged, and the buffers of the steps done are
  large (`KontronSent`); the chunks to write are those that differ, so that a verified image is
  the desired one.
* Guarded writes: Begin, the blocks, the commit; the flags say which was not acknowledged.
* Values in blocks: `Covered(k)` is how much of the value the first `k` blocks are. Each block
  begins where the one before ends, and the end is announced with the block that ends there
  (`BlocksPlanned`, for the five writers).
* Intel ME and settings: one write after the other, and a single one.

What is acknowledged is the plan's beginning (`AsPlanned`): it follows from the simulation
itself (`AsPlannedStep`), and with it `ReportsTruthful` from the places (`TransfersMean`).

Only model-checked:

* Liveness (`CallsEnd`, `PrintedIsRead`, `InputCallsEnd`, `ReadsEnd`), which is out of the
  prover's reach as is `ENABLED`.
* `RepliesInBounds` and `SettingsReadBack`: the assembly of values from messages would need
  induction over data.
* `Updates!TypeOK`: it includes that each message of `Commands` is made of bytes, and `Encode`
  is a fold (induction over data; the module has no constants, so that TLC sees all its states).
  Of the workflows' types the inductive invariants hold those their proofs need.

## 5. What is abstracted or left out

* Session wrappers, checksums, authentication codes and encryption: a datagram is
  readable or not, a code fits or not.
* Clocks: a deadline is a flag that is set, or a failure that happens, at any time. The
  lengths of the waits (50 ms probes, retry waits) do not matter to what is stated.
* Numbers that must not wrap (`u32` session sequence) end at `MaxSequence` or `Top`,
  as the code refuses to wrap them; numbers that wrap (SOL packet numbers, IPMB ring,
  the serial port's) wrap at a smaller modulus.
* Single commands: completion codes are zero or not; target addresses and the
  delegating implementations of the connection trait are left out. Of the encodings,
  PICMG, VITA and other group extensions, the node manager, and the queries of
  one command of Dell, Sun and Quanta are left out: their layouts have no
  state and no other part reads them. Character sets and the tables of names
  (events, units, sensor types, manufacturers) are text.
* The codes of SOL bit rates are those of four bits. `SolBitRate::Other` is written
  unmasked (`transport/sol.rs:82-87`, `251`), but a code above 15 cannot be read back.
* Package and image parsing of HPM.1 and FWUM: images are lengths.
* `wait_next()` of the SEL poller is repeated polls; its sleep has no effect on what is
  read.
* The logging crate and the examples: formatting and command lines. Of
  `ipmi-lan-config` only the transaction it uses is modelled (`GuardedWrite`), not
  the parsing and rendering of its file.

## 6. Where code and documents disagree

Shown by a run:

* `ipmb_deferred`: `README.md:921` says that the transport waits for each
  acknowledgement before it reports the final response. If the final reply is
  deferred and the last acknowledgement carries data that correlates with nothing,
  `receive_nested()` marks the hop acknowledged and returns the outcome of the
  data; the deferred reply is released by no later datagram, and the request
  ends in a timeout with an unknown outcome (`rmcp/internal.rs:809-820`).
* `rmcp_reorder`: `README.md:1095` says that reordered packets are rejected. Within
  one call they are accepted: `last_inbound_sequence` advances only when the call
  returns (`rmcp/v2_0/mod.rs:674-678`). Copies are rejected all the same
  (`ConsumedOnce`).
* `sol_session_gap`: `CaptureGap::previous_remote_close_unconfirmed` says that the
  prior payload's deactivation was not confirmed (`rmcp/sol.rs:134`). What a failed
  `reconnect()` could not confirm is in its error only; the next `reconnect()`
  reports `false`, and `close()` returns `Ok` (`rmcp/sol.rs:439-506`).
* `fwum_straddle`: the bank statuses are read one after the other. A BMC that boots in
  between shows a new bank that is good and an old one that is not yet previous, and
  `verify_activation()` gives the session up (`fwum/update.rs:683`), although pending
  verification "can be retried read-only" (`docs/kontron-fwum.md:100`).
* `sdr_gap`: "`None` without an error means completion" (`ipmi-rs/src/lib.rs:275`).
  A record deleted and added again at the end of the repository, while the walk is about
  to read it, ends the walk without the records in between, which never changed.
* `link_reopen`: after an ambiguous failure "Reopen the serial connection before any
  later operation" (`README.md:820-824`). The numbers start again at 1
  (`serial.rs:185`), so the late answer of the request left open matches
  the same request of the new opening.
* `file_event`: "the linux driver tracks state for our `fd`, so any data received here
  will be in response to command we have sent" (`ipmi-rs/src/file.rs:616-618`). Events that
  `recv_until()` left on a descriptor are read by `recv()`, which does not look at
  `recv_type` (`file.rs:657-661`): a message of another number fails the request, and one of
  the number awaited is its answer. `README.md:150-153` warns of such conflicts.

Found while modelling, without a run:

* `AllocInfo::parse` refuses fewer than 8 bytes and reads the ninth
  (`ipmi-rs-core/src/storage/mod.rs:57-65`); `RepliesInBounds` leaves out the answer of
  exactly 8.
* `SensorInitialization` takes `hysteresis` from the flag of the thresholds
  (`storage/sdr/record/mod.rs:196`); a full sensor record combines its accuracy as low
  byte times 256 (`full_sensor_record.rs:107-110`); linearization 9, the square, is read
  as a square root; `GetDeviceSdrInfo<SensorCount>` sends the operation byte of
  `SdrCount` (`get_dev_sdr_info.rs:104-114`). The layouts follow the code.
* `SerialError::Send` documents "No request bytes were sent"; the conversion of
  `SerialSendError` wraps an unknown outcome in it (`serial.rs`).
* An unknown suite in the list of cipher suites ends the list without a sign that it
  was cut short.

## 7. Plan

What is left to prove: the types of the update workflows other than `Commands`.

What is left to model: the target addresses of typed requests; the node manager and
PICMG layouts; the file of `ipmi-lan-config`.
