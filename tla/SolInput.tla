------------------------------ MODULE SolInput ------------------------------
(***************************************************************************)
(* Console input over SOL: send_input(), send_control() and transmit() of  *)
(* src/ipmi-rs/src/rmcp/sol.rs, with next_sequence() and the               *)
(* acknowledgements that accept() keeps (v2_0/sol.rs).                     *)
(*                                                                         *)
(* A character is its position in what the caller sends.  Packets and      *)
(* acknowledgements may be lost, late and in any order, so that a packet   *)
(* is repeated while its acknowledgement is on its way.  The BMC accepts   *)
(* part of a packet and answers a copy of it as it answered the first; it  *)
(* knows a copy by the number of its last packet, and so takes one that    *)
(* newer packets have overtaken for new.  A control (a break, a flush) is  *)
(* a packet without characters; its `unavailable` stands for a nack too.   *)
(***************************************************************************)
EXTENDS Naturals, SequencesExt, FiniteSetsExt

CONSTANTS
    LastSequence,       \* 15: largest packet sequence number
    ChunkSize,          \* the negotiated max_input, less the header
    MaxRetransmissions, \* MAX_RETRANSMISSIONS, 2 in the code
    MaxInput,           \* bound: characters sent in all calls
    MaxControls,        \* bound: controls sent
    MaxUnderWay         \* bound: packets on the way, and answers

VARIABLES
    pc,                     \* where send_input() stands
    next_input_sequence,
    waiting_for_ack,        \* Option<u8>, 0 for None
    input_ack,              \* Option<InputAck>
    first,                  \* characters sent by earlier calls
    last,                   \* and with those of this call
    confirmed,              \* of this call
    chunk_left,             \* length of `remaining`
    partials,
    attempt,
    control,                \* the packet is one of send_control()
    controls,               \* history: controls that returned Ok
    uncertain,              \* input_delivery_uncertain of an interruption
    packets,                \* history: packets so far
    repeated,               \* and whether one was sent more than once
    \* external: the BMC and the network
    copies,                 \* packets on the way
    acks,                   \* and what can still be accepted of the answers, in their order
    bmc_last,               \* number and answer of its last packet
    newest,                 \* history: the newest packet it took
    overtaken,              \* and whether it took an older one after it
    received,               \* characters the BMC accepted
    executed                \* and controls it executed

call_vars == <<first, last, confirmed, chunk_left, control, controls>>
counters == <<partials, attempt>>
flow_vars == <<next_input_sequence, waiting_for_ack, input_ack, packets>>
bmc_vars == <<bmc_last, received, executed, newest, overtaken>>
net_vars  == <<copies, acks, repeated, bmc_vars>>
vars == <<pc, flow_vars, call_vars, counters, uncertain, net_vars>>

PacketNumbers == 1..LastSequence
NoAck == [accepted |-> 0, unavailable |-> FALSE, ack |-> 0]
Ack == [accepted : 0..(ChunkSize + 1), unavailable : BOOLEAN, ack : 0..LastSequence]
Copy == [packet : 1..packets, attempt : 0..MaxRetransmissions, sequence : PacketNumbers,
         data : Seq(1..MaxInput)]

TypeOK ==
    /\ pc \in {"idle", "chunk", "send", "poll", "acked", "interrupted"}
    /\ next_input_sequence \in PacketNumbers
    /\ waiting_for_ack \in 0..LastSequence
    /\ input_ack \in Ack
    /\ first \in 0..MaxInput
    /\ last \in first..MaxInput
    /\ confirmed \in 0..(last - first)
    /\ chunk_left \in 0..ChunkSize
    /\ partials \in 0..(MaxRetransmissions + 2)
    /\ attempt \in 0..MaxRetransmissions
    /\ control \in BOOLEAN
    /\ controls \in 0..MaxControls
    /\ uncertain \in BOOLEAN
    /\ packets \in Nat
    /\ repeated \in BOOLEAN
    /\ copies \subseteq Copy
    /\ acks \in Seq(Ack)
    /\ bmc_last \in Ack
    /\ received \in Seq(1..MaxInput)
    /\ executed \in Nat
    /\ newest \in 0..packets
    /\ overtaken \in BOOLEAN

Init ==
    /\ pc = "idle"
    /\ next_input_sequence = 1
    /\ waiting_for_ack = 0
    /\ input_ack = NoAck
    /\ first = 0
    /\ last = 0
    /\ confirmed = 0
    /\ chunk_left = 0
    /\ partials = 0
    /\ attempt = 0
    /\ control = FALSE
    /\ controls = 0
    /\ uncertain = FALSE
    /\ packets = 0
    /\ repeated = FALSE
    /\ copies = {}
    /\ acks = <<>>
    /\ bmc_last = NoAck
    /\ received = <<>>
    /\ executed = 0
    /\ newest = 0
    /\ overtaken = FALSE

-----------------------------------------------------------------------------
Characters(m, n) == [i \in 1..n |-> m + i]

\* next_sequence()
Successor(s) == IF s = LastSequence THEN 1 ELSE s + 1

\* What the call counted goes with it.
Interrupted(doubt) ==
    /\ pc' = "interrupted" /\ uncertain' = doubt
    /\ partials' = 0 /\ attempt' = 0

-----------------------------------------------------------------------------
(***************************************************************************)
(* send_input().                                                           *)
(***************************************************************************)

SendInput(n) ==
    /\ pc = "idle"
    /\ last + n <= MaxInput
    /\ first' = last
    /\ last' = last + n
    /\ confirmed' = 0
    /\ pc' = "chunk"
    /\ UNCHANGED <<flow_vars, chunk_left, control, controls, counters, uncertain, net_vars>>

\* Cancelled before anything was sent.
SendInputCancelled ==
    /\ pc = "idle"
    /\ first' = last
    /\ confirmed' = 0
    /\ Interrupted(FALSE)
    /\ UNCHANGED <<flow_vars, last, chunk_left, control, controls, net_vars>>

\* Partial acknowledgements are counted chunk by chunk.
Partials == IF chunk_left = 0 THEN 0 ELSE partials

\* A packet takes the next number; no acknowledgement of it is known yet.
NewPacket ==
    /\ waiting_for_ack' = next_input_sequence
    /\ next_input_sequence' = Successor(next_input_sequence)
    /\ input_ack' = NoAck
    /\ packets' = packets + 1
    /\ attempt' = 0
    /\ pc' = "send"

\* A packet with what remains of the chunk, or with the next chunk.
NextPacket ==
    /\ pc = "chunk"
    /\ first + confirmed < last
    /\ chunk_left' = IF chunk_left = 0 THEN Min({ChunkSize, last - first - confirmed})
                     ELSE chunk_left
    /\ partials' = Partials
    /\ NewPacket
    /\ UNCHANGED <<first, last, confirmed, control, controls, uncertain, net_vars>>

AllSent ==
    /\ pc = "chunk"
    /\ first + confirmed = last
    /\ pc' = "idle"
    /\ partials' = 0
    /\ UNCHANGED <<flow_vars, call_vars, attempt, uncertain, net_vars>>

\* The acknowledgement of a packet.
Acked ==
    /\ pc = "acked"
    /\ ~ control
    /\ input_ack.accepted <= chunk_left
    /\ confirmed' = confirmed + input_ack.accepted
    /\ chunk_left' = chunk_left - input_ack.accepted
    /\ IF input_ack.unavailable
       THEN Interrupted(chunk_left' # 0)
       ELSE IF partials + 1 > MaxRetransmissions + 1 /\ chunk_left' # 0
            THEN Interrupted(TRUE)
            ELSE partials' = partials + 1 /\ pc' = "chunk" /\ UNCHANGED <<attempt, uncertain>>
    /\ UNCHANGED <<flow_vars, first, last, control, controls, net_vars>>

\* InvalidAck: more characters than were sent.
AckedTooMany ==
    /\ pc = "acked"
    /\ ~ control
    /\ input_ack.accepted > chunk_left
    /\ Interrupted(TRUE)
    /\ UNCHANGED <<flow_vars, call_vars, net_vars>>

-----------------------------------------------------------------------------
(***************************************************************************)
(* send_control().                                                         *)
(***************************************************************************)

SendControl ==
    /\ pc = "idle"
    /\ controls < MaxControls
    /\ control' = TRUE
    /\ first' = last
    /\ confirmed' = 0
    /\ NewPacket
    /\ UNCHANGED <<last, chunk_left, partials, controls, uncertain, net_vars>>

\* Only an acknowledgement without complaint and without characters is Ok.
ControlAcked ==
    /\ pc = "acked"
    /\ control
    /\ IF input_ack.unavailable \/ input_ack.accepted # 0
       THEN Interrupted(TRUE) /\ UNCHANGED <<control, controls>>
       ELSE /\ pc' = "idle"
            /\ control' = FALSE
            /\ controls' = controls + 1
            /\ UNCHANGED <<counters, uncertain>>
    /\ UNCHANGED <<flow_vars, first, last, confirmed, chunk_left, net_vars>>

-----------------------------------------------------------------------------
(***************************************************************************)
(* transmit().                                                             *)
(***************************************************************************)

Packet == [packet |-> packets, attempt |-> attempt, sequence |-> waiting_for_ack,
           data |-> Characters(first + confirmed, chunk_left)]

\* The packet is sent, or fails with an error that leaves its fate open; it is
\* on its way or lost.
SendPacket(sent) ==
    /\ pc = "send"
    /\ \/ ~ overtaken /\ Cardinality(copies) < MaxUnderWay /\ copies' = copies \union {Packet}
       \/ UNCHANGED copies
    /\ repeated' = (repeated \/ attempt # 0)
    /\ IF sent THEN pc' = "poll" /\ UNCHANGED <<counters, uncertain>> ELSE Interrupted(TRUE)
    /\ UNCHANGED <<flow_vars, call_vars, acks, bmc_vars>>

\* An earlier attempt may have arrived.
RefusalDoubt == attempt # 0

\* Cancelled or expired before the packet was sent.
SendPacketRefused ==
    /\ pc = "send"
    /\ Interrupted(RefusalDoubt)
    /\ UNCHANGED <<flow_vars, call_vars, net_vars>>

Awaited(a) == a.ack = waiting_for_ack

\* Faulty variant: answers are accepted in any order.
Later_AnyOrder(i) == RemoveAt(acks, i)

\* last_inbound_sequence, which poll_sol() commits with each datagram: what the
\* BMC sent before the one that was read is refused from now on, and fails the
\* poll that reads it (PollFails).
Later(i) == SubSeq(acks, i + 1, Len(acks))

ReceiveAck(i) ==
    /\ pc = "poll"
    /\ acks' = Later(i)
    /\ IF Awaited(acks[i])
       THEN input_ack' = acks[i] /\ waiting_for_ack' = 0 /\ pc' = "acked" /\ attempt' = 0
       ELSE UNCHANGED <<input_ack, waiting_for_ack, pc, attempt>>
    /\ UNCHANGED <<next_input_sequence, packets, call_vars, partials, uncertain, copies,
                   repeated, bmc_vars>>

\* Faulty variant: a copy is sent with a number of its own.
RetryNumber_Next == next_input_sequence

RetryNumber == waiting_for_ack

\* Faulty variant: after the last attempt there is another.
Retry_Endless ==
    /\ pc = "poll"
    /\ attempt' = (IF attempt < MaxRetransmissions THEN attempt + 1 ELSE attempt)
    /\ waiting_for_ack' = RetryNumber
    /\ pc' = "send"
    /\ UNCHANGED <<next_input_sequence, input_ack, packets, call_vars, partials, uncertain,
                   net_vars>>

\* RETRY_WAIT is over, however late the acknowledgement may be.
Retry ==
    /\ pc = "poll"
    /\ attempt < MaxRetransmissions
    /\ attempt' = attempt + 1
    /\ waiting_for_ack' = RetryNumber
    /\ pc' = "send"
    /\ UNCHANGED <<next_input_sequence, input_ack, packets, call_vars, partials, uncertain,
                   net_vars>>

\* The last attempt timed out; the deadline, an error (an answer out of order
\* is one) or a cancellation.
PollFails ==
    /\ pc = "poll"
    /\ Interrupted(TRUE)
    /\ UNCHANGED <<flow_vars, call_vars, net_vars>>

-----------------------------------------------------------------------------
(***************************************************************************)
(* The BMC and the network (external).                                     *)
(***************************************************************************)

Outside == UNCHANGED <<pc, flow_vars, call_vars, counters, uncertain, repeated>>

\* A packet taken for new: `count` of its characters are accepted, or more are claimed; a
\* control is executed, unless it is refused, and perhaps even then.
Take(c, count, unavailable) ==
    /\ c.sequence # bmc_last.ack
    /\ count <= Len(c.data) + 1
    /\ received' = received \o SubSeq(c.data, 1, Min({count, Len(c.data)}))
    /\ \/ executed' = executed + (IF c.data = <<>> THEN 1 ELSE 0)
       \/ unavailable /\ UNCHANGED executed
    /\ bmc_last' = [ack |-> c.sequence, accepted |-> count, unavailable |-> unavailable]
    /\ Outside

BmcAccept(c, count, unavailable) ==
    /\ c.packet >= newest
    /\ Len(acks) < MaxUnderWay
    /\ Take(c, count, unavailable)
    /\ newest' = c.packet
    /\ copies' = copies \ {c}
    /\ acks' = Append(acks, bmc_last')
    /\ UNCHANGED overtaken

\* An older packet than the last it took.  What is on the way after that is not
\* followed any more.
BmcAcceptOld(c, count, unavailable) ==
    /\ c.packet < newest
    /\ Take(c, count, unavailable)
    /\ overtaken' = TRUE
    /\ copies' = {}
    /\ acks' = <<>>
    /\ UNCHANGED newest

BmcRepeat(c) ==
    /\ c.sequence = bmc_last.ack
    /\ Len(acks) < MaxUnderWay
    /\ copies' = copies \ {c}
    /\ acks' = Append(acks, bmc_last)
    /\ Outside /\ UNCHANGED bmc_vars

Lose ==
    /\ \/ (\E c \in copies : copies' = copies \ {c}) /\ UNCHANGED acks
       \/ (\E i \in DOMAIN acks : acks' = RemoveAt(acks, i)) /\ UNCHANGED copies
    /\ Outside /\ UNCHANGED bmc_vars

-----------------------------------------------------------------------------
Step ==
    \/ NextPacket
    \/ AllSent
    \/ Acked
    \/ AckedTooMany
    \/ ControlAcked
    \/ \E sent \in BOOLEAN : SendPacket(sent)
    \/ SendPacketRefused
    \/ \E i \in DOMAIN acks : ReceiveAck(i)
    \/ Retry
    \/ PollFails

\* What is on the way when a call gives up in doubt has arrived before, in
\* another behaviour, while it was waiting.
Network ==
    /\ ~ (pc = "interrupted" /\ uncertain)
    /\ \/ \E c \in copies, count \in 0..(ChunkSize + 1), unavailable \in BOOLEAN :
            BmcAccept(c, count, unavailable) \/ BmcAcceptOld(c, count, unavailable)
       \/ \E c \in copies : BmcRepeat(c)
       \/ Lose

Next ==
    \/ \E n \in 1..MaxInput : SendInput(n)
    \/ SendInputCancelled
    \/ SendControl
    \/ Step
    \/ Network

Spec == Init /\ [][Next]_vars

-----------------------------------------------------------------------------
(***************************************************************************)
(* Properties.                                                             *)
(***************************************************************************)

\* The BMC accepts every character once and in order, and executes a control at
\* most once, although packets are repeated while they or their
\* acknowledgements are on the way and the rest of a partly accepted one
\* follows under another number.  Only an old copy that comes after a newer
\* packet breaks this, for which a packet must have been sent again: whatever
\* the network does, a packet that was sent once is accepted once.
InputOnce ==
    /\ ~ overtaken =>
         /\ received = Characters(0, Len(received))
         /\ executed <= controls + (IF control THEN 1 ELSE 0)
    /\ overtaken => repeated

\* Confirmed characters arrived and confirmed controls were executed: a late
\* acknowledgement of an earlier packet never counts for a later one
\* (waiting_for_ack), not even when the numbers start again
\* (last_inbound_sequence).
ConfirmedArrived ==
    ~ overtaken => first + confirmed <= Len(received) /\ controls <= executed

\* When nothing is reported uncertain, exactly the confirmed characters
\* arrived, and no other control was executed: the caller may send them again.
CertainIsExact ==
    ~ overtaken /\ (pc = "idle" \/ (pc = "interrupted" /\ ~ uncertain))
    => Len(received) = first + confirmed /\ executed = controls

\* send_input() ends even against a BMC that accepts nothing and answers
\* every packet, without the help of its deadline (partials, attempt).
InputEnds == pc # "idle" ~> pc \in {"idle", "interrupted"}
=============================================================================
