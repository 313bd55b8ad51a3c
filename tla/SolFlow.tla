------------------------------ MODULE SolFlow ------------------------------
(***************************************************************************)
(* Console output over SOL: `SolFlow` of src/ipmi-rs/src/rmcp/v2_0/sol.rs  *)
(* fed by the SOL branch of receive_one() (v2_0/mod.rs), against a BMC     *)
(* that sends one packet at a time and repeats it until it is accepted.    *)
(*                                                                         *)
(* A character is its position in what the console printed; CharAt gives   *)
(* the byte at a position, which is all the code can compare.  The session *)
(* layer removes copies and orders datagrams; packets and acknowledgements *)
(* may be lost.                                                            *)
(***************************************************************************)
EXTENDS Naturals, SequencesExt, FiniteSetsExt

CONSTANTS
    CharAt,             \* the console's output: a function on 1..n
    LastSequence,       \* 15: largest packet sequence number
    MaxData,            \* the negotiated max_output, less the header
    QueueLimit,         \* MAX_OUTPUT_QUEUE
    MaxInFlight         \* bound: packets, and acknowledgements, on the way

Length == Cardinality(DOMAIN CharAt)
Positions == 1..Length

ASSUME FlowAssumption ==
    /\ DOMAIN CharAt = Positions
    /\ LastSequence \in Nat \ {0, 1}
    /\ MaxData \in 1..255
    /\ QueueLimit \in Nat \ {0}
\* What is printed is finite.
ASSUME TextAssumption == Length \in Nat

VARIABLES
    output,             \* the queue of characters to be read
    previous_sequence,  \* Option<u8>, 0 for None
    previous_data,
    previous_accepted,
    stopped,            \* why receive_one() failed, "no" if it did not
    delivered,          \* history: characters handed to the caller
    \* external: the BMC and the network
    resend,             \* what this BMC sends after a partial acceptance
    base,               \* characters the BMC no longer keeps
    sequence,           \* number of the BMC's packet
    sending,            \* its characters, <<>> when there is none
    overrun,            \* the packet carries the overrun flag
    frames,             \* packets on the way to the console
    acks                \* acknowledgements on the way to the BMC

flow_vars == <<output, previous_sequence, previous_data, previous_accepted>>
bmc_vars  == <<resend, base, sequence, sending, overrun>>
vars == <<flow_vars, stopped, delivered, bmc_vars, frames, acks>>

PacketNumbers == 1..LastSequence
Data == {<<>>} \cup UNION {[1..n -> Positions] : n \in 1..MaxData}
Frame == [sequence : PacketNumbers, data : Data, overrun : BOOLEAN]
Ack == [ack : PacketNumbers, accepted : 0..MaxData]

TypeOK ==
    /\ output \in Seq(Positions)
    /\ Len(output) <= QueueLimit
    /\ previous_sequence \in 0..LastSequence
    /\ previous_data \in Data
    /\ previous_accepted \in 0..Len(previous_data)
    /\ stopped \in {"no", "conflict", "gap", "overrun", "ack_failed"}
    /\ delivered \in Seq(Positions)
    /\ resend \in {"same", "suffix"}
    /\ base \in 0..Length
    /\ sequence \in PacketNumbers
    /\ sending \in Data
    /\ overrun \in BOOLEAN
    /\ frames \in Seq(Frame)
    /\ acks \in Seq(Ack)

Init ==
    /\ output = <<>>
    /\ previous_sequence = 0
    /\ previous_data = <<>>
    /\ previous_accepted = 0
    /\ stopped = "no"
    /\ delivered = <<>>
    /\ resend \in {"same", "suffix"}
    /\ base = 0
    /\ sequence = 1
    /\ sending = <<>>
    /\ overrun = FALSE
    /\ frames = <<>>
    /\ acks = <<>>

Successor(s) == IF s = LastSequence THEN 1 ELSE s + 1

Text(data) == [i \in DOMAIN data |-> CharAt[data[i]]]

-----------------------------------------------------------------------------
(***************************************************************************)
(* accept().                                                               *)
(***************************************************************************)

\* Faulty variant: every packet counts as a new one.
Repeated_Never(f) == FALSE

Repeated(f) == f.sequence = previous_sequence

\* The bytes of a retransmission changed, or some already accepted are gone.
Conflicts(f) ==
    /\ Repeated(f)
    /\ \/ Len(f.data) < previous_accepted
       \/ \E i \in DOMAIN f.data \cap DOMAIN previous_data :
             Text(f.data)[i] # Text(previous_data)[i]

\* Faulty variant: a new packet is compared with all of the last one.
Unaccepted_All == previous_data

\* What the last packet carried and the queue had no room for.
Unaccepted == SubSeq(previous_data, previous_accepted + 1, Len(previous_data))

\* A new packet must be the next one and begin with what is left of the last.
Skips(f) ==
    /\ previous_sequence # 0
    /\ ~ Repeated(f)
    /\ \/ f.sequence # Successor(previous_sequence)
       \/ ~ IsPrefix(Text(Unaccepted), Text(f.data))

\* Faulty variant: the count of the last packet is kept for the next.
Already_KeepsCount(f) == previous_accepted

\* Characters of the packet accepted before.
Already(f) == IF Repeated(f) THEN previous_accepted ELSE 0

\* Faulty variant: the room in the queue is not looked at.
Accepted_Unbounded(f) == Len(f.data)

\* How many of its characters are accepted then: those accepted before and as
\* many of the others as the queue has room for.
Accepted(f) ==
    LET newly_available == IF Len(f.data) > Already(f) THEN Len(f.data) - Already(f) ELSE 0
    IN  Already(f) + Min({newly_available, QueueLimit - Len(output), 255 - Already(f)})

\* Faulty variant: the whole packet is acknowledged whatever the room.
Acknowledge_Whole(f, accepted) == [ack |-> f.sequence, accepted |-> Len(f.data)]

\* Faulty variant: only the characters new in this copy are acknowledged.
Acknowledge_NewOnly(f, accepted) ==
    [ack |-> f.sequence, accepted |-> accepted - Already(f)]

\* The count is that of the whole packet, whichever copy carried them.
Acknowledge(f, accepted) == [ack |-> f.sequence, accepted |-> accepted]

\* The next packet arrives; its acknowledgement finds room on the way back.
Incoming == frames # <<>> /\ stopped = "no" /\ Len(acks) < MaxInFlight

\* receive_one() stops when the acknowledgement cannot be sent, and after an
\* accepted packet with the overrun flag.
ReceiveAccepted(acknowledged) ==
    /\ Incoming
    /\ LET f == Head(frames) IN
       /\ ~ Conflicts(f) /\ ~ Skips(f)
       /\ output' = output \o SubSeq(f.data, Already(f) + 1, Accepted(f))
       /\ previous_sequence' = f.sequence
       /\ previous_data' = IF Repeated(f) /\ Len(f.data) <= Len(previous_data)
                           THEN previous_data ELSE f.data
       /\ previous_accepted' = Accepted(f)
       /\ acks' = IF acknowledged THEN Append(acks, Acknowledge(f, Accepted(f))) ELSE acks
       /\ stopped' = IF ~ acknowledged THEN "ack_failed"
                     ELSE IF f.overrun THEN "overrun" ELSE "no"
    /\ frames' = Tail(frames)
    /\ UNCHANGED <<delivered, bmc_vars>>

\* A refused packet is acknowledged with no characters, and ends the stream.
ReceiveRefused ==
    /\ Incoming
    /\ LET f == Head(frames) IN
       /\ Conflicts(f) \/ Skips(f)
       /\ acks' = Append(acks, Acknowledge(f, 0))
       /\ stopped' = IF Conflicts(f) THEN "conflict" ELSE "gap"
    /\ frames' = Tail(frames)
    /\ UNCHANGED <<flow_vars, delivered, bmc_vars>>

\* read() into a buffer of n bytes, and take_output() once the stream ended.
ReadOutput(n) ==
    /\ n <= Len(output)
    /\ delivered' = delivered \o SubSeq(output, 1, n)
    /\ output' = SubSeq(output, n + 1, Len(output))
    /\ UNCHANGED <<previous_sequence, previous_data, previous_accepted, stopped,
                   bmc_vars, frames, acks>>

-----------------------------------------------------------------------------
(***************************************************************************)
(* The BMC and the network (external).                                     *)
(***************************************************************************)

From(first, n) == [i \in 1..n |-> first + i]

Send(seq, data, lost) ==
    /\ Len(frames) < MaxInFlight
    /\ sequence' = seq
    /\ sending' = data
    /\ overrun' = lost
    /\ frames' = Append(frames, [sequence |-> seq, data |-> data, overrun |-> lost])
    /\ UNCHANGED resend

\* A packet with the next n characters.
BmcSend(n) ==
    /\ sending = <<>>
    /\ base + n <= Length
    /\ Send(sequence, From(base, n), overrun)
    /\ UNCHANGED <<flow_vars, stopped, delivered, base, acks>>

(***************************************************************************)
(* A timeout: the packet is repeated, maybe with characters printed since. *)
(* A BMC that continues with the rest of a partly accepted packet must     *)
(* wait long enough: with an older acknowledgement still on its way it     *)
(* would send the same characters in two packets.                          *)
(***************************************************************************)
BmcRepeat(n) ==
    /\ sending # <<>>
    /\ resend = "suffix" => frames = <<>> /\ acks = <<>>
    /\ n \in Len(sending)..MaxData
    /\ base + n <= Length
    /\ Send(sequence, From(base, n), overrun)
    /\ UNCHANGED <<flow_vars, stopped, delivered, base, acks>>

(***************************************************************************)
(* The console fell behind for too long: n characters are dropped, with    *)
(* the packet being sent, whose number the next one may have again.  By    *)
(* then nothing of that packet is on its way any more.                     *)
(***************************************************************************)
BmcOverrun(n) ==
    /\ n >= Len(sending)
    /\ base + n < Length
    /\ sending # <<>> => frames = <<>> /\ acks = <<>>
    /\ base' = base + n
    /\ sending' = <<>>
    /\ sequence' \in IF sending = <<>> THEN {sequence} ELSE {sequence, Successor(sequence)}
    /\ overrun' = TRUE
    /\ UNCHANGED <<flow_vars, stopped, delivered, resend, frames, acks>>

BmcAcked ==
    /\ acks # <<>>
    /\ acks' = Tail(acks)
    /\ LET a == Head(acks)
           current == sending # <<>> /\ a.ack = sequence
       IN  \/ /\ current /\ a.accepted >= Len(sending)
              /\ base' = base + Len(sending)
              /\ sending' = <<>>
              /\ sequence' = Successor(sequence)
              /\ overrun' = FALSE
              /\ UNCHANGED <<resend, frames>>
           \/ /\ current /\ a.accepted < Len(sending) /\ resend = "suffix"
              /\ base' = base + a.accepted
              /\ \E n \in (Len(sending) - a.accepted)..MaxData :
                    /\ base' + n <= Length
                    /\ Send(Successor(sequence), From(base', n), overrun)
           \/ /\ ~ current \/ (a.accepted < Len(sending) /\ resend = "same")
              /\ UNCHANGED <<bmc_vars, frames>>
    /\ UNCHANGED <<flow_vars, stopped, delivered>>

LoseFrame(i) ==
    /\ frames' = RemoveAt(frames, i)
    /\ UNCHANGED <<flow_vars, stopped, delivered, bmc_vars, acks>>

LoseAck(i) ==
    /\ acks' = RemoveAt(acks, i)
    /\ UNCHANGED <<flow_vars, stopped, delivered, bmc_vars, frames>>

-----------------------------------------------------------------------------
Console ==
    \/ \E acknowledged \in BOOLEAN : ReceiveAccepted(acknowledged)
    \/ ReceiveRefused
    \/ \E n \in 1..QueueLimit : ReadOutput(n)

Bmc ==
    \/ \E n \in 1..MaxData : BmcSend(n) \/ BmcRepeat(n) \/ BmcOverrun(n)
    \/ BmcAcked

Network ==
    \/ \E i \in DOMAIN frames : LoseFrame(i)
    \/ \E i \in DOMAIN acks : LoseAck(i)

Next == Console \/ Bmc \/ Network

Spec == Init /\ [][Next]_vars

-----------------------------------------------------------------------------
(***************************************************************************)
(* Properties.                                                             *)
(***************************************************************************)

Stream == INSTANCE ConsoleStream WITH
    queue <- output,
    open <- (stopped = "no")

\* A character acknowledged to the BMC, which then forgets it, was delivered or
\* is queued, even when the queue was full or the stream has been interrupted.
AcknowledgedKept ==
    ~ overrun /\ stopped # "overrun" => base <= Len(delivered) + Len(output)

\* Nothing an honest BMC does, whatever is lost on the way, is taken for
\* conflicting data or for a gap, unless characters were dropped.
HonestNotRefused == stopped \in {"conflict", "gap"} => overrun

\* SolFlow implements ConsoleStream.
ImplementsStream == Stream!StreamSpec

\* Everything printed is read in the end, or the stream is interrupted: a full
\* queue and partial acceptances do not bring it to a standstill.
AllDelivered == <>(stopped # "no" \/ Len(delivered) = Length)
=============================================================================
