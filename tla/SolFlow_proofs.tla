--------------------------- MODULE SolFlow_proofs ---------------------------
(***************************************************************************)
(* Proofs about SolFlow, for any text, any ring of packet numbers, any     *)
(* packet size and any queue.                                              *)
(*                                                                         *)
(* The argument.  As long as the BMC dropped nothing, console and BMC      *)
(* agree on one position of the text: the characters the console took are  *)
(* those the BMC no longer keeps and, of the packet being sent, those      *)
(* accepted (Agreed).  Every packet on its way is then a copy of the       *)
(* current one, possibly shorter, or of the one accepted before it, and    *)
(* every acknowledgement of the current one counts characters already      *)
(* queued; so accept() takes only what comes next, and the BMC forgets     *)
(* nothing the console did not take.  After an overrun every packet that   *)
(* could be accepted carries the flag that ends the stream (Behind).       *)
(***************************************************************************)
EXTENDS SolFlow, SequenceTheorems, TLAPS

\* An element taken out of a sequence: those after it move one place down.
LEMMA RemovedElement ==
  ASSUME NEW S, NEW s \in Seq(S), NEW i \in DOMAIN s
  PROVE  /\ RemoveAt(s, i) \in Seq(S)
         /\ Len(RemoveAt(s, i)) = Len(s) - 1
         /\ \A k \in 1..(Len(s) - 1) : RemoveAt(s, i)[k] = IF k < i THEN s[k] ELSE s[k + 1]
<1> DEFINE front == SubSeq(s, 1, i - 1)
           back == SubSeq(s, i + 1, Len(s))
<1>1. i \in 1..Len(s) /\ Len(s) \in Nat
  OBVIOUS
<1>2. /\ front \in Seq(S) /\ Len(front) = i - 1
      /\ \A k \in 1..(i - 1) : front[k] = s[k]
  <2>1. \A k \in 1..(i - 1) : s[k] \in S
    BY <1>1, ElementOfSeq
  <2> QED
    BY <1>1, <2>1
<1>3. /\ back \in Seq(S) /\ Len(back) = Len(s) - i
      /\ \A k \in 1..(Len(s) - i) : back[k] = s[i + k]
  <2>1. \A k \in 1..(Len(s) - i) : s[i + k] \in S
    BY <1>1, ElementOfSeq
  <2> QED
    BY <1>1, <2>1
<1> HIDE DEF front, back
<1>4. RemoveAt(s, i) = front \o back
  BY DEF RemoveAt, front, back
<1>5. /\ front \o back \in Seq(S)
      /\ Len(front \o back) = Len(s) - 1
      /\ \A k \in 1..(Len(s) - 1) :
            (front \o back)[k] = IF k <= i - 1 THEN front[k] ELSE back[k - (i - 1)]
  BY <1>1, <1>2, <1>3, SMTT(30)
<1>6. ASSUME NEW k \in 1..(Len(s) - 1), k < i PROVE (front \o back)[k] = s[k]
  BY <1>1, <1>2, <1>5, <1>6
<1>7. ASSUME NEW k \in 1..(Len(s) - 1), ~(k < i) PROVE (front \o back)[k] = s[k + 1]
  <2>1. k - (i - 1) \in 1..(Len(s) - i) /\ i + (k - (i - 1)) = k + 1 /\ ~(k <= i - 1)
    BY <1>1, <1>7
  <2>2. (front \o back)[k] = back[k - (i - 1)]
    BY <1>5, <2>1
  <2> QED
    BY <1>3, <2>1, <2>2
<1> QED
  BY <1>4, <1>5, <1>6, <1>7

\* t has some of the elements of s, in their order.
KeepsOrder(t, s) ==
    /\ \A i \in DOMAIN t : \E k \in DOMAIN s : t[i] = s[k]
    /\ \A i, j \in DOMAIN t : i < j =>
          \E k, l \in DOMAIN s : k < l /\ t[i] = s[k] /\ t[j] = s[l]

\* A datagram lost on the way leaves the others in their order.
LEMMA RemovedKeepsOrder ==
  ASSUME NEW S, NEW s \in Seq(S), NEW n \in DOMAIN s
  PROVE  /\ RemoveAt(s, n) \in Seq(S) /\ KeepsOrder(RemoveAt(s, n), s)
         /\ Len(RemoveAt(s, n)) = Len(s) - 1
<1> DEFINE t == RemoveAt(s, n)
           at(i) == IF i < n THEN i ELSE i + 1
<1>1. /\ t \in Seq(S)
      /\ Len(t) = Len(s) - 1
      /\ \A k \in 1..(Len(s) - 1) : t[k] = IF k < n THEN s[k] ELSE s[k + 1]
  BY RemovedElement
<1> HIDE DEF t
<1>2. DOMAIN t = 1..(Len(s) - 1) /\ DOMAIN s = 1..Len(s) /\ Len(s) \in Nat
  BY <1>1, LenProperties
<1>3. \A i \in DOMAIN t : at(i) \in DOMAIN s /\ t[i] = s[at(i)]
  BY <1>1, <1>2
<1>4. \A i, j \in DOMAIN t : i < j => at(i) < at(j)
  BY <1>2
<1> HIDE DEF at
<1> QED
  BY <1>1, <1>3, <1>4 DEF KeepsOrder, t

\* What is left of a queue when its head is taken.
LEMMA RestOf ==
  ASSUME NEW S, NEW s \in Seq(S), s # <<>>
  PROVE  /\ Tail(s) \in Seq(S) /\ Head(s) = s[1] /\ 1 \in DOMAIN s
         /\ Len(Tail(s)) = Len(s) - 1 /\ Len(s) \in Nat \ {0}
         /\ \A i \in DOMAIN Tail(s) : i \in Nat \ {0} /\ i + 1 \in DOMAIN s /\ Tail(s)[i] = s[i + 1]
  BY HeadTailProperties, LenProperties, EmptySeq

\* A datagram received leaves the others in their order.
LEMMA RestKeepsOrder ==
  ASSUME NEW S, NEW s \in Seq(S), s # <<>>
  PROVE  KeepsOrder(Tail(s), s)
<1>1. \A i \in DOMAIN Tail(s) : i \in Nat \ {0} /\ i + 1 \in DOMAIN s /\ Tail(s)[i] = s[i + 1]
  BY RestOf
<1> QED
  BY <1>1 DEF KeepsOrder

\* The characters a packet carries are those that follow a position.
LEMMA FromIs ==
  ASSUME NEW m \in Nat, NEW n \in Nat
  PROVE  /\ From(m, n) \in Seq(Nat) /\ Len(From(m, n)) = n
         /\ \A i \in 1..n : From(m, n)[i] = m + i
<1>1. From(m, n) \in [1..n -> Nat]
  BY DEF From
<1>2. From(m, n) \in Seq(Nat)
  BY <1>1, SeqDef
<1>3. Len(From(m, n)) = n
  BY <1>1, <1>2, LenProperties
<1> QED
  BY <1>2, <1>3 DEF From

\* Packet sequence numbers wrap to 1 and never repeat at once.
LEMMA SuccessorIs ==
  ASSUME NEW s \in PacketNumbers
  PROVE  Successor(s) \in PacketNumbers /\ Successor(s) # s
  BY FlowAssumption DEF Successor, PacketNumbers

\* Packets and acknowledgements, of whatever size.
Packets == [sequence : Nat, data : Seq(Nat), overrun : BOOLEAN]
Answers == [ack : Nat, accepted : Nat]

\* Characters the console took: handed over or still queued.
Total == Len(delivered) + Len(output)

\* Types and bounds, the queue limit and the count of a packet among them.
FlowTypes ==
    /\ output \in Seq(Nat) /\ delivered \in Seq(Nat) /\ previous_data \in Seq(Nat) /\ sending \in Seq(Nat)
    /\ Len(output) <= QueueLimit
    /\ previous_sequence \in 0..LastSequence /\ sequence \in PacketNumbers /\ base \in Nat
    /\ previous_accepted \in 0..Len(previous_data) /\ Len(previous_data) <= MaxData
    /\ stopped \in {"no", "conflict", "gap", "overrun", "ack_failed"}
    /\ frames \in Seq(Packets) /\ acks \in Seq(Answers)
    /\ \A i \in DOMAIN frames : frames[i].data \in Seq(Nat) /\ Len(frames[i].data) \in 1..MaxData /\ frames[i].sequence \in PacketNumbers
    /\ \A i \in DOMAIN acks : acks[i].ack \in PacketNumbers /\ acks[i].accepted \in Nat

\* A BMC that continues after a partial acceptance has one datagram on the way.
OneAtATime ==
    resend = "suffix" =>
        /\ Len(frames) + Len(acks) <= 1
        /\ sending = <<>> => Len(frames) + Len(acks) = 0

\* A copy of the packet accepted before the current one, all of it accepted.
Stale(f) ==
    /\ f.sequence = previous_sequence /\ f.sequence # sequence
    /\ f.data = previous_data /\ previous_accepted = Len(previous_data)
\* Characters of the current packet the console knows: those of the copy it
\* accepted, or the rest of the packet before.
Expected == IF previous_sequence = sequence THEN Len(previous_data) ELSE Len(previous_data) - previous_accepted
\* A copy of the packet being sent, at least what the console expects of it.
Current(f) ==
    /\ f.sequence = sequence
    /\ f.data = From(base, Len(f.data))
    /\ Len(f.data) \in Expected..Len(sending)

\* Console and BMC agree on the position in the text.
Agreed ==
    /\ sending = From(base, Len(sending))
    /\ previous_accepted <= Total
    /\ previous_data = From(Total - previous_accepted, Len(previous_data))
    /\ IF previous_sequence = sequence
       THEN sending # <<>> /\ base + previous_accepted = Total
       ELSE sequence = (IF previous_sequence = 0 THEN 1 ELSE Successor(previous_sequence)) /\ base = Total
    /\ Expected <= Len(sending)
    /\ \A i \in DOMAIN frames : ~frames[i].overrun /\ (Current(frames[i]) \/ Stale(frames[i]))
    /\ \A i, j \in DOMAIN frames : i < j /\ frames[i].sequence = sequence =>
          frames[j].sequence = sequence /\ Len(frames[i].data) <= Len(frames[j].data)
    /\ \A i \in DOMAIN acks : acks[i].ack = sequence =>
          /\ previous_sequence = sequence /\ acks[i].accepted <= previous_accepted
          /\ resend = "suffix" => acks[i].accepted = previous_accepted
    /\ \A i, j \in DOMAIN acks : i < j /\ acks[i].ack = sequence => acks[j].ack = sequence

\* Characters were dropped: what is on the way carries the flag or is old.
Behind ==
    /\ \A i \in DOMAIN acks : acks[i].ack # sequence \/ acks[i].accepted = 0
    /\ stopped = "no" => \A i \in DOMAIN frames : frames[i].overrun \/ Stale(frames[i])

\* Kept apart from the other types for the provers.
Flagged == overrun \in BOOLEAN

\* The inductive invariant of SolFlow.
FlowInv ==
    /\ FlowTypes /\ Flagged /\ OneAtATime
    /\ stopped \in {"conflict", "gap"} => overrun
    /\ ~overrun /\ stopped # "overrun" => Agreed
    /\ overrun /\ stopped # "overrun" => Behind

\* The invariant holds before the first packet.
LEMMA FlowInit == Init => FlowInv
<1> SUFFICES ASSUME Init PROVE FlowInv
  OBVIOUS
<1> USE DEF Init
<1>1. From(0, 0) = <<>>
  BY FromIs, EmptySeq
<1>2. FlowTypes
  BY FlowAssumption, EmptySeq DEF FlowTypes, PacketNumbers
<1>3. Agreed
  BY <1>1 DEF Agreed, Expected, Total
<1>4. Flagged
  BY Zenon DEF Flagged
<1> QED
  BY <1>2, <1>3, <1>4 DEF FlowInv, OneAtATime

\* read() moves characters from the queue to the caller and changes nothing
\* else.
LEMMA Reading ==
  ASSUME FlowInv, NEW n \in 1..QueueLimit, ReadOutput(n)
  PROVE  FlowInv' /\ Total' = Total
<1> USE DEF FlowInv
<1>1. /\ n \in Nat /\ n <= Len(output) /\ output \in Seq(Nat) /\ delivered \in Seq(Nat)
      /\ delivered' = delivered \o SubSeq(output, 1, n) /\ output' = SubSeq(output, n + 1, Len(output))
  BY FlowAssumption DEF ReadOutput, FlowTypes
<1>2. UNCHANGED <<previous_sequence, previous_data, previous_accepted, stopped, resend, base, sequence, sending, overrun, frames, acks>>
  BY DEF ReadOutput, bmc_vars
<1> HIDE DEF FlowInv
<1>3. /\ SubSeq(output, 1, n) \in Seq(Nat) /\ Len(SubSeq(output, 1, n)) = n
      /\ output' \in Seq(Nat) /\ Len(output') = Len(output) - n
  <2>1. \A i \in 1..Len(output) : output[i] \in Nat
    BY <1>1, ElementOfSeq
  <2>2. Len(output) \in Nat
    BY <1>1, LenProperties
  <2> QED
    BY <1>1, <2>1, <2>2, SubSeqProperties
<1>4. delivered' \in Seq(Nat) /\ Len(delivered') = Len(delivered) + n
  BY <1>1, <1>3, ConcatProperties
<1>l. Len(output) \in Nat /\ Len(delivered) \in Nat
  BY <1>1, LenProperties
<1>5. Total' = Total
  <2>1. n \in Nat /\ Len(output') = Len(output) - n /\ Len(delivered') = Len(delivered) + n
    BY <1>1, <1>3, <1>4
  <2> QED
    BY <1>l, <2>1 DEF Total
<1>6. FlowTypes'
  <2>1. Len(output') <= QueueLimit
    BY <1>1, <1>3, <1>l, FlowAssumption DEF FlowInv, FlowTypes
  <2> QED
    BY <1>2, <1>3, <1>4, <2>1 DEF FlowInv, FlowTypes
<1>7. OneAtATime' /\ Behind' = Behind /\ Agreed' = Agreed
  BY <1>2, <1>5 DEF FlowInv, OneAtATime, Agreed, Behind, Stale, Current, Expected
<1>8. Flagged'
  BY <1>2, Zenon DEF FlowInv, Flagged
<1> QED
  BY <1>2, <1>5, <1>6, <1>7, <1>8 DEF FlowInv

\* Losing datagrams keeps the invariant: it speaks of all that is on the way.
LEMMA LessOnTheWay ==
  ASSUME FlowInv,
         UNCHANGED <<output, previous_sequence, previous_data, previous_accepted, delivered, stopped,
                     resend, base, sequence, sending, overrun>>,
         frames' \in Seq(Packets), acks' \in Seq(Answers),
         KeepsOrder(frames', frames), KeepsOrder(acks', acks),
         Len(frames') + Len(acks') <= Len(frames) + Len(acks)
  PROVE  FlowInv'
<1>1. UNCHANGED <<output, previous_sequence, previous_data, previous_accepted, delivered, stopped,
                  resend, base, sequence, sending, overrun>>
  OBVIOUS
<1>2. frames \in Seq(Packets) /\ acks \in Seq(Answers)
  BY DEF FlowInv, FlowTypes
<1>3. /\ frames' \in Seq(Packets) /\ acks' \in Seq(Answers)
      /\ Len(frames') + Len(acks') <= Len(frames) + Len(acks)
      /\ Len(frames') + Len(acks') \in Nat
      /\ \A i \in DOMAIN frames' : \E k \in DOMAIN frames : frames'[i] = frames[k]
      /\ \A i, j \in DOMAIN frames' : i < j =>
            \E k, l \in DOMAIN frames : k < l /\ frames'[i] = frames[k] /\ frames'[j] = frames[l]
      /\ \A i \in DOMAIN acks' : \E k \in DOMAIN acks : acks'[i] = acks[k]
      /\ \A i, j \in DOMAIN acks' : i < j =>
            \E k, l \in DOMAIN acks : k < l /\ acks'[i] = acks[k] /\ acks'[j] = acks[l]
  BY LenProperties DEF KeepsOrder
<1>4. FlowTypes'
  BY <1>1, <1>3 DEF FlowInv, FlowTypes
<1>5. OneAtATime'
  <2>1. Len(frames) + Len(acks) \in Nat
    BY <1>2, LenProperties
  <2> QED
    BY <1>1, <1>3, <2>1 DEF FlowInv, OneAtATime
<1>6. Behind => Behind'
  BY <1>1, <1>3 DEF Behind, Stale
<1>7. Agreed => Agreed'
  <2> SUFFICES ASSUME Agreed PROVE Agreed'
    OBVIOUS
  <2>1. Total' = Total /\ Expected' = Expected
    BY <1>1 DEF Total, Expected
  <2>2. /\ \A i \in DOMAIN frames' : ~frames'[i].overrun /\ (Current(frames[i])' \/ Stale(frames[i])')
        /\ \A i, j \in DOMAIN frames' : i < j /\ frames'[i].sequence = sequence =>
              frames'[j].sequence = sequence /\ Len(frames'[i].data) <= Len(frames'[j].data)
    <3>2. /\ \A i \in DOMAIN frames : ~frames[i].overrun /\ (Current(frames[i]) \/ Stale(frames[i]))
          /\ \A i, j \in DOMAIN frames : i < j /\ frames[i].sequence = sequence =>
                frames[j].sequence = sequence /\ Len(frames[i].data) <= Len(frames[j].data)
      BY DEF Agreed
    <3>3. ASSUME NEW i \in DOMAIN frames' PROVE ~frames'[i].overrun /\ (Current(frames[i])' \/ Stale(frames[i])')
      <4>1. PICK k \in DOMAIN frames : frames'[i] = frames[k]
        BY <1>3
      <4> QED
        BY <3>2, <4>1, <1>1, <2>1 DEF Current, Stale
    <3>4. ASSUME NEW i \in DOMAIN frames', NEW j \in DOMAIN frames', i < j, frames'[i].sequence = sequence
          PROVE  frames'[j].sequence = sequence /\ Len(frames'[i].data) <= Len(frames'[j].data)
      <4>1. PICK k \in DOMAIN frames, l \in DOMAIN frames : k < l /\ frames'[i] = frames[k] /\ frames'[j] = frames[l]
        BY <1>3, <3>4
      <4> QED
        BY <3>2, <3>4, <4>1
    <3> QED
      BY <3>3, <3>4
  <2>3. /\ \A i \in DOMAIN acks' : acks'[i].ack = sequence =>
              /\ previous_sequence = sequence /\ acks'[i].accepted <= previous_accepted
              /\ resend = "suffix" => acks'[i].accepted = previous_accepted
        /\ \A i, j \in DOMAIN acks' : i < j /\ acks'[i].ack = sequence => acks'[j].ack = sequence
    BY <1>3 DEF Agreed
  <2>4. /\ sending' = From(base', Len(sending')) /\ previous_accepted' <= Total'
        /\ previous_data' = From(Total' - previous_accepted', Len(previous_data'))
        /\ IF previous_sequence' = sequence'
           THEN sending' # <<>> /\ base' + previous_accepted' = Total'
           ELSE sequence' = (IF previous_sequence' = 0 THEN 1 ELSE Successor(previous_sequence')) /\ base' = Total'
        /\ Expected' <= Len(sending')
    BY <1>1, <2>1 DEF Agreed
  <2> QED
    BY <1>1, <2>2, <2>3, <2>4 DEF Agreed
<1>8. Flagged'
  BY <1>1, Zenon DEF FlowInv, Flagged
<1> QED
  BY <1>1, <1>4, <1>5, <1>6, <1>7, <1>8 DEF FlowInv

\* A queue that did not change is in its own order.
LEMMA KeepsAll ==
  ASSUME NEW S, NEW s \in Seq(S)
  PROVE  KeepsOrder(s, s)
  BY DEF KeepsOrder

\* The network loses a packet or an acknowledgement.
LEMMA Losing ==
  ASSUME FlowInv, (\E i \in DOMAIN frames : LoseFrame(i)) \/ (\E i \in DOMAIN acks : LoseAck(i))
  PROVE  FlowInv' /\ UNCHANGED <<output, delivered, stopped>>
<1>1. UNCHANGED <<output, previous_sequence, previous_data, previous_accepted, delivered, stopped,
                  resend, base, sequence, sending, overrun>>
  BY DEF LoseFrame, LoseAck, flow_vars, bmc_vars
<1>2. /\ frames \in Seq(Packets) /\ acks \in Seq(Answers)
      /\ Len(frames) \in Nat /\ Len(acks) \in Nat
  BY LenProperties DEF FlowInv, FlowTypes
<1>3. CASE \E i \in DOMAIN frames : LoseFrame(i)
  <2>1. PICK n \in DOMAIN frames : frames' = RemoveAt(frames, n) /\ acks' = acks
    BY <1>3 DEF LoseFrame
  <2>2. frames' \in Seq(Packets) /\ Len(frames') = Len(frames) - 1 /\ KeepsOrder(frames', frames)
    BY <1>2, <2>1, RemovedKeepsOrder
  <2> QED
    BY <1>1, <1>2, <2>1, <2>2, KeepsAll, LessOnTheWay
<1>4. CASE \E i \in DOMAIN acks : LoseAck(i)
  <2>1. PICK n \in DOMAIN acks : acks' = RemoveAt(acks, n) /\ frames' = frames
    BY <1>4 DEF LoseAck
  <2>2. acks' \in Seq(Answers) /\ Len(acks') = Len(acks) - 1 /\ KeepsOrder(acks', acks)
    BY <1>2, <2>1, RemovedKeepsOrder
  <2> QED
    BY <1>1, <1>2, <2>1, <2>2, KeepsAll, LessOnTheWay
<1> QED
  BY <1>3, <1>4

\* A datagram is put on the way behind the others.
LEMMA Appended ==
  ASSUME NEW S, NEW s \in Seq(S), NEW e \in S
  PROVE  /\ Append(s, e) \in Seq(S) /\ Len(Append(s, e)) = Len(s) + 1
         /\ \A i \in DOMAIN Append(s, e) :
               /\ i \in 1..Len(Append(s, e))
               /\ (i \in DOMAIN s /\ Append(s, e)[i] = s[i]) \/ (i = Len(Append(s, e)) /\ Append(s, e)[i] = e)
  BY AppendProperties, LenProperties

\* A packet of the BMC that continues what the console expects keeps the
\* invariant.
LEMMA PacketSent ==
  ASSUME FlowInv, NEW n \in 1..MaxData, Len(sending) <= n, Send(sequence, From(base, n), overrun),
         UNCHANGED <<output, previous_sequence, previous_data, previous_accepted, stopped, delivered, base, acks>>,
         resend = "suffix" => Len(frames) + Len(acks) = 0
  PROVE  FlowInv'
<1> DEFINE new == [sequence |-> sequence, data |-> From(base, n), overrun |-> overrun]
<1>1. frames' = Append(frames, new) /\ sending' = From(base, n) /\ UNCHANGED <<resend, sequence, overrun>>
  BY DEF Send
<1>2. /\ n \in Nat \ {0} /\ n <= MaxData /\ frames \in Seq(Packets) /\ acks \in Seq(Answers)
      /\ base \in Nat /\ sequence \in PacketNumbers /\ Len(sending) \in Nat
  BY FlowAssumption, LenProperties DEF FlowInv, FlowTypes
<1>3. sending' \in Seq(Nat) /\ Len(sending') = n
  BY <1>1, <1>2, FromIs
<1>4. new \in Packets /\ new.sequence = sequence /\ new.data = From(base, n) /\ new.overrun = overrun
  <2>1. sequence \in Nat /\ From(base, n) \in Seq(Nat)
    BY <1>1, <1>2, <1>3, FlowAssumption DEF PacketNumbers
  <2>2. overrun \in BOOLEAN
    BY DEF FlowInv, Flagged
  <2> QED
    BY <2>1, <2>2, Zenon DEF Packets
<1> HIDE DEF new
<1>5. /\ frames' \in Seq(Packets) /\ Len(frames') = Len(frames) + 1
      /\ \A i \in DOMAIN frames' :
            /\ i \in 1..Len(frames')
            /\ (i \in DOMAIN frames /\ frames'[i] = frames[i]) \/ (i = Len(frames') /\ frames'[i] = new)
  BY <1>1, <1>2, <1>4, Appended
<1>6. FlowTypes'
  <2>1. \A i \in DOMAIN frames' : frames'[i].data \in Seq(Nat) /\ Len(frames'[i].data) \in 1..MaxData /\ frames'[i].sequence \in PacketNumbers
    BY <1>1, <1>2, <1>3, <1>4, <1>5 DEF FlowInv, FlowTypes
  <2> QED
    BY <1>1, <1>3, <1>5, <2>1 DEF FlowInv, FlowTypes
<1>7. OneAtATime'
  <2>1. Len(frames) \in Nat /\ Len(acks) \in Nat
    BY <1>2, LenProperties
  <2>2. sending' # <<>>
    BY <1>2, <1>3, EmptySeq
  <2> QED
    BY <1>1, <1>5, <2>1, <2>2 DEF OneAtATime
<1>8. overrun /\ Behind => Behind'
  BY <1>1, <1>4, <1>5 DEF Behind, Stale
<1>9. ~overrun /\ Agreed => Agreed'
  <2> SUFFICES ASSUME ~overrun, Agreed PROVE Agreed'
    OBVIOUS
  <2>1. Total' = Total /\ Expected' = Expected
    BY <1>1 DEF Total, Expected
  <2>2. Expected <= Len(sending) /\ Expected \in Int
    BY LenProperties DEF Agreed, Expected, FlowInv, FlowTypes
  <2>3. /\ new.sequence = sequence' /\ Len(new.data) = n /\ new.data = From(base', Len(new.data))
        /\ n \in Expected'..Len(sending')
    BY <1>1, <1>2, <1>3, <1>4, <2>1, <2>2
  <2>4. ASSUME NEW i \in DOMAIN frames' PROVE ~frames'[i].overrun /\ (Current(frames[i])' \/ Stale(frames[i])')
    <3>1. CASE frames'[i] = new
      BY <1>4, <2>3, <3>1 DEF Current
    <3>2. CASE i \in DOMAIN frames /\ frames'[i] = frames[i]
      <4>1. ~frames[i].overrun /\ (Current(frames[i]) \/ Stale(frames[i]))
        BY <3>2 DEF Agreed
      <4>2. Len(frames[i].data) \in Nat
        BY <3>2, FlowAssumption DEF FlowInv, FlowTypes
      <4> QED
        BY <1>1, <1>2, <1>3, <2>1, <2>2, <3>2, <4>1, <4>2 DEF Current, Stale
    <3> QED
      BY <1>5, <3>1, <3>2
  <2>5. ASSUME NEW i \in DOMAIN frames', NEW j \in DOMAIN frames', i < j, frames'[i].sequence = sequence
        PROVE  frames'[j].sequence = sequence /\ Len(frames'[i].data) <= Len(frames'[j].data)
    <3>0. i \in DOMAIN frames /\ frames'[i] = frames[i]
      BY <1>5, <2>5
    <3>1. CASE frames'[j] = new
      <4>1. Len(frames[i].data) <= Len(sending) /\ Len(frames[i].data) \in Nat
        BY <3>0, <2>5, FlowAssumption, SMTT(30) DEF Agreed, Current, Stale, FlowInv, FlowTypes
      <4> QED
        BY <1>1, <1>2, <1>3, <1>4, <3>0, <3>1, <4>1
    <3>2. CASE j \in DOMAIN frames /\ frames'[j] = frames[j]
      BY <2>5, <3>0, <3>2 DEF Agreed
    <3> QED
      BY <1>5, <3>1, <3>2
  <2>6. sending' # <<>> /\ sending' = From(base', Len(sending')) /\ Expected' <= Len(sending')
    <3>1. sending' # <<>>
      BY <1>2, <1>3, EmptySeq
    <3>2. Expected' <= Len(sending')
      BY <1>2, <1>3, <2>1, <2>2
    <3> QED
      BY <1>1, <1>3, <3>1, <3>2
  <2>7. /\ previous_accepted' <= Total'
        /\ previous_data' = From(Total' - previous_accepted', Len(previous_data'))
        /\ IF previous_sequence' = sequence'
           THEN sending' # <<>> /\ base' + previous_accepted' = Total'
           ELSE sequence' = (IF previous_sequence' = 0 THEN 1 ELSE Successor(previous_sequence')) /\ base' = Total'
    BY <1>1, <2>1, <2>6 DEF Agreed
  <2>8. /\ \A i \in DOMAIN acks' : acks'[i].ack = sequence' =>
              /\ previous_sequence' = sequence' /\ acks'[i].accepted <= previous_accepted'
              /\ resend' = "suffix" => acks'[i].accepted = previous_accepted'
        /\ \A i, j \in DOMAIN acks' : i < j /\ acks'[i].ack = sequence' => acks'[j].ack = sequence'
    BY <1>1 DEF Agreed
  <2>9. /\ \A i \in DOMAIN frames' : ~frames'[i].overrun /\ (Current(frames[i])' \/ Stale(frames[i])')
        /\ \A i, j \in DOMAIN frames' : i < j /\ frames'[i].sequence = sequence' =>
              frames'[j].sequence = sequence' /\ Len(frames'[i].data) <= Len(frames'[j].data)
    BY <1>1, <2>4, <2>5
  <2> QED
    BY <2>6, <2>7, <2>8, <2>9 DEF Agreed
<1>10. Flagged'
  BY <1>1, Zenon DEF FlowInv, Flagged
<1> QED
  BY <1>1, <1>6, <1>7, <1>8, <1>9, <1>10 DEF FlowInv

\* The BMC sends a packet, or repeats it with characters printed since.
LEMMA Sending ==
  ASSUME FlowInv, NEW n \in 1..MaxData, BmcSend(n) \/ BmcRepeat(n)
  PROVE  FlowInv' /\ UNCHANGED <<output, delivered, stopped>>
<1>0. Len(sending) \in Nat /\ (sending = <<>> => Len(sending) = 0) /\ Len(<<>>) = 0
  BY LenProperties DEF FlowInv, FlowTypes
<1>1. /\ Send(sequence, From(base, n), overrun)
      /\ UNCHANGED <<output, previous_sequence, previous_data, previous_accepted, stopped, delivered, base, acks>>
  BY DEF BmcSend, BmcRepeat, flow_vars
<1>2. Len(sending) <= n
  BY <1>0, FlowAssumption DEF BmcSend, BmcRepeat
<1>3. resend = "suffix" => Len(frames) + Len(acks) = 0
  BY <1>0 DEF BmcSend, BmcRepeat, FlowInv, OneAtATime
<1> QED
  BY <1>1, <1>2, <1>3, PacketSent

\* The BMC drops characters: from here on its packets carry the flag.
LEMMA Overrunning ==
  ASSUME FlowInv, NEW n \in 1..MaxData, BmcOverrun(n)
  PROVE  FlowInv' /\ UNCHANGED <<output, delivered, stopped>>
<1>1. /\ base' = base + n /\ sending' = <<>> /\ overrun' = TRUE
      /\ UNCHANGED <<output, previous_sequence, previous_data, previous_accepted, stopped, delivered, resend, frames, acks>>
      /\ sending # <<>> => frames = <<>> /\ acks = <<>>
      /\ sending = <<>> => sequence' = sequence
      /\ sequence' \in {sequence, Successor(sequence)}
  BY DEF BmcOverrun, flow_vars
<1>2. sequence' \in PacketNumbers /\ base' \in Nat /\ sending' \in Seq(Nat) /\ Len(<<>>) = 0
  BY <1>1, SuccessorIs, FlowAssumption, EmptySeq DEF FlowInv, FlowTypes
<1>3. FlowTypes'
  BY <1>1, <1>2 DEF FlowInv, FlowTypes
<1>4. OneAtATime'
  BY <1>1, <1>2 DEF FlowInv, OneAtATime
<1>5. ASSUME stopped # "overrun" PROVE Behind'
  <2>1. CASE sending # <<>>
    <3>1. DOMAIN frames = {} /\ DOMAIN acks = {}
      BY <1>1, <2>1
    <3> QED
      BY <1>1, <3>1 DEF Behind
  <2>2. CASE sending = <<>> /\ overrun
    BY <1>1, <1>5, <2>2 DEF FlowInv, Behind, Stale
  <2>3. CASE sending = <<>> /\ ~overrun
    <3>1. Agreed
      BY <1>5, <2>3 DEF FlowInv
    <3>2. previous_sequence # sequence
      BY <2>3, <3>1 DEF Agreed
    <3>3. \A i \in DOMAIN acks : acks[i].ack # sequence
      BY <3>1, <3>2 DEF Agreed
    <3>4. ASSUME NEW i \in DOMAIN frames PROVE Stale(frames[i])
      <4>1. Len(frames[i].data) \in 1..MaxData /\ Len(sending) = 0
        BY <1>2, <2>3 DEF FlowInv, FlowTypes
      <4>2. Expected \in Int /\ ~(Len(frames[i].data) \in Expected..Len(sending))
        BY <4>1, FlowAssumption, LenProperties, SMTT(30) DEF FlowInv, FlowTypes, Expected
      <4> QED
        BY <3>1, <4>2 DEF Agreed, Current
    <3> QED
      BY <1>1, <2>3, <3>3, <3>4 DEF Behind, Stale
  <2> QED
    BY <2>1, <2>2, <2>3
<1>6. Flagged'
  BY <1>1, Zenon DEF Flagged
<1> QED
  BY <1>1, <1>3, <1>4, <1>5, <1>6 DEF FlowInv

\* The BMC hears of an acceptance, forgets what was accepted and goes on with
\* the rest.
LEMMA Acknowledged ==
  ASSUME FlowInv, BmcAcked
  PROVE  FlowInv' /\ UNCHANGED <<output, delivered, stopped>>
<1> DEFINE a == Head(acks)
           current == sending # <<>> /\ a.ack = sequence
<1>1. /\ acks # <<>> /\ acks' = Tail(acks)
      /\ UNCHANGED <<output, previous_sequence, previous_data, previous_accepted, stopped, delivered>>
  BY DEF BmcAcked, flow_vars
<1>2. /\ acks \in Seq(Answers) /\ frames \in Seq(Packets) /\ Len(acks) \in Nat \ {0} /\ Len(frames) \in Nat
      /\ sending \in Seq(Nat) /\ Len(sending) \in Nat /\ (sending # <<>> => Len(sending) # 0)
      /\ previous_data \in Seq(Nat) /\ Len(previous_data) \in Nat /\ previous_accepted \in Nat
      /\ previous_accepted <= Len(previous_data)
      /\ base \in Nat /\ sequence \in PacketNumbers
  BY <1>1, LenProperties, EmptySeq DEF FlowInv, FlowTypes
<1>3. /\ acks' \in Seq(Answers) /\ a = acks[1] /\ 1 \in DOMAIN acks /\ Len(acks') = Len(acks) - 1
      /\ \A i \in DOMAIN acks' : i \in Nat \ {0} /\ i + 1 \in DOMAIN acks /\ acks'[i] = acks[i + 1]
      /\ KeepsOrder(acks', acks)
  BY <1>1, <1>2, RestOf, RestKeepsOrder
<1>4. a.accepted \in Nat /\ a.ack \in PacketNumbers
  BY <1>3 DEF FlowInv, FlowTypes
<1>5. /\ Successor(sequence) \in PacketNumbers /\ Successor(sequence) # sequence
      /\ Successor(sequence) # 0 /\ sequence # 0
  BY <1>2, SuccessorIs DEF PacketNumbers
<1>6. CASE UNCHANGED <<bmc_vars, frames>>
  BY <1>1, <1>2, <1>3, <1>6, KeepsAll, LessOnTheWay DEF bmc_vars
<1>7. ASSUME current, stopped # "overrun", a.accepted # 0
      PROVE  /\ ~overrun /\ Agreed /\ previous_sequence = sequence
             /\ a.accepted <= previous_accepted /\ (resend = "suffix" => a.accepted = previous_accepted)
             /\ base + previous_accepted = Total /\ Len(previous_data) <= Len(sending)
             /\ \A i \in DOMAIN acks' : acks'[i].ack = sequence
  <2>1. ~overrun /\ Agreed
    BY <1>3, <1>4, <1>7 DEF FlowInv, Behind
  <2>2. /\ previous_sequence = sequence
        /\ a.accepted <= previous_accepted /\ (resend = "suffix" => a.accepted = previous_accepted)
    BY <1>3, <1>7, <2>1 DEF Agreed
  <2>3. \A i \in DOMAIN acks' : acks'[i].ack = sequence
    <3>1. \A i, j \in DOMAIN acks : i < j /\ acks[i].ack = sequence => acks[j].ack = sequence
      BY <2>1 DEF Agreed
    <3> QED
      BY <1>3, <1>7, <3>1
  <2>4. base + previous_accepted = Total /\ Len(previous_data) <= Len(sending)
    BY <2>1, <2>2 DEF Agreed, Expected
  <2> QED
    BY <2>1, <2>2, <2>3, <2>4
<1>8. CASE /\ current /\ a.accepted >= Len(sending)
           /\ base' = base + Len(sending)
           /\ sending' = <<>>
           /\ sequence' = Successor(sequence)
           /\ overrun' = FALSE
           /\ UNCHANGED <<resend, frames>>
  <2>1. a.accepted # 0
    BY <1>2, <1>4, <1>8
  <2>2. FlowTypes'
    BY <1>1, <1>2, <1>3, <1>5, <1>8, EmptySeq DEF FlowInv, FlowTypes
  <2>3. Flagged'
    BY <1>8, Zenon DEF Flagged
  <2>4. OneAtATime'
    BY <1>1, <1>2, <1>3, <1>8 DEF FlowInv, OneAtATime
  <2>5. stopped \notin {"conflict", "gap"}
    BY <1>7, <1>8, <2>1 DEF FlowInv
  <2>6. ASSUME stopped # "overrun" PROVE Agreed'
    <3>1. /\ ~overrun /\ Agreed /\ previous_sequence = sequence
          /\ base + previous_accepted = Total /\ Len(previous_data) <= Len(sending)
          /\ \A i \in DOMAIN acks' : acks'[i].ack = sequence
          /\ a.accepted <= previous_accepted
      BY <1>7, <1>8, <2>1, <2>6
    <3>2. previous_accepted = Len(sending) /\ Len(previous_data) = Len(sending)
      BY <1>2, <1>4, <1>8, <3>1
    <3>3. Total' = Total /\ Expected' = 0 /\ Len(sending') = 0 /\ base' = Total
      BY <1>1, <1>2, <1>5, <1>8, <3>1, <3>2, EmptySeq DEF Total, Expected
    <3>4. From(base', 0) = <<>>
      BY <1>2, <1>8, FromIs, EmptySeq
    <3>5. ASSUME NEW i \in DOMAIN frames PROVE Stale(frames[i])' /\ ~frames[i].overrun /\ frames[i].sequence # sequence'
      <4>1. Current(frames[i]) /\ ~frames[i].overrun
        BY <3>1 DEF Agreed, Stale
      <4>2. Len(frames[i].data) \in Nat
        BY FlowAssumption DEF FlowInv, FlowTypes
      <4>3. Len(frames[i].data) = Len(previous_data) /\ frames[i].data = From(base, Len(frames[i].data)) /\ frames[i].sequence = sequence
        BY <1>2, <3>1, <3>2, <4>1, <4>2 DEF Current, Expected
      <4>4. previous_data = From(Total - previous_accepted, Len(previous_data)) /\ Total - previous_accepted = base
        BY <1>2, <3>1 DEF Agreed
      <4> QED
        BY <1>1, <1>5, <1>8, <3>1, <3>2, <4>1, <4>3, <4>4 DEF Stale
    <3>6. /\ previous_accepted' <= Total'
          /\ previous_data' = From(Total' - previous_accepted', Len(previous_data'))
          /\ previous_sequence' # sequence'
          /\ sequence' = (IF previous_sequence' = 0 THEN 1 ELSE Successor(previous_sequence'))
      BY <1>1, <1>5, <1>8, <3>1, <3>3 DEF Agreed
    <3>7. \A i \in DOMAIN acks' : acks'[i].ack # sequence'
      BY <1>5, <1>8, <3>1
    <3>8. /\ sending' = From(base', Len(sending')) /\ Expected' <= Len(sending')
          /\ previous_sequence' # sequence' /\ base' = Total'
      BY <1>8, <3>3, <3>4, <3>6
    <3>9. /\ \A i \in DOMAIN frames' : ~frames'[i].overrun /\ (Current(frames[i])' \/ Stale(frames[i])')
          /\ \A i, j \in DOMAIN frames' : i < j /\ frames'[i].sequence = sequence' =>
                frames'[j].sequence = sequence' /\ Len(frames'[i].data) <= Len(frames'[j].data)
      BY <1>8, <3>5
    <3> QED
      BY <3>6, <3>7, <3>8, <3>9 DEF Agreed
  <2> QED
    BY <1>1, <1>8, <2>2, <2>3, <2>4, <2>5, <2>6 DEF FlowInv
<1>9. CASE /\ current /\ a.accepted < Len(sending) /\ resend = "suffix"
           /\ base' = base + a.accepted
           /\ \E n \in (Len(sending) - a.accepted)..MaxData :
                 /\ base' + n <= Length
                 /\ Send(Successor(sequence), From(base', n), overrun)
  <2>1. PICK n \in (Len(sending) - a.accepted)..MaxData : Send(Successor(sequence), From(base', n), overrun)
    BY <1>9
  <2> DEFINE new == [sequence |-> Successor(sequence), data |-> From(base', n), overrun |-> overrun]
  <2>2. /\ frames' = Append(frames, new) /\ sending' = From(base', n) /\ sequence' = Successor(sequence)
        /\ UNCHANGED <<resend, overrun>>
    BY <2>1 DEF Send
  <2>0. base' = base + a.accepted /\ a.accepted < Len(sending) /\ resend = "suffix"
    BY <1>9
  <2>3. n \in 1..MaxData /\ n \in Nat /\ n >= Len(sending) - a.accepted /\ base' \in Nat
    <3> HIDE DEF a
    <3>1. MaxData \in Nat /\ Len(sending) - a.accepted \in Nat \ {0}
      BY <1>2, <1>4, <2>0, FlowAssumption, SMTT(30)
    <3> QED
      BY <1>2, <1>4, <2>0, <3>1
  <2>4. frames = <<>> /\ acks' = <<>> /\ Len(acks) = 1 /\ Len(frames) = 0
    <3>0. Len(frames) + Len(acks) <= 1
      BY <2>0 DEF FlowInv, OneAtATime
    <3>1. Len(frames) = 0 /\ Len(acks) = 1
      <4>1. Len(acks) \in Nat \ {0} /\ Len(frames) \in Nat
        BY <1>2
      <4> HIDE DEF a
      <4> QED
        BY <3>0, <4>1
    <3> QED
      BY <1>2, <1>3, <3>1, EmptySeq
  <2>5. new \in Packets /\ new.sequence = Successor(sequence) /\ new.data = From(base', n) /\ new.overrun = overrun
    <3>1. Successor(sequence) \in Nat /\ From(base', n) \in Seq(Nat)
      <4>1. Successor(sequence) \in Nat
        BY <1>5, FlowAssumption DEF PacketNumbers
      <4> QED
        BY <2>3, <4>1, FromIs
    <3>2. overrun \in BOOLEAN
      BY DEF FlowInv, Flagged
    <3> QED
      BY <3>1, <3>2, Zenon DEF Packets
  <2> HIDE DEF new
  <2>6. frames' \in Seq(Packets) /\ Len(frames') = 1 /\ \A i \in DOMAIN frames' : i = 1 /\ frames'[i] = new
    <3>1. /\ frames' \in Seq(Packets) /\ Len(frames') = Len(frames) + 1
          /\ \A i \in DOMAIN frames' : i \in 1..Len(frames') /\ ((i \in DOMAIN frames /\ frames'[i] = frames[i]) \/ (i = Len(frames') /\ frames'[i] = new))
      BY <1>2, <2>2, <2>5, Appended
    <3> QED
      BY <2>4, <3>1
  <2>7. sending' \in Seq(Nat) /\ Len(sending') = n /\ Len(new.data) = n /\ new.data \in Seq(Nat) /\ sending' # <<>>
    BY <2>2, <2>3, <2>5, FromIs, EmptySeq
  <2>8. DOMAIN acks' = {} /\ Len(acks') = 0
    BY <2>4, EmptySeq
  <2>9. FlowTypes'
    <3>1. \A i \in DOMAIN frames' : frames'[i].data \in Seq(Nat) /\ Len(frames'[i].data) \in 1..MaxData /\ frames'[i].sequence \in PacketNumbers
      BY <1>5, <2>3, <2>5, <2>6, <2>7
    <3> QED
      BY <1>1, <1>3, <1>5, <2>2, <2>3, <2>6, <2>7, <2>8, <3>1 DEF FlowInv, FlowTypes
  <2>10. OneAtATime'
    BY <2>6, <2>7, <2>8 DEF OneAtATime
  <2>11. Flagged'
    BY <2>2, Zenon DEF FlowInv, Flagged
  <2>12. overrun => Behind'
    BY <2>5, <2>6, <2>8 DEF Behind
  <2>13. ASSUME ~overrun, stopped # "overrun" PROVE Agreed'
    <3>1. Agreed
      BY <2>13 DEF FlowInv
    <3>2. /\ previous_sequence = sequence /\ a.accepted = previous_accepted
          /\ base + previous_accepted = Total /\ Len(previous_data) <= Len(sending)
      <4>1. previous_sequence = sequence /\ a.accepted = previous_accepted
        BY <1>3, <1>9, <3>1 DEF Agreed
      <4> QED
        BY <3>1, <4>1 DEF Agreed, Expected
    <3>3. /\ Total' = Total /\ Expected' = Len(previous_data) - previous_accepted /\ Expected' <= n /\ base' = Total
          /\ previous_sequence' # sequence' /\ previous_sequence # 0
      <4>1. previous_sequence' # sequence' /\ previous_sequence # 0
        BY <1>1, <1>5, <2>2, <3>2, FlowAssumption DEF PacketNumbers
      <4>2. Expected' = Len(previous_data) - previous_accepted
        BY <1>1, <4>1 DEF Expected
      <4>3. Total' = Total /\ base' = Total
        BY <1>1, <2>0, <3>2 DEF Total
      <4>4. /\ n >= Len(sending) - previous_accepted /\ Len(previous_data) <= Len(sending)
            /\ n \in Nat /\ Len(sending) \in Nat /\ previous_accepted \in Nat /\ Len(previous_data) \in Nat
        BY <1>2, <1>4, <2>3, <3>2
      <4>5. Len(previous_data) - previous_accepted <= n
        BY <4>4
      <4> QED
        BY <4>1, <4>2, <4>3, <4>5
    <3>4. /\ previous_accepted' <= Total'
          /\ previous_data' = From(Total' - previous_accepted', Len(previous_data'))
      BY <1>1, <3>1, <3>3 DEF Agreed
    <3>5. /\ sending' = From(base', Len(sending')) /\ Expected' <= Len(sending')
          /\ sequence' = (IF previous_sequence' = 0 THEN 1 ELSE Successor(previous_sequence')) /\ base' = Total'
      BY <1>1, <2>2, <2>7, <3>2, <3>3
    <3>6. ASSUME NEW i \in DOMAIN frames' PROVE ~frames'[i].overrun /\ Current(frames[i])'
      <4>1. Expected' \in Int
        BY <1>2, <3>3
      <4> QED
        BY <2>2, <2>3, <2>5, <2>6, <2>7, <2>13, <3>3, <4>1 DEF Current
    <3>7. \A i, j \in DOMAIN frames' : ~(i < j)
      BY <2>6
    <3> QED
      BY <2>8, <3>3, <3>4, <3>5, <3>6, <3>7 DEF Agreed
  <2> QED
    BY <1>1, <2>2, <2>9, <2>10, <2>11, <2>12, <2>13 DEF FlowInv
<1>10. \/ /\ current /\ a.accepted >= Len(sending)
          /\ base' = base + Len(sending)
          /\ sending' = <<>>
          /\ sequence' = Successor(sequence)
          /\ overrun' = FALSE
          /\ UNCHANGED <<resend, frames>>
       \/ /\ current /\ a.accepted < Len(sending) /\ resend = "suffix"
          /\ base' = base + a.accepted
          /\ \E n \in (Len(sending) - a.accepted)..MaxData :
                /\ base' + n <= Length
                /\ Send(Successor(sequence), From(base', n), overrun)
       \/ UNCHANGED <<bmc_vars, frames>>
  BY DEF BmcAcked
<1> HIDE DEF a, current
<1>11. FlowInv'
  BY <1>6, <1>8, <1>9, <1>10
<1> QED
  BY <1>1, <1>11

\* The minimum of three counts is one of them and bounds each.
LEMMA SmallestIs ==
  ASSUME NEW x \in Int, NEW y \in Int, NEW z \in Int
  PROVE  Min({x, y, z}) \in {x, y, z} /\ Min({x, y, z}) <= x /\ Min({x, y, z}) <= y /\ Min({x, y, z}) <= z
<1> DEFINE IsMin(m) == m \in {x, y, z} /\ \A k \in {x, y, z} : m <= k
<1>1. \E m \in {x, y, z} : \A k \in {x, y, z} : m <= k
  <2>1. CASE x <= y /\ x <= z
    BY <2>1
  <2>2. CASE y <= x /\ y <= z
    BY <2>2
  <2>3. CASE z <= x /\ z <= y
    BY <2>3
  <2> QED
    BY <2>1, <2>2, <2>3
<1> QED
  BY <1>1 DEF Min

\* What accept() does to the counts, whatever the packet.
LEMMA AcceptedIs ==
  ASSUME FlowTypes, NEW f, f.data \in Seq(Nat), Len(f.data) \in 1..MaxData, ~Conflicts(f)
  PROVE  /\ Already(f) \in Nat /\ Accepted(f) \in Nat /\ Len(f.data) \in Nat
         /\ Already(f) <= Accepted(f) /\ Accepted(f) <= Len(f.data)
         /\ Len(output) + (Accepted(f) - Already(f)) <= QueueLimit
         /\ Already(f) = IF Repeated(f) THEN previous_accepted ELSE 0
<1>1. /\ Len(f.data) \in Nat /\ Len(f.data) <= 255 /\ Len(output) \in Nat /\ QueueLimit \in Nat
      /\ Len(output) <= QueueLimit /\ Len(previous_data) \in Nat
  <2>1. MaxData \in Nat /\ MaxData <= 255 /\ QueueLimit \in Nat
    BY FlowAssumption
  <2>2. Len(output) \in Nat /\ Len(previous_data) \in Nat /\ Len(output) <= QueueLimit
    BY LenProperties DEF FlowTypes
  <2> QED
    BY <2>1, <2>2
<1>2. Already(f) \in Nat /\ Already(f) <= Len(f.data)
  <2>1. CASE Repeated(f)
    BY <1>1, <2>1 DEF Conflicts, Already, FlowTypes
  <2>2. CASE ~Repeated(f)
    BY <1>1, <2>2 DEF Already
  <2> QED
    BY <2>1, <2>2
<1> DEFINE newly == IF Len(f.data) > Already(f) THEN Len(f.data) - Already(f) ELSE 0
           room == QueueLimit - Len(output)
           limit == 255 - Already(f)
           m == Min({newly, room, limit})
<1>3. /\ newly \in Int /\ room \in Int /\ limit \in Int
      /\ newly = Len(f.data) - Already(f) /\ newly >= 0 /\ room >= 0 /\ limit >= 0
  BY <1>1, <1>2
<1>4. Accepted(f) = Already(f) + m
  BY DEF Accepted
<1> HIDE DEF newly, room, limit, m
<1>5. m \in Int /\ m >= 0 /\ m <= newly /\ m <= room
  <2>1. m \in {newly, room, limit} /\ m <= newly /\ m <= room
    BY <1>3, SmallestIs DEF m
  <2> QED
    BY <1>3, <2>1
<1>6. Already(f) \in Int
  BY <1>2
<1> QED
  BY <1>1, <1>2, <1>3, <1>4, <1>5, <1>6 DEF Already, room

\* The bytes of a packet are those of the text at its positions.
LEMMA TextOf ==
  ASSUME NEW s \in Seq(Nat)
  PROVE  /\ Text(s) \in Seq({CharAt[x] : x \in Nat}) /\ Len(Text(s)) = Len(s)
         /\ \A i \in 1..Len(s) : Text(s)[i] = CharAt[s[i]]
<1>1. DOMAIN s = 1..Len(s) /\ Len(s) \in Nat /\ \A i \in 1..Len(s) : s[i] \in Nat
  BY LenProperties, ElementOfSeq
<1> DEFINE S == {CharAt[x] : x \in Nat}
<1>2. Text(s) \in [1..Len(s) -> S]
  BY <1>1 DEF Text
<1> HIDE DEF S
<1>3. Text(s) \in Seq(S)
  BY <1>1, <1>2, SeqDef
<1>4. Len(Text(s)) = Len(s)
  BY <1>1, <1>2, <1>3, LenProperties
<1> QED
  BY <1>1, <1>3, <1>4 DEF Text, S

\* Texts of characters that follow one another.
LEMMA PrefixOfText ==
  ASSUME NEW s \in Seq(Nat), NEW t \in Seq(Nat), Len(s) <= Len(t), \A i \in 1..Len(s) : s[i] = t[i]
  PROVE  IsPrefix(Text(s), Text(t))
<1> DEFINE S == {CharAt[x] : x \in Nat}
<1>1. /\ Text(s) \in Seq(S) /\ Len(Text(s)) = Len(s) /\ \A i \in 1..Len(s) : Text(s)[i] = CharAt[s[i]]
      /\ Text(t) \in Seq(S) /\ Len(Text(t)) = Len(t) /\ \A i \in 1..Len(t) : Text(t)[i] = CharAt[t[i]]
      /\ Len(s) \in Nat /\ Len(t) \in Nat
  BY TextOf, LenProperties
<1> HIDE DEF S
<1>2. \A i \in 1..Len(s) : Text(s)[i] = Text(t)[i] /\ Text(s)[i] \in S
  BY <1>1, ElementOfSeq
<1> DEFINE n == Len(s)
           p == SubSeq(Text(s), 1, n)
           q == SubSeq(Text(t), 1, n)
<1>3. /\ p \in Seq(S) /\ Len(p) = n /\ \A i \in 1..n : p[i] = Text(s)[i]
      /\ q \in Seq(S) /\ Len(q) = n /\ \A i \in 1..n : q[i] = Text(t)[i]
  <2> HIDE DEF p, q
  <2>1. n \in Int /\ \A i \in 1..n : Text(s)[i] \in S /\ Text(t)[i] \in S
    BY <1>1, <1>2
  <2> HIDE DEF n
  <2>2. /\ p \in Seq(S) /\ Len(p) = IF 1 <= n THEN n - 1 + 1 ELSE 0
        /\ \A i \in 1..(n - 1 + 1) : p[i] = Text(s)[1 + i - 1]
    BY <2>1, SubSeqProperties DEF p
  <2>3. /\ q \in Seq(S) /\ Len(q) = IF 1 <= n THEN n - 1 + 1 ELSE 0
        /\ \A i \in 1..(n - 1 + 1) : q[i] = Text(t)[1 + i - 1]
    BY <2>1, SubSeqProperties DEF q
  <2>4. n \in Nat
    BY <1>1 DEF n
  <2> QED
    BY <2>2, <2>3, <2>4
<1> HIDE DEF p, q
<1>4. p = q
  <2> HIDE DEF n
  <2>1. Len(p) = Len(q) /\ \A i \in 1..Len(p) : p[i] = q[i]
    BY <1>2, <1>3 DEF n
  <2> QED
    BY <1>3, <2>1, SeqEqual
<1> QED
  BY <1>1, <1>4 DEF IsPrefix, p, q

\* accept() refuses no packet the invariant allows: neither as conflicting data
\* nor as a gap.
LEMMA HonestAccepted ==
  ASSUME FlowTypes, Agreed, NEW f, f.data \in Seq(Nat), Len(f.data) \in 1..MaxData, Current(f) \/ Stale(f)
  PROVE  ~Conflicts(f) /\ ~Skips(f)
<1> DEFINE b == Total - previous_accepted
           m == Len(previous_data)
<1>0. /\ b \in Nat /\ m \in Nat /\ Len(f.data) \in Nat /\ previous_accepted \in 0..m /\ Total \in Nat /\ base \in Nat
      /\ previous_data \in Seq(Nat)
  BY FlowAssumption, LenProperties, SMTT(30) DEF FlowTypes, Agreed, Total
<1>1. previous_data = From(b, m) /\ \A i \in 1..m : previous_data[i] = b + i
  <2>1. previous_data = From(b, m)
    BY DEF Agreed
  <2> HIDE DEF b, m
  <2> QED
    BY <1>0, <2>1, FromIs
<1>2. CASE Repeated(f)
  <2>1. Len(f.data) >= m /\ \A i \in 1..m : f.data[i] = previous_data[i]
    <3>1. CASE Stale(f)
      BY <1>0, <3>1 DEF Stale
    <3>2. CASE Current(f)
      <4>1. previous_sequence = sequence /\ base + previous_accepted = Total
        BY <1>2, <3>2 DEF Repeated, Current, Agreed
      <4>2. base = b /\ f.data = From(base, Len(f.data)) /\ Len(f.data) >= m
        BY <1>0, <3>2, <4>1 DEF Current, Expected
      <4>3. \A i \in 1..Len(f.data) : f.data[i] = base + i
        <5> DEFINE d == Len(f.data)
        <5>1. d \in Nat /\ f.data = From(base, d)
          BY <1>0, <4>2
        <5> HIDE DEF d
        <5>2. \A i \in 1..d : f.data[i] = base + i
          BY <1>0, <5>1, FromIs
        <5> QED
          BY <5>2 DEF d
      <4> QED
        BY <1>0, <1>1, <4>2, <4>3
    <3> QED
      BY <3>1, <3>2
  <2>2. DOMAIN previous_data = 1..m /\ DOMAIN f.data = 1..Len(f.data)
    BY <1>0, LenProperties
  <2>3. \A i \in 1..m : Text(f.data)[i] = Text(previous_data)[i]
    <3>1. \A i \in 1..m : Text(f.data)[i] = CharAt[f.data[i]]
      <4>1. \A i \in 1..Len(f.data) : Text(f.data)[i] = CharAt[f.data[i]]
        BY TextOf
      <4> QED
        BY <1>0, <2>1, <4>1
    <3>2. \A i \in 1..m : Text(previous_data)[i] = CharAt[previous_data[i]]
      BY <1>0, TextOf
    <3> QED
      BY <2>1, <3>1, <3>2
  <2> QED
    BY <1>0, <1>2, <2>1, <2>2, <2>3 DEF Conflicts, Skips
<1>3. CASE ~Repeated(f)
  <2>1. Current(f) /\ previous_sequence # sequence /\ f.sequence = sequence
    BY <1>3 DEF Repeated, Stale, Current
  <2>2. /\ base = Total /\ (previous_sequence # 0 => f.sequence = Successor(previous_sequence))
        /\ f.data = From(base, Len(f.data)) /\ Len(f.data) >= m - previous_accepted
    BY <1>0, <2>1 DEF Agreed, Current, Expected
  <2> DEFINE k == m - previous_accepted
  <2>3. Unaccepted \in Seq(Nat) /\ Len(Unaccepted) = k /\ \A i \in 1..k : Unaccepted[i] = previous_data[previous_accepted + i]
    <3>1. \A i \in (previous_accepted + 1)..m : previous_data[i] \in Nat
      BY <1>0, ElementOfSeq
    <3>2. previous_accepted + 1 \in Int /\ m \in Int
      BY <1>0
    <3> HIDE DEF m
    <3>3. /\ Unaccepted \in Seq(Nat)
          /\ Len(Unaccepted) = IF previous_accepted + 1 <= m THEN m - (previous_accepted + 1) + 1 ELSE 0
          /\ \A i \in 1..(m - (previous_accepted + 1) + 1) : Unaccepted[i] = previous_data[previous_accepted + 1 + i - 1]
      BY <3>1, <3>2, SubSeqProperties DEF Unaccepted, m
    <3> QED
      BY <1>0, <3>3
  <2>4. \A i \in 1..k : Unaccepted[i] = f.data[i]
    <3>1. \A i \in 1..Len(f.data) : f.data[i] = base + i
      <4> DEFINE d == Len(f.data)
      <4>1. d \in Nat /\ f.data = From(base, d)
        BY <1>0, <2>2
      <4> HIDE DEF d
      <4>2. \A i \in 1..d : f.data[i] = base + i
        BY <1>0, <4>1, FromIs
      <4> QED
        BY <4>2 DEF d
    <3>2. \A i \in 1..k : previous_accepted + i \in 1..m /\ i \in 1..Len(f.data) /\ b + (previous_accepted + i) = base + i
      BY <1>0, <2>2
    <3> QED
      BY <1>1, <2>3, <3>1, <3>2
  <2>5. IsPrefix(Text(Unaccepted), Text(f.data))
    BY <2>2, <2>3, <2>4, PrefixOfText
  <2> QED
    BY <1>3, <2>2, <2>5 DEF Conflicts, Skips
<1> QED
  BY <1>2, <1>3

\* What a step does for the reader: nothing, an arrival, an interruption or a read.
ForReader == Stream!StreamNext \/ UNCHANGED <<output, delivered, stopped>>

\* What receive_one() takes from the way.
LEMMA HeadOfFrames ==
  ASSUME FlowInv, Incoming
  PROVE  /\ Head(frames) = frames[1] /\ 1 \in DOMAIN frames
         /\ Head(frames).data \in Seq(Nat) /\ Len(Head(frames).data) \in 1..MaxData
         /\ Head(frames).sequence \in PacketNumbers
         /\ Tail(frames) \in Seq(Packets) /\ Len(Tail(frames)) = Len(frames) - 1 /\ Len(frames) \in Nat \ {0} /\ Len(acks) \in Nat
         /\ \A i \in DOMAIN Tail(frames) : i \in Nat \ {0} /\ i + 1 \in DOMAIN frames /\ Tail(frames)[i] = frames[i + 1]
         /\ stopped = "no"
<1>1. frames \in Seq(Packets) /\ frames # <<>> /\ acks \in Seq(Answers)
  BY DEF FlowInv, FlowTypes, Incoming
<1>2. /\ Head(frames) = frames[1] /\ 1 \in DOMAIN frames
      /\ Tail(frames) \in Seq(Packets) /\ Len(Tail(frames)) = Len(frames) - 1 /\ Len(frames) \in Nat \ {0} /\ Len(acks) \in Nat
      /\ \A i \in DOMAIN Tail(frames) : i \in Nat \ {0} /\ i + 1 \in DOMAIN frames /\ Tail(frames)[i] = frames[i + 1]
  BY <1>1, RestOf, LenProperties
<1> QED
  BY <1>2 DEF FlowInv, FlowTypes, Incoming

\* The acknowledgement of a packet is one of its number.
LEMMA AnswerIs ==
  ASSUME NEW f, f.sequence \in PacketNumbers, NEW n \in Nat
  PROVE  /\ Acknowledge(f, n) \in Answers
         /\ Acknowledge(f, n).ack = f.sequence /\ Acknowledge(f, n).accepted = n
<1>1. f.sequence \in Nat
  BY FlowAssumption DEF PacketNumbers
<1> QED
  BY <1>1 DEF Acknowledge, Answers

\* receive_one() refuses a packet only after an overrun, and then the stream is
\* interrupted.
LEMMA Refusing ==
  ASSUME FlowInv, ReceiveRefused
  PROVE  FlowInv' /\ ForReader
<1> DEFINE f == Head(frames)
<1>1. /\ Incoming /\ (Conflicts(f) \/ Skips(f))
      /\ acks' = Append(acks, Acknowledge(f, 0)) /\ stopped' \in {"conflict", "gap"}
      /\ frames' = Tail(frames)
      /\ UNCHANGED <<output, previous_sequence, previous_data, previous_accepted, delivered, resend, base, sequence, sending, overrun>>
  BY DEF ReceiveRefused, flow_vars, bmc_vars
<1>2. /\ f = frames[1] /\ 1 \in DOMAIN frames
      /\ f.data \in Seq(Nat) /\ Len(f.data) \in 1..MaxData /\ f.sequence \in PacketNumbers
      /\ frames' \in Seq(Packets) /\ Len(frames') = Len(frames) - 1 /\ Len(frames) \in Nat \ {0} /\ Len(acks) \in Nat
      /\ \A i \in DOMAIN frames' : i \in Nat \ {0} /\ i + 1 \in DOMAIN frames /\ frames'[i] = frames[i + 1]
      /\ stopped = "no"
  BY <1>1, HeadOfFrames
<1> HIDE DEF f
<1>3. overrun
  <2> SUFFICES ASSUME ~overrun PROVE FALSE
    OBVIOUS
  <2>1. Agreed /\ FlowTypes
    BY <1>2 DEF FlowInv
  <2>2. Current(f) \/ Stale(f)
    BY <1>2, <2>1 DEF Agreed
  <2> QED
    BY <1>1, <1>2, <2>1, <2>2, HonestAccepted
<1>4. /\ acks' \in Seq(Answers) /\ Len(acks') = Len(acks) + 1
      /\ \A i \in DOMAIN acks' : (i \in DOMAIN acks /\ acks'[i] = acks[i]) \/ (acks'[i].ack = f.sequence /\ acks'[i].accepted = 0)
  <2>1. acks \in Seq(Answers)
    BY DEF FlowInv, FlowTypes
  <2> QED
    BY <1>1, <1>2, <2>1, AnswerIs, Appended
<1>5. FlowTypes'
  <2>1. \A i \in DOMAIN frames' : frames'[i].data \in Seq(Nat) /\ Len(frames'[i].data) \in 1..MaxData /\ frames'[i].sequence \in PacketNumbers
    BY <1>2 DEF FlowInv, FlowTypes
  <2>2. \A i \in DOMAIN acks' : acks'[i].ack \in PacketNumbers /\ acks'[i].accepted \in Nat
    <3>1. \A i \in DOMAIN acks : acks[i].ack \in PacketNumbers /\ acks[i].accepted \in Nat
      BY DEF FlowInv, FlowTypes
    <3>2. ASSUME NEW i \in DOMAIN acks' PROVE acks'[i].ack \in PacketNumbers /\ acks'[i].accepted \in Nat
      BY <1>2, <1>4, <3>1
    <3> QED
      BY <3>2
  <2> QED
    BY <1>1, <1>2, <1>4, <2>1, <2>2 DEF FlowInv, FlowTypes
<1>6. OneAtATime'
  BY <1>1, <1>2, <1>4 DEF FlowInv, OneAtATime
<1>7. Behind'
  <2>1. Behind
    BY <1>2, <1>3 DEF FlowInv
  <2> QED
    BY <1>1, <1>4, <2>1 DEF Behind
<1>8. Flagged'
  BY <1>1, Zenon DEF FlowInv, Flagged
<1>9. Stream!Interrupt
  <2>1. output \in Seq(Nat) /\ Len(output) \in Nat /\ QueueLimit \in Nat /\ Len(output) <= QueueLimit
    BY LenProperties, FlowAssumption DEF FlowInv, FlowTypes
  <2>2. SubSeq(output, 1, Len(output)) = output
    BY <2>1, SubSeqFull
  <2>3. (stopped = "no") /\ ~(stopped' = "no")
    BY <1>1, <1>2
  <2> QED
    BY <1>1, <2>1, <2>2, <2>3 DEF Stream!Interrupt
<1> QED
  BY <1>1, <1>3, <1>5, <1>6, <1>7, <1>8, <1>9 DEF FlowInv, ForReader, Stream!StreamNext

\* receive_one() accepts a packet: the characters queued are the next ones of
\* the text, or the stream is interrupted.
LEMMA Accepting ==
  ASSUME FlowInv, NEW acknowledged \in BOOLEAN, ReceiveAccepted(acknowledged)
  PROVE  FlowInv' /\ ForReader
<1> DEFINE f == Head(frames)
           part == SubSeq(f.data, Already(f) + 1, Accepted(f))
           k == Accepted(f) - Already(f)
<1>1. /\ Incoming /\ ~Conflicts(f) /\ ~Skips(f)
      /\ output' = output \o part
      /\ previous_sequence' = f.sequence
      /\ previous_data' = IF Repeated(f) /\ Len(f.data) <= Len(previous_data) THEN previous_data ELSE f.data
      /\ previous_accepted' = Accepted(f)
      /\ frames' = Tail(frames)
      /\ UNCHANGED <<delivered, resend, base, sequence, sending, overrun>>
  BY DEF ReceiveAccepted, bmc_vars
<1>2. /\ f = frames[1] /\ 1 \in DOMAIN frames
      /\ f.data \in Seq(Nat) /\ Len(f.data) \in 1..MaxData /\ f.sequence \in PacketNumbers
      /\ frames' \in Seq(Packets) /\ Len(frames') = Len(frames) - 1 /\ Len(frames) \in Nat \ {0} /\ Len(acks) \in Nat
      /\ \A i \in DOMAIN frames' : i \in Nat \ {0} /\ i + 1 \in DOMAIN frames /\ frames'[i] = frames[i + 1]
      /\ stopped = "no"
  BY <1>1, HeadOfFrames
<1>3. /\ stopped' \in {"ack_failed", "overrun", "no"}
      /\ stopped' = "overrun" => f.overrun
      /\ f.overrun => stopped' # "no"
      /\ stopped' = "no" \/ stopped' = "overrun" \/ acks' = acks
      /\ acks' = acks \/ acks' = Append(acks, Acknowledge(f, Accepted(f)))
  BY DEF ReceiveAccepted
<1>4. /\ Already(f) \in Nat /\ Accepted(f) \in Nat /\ Len(f.data) \in Nat
      /\ Already(f) <= Accepted(f) /\ Accepted(f) <= Len(f.data)
      /\ Len(output) + k <= QueueLimit
      /\ Already(f) = IF Repeated(f) THEN previous_accepted ELSE 0
  <2>1. FlowTypes
    BY DEF FlowInv
  <2> HIDE DEF f
  <2> QED
    BY <1>1, <1>2, <2>1, AcceptedIs
<1>5. /\ output \in Seq(Nat) /\ Len(output) \in Nat /\ delivered \in Seq(Nat) /\ Len(delivered) \in Nat
      /\ previous_data \in Seq(Nat) /\ Len(previous_data) \in Nat /\ previous_accepted \in 0..Len(previous_data)
      /\ QueueLimit \in Nat /\ acks \in Seq(Answers) /\ Len(sending) \in Nat /\ base \in Nat /\ MaxData \in Nat
  BY LenProperties, FlowAssumption DEF FlowInv, FlowTypes
<1> HIDE DEF f
<1>6. /\ part \in Seq(Nat) /\ Len(part) = k /\ k \in Nat
      /\ \A i \in 1..k : part[i] = f.data[Already(f) + i]
  <2>1. \A i \in (Already(f) + 1)..Accepted(f) : f.data[i] \in Nat
    BY <1>2, <1>4, ElementOfSeq, SMTT(30)
  <2>2. Already(f) + 1 \in Int /\ Accepted(f) \in Int
    BY <1>4
  <2> HIDE DEF part
  <2>3. /\ part \in Seq(Nat)
        /\ Len(part) = IF Already(f) + 1 <= Accepted(f) THEN Accepted(f) - (Already(f) + 1) + 1 ELSE 0
        /\ \A i \in 1..(Accepted(f) - (Already(f) + 1) + 1) : part[i] = f.data[Already(f) + 1 + i - 1]
    BY <2>1, <2>2, SubSeqProperties DEF part
  <2>4. k = Accepted(f) - Already(f) /\ k \in Nat /\ Already(f) \in Nat
    BY <1>4
  <2>5. Accepted(f) \in Nat /\ Already(f) <= Accepted(f)
    BY <1>4
  <2> HIDE DEF k
  <2>6. /\ Accepted(f) - (Already(f) + 1) + 1 = k
        /\ (IF Already(f) + 1 <= Accepted(f) THEN Accepted(f) - (Already(f) + 1) + 1 ELSE 0) = k
    BY <2>4, <2>5
  <2>7. ASSUME NEW i \in 1..k PROVE part[i] = f.data[Already(f) + i]
    <3>1. Already(f) + 1 + i - 1 = Already(f) + i
      BY <2>4, <2>7
    <3>2. part[i] = f.data[Already(f) + 1 + i - 1]
      BY <2>3, <2>6, <2>7
    <3> QED
      BY <3>1, <3>2
  <2> QED
    BY <2>3, <2>4, <2>6, <2>7
<1> HIDE DEF part
<1>7. k = Accepted(f) - Already(f) /\ k <= Accepted(f)
  BY <1>4
<1> HIDE DEF k
<1>8. output' \in Seq(Nat) /\ Len(output') = Len(output) + k /\ Total' = Total + k /\ Total \in Nat
  <2>1. output' \in Seq(Nat) /\ Len(output') = Len(output) + k
    BY <1>1, <1>5, <1>6, ConcatProperties
  <2> QED
    BY <1>1, <1>5, <1>6, <2>1 DEF Total
<1>9. /\ acks' \in Seq(Answers) /\ Len(acks') <= Len(acks) + 1 /\ Len(acks') \in Nat
      /\ \A i \in DOMAIN acks' :
            /\ i \in 1..Len(acks')
            /\ (i \in DOMAIN acks /\ acks'[i] = acks[i])
               \/ (acks'[i].ack = f.sequence /\ acks'[i].accepted = Accepted(f) /\ i = Len(acks'))
  <2>1. CASE acks' = acks
    BY <1>2, <1>5, <2>1, LenProperties
  <2>2. CASE acks' = Append(acks, Acknowledge(f, Accepted(f)))
    <3> DEFINE e == Acknowledge(f, Accepted(f))
    <3>1. e \in Answers /\ e.ack = f.sequence /\ e.accepted = Accepted(f)
      BY <1>2, <1>4, AnswerIs
    <3> HIDE DEF e
    <3>2. /\ acks' \in Seq(Answers) /\ Len(acks') = Len(acks) + 1
          /\ \A i \in DOMAIN acks' : i \in 1..Len(acks') /\ ((i \in DOMAIN acks /\ acks'[i] = acks[i]) \/ (i = Len(acks') /\ acks'[i] = e))
      BY <1>5, <2>2, <3>1, Appended DEF e
    <3> QED
      BY <1>2, <3>1, <3>2
  <2> QED
    BY <1>3, <2>1, <2>2
<1>10. /\ previous_data' \in Seq(Nat) /\ previous_accepted' \in 0..Len(previous_data') /\ Len(previous_data') <= MaxData
  <2>1. CASE Repeated(f) /\ Len(f.data) <= Len(previous_data)
    BY <1>1, <1>4, <1>5, <2>1 DEF FlowInv, FlowTypes
  <2>2. CASE ~(Repeated(f) /\ Len(f.data) <= Len(previous_data))
    BY <1>1, <1>2, <1>4, <1>5, <2>2
  <2> QED
    BY <2>1, <2>2
<1>11. FlowTypes'
  <2>1. \A i \in DOMAIN frames' : frames'[i].data \in Seq(Nat) /\ Len(frames'[i].data) \in 1..MaxData /\ frames'[i].sequence \in PacketNumbers
    BY <1>2 DEF FlowInv, FlowTypes
  <2>2. \A i \in DOMAIN acks' : acks'[i].ack \in PacketNumbers /\ acks'[i].accepted \in Nat
    <3>1. \A i \in DOMAIN acks : acks[i].ack \in PacketNumbers /\ acks[i].accepted \in Nat
      BY DEF FlowInv, FlowTypes
    <3>2. ASSUME NEW i \in DOMAIN acks' PROVE acks'[i].ack \in PacketNumbers /\ acks'[i].accepted \in Nat
      BY <1>2, <1>4, <1>9, <3>1
    <3> QED
      BY <3>2
  <2>3. previous_sequence' \in 0..LastSequence
    BY <1>1, <1>2, FlowAssumption DEF PacketNumbers
  <2>4. Len(output') <= QueueLimit
    BY <1>4, <1>7, <1>8
  <2> QED
    BY <1>1, <1>2, <1>3, <1>8, <1>9, <1>10, <2>1, <2>2, <2>3, <2>4 DEF FlowInv, FlowTypes
<1>12. OneAtATime'
  BY <1>1, <1>2, <1>9 DEF FlowInv, OneAtATime
<1>13. Flagged'
  BY <1>1, Zenon DEF FlowInv, Flagged
<1>14. ASSUME Stale(f)
       PROVE  /\ Accepted(f) = previous_accepted /\ k = 0
              /\ UNCHANGED <<previous_sequence, previous_data, previous_accepted>>
  BY <1>1, <1>4, <1>5, <1>7, <1>14 DEF Stale, Repeated
<1>15. ASSUME ~overrun, Current(f)
       PROVE  /\ base + Already(f) = Total
              /\ previous_data' = f.data /\ f.data = From(base, Len(f.data))
              /\ Len(f.data) <= Len(sending)
              /\ \A i \in 1..Len(f.data) : f.data[i] = base + i
  <2>1. Agreed /\ Len(f.data) \in Expected..Len(sending) /\ f.data = From(base, Len(f.data)) /\ f.sequence = sequence
    BY <1>2, <1>15 DEF FlowInv, Current
  <2>2. Len(f.data) >= Expected /\ Len(f.data) <= Len(sending)
    BY <1>4, <1>5, <2>1 DEF Expected
  <2>3. ASSUME previous_sequence = sequence
        PROVE  base + Already(f) = Total /\ previous_data' = f.data
    <3>1. Repeated(f) /\ base + previous_accepted = Total /\ Len(f.data) >= Len(previous_data)
      BY <2>1, <2>2, <2>3 DEF Repeated, Agreed, Expected
    <3>2. Total - previous_accepted = base
      BY <1>5, <1>8, <3>1
    <3>3. previous_data = From(base, Len(previous_data))
      BY <2>1, <3>2 DEF Agreed
    <3>4. previous_data' = f.data
      <4>1. CASE Len(f.data) = Len(previous_data)
        BY <1>1, <2>1, <3>3, <4>1
      <4>2. CASE Len(f.data) > Len(previous_data)
        BY <1>1, <1>4, <1>5, <4>2
      <4> QED
        BY <1>4, <1>5, <3>1, <4>1, <4>2
    <3> QED
      BY <1>4, <3>1, <3>4
  <2>4. ASSUME previous_sequence # sequence
        PROVE  base + Already(f) = Total /\ previous_data' = f.data
    <3>1. ~Repeated(f) /\ base = Total
      BY <2>1, <2>4 DEF Repeated, Agreed
    <3>2. Already(f) = 0 /\ previous_data' = f.data
      BY <1>1, <1>4, <3>1
    <3> QED
      BY <1>5, <3>1, <3>2
  <2>5. \A i \in 1..Len(f.data) : f.data[i] = base + i
    <3> DEFINE d == Len(f.data)
    <3>1. d \in Nat /\ f.data = From(base, d)
      BY <1>4, <2>1
    <3> HIDE DEF d
    <3>2. \A i \in 1..d : f.data[i] = base + i
      <4>1. base \in Nat
        BY <1>5
      <4> QED
        BY <3>1, <4>1, FromIs
    <3> QED
      BY <3>2 DEF d
  <2> QED
    BY <2>1, <2>2, <2>3, <2>4, <2>5
<1>16. ASSUME overrun, stopped' # "overrun" PROVE Behind'
  <2>1. Behind
    BY <1>2, <1>16 DEF FlowInv
  <2>2. CASE f.overrun
    <3>1. stopped' = "ack_failed" /\ acks' = acks
      BY <1>3, <1>16, <2>2
    <3> QED
      BY <1>1, <2>1, <3>1 DEF Behind
  <2>3. CASE ~f.overrun
    <3>1. Stale(f)
      BY <1>2, <2>1, <2>3 DEF Behind
    <3>2. f.sequence # sequence
      BY <3>1 DEF Stale
    <3>3. \A i \in DOMAIN acks' : acks'[i].ack # sequence \/ acks'[i].accepted = 0
      BY <1>9, <2>1, <3>2 DEF Behind
    <3>4. \A i \in DOMAIN frames' : frames'[i].overrun \/ Stale(frames'[i])
      BY <1>2, <2>1 DEF Behind
    <3> QED
      BY <1>1, <1>14, <3>1, <3>3, <3>4 DEF Behind, Stale
  <2> QED
    BY <2>2, <2>3
<1>17. ASSUME ~overrun PROVE Agreed' /\ ~f.overrun /\ stopped' # "overrun"
  <2>1. Agreed
    BY <1>2, <1>17 DEF FlowInv
  <2>2. ~f.overrun /\ (Current(f) \/ Stale(f))
    BY <1>2, <2>1 DEF Agreed
  <2>3. /\ \A i \in DOMAIN frames : ~frames[i].overrun /\ (Current(frames[i]) \/ Stale(frames[i]))
        /\ \A i, j \in DOMAIN frames : i < j /\ frames[i].sequence = sequence =>
              frames[j].sequence = sequence /\ Len(frames[i].data) <= Len(frames[j].data)
        /\ \A i \in DOMAIN acks : acks[i].ack = sequence =>
              /\ previous_sequence = sequence /\ acks[i].accepted <= previous_accepted
              /\ resend = "suffix" => acks[i].accepted = previous_accepted
        /\ \A i, j \in DOMAIN acks : i < j /\ acks[i].ack = sequence => acks[j].ack = sequence
    BY <2>1 DEF Agreed
  <2>4. \A i, j \in DOMAIN frames' : i < j /\ frames'[i].sequence = sequence =>
              frames'[j].sequence = sequence /\ Len(frames'[i].data) <= Len(frames'[j].data)
    BY <1>2, <2>3, SMTT(30)
  <2>5. CASE Stale(f)
    <3>1. /\ Total' = Total /\ Expected' = Expected
          /\ UNCHANGED <<previous_sequence, previous_data, previous_accepted>>
      BY <1>1, <1>8, <1>14, <2>5 DEF Expected
    <3>2. \A i \in DOMAIN acks' : acks'[i].ack # sequence
      BY <1>9, <2>3, <2>5 DEF Stale
    <3>3. \A i \in DOMAIN frames' : ~frames'[i].overrun /\ (Current(frames'[i]) \/ Stale(frames'[i]))
      BY <1>2, <2>3
    <3>4. \A i \in DOMAIN frames' : ~frames'[i].overrun /\ (Current(frames[i])' \/ Stale(frames[i])')
      BY <1>1, <3>1, <3>3 DEF Current, Stale
    <3>5. /\ sending' = From(base', Len(sending')) /\ previous_accepted' <= Total'
          /\ previous_data' = From(Total' - previous_accepted', Len(previous_data'))
          /\ IF previous_sequence' = sequence'
             THEN sending' # <<>> /\ base' + previous_accepted' = Total'
             ELSE sequence' = (IF previous_sequence' = 0 THEN 1 ELSE Successor(previous_sequence')) /\ base' = Total'
          /\ Expected' <= Len(sending')
      BY <1>1, <2>1, <3>1 DEF Agreed
    <3>6. \A i \in DOMAIN acks' : acks'[i].ack = sequence' =>
              /\ previous_sequence' = sequence' /\ acks'[i].accepted <= previous_accepted'
              /\ resend' = "suffix" => acks'[i].accepted = previous_accepted'
      BY <1>1, <3>2
    <3>7. \A i, j \in DOMAIN acks' : i < j /\ acks'[i].ack = sequence' => acks'[j].ack = sequence'
      BY <1>1, <3>2
    <3>8. \A i, j \in DOMAIN frames' : i < j /\ frames'[i].sequence = sequence' =>
              frames'[j].sequence = sequence' /\ Len(frames'[i].data) <= Len(frames'[j].data)
      BY <1>1, <2>4
    <3>9. Agreed'
      BY <3>4, <3>5, <3>6, <3>7, <3>8 DEF Agreed
    <3> QED
      BY <1>3, <2>2, <3>9
  <2>6. CASE Current(f)
    <3>1. /\ base + Already(f) = Total /\ previous_data' = f.data /\ f.data = From(base, Len(f.data))
          /\ Len(f.data) <= Len(sending) /\ f.sequence = sequence
      BY <1>15, <1>17, <2>6 DEF Current
    <3>2. /\ previous_sequence' = sequence' /\ Expected' = Len(f.data)
          /\ base' + previous_accepted' = Total' /\ previous_accepted' <= Total' /\ Total' - previous_accepted' = base
      <4>1. previous_sequence' = sequence' /\ Expected' = Len(f.data)
        BY <1>1, <3>1 DEF Expected
      <4>2. base' = base /\ previous_accepted' = Accepted(f) /\ Total' = Total + k
        BY <1>1, <1>8
      <4>3. /\ Total' = Total + k /\ k = Accepted(f) - Already(f) /\ base + Already(f) = Total
            /\ Total \in Nat /\ Accepted(f) \in Nat /\ Already(f) \in Nat /\ base \in Nat
        BY <1>4, <1>5, <1>7, <1>8, <3>1
      <4>4. base + Accepted(f) = Total'
        BY <4>3
      <4>5. base' + previous_accepted' = Total' /\ previous_accepted' <= Total' /\ Total' - previous_accepted' = base
        BY <4>2, <4>3, <4>4
      <4> QED
        BY <4>1, <4>5
    <3>3. sending' # <<>>
      <4>1. Len(sending) # 0 /\ Len(<<>>) = 0
        BY <1>2, <1>4, <1>5, <3>1, EmptySeq
      <4> QED
        BY <1>1, <4>1
    <3>4. \A i \in DOMAIN frames' : ~frames'[i].overrun /\ Current(frames[i])'
      <4>1. ASSUME NEW i \in DOMAIN frames' PROVE ~frames'[i].overrun /\ Current(frames[i])'
        <5>1. i + 1 \in DOMAIN frames /\ frames'[i] = frames[i + 1] /\ 1 < i + 1
          BY <1>2
        <5>2. /\ ~frames[i + 1].overrun /\ frames[i + 1].sequence = sequence
              /\ Len(f.data) <= Len(frames[i + 1].data)
              /\ (Current(frames[i + 1]) \/ Stale(frames[i + 1]))
          BY <1>2, <2>3, <3>1, <5>1
        <5>3. frames[i + 1].data = From(base, Len(frames[i + 1].data)) /\ Len(frames[i + 1].data) <= Len(sending)
          BY <1>5, <5>2 DEF Current, Stale, Expected
        <5>4. Len(frames[i + 1].data) \in Int
          BY <5>1 DEF FlowInv, FlowTypes
        <5> QED
          BY <1>1, <1>4, <1>5, <3>2, <5>1, <5>2, <5>3, <5>4 DEF Current
      <4> QED
        BY <4>1
    <3>5. resend = "suffix" => DOMAIN acks = {}
      <4>1. resend = "suffix" => Len(acks) = 0
        BY <1>2 DEF FlowInv, OneAtATime
      <4> QED
        BY <1>5, <4>1, LenProperties
    <3>6. previous_accepted' = Accepted(f) /\ (previous_sequence = sequence => previous_accepted <= Accepted(f))
      BY <1>1, <1>4, <3>1 DEF Repeated
    <3>7. \A i \in DOMAIN acks' : acks'[i].ack = sequence =>
             /\ acks'[i].accepted <= previous_accepted'
             /\ resend = "suffix" => acks'[i].accepted = previous_accepted'
      <4>1. ASSUME NEW i \in DOMAIN acks', acks'[i].ack = sequence
            PROVE  acks'[i].accepted <= previous_accepted' /\ (resend = "suffix" => acks'[i].accepted = previous_accepted')
        <5>1. CASE i \in DOMAIN acks /\ acks'[i] = acks[i]
          <6>1. previous_sequence = sequence /\ acks[i].accepted <= previous_accepted /\ acks[i].accepted \in Nat
            BY <2>3, <4>1, <5>1 DEF FlowInv, FlowTypes
          <6>2. acks[i].accepted <= previous_accepted'
            BY <1>4, <1>5, <3>6, <6>1
          <6> QED
            BY <3>5, <5>1, <6>2
        <5>2. CASE acks'[i].accepted = Accepted(f)
          BY <1>4, <3>6, <5>2
        <5> QED
          BY <1>9, <5>1, <5>2
      <4> QED
        BY <4>1
    <3>8. \A i, j \in DOMAIN acks' : i < j /\ acks'[i].ack = sequence => acks'[j].ack = sequence
      <4>1. ASSUME NEW i \in DOMAIN acks', NEW j \in DOMAIN acks', i < j, acks'[i].ack = sequence
            PROVE  acks'[j].ack = sequence
        <5>1. CASE j \in DOMAIN acks /\ acks'[j] = acks[j]
          <6>1. i \in DOMAIN acks /\ acks'[i] = acks[i]
            <7>1. DOMAIN acks = 1..Len(acks) /\ i \in 1..Len(acks') /\ j \in 1..Len(acks)
              BY <1>5, <1>9, <5>1, LenProperties
            <7>2. i # Len(acks')
              BY <1>2, <1>9, <4>1, <7>1
            <7> QED
              BY <1>9, <7>2
          <6> QED
            BY <2>3, <4>1, <5>1, <6>1
        <5>2. CASE acks'[j].ack = f.sequence
          BY <3>1, <5>2
        <5> QED
          BY <1>9, <5>1, <5>2
      <4> QED
        BY <4>1
    <3>9. /\ sending' = From(base', Len(sending')) /\ Expected' <= Len(sending')
          /\ previous_data' = From(Total' - previous_accepted', Len(previous_data'))
      BY <1>1, <2>1, <3>1, <3>2 DEF Agreed
    <3>10. \A i \in DOMAIN acks' : acks'[i].ack = sequence' =>
              /\ previous_sequence' = sequence' /\ acks'[i].accepted <= previous_accepted'
              /\ resend' = "suffix" => acks'[i].accepted = previous_accepted'
      BY <1>1, <3>2, <3>7
    <3>11. \A i, j \in DOMAIN acks' : i < j /\ acks'[i].ack = sequence' => acks'[j].ack = sequence'
      BY <1>1, <3>8
    <3>12. \A i, j \in DOMAIN frames' : i < j /\ frames'[i].sequence = sequence' =>
              frames'[j].sequence = sequence' /\ Len(frames'[i].data) <= Len(frames'[j].data)
      BY <1>1, <2>4
    <3>13. \A i \in DOMAIN frames' : ~frames'[i].overrun /\ (Current(frames[i])' \/ Stale(frames[i])')
      BY <3>4
    <3>14. Agreed'
      BY <3>2, <3>3, <3>9, <3>10, <3>11, <3>12, <3>13 DEF Agreed
    <3> QED
      BY <1>3, <2>2, <3>14
  <2> QED
    BY <1>3, <2>2, <2>5, <2>6
<1>18. FlowInv'
  BY <1>1, <1>3, <1>11, <1>12, <1>13, <1>16, <1>17 DEF FlowInv
<1>19. ForReader
  <2>1. CASE stopped' # "no"
    <3>1. Len(output') \in Len(output)..QueueLimit
      BY <1>4, <1>5, <1>6, <1>7, <1>8
    <3>2. SubSeq(output', 1, Len(output)) = output
      BY <1>1, <1>5, <1>6, ConcatSimplifications, SubSeqOfConcat1, SubSeqFull
    <3>3. (stopped = "no") /\ ~(stopped' = "no")
      BY <1>2, <2>1
    <3> QED
      BY <1>1, <1>8, <3>1, <3>2, <3>3 DEF Stream!Interrupt, ForReader, Stream!StreamNext
  <2>2. CASE stopped' = "no"
    <3>1. ~f.overrun
      BY <1>3, <2>2
    <3>2. Stale(f) \/ (~overrun /\ Current(f))
      BY <1>2, <3>1 DEF FlowInv, Agreed, Behind
    <3>3. k = 0 \/ \A i \in 1..k : part[i] = Total + i
      <4>1. CASE Stale(f)
        BY <1>14, <4>1
      <4>2. CASE ~overrun /\ Current(f)
        <5>1. base + Already(f) = Total /\ \A i \in 1..Len(f.data) : f.data[i] = base + i
          BY <1>15, <4>2
        <5>2. /\ k \in Nat /\ k = Accepted(f) - Already(f) /\ Accepted(f) <= Len(f.data) /\ base + Already(f) = Total
              /\ Accepted(f) \in Nat /\ Already(f) \in Nat /\ base \in Nat /\ Len(f.data) \in Nat
          BY <1>4, <1>5, <1>6, <1>7, <5>1
        <5>3. ASSUME NEW i \in 1..k
              PROVE  Already(f) + i \in 1..Len(f.data) /\ base + (Already(f) + i) = Total + i
          BY <5>2, <5>3
        <5> QED
          BY <1>6, <5>1, <5>3
      <4> QED
        BY <3>2, <4>1, <4>2
    <3>4. CASE k = 0
      <4>1. part = <<>>
        BY <1>6, <3>4, EmptySeq
      <4>2. output' = output
        BY <1>1, <1>5, <4>1, ConcatEmptySeq
      <4> QED
        BY <1>1, <1>2, <2>2, <4>2 DEF ForReader
    <3>5. CASE k # 0
      <4> DEFINE next == [i \in 1..k |-> Total + i]
      <4>1. part = next
        <5>1. next \in [1..k -> Nat] /\ \A i \in 1..k : next[i] = Total + i
          BY <1>6, <1>8
        <5>2. part \in [1..k -> Nat]
          BY <1>6, LenProperties
        <5>3. \A i \in 1..k : part[i] = next[i]
          BY <3>3, <3>5, <5>1
        <5> HIDE DEF next
        <5>4. part = [i \in 1..k |-> part[i]] /\ next = [i \in 1..k |-> next[i]]
          BY <5>1, <5>2
        <5> QED
          BY <5>3, <5>4, Zenon
      <4>2. k \in 1..QueueLimit /\ Len(output) + k <= QueueLimit
        BY <1>4, <1>5, <1>6, <1>7, <3>5, SMTT(30)
      <4>3. Stream!Arrive(k)
        BY <1>1, <1>2, <2>2, <4>1, <4>2 DEF Stream!Arrive, Total
      <4> QED
        BY <4>2, <4>3 DEF ForReader, Stream!StreamNext
    <3> QED
      BY <3>4, <3>5
  <2> QED
    BY <2>1, <2>2
<1> QED
  BY <1>18, <1>19

\* Every step keeps the invariant and is, for the reader, a step of
\* ConsoleStream or none.
LEMMA FlowStep ==
  ASSUME FlowInv, Next
  PROVE  FlowInv' /\ ForReader
<1>1. ASSUME NEW n \in 1..QueueLimit, ReadOutput(n) PROVE FlowInv' /\ ForReader
  <2>1. Stream!Deliver(n)
    BY <1>1 DEF ReadOutput, Stream!Deliver
  <2> QED
    BY <1>1, <2>1, Reading DEF ForReader, Stream!StreamNext
<1> QED
  BY <1>1, Accepting, Refusing, Sending, Overrunning, Acknowledged, Losing DEF Next, Console, Bmc, Network, ForReader

\* What the invariant gives: nothing acknowledged is lost and no honest packet
\* refused.
LEMMA FlowSafe ==
  ASSUME FlowInv
  PROVE  AcknowledgedKept /\ HonestNotRefused
<1>1. HonestNotRefused
  BY DEF FlowInv, HonestNotRefused
<1>2. AcknowledgedKept
  <2> SUFFICES ASSUME ~overrun, stopped # "overrun" PROVE base <= Total
    BY DEF AcknowledgedKept, Total
  <2>1. Agreed /\ base \in Nat /\ previous_accepted \in Nat
    BY LenProperties DEF FlowInv, FlowTypes
  <2> QED
    BY <2>1 DEF Agreed
<1> QED
  BY <1>1, <1>2

\* For every text, ring, packet size and queue: accept() acknowledges only what
\* is queued or read, refuses no honest packet, and the reader sees the
\* promises of ConsoleStream.
THEOREM FlowSafety == Spec => [](FlowInv /\ AcknowledgedKept /\ HonestNotRefused)
<1>1. FlowInv /\ UNCHANGED vars => FlowInv'
  <2> SUFFICES ASSUME FlowInv, UNCHANGED vars PROVE FlowInv'
    OBVIOUS
  <2>1. Flagged'
    BY Zenon DEF FlowInv, Flagged, vars, bmc_vars
  <2>2. FlowTypes' /\ OneAtATime' /\ Behind' = Behind /\ Agreed' = Agreed
    BY DEF FlowInv, FlowTypes, OneAtATime, Behind, Agreed, Stale, Current, Expected, Total, vars, flow_vars, bmc_vars
  <2> QED
    BY <2>1, <2>2 DEF FlowInv, vars, bmc_vars
<1>2. FlowInv /\ [Next]_vars => FlowInv'
  BY <1>1, FlowStep
<1> QED
  BY <1>2, FlowInit, FlowSafe, PTL DEF Spec

\* SolFlow implements ConsoleStream: once, in order, without gaps, until the
\* stream is interrupted; arrival, read and interruption are the only steps.
THEOREM FlowImplementsStream == Spec => ImplementsStream
<1>1. Init => Stream!StreamInit
  BY DEF Init, Stream!StreamInit
<1>2. FlowInv /\ [Next]_vars => [Stream!StreamNext]_Stream!stream_vars
  <2> SUFFICES ASSUME FlowInv, [Next]_vars PROVE Stream!StreamNext \/ UNCHANGED Stream!stream_vars
    OBVIOUS
  <2>1. CASE Next
    BY <2>1, FlowStep DEF ForReader, Stream!stream_vars
  <2>2. CASE UNCHANGED vars
    BY <2>2 DEF vars, flow_vars, Stream!stream_vars
  <2> QED
    BY <2>1, <2>2
<1> QED
  BY <1>1, <1>2, FlowSafety, PTL DEF Spec, ImplementsStream, Stream!StreamSpec
=============================================================================
