--------------------------- MODULE Consoles_proofs ---------------------------
(***************************************************************************)
(* Proofs about the serial consoles, for any text, chunk size, number of   *)
(* sessions and bound on the queues: an inductive invariant for each of    *)
(* the programs that Consoles puts together, and what it gives the caller. *)
(*                                                                         *)
(* The arguments.  SolFlow: see SolFlow_proofs.  SolInput: of everything   *)
(* on its way only the last packet is new to the BMC, and the BMC took     *)
(* what was confirmed and, if the last packet arrived, what it took of     *)
(* that one; so nothing is taken twice, and the count reported is exact    *)
(* when the packet certainly did not arrive.  SolSession: whatever ends an *)
(* operation with a payload that may be active has put the doubt into the  *)
(* operation, and every report repeats it.  TyanSol: only a call that is   *)
(* ending doubts what it did, and its report says so.                      *)
(***************************************************************************)
EXTENDS Consoles, SolFlow_proofs

-----------------------------------------------------------------------------
(***************************************************************************)
(* The input of a SOL console.                                             *)
(***************************************************************************)
\* The characters of a chunk are those that follow a position.
LEMMA CharactersAre ==
  ASSUME NEW m \in Nat, NEW n \in Nat
  PROVE  /\ Input!Characters(m, n) \in Seq(Nat)
         /\ Len(Input!Characters(m, n)) = n
         /\ \A i \in 1..n : Input!Characters(m, n)[i] = m + i
<1>1. Input!Characters(m, n) \in [1..n -> Nat]
  BY DEF Input!Characters
<1>2. [1..n -> Nat] \subseteq Seq(Nat)
  BY SeqDef
<1>3. Input!Characters(m, n) \in Seq(Nat)
  BY <1>1, <1>2
<1>4. Len(Input!Characters(m, n)) = n
  BY <1>1, <1>3, LenProperties
<1> QED
  BY <1>3, <1>4 DEF Input!Characters

\* What the BMC has, followed by what it takes of a chunk that begins there.
LEMMA CharactersJoin ==
  ASSUME NEW b \in Nat, NEW n \in Nat, NEW m \in 0..n
  PROVE  Input!Characters(0, b) \o SubSeq(Input!Characters(b, n), 1, m) = Input!Characters(0, b + m)
<1> DEFINE old == Input!Characters(0, b)
           new == SubSeq(Input!Characters(b, n), 1, m)
           all == Input!Characters(0, b + m)
<1>1. old \in Seq(Nat) /\ Len(old) = b /\ \A i \in 1..b : old[i] = 0 + i
  BY CharactersAre
<1>2. all \in Seq(Nat) /\ Len(all) = b + m /\ \A i \in 1..(b + m) : all[i] = 0 + i
  <2>1. b + m \in Nat
    OBVIOUS
  <2> QED
    BY <2>1, CharactersAre
<1>3. new \in Seq(Nat) /\ Len(new) = m /\ \A i \in 1..m : new[i] = b + i
  <2> DEFINE chunk == Input!Characters(b, n)
  <2>1. chunk \in Seq(Nat) /\ Len(chunk) = n /\ \A i \in 1..n : chunk[i] = b + i
    BY CharactersAre
  <2> HIDE DEF chunk
  <2>2. \A i \in 1..m : chunk[i] \in Nat /\ chunk[i] = b + i
    BY <2>1
  <2>3. /\ SubSeq(chunk, 1, m) \in Seq(Nat)
        /\ Len(SubSeq(chunk, 1, m)) = IF 1 <= m THEN m - 1 + 1 ELSE 0
        /\ \A i \in 1..(m - 1 + 1) : SubSeq(chunk, 1, m)[i] = chunk[1 + i - 1]
    BY <2>2, SubSeqProperties
  <2> QED
    BY <2>2, <2>3 DEF chunk
<1> HIDE DEF old, new, all
<1>4. /\ old \o new \in Seq(Nat) /\ Len(old \o new) = b + m
      /\ \A i \in 1..(b + m) : (old \o new)[i] = IF i <= b THEN old[i] ELSE new[i - b]
  <2>1. b \in Nat /\ m \in Nat
    OBVIOUS
  <2>2. /\ old \o new \in Seq(Nat)
        /\ Len(old \o new) = Len(old) + Len(new)
        /\ \A i \in 1..(Len(old) + Len(new)) :
              (old \o new)[i] = IF i <= Len(old) THEN old[i] ELSE new[i - Len(old)]
    BY <1>1, <1>3, ConcatProperties, Zenon
  <2> QED
    BY <1>1, <1>3, <2>1, <2>2
<1>5. \A i \in 1..(b + m) : (old \o new)[i] = all[i]
  BY <1>1, <1>2, <1>3, <1>4
<1>6. old \o new = all
  BY <1>2, <1>4, <1>5, SeqEqual
<1> QED
  BY <1>6 DEF old, new, all

\* The sum of two counts.
LEMMA SumIsNat ==
  \A m, n \in Nat : m + n \in Nat
OBVIOUS

\* Two counts of three are not more than all of them.
LEMMA PartOfSum ==
  \A a, b, n, d \in Nat : a + b + n <= d => a + b <= d /\ (a + b = d => n = 0)
OBVIOUS

\* The minimum of two counts.
LEMMA SmallerOf ==
  ASSUME NEW a \in Int, NEW b \in Int
  PROVE  Input!Min({a, b}) = IF a <= b THEN a ELSE b
<1> DEFINE m == IF a <= b THEN a ELSE b
<1>1. m \in {a, b} /\ \A y \in {a, b} : m <= y
  OBVIOUS
<1>2. \A x \in {a, b} : (\A y \in {a, b} : x <= y) => x = m
  OBVIOUS
<1> QED
  BY <1>1, <1>2 DEF Input!Min

\* The number of the last packet sent, whether or not the caller still waits
\* for it.
Issued == IF next_input_sequence = 1 THEN LastSequence ELSE next_input_sequence - 1
\* Its answer is awaited, or has just arrived.
Open == waiting_for_ack # 0 \/ pc = "acked"
\* The BMC has it.
Arrived == newest = packets
\* What it carries.
Rest == Input!Characters(first + confirmed, chunk_left)

\* Types.
CopyTyped(c) ==
    /\ c.packet \in Nat /\ c.packet # 0 /\ c.packet <= packets
    /\ c.sequence \in 1..LastSequence /\ c.data \in Seq(Nat)
InputTypes ==
    /\ pc \in {"idle", "chunk", "send", "poll", "acked", "interrupted"}
    /\ next_input_sequence \in 1..LastSequence
    /\ first \in Nat /\ last \in Nat /\ confirmed \in Nat /\ chunk_left \in Nat
    /\ attempt \in Nat /\ controls \in Nat /\ executed \in Nat
    /\ input_ack \in Input!Ack /\ bmc_last \in Input!Ack
    /\ packets \in Nat /\ newest \in Nat /\ newest <= packets
    /\ \A c \in copies : CopyTyped(c)
    /\ acks \in Seq(Input!Ack)
    /\ received \in Seq(Nat)

\* Where the call stands.
Stands ==
    /\ pc \in {"send", "poll"} => waiting_for_ack = Issued
    /\ pc \in {"idle", "chunk", "acked"} => waiting_for_ack = 0
    /\ waiting_for_ack \in {0, Issued}
    /\ waiting_for_ack # 0 => packets # 0
    /\ first + confirmed <= last
    /\ pc = "idle" => first + confirmed = last
    /\ pc \in {"idle", "chunk"} => ~control
    /\ pc = "chunk" \/ (Open /\ ~control) => first + confirmed + chunk_left <= last
    /\ pc = "idle" \/ (Open /\ control) \/ (pc = "chunk" /\ first + confirmed = last) => chunk_left = 0
    /\ Open => IF control THEN first + confirmed = last ELSE chunk_left # 0

\* The one packet that is on the way when none was sent again.
Sole == [packet |-> packets, attempt |-> 0, sequence |-> Issued, data |-> Rest]
Once ==
    /\ overtaken => repeated
    /\ ~repeated => copies \subseteq {Sole} /\ (Arrived => copies = {})

\* What the BMC has is the last packet or the one before.
Marks ==
    /\ Arrived \/ newest + 1 = packets
    /\ waiting_for_ack = 0 => Arrived
    /\ Arrived => bmc_last.ack = IF packets = 0 THEN 0 ELSE Issued
    /\ ~Arrived => bmc_last.ack # Issued
    /\ pc = "acked" => input_ack = bmc_last
\* Copies of these two bear their numbers; one of the last, if the BMC does not
\* have it, carries what remains of the chunk.
CopiesKnown ==
    \A c \in copies :
      /\ c.packet = newest => c.sequence = bmc_last.ack
      /\ c.packet = packets => c.sequence = Issued
      /\ c.packet = packets /\ ~Arrived => c.data = Rest
\* Of the answers, those to the last packet come last, and are all the same.
AcksKnown ==
    /\ \A i \in DOMAIN acks : acks[i].ack = Issued => acks[i] = bmc_last
    /\ \A i, j \in DOMAIN acks : i < j /\ acks[i].ack = Issued => acks[j].ack = Issued
    /\ waiting_for_ack = 0 => \A i \in DOMAIN acks : acks[i].ack = Issued

\* A packet that was certainly not sent will not arrive.
Unsent ==
    (pc = "send" /\ attempt = 0) \/ (pc = "interrupted" /\ ~uncertain /\ waiting_for_ack # 0)
    => ~Arrived /\ \A c \in copies : c.packet # packets

\* What the BMC took is what the caller was told.
Exact == Len(received) = first + confirmed /\ executed = controls
\* Characters of the last packet that the BMC took.
OfLast == IF bmc_last.accepted <= chunk_left THEN bmc_last.accepted ELSE chunk_left
\* What the BMC took is what was confirmed and, when the last packet arrived,
\* what it took of that one.
Taken ==
    /\ received = Input!Characters(0, Len(received))
    /\ pc \in {"idle", "chunk"} => Exact
    /\ Open /\ ~Arrived => Exact
    /\ Open /\ Arrived =>
          /\ Len(received) = first + confirmed + OfLast
          /\ executed = controls \/ (control /\ executed = controls + 1)
          /\ control /\ ~bmc_last.unavailable => executed = controls + 1
    /\ ~Open =>
          /\ first + confirmed <= Len(received)
          /\ executed = controls \/ (control /\ executed = controls + 1)
          /\ pc = "interrupted" /\ ~uncertain => Exact

\* The inductive invariant of SolInput.  An old copy that was taken for a new
\* packet leaves only the first three.
Followed == Marks /\ CopiesKnown /\ AcksKnown /\ Unsent /\ Taken
InputInv == InputTypes /\ Stands /\ Once /\ (~overtaken => Followed)

\* A packet number is not that of the packet before.
LEMMA NumbersFollow ==
  ASSUME next_input_sequence \in 1..LastSequence
  PROVE  /\ Issued \in 1..LastSequence /\ Issued # next_input_sequence /\ Issued # 0
         /\ Input!Successor(next_input_sequence) \in 1..LastSequence
         /\ next_input_sequence' = Input!Successor(next_input_sequence) => Issued' = next_input_sequence
  BY FlowAssumption DEF Issued, Input!Successor

\* An acknowledgement has these fields.
LEMMA AckFields ==
  ASSUME NEW a \in Input!Ack
  PROVE  a.accepted \in Nat /\ a.ack \in Nat /\ a.unavailable \in BOOLEAN
<1>1. a.accepted \in 0..(ChunkSize + 1) /\ a.ack \in 0..LastSequence /\ a.unavailable \in BOOLEAN
  BY Zenon DEF Input!Ack
<1> QED
  BY <1>1, FlowAssumption, InputAssumption

\* Only a packet that was sent again is overtaken.
LEMMA SoleCopy ==
  ASSUME InputInv, ~repeated
  PROVE  ~overtaken /\ Followed /\ copies \subseteq {Sole} /\ (Arrived => copies = {})
  BY Zenon DEF InputInv, Once

\* Between its packets the caller disturbs nothing that is on the way.
LEMMA BetweenPackets ==
  ASSUME InputInv, waiting_for_ack = 0, pc' \notin {"send", "acked"},
         UNCHANGED <<next_input_sequence, waiting_for_ack, packets, repeated, copies, acks,
                     bmc_last, newest, overtaken>>
  PROVE  Once' /\ (~overtaken' => Marks' /\ CopiesKnown' /\ AcksKnown' /\ Unsent')
<1>1. Issued' = Issued /\ Arrived' = Arrived
  BY DEF Issued, Arrived
<1>2. ~overtaken => Followed
  BY Zenon DEF InputInv
<1>3. overtaken => repeated
  BY Zenon DEF InputInv, Once
<1>4. ~overtaken => Arrived
  BY <1>2 DEF Followed, Marks
<1>5. Once'
  <2>1. ~repeated => copies = {}
    BY <1>4, SoleCopy
  <2> QED
    BY <1>3, <2>1 DEF Once
<1>6. ASSUME ~overtaken' PROVE Marks' /\ CopiesKnown' /\ AcksKnown' /\ Unsent'
  <2>1. Marks /\ CopiesKnown /\ AcksKnown /\ Arrived
    BY <1>2, <1>4, <1>6 DEF Followed
  <2>2. Marks'
    BY <1>1, <2>1 DEF Marks
  <2>3. CopiesKnown'
    BY <1>1, <2>1 DEF CopiesKnown
  <2>4. AcksKnown'
    BY <1>1, <2>1 DEF AcksKnown
  <2>5. Unsent'
    BY <2>1 DEF Unsent
  <2> QED
    BY <2>2, <2>3, <2>4, <2>5
<1> QED
  BY <1>5, <1>6

\* A new packet is begun only when the last one is known to be taken or
\* refused.
LEMMA NewPacketKeeps ==
  ASSUME InputInv, Input!NewPacket, pc \in {"idle", "chunk"},
         UNCHANGED <<last, controls, uncertain, copies, acks, repeated, bmc_last, received, executed, newest, overtaken>>,
         first' \in Nat, chunk_left' \in Nat, confirmed' \in Nat,
         first' + confirmed' = first + confirmed,
         first' + confirmed' + chunk_left' <= last',
         IF control' THEN chunk_left' = 0 /\ first' + confirmed' = last' ELSE chunk_left' # 0
  PROVE  InputInv'
<1>0. InputTypes /\ Stands /\ Once /\ (~overtaken => Followed)
  BY Zenon DEF InputInv
<1>1. next_input_sequence \in 1..LastSequence /\ packets \in Nat /\ newest \in Nat /\ newest <= packets
  BY <1>0 DEF InputTypes
<1>2. /\ next_input_sequence' = Input!Successor(next_input_sequence) /\ packets' = packets + 1
      /\ waiting_for_ack' = next_input_sequence /\ input_ack' = Input!NoAck /\ attempt' = 0 /\ pc' = "send"
  BY DEF Input!NewPacket
<1>3. /\ Issued \in 1..LastSequence /\ Issued' # Issued /\ Issued' = next_input_sequence /\ Issued' # 0
      /\ next_input_sequence' \in 1..LastSequence
  BY <1>1, <1>2, NumbersFollow
<1>4. waiting_for_ack' = Issued' /\ waiting_for_ack' # 0 /\ waiting_for_ack = 0
  BY <1>0, <1>2, <1>3 DEF Stands
<1>5. packets' \in Nat /\ newest' <= packets' /\ packets' # packets /\ packets' # 0 /\ ~Arrived'
  BY <1>1, <1>2 DEF Arrived
<1>6. InputTypes'
  <2>1. Input!NoAck \in Input!Ack
    <3>1. 0 \in 0..LastSequence /\ 0 \in 0..(ChunkSize + 1)
      BY InputAssumption, FlowAssumption
    <3> QED
      BY <3>1, Zenon DEF Input!NoAck, Input!Ack
  <2>2. \A c \in copies : CopyTyped(c)'
    BY <1>0, <1>1, <1>2 DEF InputTypes, CopyTyped
  <2> QED
    BY <1>0, <1>2, <1>3, <1>5, <2>1, <2>2 DEF InputTypes
<1>7. Stands'
  <2>1. first' + confirmed' <= last'
    <3>1. last' \in Nat
      BY <1>0 DEF InputTypes
    <3> QED
      BY <3>1, PartOfSum, Zenon
  <2> QED
    BY <1>2, <1>3, <1>4, <1>5, <2>1 DEF Stands, Open
<1>8. ~overtaken => Arrived /\ bmc_last.ack \in {0, Issued}
  BY <1>0, <1>4 DEF Followed, Marks
<1>9. Once'
  <2>1. ~repeated => copies = {}
    BY <1>8, SoleCopy
  <2> QED
    BY <1>0, <2>1 DEF Once
<1>10. ASSUME ~overtaken' PROVE Followed'
  <2>1. Marks /\ CopiesKnown /\ AcksKnown /\ Taken /\ Arrived /\ bmc_last.ack \in {0, Issued}
    BY <1>0, <1>8, <1>10 DEF Followed
  <2>2. \A c \in copies : c.packet \in Nat /\ c.packet <= packets
    BY <1>0 DEF InputTypes, CopyTyped
  <2>3. Marks'
    BY <1>1, <1>2, <1>3, <1>4, <1>5, <2>1 DEF Marks, Arrived
  <2>4. \A c \in copies' : c.packet # packets'
    BY <1>1, <1>2, <2>2
  <2>5. CopiesKnown'
    BY <2>1, <2>4 DEF CopiesKnown
  <2>6. AcksKnown'
    BY <1>3, <1>4, <2>1 DEF AcksKnown
  <2>7. Unsent'
    BY <1>5, <2>4 DEF Unsent
  <2>8. Taken'
    <3>1. received = Input!Characters(0, Len(received)) /\ Exact
      BY <2>1 DEF Taken
    <3> QED
      BY <1>2, <1>4, <1>5, <3>1 DEF Taken, Open, Exact
  <2> QED
    BY <2>3, <2>5, <2>6, <2>7, <2>8 DEF Followed
<1> QED
  BY <1>6, <1>7, <1>9, <1>10 DEF InputInv

\* send_input() and send_control() between their packets.
LEMMA InputCaller ==
  ASSUME InputInv,
         (\E n \in 1..MaxInput : Input!SendInput(n)) \/ Input!SendInputCancelled \/ Input!SendControl \/ Input!NextPacket \/ Input!AllSent
         \/ Input!Acked \/ Input!AckedTooMany \/ Input!ControlAcked
  PROVE  InputInv'
<1>0. InputTypes /\ Stands /\ (~overtaken => Followed)
  BY Zenon DEF InputInv
<1>i. Issued \in 1..LastSequence /\ Issued # 0
  BY <1>0, NumbersFollow DEF InputTypes
<1>w. pc \in {"idle", "chunk", "acked"} => waiting_for_ack = 0
  BY <1>0 DEF Stands
<1>t. ~overtaken => Taken /\ (pc = "acked" => Arrived /\ input_ack = bmc_last)
  BY <1>0, <1>w DEF Followed, Marks
<1>u. ASSUME pc \in {"idle", "chunk", "acked"}, pc' \in {"idle", "chunk", "interrupted"},
             UNCHANGED <<next_input_sequence, waiting_for_ack, input_ack, packets, repeated,
                         copies, acks, bmc_last, received, executed, newest, overtaken>>,
             first' \in Nat, last' \in Nat, confirmed' \in Nat, chunk_left' \in Nat,
             attempt' \in Nat, controls' \in Nat,
             Stands', ~overtaken => Taken'
      PROVE  InputInv'
  <2>1. InputTypes'
    <3>1. \A c \in copies' : CopyTyped(c)'
      BY <1>0, <1>u DEF InputTypes, CopyTyped
    <3> QED
      BY <1>0, <1>u, <3>1 DEF InputTypes
  <2>2. Once' /\ (~overtaken' => Marks' /\ CopiesKnown' /\ AcksKnown' /\ Unsent')
    BY <1>u, <1>w, BetweenPackets
  <2> QED
    BY <1>u, <2>1, <2>2 DEF InputInv, Followed
<1>n. /\ first \in Nat /\ last \in Nat /\ confirmed \in Nat /\ chunk_left \in Nat
      /\ attempt \in Nat /\ controls \in Nat /\ input_ack.accepted \in Nat
  BY <1>0, AckFields DEF InputTypes
<1> DEFINE Still == UNCHANGED <<next_input_sequence, waiting_for_ack, input_ack, packets, repeated,
                                copies, acks, bmc_last, received, executed, newest, overtaken>>
<1>s. Still => Issued' = Issued /\ Arrived' = Arrived
  BY DEF Issued, Arrived
<1> USE DEF Input!flow_vars, Input!call_vars, Input!counters, Input!bmc_vars, Input!net_vars, Input!Interrupted
<1>1. ASSUME NEW n \in 1..MaxInput, Input!SendInput(n) PROVE InputInv'
  <2>1. /\ pc = "idle" /\ pc' = "chunk" /\ first' = last /\ last' = last + n /\ confirmed' = 0 /\ Still
        /\ UNCHANGED <<chunk_left, control, controls, partials, attempt, uncertain>>
    BY <1>1 DEF Input!SendInput
  <2>2. last' \in Nat /\ n \in Nat /\ n # 0
    BY <1>n, <2>1, InputAssumption
  <2>3. first + confirmed = last /\ chunk_left = 0 /\ ~control /\ waiting_for_ack = 0
    BY <1>0, <2>1 DEF Stands
  <2>4. Stands'
    BY <1>n, <2>1, <2>2, <2>3 DEF Stands, Open
  <2>5. ~overtaken => Taken'
    <3> HAVE ~overtaken
    <3>1. Exact /\ received = Input!Characters(0, Len(received))
      BY <1>t, <2>1 DEF Taken
    <3>2. Exact' /\ first' + confirmed' <= Len(received')
      BY <1>n, <2>1, <2>3, <3>1 DEF Exact
    <3>3. received' = Input!Characters(0, Len(received')) /\ ~Open' /\ pc' = "chunk"
      BY <2>1, <2>3, <3>1 DEF Open
    <3> QED
      BY <3>2, <3>3 DEF Taken, Exact
  <2> QED
    BY <1>u, <1>n, <2>1, <2>2, <2>4, <2>5
<1>2. CASE Input!SendInputCancelled
  <2>1. /\ pc = "idle" /\ pc' = "interrupted" /\ first' = last /\ last' = last /\ confirmed' = 0 /\ attempt' = 0 /\ Still
        /\ UNCHANGED <<chunk_left, control, controls>>
    BY <1>2 DEF Input!SendInputCancelled
  <2>3. first + confirmed = last /\ chunk_left = 0 /\ ~control /\ waiting_for_ack = 0
    BY <1>0, <2>1 DEF Stands
  <2>4. Stands'
    BY <1>n, <2>1, <2>3 DEF Stands, Open
  <2>5. ~overtaken => Taken'
    <3> HAVE ~overtaken
    <3>1. Exact /\ received = Input!Characters(0, Len(received))
      BY <1>t, <2>1 DEF Taken
    <3>2. Exact' /\ first' + confirmed' <= Len(received)
      BY <1>n, <2>1, <2>3, <3>1 DEF Exact
    <3> QED
      BY <1>s, <2>1, <2>3, <3>1, <3>2 DEF Taken, Open, Exact
  <2> QED
    BY <1>u, <1>n, <2>1, <2>4, <2>5
<1>3. CASE Input!AllSent
  <2>1. /\ pc = "chunk" /\ pc' = "idle" /\ first + confirmed = last /\ Still
        /\ UNCHANGED <<first, last, confirmed, chunk_left, control, controls, attempt>>
    BY <1>3 DEF Input!AllSent
  <2>3. chunk_left = 0 /\ ~control /\ waiting_for_ack = 0
    BY <1>0, <2>1 DEF Stands
  <2>4. Stands'
    BY <1>n, <2>1, <2>3 DEF Stands, Open
  <2>5. ~overtaken => Taken'
    BY <1>t, <1>s, <2>1, <2>3 DEF Taken, Open, Exact
  <2> QED
    BY <1>u, <1>n, <2>1, <2>4, <2>5
<1>4. CASE Input!AckedTooMany
  <2>1. /\ pc = "acked" /\ pc' = "interrupted" /\ uncertain' = TRUE /\ ~control /\ attempt' = 0 /\ Still
        /\ UNCHANGED <<first, last, confirmed, chunk_left, control, controls>>
    BY <1>4 DEF Input!AckedTooMany
  <2>3. waiting_for_ack = 0 /\ first + confirmed <= last
    BY <1>0, <2>1 DEF Stands
  <2>4. Stands'
    BY <1>n, <2>1, <2>3 DEF Stands, Open
  <2>5. ~overtaken => Taken'
    <3> HAVE ~overtaken
    <3>1. /\ Len(received) = first + confirmed + OfLast /\ executed = controls
          /\ received = Input!Characters(0, Len(received))
      BY <1>t, <2>1 DEF Taken, Open
    <3>2. OfLast \in Nat
      BY <1>t, <1>n, <2>1 DEF OfLast
    <3>3. first' + confirmed' <= Len(received)
      BY <1>n, <2>1, <3>1, <3>2
    <3> QED
      BY <2>1, <2>3, <3>1, <3>3 DEF Taken, Open
  <2> QED
    BY <1>u, <1>n, <2>1, <2>4, <2>5
<1>5. CASE Input!ControlAcked
  <2>1. /\ pc = "acked" /\ control /\ Still
        /\ UNCHANGED <<first, last, confirmed, chunk_left>>
    BY <1>5 DEF Input!ControlAcked
  <2>2. \/ pc' = "interrupted" /\ uncertain' = TRUE /\ control' = control /\ controls' = controls /\ attempt' = 0
        \/ pc' = "idle" /\ controls' = controls + 1 /\ control' = FALSE /\ ~input_ack.unavailable /\ input_ack.accepted = 0 /\ attempt' = attempt
    BY <1>5 DEF Input!ControlAcked
  <2>3. waiting_for_ack = 0 /\ first + confirmed = last /\ chunk_left = 0
    BY <1>0, <2>1 DEF Stands, Open
  <2>n. pc' \in {"idle", "interrupted"} /\ attempt' \in Nat /\ controls' \in Nat
    BY <1>n, <2>2
  <2>4. Stands'
    <3>1. /\ waiting_for_ack' = 0 /\ first' + confirmed' = last' /\ first' + confirmed' <= last'
          /\ chunk_left' = 0 /\ first' + confirmed' + chunk_left' <= last'
      BY <1>n, <2>1, <2>3
    <3>2. pc' = "idle" => ~control'
      BY <2>2
    <3> QED
      BY <2>n, <3>1, <3>2 DEF Stands, Open
  <2>5. ~overtaken => Taken'
    <3> HAVE ~overtaken
    <3>1. /\ Len(received) = first + confirmed + OfLast
          /\ executed = controls \/ executed = controls + 1
          /\ ~bmc_last.unavailable => executed = controls + 1
          /\ received = Input!Characters(0, Len(received))
      BY <1>t, <2>1 DEF Taken, Open
    <3>2. OfLast = 0
      BY <1>t, <1>n, <2>1, <2>3 DEF OfLast
    <3>3. Len(received) = first' + confirmed' /\ first' + confirmed' <= Len(received)
      BY <1>n, <2>1, <3>1, <3>2
    <3>4. CASE pc' = "interrupted"
      BY <2>1, <2>2, <2>3, <3>1, <3>3, <3>4 DEF Taken, Open
    <3>5. CASE pc' = "idle"
      BY <1>t, <2>1, <2>2, <2>3, <3>1, <3>3, <3>5 DEF Taken, Open, Exact
    <3> QED
      BY <2>n, <3>4, <3>5
  <2> QED
    BY <1>u, <1>n, <2>1, <2>n, <2>4, <2>5
<1>6. CASE Input!Acked
  <2>1. /\ pc = "acked" /\ ~control /\ control' = control /\ input_ack.accepted <= chunk_left /\ Still
        /\ confirmed' = confirmed + input_ack.accepted /\ chunk_left' = chunk_left - input_ack.accepted
        /\ UNCHANGED <<first, last, controls>>
    BY <1>6 DEF Input!Acked
  <2>2. /\ pc' = "chunk" \/ (pc' = "interrupted" /\ (uncertain' = (chunk_left' # 0) \/ uncertain' = TRUE))
        /\ attempt' = 0 \/ attempt' = attempt
    BY <1>6 DEF Input!Acked
  <2>n. pc' \in {"chunk", "interrupted"} /\ attempt' \in Nat
    BY <1>n, <2>2
  <2>3. waiting_for_ack = 0 /\ first + confirmed + chunk_left <= last
    BY <1>0, <2>1 DEF Stands, Open
  <2>4. /\ confirmed' \in Nat /\ chunk_left' \in Nat
        /\ first' + confirmed' + chunk_left' <= last' /\ first' + confirmed' <= last'
        /\ first' + confirmed' = last' => chunk_left' = 0
    <3> DEFINE n == input_ack.accepted
    <3>1. n \in Nat /\ n <= chunk_left
      BY <1>n, <2>1
    <3>2. confirmed' = confirmed + n /\ chunk_left' = chunk_left - n /\ first' = first /\ last' = last
      BY <2>1
    <3> HIDE DEF n
    <3>3. /\ confirmed + n \in Nat /\ chunk_left - n \in Nat
          /\ first + (confirmed + n) + (chunk_left - n) <= last /\ first + (confirmed + n) <= last
          /\ first + (confirmed + n) = last => chunk_left - n = 0
      <4>1. first \in Nat /\ confirmed \in Nat /\ chunk_left \in Nat /\ last \in Nat
        BY <1>n, Zenon
      <4>2. first + confirmed + chunk_left <= last
        BY <2>3, Zenon
      <4> QED
        BY <3>1, <4>1, <4>2
    <3> QED
      BY <3>2, <3>3, Zenon
  <2>5. Stands'
    BY <2>1, <2>n, <2>3, <2>4 DEF Stands, Open
  <2>6. ~overtaken => Taken'
    <3> HAVE ~overtaken
    <3>1. /\ Len(received) = first + confirmed + OfLast /\ executed = controls
          /\ received = Input!Characters(0, Len(received))
      BY <1>t, <2>1 DEF Taken, Open
    <3>2. OfLast = input_ack.accepted
      BY <1>t, <2>1 DEF OfLast
    <3>3. Len(received) = first' + confirmed' /\ executed' = controls'
      BY <1>n, <2>1, <3>1, <3>2
    <3>4. first' + confirmed' <= Len(received)
      BY <1>n, <2>1, <2>4, <3>3
    <3> QED
      BY <2>1, <2>n, <2>3, <3>1, <3>3, <3>4 DEF Taken, Open, Exact
  <2> QED
    BY <1>u, <1>n, <2>1, <2>n, <2>4, <2>5, <2>6
<1>7. CASE Input!SendControl
  <2>1. /\ Input!NewPacket /\ pc = "idle" /\ control' = TRUE /\ chunk_left' = chunk_left
        /\ UNCHANGED <<last, controls, uncertain, copies, acks, repeated, bmc_last, received, executed, newest, overtaken>>
        /\ first' = last /\ confirmed' = 0
    BY <1>7 DEF Input!SendControl
  <2>2. first + confirmed = last /\ chunk_left = 0
    BY <1>0, <2>1 DEF Stands
  <2>3. /\ first' \in Nat /\ chunk_left' \in Nat /\ confirmed' \in Nat
        /\ first' + confirmed' = first + confirmed /\ first' + confirmed' + chunk_left' <= last'
        /\ chunk_left' = 0 /\ first' + confirmed' = last'
    BY <1>n, <2>1, <2>2
  <2> QED
    BY <2>1, <2>3, NewPacketKeeps
<1>8. CASE Input!NextPacket
  <2>1. /\ Input!NewPacket /\ pc = "chunk" /\ first + confirmed < last
        /\ chunk_left' = IF chunk_left = 0 THEN Input!Min({ChunkSize, last - first - confirmed}) ELSE chunk_left
        /\ UNCHANGED <<first, last, confirmed, control, controls, uncertain, copies, acks, repeated, bmc_last,
                       received, executed, newest, overtaken>>
    BY <1>8 DEF Input!NextPacket
  <2>2. first + confirmed + chunk_left <= last /\ ~control
    BY <1>0, <2>1 DEF Stands
  <2> DEFINE rest == last - first - confirmed
  <2>3. rest \in Nat \ {0} /\ ChunkSize \in Nat \ {0}
    BY <1>n, <2>1, InputAssumption
  <2>4. Input!Min({ChunkSize, rest}) \in 1..rest
    <3> HIDE DEF rest
    <3> QED
      BY <2>3, SmallerOf
  <2>5. chunk_left' \in Nat /\ chunk_left' # 0 /\ first + confirmed + chunk_left' <= last
    BY <1>n, <2>1, <2>2, <2>3, <2>4
  <2>6. /\ first' \in Nat /\ confirmed' \in Nat /\ first' + confirmed' = first + confirmed
        /\ first' + confirmed' + chunk_left' <= last' /\ ~control'
    BY <1>n, <2>1, <2>2, <2>5
  <2> QED
    BY <2>1, <2>5, <2>6, NewPacketKeeps
<1> QED
  BY <1>1, <1>2, <1>3, <1>4, <1>5, <1>6, <1>7, <1>8

\* A packet is sent or repeated, or the send fails after it may have left.
LEMMA InputPacketSent ==
  ASSUME InputInv, NEW sent \in BOOLEAN, Input!SendPacket(sent)
  PROVE  InputInv'
<1>0. InputTypes /\ Stands /\ Once /\ (~overtaken => Followed)
  BY Zenon DEF InputInv
<1>1. /\ pc = "send" /\ (pc' = "poll" \/ (pc' = "interrupted" /\ uncertain' = TRUE))
      /\ repeated' = (repeated \/ attempt # 0)
      /\ copies' = copies \union {Input!Packet} \/ copies' = copies
      /\ attempt' = 0 \/ attempt' = attempt
      /\ UNCHANGED <<next_input_sequence, waiting_for_ack, input_ack, packets, first, last, confirmed, chunk_left,
                     control, controls, acks, bmc_last, received, executed, newest, overtaken>>
  BY DEF Input!SendPacket, Input!flow_vars, Input!call_vars, Input!counters, Input!bmc_vars, Input!Interrupted
<1>2. Issued' = Issued /\ Arrived' = Arrived /\ Rest' = Rest /\ Sole' = Sole
  <2>1. Issued' = Issued
    BY <1>1 DEF Issued
  <2>2. Rest' = Rest
    BY <1>1 DEF Rest
  <2> QED
    BY <1>1, <2>1, <2>2 DEF Arrived, Sole
<1>3. waiting_for_ack = Issued /\ Issued \in 1..LastSequence /\ Issued # 0 /\ packets # 0
  BY <1>0, <1>1, NumbersFollow DEF InputTypes, Stands
<1> DEFINE p == Input!Packet
<1>4. /\ p.packet = packets /\ p.sequence = Issued /\ p.data = Rest
      /\ attempt = 0 => p = Sole
  BY <1>3 DEF Input!Packet, Sole, Rest
<1> HIDE DEF p
<1>5. CopyTyped(p)
  <2>1. first + confirmed \in Nat /\ chunk_left \in Nat /\ packets \in Nat
    BY <1>0 DEF InputTypes
  <2>2. Rest \in Seq(Nat)
    BY <2>1, CharactersAre DEF Rest
  <2> QED
    BY <1>3, <1>4, <2>1, <2>2 DEF CopyTyped
<1>6. InputTypes'
  <2>1. \A c \in copies' : CopyTyped(c)
    BY <1>0, <1>1, <1>5 DEF InputTypes, p
  <2>2. \A c \in copies' : CopyTyped(c)'
    BY <1>1, <2>1 DEF CopyTyped
  <2>3. pc' \in {"poll", "interrupted"} /\ attempt' \in Nat
    BY <1>0, <1>1 DEF InputTypes
  <2> QED
    BY <1>0, <1>1, <2>2, <2>3 DEF InputTypes
<1>7. Stands'
  BY <1>0, <1>1, <1>2, <1>3 DEF Stands, Open
<1>8. ~overtaken /\ attempt = 0 => ~Arrived
  BY <1>0, <1>1 DEF Followed, Unsent
<1>9. Once'
  <2>1. overtaken' => repeated'
    BY <1>0, <1>1 DEF Once
  <2>2. ASSUME ~repeated' PROVE copies' \subseteq {Sole} /\ ~Arrived
    <3>1. ~repeated /\ attempt = 0
      BY <1>1, <2>2
    <3>2. ~overtaken /\ copies \subseteq {Sole}
      BY <3>1, SoleCopy
    <3>3. copies' \subseteq {Sole}
      BY <1>1, <1>4, <3>1, <3>2 DEF p
    <3> QED
      BY <1>8, <3>1, <3>2, <3>3
  <2> QED
    BY <1>2, <2>1, <2>2 DEF Once
<1>10. ASSUME ~overtaken' PROVE Followed'
  <2>1. Marks /\ CopiesKnown /\ AcksKnown /\ Taken
    BY <1>0, <1>1, <1>10 DEF Followed
  <2>2. Marks'
    BY <1>1, <1>2, <2>1 DEF Marks
  <2>3. p.packet = newest => p.sequence = bmc_last.ack
    BY <1>3, <1>4, <2>1 DEF Marks, Arrived
  <2>4. CopiesKnown'
    BY <1>1, <1>2, <1>4, <2>1, <2>3 DEF CopiesKnown, p
  <2>5. AcksKnown'
    BY <1>1, <1>2, <2>1 DEF AcksKnown
  <2>6. Unsent'
    BY <1>1 DEF Unsent
  <2>7. Taken'
    BY <1>1, <1>2, <1>3, <2>1 DEF Taken, Open, Exact, OfLast
  <2> QED
    BY <2>2, <2>4, <2>5, <2>6, <2>7 DEF Followed
<1> QED
  BY <1>6, <1>7, <1>9, <1>10 DEF InputInv

\* What is left of the answers when one of them has been read.
LEMMA LaterAre ==
  ASSUME NEW S, NEW s \in Seq(S), NEW n \in DOMAIN s, NEW t, t = SubSeq(s, n + 1, Len(s))
  PROVE  /\ t \in Seq(S)
         /\ \A i \in DOMAIN t : i \in Nat \ {0} /\ n + i \in DOMAIN s /\ t[i] = s[n + i]
<1>1. Len(s) \in Nat /\ DOMAIN s = 1..Len(s) /\ \A i \in 1..Len(s) : s[i] \in S
  BY LenProperties
<1>2. n + 1 \in Nat /\ n \in 1..Len(s) /\ \A i \in (n + 1)..Len(s) : s[i] \in S
  BY <1>1
<1>3. /\ t \in Seq(S)
      /\ Len(t) = IF n + 1 <= Len(s) THEN Len(s) - (n + 1) + 1 ELSE 0
      /\ \A i \in 1..(Len(s) - (n + 1) + 1) : t[i] = s[(n + 1) + i - 1]
  BY <1>1, <1>2, SubSeqProperties
<1>4. DOMAIN t = 1..(Len(s) - n)
  <2>1. DOMAIN t = 1..Len(t)
    BY <1>3, LenProperties
  <2> QED
    BY <1>1, <1>2, <1>3, <2>1
<1>5. ASSUME NEW i \in DOMAIN t PROVE i \in Nat \ {0} /\ n + i \in DOMAIN s /\ t[i] = s[n + i]
  <2>1. i \in 1..(Len(s) - n)
    BY <1>4
  <2>2. i \in 1..(Len(s) - (n + 1) + 1) /\ (n + 1) + i - 1 = n + i
    <3> DEFINE l == Len(s)
    <3>1. l \in Nat /\ n \in Nat /\ i \in 1..(l - n)
      BY <1>1, <1>2, <2>1
    <3> HIDE DEF l
    <3>2. i \in Nat /\ l - (n + 1) + 1 = l - n /\ (n + 1) + i - 1 = n + i
      BY <3>1
    <3>3. i \in 1..(l - (n + 1) + 1) /\ (n + 1) + i - 1 = n + i
      BY <3>1, <3>2
    <3> QED
      BY <3>3 DEF l
  <2>3. t[i] = s[n + i]
    BY <1>3, <2>2
  <2>4. i \in Nat \ {0} /\ n + i \in 1..Len(s)
    BY <1>1, <1>2, <2>1
  <2> QED
    BY <1>1, <2>3, <2>4
<1> QED
  BY <1>3, <1>5

\* transmit(): a refused send, a retry, a failed poll, an acknowledgement.
LEMMA InputTransmits ==
  ASSUME InputInv,
         Input!SendPacketRefused \/ Input!Retry \/ Input!PollFails \/ \E i \in DOMAIN acks : Input!ReceiveAck(i)
  PROVE  InputInv'
<1>0. InputTypes /\ Stands /\ Once /\ (~overtaken => Followed)
  BY Zenon DEF InputInv
<1>1. /\ pc \in {"send", "poll"}
      /\ UNCHANGED <<next_input_sequence, packets, first, last, confirmed, chunk_left, control, controls,
                     copies, repeated, bmc_last, received, executed, newest, overtaken>>
  BY DEF Input!SendPacketRefused, Input!Retry, Input!PollFails, Input!ReceiveAck, Input!flow_vars,
         Input!call_vars, Input!bmc_vars, Input!net_vars
<1>2. Issued' = Issued /\ Arrived' = Arrived /\ Rest' = Rest /\ Sole' = Sole
  <2>1. Issued' = Issued
    BY <1>1 DEF Issued
  <2>2. Rest' = Rest
    BY <1>1 DEF Rest
  <2> QED
    BY <1>1, <2>1, <2>2 DEF Arrived, Sole
<1>3. /\ waiting_for_ack = Issued /\ Issued \in 1..LastSequence /\ Issued # 0 /\ packets # 0
      /\ attempt \in Nat
  BY <1>0, <1>1, NumbersFollow DEF InputTypes, Stands
<1>4. Once'
  BY <1>0, <1>1, <1>2 DEF Once
<1>5. (\A c \in copies' : CopyTyped(c)')
  BY <1>0, <1>1 DEF InputTypes, CopyTyped
<1>6. ~overtaken => /\ Marks /\ CopiesKnown /\ AcksKnown /\ Unsent /\ Taken
  BY <1>0 DEF Followed
<1>7. ~overtaken => CopiesKnown'
  BY <1>1, <1>2, <1>6 DEF CopiesKnown
<1>8. ASSUME UNCHANGED <<waiting_for_ack, input_ack, acks>>, pc' \in {"send", "poll", "interrupted"},
             attempt' \in Nat,
             (pc' = "send" /\ attempt' = 0) \/ (pc' = "interrupted" /\ ~uncertain') => pc = "send" /\ attempt = 0
      PROVE  InputInv'
  <2>1. InputTypes'
    BY <1>0, <1>1, <1>5, <1>8 DEF InputTypes
  <2>2. Stands'
    BY <1>0, <1>1, <1>2, <1>3, <1>8 DEF Stands, Open
  <2>3. ASSUME ~overtaken' PROVE Followed'
    <3>1. Marks'
      BY <1>1, <1>2, <1>6, <1>8, <2>3 DEF Marks
    <3>2. AcksKnown'
      BY <1>1, <1>2, <1>6, <1>8, <2>3 DEF AcksKnown
    <3>3. Unsent'
      BY <1>1, <1>2, <1>6, <1>8, <2>3 DEF Unsent
    <3>4. Taken'
      BY <1>1, <1>2, <1>3, <1>6, <1>8, <2>3 DEF Taken, Open, Exact, OfLast
    <3> QED
      BY <1>1, <1>7, <2>3, <3>1, <3>2, <3>3, <3>4 DEF Followed
  <2> QED
    BY <1>4, <2>1, <2>2, <2>3 DEF InputInv
<1>9. CASE Input!SendPacketRefused
  <2>1. /\ pc = "send" /\ pc' = "interrupted" /\ attempt' = 0 /\ UNCHANGED <<waiting_for_ack, input_ack, acks>>
        /\ uncertain' = (attempt # 0)
    BY <1>9 DEF Input!SendPacketRefused, Input!RefusalDoubt, Input!Interrupted, Input!flow_vars, Input!net_vars
  <2> QED
    BY <1>8, <2>1
<1>10. CASE Input!Retry
  <2>1. /\ pc' = "send" /\ attempt' = attempt + 1 /\ UNCHANGED <<waiting_for_ack, input_ack, acks>>
    BY <1>10 DEF Input!Retry, Input!RetryNumber, Input!net_vars
  <2> QED
    BY <1>3, <1>8, <2>1
<1>11. CASE Input!PollFails
  <2>1. /\ pc' = "interrupted" /\ attempt' = 0 /\ UNCHANGED <<waiting_for_ack, input_ack, acks>> /\ uncertain' = TRUE
    BY <1>11 DEF Input!PollFails, Input!Interrupted, Input!flow_vars, Input!net_vars
  <2> QED
    BY <1>8, <2>1
<1>12. CASE \E i \in DOMAIN acks : Input!ReceiveAck(i)
  <2>1. PICK n \in DOMAIN acks : Input!ReceiveAck(n)
    BY <1>12
  <2>2. /\ pc = "poll" /\ acks' = SubSeq(acks, n + 1, Len(acks))
        /\ \/ /\ acks[n].ack = waiting_for_ack /\ input_ack' = acks[n] /\ waiting_for_ack' = 0
              /\ pc' = "acked" /\ attempt' = 0
           \/ acks[n].ack # waiting_for_ack /\ UNCHANGED <<input_ack, waiting_for_ack, pc, attempt>>
    BY <2>1 DEF Input!ReceiveAck, Input!Later, Input!Awaited
  <2>3. /\ acks \in Seq(Input!Ack) /\ acks[n] \in Input!Ack
        /\ acks' \in Seq(Input!Ack)
        /\ \A i \in DOMAIN acks' : i \in Nat \ {0} /\ n + i \in DOMAIN acks /\ acks'[i] = acks[n + i]
    <3>1. acks \in Seq(Input!Ack)
      BY <1>0 DEF InputTypes
    <3> QED
      BY <2>2, <3>1, LaterAre, LenProperties
  <2>4. n \in Nat
    BY <2>3, LenProperties
  <2>5. InputTypes'
    <3>1. pc' \in {"poll", "acked"} /\ attempt' \in Nat
      BY <1>3, <2>2
    <3>2. input_ack \in Input!Ack
      BY <1>0 DEF InputTypes
    <3>3. input_ack' \in Input!Ack
      BY <2>2, <2>3, <3>2, Zenon
    <3> QED
      BY <1>0, <1>1, <1>5, <2>3, <3>1, <3>3 DEF InputTypes
  <2>6. Stands'
    BY <1>0, <1>1, <1>2, <1>3, <2>2 DEF Stands, Open
  <2>7. ~overtaken =>
          /\ \A i \in DOMAIN acks' : acks'[i].ack = Issued => acks'[i] = bmc_last
          /\ \A i, j \in DOMAIN acks' : i < j /\ acks'[i].ack = Issued => acks'[j].ack = Issued
          /\ acks[n].ack = Issued => \A i \in DOMAIN acks' : acks'[i].ack = Issued
    <3> HAVE ~overtaken
    <3>1. AcksKnown
      BY <1>6
    <3>2. \A i \in DOMAIN acks' : acks'[i].ack = Issued => acks'[i] = bmc_last
      BY <2>3, <3>1 DEF AcksKnown
    <3>3. ASSUME NEW i \in DOMAIN acks', NEW j \in DOMAIN acks', i < j, acks'[i].ack = Issued
          PROVE  acks'[j].ack = Issued
      <4>1. n + i < n + j
        BY <2>3, <2>4, <3>3
      <4> QED
        BY <2>3, <3>1, <3>3, <4>1 DEF AcksKnown
    <3>4. ASSUME acks[n].ack = Issued, NEW i \in DOMAIN acks' PROVE acks'[i].ack = Issued
      <4>1. n < n + i
        BY <2>3, <2>4
      <4> QED
        BY <2>3, <3>1, <3>4, <4>1 DEF AcksKnown
    <3> QED
      BY <3>2, <3>3, <3>4
  <2>8. ASSUME ~overtaken' PROVE Followed'
    <3>1. Marks /\ AcksKnown /\ Unsent /\ Taken /\ CopiesKnown'
      BY <1>1, <1>6, <1>7, <2>8
    <3>2. acks[n].ack = Issued => acks[n] = bmc_last /\ Arrived
      BY <3>1 DEF AcksKnown, Marks
    <3>3. Marks'
      BY <1>1, <1>2, <1>3, <2>2, <3>1, <3>2 DEF Marks
    <3>4. AcksKnown'
      BY <1>1, <1>2, <1>3, <2>2, <2>7, <2>8 DEF AcksKnown
    <3>5. Unsent'
      BY <2>2 DEF Unsent
    <3>6. Taken'
      BY <1>1, <1>2, <1>3, <2>2, <3>1, <3>2 DEF Taken, Open, Exact, OfLast
    <3> QED
      BY <3>1, <3>3, <3>4, <3>5, <3>6 DEF Followed
  <2> QED
    BY <1>4, <2>5, <2>6, <2>8 DEF InputInv
<1> QED
  BY <1>9, <1>10, <1>11, <1>12

\* What Outside leaves alone.
LEMMA OutsideKeeps ==
  ASSUME InputInv, Input!Outside,
         newest' \in Nat, newest' <= packets, executed' \in Nat, bmc_last' \in Input!Ack,
         copies' \subseteq copies, acks' \in Seq(Input!Ack), received' \in Seq(Nat)
  PROVE  /\ InputTypes' /\ Stands'
         /\ Issued' = Issued /\ Rest' = Rest /\ Sole' = Sole
         /\ UNCHANGED <<pc, next_input_sequence, waiting_for_ack, input_ack, packets, first, last, confirmed,
                        chunk_left, control, controls, attempt, uncertain, repeated>>
<1>0. InputTypes /\ Stands
  BY Zenon DEF InputInv
<1>1. UNCHANGED <<pc, next_input_sequence, waiting_for_ack, input_ack, packets, first, last, confirmed,
                  chunk_left, control, controls, attempt, uncertain, repeated>>
  BY DEF Input!Outside, Input!flow_vars, Input!call_vars, Input!counters
<1>2. Issued' = Issued /\ Rest' = Rest
  BY <1>1 DEF Issued, Rest
<1>3. Sole' = Sole
  BY <1>1, <1>2 DEF Sole
<1>4. \A c \in copies' : CopyTyped(c)'
  BY <1>0, <1>1 DEF InputTypes, CopyTyped
<1>5. InputTypes'
  BY <1>0, <1>1, <1>4 DEF InputTypes
<1>6. Stands'
  BY <1>0, <1>1, <1>2 DEF Stands, Open
<1> QED
  BY <1>1, <1>2, <1>3, <1>5, <1>6

\* What the BMC takes of a packet is typed.
LEMMA TakeTyped ==
  ASSUME InputInv, NEW c \in copies, NEW count \in 0..(ChunkSize + 1), NEW unavailable \in BOOLEAN,
         Input!Take(c, count, unavailable)
  PROVE  /\ executed' \in Nat /\ bmc_last' \in Input!Ack /\ received' \in Seq(Nat)
         /\ bmc_last'.ack = c.sequence /\ bmc_last'.accepted = count /\ bmc_last'.unavailable = unavailable
         /\ Len(c.data) \in Nat /\ Input!Min({count, Len(c.data)}) = IF count <= Len(c.data) THEN count ELSE Len(c.data)
<1>1. CopyTyped(c) /\ executed \in Nat /\ received \in Seq(Nat)
  BY DEF InputInv, InputTypes
<1>2. /\ received' = received \o SubSeq(c.data, 1, Input!Min({count, Len(c.data)}))
      /\ executed' = executed + (IF c.data = <<>> THEN 1 ELSE 0) \/ executed' = executed
      /\ bmc_last' = [ack |-> c.sequence, accepted |-> count, unavailable |-> unavailable]
  BY DEF Input!Take
<1>3. executed' \in Nat
  BY <1>1, <1>2
<1>4. bmc_last' \in Input!Ack /\ bmc_last'.ack = c.sequence /\ bmc_last'.accepted = count /\ bmc_last'.unavailable = unavailable
  <2>1. c.sequence \in 0..LastSequence
    BY <1>1, FlowAssumption DEF CopyTyped
  <2> QED
    BY <1>2, <2>1, Zenon DEF Input!Ack
<1>5. c.data \in Seq(Nat) /\ Len(c.data) \in Nat
  BY <1>1, LenProperties DEF CopyTyped
<1> DEFINE n == Len(c.data)
           m == IF count <= n THEN count ELSE n
<1>6. Input!Min({count, n}) = m /\ m \in 0..n
  <2>1. count \in Nat /\ n \in Nat
    BY <1>5, InputAssumption
  <2> HIDE DEF n
  <2> QED
    BY <2>1, SmallerOf
<1>7. SubSeq(c.data, 1, m) \in Seq(Nat)
  <2>1. \A i \in 1..n : c.data[i] \in Nat
    BY <1>5, LenProperties
  <2>n. n \in Nat
    BY <1>5
  <2> HIDE DEF n
  <2>2. m \in Nat /\ \A i \in 1..m : c.data[i] \in Nat
    BY <1>6, <2>1, <2>n
  <2> HIDE DEF m
  <2> QED
    BY <2>2, SubSeqProperties
<1>8. received' \in Seq(Nat)
  <2> HIDE DEF m, n
  <2>1. received' = received \o SubSeq(c.data, 1, m)
    BY <1>2, <1>6 DEF n
  <2> QED
    BY <1>1, <1>7, <2>1, ConcatProperties
<1> QED
  BY <1>3, <1>4, <1>5, <1>6, <1>8

\* The BMC takes some of a packet it has not seen.
LEMMA InputAccepted ==
  ASSUME InputInv, NEW c \in copies, NEW count \in 0..(ChunkSize + 1), NEW unavailable \in BOOLEAN,
         Input!BmcAccept(c, count, unavailable)
  PROVE  InputInv'
<1>0. InputTypes /\ Stands /\ Once /\ (~overtaken => Followed)
  BY Zenon DEF InputInv
<1>1. /\ Input!Take(c, count, unavailable) /\ c.packet >= newest /\ newest' = c.packet
      /\ copies' = copies \ {c} /\ acks' = Append(acks, bmc_last') /\ overtaken' = overtaken
  BY DEF Input!BmcAccept
<1>2. /\ Input!Outside /\ c.sequence # bmc_last.ack
      /\ received' = received \o SubSeq(c.data, 1, Input!Min({count, Len(c.data)}))
      /\ executed' = executed + (IF c.data = <<>> THEN 1 ELSE 0) \/ (unavailable /\ executed' = executed)
  BY <1>1 DEF Input!Take
<1>3. /\ executed' \in Nat /\ bmc_last' \in Input!Ack /\ received' \in Seq(Nat)
      /\ bmc_last'.ack = c.sequence /\ bmc_last'.accepted = count /\ bmc_last'.unavailable = unavailable
      /\ Input!Min({count, Len(c.data)}) = IF count <= Len(c.data) THEN count ELSE Len(c.data)
  BY <1>1, TakeTyped
<1>4. newest' \in Nat /\ newest' <= packets /\ c.packet \in Nat /\ newest \in Nat /\ packets \in Nat
  BY <1>0, <1>1 DEF InputTypes, CopyTyped
<1>5. /\ acks \in Seq(Input!Ack) /\ acks' \in Seq(Input!Ack)
      /\ \A i \in DOMAIN acks' : /\ i \in 1..Len(acks')
                                 /\ (i \in DOMAIN acks /\ acks'[i] = acks[i]) \/ (acks'[i] = bmc_last' /\ i = Len(acks'))
  <2>1. acks \in Seq(Input!Ack)
    BY <1>0 DEF InputTypes
  <2> QED
    BY <1>1, <1>3, <2>1, AppendProperties, LenProperties
<1>6. /\ InputTypes' /\ Stands'
      /\ Issued' = Issued /\ Rest' = Rest /\ Sole' = Sole
      /\ UNCHANGED <<pc, next_input_sequence, waiting_for_ack, input_ack, packets, first, last, confirmed,
                     chunk_left, control, controls, attempt, uncertain, repeated>>
  <2>1. copies' \subseteq copies
    BY <1>1
  <2> QED
    BY <1>2, <1>3, <1>4, <1>5, <2>1, OutsideKeeps
<1>7. Once'
  <2>1. ~repeated => copies' = {}
    BY <1>1, SoleCopy
  <2> QED
    BY <1>0, <1>1, <1>6, <2>1 DEF Once
<1>8. ASSUME ~overtaken' PROVE Followed'
  <2>1. Marks /\ CopiesKnown /\ AcksKnown /\ Unsent /\ Taken
    BY <1>0, <1>1, <1>8 DEF Followed
  <2>2. c.packet # newest
    BY <1>2, <2>1 DEF CopiesKnown
  <2>3. c.packet = packets /\ ~Arrived /\ newest' = packets
    <3>1. c.packet <= packets /\ newest <= packets
      BY <1>0 DEF InputTypes, CopyTyped
    <3>2. newest = packets \/ newest + 1 = packets
      BY <2>1 DEF Marks, Arrived
    <3> QED
      BY <1>1, <1>4, <2>2, <3>1, <3>2 DEF Arrived
  <2>4. c.sequence = Issued /\ c.data = Rest /\ waiting_for_ack # 0 /\ pc # "acked" /\ packets # 0
    BY <1>0, <2>1, <2>3 DEF CopiesKnown, Marks, Stands
  <2>5. Arrived' /\ bmc_last'.ack = Issued
    BY <1>3, <1>6, <2>3, <2>4 DEF Arrived
  <2>6. Marks'
    BY <1>6, <2>4, <2>5 DEF Marks
  <2>7. CopiesKnown'
    BY <1>1, <1>6, <2>1, <2>3, <2>5 DEF CopiesKnown
  <2>8. \A i \in DOMAIN acks : acks[i].ack # Issued
    BY <2>1, <2>3 DEF AcksKnown, Marks
  <2>9. AcksKnown'
    BY <1>5, <1>6, <2>4, <2>5, <2>8 DEF AcksKnown
  <2>10. Unsent'
    BY <1>6, <2>1, <2>3, <2>4 DEF Unsent
  <2>11. Taken'
    <3> DEFINE b == first + confirmed
               m == IF count <= chunk_left THEN count ELSE chunk_left
    <3>1. first \in Nat /\ confirmed \in Nat /\ chunk_left \in Nat /\ count \in Nat
      BY <1>0, InputAssumption DEF InputTypes
    <3>2. b \in Nat /\ m \in 0..chunk_left
      BY <3>1
    <3>3. received = Input!Characters(0, b) /\ executed = controls
      BY <2>1, <2>3, <2>4 DEF Taken, Open, Exact
    <3>4. /\ c.data = Input!Characters(b, chunk_left) /\ Len(c.data) = chunk_left /\ c.data \in Seq(Nat)
      BY <2>4, <3>1, <3>2, CharactersAre DEF Rest
    <3>5. Input!Min({count, Len(c.data)}) = m
      BY <1>3, <3>4
    <3> HIDE DEF m
    <3>6. received' = Input!Characters(0, b + m)
      <4> HIDE DEF b
      <4>1. received' = Input!Characters(0, b) \o SubSeq(Input!Characters(b, chunk_left), 1, m)
        BY <1>2, <3>3, <3>4, <3>5, Zenon
      <4> QED
        BY <3>1, <3>2, <4>1, CharactersJoin, Zenon
    <3>7. Len(received') = b + m
      <4> HIDE DEF b
      <4>1. b + m \in Nat
        BY <3>1, <3>2
      <4> QED
        BY <3>6, <4>1, CharactersAre
    <3>8. c.data = <<>> <=> chunk_left = 0
      BY <3>4, EmptySeq
    <3>9. control <=> chunk_left = 0
      BY <1>0, <2>4 DEF Stands, Open
    <3>10. /\ executed' = controls \/ (control /\ executed' = controls + 1)
           /\ control /\ ~unavailable => executed' = controls + 1
      <4>1. controls \in Nat
        BY <1>0 DEF InputTypes
      <4> QED
        BY <1>2, <3>3, <3>8, <3>9, <4>1
    <3>11. OfLast' = m
      BY <1>3, <1>6 DEF OfLast, m
    <3>12. Open' /\ pc' \notin {"idle", "chunk"}
      BY <1>0, <1>6, <2>4 DEF Open, Stands
    <3>13. received' = Input!Characters(0, Len(received'))
      BY <3>6, <3>7
    <3>14. Len(received') = first' + confirmed' + OfLast'
      BY <1>6, <3>7, <3>11
    <3> QED
      BY <1>3, <1>6, <2>5, <3>10, <3>12, <3>13, <3>14 DEF Taken
  <2> QED
    BY <2>6, <2>7, <2>9, <2>10, <2>11 DEF Followed
<1> QED
  BY <1>6, <1>7, <1>8 DEF InputInv

\* The BMC takes an old copy for a new packet: it was sent again.
LEMMA InputOvertaken ==
  ASSUME InputInv, NEW c \in copies, NEW count \in 0..(ChunkSize + 1), NEW unavailable \in BOOLEAN,
         Input!BmcAcceptOld(c, count, unavailable)
  PROVE  InputInv'
<1>0. InputTypes /\ Once
  BY Zenon DEF InputInv
<1>1. /\ Input!Take(c, count, unavailable) /\ c.packet < newest /\ overtaken' = TRUE
      /\ copies' = {} /\ acks' = <<>> /\ newest' = newest
  BY DEF Input!BmcAcceptOld
<1>2. Input!Outside
  BY <1>1 DEF Input!Take
<1>3. executed' \in Nat /\ bmc_last' \in Input!Ack /\ received' \in Seq(Nat)
  BY <1>1, TakeTyped
<1>4. newest' \in Nat /\ newest' <= packets /\ packets \in Nat
  BY <1>0, <1>1 DEF InputTypes
<1>5. acks' \in Seq(Input!Ack) /\ copies' \subseteq copies
  BY <1>1, EmptySeq
<1>6. InputTypes' /\ Stands' /\ repeated' = repeated
  BY <1>2, <1>3, <1>4, <1>5, OutsideKeeps
<1>7. repeated
  <2>1. SUFFICES ASSUME ~repeated PROVE FALSE
    OBVIOUS
  <2>2. c = Sole
    BY <2>1, SoleCopy
  <2>3. c.packet = packets
    BY <2>2 DEF Sole
  <2> QED
    BY <1>1, <1>4, <2>3
<1> QED
  BY <1>1, <1>6, <1>7 DEF InputInv, Once

\* A datagram lost on the way leaves the others in their order.
LEMMA InputRemoves ==
  ASSUME NEW S, NEW s \in Seq(S), NEW n \in DOMAIN s, NEW t, t = Input!RemoveAt(s, n)
  PROVE  /\ t \in Seq(S)
         /\ \A i \in DOMAIN t : \E k \in DOMAIN s : t[i] = s[k]
         /\ \A i, j \in DOMAIN t : i < j => \E k, l \in DOMAIN s : k < l /\ t[i] = s[k] /\ t[j] = s[l]
<1>1. t = RemoveAt(s, n)
  BY DEF RemoveAt, Input!RemoveAt
<1>2. t \in Seq(S) /\ KeepsOrder(t, s)
  BY <1>1, RemovedKeepsOrder
<1> QED
  BY <1>2 DEF KeepsOrder

\* The BMC repeats its acknowledgement, or a datagram is lost.
LEMMA InputNetwork ==
  ASSUME InputInv, (\E c \in copies : Input!BmcRepeat(c)) \/ Input!Lose
  PROVE  InputInv'
<1>0. InputTypes /\ Stands /\ Once /\ (~overtaken => Followed)
  BY Zenon DEF InputInv
<1>1. /\ Input!Outside /\ UNCHANGED <<bmc_last, received, executed, newest, overtaken>> /\ copies' \subseteq copies
  BY DEF Input!BmcRepeat, Input!Lose, Input!bmc_vars
<1>2. acks \in Seq(Input!Ack) /\ bmc_last \in Input!Ack
  BY <1>0 DEF InputTypes
<1>3. ASSUME acks' \in Seq(Input!Ack),
             ~overtaken =>
               /\ \A i \in DOMAIN acks' : acks'[i].ack = Issued => acks'[i] = bmc_last
               /\ \A i, j \in DOMAIN acks' : i < j /\ acks'[i].ack = Issued => acks'[j].ack = Issued
               /\ waiting_for_ack = 0 => \A i \in DOMAIN acks' : acks'[i].ack = Issued
      PROVE  InputInv'
  <2>1. newest' \in Nat /\ newest' <= packets /\ executed' \in Nat /\ bmc_last' \in Input!Ack /\ received' \in Seq(Nat)
    BY <1>0, <1>1 DEF InputTypes
  <2>2. /\ InputTypes' /\ Stands'
        /\ Issued' = Issued /\ Rest' = Rest /\ Sole' = Sole
        /\ UNCHANGED <<pc, next_input_sequence, waiting_for_ack, input_ack, packets, first, last, confirmed,
                       chunk_left, control, controls, attempt, uncertain, repeated>>
    BY <1>1, <1>3, <2>1, OutsideKeeps
  <2>3. Arrived' = Arrived
    BY <1>1, <2>2 DEF Arrived
  <2>4. Once'
    BY <1>0, <1>1, <2>2, <2>3 DEF Once
  <2>5. ASSUME ~overtaken' PROVE Followed'
    <3>1. Marks /\ CopiesKnown /\ Unsent /\ Taken /\ ~overtaken
      BY <1>0, <1>1, <2>5 DEF Followed
    <3>2. Marks'
      BY <1>1, <2>2, <2>3, <3>1 DEF Marks
    <3>3. CopiesKnown'
      BY <1>1, <2>2, <2>3, <3>1 DEF CopiesKnown
    <3>4. AcksKnown'
      BY <1>1, <1>3, <2>2, <3>1 DEF AcksKnown
    <3>5. Unsent'
      BY <1>1, <2>2, <2>3, <3>1 DEF Unsent
    <3>6. Taken'
      BY <1>1, <2>2, <2>3, <3>1 DEF Taken, Open, Exact, OfLast
    <3> QED
      BY <3>2, <3>3, <3>4, <3>5, <3>6 DEF Followed
  <2> QED
    BY <2>2, <2>4, <2>5 DEF InputInv
<1>a. ~overtaken =>
        /\ Marks
        /\ \A i \in DOMAIN acks : acks[i].ack = Issued => acks[i] = bmc_last
        /\ \A i, j \in DOMAIN acks : i < j /\ acks[i].ack = Issued => acks[j].ack = Issued
        /\ waiting_for_ack = 0 => \A i \in DOMAIN acks : acks[i].ack = Issued
  BY <1>0 DEF Followed, AcksKnown
<1>4. CASE \E c \in copies : Input!BmcRepeat(c)
  <2>1. PICK c \in copies : Input!BmcRepeat(c)
    BY <1>4
  <2>2. acks' = Append(acks, bmc_last) /\ packets # 0
    BY <1>0, <2>1 DEF Input!BmcRepeat, InputTypes, CopyTyped
  <2>3. /\ acks' \in Seq(Input!Ack)
        /\ \A i \in DOMAIN acks' : /\ i \in 1..Len(acks')
                                   /\ (i \in DOMAIN acks /\ acks'[i] = acks[i]) \/ (acks'[i] = bmc_last /\ i = Len(acks'))
    BY <1>2, <2>2, AppendProperties, LenProperties
  <2>4. ~overtaken /\ waiting_for_ack = 0 => bmc_last.ack = Issued
    BY <1>a, <2>2 DEF Marks
  <2>5. ~overtaken =>
          /\ \A i \in DOMAIN acks' : acks'[i].ack = Issued => acks'[i] = bmc_last
          /\ \A i, j \in DOMAIN acks' : i < j /\ acks'[i].ack = Issued => acks'[j].ack = Issued
          /\ waiting_for_ack = 0 => \A i \in DOMAIN acks' : acks'[i].ack = Issued
    BY <1>a, <2>3, <2>4
  <2> QED
    BY <1>3, <2>3, <2>5
<1>5. CASE acks' = acks
  BY <1>2, <1>3, <1>5, <1>a
<1>6. CASE \E n \in DOMAIN acks : acks' = Input!RemoveAt(acks, n)
  <2>1. PICK n \in DOMAIN acks : acks' = Input!RemoveAt(acks, n)
    BY <1>6
  <2>2. /\ acks' \in Seq(Input!Ack)
        /\ \A i \in DOMAIN acks' : \E k \in DOMAIN acks : acks'[i] = acks[k]
        /\ \A i, j \in DOMAIN acks' : i < j => \E k, l \in DOMAIN acks : k < l /\ acks'[i] = acks[k] /\ acks'[j] = acks[l]
    BY <1>2, <2>1, InputRemoves
  <2>3. ~overtaken =>
          /\ \A i \in DOMAIN acks' : acks'[i].ack = Issued => acks'[i] = bmc_last
          /\ \A i, j \in DOMAIN acks' : i < j /\ acks'[i].ack = Issued => acks'[j].ack = Issued
          /\ waiting_for_ack = 0 => \A i \in DOMAIN acks' : acks'[i].ack = Issued
    BY <1>a, <2>2
  <2> QED
    BY <1>3, <2>2, <2>3
<1> QED
  BY <1>4, <1>5, <1>6 DEF Input!Lose

\* The invariant holds before the first packet.
LEMMA InputInit == Input!Init => InputInv
<1> SUFFICES ASSUME Input!Init PROVE InputInv
  OBVIOUS
<1> USE FlowAssumption DEF Input!Init
<1>1. Input!NoAck \in Input!Ack /\ Input!NoAck.ack = 0 /\ Input!NoAck.accepted = 0
  <2>1. 0 \in 0..LastSequence /\ 0 \in 0..(ChunkSize + 1)
    BY InputAssumption
  <2> QED
    BY <2>1, Zenon DEF Input!NoAck, Input!Ack
<1>2. Issued # 0 /\ Arrived /\ copies = {} /\ DOMAIN acks = {} /\ Len(received) = 0
  BY DEF Issued, Arrived
<1>3. received = Input!Characters(0, 0)
  BY CharactersAre, EmptySeq
<1>4. InputTypes
  BY <1>1, EmptySeq DEF InputTypes
<1>5. Stands
  BY DEF Stands, Open
<1>6. Once
  BY <1>2 DEF Once
<1>7. Marks /\ CopiesKnown /\ AcksKnown /\ Unsent
  BY <1>1, <1>2 DEF Marks, CopiesKnown, AcksKnown, Unsent
<1>8. Taken
  BY <1>2, <1>3 DEF Taken, Open, Exact
<1> QED
  BY <1>4, <1>5, <1>6, <1>7, <1>8 DEF InputInv, Followed

\* Every step of SolInput keeps it.
LEMMA InputStep ==
  ASSUME InputInv, Input!Next
  PROVE  InputInv'
<1> HIDE DEF InputInv
<1> QED
  BY InputCaller, InputPacketSent, InputTransmits, InputAccepted, InputOvertaken, InputNetwork
     DEF Input!Next, Input!Step, Input!Network

\* What it gives: input taken once and in order, and an exact report.
LEMMA InputSafe ==
  ASSUME InputInv
  PROVE  Input!InputOnce /\ Input!ConfirmedArrived /\ Input!CertainIsExact
<1>0. InputTypes /\ Stands /\ Once /\ (~overtaken => Followed)
  BY Zenon DEF InputInv
<1>1. ASSUME ~overtaken PROVE Taken /\ Unsent
  BY <1>0, <1>1 DEF Followed
<1>2. ASSUME ~overtaken
      PROVE  /\ executed = controls \/ (control /\ executed = controls + 1)
             /\ first + confirmed <= Len(received) /\ controls \in Nat
  <2>1. Taken /\ controls \in Nat /\ first + confirmed \in Nat /\ chunk_left \in Nat /\ bmc_last.accepted \in Nat
    BY <1>0, <1>1, <1>2, AckFields DEF InputTypes
  <2>2. OfLast \in Nat
    BY <2>1 DEF OfLast
  <2> QED
    BY <2>1, <2>2 DEF Taken, Exact, Open
<1>3. Input!InputOnce
  BY <1>0, <1>1, <1>2 DEF Input!InputOnce, Once, Taken
<1>4. Input!ConfirmedArrived
  BY <1>2 DEF Input!ConfirmedArrived
<1>5. ASSUME ~overtaken, pc = "idle" \/ (pc = "interrupted" /\ ~uncertain) PROVE Exact
  BY <1>1, <1>5 DEF Taken, Unsent, Open
<1>6. Input!CertainIsExact
  BY <1>5 DEF Input!CertainIsExact, Exact
<1> QED
  BY <1>3, <1>4, <1>6

-----------------------------------------------------------------------------
(***************************************************************************)
(* The Tyan console.                                                       *)
(***************************************************************************)
\* The operations of the Tyan console.
TyanNames == {"none", "open", "read", "input", "close", "drop"}
\* The inductive invariant of TyanSol: a call that is not ending is certain of
\* what it did, and nothing is reported before the stream is bound.
TyanInv ==
    /\ call = [name |-> call.name, size |-> call.size, uncertain |-> call.uncertain] /\ call.name \in TyanNames /\ call.size \in Nat
    /\ pending \in Nat /\ arrived \in Nat /\ returned \in Nat /\ dropped \in Nat
    /\ confirmed \in Nat /\ keys \in Nat /\ doubts \in Nat
    /\ pc # "stop" => ~call.uncertain
    /\ pc = "bound" => report = Tyan!NoReport
    /\ Tyan!OutputAccounted /\ Tyan!KeysExact /\ Tyan!StoppedIsStopped

\* It holds before the listener is bound.
LEMMA TyanInit == Tyan!Init => TyanInv
  BY DEF Tyan!Init, TyanInv, TyanNames, Tyan!NoCall, Tyan!NoReport, Tyan!OutputAccounted, Tyan!KeysExact, Tyan!StoppedIsStopped

\* Every step of TyanSol keeps it: a stop reported as done is done, and each
\* outcome of a keystroke is counted where the report counts it.
LEMMA TyanStep == TyanInv /\ Tyan!Next => TyanInv'
<1> SUFFICES ASSUME TyanInv, Tyan!Next PROVE TyanInv'
  OBVIOUS
<1> USE DEF TyanInv, TyanNames, Tyan!NoCall, Tyan!NoReport, Tyan!OutputAccounted, Tyan!KeysExact, Tyan!StoppedIsStopped, Tyan!Return, Tyan!Begin, Tyan!counts, Tyan!session, Tyan!reading
<1>1. CASE Tyan!Preflight
  BY <1>1 DEF Tyan!Preflight
<1>2. CASE Tyan!Start
  <2>1. PICK fate \in Tyan!Fates :
           /\ streaming' = (fate \in Tyan!Executes)
           /\ \/ fate = "ok" /\ Tyan!Return("idle", "opened", FALSE)
              \/ fate # "ok" /\ ~Tyan!may_have_executed(fate) /\ Tyan!Return("none", "start", FALSE)
              \/ fate # "ok" /\ Tyan!may_have_executed(fate) /\ pc' = "stop" /\ UNCHANGED <<call, report>>
    BY <1>2 DEF Tyan!Start
  <2>2. fate \notin {"ok"} /\ ~Tyan!may_have_executed(fate) => ~streaming'
    BY <2>1 DEF Tyan!Fates, Tyan!Executes, Tyan!may_have_executed
  <2> QED
    BY <1>2, <2>1, <2>2 DEF Tyan!Start
<1>3. CASE Tyan!Stop
  <2>1. PICK fate \in IF privileged THEN Tyan!Fates ELSE {"unsent"} :
           /\ streaming' = Tyan!StreamAfter(fate)
           /\ CASE call.name = "open" -> Tyan!Return("none", "start", fate # "ok")
                [] call.name = "close" ->
                     Tyan!Return("none", IF fate # "ok" \/ pending > 0 THEN "interrupted" ELSE "closed", fate # "ok")
                [] call.name = "drop" -> Tyan!Return("none", "none", FALSE)
                [] OTHER -> Tyan!Return("ended", "interrupted", fate # "ok")
    BY <1>3, Zenon DEF Tyan!Stop
  <2>a. /\ pc' # "bound" /\ call' = Tyan!NoCall
        /\ report'.kind = "none" \/ report'.unconfirmed = (fate # "ok")
    <3>1. CASE call.name = "open"
      BY <2>1, <3>1
    <3>2. CASE call.name = "close"
      BY <2>1, <3>2
    <3>3. CASE call.name = "drop"
      BY <2>1, <3>3
    <3>4. CASE call.name \notin {"open", "close", "drop"}
      BY <2>1, <3>4
    <3> QED
      BY <3>1, <3>2, <3>3, <3>4
  <2>2. fate = "ok" => ~streaming'
    BY <2>1 DEF Tyan!Executes, Tyan!StreamAfter
  <2>3. Tyan!StoppedIsStopped'
    BY <2>a, <2>2
  <2>4. Tyan!OutputAccounted'
    BY <1>3 DEF Tyan!Stop, Tyan!TakePending
  <2>5. Tyan!KeysExact'
    BY <1>3, <2>a DEF Tyan!Stop
  <2> QED
    BY <1>3, <2>a, <2>3, <2>4, <2>5 DEF Tyan!Stop, Tyan!TakePending
<1>4. CASE Tyan!Close \/ Tyan!Release \/ Tyan!BeginRead
  BY <1>4 DEF Tyan!Close, Tyan!Release, Tyan!BeginRead
<1>5. CASE Tyan!ReadWhatIsPending
  BY <1>5 DEF Tyan!ReadWhatIsPending, Tyan!ReadPending
<1>6. CASE Tyan!Datagram
  BY <1>6 DEF Tyan!Datagram
<1>7. CASE Tyan!Keystroke
  <2>1. PICK fate \in Tyan!Fates :
        /\ keys' = IF fate \in Tyan!Executes THEN keys + 1 ELSE keys
        /\ IF fate = "ok"
           THEN /\ confirmed' = confirmed + 1
                /\ Tyan!Return("idle", "sent", FALSE)
           ELSE Tyan!EndSession(Tyan!may_have_executed(fate)) /\ UNCHANGED <<confirmed, report>>
    BY <1>7 DEF Tyan!Keystroke
  <2>2. CASE fate = "ok"
    BY <1>7, <2>1, <2>2 DEF Tyan!Keystroke, Tyan!Executes
  <2>3. CASE fate = "executed"
    <3>1. keys' = keys + 1 /\ UNCHANGED <<confirmed, report>> /\ pc' = "stop"
          /\ call' = [call EXCEPT !.uncertain = Tyan!may_have_executed(fate)]
      BY <2>1, <2>3 DEF Tyan!Executes, Tyan!EndSession
    <3>2. Tyan!may_have_executed(fate)
      BY <2>3 DEF Tyan!may_have_executed
    <3>3. call'.uncertain /\ ~call.uncertain
      BY <1>7, <3>1, <3>2 DEF Tyan!Keystroke
    <3>4. Tyan!KeysExact'
      BY <1>7, <3>1, <3>3 DEF Tyan!Keystroke
    <3>5. call' = [name |-> call'.name, size |-> call'.size, uncertain |-> call'.uncertain]
          /\ call'.name = call.name /\ call'.size = call.size
      BY <3>1
    <3> QED
      BY <1>7, <3>1, <3>4, <3>5 DEF Tyan!Keystroke
  <2>4. CASE fate \in {"failed", "unsent", "lost"}
    <3>1. keys' = keys /\ UNCHANGED <<confirmed, report>> /\ pc' = "stop"
          /\ call' = [call EXCEPT !.uncertain = Tyan!may_have_executed(fate)]
      BY <2>1, <2>4 DEF Tyan!Executes, Tyan!EndSession
    <3>2. (IF call'.uncertain THEN 1 ELSE 0) \in {0, 1} /\ (IF call.uncertain THEN 1 ELSE 0) = 0
      BY <1>7 DEF Tyan!Keystroke
    <3>3. Tyan!KeysExact'
      BY <1>7, <3>1, <3>2 DEF Tyan!Keystroke
    <3>4. call' = [name |-> call'.name, size |-> call'.size, uncertain |-> call'.uncertain]
          /\ call'.name = call.name /\ call'.size = call.size
      BY <3>1
    <3> QED
      BY <1>7, <3>1, <3>3, <3>4 DEF Tyan!Keystroke
  <2> QED
    BY <2>2, <2>3, <2>4 DEF Tyan!Fates
<1>8. CASE Tyan!ReadGoesOn \/ Tyan!Keepalive \/ Tyan!OtherDatagram \/ Tyan!Waits \/ Tyan!ReadFails
  BY <1>8 DEF Tyan!ReadGoesOn, Tyan!Keepalive, Tyan!OtherDatagram, Tyan!Waits, Tyan!ReadFails, Tyan!EndSession, Tyan!GoOn
<1>9. CASE Tyan!BeginInput
  BY <1>9 DEF Tyan!BeginInput
<1>10. CASE Tyan!Outside
  BY <1>10 DEF Tyan!Outside, Tyan!Cancel, Tyan!KeepaliveDue, Tyan!BmcGivesUp
<1> QED
  BY <1>1, <1>2, <1>3, <1>4, <1>5, <1>6, <1>7, <1>8, <1>9, <1>10 DEF Tyan!Next, Tyan!Step

-----------------------------------------------------------------------------
(***************************************************************************)
(* The life of a SOL console.                                              *)
(***************************************************************************)
\* A payload belongs to a session that was opened.
SessionNumbers ==
    /\ payload \in Nat /\ session \in Nat /\ sessions \in Nat
    /\ payload <= sessions /\ session <= sessions
    /\ queue \in Nat /\ acknowledged \in Nat /\ returned \in Nat /\ dropped \in Nat
\* The operation under way has its fields.
OpIsRecord ==
    op = [name |-> op.name, why |-> op.why, attempts |-> op.attempts, max |-> op.max,
          unconfirmed |-> op.unconfirmed]
\* Which operation may be where.
SessionControl ==
    /\ pc \in {"idle", "activate", "cleanup", "handshake", "reading"}
    /\ OpIsRecord
    /\ pc = "reading" => handle = "live"
    /\ pc \in {"activate", "cleanup", "handshake"} => handle # "live"
    /\ pc = "activate" => session # 0
    /\ pc = "activate" /\ op.name = "open" => ~op.unconfirmed
    /\ pc = "handshake" => op.name # "open"
    /\ pc = "cleanup" => op.why \in {"uncertain", "reclose", "interrupted", "close", "drop"}
    /\ pc = "cleanup" /\ op.why = "reclose" => op.name # "open"
\* Where output may be queued: not when no console holds the queue, and a
\* rejected activation of a reconnection left none.
OutputPlaced ==
    /\ Session!OutputAccounted
    /\ pc = "handshake" \/ (pc = "idle" /\ handle # "live") => queue = 0
    /\ pc = "activate" /\ op.name # "open" /\ answer \in {"none", "refused"} => queue = 0 /\ payload # session
\* A payload that may be active is known to the operation under way, or was
\* reported.
PayloadKnown ==
    /\ pc = "cleanup" /\ answer # "none" => payload = 0
    /\ pc = "handshake" /\ payload # 0 => told \/ op.unconfirmed
    /\ pc = "activate" /\ answer \in {"none", "refused"} /\ payload # 0 => told \/ op.unconfirmed
    /\ Session!OrphansReported /\ Session!ClosedIsClosed
\* The inductive invariant of SolSession.
SessionInv == SessionNumbers /\ SessionControl /\ OutputPlaced /\ PayloadKnown

\* An operation returns: what it reports, and that a report that admits doubt
\* tells of the payload.
LEMMA SessionReturns ==
  ASSUME NEW kind, NEW unconfirmed, Session!Return(kind, unconfirmed)
  PROVE  /\ pc' = "idle" /\ op' = Session!NoOp
         /\ report' = [kind |-> kind, unconfirmed |-> unconfirmed]
         /\ kind \notin {"opened", "gap"} /\ (told \/ unconfirmed \/ kind = "dropped") => told'
<1>1. CASE kind \in {"opened", "gap"}
  BY <1>1 DEF Session!Return
<1>2. CASE kind \notin {"opened", "gap"}
  BY <1>2 DEF Session!Return
<1> QED
  BY <1>1, <1>2

\* The invariant holds before a console is opened.
LEMMA SessionInit == Session!Init => SessionInv
  BY DEF Session!Init, SessionInv, SessionNumbers, SessionControl, OpIsRecord, OutputPlaced, PayloadKnown, Session!NoOp,
         Session!OutputAccounted, Session!OrphansReported, Session!ClosedIsClosed

\* The BMC and the other thread: answers, output, an activation lost, a
\* cancellation.
LEMMA SessionEnvironment ==
  ASSUME SessionInv, Session!Environment
  PROVE  SessionInv'
<1> USE DEF SessionInv, SessionNumbers, SessionControl, OpIsRecord, OutputPlaced, PayloadKnown,
        Session!OutputAccounted, Session!OrphansReported, Session!ClosedIsClosed, Session!Outside, Session!client_vars
<1>1. ASSUME NEW reply \in {"ok", "wrong_route", "refused"}, Session!BmcActivate(reply) PROVE SessionInv'
  BY <1>1 DEF Session!BmcActivate
<1>2. CASE Session!BmcDeactivate
  BY <1>2 DEF Session!BmcDeactivate
<1>3. CASE Session!BmcGivesUp
  BY <1>3 DEF Session!BmcGivesUp
<1>4. CASE Session!SolOutput
  BY <1>4 DEF Session!SolOutput
<1>5. CASE Session!Cancel
  BY <1>5 DEF Session!Cancel
<1> QED
  BY <1>1, <1>2, <1>3, <1>4, <1>5 DEF Session!Environment

\* The output is handed over, and what is said of the payload is true.
HandsOver ==
    /\ SessionNumbers' /\ Session!OutputAccounted'
    /\ payload' = payload
    /\ handle' # "live" => queue' = 0
SaysTruth(kind, unconfirmed) ==
    /\ kind \notin {"opened", "gap"}
    /\ handle' # "live" /\ payload # 0 => told \/ unconfirmed \/ kind = "dropped"
    /\ kind \in {"closed", "interrupted", "uncertain"} /\ ~unconfirmed => payload = 0

\* An operation that returns with the outcome of the payload keeps the
\* invariant, if the payload is inactive or the report says that it may not be.
LEMMA ReturnKeeps ==
  ASSUME SessionInv, NEW kind, NEW unconfirmed, Session!Return(kind, unconfirmed),
         HandsOver, SaysTruth(kind, unconfirmed)
  PROVE  SessionInv'
<1>1. /\ pc' = "idle" /\ op' = Session!NoOp /\ report'.kind = kind /\ report'.unconfirmed = unconfirmed
      /\ handle' # "live" /\ payload # 0 => told'
  BY SessionReturns DEF SaysTruth
<1>2. Session!OrphansReported' /\ payload' = payload
  BY <1>1 DEF HandsOver, Session!OrphansReported
<1>3. Session!ClosedIsClosed'
  BY <1>1 DEF HandsOver, SaysTruth, Session!ClosedIsClosed
<1>4. SessionControl'
  BY <1>1, <1>2 DEF SessionInv, SessionControl, OpIsRecord, Session!NoOp
<1>5. OutputPlaced' /\ PayloadKnown'
  BY <1>1, <1>2, <1>3 DEF HandsOver, OutputPlaced, PayloadKnown
<1> QED
  BY <1>4, <1>5 DEF SessionInv, HandsOver

\* reconnect() tries again or gives up, and its report admits what no attempt
\* could confirm.
LEMMA NextAttemptKeeps ==
  ASSUME SessionInv, NEW unconfirmed, Session!NextAttempt(unconfirmed),
         pc \in {"activate", "cleanup"}, op.name # "open", queue' = 0, Session!OutputAccounted',
         returned' \in Nat, dropped' \in Nat, acknowledged' \in Nat,
         UNCHANGED <<session, sessions, payload, handle>>,
         payload # 0 => told \/ unconfirmed
  PROVE  SessionInv'
<1> USE DEF SessionInv, SessionNumbers, SessionControl, OpIsRecord, OutputPlaced, PayloadKnown,
        Session!OrphansReported, Session!ClosedIsClosed, Session!Unchanged
<1>1. CASE op.attempts < op.max
  <2>1. /\ pc' = "handshake" /\ UNCHANGED <<report, told>>
        /\ op' = [op EXCEPT !.why = "none", !.unconfirmed = unconfirmed]
    BY <1>1 DEF Session!NextAttempt, Session!GoOn
  <2>2. op'.unconfirmed = unconfirmed
        /\ op' = [name |-> op'.name, why |-> op'.why, attempts |-> op'.attempts, max |-> op'.max,
                  unconfirmed |-> op'.unconfirmed]
    BY <2>1
  <2> QED
    BY <2>1, <2>2
<1>2. CASE ~(op.attempts < op.max)
  <2>1. Session!Return("reconnect_failed", unconfirmed)
    BY <1>2 DEF Session!NextAttempt
  <2>a. HandsOver
    BY <2>1 DEF HandsOver
  <2>b. SaysTruth("reconnect_failed", unconfirmed)
    BY <2>1 DEF SaysTruth
  <2> HIDE DEF SessionInv, SessionNumbers, SessionControl, OpIsRecord, OutputPlaced, PayloadKnown, Session!OutputAccounted
  <2> QED
    BY <2>1, <2>a, <2>b, ReturnKeeps
<1> QED
  BY <1>1, <1>2

\* open() and reconnect() up to the answer to the activation.
LEMMA SessionOpening ==
  ASSUME SessionInv, Session!Opening
  PROVE  SessionInv'
<1> USE DEF SessionInv, SessionNumbers, SessionControl, OpIsRecord, OutputPlaced, PayloadKnown,
        Session!OutputAccounted, Session!OrphansReported, Session!ClosedIsClosed, Session!Unchanged
<1>1. ASSUME NEW ok \in BOOLEAN, Session!Connect(ok) PROVE SessionInv'
  BY <1>1 DEF Session!Connect, Session!Authenticate, Session!output_vars
<1>2. ASSUME NEW ok \in BOOLEAN, Session!Handshake(ok) PROVE SessionInv'
  <2> DEFINE next == [op EXCEPT !.attempts = @ + 1]
  <2>0. /\ next.name = op.name /\ next.unconfirmed = op.unconfirmed
        /\ next = [name |-> next.name, why |-> next.why, attempts |-> next.attempts, max |-> next.max,
                   unconfirmed |-> next.unconfirmed]
    OBVIOUS
  <2> HIDE DEF next
  <2>1. /\ pc = "handshake" /\ queue = 0 /\ queue' = 0 /\ answer' = "none"
        /\ UNCHANGED <<handle, remote_close_unconfirmed, returned, dropped, payload, acknowledged>>
    BY <1>2 DEF Session!Handshake
  <2>2. CASE ok
    <3>1. /\ session' = sessions + 1 /\ sessions' = sessions + 1 
          /\ pc' = "activate" /\ op' = next /\ UNCHANGED <<report, told>>
      BY <1>2, <2>2 DEF Session!Handshake, Session!Authenticate, Session!GoOn, next
    <3>2. SessionNumbers' /\ OutputPlaced'
      BY <2>0, <2>1, <3>1
    <3>3. SessionControl'
      BY <2>0, <2>1, <3>1
    <3>4. PayloadKnown'
      BY <2>0, <2>1, <3>1
    <3> QED
      BY <3>2, <3>3, <3>4
  <2>3. CASE ~ok
    <3>1. /\ session' = 0 /\ sessions' = sessions
          /\ \/ pc' = "handshake" /\ op' = next /\ UNCHANGED <<report, told>>
             \/ Session!Return("reconnect_failed", op.unconfirmed)
      BY <1>2, <2>3 DEF Session!Handshake, Session!Authenticate, Session!GoOn, next
    <3>2. CASE pc' = "handshake" /\ op' = next /\ UNCHANGED <<report, told>>
      BY <2>0, <2>1, <3>1, <3>2
    <3>3. CASE Session!Return("reconnect_failed", op.unconfirmed)
      <4>1. HandsOver
        BY <2>1, <3>1, <3>3 DEF HandsOver
      <4>2. SaysTruth("reconnect_failed", op.unconfirmed)
        BY <2>1, <3>1 DEF SaysTruth
      <4> HIDE DEF SessionInv, SessionNumbers, Session!OutputAccounted
      <4> QED
        BY <3>3, <4>1, <4>2, ReturnKeeps
    <3> QED
      BY <3>1, <3>2, <3>3
  <2> QED
    BY <1>2, <2>2, <2>3
<1>3. CASE Session!Open
  BY <1>3 DEF Session!Open, Session!GoOn, Session!NoOp
<1>4. CASE Session!Activated
  <2>1. /\ handle' = "live" /\ pc = "activate"
        /\ UNCHANGED <<session, sessions, payload, queue, acknowledged, returned, dropped>>
        /\ \E kind \in {"opened", "gap"} : \E unconfirmed : Session!Return(kind, unconfirmed)
    BY <1>4 DEF Session!Activated, Session!KeepOutput
  <2>2. pc' = "idle" /\ op' = Session!NoOp /\ report'.kind \in {"opened", "gap"}
    BY <2>1, SessionReturns
  <2> QED
    BY <2>1, <2>2 DEF Session!NoOp
<1>5. CASE Session!Rejected
  <2>1. pc = "activate" /\ answer \in {"none", "refused"} /\ returned' = returned + queue /\ queue' = 0
        /\ UNCHANGED <<session, handle, remote_close_unconfirmed, dropped, answer, sessions, acknowledged, payload>>
    BY <1>5 DEF Session!Rejected, Session!DefinitelyRejected, Session!TakeOutput
  <2>2. CASE Session!Return("rejected", FALSE) /\ (op.name = "open" \/ queue # 0)
    <3>1. payload # 0 => told
      BY <2>1, <2>2
    <3>a. HandsOver
      BY <2>1, <2>2, <3>1 DEF HandsOver
    <3>b. SaysTruth("rejected", FALSE)
      BY <2>1, <2>2, <3>1 DEF SaysTruth
    <3> HIDE DEF SessionInv, SessionNumbers, SessionControl, OpIsRecord, OutputPlaced, PayloadKnown, Session!OutputAccounted
    <3> QED
      BY <2>1, <2>2, <3>1, <3>a, <3>b, ReturnKeeps
  <2>3. CASE Session!NextAttempt(op.unconfirmed) /\ op.name # "open"
    BY <2>1, <2>3, NextAttemptKeeps
  <2> QED
    BY <1>5, <2>2, <2>3 DEF Session!Rejected
<1>6. CASE Session!PossiblyActivated
  BY <1>6 DEF Session!PossiblyActivated, Session!GoOn, Session!KeepOutput
<1> QED
  BY <1>1, <1>2, <1>3, <1>4, <1>5, <1>6 DEF Session!Opening

\* A console gives up its handle and deactivates its payload.
LEMMA SessionDeactivates ==
  ASSUME SessionInv, pc' = "cleanup", answer' = "none", handle' # "live",
         OpIsRecord', op'.why \in {"reclose", "interrupted", "close", "drop"},
         op'.why = "reclose" => op'.name # "open",
         UNCHANGED <<report, told, session, sessions, payload, queue, returned, acknowledged, dropped>>
  PROVE  SessionInv'
  BY DEF SessionInv, SessionNumbers, SessionControl, OpIsRecord, OutputPlaced, PayloadKnown,
         Session!OutputAccounted, Session!OrphansReported, Session!ClosedIsClosed

\* deactivate_bounded() returned: every caller reports whether it was
\* confirmed.
LEMMA SessionCleanedUp ==
  ASSUME SessionInv, NEW reply, Session!CleanedUp(reply)
  PROVE  SessionInv'
<1> DEFINE unconfirmed == ~ Session!Deactivated(reply)
<1> USE DEF SessionInv, SessionNumbers, SessionControl, OpIsRecord, OutputPlaced, PayloadKnown,
        Session!OutputAccounted, Session!OrphansReported, Session!ClosedIsClosed
<1>1. /\ pc = "cleanup" /\ handle # "live" /\ queue' = 0
      /\ UNCHANGED <<session, answer, sessions, cancelled, acknowledged, payload>>
      /\ returned' = IF pc' = "idle" /\ op.why # "drop" THEN returned + queue ELSE returned
      /\ dropped' = IF op.why = "drop" THEN dropped + queue ELSE dropped
  BY DEF Session!CleanedUp, Session!Unchanged
<1>2. ~unconfirmed => payload = 0
  BY DEF Session!CleanedUp, Session!Deactivated
<1>3. CASE op.why = "uncertain"
  <2>1. Session!UncertainReturns(unconfirmed)
    BY <1>3 DEF Session!CleanedUp
  <2>2. CASE op.name = "reconnect" /\ queue = 0
    <3>1. Session!NextAttempt(op.unconfirmed \/ unconfirmed) /\ UNCHANGED handle
      BY <2>1, <2>2 DEF Session!UncertainReturns
    <3> HIDE DEF unconfirmed
    <3>2. queue' = 0 /\ Session!OutputAccounted' /\ returned' \in Nat /\ dropped' \in Nat /\ acknowledged' \in Nat
      BY <1>1, <1>3, <2>2
    <3>3. payload # 0 => told \/ (op.unconfirmed \/ unconfirmed)
      BY <1>2
    <3>4. pc = "cleanup" /\ op.name # "open" /\ UNCHANGED <<session, sessions, payload, handle>>
      BY <1>1, <2>2, <3>1
    <3> HIDE DEF SessionInv, SessionNumbers, Session!OutputAccounted
    <3> QED
      BY <3>1, <3>2, <3>3, <3>4, NextAttemptKeeps
  <2>3. CASE ~(op.name = "reconnect" /\ queue = 0)
    <3>1. Session!Return("uncertain", unconfirmed) /\ UNCHANGED handle
      BY <2>1, <2>3 DEF Session!UncertainReturns
    <3>r. pc' = "idle"
      BY <3>1 DEF Session!Return
    <3> HIDE DEF unconfirmed
    <3>a. HandsOver
      BY <3>r, <1>1, <1>2, <1>3, <3>1 DEF HandsOver
    <3>b. SaysTruth("uncertain", unconfirmed)
      BY <1>1, <1>2, <1>3, <3>1 DEF SaysTruth
    <3> HIDE DEF SessionInv, SessionNumbers, SessionControl, OpIsRecord, OutputPlaced, PayloadKnown, Session!OutputAccounted
    <3> QED
      BY <1>1, <1>2, <1>3, <3>1, <3>a, <3>b, ReturnKeeps
  <2> QED
    BY <2>2, <2>3
<1>4. CASE op.why = "reclose"
  <2>1. Session!RecloseReturns(unconfirmed)
    BY <1>4 DEF Session!CleanedUp
  <2>2. CASE queue # 0 \/ cancelled
    <3>1. PICK kind \in {"interrupted", "reconnect_failed"} : Session!Return(kind, unconfirmed) /\ UNCHANGED handle
      BY <2>1, <2>2 DEF Session!RecloseReturns
    <3>r. pc' = "idle"
      BY <3>1 DEF Session!Return
    <3> HIDE DEF unconfirmed
    <3>a. HandsOver
      BY <3>r, <1>1, <1>2, <1>4, <3>1 DEF HandsOver
    <3>b. SaysTruth(kind, unconfirmed)
      BY <1>1, <1>2, <1>4, <3>1 DEF SaysTruth
    <3> HIDE DEF SessionInv, SessionNumbers, SessionControl, OpIsRecord, OutputPlaced, PayloadKnown, Session!OutputAccounted
    <3> QED
      BY <1>1, <1>2, <1>4, <3>1, <3>a, <3>b, ReturnKeeps
  <2>3. CASE queue = 0 /\ ~cancelled
    <3>1. Session!GoOn("handshake", [op EXCEPT !.why = "none", !.unconfirmed = unconfirmed]) /\ UNCHANGED handle
      BY <2>1, <2>3 DEF Session!RecloseReturns
    <3> HIDE DEF unconfirmed
    <3>2. op'.unconfirmed = unconfirmed /\ UNCHANGED <<report, told>> /\ pc' = "handshake"
          /\ op'.name # "open" /\ OpIsRecord'
      BY <1>1, <1>4, <3>1 DEF Session!GoOn
    <3> QED
      BY <1>1, <1>2, <1>4, <2>3, <3>1, <3>2
  <2> QED
    BY <2>2, <2>3
<1>5. CASE op.why \in {"interrupted", "close", "drop"}
  <2>1. Session!ConsoleReturns(unconfirmed)
    BY <1>5 DEF Session!CleanedUp
  <2>2. PICK kind \in {"interrupted", "closed", "dropped"} : Session!Return(kind, unconfirmed)
    BY <1>5, <2>1 DEF Session!ConsoleReturns
  <2>3. handle' # "live"
    BY <2>1 DEF Session!ConsoleReturns
  <2>r. pc' = "idle"
    BY <2>2 DEF Session!Return
  <2> HIDE DEF unconfirmed
  <2>a. HandsOver
    BY <2>r, <1>1, <1>2, <1>5, <2>2, <2>3 DEF HandsOver
  <2>b. SaysTruth(kind, unconfirmed)
    BY <1>1, <1>2, <1>5, <2>2, <2>3 DEF SaysTruth
  <2> HIDE DEF SessionInv, SessionNumbers, SessionControl, OpIsRecord, OutputPlaced, PayloadKnown, Session!OutputAccounted
  <2> QED
    BY <1>1, <1>2, <1>5, <2>2, <2>3, <2>a, <2>b, ReturnKeeps
<1> QED
  BY <1>1, <1>3, <1>4, <1>5

\* read(), close(), the drop of a console and reconnect() on it.
LEMMA SessionConsole ==
  ASSUME SessionInv, Session!Console
  PROVE  SessionInv'
<1> USE DEF SessionInv, SessionNumbers, SessionControl, OpIsRecord, OutputPlaced, PayloadKnown,
        Session!OutputAccounted, Session!OrphansReported, Session!ClosedIsClosed, Session!Unchanged
<1>1. CASE Session!ReadWaits
  BY <1>1 DEF Session!ReadWaits, Session!GoOn, Session!client_vars, Session!output_vars, Session!NoOp
<1>2. ASSUME NEW n \in 1..MaxOutput, Session!ReadReturns(n) PROVE SessionInv'
  <2>1. /\ Session!Return("none", FALSE) /\ handle = "live" /\ UNCHANGED <<session, sessions, payload, handle>>
        /\ queue' = queue - n /\ returned' = returned + n /\ n <= queue /\ UNCHANGED <<acknowledged, dropped>>
    BY <1>2 DEF Session!ReadReturns, Session!client_vars
  <2>a. HandsOver
    BY <2>1 DEF HandsOver
  <2>b. SaysTruth("none", FALSE)
    BY <2>1 DEF SaysTruth
  <2> HIDE DEF SessionInv, SessionNumbers, SessionControl, OpIsRecord, OutputPlaced, PayloadKnown, Session!OutputAccounted
  <2> QED
    BY <2>1, <2>a, <2>b, ReturnKeeps
<1>3. CASE Session!ReadFails
  <2>1. /\ pc' = "cleanup" /\ answer' = "none" /\ handle' # "live"
        /\ op' = [Session!NoOp EXCEPT !.name = "read", !.why = "interrupted"]
        /\ UNCHANGED <<report, told, session, sessions, payload, queue, returned, acknowledged, dropped>>
    BY <1>3 DEF Session!ReadFails, Session!Deactivate, Session!GoOn, Session!KeepOutput
  <2>2. OpIsRecord' /\ op'.why = "interrupted"
    BY <2>1 DEF Session!NoOp
  <2> HIDE DEF SessionInv, OpIsRecord
  <2> QED
    BY <2>1, <2>2, SessionDeactivates
<1>4. ASSUME NEW why \in {"close", "drop"}, Session!Close(why) PROVE SessionInv'
  <2>1. /\ pc' = "cleanup" /\ answer' = "none" /\ handle' # "live"
        /\ op' = [Session!NoOp EXCEPT !.name = why, !.why = why]
        /\ UNCHANGED <<report, told, session, sessions, payload, queue, returned, acknowledged, dropped>>
    BY <1>4 DEF Session!Close, Session!Deactivate, Session!GoOn, Session!KeepOutput
  <2>2. OpIsRecord' /\ op'.why = why
    BY <2>1 DEF Session!NoOp
  <2> HIDE DEF SessionInv, OpIsRecord
  <2> QED
    BY <1>4, <2>1, <2>2, SessionDeactivates
<1>5. CASE Session!CloseStopped
  <2>1. /\ Session!Return("stopped", remote_close_unconfirmed) /\ pc = "idle" /\ handle = "stopped"
        /\ UNCHANGED <<session, sessions, payload, queue, returned, acknowledged, dropped>>
    BY <1>5 DEF Session!CloseStopped, Session!KeepOutput
  <2>a. HandsOver
    BY <2>1 DEF HandsOver
  <2>b. SaysTruth("stopped", remote_close_unconfirmed)
    BY <2>1 DEF SaysTruth
  <2> HIDE DEF SessionInv, SessionNumbers, SessionControl, OpIsRecord, OutputPlaced, PayloadKnown, Session!OutputAccounted
  <2> QED
    BY <2>1, <2>a, <2>b, ReturnKeeps
<1>6. CASE Session!ReconnectPending
  <2>1. /\ Session!Return("pending", FALSE) /\ handle' = "live"
        /\ UNCHANGED <<session, sessions, payload, queue, returned, acknowledged, dropped>>
    BY <1>6 DEF Session!ReconnectPending, Session!KeepOutput
  <2>a. HandsOver
    BY <2>1 DEF HandsOver
  <2>b. SaysTruth("pending", FALSE)
    BY <2>1 DEF SaysTruth
  <2> HIDE DEF SessionInv, SessionNumbers, SessionControl, OpIsRecord, OutputPlaced, PayloadKnown, Session!OutputAccounted
  <2> QED
    BY <2>1, <2>a, <2>b, ReturnKeeps
<1>7. ASSUME NEW max \in 1..3, Session!ReconnectLive(max) PROVE SessionInv'
  <2>1. /\ pc' = "cleanup" /\ answer' = "none" /\ handle' # "live"
        /\ op' = [Session!NoOp EXCEPT !.name = "reconnect", !.why = "reclose", !.max = max]
        /\ UNCHANGED <<report, told, session, sessions, payload, queue, returned, acknowledged, dropped>>
    BY <1>7 DEF Session!ReconnectLive, Session!Deactivate, Session!GoOn, Session!KeepOutput
  <2>2. OpIsRecord' /\ op'.why = "reclose" /\ op'.name # "open"
    BY <2>1 DEF Session!NoOp
  <2> HIDE DEF SessionInv, OpIsRecord
  <2> QED
    BY <2>1, <2>2, SessionDeactivates
<1>8. ASSUME NEW max \in 1..3, Session!ReconnectStopped(max) PROVE SessionInv'
  <2>0. /\ pc = "idle" /\ handle = "stopped" /\ UNCHANGED handle
        /\ UNCHANGED <<session, sessions, payload, queue, returned, acknowledged, dropped, answer>>
    BY <1>8 DEF Session!ReconnectStopped, Session!KeepOutput
  <2>1. CASE cancelled
    <3>1. Session!Return("reconnect_failed", remote_close_unconfirmed)
      BY <1>8, <2>1 DEF Session!ReconnectStopped
    <3>a. HandsOver
      BY <2>0, <3>1 DEF HandsOver
    <3>b. SaysTruth("reconnect_failed", remote_close_unconfirmed)
      BY <2>0, <3>1 DEF SaysTruth
    <3> HIDE DEF SessionInv, SessionNumbers, SessionControl, OpIsRecord, OutputPlaced, PayloadKnown, Session!OutputAccounted
    <3> QED
      BY <2>0, <3>1, <3>a, <3>b, ReturnKeeps
  <2>2. CASE ~cancelled
    <3>1. /\ pc' = "handshake" /\ UNCHANGED <<report, told>>
          /\ op' = [Session!NoOp EXCEPT !.name = "reconnect", !.max = max, !.unconfirmed = remote_close_unconfirmed]
      BY <1>8, <2>2 DEF Session!ReconnectStopped, Session!GoOn
    <3>2. OpIsRecord' /\ op'.unconfirmed = remote_close_unconfirmed
      BY <3>1 DEF Session!NoOp
    <3> QED
      BY <2>0, <3>1, <3>2
  <2> QED
    BY <2>1, <2>2
<1>9. ASSUME NEW reply, Session!CleanedUp(reply) PROVE SessionInv'
  BY <1>9, SessionCleanedUp
<1> QED
  BY <1>1, <1>2, <1>3, <1>4, <1>5, <1>6, <1>7, <1>8, <1>9 DEF Session!Console

\* Every step of SolSession keeps the invariant.
LEMMA SessionStep ==
  ASSUME SessionInv, Session!Next
  PROVE  SessionInv'
  BY SessionEnvironment, SessionOpening, SessionConsole DEF Session!Next

\* What it gives: output accounted for, a close reported only when it is one,
\* and no payload left active unreported.
LEMMA SessionSafe ==
  ASSUME SessionInv
  PROVE  Session!OutputAccounted /\ Session!ClosedIsClosed /\ Session!OrphansReported
  BY DEF SessionInv, OutputPlaced, PayloadKnown

-----------------------------------------------------------------------------
(***************************************************************************)
(* The consoles together.                                                  *)
(***************************************************************************)

\* The inductive invariant of the consoles together: that of the program that
\* runs.
ConsolesInv ==
    /\ program \in {"flow", "input", "session", "tyan"}
    /\ program = "flow" => FlowInv
    /\ program = "input" => InputInv
    /\ program = "session" => SessionInv
    /\ program = "tyan" => TyanInv

\* It holds first, whichever program runs.
LEMMA ConsolesStart == ConsolesInit => ConsolesInv
  BY FlowInit, InputInit, SessionInit, TyanInit DEF ConsolesInit, ConsolesInv

\* The variables of a program change with its steps only.
LEMMA ConsolesStutter == ConsolesInv /\ UNCHANGED allVars => ConsolesInv'
<1> SUFFICES ASSUME ConsolesInv, UNCHANGED allVars PROVE ConsolesInv'
  OBVIOUS
<1> USE DEF allVars, vars, flow_vars, bmc_vars, inputOwn, sessionOwn, tyanOwn
<1>1. CASE program = "flow"
  <2>1. Flagged'
    BY <1>1, Zenon DEF ConsolesInv, FlowInv, Flagged
  <2>2. FlowTypes' /\ OneAtATime' /\ Behind' = Behind /\ Agreed' = Agreed
    BY <1>1 DEF ConsolesInv, FlowInv, FlowTypes, OneAtATime, Behind, Agreed, Stale, Current, Expected, Total
  <2> QED
    BY <1>1, <2>1, <2>2 DEF ConsolesInv, FlowInv
<1>2. CASE program = "input"
  <2>0. InputTypes /\ Stands /\ Once /\ (~overtaken => Followed)
    BY <1>2, Zenon DEF ConsolesInv, InputInv
  <2>1. Issued' = Issued /\ Rest' = Rest /\ Arrived' = Arrived
    BY DEF Issued, Rest, Arrived
  <2>2. InputTypes'
    <3>1. \A c \in copies' : CopyTyped(c)'
      BY <2>0 DEF InputTypes, CopyTyped
    <3> QED
      BY <2>0, <3>1 DEF InputTypes
  <2>3. Stands' /\ Once'
    BY <2>0, <2>1 DEF Stands, Open, Once, Sole
  <2>4. ASSUME ~overtaken' PROVE Followed'
    <3>1. Marks /\ CopiesKnown /\ AcksKnown /\ Unsent /\ Taken
      BY <2>0, <2>4 DEF Followed
    <3>2. Marks' /\ CopiesKnown' /\ AcksKnown' /\ Unsent'
      BY <2>1, <3>1 DEF Marks, CopiesKnown, AcksKnown, Unsent
    <3>3. Taken'
      BY <2>1, <3>1 DEF Taken, Exact, OfLast, Open
    <3> QED
      BY <3>2, <3>3 DEF Followed
  <2>5. InputInv'
    BY <2>2, <2>3, <2>4 DEF InputInv
  <2> QED
    BY <1>2, <2>5 DEF ConsolesInv
<1>3. CASE program = "session"
  BY <1>3 DEF ConsolesInv, SessionInv, SessionNumbers, SessionControl, OpIsRecord, OutputPlaced, PayloadKnown,
              Session!OutputAccounted, Session!OrphansReported, Session!ClosedIsClosed
<1>4. CASE program = "tyan"
  BY <1>4 DEF ConsolesInv, TyanInv, Tyan!OutputAccounted, Tyan!KeysExact, Tyan!StoppedIsStopped
<1> QED
  BY <1>1, <1>2, <1>3, <1>4 DEF ConsolesInv

\* The invariant is inductive.
LEMMA ConsolesStep == ConsolesInv /\ [ConsolesNext]_allVars => ConsolesInv'
<1> SUFFICES ASSUME ConsolesInv, [ConsolesNext]_allVars PROVE ConsolesInv'
  OBVIOUS
<1>1. CASE RunFlow
  BY <1>1, FlowStep DEF RunFlow, ConsolesInv
<1>2. CASE RunInput
  BY <1>2, InputStep DEF RunInput, ConsolesInv
<1>3. CASE RunSession
  BY <1>3, SessionStep DEF RunSession, ConsolesInv
<1>4. CASE RunTyan
  BY <1>4, TyanStep DEF RunTyan, ConsolesInv
<1>5. CASE UNCHANGED allVars
  BY <1>5, ConsolesStutter
<1> QED
  BY <1>1, <1>2, <1>3, <1>4, <1>5 DEF ConsolesNext

-----------------------------------------------------------------------------
(***************************************************************************)
(* Types.  Beside the kinds of the values they hold bounds that take more  *)
(* than one step to break: the characters of the input and output stay in  *)
(* the text and the call, a chunk of input has no more partial answers     *)
(* than send_input() allows, reconnect() authenticates only while it has   *)
(* an attempt left, and the Tyan console keeps only a stream alive whose   *)
(* commands it may send.                                                   *)
(***************************************************************************)
(* The positions in what is queued, read and on the way are in the text,   *)
(* and the BMC sends nothing beyond its end.                               *)
FlowTexts ==
    /\ output \in Seq(Positions) /\ delivered \in Seq(Positions)
    /\ previous_data \in Data /\ sending \in Data
    /\ frames \in Seq(Frame) /\ acks \in Seq(Ack)
FlowEnds ==
    /\ base \in 0..Length /\ (sending # <<>> => base + Len(sending) <= Length)
    /\ resend \in {"same", "suffix"}

\* The characters of a packet.
LEMMA DataIs ==
  ASSUME NEW s
  PROVE  s \in Data <=> s \in Seq(Positions) /\ Len(s) \in 0..MaxData
<1>0. MaxData \in Nat
  BY FlowAssumption
<1>1. ASSUME s \in Data PROVE s \in Seq(Positions) /\ Len(s) \in 0..MaxData
  <2>1. CASE s = <<>>
    BY <1>0, <2>1, EmptySeq
  <2>2. CASE \E n \in 1..MaxData : s \in [1..n -> Positions]
    <3>1. PICK n \in 1..MaxData : s \in [1..n -> Positions]
      BY <2>2
    <3>2. n \in Nat /\ n <= MaxData
      BY <1>0
    <3>3. s \in Seq(Positions)
      BY <3>1, <3>2, SeqDef
    <3>4. Len(s) = n
      BY <3>1, <3>2, <3>3, LenProperties
    <3> QED
      BY <1>0, <3>2, <3>3, <3>4
  <2> QED
    BY <1>1, <2>1, <2>2, Zenon DEF Data
<1>2. ASSUME s \in Seq(Positions), Len(s) \in 0..MaxData PROVE s \in Data
  <2>1. CASE Len(s) = 0
    <3>1. s = <<>>
      BY <1>2, <2>1, EmptySeq
    <3> QED
      BY <3>1, Zenon DEF Data
  <2>2. CASE Len(s) # 0
    <3>1. Len(s) \in 1..MaxData
      BY <1>0, <1>2, <2>2
    <3>2. s \in [1..Len(s) -> Positions]
      BY <1>2, LenProperties
    <3> QED
      BY <3>1, <3>2, Zenon DEF Data
  <2> QED
    BY <2>1, <2>2
<1> QED
  BY <1>1, <1>2

\* The types hold before the first packet.
LEMMA FlowTypedStart == Init => FlowTexts /\ FlowEnds
<1> SUFFICES ASSUME Init PROVE FlowTexts /\ FlowEnds
  OBVIOUS
<1>1. <<>> \in Data
  BY Zenon DEF Data
<1>2. FlowTexts
  BY <1>1, EmptySeq DEF Init, FlowTexts
<1>3. FlowEnds
  BY TextAssumption DEF Init, FlowEnds
<1> QED
  BY <1>2, <1>3

\* Characters from some position on, up to the end of the text.
LEMMA FromTyped ==
  ASSUME NEW m \in Nat, NEW n \in 0..MaxData, m + n <= Length
  PROVE  From(m, n) \in Data
<1>1. n \in Nat
  BY FlowAssumption
<1>2. Len(From(m, n)) = n
  BY <1>1, FromIs
<1>3. \A i \in 1..n : m + i \in 1..Length
  BY <1>1, TextAssumption
<1>4. From(m, n) \in [1..n -> Positions]
  BY <1>3 DEF From, Positions
<1>5. From(m, n) \in Seq(Positions)
  BY <1>1, <1>4, SeqDef
<1> QED
  BY <1>2, <1>5, DataIs

\* A part of the characters.
LEMMA PartTyped ==
  ASSUME NEW S, NEW s \in Seq(S), NEW m \in Nat, NEW n \in 0..Len(s)
  PROVE  SubSeq(s, m + 1, n) \in Seq(S)
<1>1. Len(s) \in Nat /\ \A i \in (m + 1)..n : i \in 1..Len(s)
  BY LenProperties
<1>2. \A i \in (m + 1)..n : s[i] \in S
  BY <1>1, ElementOfSeq
<1> QED
  BY <1>1, <1>2, SubSeqProperties

\* The BMC sends what is in the text.
LEMMA SendTyped ==
  ASSUME FlowTexts, Flagged, NEW seq \in PacketNumbers, NEW m \in Nat, NEW n \in 1..MaxData, m + n <= Length,
         NEW lost \in BOOLEAN, Send(seq, From(m, n), lost)
  PROVE  /\ frames' \in Seq(Frame) /\ sending' \in Data /\ resend' = resend
         /\ Len(sending') = n
<1>1. From(m, n) \in Data /\ Len(From(m, n)) = n
  <2>1. n \in 0..MaxData /\ n \in Nat
    BY FlowAssumption
  <2> QED
    BY <2>1, FromTyped, FromIs
<1>2. [sequence |-> seq, data |-> From(m, n), overrun |-> lost] \in Frame
  BY <1>1, Zenon DEF Frame
<1>3. /\ frames' = Append(frames, [sequence |-> seq, data |-> From(m, n), overrun |-> lost])
      /\ sending' = From(m, n) /\ resend' = resend
  BY DEF Send
<1>4. frames \in Seq(Frame)
  BY DEF FlowTexts
<1>5. frames' \in Seq(Frame)
  <2> DEFINE e == [sequence |-> seq, data |-> From(m, n), overrun |-> lost]
  <2>1. e \in Frame /\ frames' = Append(frames, e)
    BY <1>2, <1>3
  <2> HIDE DEF e
  <2> QED
    BY <1>4, <2>1, AppendProperties
<1> QED
  BY <1>1, <1>3, <1>5

\* A part is at most the whole.
LEMMA PartAtMost ==
  \A x, y, z \in Nat : x + y <= z => x <= z
OBVIOUS

\* What a datagram lost leaves is of the same kind.
LEMMA LossTyped ==
  ASSUME FlowTexts, FlowEnds, (\E i \in DOMAIN frames : LoseFrame(i)) \/ (\E i \in DOMAIN acks : LoseAck(i))
  PROVE  FlowTexts' /\ FlowEnds'
<1>1. frames \in Seq(Frame) /\ acks \in Seq(Ack)
  BY DEF FlowTexts
<1>2. UNCHANGED <<output, delivered, previous_data, sending, base, resend>>
  BY DEF LoseFrame, LoseAck, flow_vars, bmc_vars
<1>3. frames' \in Seq(Frame) /\ acks' \in Seq(Ack)
  <2>1. CASE \E i \in DOMAIN frames : LoseFrame(i)
    BY <1>1, <2>1, RemovedElement DEF LoseFrame
  <2>2. CASE \E i \in DOMAIN acks : LoseAck(i)
    BY <1>1, <2>2, RemovedElement DEF LoseAck
  <2> QED
    BY <2>1, <2>2
<1> QED
  BY <1>2, <1>3 DEF FlowTexts, FlowEnds

\* receive_one(): what it queues was in the packet, and it acknowledges no more
\* than the packet had.
LEMMA ReceivedTyped ==
  ASSUME FlowInv, FlowTexts, FlowEnds, (\E answered \in BOOLEAN : ReceiveAccepted(answered)) \/ ReceiveRefused
  PROVE  FlowTexts' /\ FlowEnds'
<1> DEFINE f == Head(frames)
<1>1. Incoming /\ frames' = Tail(frames) /\ UNCHANGED <<delivered, sending, base, resend>>
  BY DEF ReceiveAccepted, ReceiveRefused, bmc_vars
<1>2. /\ frames' \in Seq(Frame) /\ f.data \in Data /\ f.sequence \in PacketNumbers
      /\ output \in Seq(Positions) /\ previous_data \in Data /\ acks \in Seq(Ack)
  <2>1. frames \in Seq(Frame) /\ frames # <<>>
    BY <1>1 DEF FlowTexts, Incoming
  <2>2. frames' \in Seq(Frame) /\ f \in Frame
    BY <1>1, <2>1, RestOf, ElementOfSeq
  <2> QED
    BY <2>2 DEF FlowTexts, Frame
<1>3. f.data \in Seq(Positions) /\ Len(f.data) \in 0..MaxData
  BY <1>2, DataIs
<1>4. ASSUME NEW n \in 0..MaxData PROVE Append(acks, Acknowledge(f, n)) \in Seq(Ack)
  <2>1. Acknowledge(f, n) \in Ack
    BY <1>2, <1>4, Zenon DEF Acknowledge, Ack
  <2> QED
    BY <1>2, <2>1, AppendProperties
<1>5. ASSUME NEW answered \in BOOLEAN, ReceiveAccepted(answered) PROVE FlowTexts'
  <2>1. /\ output' = output \o SubSeq(f.data, Already(f) + 1, Accepted(f))
        /\ previous_data' \in {previous_data, f.data}
        /\ acks' \in {acks, Append(acks, Acknowledge(f, Accepted(f)))}
        /\ ~Conflicts(f)
    BY <1>5 DEF ReceiveAccepted
  <2>2. FlowTypes /\ f.data \in Seq(Nat) /\ Len(f.data) \in 1..MaxData
    BY <1>1, HeadOfFrames DEF FlowInv
  <2> HIDE DEF f
  <2>3. Already(f) \in Nat /\ Accepted(f) \in 0..Len(f.data) /\ Accepted(f) \in 0..MaxData
    <3>1. /\ Already(f) \in Nat /\ Accepted(f) \in Nat /\ Len(f.data) \in Nat /\ Accepted(f) <= Len(f.data)
      BY <2>1, <2>2, AcceptedIs
    <3> QED
      BY <1>3, <3>1, FlowAssumption
  <2>4. SubSeq(f.data, Already(f) + 1, Accepted(f)) \in Seq(Positions)
    BY <1>3, <2>3, PartTyped
  <2>5. output' \in Seq(Positions)
    <3> DEFINE part == SubSeq(f.data, Already(f) + 1, Accepted(f))
    <3>1. part \in Seq(Positions) /\ output' = output \o part
      BY <2>1, <2>4
    <3> HIDE DEF part
    <3> QED
      BY <1>2, <3>1, ConcatProperties
  <2>6. acks' \in Seq(Ack)
    BY <1>2, <1>4, <2>1, <2>3
  <2> QED
    BY <1>1, <1>2, <2>1, <2>5, <2>6 DEF FlowTexts
<1>6. ASSUME ReceiveRefused PROVE FlowTexts'
  <2>1. acks' = Append(acks, Acknowledge(f, 0)) /\ UNCHANGED <<output, previous_data>>
    BY <1>6 DEF ReceiveRefused, flow_vars
  <2>2. acks' \in Seq(Ack)
    BY <1>4, <2>1, FlowAssumption
  <2>3. frames' \in Seq(Frame) /\ UNCHANGED <<output, previous_data, delivered, sending>>
    BY <1>1, <1>2, <2>1
  <2> HIDE DEF f
  <2> QED
    BY <2>2, <2>3 DEF FlowTexts
<1>7. FlowEnds'
  BY <1>1 DEF FlowEnds
<1> QED
  BY <1>5, <1>6, <1>7

\* The BMC sends, repeats, drops or is told what was accepted.
LEMMA BmcTyped ==
  ASSUME FlowInv, FlowTexts, FlowEnds, Bmc
  PROVE  FlowTexts' /\ FlowEnds'
<1>1. /\ base \in Nat /\ base <= Length /\ Length \in Nat /\ sending \in Seq(Positions) /\ Len(sending) \in 0..MaxData
      /\ sequence \in PacketNumbers /\ overrun \in BOOLEAN /\ MaxData \in Nat
      /\ Successor(sequence) \in PacketNumbers
      /\ sending # <<>> => Len(sending) # 0 /\ base + Len(sending) <= Length
  <2>1. sequence \in PacketNumbers /\ overrun \in BOOLEAN
    BY Zenon DEF FlowInv, FlowTypes, Flagged
  <2>2. sending \in Seq(Positions) /\ Len(sending) \in 0..MaxData
    BY DataIs DEF FlowTexts
  <2> QED
    BY <2>1, <2>2, SuccessorIs, FlowAssumption, TextAssumption, EmptySeq DEF FlowEnds
<1>2. ASSUME NEW n \in 1..MaxData, NEW seq \in PacketNumbers, NEW m \in Nat, m + n <= Length, m <= Length, base' = m,
             Send(seq, From(m, n), overrun), UNCHANGED <<output, delivered, previous_data>>, acks' \in Seq(Ack)
      PROVE  FlowTexts' /\ FlowEnds'
  <2>1. frames' \in Seq(Frame) /\ sending' \in Data /\ resend' = resend /\ Len(sending') = n
    BY <1>1, <1>2, SendTyped DEF FlowInv
  <2> QED
    BY <1>1, <1>2, <2>1 DEF FlowTexts, FlowEnds
<1>3. ASSUME NEW n \in 1..MaxData, BmcSend(n) \/ BmcRepeat(n) PROVE FlowTexts' /\ FlowEnds'
  <2>1. /\ base + n <= Length /\ base' = base /\ Send(sequence, From(base, n), overrun)
        /\ UNCHANGED <<output, delivered, previous_data, acks>>
    BY <1>3 DEF BmcSend, BmcRepeat, flow_vars
  <2>2. acks' \in Seq(Ack)
    BY <2>1 DEF FlowTexts
  <2> QED
    BY <1>1, <1>2, <2>1, <2>2
<1>4. ASSUME NEW n \in 1..MaxData, BmcOverrun(n) PROVE FlowTexts' /\ FlowEnds'
  <2>1. /\ base' = base + n /\ base + n < Length /\ sending' = <<>>
        /\ UNCHANGED <<output, delivered, previous_data, resend, frames, acks>>
    BY <1>4 DEF BmcOverrun, flow_vars
  <2>2. <<>> \in Data
    BY Zenon DEF Data
  <2> QED
    BY <1>1, <2>1, <2>2 DEF FlowTexts, FlowEnds
<1>5. CASE BmcAcked
  <2> DEFINE a == Head(acks)
  <2>1. acks' = Tail(acks) /\ acks # <<>> /\ UNCHANGED <<output, delivered, previous_data>>
    BY <1>5 DEF BmcAcked, flow_vars
  <2>2. acks' \in Seq(Ack) /\ a \in Ack
    <3>1. acks \in Seq(Ack)
      BY DEF FlowTexts
    <3> QED
      BY <2>1, <3>1, RestOf, ElementOfSeq
  <2>3. a.accepted \in 0..MaxData
    BY <2>2 DEF Ack
  <2>4. \/ /\ sending # <<>> /\ base' = base + Len(sending) /\ sending' = <<>> /\ UNCHANGED <<resend, frames>>
        \/ /\ sending # <<>> /\ a.accepted < Len(sending) /\ base' = base + a.accepted
           /\ \E n \in (Len(sending) - a.accepted)..MaxData :
                 base' + n <= Length /\ Send(Successor(sequence), From(base', n), overrun)
        \/ UNCHANGED <<base, sending, resend, frames>>
    BY <1>5 DEF BmcAcked, bmc_vars
  <2> HIDE DEF a
  <2>5. CASE sending # <<>> /\ base' = base + Len(sending) /\ sending' = <<>> /\ UNCHANGED <<resend, frames>>
    <3>1. <<>> \in Data
      BY Zenon DEF Data
    <3> QED
      BY <1>1, <2>1, <2>2, <2>5, <3>1 DEF FlowTexts, FlowEnds
  <2>6. CASE /\ sending # <<>> /\ a.accepted < Len(sending) /\ base' = base + a.accepted
             /\ \E n \in (Len(sending) - a.accepted)..MaxData :
                   base' + n <= Length /\ Send(Successor(sequence), From(base', n), overrun)
    <3>1. PICK n \in (Len(sending) - a.accepted)..MaxData :
             base' + n <= Length /\ Send(Successor(sequence), From(base', n), overrun)
      BY <2>6
    <3>2. base' \in Nat
      BY <1>1, <2>3, <2>6
    <3>3. n \in 1..MaxData /\ n >= 0
      BY <1>1, <2>3, <2>6
    <3>4. base' <= Length
      <4>1. base' + n <= Length /\ Length \in Nat /\ n \in Nat
        BY <1>1, <3>1, <3>3
      <4> QED
        BY <3>2, <4>1, PartAtMost, Zenon
    <3> QED
      BY <1>1, <1>2, <2>1, <2>2, <3>1, <3>2, <3>3, <3>4
  <2>7. CASE UNCHANGED <<base, sending, resend, frames>>
    BY <2>1, <2>2, <2>7 DEF FlowTexts, FlowEnds
  <2> QED
    BY <2>4, <2>5, <2>6, <2>7
<1> QED
  BY <1>3, <1>4, <1>5 DEF Bmc

\* Every step of SolFlow keeps the types.
LEMMA FlowTypedStep ==
  ASSUME FlowInv, FlowTexts, FlowEnds, Next
  PROVE  FlowTexts' /\ FlowEnds'
<1>1. ASSUME NEW n \in 1..QueueLimit, ReadOutput(n) PROVE FlowTexts' /\ FlowEnds'
  <2>1. /\ n \in Nat /\ n <= Len(output) /\ output \in Seq(Positions) /\ delivered \in Seq(Positions)
        /\ Len(output) \in Nat
    BY <1>1, FlowAssumption, LenProperties DEF ReadOutput, FlowTexts
  <2>2. SubSeq(output, 0 + 1, n) \in Seq(Positions) /\ SubSeq(output, n + 1, Len(output)) \in Seq(Positions)
    <3>1. n \in 0..Len(output) /\ Len(output) \in 0..Len(output) /\ 0 \in Nat
      BY <2>1
    <3> QED
      BY <2>1, <3>1, PartTyped
  <2>3. output' \in Seq(Positions) /\ delivered' \in Seq(Positions)
    <3> DEFINE part == SubSeq(output, 1, n)
    <3>1. part \in Seq(Positions) /\ delivered' = delivered \o part
      BY <1>1, <2>2 DEF ReadOutput
    <3> HIDE DEF part
    <3>2. delivered' \in Seq(Positions)
      BY <2>1, <3>1, ConcatProperties
    <3> QED
      BY <1>1, <2>2, <3>2 DEF ReadOutput
  <2>4. UNCHANGED <<previous_data, sending, base, resend, frames, acks>>
    BY <1>1 DEF ReadOutput, bmc_vars
  <2> QED
    BY <2>3, <2>4 DEF FlowTexts, FlowEnds
<1> QED
  BY <1>1, BmcTyped, ReceivedTyped, LossTyped DEF Next, Console, Network

\* The types of SolFlow.
LEMMA FlowTypedMeans ==
  ASSUME FlowInv, FlowTexts, FlowEnds
  PROVE  TypeOK
<1>1. FlowTypes /\ Flagged
  BY Zenon DEF FlowInv
<1> QED
  BY <1>1, Zenon DEF FlowTypes, Flagged, FlowTexts, FlowEnds, TypeOK

-----------------------------------------------------------------------------
(* A chunk of the call has at most MaxRetransmissions + 1 partial answers  *)
(* while there is more of it to send, and one more ends it.                *)
InputSizes ==
    /\ last \in 0..MaxInput /\ chunk_left \in 0..ChunkSize
    /\ controls \in 0..MaxControls /\ (control => controls < MaxControls)
    /\ attempt \in 0..MaxRetransmissions
    /\ partials \in 0..(MaxRetransmissions + 2)
    /\ pc = "chunk" /\ chunk_left # 0 => partials <= MaxRetransmissions + 1
    /\ pc \in {"send", "poll", "acked"} => control \/ partials <= MaxRetransmissions + 1
    /\ input_ack \in Input!Ack
InputTexts == copies \subseteq Input!Copy /\ received \in Seq(1..MaxInput)
\* Kept apart from the other types for the provers.
InputFlags == control \in BOOLEAN /\ uncertain \in BOOLEAN /\ repeated \in BOOLEAN /\ overtaken \in BOOLEAN

\* The value that stands for no acknowledgement.
LEMMA NoAckTyped == Input!NoAck \in Input!Ack
<1>1. 0 \in 0..LastSequence /\ 0 \in 0..(ChunkSize + 1)
  BY InputAssumption, FlowAssumption
<1> QED
  BY <1>1, Zenon DEF Input!NoAck, Input!Ack

\* The types hold before the first packet.
LEMMA InputTypedStart == Input!Init => InputSizes /\ InputTexts /\ InputFlags
<1> SUFFICES ASSUME Input!Init PROVE InputSizes /\ InputTexts /\ InputFlags
  OBVIOUS
<1>1. InputSizes
  BY NoAckTyped, InputAssumption, BoundsAssumption DEF Input!Init, InputSizes, Open
<1>2. InputTexts
  <2>1. {} \subseteq Input!Copy
    OBVIOUS
  <2> QED
    BY <2>1, EmptySeq DEF Input!Init, InputTexts
<1>3. InputFlags
  BY Zenon DEF Input!Init, InputFlags
<1> QED
  BY <1>1, <1>2, <1>3

\* Every step of SolInput keeps the bounds: a chunk that is acknowledged in
\* part once too often ends the call.
LEMMA InputSizesStep == InputInv /\ InputSizes /\ Input!Next => InputSizes'
<1> SUFFICES ASSUME InputInv, InputSizes, Input!Next PROVE InputSizes'
  OBVIOUS
<1>0. InputTypes /\ Stands
  BY Zenon DEF InputInv
<1>u. ASSUME UNCHANGED <<last, chunk_left, controls, input_ack, control>>, attempt' \in 0..MaxRetransmissions,
             partials' \in {0, partials},
             pc' \in {pc, "idle", "interrupted"} \/ (pc \in {"send", "poll"} /\ pc' \in {"send", "poll", "acked"})
      PROVE  InputSizes'
  <2>2. (control => controls < MaxControls)'
    BY <1>u, Zenon DEF InputSizes
  <2>3. pc' = "chunk" => pc = "chunk"
    BY <1>u
  <2>4. pc' \in {"send", "poll", "acked"} => pc \in {"send", "poll", "acked"}
    BY <1>u
  <2>5. /\ partials' \in 0..(MaxRetransmissions + 2)
        /\ partials <= MaxRetransmissions + 1 => partials' <= MaxRetransmissions + 1
    BY <1>u, BoundsAssumption DEF InputSizes
  <2> QED
    BY <1>u, <2>2, <2>3, <2>4, <2>5, Zenon DEF InputSizes
<1> USE <1>0, InputAssumption, BoundsAssumption
        DEF InputTypes, InputSizes, Stands, Open, Input!flow_vars, Input!call_vars, Input!counters, Input!net_vars, Input!Interrupted
<1>1. ASSUME NEW n \in 1..MaxInput, Input!SendInput(n) PROVE InputSizes'
  BY <1>1 DEF Input!SendInput
<1>2. CASE Input!SendInputCancelled \/ Input!AllSent \/ Input!AckedTooMany
  <2>1. /\ UNCHANGED <<last, chunk_left, controls, input_ack, control>>
        /\ attempt' \in {0, attempt} /\ partials' \in {0, partials}
        /\ pc' \in {pc, "idle", "interrupted"}
    BY <1>2 DEF Input!SendInputCancelled, Input!AllSent, Input!AckedTooMany
  <2>2. attempt' \in 0..MaxRetransmissions
    BY <2>1
  <2> HIDE <1>0 DEF InputSizes
  <2> QED
    BY <1>u, <2>1, <2>2
<1>3. CASE Input!SendControl
  BY <1>3, NoAckTyped DEF Input!SendControl, Input!NewPacket
<1>4. CASE Input!NextPacket
  <2>1. chunk_left' \in 0..ChunkSize /\ partials' \in 0..(MaxRetransmissions + 1)
    <3>1. CASE chunk_left = 0
      <4>1. partials' = 0 /\ chunk_left' = Input!Min({ChunkSize, last - first - confirmed})
        BY <1>4, <3>1 DEF Input!NextPacket, Input!Partials
      <4>2. last - first - confirmed \in Nat /\ last - first - confirmed \in Int /\ ChunkSize \in Int
        BY <1>4 DEF Input!NextPacket
      <4>3. chunk_left' = IF ChunkSize <= last - first - confirmed THEN ChunkSize ELSE last - first - confirmed
        BY <4>1, <4>2, SmallerOf, Zenon
      <4> QED
        BY <4>1, <4>2, <4>3
    <3>2. CASE chunk_left # 0
      BY <1>4, <3>2 DEF Input!NextPacket, Input!Partials
    <3> QED
      BY <3>1, <3>2
  <2> QED
    BY <1>4, <2>1, NoAckTyped DEF Input!NextPacket, Input!NewPacket
<1>5. CASE Input!Acked
  <2>1. input_ack.accepted \in 0..chunk_left
    <3>1. input_ack.accepted \in Nat
      BY AckFields
    <3> QED
      BY <1>5, <3>1 DEF Input!Acked
  <2>2. chunk_left' \in 0..ChunkSize /\ UNCHANGED <<last, controls, control, input_ack, waiting_for_ack>>
    <3>1. /\ chunk_left' = chunk_left - input_ack.accepted
          /\ UNCHANGED <<last, controls, control, input_ack, waiting_for_ack>>
      BY <1>5 DEF Input!Acked
    <3>2. chunk_left \in 0..ChunkSize /\ ChunkSize \in Nat
      BY DEF InputSizes
    <3> HIDE <1>0 DEF InputSizes
    <3> QED
      BY <2>1, <3>1, <3>2
  <2>3. partials <= MaxRetransmissions + 1
    BY <1>5 DEF Input!Acked
  <2>4. CASE input_ack.unavailable
    BY <1>5, <2>2, <2>4 DEF Input!Acked
  <2>5. CASE ~input_ack.unavailable
    <3>1. CASE partials + 1 > MaxRetransmissions + 1 /\ chunk_left' # 0
      BY <1>5, <2>2, <2>5, <3>1 DEF Input!Acked
    <3>2. CASE ~(partials + 1 > MaxRetransmissions + 1 /\ chunk_left' # 0)
      <4>1. partials' = partials + 1 /\ pc' = "chunk" /\ attempt' = attempt
        BY <1>5, <2>5, <3>2 DEF Input!Acked
      <4>2. partials' \in 0..(MaxRetransmissions + 2) /\ (chunk_left' # 0 => partials' <= MaxRetransmissions + 1)
        BY <2>3, <3>2, <4>1
      <4> QED
        BY <2>2, <4>1, <4>2
    <3> QED
      BY <3>1, <3>2
  <2> QED
    BY <2>4, <2>5
<1>6. CASE Input!ControlAcked
  <2>1. /\ UNCHANGED <<last, chunk_left, input_ack>>
        /\ attempt' \in {0, attempt} /\ partials' \in {0, partials}
        /\ control /\ pc' \in {"idle", "interrupted"}
        /\ \/ UNCHANGED <<control, controls>>
           \/ ~control' /\ controls' = controls + 1
    BY <1>6 DEF Input!ControlAcked
  <2>2. CASE UNCHANGED <<control, controls>>
    <3> HIDE <1>0 DEF InputSizes
    <3>1. attempt' \in 0..MaxRetransmissions
      BY <2>1, BoundsAssumption DEF InputSizes
    <3> QED
      BY <1>u, <2>1, <2>2, <3>1
  <2>3. CASE ~control' /\ controls' = controls + 1
    BY <2>1, <2>3
  <2> QED
    BY <2>1, <2>2, <2>3
<1>7. ASSUME NEW sent, Input!SendPacket(sent) PROVE InputSizes'
  BY <1>7 DEF Input!SendPacket
<1>8. CASE Input!SendPacketRefused \/ Input!PollFails
  <2>1. /\ UNCHANGED <<last, chunk_left, controls, input_ack, control>>
        /\ attempt' = 0 /\ partials' = 0
        /\ pc' \in {pc, "idle", "interrupted"}
    BY <1>8 DEF Input!SendPacketRefused, Input!PollFails
  <2>2. attempt' \in 0..MaxRetransmissions
    BY <2>1
  <2> HIDE <1>0 DEF InputSizes
  <2> QED
    BY <1>u, <2>1, <2>2
<1>9. ASSUME NEW i \in DOMAIN acks, Input!ReceiveAck(i) PROVE InputSizes'
  <2>1. acks[i] \in Input!Ack
    BY ElementOfSeq
  <2> QED
    BY <1>9, <2>1 DEF Input!ReceiveAck
<1>10. CASE Input!Retry
  BY <1>10 DEF Input!Retry, Input!RetryNumber
<1>11. CASE Input!Network
  <2>0. Input!Outside
    BY <1>11, Zenon DEF Input!Network, Input!BmcAccept, Input!BmcAcceptOld, Input!Take, Input!BmcRepeat, Input!Lose
  <2>1. /\ UNCHANGED <<last, chunk_left, controls, partials, input_ack, control, attempt>>
        /\ pc' \in {pc, "idle", "interrupted"}
    BY <2>0 DEF Input!Outside
  <2>2. attempt' \in 0..MaxRetransmissions
    BY <2>1
  <2> HIDE <1>0 DEF InputSizes
  <2> QED
    BY <1>u, <2>1, <2>2
<1> QED
  BY <1>1, <1>2, <1>3, <1>4, <1>5, <1>6, <1>7, <1>8, <1>9, <1>10, <1>11 DEF Input!Next, Input!Step

\* A packet carries characters of the call.
LEMMA PacketTyped ==
  ASSUME InputInv, InputSizes, pc = "send"
  PROVE  Input!Packet \in Input!Copy
<1>1. /\ first + confirmed \in Nat /\ chunk_left \in Nat /\ first + confirmed + chunk_left <= last /\ last <= MaxInput /\ last \in Nat
      /\ waiting_for_ack \in 1..LastSequence /\ packets \in 1..packets
  BY NumbersFollow, FlowAssumption DEF InputInv, InputTypes, Stands, InputSizes, Open
<1>2. Input!Characters(first + confirmed, chunk_left) \in Seq(1..MaxInput)
  <2>1. \A i \in 1..chunk_left : first + confirmed + i \in 1..MaxInput
    <3> TAKE i \in 1..chunk_left
    <3>1. first + confirmed + i <= first + confirmed + chunk_left /\ 1 <= first + confirmed + i
      BY <1>1
    <3> QED
      BY <1>1, <3>1, InputAssumption
  <2>2. Input!Characters(first + confirmed, chunk_left) \in [1..chunk_left -> 1..MaxInput]
    BY <2>1 DEF Input!Characters
  <2> QED
    BY <1>1, <2>2, SeqDef
<1>3. attempt \in 0..MaxRetransmissions
  BY DEF InputSizes
<1> QED
  BY <1>1, <1>2, <1>3, Zenon DEF Input!Packet, Input!Copy, Input!PacketNumbers

\* What is on the way stays typed while packets are counted.
LEMMA CopiesStay ==
  ASSUME packets \in Nat, packets' = packets \/ packets' = packets + 1,
         NEW S, S \subseteq Input!Copy
  PROVE  S \subseteq Input!Copy'
<1>1. 1..packets \subseteq 1..packets'
  OBVIOUS
<1> QED
  BY <1>1, Zenon DEF Input!Copy

\* What the BMC takes of a packet are characters of the call too.
LEMMA TakenTexts ==
  ASSUME InputInv, InputTexts, NEW c \in copies, NEW count \in 0..(ChunkSize + 1), NEW unavailable \in BOOLEAN,
         Input!Take(c, count, unavailable)
  PROVE  received' \in Seq(1..MaxInput) /\ packets' = packets
<1> DEFINE data == c.data
           taken == SubSeq(data, 1, Input!Min({count, Len(data)}))
<1>1. received' = received \o taken /\ packets' = packets
  BY DEF Input!Take, Input!Outside, Input!flow_vars
<1>2. c \in Input!Copy /\ received \in Seq(1..MaxInput)
  BY DEF InputTexts
<1>3. data \in Seq(1..MaxInput)
  BY <1>2, Zenon DEF Input!Copy
<1>4. Input!Min({count, Len(data)}) \in 0..Len(data) /\ Len(data) \in Nat
  <2>1. Len(data) \in Nat /\ count \in Nat
    BY <1>3, LenProperties, InputAssumption
  <2> HIDE DEF data
  <2> QED
    BY <2>1, SmallerOf
<1> HIDE DEF data
<1>5. taken \in Seq(1..MaxInput)
  <2>1. ASSUME NEW m \in 0..Len(data) PROVE SubSeq(data, 1, m) \in Seq(1..MaxInput)
    <3>1. \A i \in 1..m : i \in 1..Len(data)
      BY <1>4, <2>1
    <3>2. \A i \in 1..m : data[i] \in 1..MaxInput
      BY <1>3, <3>1, ElementOfSeq
    <3> QED
      BY <1>3, <1>4, <2>1, <3>2, SubSeqProperties
  <2> QED
    BY <1>4, <2>1
<1> HIDE DEF taken
<1> QED
  BY <1>1, <1>2, <1>5, ConcatProperties

\* So the texts stay typed.
LEMMA TextsTyped == InputInv /\ InputSizes /\ InputTexts /\ Input!Next => InputTexts'
<1> SUFFICES ASSUME InputInv, InputSizes, InputTexts, Input!Next PROVE InputTexts'
  OBVIOUS
<1>f. copies \subseteq Input!Copy /\ received \in Seq(1..MaxInput) /\ packets \in Nat
  BY DEF InputTexts, InputInv, InputTypes
<1>1. ASSUME copies' \subseteq copies, received' = received, packets' = packets \/ packets' = packets + 1
      PROVE  InputTexts'
  <2>1. copies' \subseteq Input!Copy
    BY <1>f, <1>1
  <2>2. copies' \subseteq Input!Copy'
    BY <1>f, <1>1, <2>1, CopiesStay
  <2> QED
    BY <1>f, <1>1, <2>2 DEF InputTexts
<1>2. ASSUME NEW sent, Input!SendPacket(sent) PROVE InputTexts'
  <2>1. Input!Packet \in Input!Copy
    BY <1>2, PacketTyped DEF Input!SendPacket
  <2>2. copies' \in {copies \union {Input!Packet}, copies} /\ received' = received /\ packets' = packets
    BY <1>2 DEF Input!SendPacket, Input!flow_vars, Input!bmc_vars
  <2>3. copies' \subseteq Input!Copy
    BY <1>f, <2>1, <2>2
  <2>4. copies' \subseteq Input!Copy'
    BY <1>f, <2>2, <2>3, CopiesStay
  <2> QED
    BY <1>f, <2>2, <2>4 DEF InputTexts
<1>3. ASSUME NEW c \in copies, NEW count \in 0..(ChunkSize + 1), NEW unavailable \in BOOLEAN,
             Input!BmcAccept(c, count, unavailable) \/ Input!BmcAcceptOld(c, count, unavailable)
      PROVE  InputTexts'
  <2>1. Input!Take(c, count, unavailable) /\ copies' \subseteq copies
    BY <1>3 DEF Input!BmcAccept, Input!BmcAcceptOld
  <2>2. received' \in Seq(1..MaxInput) /\ packets' = packets
    BY <2>1, TakenTexts
  <2>3. copies' \subseteq Input!Copy
    BY <1>f, <2>1
  <2>4. copies' \subseteq Input!Copy'
    BY <1>f, <2>2, <2>3, CopiesStay
  <2> QED
    BY <2>2, <2>4 DEF InputTexts
<1>4. CASE (\E c \in copies : Input!BmcRepeat(c)) \/ Input!Lose
  <2>1. copies' \subseteq copies /\ received' = received /\ packets' = packets
    BY <1>4 DEF Input!BmcRepeat, Input!Lose, Input!Outside, Input!flow_vars, Input!bmc_vars
  <2> QED
    BY <1>1, <2>1
<1>5. CASE (\E n \in 1..MaxInput : Input!SendInput(n)) \/ Input!SendInputCancelled \/ Input!SendControl
           \/ Input!NextPacket \/ Input!AllSent \/ Input!Acked \/ Input!AckedTooMany \/ Input!ControlAcked
           \/ Input!SendPacketRefused \/ (\E i \in DOMAIN acks : Input!ReceiveAck(i)) \/ Input!Retry \/ Input!PollFails
  <2>1. copies' \subseteq copies /\ received' = received /\ (packets' = packets \/ packets' = packets + 1)
    BY <1>5 DEF Input!SendInput, Input!SendInputCancelled, Input!SendControl, Input!NextPacket, Input!NewPacket, Input!AllSent, Input!Acked,
                Input!AckedTooMany, Input!ControlAcked, Input!SendPacketRefused, Input!ReceiveAck, Input!Retry, Input!PollFails,
                Input!net_vars, Input!bmc_vars, Input!flow_vars
  <2> QED
    BY <1>1, <2>1
<1> QED
  BY <1>2, <1>3, <1>4, <1>5 DEF Input!Next, Input!Step, Input!Network

\* The flags are flags.
LEMMA InputFlagsStep == InputFlags /\ Input!Next => InputFlags'
<1> SUFFICES ASSUME InputFlags, Input!Next PROVE InputFlags'
  OBVIOUS
<1> USE DEF InputFlags, Input!Interrupted, Input!call_vars, Input!net_vars, Input!bmc_vars
<1>1. (\A m, n : (m # n) \in BOOLEAN) /\ Input!RefusalDoubt \in BOOLEAN
  BY Zenon DEF Input!RefusalDoubt
<1>2. CASE (\E n \in 1..MaxInput : Input!SendInput(n)) \/ Input!SendInputCancelled \/ Input!SendControl
  BY <1>2, Zenon DEF Input!SendInput, Input!SendInputCancelled, Input!SendControl
<1>3. CASE Input!NextPacket \/ Input!AllSent \/ Input!AckedTooMany \/ Input!ControlAcked
  BY <1>3, Zenon DEF Input!NextPacket, Input!AllSent, Input!AckedTooMany, Input!ControlAcked
<1>4. CASE Input!Acked
  <2>1. control' = control /\ uncertain' \in {chunk_left' # 0, TRUE, uncertain} /\ UNCHANGED <<repeated, overtaken>>
    BY <1>4, Zenon DEF Input!Acked
  <2> QED
    BY <1>1, <2>1, Zenon
<1>5. ASSUME NEW sent, Input!SendPacket(sent) PROVE InputFlags'
  <2>1. /\ control' = control /\ (uncertain' = TRUE \/ uncertain' = uncertain) /\ overtaken' = overtaken
        /\ repeated' = (repeated \/ attempt # 0)
    BY <1>5, Zenon DEF Input!SendPacket
  <2>2. repeated' \in BOOLEAN
    BY <2>1, Zenon
  <2> QED
    BY <2>1, <2>2, Zenon
<1>6. CASE Input!SendPacketRefused
  BY <1>1, <1>6, Zenon DEF Input!SendPacketRefused
<1>7. CASE (\E i \in DOMAIN acks : Input!ReceiveAck(i)) \/ Input!Retry \/ Input!PollFails
  BY <1>7, Zenon DEF Input!ReceiveAck, Input!Retry, Input!PollFails
<1>8. CASE Input!Network
  <2>1. UNCHANGED <<control, uncertain, repeated>> /\ (overtaken' = overtaken \/ overtaken' = TRUE)
    BY <1>8, Zenon DEF Input!Network, Input!BmcAccept, Input!BmcAcceptOld, Input!Take, Input!BmcRepeat, Input!Lose, Input!Outside
  <2> QED
    BY <2>1, Zenon
<1> QED
  BY <1>2, <1>3, <1>4, <1>5, <1>6, <1>7, <1>8, Zenon DEF Input!Next, Input!Step

\* The types of SolInput.
LEMMA InputTypedMeans ==
  ASSUME InputInv, InputSizes, InputTexts, InputFlags
  PROVE  Input!TypeOK
<1>0. InputTypes /\ Stands
  BY Zenon DEF InputInv
<1>1. /\ next_input_sequence \in Input!PacketNumbers /\ waiting_for_ack \in 0..LastSequence
      /\ first \in 0..MaxInput /\ last \in first..MaxInput /\ confirmed \in 0..(last - first)
      /\ acks \in Seq(Input!Ack) /\ bmc_last \in Input!Ack
  BY <1>0, NumbersFollow, FlowAssumption, InputAssumption DEF InputTypes, Stands, InputSizes, Input!PacketNumbers
<1>2. executed \in Nat /\ packets \in Nat /\ newest \in 0..packets
  BY <1>0 DEF InputTypes
<1>3. pc \in {"idle", "chunk", "send", "poll", "acked", "interrupted"}
  BY <1>0 DEF InputTypes
<1> QED
  BY <1>1, <1>2, <1>3, Zenon DEF InputSizes, InputTexts, InputFlags, Input!TypeOK

-----------------------------------------------------------------------------
OpNames == {"none", "open", "read", "close", "drop", "reconnect"}
OpWhys == {"none", "uncertain", "interrupted", "close", "drop", "reclose"}
Kinds == {"none", "opened", "rejected", "uncertain", "interrupted", "pending",
          "closed", "stopped", "dropped", "gap", "reconnect_failed"}
(* reconnect() authenticates while it has an attempt left.                 *)
OpTyped ==
    /\ OpIsRecord
    /\ op.name \in OpNames /\ op.why \in OpWhys /\ op.max \in 0..3 /\ op.attempts \in 0..op.max
    /\ pc = "handshake" \/ (pc = "cleanup" /\ op.why = "reclose") => op.attempts < op.max
    /\ report = [kind |-> report.kind, unconfirmed |-> report.unconfirmed] /\ report.kind \in Kinds
SessionSizes ==
    /\ handle \in {"none", "live", "stopped"}
    /\ answer \in {"none", "ok", "wrong_route", "refused"}
    /\ sessions <= MaxSessions /\ acknowledged <= MaxOutput
\* Kept apart from the other types for the provers.
SessionFlags ==
    /\ flow \in BOOLEAN /\ remote_close_unconfirmed \in BOOLEAN /\ cancelled \in BOOLEAN
    /\ doubtful \in BOOLEAN
SessionDoubts == told \in BOOLEAN /\ op.unconfirmed \in BOOLEAN /\ report.unconfirmed \in BOOLEAN

\* The types hold before a console is opened.
LEMMA SessionTypedStart == Session!Init => OpTyped /\ SessionSizes /\ SessionFlags /\ SessionDoubts
<1> SUFFICES ASSUME Session!Init PROVE OpTyped /\ SessionSizes /\ SessionFlags /\ SessionDoubts
  OBVIOUS
<1>1. OpTyped /\ SessionSizes
  BY BoundsAssumption DEF Session!Init, Session!NoOp, OpTyped, OpIsRecord, OpNames, OpWhys, Kinds, SessionSizes
<1>2. SessionFlags
  BY Zenon DEF Session!Init, SessionFlags
<1>3. told = FALSE /\ op.unconfirmed = FALSE /\ report.unconfirmed = FALSE
  BY DEF Session!Init, Session!NoOp
<1>4. SessionDoubts
  BY <1>3, Zenon DEF SessionDoubts
<1> QED
  BY <1>1, <1>2, <1>4

\* An operation that returns, and one that goes on with another attempt.
LEMMA ReturnTyped ==
  ASSUME NEW kind \in Kinds, NEW unconfirmed, Session!Return(kind, unconfirmed)
  PROVE  OpTyped'
  BY DEF Session!Return, Session!NoOp, OpTyped, OpIsRecord, OpNames, OpWhys

\* reconnect() tries again only while it has an attempt left.
LEMMA NextAttemptTyped ==
  ASSUME OpTyped, NEW unconfirmed, Session!NextAttempt(unconfirmed)
  PROVE  OpTyped'
<1>1. CASE op.attempts < op.max
  <2>1. /\ pc' = "handshake" /\ report' = report
        /\ op' = [op EXCEPT !.why = "none", !.unconfirmed = unconfirmed]
    BY <1>1 DEF Session!NextAttempt, Session!GoOn
  <2> QED
    BY <1>1, <2>1 DEF OpTyped, OpIsRecord, OpWhys
<1>2. CASE ~(op.attempts < op.max)
  <2>1. Session!Return("reconnect_failed", unconfirmed) /\ "reconnect_failed" \in Kinds
    BY <1>2 DEF Session!NextAttempt, Kinds
  <2> QED
    BY <2>1, ReturnTyped
<1> QED
  BY <1>1, <1>2

\* Opening, and the attempts of reconnect().
LEMMA OpeningTyped ==
  ASSUME OpTyped, Session!Opening
  PROVE  OpTyped'
<1>1. ASSUME NEW ok, Session!Connect(ok) PROVE OpTyped'
  BY <1>1 DEF Session!Connect, OpTyped, OpIsRecord
<1>2. ASSUME NEW ok, Session!Handshake(ok) PROVE OpTyped'
  <2>1. op.attempts < op.max
    BY <1>2 DEF Session!Handshake, OpTyped
  <2>2. ASSUME NEW where \in {"activate", "handshake"}, Session!GoOn(where, [op EXCEPT !.attempts = @ + 1]),
               where = "handshake" => op.attempts + 1 < op.max
        PROVE  OpTyped'
    BY <2>1, <2>2 DEF Session!GoOn, OpTyped, OpIsRecord
  <2>3. [op EXCEPT !.attempts = @ + 1].attempts = op.attempts + 1
    BY DEF OpTyped, OpIsRecord
  <2>4. \/ Session!GoOn("activate", [op EXCEPT !.attempts = @ + 1])
        \/ Session!GoOn("handshake", [op EXCEPT !.attempts = @ + 1]) /\ op.attempts + 1 < op.max
        \/ Session!Return("reconnect_failed", op.unconfirmed)
    BY <1>2, <2>3 DEF Session!Handshake
  <2> QED
    BY <2>2, <2>4, ReturnTyped DEF Kinds
<1>3. CASE Session!Open
  <2>1. /\ op' = [name |-> "open", why |-> "none", attempts |-> 0, max |-> 0, unconfirmed |-> FALSE]
        /\ pc' = "activate" /\ report' = report
    BY <1>3 DEF Session!Open, Session!GoOn, Session!NoOp
  <2> QED
    BY <2>1 DEF OpTyped, OpIsRecord, OpNames, OpWhys
<1>4. CASE Session!Activated
  BY <1>4, ReturnTyped DEF Session!Activated, Kinds
<1>5. CASE Session!Rejected
  BY <1>5, ReturnTyped, NextAttemptTyped DEF Session!Rejected, Kinds
<1>6. CASE Session!PossiblyActivated
  BY <1>6 DEF Session!PossiblyActivated, Session!GoOn, OpTyped, OpIsRecord, OpWhys
<1> QED
  BY <1>1, <1>2, <1>3, <1>4, <1>5, <1>6 DEF Session!Opening

\* Reads, closes and reconnections.
LEMMA ConsoleTyped ==
  ASSUME OpTyped, SessionInv, Session!Console
  PROVE  OpTyped'
<1>1. ASSUME NEW where \in {"reading", "cleanup", "handshake"}, NEW name \in OpNames, NEW why \in OpWhys, NEW max \in 0..3,
             NEW unconfirmed, where = "handshake" \/ why = "reclose" => max # 0,
             pc' = where, op' = [name |-> name, why |-> why, attempts |-> 0, max |-> max, unconfirmed |-> unconfirmed],
             report' = report
      PROVE  OpTyped'
  BY <1>1 DEF OpTyped, OpIsRecord
<1> USE DEF OpNames, OpWhys
<1>2. CASE Session!ReadWaits
  <2>1. pc' = "reading" /\ report' = report /\ op' = [name |-> "read", why |-> "none", attempts |-> 0, max |-> 0, unconfirmed |-> FALSE]
    BY <1>2 DEF Session!ReadWaits, Session!NoOp, Session!GoOn
  <2> QED
    BY <1>1, <2>1
<1>3. ASSUME NEW n, Session!ReadReturns(n) PROVE OpTyped'
  BY <1>3, ReturnTyped DEF Session!ReadReturns, Kinds
<1>4. CASE Session!ReadFails
  <2>1. pc' = "cleanup" /\ report' = report /\ op' = [name |-> "read", why |-> "interrupted", attempts |-> 0, max |-> 0, unconfirmed |-> FALSE]
    BY <1>4 DEF Session!ReadFails, Session!Deactivate, Session!NoOp, Session!GoOn
  <2> QED
    BY <1>1, <2>1
<1>5. ASSUME NEW why \in {"close", "drop"}, Session!Close(why) PROVE OpTyped'
  <2>1. pc' = "cleanup" /\ report' = report /\ op' = [name |-> why, why |-> why, attempts |-> 0, max |-> 0, unconfirmed |-> FALSE]
    BY <1>5 DEF Session!Close, Session!Deactivate, Session!NoOp, Session!GoOn
  <2> QED
    BY <1>1, <2>1
<1>6. CASE Session!CloseStopped \/ Session!ReconnectPending
  BY <1>6, ReturnTyped DEF Session!CloseStopped, Session!ReconnectPending, Kinds
<1>7. ASSUME NEW max \in 1..3, Session!ReconnectLive(max) PROVE OpTyped'
  <2>1. pc' = "cleanup" /\ report' = report /\ op' = [name |-> "reconnect", why |-> "reclose", attempts |-> 0, max |-> max, unconfirmed |-> FALSE]
    BY <1>7 DEF Session!ReconnectLive, Session!Deactivate, Session!NoOp, Session!GoOn
  <2> QED
    BY <1>1, <2>1
<1>8. ASSUME NEW max \in 1..3, Session!ReconnectStopped(max) PROVE OpTyped'
  <2>1. CASE cancelled
    BY <1>8, <2>1, ReturnTyped DEF Session!ReconnectStopped, Kinds
  <2>2. CASE ~cancelled
    <3>1. pc' = "handshake" /\ report' = report /\ op' = [name |-> "reconnect", why |-> "none", attempts |-> 0, max |-> max, unconfirmed |-> remote_close_unconfirmed]
      BY <1>8, <2>2 DEF Session!ReconnectStopped, Session!NoOp, Session!GoOn
    <3> QED
      BY <1>1, <3>1
  <2> QED
    BY <2>1, <2>2
<1>9. ASSUME NEW reply, Session!CleanedUp(reply) PROVE OpTyped'
  <2> DEFINE unconfirmed == ~Session!Deactivated(reply)
  <2>1. /\ pc = "cleanup" /\ op.why \in {"uncertain", "reclose", "interrupted", "close", "drop"}
        /\ op.why = "uncertain" => Session!UncertainReturns(unconfirmed)
        /\ op.why = "reclose" => Session!RecloseReturns(unconfirmed)
        /\ op.why \notin {"uncertain", "reclose"} => Session!ConsoleReturns(unconfirmed)
    BY <1>9 DEF Session!CleanedUp, SessionInv, SessionControl
  <2> HIDE DEF unconfirmed
  <2>2. CASE op.why = "uncertain"
    BY <2>1, <2>2, ReturnTyped, NextAttemptTyped DEF Session!UncertainReturns, Kinds
  <2>3. CASE op.why = "reclose"
    <3>1. CASE Session!Return("interrupted", unconfirmed) \/ Session!Return("reconnect_failed", unconfirmed)
      BY <3>1, ReturnTyped DEF Kinds
    <3>2. CASE Session!GoOn("handshake", [op EXCEPT !.why = "none", !.unconfirmed = unconfirmed])
      BY <2>1, <2>3, <3>2 DEF Session!GoOn, OpTyped, OpIsRecord
    <3> QED
      BY <2>1, <2>3, <3>1, <3>2 DEF Session!RecloseReturns
  <2>4. CASE op.why \in {"interrupted", "close", "drop"}
    <3>1. \E kind \in Kinds : Session!Return(kind, unconfirmed)
      <4>1. CASE op.why = "interrupted"
        BY <2>1, <4>1 DEF Session!ConsoleReturns, Kinds
      <4>2. CASE op.why = "close"
        BY <2>1, <4>2 DEF Session!ConsoleReturns, Kinds
      <4>3. CASE op.why = "drop"
        BY <2>1, <4>3 DEF Session!ConsoleReturns, Kinds
      <4> QED
        BY <2>4, <4>1, <4>2, <4>3
    <3> QED
      BY <3>1, ReturnTyped
  <2> QED
    BY <2>1, <2>2, <2>3, <2>4
<1> QED
  BY <1>2, <1>3, <1>4, <1>5, <1>6, <1>7, <1>8, <1>9 DEF Session!Console

\* Every step of SolSession keeps the types of the operation.
LEMMA OpTypedStep == OpTyped /\ SessionInv /\ Session!Next => OpTyped'
<1> SUFFICES ASSUME OpTyped, SessionInv, Session!Next PROVE OpTyped'
  OBVIOUS
<1>1. CASE Session!Environment
  <2>1. UNCHANGED <<op, report>> /\ pc' = pc
    BY <1>1 DEF Session!Environment, Session!BmcActivate, Session!BmcDeactivate, Session!BmcGivesUp, Session!SolOutput,
                Session!Cancel, Session!Outside
  <2> QED
    BY <2>1 DEF OpTyped, OpIsRecord
<1> QED
  BY <1>1, OpeningTyped, ConsoleTyped DEF Session!Next

\* No more sessions and output than there are.
LEMMA SessionSizesStep == SessionSizes /\ SessionInv /\ Session!Next => SessionSizes'
<1> SUFFICES ASSUME SessionSizes, SessionInv, Session!Next PROVE SessionSizes'
  OBVIOUS
<1>0. sessions \in Nat /\ acknowledged \in Nat
  BY DEF SessionInv, SessionNumbers
<1> USE DEF SessionSizes, Session!Outside, Session!client_vars, Session!output_vars, Session!Unchanged, Session!Deactivate, Session!KeepOutput, Session!TakeOutput
<1>1. CASE Session!Environment
  BY <1>0, <1>1, BoundsAssumption DEF Session!Environment, Session!BmcActivate, Session!BmcDeactivate, Session!BmcGivesUp, Session!SolOutput, Session!Cancel
<1>2. CASE Session!Opening
  <2>1. ASSUME NEW ok, Session!Connect(ok) \/ Session!Handshake(ok) PROVE SessionSizes'
    BY <1>0, <2>1, BoundsAssumption DEF Session!Connect, Session!Handshake, Session!Authenticate
  <2>2. CASE Session!Open \/ Session!Activated \/ Session!Rejected \/ Session!PossiblyActivated
    BY <2>2 DEF Session!Open, Session!Activated, Session!Rejected, Session!PossiblyActivated
  <2> QED
    BY <1>2, <2>1, <2>2 DEF Session!Opening
<1>3. CASE Session!Console
  <2>1. CASE Session!ReadWaits \/ (\E n \in 1..MaxOutput : Session!ReadReturns(n)) \/ Session!ReadFails
             \/ (\E why \in {"close", "drop"} : Session!Close(why)) \/ Session!CloseStopped \/ Session!ReconnectPending
    BY <2>1 DEF Session!ReadWaits, Session!ReadReturns, Session!ReadFails, Session!Close, Session!CloseStopped, Session!ReconnectPending
  <2>2. ASSUME NEW max, Session!ReconnectLive(max) \/ Session!ReconnectStopped(max) PROVE SessionSizes'
    BY <2>2 DEF Session!ReconnectLive, Session!ReconnectStopped
  <2>3. ASSUME NEW reply, Session!CleanedUp(reply) PROVE SessionSizes'
    <3>1. UNCHANGED <<answer, sessions, acknowledged>>
      BY <2>3 DEF Session!CleanedUp
    <3>2. handle' \in {handle, "stopped", "none"}
      BY <2>3 DEF Session!CleanedUp, Session!UncertainReturns, Session!RecloseReturns, Session!ConsoleReturns
    <3> QED
      BY <3>1, <3>2
  <2> QED
    BY <1>3, <2>1, <2>2, <2>3 DEF Session!Console
<1> QED
  BY <1>1, <1>2, <1>3 DEF Session!Next

\* The flags are flags, and what is said of doubt is a yes or a no.
LEMMA SessionFlagsStep == SessionFlags /\ SessionDoubts /\ Session!Next => SessionFlags'
<1> SUFFICES ASSUME SessionFlags, SessionDoubts, Session!Next PROVE SessionFlags'
  OBVIOUS
<1> USE DEF SessionFlags, Session!Outside, Session!client_vars, Session!Unchanged, Session!KeepOutput, Session!TakeOutput
<1>1. CASE Session!Environment
  <2>1. UNCHANGED <<flow, remote_close_unconfirmed, doubtful>> /\ cancelled' \in {cancelled, ~cancelled}
    BY <1>1, Zenon DEF Session!Environment, Session!BmcActivate, Session!BmcDeactivate, Session!BmcGivesUp, Session!SolOutput, Session!Cancel
  <2> QED
    BY <2>1, Zenon
<1>2. CASE Session!Opening
  <2>1. ASSUME NEW ok \in BOOLEAN, Session!Connect(ok) \/ Session!Handshake(ok) PROVE SessionFlags'
    BY <2>1, Zenon DEF Session!Connect, Session!Handshake
  <2>2. CASE Session!Open \/ Session!Activated \/ Session!Rejected \/ Session!PossiblyActivated
    BY <2>2, Zenon DEF Session!Open, Session!Activated, Session!Rejected, Session!PossiblyActivated
  <2> QED
    BY <1>2, <2>1, <2>2, Zenon DEF Session!Opening
<1>3. CASE Session!Console
  <2>1. CASE Session!ReadWaits \/ (\E n \in 1..MaxOutput : Session!ReadReturns(n)) \/ Session!ReadFails
             \/ (\E why \in {"close", "drop"} : Session!Close(why)) \/ Session!CloseStopped \/ Session!ReconnectPending
    BY <2>1, Zenon DEF Session!ReadWaits, Session!ReadReturns, Session!ReadFails, Session!Close, Session!CloseStopped, Session!ReconnectPending
  <2>2. ASSUME NEW max, Session!ReconnectLive(max) \/ Session!ReconnectStopped(max) PROVE SessionFlags'
    BY <2>2, Zenon DEF Session!ReconnectLive, Session!ReconnectStopped
  <2>3. ASSUME NEW reply, Session!CleanedUp(reply) PROVE SessionFlags'
    <3>1. Session!Deactivated(reply) \in BOOLEAN
      BY DEF Session!Deactivated
    <3>2. flow' = FALSE /\ cancelled' = cancelled /\ doubtful' = ~Session!Deactivated(reply)
      BY <2>3, Zenon DEF Session!CleanedUp
    <3>3. remote_close_unconfirmed' \in {remote_close_unconfirmed, ~Session!Deactivated(reply)}
      <4>1. \/ Session!UncertainReturns(~Session!Deactivated(reply))
            \/ Session!RecloseReturns(~Session!Deactivated(reply))
            \/ Session!ConsoleReturns(~Session!Deactivated(reply))
        BY <2>3 DEF Session!CleanedUp
      <4> QED
        BY <4>1, Zenon DEF Session!UncertainReturns, Session!RecloseReturns, Session!ConsoleReturns
    <3> QED
      BY <3>1, <3>2, <3>3, Zenon
  <2> QED
    BY <1>3, <2>1, <2>2, <2>3, Zenon DEF Session!Console
<1> QED
  BY <1>1, <1>2, <1>3, Zenon DEF Session!Next

\* What an operation carries and reports of doubt is a yes or a no.
LEMMA SessionDoubtsStep == OpTyped /\ SessionInv /\ SessionFlags /\ SessionDoubts /\ Session!Next => SessionDoubts'
<1> SUFFICES ASSUME OpTyped, SessionInv, SessionFlags, SessionDoubts, Session!Next PROVE SessionDoubts'
  OBVIOUS
<1>1. ASSUME NEW kind, NEW unconfirmed \in BOOLEAN, Session!Return(kind, unconfirmed) PROVE SessionDoubts'
  <2>1. op'.unconfirmed = FALSE /\ report'.unconfirmed = unconfirmed
    BY <1>1 DEF Session!Return, Session!NoOp
  <2>2. told' \in {FALSE, told \/ unconfirmed \/ kind = "dropped"}
    <3>1. CASE kind \in {"opened", "gap"}
      BY <1>1, <3>1 DEF Session!Return
    <3>2. CASE kind \notin {"opened", "gap"}
      BY <1>1, <3>2 DEF Session!Return
    <3> QED
      BY <3>1, <3>2
  <2> QED
    BY <2>1, <2>2, Zenon DEF SessionDoubts
<1>2. ASSUME NEW unconfirmed \in BOOLEAN, UNCHANGED <<report, told>>, op'.unconfirmed = unconfirmed PROVE SessionDoubts'
  BY <1>2, Zenon DEF SessionDoubts
<1>3. op.unconfirmed \in BOOLEAN
  BY Zenon DEF SessionDoubts
<1>4. ASSUME NEW unconfirmed \in BOOLEAN, Session!NextAttempt(unconfirmed) PROVE SessionDoubts'
  <2>1. CASE op.attempts < op.max
    <3>1. UNCHANGED <<report, told>> /\ op'.unconfirmed = unconfirmed
      BY <1>4, <2>1 DEF Session!NextAttempt, Session!GoOn, OpTyped, OpIsRecord
    <3> QED
      BY <1>2, <3>1, Zenon
  <2>2. CASE ~(op.attempts < op.max)
    BY <1>1, <1>4, <2>2, Zenon DEF Session!NextAttempt
  <2> QED
    BY <2>1, <2>2
<1>5. CASE Session!Environment
  <2>1. UNCHANGED <<op, report, told>>
    BY <1>5 DEF Session!Environment, Session!BmcActivate, Session!BmcDeactivate, Session!BmcGivesUp, Session!SolOutput,
                Session!Cancel, Session!Outside
  <2> QED
    BY <2>1, Zenon DEF SessionDoubts
<1>6. CASE Session!Opening
  <2>1. ASSUME NEW ok, Session!Connect(ok) PROVE SessionDoubts'
    BY <2>1, Zenon DEF Session!Connect, SessionDoubts
  <2>2. ASSUME NEW ok, Session!Handshake(ok) PROVE SessionDoubts'
    <3>1. \/ UNCHANGED <<report, told>> /\ op' = [op EXCEPT !.attempts = @ + 1]
          \/ Session!Return("reconnect_failed", op.unconfirmed)
      BY <2>2, Zenon DEF Session!Handshake, Session!GoOn
    <3>2. op' = [op EXCEPT !.attempts = @ + 1] => op'.unconfirmed = op.unconfirmed
      BY DEF OpTyped, OpIsRecord
    <3> QED
      BY <1>1, <1>2, <1>3, <3>1, <3>2, Zenon
  <2>3. CASE Session!Open
    <3>1. UNCHANGED <<report, told>> /\ op'.unconfirmed = FALSE
      BY <2>3 DEF Session!Open, Session!GoOn, Session!NoOp
    <3> QED
      BY <1>2, <3>1, Zenon
  <2>4. CASE Session!Activated
    BY <1>1, <2>4, Zenon DEF Session!Activated, SessionDoubts
  <2>5. CASE Session!Rejected
    BY <1>1, <1>4, <2>5, Zenon DEF Session!Rejected, SessionDoubts
  <2>6. CASE Session!PossiblyActivated
    <3>1. UNCHANGED <<report, told>> /\ op'.unconfirmed = op.unconfirmed
      BY <2>6 DEF Session!PossiblyActivated, Session!GoOn, OpTyped, OpIsRecord
    <3> QED
      BY <1>2, <1>3, <3>1, Zenon
  <2> QED
    BY <1>6, <2>1, <2>2, <2>3, <2>4, <2>5, <2>6 DEF Session!Opening
<1>7. CASE Session!Console
  <2>1. CASE Session!ReadWaits
    <3>1. UNCHANGED <<report, told>> /\ op'.unconfirmed = FALSE
      BY <2>1 DEF Session!ReadWaits, Session!GoOn, Session!NoOp
    <3> QED
      BY <1>2, <3>1, Zenon
  <2>2. CASE (\E n \in 1..MaxOutput : Session!ReadReturns(n)) \/ Session!ReconnectPending
    BY <1>1, <2>2, Zenon DEF Session!ReadReturns, Session!ReconnectPending
  <2>3. CASE Session!ReadFails
    <3>1. UNCHANGED <<report, told>> /\ op'.unconfirmed = FALSE
      BY <2>3 DEF Session!ReadFails, Session!Deactivate, Session!GoOn, Session!NoOp
    <3> QED
      BY <1>2, <3>1, Zenon
  <2>4. ASSUME NEW why, Session!Close(why) PROVE SessionDoubts'
    <3>1. UNCHANGED <<report, told>> /\ op'.unconfirmed = FALSE
      BY <2>4 DEF Session!Close, Session!Deactivate, Session!GoOn, Session!NoOp
    <3> QED
      BY <1>2, <3>1, Zenon
  <2>5. CASE Session!CloseStopped
    BY <1>1, <2>5, Zenon DEF Session!CloseStopped, SessionFlags
  <2>6. ASSUME NEW max, Session!ReconnectLive(max) PROVE SessionDoubts'
    <3>1. UNCHANGED <<report, told>> /\ op'.unconfirmed = FALSE
      BY <2>6 DEF Session!ReconnectLive, Session!Deactivate, Session!GoOn, Session!NoOp
    <3> QED
      BY <1>2, <3>1, Zenon
  <2>7. ASSUME NEW max, Session!ReconnectStopped(max) PROVE SessionDoubts'
    <3>1. CASE cancelled
      BY <1>1, <2>7, <3>1, Zenon DEF Session!ReconnectStopped, SessionFlags
    <3>2. CASE ~cancelled
      <4>1. UNCHANGED <<report, told>> /\ op'.unconfirmed = remote_close_unconfirmed
        BY <2>7, <3>2 DEF Session!ReconnectStopped, Session!GoOn, Session!NoOp
      <4> QED
        BY <1>2, <4>1, Zenon DEF SessionFlags
    <3> QED
      BY <3>1, <3>2
  <2>8. ASSUME NEW reply, Session!CleanedUp(reply) PROVE SessionDoubts'
    <3> DEFINE unconfirmed == ~Session!Deactivated(reply)
    <3>1. unconfirmed \in BOOLEAN
      BY DEF Session!Deactivated
    <3>2. (op.unconfirmed \/ unconfirmed) \in BOOLEAN
      OBVIOUS
    <3>3. \/ Session!UncertainReturns(unconfirmed)
          \/ Session!RecloseReturns(unconfirmed)
          \/ Session!ConsoleReturns(unconfirmed)
      BY <2>8 DEF Session!CleanedUp
    <3> HIDE DEF unconfirmed
    <3>4. CASE Session!UncertainReturns(unconfirmed)
      BY <1>1, <1>4, <3>1, <3>2, <3>4, Zenon DEF Session!UncertainReturns
    <3>5. CASE Session!RecloseReturns(unconfirmed)
      <4>1. \/ \E kind : Session!Return(kind, unconfirmed)
            \/ UNCHANGED <<report, told>> /\ op' = [op EXCEPT !.why = "none", !.unconfirmed = unconfirmed]
        BY <3>5, Zenon DEF Session!RecloseReturns, Session!GoOn
      <4>2. op' = [op EXCEPT !.why = "none", !.unconfirmed = unconfirmed] => op'.unconfirmed = unconfirmed
        BY DEF OpTyped, OpIsRecord
      <4> QED
        BY <1>1, <1>2, <3>1, <4>1, <4>2, Zenon
    <3>6. CASE Session!ConsoleReturns(unconfirmed)
      <4>1. \E kind : Session!Return(kind, unconfirmed)
        BY <3>6, Zenon DEF Session!ConsoleReturns
      <4> QED
        BY <1>1, <3>1, <4>1, Zenon
    <3> QED
      BY <3>3, <3>4, <3>5, <3>6
  <2> QED
    BY <1>7, <2>1, <2>2, <2>3, <2>4, <2>5, <2>6, <2>7, <2>8, Zenon DEF Session!Console
<1> QED
  BY <1>5, <1>6, <1>7, Zenon DEF Session!Next

\* The types of SolSession.
LEMMA SessionTypedMeans ==
  ASSUME SessionInv, OpTyped, SessionSizes, SessionFlags, SessionDoubts
  PROVE  Session!TypeOK
<1>1. op \in Session!Op
  <2>1. ASSUME NEW name \in OpNames, NEW why \in OpWhys, NEW attempts \in 0..3, NEW max \in 0..3, NEW unconfirmed \in BOOLEAN
        PROVE  [name |-> name, why |-> why, attempts |-> attempts, max |-> max, unconfirmed |-> unconfirmed] \in Session!Op
    BY <2>1, Zenon DEF Session!Op, OpNames, OpWhys
  <2>2. op.attempts \in 0..3 /\ op.max \in 0..3
    BY DEF OpTyped
  <2>3. OpIsRecord /\ op.name \in OpNames /\ op.why \in OpWhys /\ op.unconfirmed \in BOOLEAN
    BY Zenon DEF OpTyped, SessionDoubts
  <2> QED
    BY <2>1, <2>2, <2>3, Zenon DEF OpIsRecord
<1>2. report \in Session!Report
  <2>1. ASSUME NEW kind \in Kinds, NEW unconfirmed \in BOOLEAN
        PROVE  [kind |-> kind, unconfirmed |-> unconfirmed] \in Session!Report
    BY <2>1, Zenon DEF Session!Report, Kinds
  <2>2. /\ report = [kind |-> report.kind, unconfirmed |-> report.unconfirmed]
        /\ report.kind \in Kinds /\ report.unconfirmed \in BOOLEAN
    BY Zenon DEF OpTyped, SessionDoubts
  <2> QED
    BY <2>1, <2>2, Zenon
<1>3. /\ session \in 0..MaxSessions /\ payload \in 0..MaxSessions /\ sessions \in 0..MaxSessions
      /\ queue \in Nat /\ acknowledged \in 0..MaxOutput /\ returned \in Nat /\ dropped \in Nat
      /\ pc \in {"idle", "activate", "rejected", "cleanup", "handshake", "reading"}
  BY BoundsAssumption DEF SessionInv, SessionNumbers, SessionControl, SessionSizes
<1> QED
  BY <1>1, <1>2, <1>3, Zenon DEF SessionFlags, SessionDoubts, SessionSizes, Session!TypeOK

-----------------------------------------------------------------------------
(* A stream is kept alive only with the privilege that its commands need,  *)
(* and a console that ended has no output left.                            *)
TyanTyped ==
    /\ pc \in {"none", "bound", "idle", "check", "keepalive", "receive", "key", "stop", "ended"}
    /\ call = [name |-> call.name, size |-> call.size, uncertain |-> call.uncertain]
    /\ call.name \in TyanNames /\ call.size \in 0..MaxOutput
    /\ pc \in {"none", "bound", "stop", "ended"} => ~active
    /\ pc = "bound" \/ active => privileged
    /\ pc = "ended" => pending = 0
    /\ unrelated \in 0..(MaxUnrelated - 1)
    /\ report = [kind |-> report.kind, unconfirmed |-> report.unconfirmed]
    /\ report.kind \in {"none", "failed", "start", "opened", "read", "sent", "interrupted", "closed"}
\* Kept apart from the other types for the provers.
TyanFlags ==
    /\ active \in BOOLEAN /\ due \in BOOLEAN /\ privileged \in BOOLEAN
    /\ cancelled \in BOOLEAN /\ streaming \in BOOLEAN
TyanDoubts == call.uncertain \in BOOLEAN /\ report.unconfirmed \in BOOLEAN

\* The types hold before the console is opened.
LEMMA TyanTypedStart == Tyan!Init => TyanTyped /\ TyanFlags /\ TyanDoubts
<1> SUFFICES ASSUME Tyan!Init PROVE TyanTyped /\ TyanFlags /\ TyanDoubts
  OBVIOUS
<1>1. TyanTyped
  BY BoundsAssumption DEF Tyan!Init, TyanTyped, TyanNames, Tyan!NoCall, Tyan!NoReport
<1>2. TyanFlags
  BY Zenon DEF Tyan!Init, TyanFlags
<1>3. TyanDoubts
  <2>1. call.uncertain = FALSE /\ report.unconfirmed = FALSE
    BY DEF Tyan!Init, Tyan!NoCall, Tyan!NoReport
  <2> QED
    BY <2>1, Zenon DEF TyanDoubts
<1> QED
  BY <1>1, <1>2, <1>3

\* A console that is not open, or no longer, has no stream to keep alive.
LEMMA TyanTypedStep == TyanTyped /\ Tyan!Next => TyanTyped'
<1> SUFFICES ASSUME TyanTyped, Tyan!Next PROVE TyanTyped'
  OBVIOUS
<1> USE BoundsAssumption DEF TyanTyped, TyanNames, Tyan!NoCall, Tyan!NoReport, Tyan!Return, Tyan!Begin, Tyan!counts,
        Tyan!session, Tyan!reading
<1>1. CASE Tyan!Preflight
  BY <1>1 DEF Tyan!Preflight
<1>2. CASE Tyan!Start
  <2>1. PICK fate \in Tyan!Fates :
           /\ active' = (fate = "ok")
           /\ \/ fate = "ok" /\ Tyan!Return("idle", "opened", FALSE)
              \/ fate # "ok" /\ ~Tyan!may_have_executed(fate) /\ Tyan!Return("none", "start", FALSE)
              \/ fate # "ok" /\ Tyan!may_have_executed(fate) /\ pc' = "stop" /\ UNCHANGED <<call, report>>
    BY <1>2 DEF Tyan!Start
  <2>2. UNCHANGED <<privileged, pending, unrelated>> /\ pc = "bound"
    BY <1>2 DEF Tyan!Start
  <2>3. CASE fate = "ok"
    BY <2>1, <2>2, <2>3
  <2>4. CASE fate # "ok"
    <3>1. ~active' /\ (Tyan!Return("none", "start", FALSE) \/ (pc' = "stop" /\ UNCHANGED <<call, report>>))
      BY <2>1, <2>4
    <3> QED
      BY <2>2, <3>1
  <2> QED
    BY <2>3, <2>4
<1>3. CASE Tyan!Stop
  <2>1. PICK fate \in IF privileged THEN Tyan!Fates ELSE {"unsent"} :
           CASE call.name = "open" -> Tyan!Return("none", "start", fate # "ok")
             [] call.name = "close" ->
                  Tyan!Return("none", IF fate # "ok" \/ pending > 0 THEN "interrupted" ELSE "closed", fate # "ok")
             [] call.name = "drop" -> Tyan!Return("none", "none", FALSE)
             [] OTHER -> Tyan!Return("ended", "interrupted", fate # "ok")
    BY <1>3, Zenon DEF Tyan!Stop
  <2>2. /\ pc' \in {"none", "ended"} /\ call' = Tyan!NoCall
        /\ report' = [kind |-> report'.kind, unconfirmed |-> report'.unconfirmed]
        /\ report'.kind \in {"none", "start", "interrupted", "closed"}
    <3>1. CASE call.name = "open"
      BY <2>1, <3>1
    <3>2. CASE call.name = "close"
      BY <2>1, <3>2
    <3>3. CASE call.name = "drop"
      BY <2>1, <3>3
    <3>4. CASE call.name \notin {"open", "close", "drop"}
      BY <2>1, <3>4
    <3> QED
      BY <3>1, <3>2, <3>3, <3>4
  <2>3. pending' = 0 /\ UNCHANGED <<active, privileged, unrelated>> /\ ~active
    BY <1>3 DEF Tyan!Stop, Tyan!TakePending
  <2> QED
    BY <2>2, <2>3
<1>4. CASE Tyan!Close \/ Tyan!Release \/ Tyan!BeginRead
  BY <1>4 DEF Tyan!Close, Tyan!Release, Tyan!BeginRead
<1>5. CASE Tyan!ReadWhatIsPending \/ Tyan!Datagram
  BY <1>5 DEF Tyan!ReadWhatIsPending, Tyan!Datagram
<1>6. CASE Tyan!Keystroke
  <2>1. PICK fate \in Tyan!Fates :
        IF fate = "ok"
        THEN Tyan!Return("idle", "sent", FALSE) /\ UNCHANGED active
        ELSE Tyan!EndSession(Tyan!may_have_executed(fate)) /\ UNCHANGED report
    BY <1>6 DEF Tyan!Keystroke
  <2>2. UNCHANGED <<privileged, unrelated, pending>>
    BY <1>6 DEF Tyan!Keystroke
  <2>3. CASE fate = "ok"
    BY <1>6, <2>1, <2>2, <2>3 DEF Tyan!Keystroke
  <2>4. CASE fate # "ok"
    BY <2>1, <2>2, <2>4 DEF Tyan!EndSession
  <2> QED
    BY <2>3, <2>4
<1>7. CASE Tyan!ReadGoesOn \/ Tyan!Keepalive \/ Tyan!Waits \/ Tyan!ReadFails
  BY <1>7 DEF Tyan!ReadGoesOn, Tyan!Keepalive, Tyan!Waits, Tyan!ReadFails, Tyan!EndSession, Tyan!GoOn
<1>8. CASE Tyan!OtherDatagram
  BY <1>8 DEF Tyan!OtherDatagram, Tyan!EndSession
<1>9. CASE Tyan!BeginInput
  BY <1>9 DEF Tyan!BeginInput
<1>10. CASE Tyan!Outside
  BY <1>10 DEF Tyan!Outside, Tyan!Cancel, Tyan!KeepaliveDue, Tyan!BmcGivesUp
<1> QED
  BY <1>1, <1>2, <1>3, <1>4, <1>5, <1>6, <1>7, <1>8, <1>9, <1>10 DEF Tyan!Next, Tyan!Step

\* The flags are flags.
LEMMA TyanFlagsStep == TyanFlags /\ Tyan!Next => TyanFlags'
<1> SUFFICES ASSUME TyanFlags, Tyan!Next PROVE TyanFlags'
  OBVIOUS
<1> USE DEF TyanFlags, Tyan!session
<1>1. CASE Tyan!Preflight
  BY <1>1, Zenon DEF Tyan!Preflight
<1>2. CASE Tyan!Start
  <2>1. PICK fate \in Tyan!Fates : streaming' = (fate \in Tyan!Executes) /\ active' = (fate = "ok")
    BY <1>2, Zenon DEF Tyan!Start
  <2>2. (fate \in Tyan!Executes) \in BOOLEAN /\ (fate = "ok") \in BOOLEAN
    OBVIOUS
  <2> QED
    BY <1>2, <2>1, <2>2, Zenon DEF Tyan!Start
<1>3. CASE Tyan!Stop
  <2>1. PICK fate : streaming' = IF fate \in Tyan!Executes THEN FALSE ELSE streaming
    BY <1>3, Zenon DEF Tyan!Stop, Tyan!StreamAfter
  <2> QED
    BY <1>3, <2>1, Zenon DEF Tyan!Stop
<1>4. CASE Tyan!Close \/ Tyan!Release \/ Tyan!BeginRead
  BY <1>4, Zenon DEF Tyan!Close, Tyan!Release, Tyan!BeginRead
<1>5. CASE Tyan!ReadWhatIsPending \/ Tyan!Datagram
  BY <1>5, Zenon DEF Tyan!ReadWhatIsPending, Tyan!Datagram
<1>6. CASE Tyan!Keystroke
  BY <1>6, Zenon DEF Tyan!Keystroke, Tyan!EndSession
<1>7. CASE Tyan!ReadGoesOn \/ Tyan!Keepalive \/ Tyan!Waits \/ Tyan!ReadFails \/ Tyan!OtherDatagram
  BY <1>7, Zenon DEF Tyan!ReadGoesOn, Tyan!Keepalive, Tyan!Waits, Tyan!ReadFails, Tyan!OtherDatagram, Tyan!EndSession
<1>8. CASE Tyan!BeginInput
  BY <1>8, Zenon DEF Tyan!BeginInput
<1>9. CASE Tyan!Outside
  BY <1>9, Zenon DEF Tyan!Outside, Tyan!Cancel, Tyan!KeepaliveDue, Tyan!BmcGivesUp
<1> QED
  BY <1>1, <1>2, <1>3, <1>4, <1>5, <1>6, <1>7, <1>8, <1>9, Zenon DEF Tyan!Next, Tyan!Step

\* What a call or a report says of doubt is a yes or a no.
LEMMA TyanDoubtsStep == TyanTyped /\ TyanDoubts /\ Tyan!Next => TyanDoubts'
<1> SUFFICES ASSUME TyanTyped, TyanDoubts, Tyan!Next PROVE TyanDoubts'
  OBVIOUS
<1>1. ASSUME NEW at, NEW kind, NEW doubt \in BOOLEAN, Tyan!Return(at, kind, doubt) PROVE TyanDoubts'
  <2>1. call'.uncertain = FALSE /\ report'.unconfirmed = doubt
    BY <1>1 DEF Tyan!Return, Tyan!NoCall
  <2> QED
    BY <2>1, Zenon DEF TyanDoubts
<1>2. ASSUME NEW at, NEW name, NEW size, Tyan!Begin(at, name, size) PROVE TyanDoubts'
  <2>1. call'.uncertain = FALSE /\ report'.unconfirmed = FALSE
    BY <1>2 DEF Tyan!Begin, Tyan!NoReport
  <2> QED
    BY <2>1, Zenon DEF TyanDoubts
<1>3. ASSUME NEW doubt \in BOOLEAN, Tyan!EndSession(doubt), report' = report PROVE TyanDoubts'
  <2>1. call'.uncertain = doubt
    BY <1>3 DEF Tyan!EndSession, TyanTyped
  <2> QED
    BY <1>3, <2>1, Zenon DEF TyanDoubts
<1>4. CASE UNCHANGED <<call, report>>
  BY <1>4 DEF TyanDoubts
<1>5. \A fate : Tyan!may_have_executed(fate) \in BOOLEAN /\ (fate # "ok") \in BOOLEAN
  BY DEF Tyan!may_have_executed
<1>6. CASE Tyan!Preflight
  BY <1>1, <1>2, <1>6, Zenon DEF Tyan!Preflight
<1>7. CASE Tyan!Start
  BY <1>1, <1>4, <1>7, Zenon DEF Tyan!Start
<1>8. CASE Tyan!Stop
  <2>1. PICK fate :
           CASE call.name = "open" -> Tyan!Return("none", "start", fate # "ok")
             [] call.name = "close" ->
                  Tyan!Return("none", IF fate # "ok" \/ pending > 0 THEN "interrupted" ELSE "closed", fate # "ok")
             [] call.name = "drop" -> Tyan!Return("none", "none", FALSE)
             [] OTHER -> Tyan!Return("ended", "interrupted", fate # "ok")
    BY <1>8, Zenon DEF Tyan!Stop
  <2>2. \E at, kind : \E doubt \in {fate # "ok", FALSE} : Tyan!Return(at, kind, doubt)
    <3>1. CASE call.name = "open"
      BY <2>1, <3>1
    <3>2. CASE call.name = "close"
      BY <2>1, <3>2
    <3>3. CASE call.name = "drop"
      BY <2>1, <3>3
    <3>4. CASE call.name \notin {"open", "close", "drop"}
      BY <2>1, <3>4
    <3> QED
      BY <3>1, <3>2, <3>3, <3>4
  <2> QED
    BY <1>1, <1>5, <2>2, Zenon
<1>9. CASE Tyan!Close \/ Tyan!Release \/ Tyan!BeginRead
  BY <1>1, <1>2, <1>9, Zenon DEF Tyan!Close, Tyan!Release, Tyan!BeginRead
<1>10. CASE Tyan!ReadWhatIsPending \/ Tyan!Datagram
  BY <1>1, <1>4, <1>10, Zenon DEF Tyan!ReadWhatIsPending, Tyan!Datagram
<1>11. CASE Tyan!Keystroke
  BY <1>1, <1>3, <1>5, <1>11, Zenon DEF Tyan!Keystroke
<1>12. CASE Tyan!ReadGoesOn \/ Tyan!Keepalive \/ Tyan!Waits \/ Tyan!ReadFails \/ Tyan!OtherDatagram
  BY <1>3, <1>4, <1>12, Zenon DEF Tyan!ReadGoesOn, Tyan!Keepalive, Tyan!Waits, Tyan!ReadFails, Tyan!OtherDatagram
<1>13. CASE Tyan!BeginInput
  <2>1. CASE cancelled
    <3>1. call'.uncertain = FALSE /\ report'.unconfirmed = FALSE
      BY <1>13, <2>1 DEF Tyan!BeginInput, Tyan!NoCall, Tyan!NoReport
    <3> QED
      BY <3>1, Zenon DEF TyanDoubts
  <2>2. CASE ~cancelled
    BY <1>2, <1>13, <2>2, Zenon DEF Tyan!BeginInput
  <2> QED
    BY <2>1, <2>2
<1>14. CASE Tyan!Outside
  BY <1>4, <1>14 DEF Tyan!Outside, Tyan!Cancel, Tyan!KeepaliveDue, Tyan!BmcGivesUp
<1> QED
  BY <1>6, <1>7, <1>8, <1>9, <1>10, <1>11, <1>12, <1>13, <1>14, Zenon DEF Tyan!Next, Tyan!Step

\* The types of TyanSol.
LEMMA TyanTypedMeans == TyanTyped /\ TyanFlags /\ TyanDoubts => Tyan!TypeOK
<1> SUFFICES ASSUME TyanTyped, TyanFlags, TyanDoubts PROVE Tyan!TypeOK
  OBVIOUS
<1> DEFINE Calls == [name : TyanNames, size : 0..MaxOutput, uncertain : BOOLEAN]
           Reports == [kind : {"none", "failed", "start", "opened", "read", "sent", "interrupted", "closed"}, unconfirmed : BOOLEAN]
<1>1. call \in Calls
  <2>1. ASSUME NEW name \in TyanNames, NEW size \in 0..MaxOutput, NEW doubt \in BOOLEAN
        PROVE  [name |-> name, size |-> size, uncertain |-> doubt] \in Calls
    BY <2>1, Zenon
  <2>2. /\ call = [name |-> call.name, size |-> call.size, uncertain |-> call.uncertain]
        /\ call.name \in TyanNames /\ call.size \in 0..MaxOutput /\ call.uncertain \in BOOLEAN
    BY Zenon DEF TyanTyped, TyanDoubts
  <2> HIDE DEF Calls
  <2> QED
    BY <2>1, <2>2, Zenon
<1>2. report \in Reports
  <2>1. ASSUME NEW kind \in {"none", "failed", "start", "opened", "read", "sent", "interrupted", "closed"}, NEW doubt \in BOOLEAN
        PROVE  [kind |-> kind, unconfirmed |-> doubt] \in Reports
    BY <2>1, Zenon
  <2>2. /\ report = [kind |-> report.kind, unconfirmed |-> report.unconfirmed]
        /\ report.kind \in {"none", "failed", "start", "opened", "read", "sent", "interrupted", "closed"}
        /\ report.unconfirmed \in BOOLEAN
    BY Zenon DEF TyanTyped, TyanDoubts
  <2> HIDE DEF Reports
  <2> QED
    BY <2>1, <2>2, Zenon
<1>3. {active, due, privileged, cancelled, streaming} \subseteq BOOLEAN
  BY Zenon DEF TyanFlags
<1> QED
  BY <1>1, <1>2, <1>3, Zenon DEF TyanTyped, TyanNames, Tyan!TypeOK

-----------------------------------------------------------------------------
(* The types of the program that runs.                                     *)
ConsolesTyped ==
    /\ program = "flow" => FlowTexts /\ FlowEnds
    /\ program = "input" => InputSizes /\ InputTexts /\ InputFlags
    /\ program = "session" => OpTyped /\ SessionSizes /\ SessionFlags /\ SessionDoubts
    /\ program = "tyan" => TyanTyped /\ TyanFlags /\ TyanDoubts

\* The types hold first, whichever program runs.
LEMMA ConsolesTypedStart == ConsolesInit => ConsolesTyped
  BY FlowTypedStart, InputTypedStart, SessionTypedStart, TyanTypedStart DEF ConsolesInit, ConsolesTyped

\* The variables of a program change with its steps only.
LEMMA ConsolesTypedStutter == ConsolesTyped /\ UNCHANGED allVars => ConsolesTyped'
<1> SUFFICES ASSUME ConsolesTyped, UNCHANGED allVars PROVE ConsolesTyped'
  OBVIOUS
<1> USE DEF allVars, vars, flow_vars, bmc_vars, inputOwn, sessionOwn, tyanOwn
<1>1. CASE program = "flow"
  BY <1>1 DEF ConsolesTyped, FlowTexts, FlowEnds
<1>2. CASE program = "input"
  BY <1>2 DEF ConsolesTyped, InputSizes, InputTexts, InputFlags, Input!Copy
<1>3. CASE program = "session"
  BY <1>3 DEF ConsolesTyped, OpTyped, OpIsRecord, SessionSizes, SessionFlags, SessionDoubts
<1>4. CASE program = "tyan"
  BY <1>4 DEF ConsolesTyped, TyanTyped, TyanFlags, TyanDoubts
<1>5. CASE program \notin {"flow", "input", "session", "tyan"}
  BY <1>5 DEF ConsolesTyped
<1> QED
  BY <1>1, <1>2, <1>3, <1>4, <1>5

\* Every step keeps the types.
LEMMA ConsolesTypedStep == ConsolesInv /\ ConsolesTyped /\ [ConsolesNext]_allVars => ConsolesTyped'
<1> SUFFICES ASSUME ConsolesInv, ConsolesTyped, [ConsolesNext]_allVars PROVE ConsolesTyped'
  OBVIOUS
<1>1. CASE RunFlow
  BY <1>1, FlowTypedStep DEF RunFlow, ConsolesInv, ConsolesTyped
<1>2. CASE RunInput
  BY <1>2, InputSizesStep, TextsTyped, InputFlagsStep DEF RunInput, ConsolesInv, ConsolesTyped
<1>3. CASE RunSession
  BY <1>3, OpTypedStep, SessionSizesStep, SessionFlagsStep, SessionDoubtsStep DEF RunSession, ConsolesInv, ConsolesTyped
<1>4. CASE RunTyan
  BY <1>4, TyanTypedStep, TyanFlagsStep, TyanDoubtsStep DEF RunTyan, ConsolesTyped
<1>5. CASE UNCHANGED allVars
  BY <1>5, ConsolesTypedStutter
<1> QED
  BY <1>1, <1>2, <1>3, <1>4, <1>5 DEF ConsolesNext

\* What they give.
LEMMA ConsolesTypedMeans == ConsolesInv /\ ConsolesTyped => ConsolesTypeOK
  BY FlowTypedMeans, InputTypedMeans, SessionTypedMeans, TyanTypedMeans DEF ConsolesInv, ConsolesTyped, ConsolesTypeOK

\* In every reachable state of every console.
THEOREM ConsolesInvariant == ConsolesSpec => []ConsolesInv
  BY ConsolesStart, ConsolesStep, PTL DEF ConsolesSpec

\* The variables of every console keep to their types: no more input than was
\* given, no packet beyond what was printed, no attempt too many.
THEOREM ConsolesAreTyped == ConsolesSpec => []ConsolesTypeOK
<1>1. ConsolesSpec => []ConsolesTyped
  BY ConsolesTypedStart, ConsolesTypedStep, ConsolesInvariant, PTL DEF ConsolesSpec
<1> QED
  BY <1>1, ConsolesTypedMeans, ConsolesInvariant, PTL

\* Output the BMC counts as taken reaches the caller or is still queued, on
\* every path out of every operation of the SOL and Tyan consoles.
THEOREM OutputIsKept == ConsolesSpec => []OutputKept
<1>1. ConsolesInv => OutputKept
  BY FlowSafe, SessionSafe DEF ConsolesInv, OutputKept, TyanInv
<1> QED
  BY <1>1, ConsolesInvariant, PTL

\* accept() takes nothing an honest BMC sends, repeats or loses for conflicting
\* data or a gap.
THEOREM HonestIsAccepted == ConsolesSpec => []HonestNotRefused
<1>1. ConsolesInit => HonestNotRefused
  BY DEF ConsolesInit, Init, HonestNotRefused
<1>2. ConsolesInv /\ HonestNotRefused /\ [ConsolesNext]_allVars => HonestNotRefused'
  <2> SUFFICES ASSUME ConsolesInv, HonestNotRefused, [ConsolesNext]_allVars PROVE HonestNotRefused'
    OBVIOUS
  <2>1. CASE RunFlow
    <3>1. FlowInv'
      BY <2>1, FlowStep DEF RunFlow, ConsolesInv
    <3> QED
      BY <3>1 DEF FlowInv, HonestNotRefused
  <2>2. CASE UNCHANGED <<stopped, overrun>>
    BY <2>2 DEF HonestNotRefused
  <2>3. UNCHANGED <<stopped, overrun>> \/ RunFlow
    BY DEF ConsolesNext, RunInput, RunSession, RunTyan, flowOwn, bmc_vars, allVars, vars
  <2> QED
    BY <2>1, <2>2, <2>3
<1> QED
  BY <1>1, <1>2, ConsolesInvariant, PTL DEF ConsolesSpec

\* The BMC takes the input once and in order, although send_input() repeats its
\* packets and any datagram may be lost or delayed.
THEOREM InputIsInOrder == ConsolesSpec => []InputInOrder
<1>1. ConsolesInv => InputInOrder
  BY InputSafe DEF ConsolesInv, InputInOrder
<1> QED
  BY <1>1, ConsolesInvariant, PTL

\* What send_input(), send_control() and the Tyan send_input() report is exact,
\* the partial count of an interrupted call included.
THEOREM ReportIsExact == ConsolesSpec => []ReportExact
<1>1. ConsolesInv => ReportExact
  BY InputSafe DEF ConsolesInv, ReportExact, TyanInv
<1> QED
  BY <1>1, ConsolesInvariant, PTL

\* A close or an interruption that leaves out remote_close_unconfirmed leaves no
\* active payload or stream.
THEOREM CloseIsTruthful == ConsolesSpec => []CloseTruthful
<1>1. ConsolesInv => CloseTruthful
  BY SessionSafe DEF ConsolesInv, CloseTruthful, TyanInv
<1> QED
  BY <1>1, ConsolesInvariant, PTL

\* No sequence of opens, reads, reconnections, closes and drops leaves a payload
\* active without having said so.
THEOREM OrphansAreTold == ConsolesSpec => []OrphansTold
<1>1. ConsolesInv => OrphansTold
  BY SessionSafe DEF ConsolesInv, OrphansTold
<1> QED
  BY <1>1, ConsolesInvariant, PTL

\* The SOL console implements ConsoleStream, beside the other consoles too: its
\* reader sees arrivals in order, reads and one interruption, and nothing else.
THEOREM ConsolesImplementStream == ConsolesSpec => ImplementsStream
<1>1. ConsolesInit => Stream!StreamInit
  BY DEF ConsolesInit, Init, Stream!StreamInit
<1>2. ConsolesInv /\ [ConsolesNext]_allVars => [Stream!StreamNext]_Stream!stream_vars
  <2> SUFFICES ASSUME ConsolesInv, [ConsolesNext]_allVars PROVE Stream!StreamNext \/ UNCHANGED Stream!stream_vars
    OBVIOUS
  <2>1. CASE RunFlow
    BY <2>1, FlowStep DEF RunFlow, ConsolesInv, ForReader, Stream!stream_vars
  <2>2. UNCHANGED <<output, delivered, stopped>> \/ RunFlow
    BY DEF ConsolesNext, RunInput, RunSession, RunTyan, flowOwn, flow_vars, allVars, vars
  <2>3. CASE UNCHANGED <<output, delivered, stopped>>
    BY <2>3 DEF Stream!stream_vars
  <2> QED
    BY <2>1, <2>2, <2>3
<1> QED
  BY <1>1, <1>2, ConsolesInvariant, PTL DEF ConsolesSpec, ImplementsStream, Stream!StreamSpec
=============================================================================
