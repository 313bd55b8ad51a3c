-------------------------- MODULE IpmbState_proofs --------------------------
(***************************************************************************)
(* Proofs about IpmbState, for any ring size, any set of requests and any  *)
(* depth of nesting.                                                       *)
(*                                                                         *)
(* The argument.  A reply that correlates with what the pending request    *)
(* expects agrees with it on the sequence number.  Everything the managed  *)
(* side can answer was issued in this session, and a number is issued only *)
(* once (SequencesNeverReused), so the two replies are the same one; what  *)
(* the pending request expects was issued for it, so the reply is its own. *)
(***************************************************************************)
EXTENDS IpmbState, SequenceTheorems, FiniteSetTheorems, TLAPS

(***************************************************************************)
(* The inductive invariant.                                                *)
(***************************************************************************)
Expected(p) ==
    ({p.final_reply, p.poll} \cup {p.send_acks[h] : h \in {0, 1}}) \ {NoReply}

RetiredAreIssued ==
    \A n \in 0..(NSeq - 1) :
        n \in retired_sequences <=> \E r \in issued : r.sequence = n

PendingIsCurrent ==
    pending # NoPending =>
        /\ \A r \in Expected(pending) : r \in issued /\ r.op = op
        /\ pending.deferred \in {NoReply, pending.final_reply}

AcksAreHeard ==
    /\ \A r \in issued : r.op <= op
    /\ pending # NoPending =>
          /\ \A h \in {0, 1} :
                pending.send_acks[h] # NoReply /\ pending.acked[h] =>
                    pending.send_acks[h] \in heard
          /\ \A r \in issued :
                r.op = op /\ r.cmd = "SendMessage" =>
                    r \in {pending.final_reply, pending.send_acks[0],
                           pending.send_acks[1]}

AckCommands ==
    pending # NoPending =>
        \A h \in {0, 1} : pending.send_acks[h] # NoReply =>
            pending.send_acks[h].cmd = "SendMessage"

SequenceInv ==
    /\ TypeOK
    /\ AckCommands
    /\ RetiredAreIssued
    /\ SequencesNeverReused
    /\ PendingIsCurrent
    /\ AcksAreHeard
    /\ OnlyCurrentReplies
    /\ DeliveredAfterAllAcks

(***************************************************************************)
(* Arithmetic of the ring and the shape of a datagram.                     *)
(***************************************************************************)
LEMMA RingWrap ==
    ASSUME NEW N \in Nat \ {0}, NEW x \in 0..(2 * N - 1)
    PROVE  x % N = IF x < N THEN x ELSE x - N
  BY SMT

LEMMA AheadRange ==
    ASSUME TypeOK, NEW i \in 0..NSeq
    PROVE  /\ Ahead(i) \in 0..(NSeq - 1)
           /\ Ahead(i) = IF ipmb_sequence + i < NSeq THEN ipmb_sequence + i
                         ELSE ipmb_sequence + i - NSeq
  <1>1. NSeq \in Nat \ {0} /\ ipmb_sequence \in 0..(NSeq - 1)
    BY ConstantsAssumption DEF TypeOK
  <1>2. PICK x \in 0..(2 * NSeq - 1) : x = ipmb_sequence + i
    BY <1>1
  <1>3. x % NSeq = IF x < NSeq THEN x ELSE x - NSeq
    BY <1>1, RingWrap
  <1> QED
    BY <1>1, <1>2, <1>3 DEF Ahead

\* Two different numbers of one stretch of the ring differ.
LEMMA AheadDiffer ==
    ASSUME TypeOK, NEW n \in 0..NSeq,
           NEW i \in 0..(n - 1), NEW j \in 0..(n - 1), i # j
    PROVE  Ahead(i) # Ahead(j)
  <1>1. NSeq \in Nat \ {0} /\ ipmb_sequence \in 0..(NSeq - 1)
    BY ConstantsAssumption DEF TypeOK
  <1>2. i \in 0..NSeq /\ j \in 0..NSeq
    BY <1>1
  <1> QED
    BY <1>1, <1>2, AheadRange

\* Every well-formed reply in a datagram was issued.
LEMMA DatagramLayers ==
    ASSUME TypeOK, NEW d \in Datagrams
    PROVE  /\ Len(d) \in Nat \ {0}
           /\ \A i \in 1..Len(d) : d[i].kind = "reply" => d[i].reply \in issued
           /\ \A k \in 1..Len(d) :
                 SubSeq(d, k + 1, Len(d)) = <<>> <=> k = Len(d)
  <1>0. PICK n \in 0..(MaxLayers - 1) :
            d \in {Append(c, l) : c \in [1..n -> Carriers], l \in Leaves}
    BY DEF Datagrams
  <1>1. PICK c \in [1..n -> Carriers], l \in Leaves : d = Append(c, l)
    BY <1>0
  <1>2. n \in Nat
    BY <1>0, ConstantsAssumption
  <1>3. c \in Seq(Carriers) /\ Len(c) = n
    BY <1>2
  <1>4. d \in Seq(Carriers \cup Leaves)
    <2>1. c \in Seq(Carriers \cup Leaves)
      BY <1>2
    <2> QED
      BY <1>1, <2>1
  <1>5. /\ Len(d) = n + 1
        /\ \A i \in 1..Len(d) : d[i] \in Carriers \cup Leaves
    BY <1>1, <1>3, <1>4
  <1>6. \A x \in Carriers \cup Leaves : x.kind = "reply" => x.reply \in issued
    BY DEF Carriers, Leaves, ReplyLayer, Junk
  <1>7. ASSUME NEW k \in 1..Len(d)
        PROVE  SubSeq(d, k + 1, Len(d)) = <<>> <=> k = Len(d)
    BY <1>2, <1>4, <1>5
  <1> QED
    BY <1>2, <1>5, <1>6, <1>7

(***************************************************************************)
(* The walk of receive_nested() through a datagram.  After n layers:       *)
(***************************************************************************)
WalkOK(s, d, n) ==
    /\ s \in Walk
    /\ s.out = "descend" => n < Len(d) /\ n <= 3
    /\ s.p.final_reply = pending.final_reply
    /\ s.p.send_acks = pending.send_acks
    /\ s.p.poll \in {NoReply, pending.poll}
    /\ s.p.deferred \in {NoReply, pending.final_reply}
    /\ \A r \in s.opened : r.op = op
    /\ \A h \in {0, 1} :
          s.p.send_acks[h] # NoReply /\ s.p.acked[h] =>
              s.p.send_acks[h] \in heard \cup AcksIn(d)
    /\ IF s.out = "response" THEN s.response = pending.final_reply /\ AllAcked(s.p)
       ELSE s.response = NoReply

\* A layer that correlates with an expected reply is that reply.
LEMMA OwnReply ==
    ASSUME SequenceInv, pending # NoPending, NEW e \in Expected(pending),
           NEW layer, layer.kind = "reply" => layer.reply \in issued,
           Correlates(layer, e)
    PROVE  /\ layer.kind = "reply"
           /\ layer.reply = e
           /\ e \in issued
           /\ e \in ExpectedReply
           /\ e.op = op
  BY DEF SequenceInv, PendingIsCurrent, SequencesNeverReused, TypeOK,
         Correlates, SameReply

LEMMA WalkPoll ==
    ASSUME SequenceInv, pending # NoPending, NEW d \in Datagrams,
           NEW k \in 1..Len(d), k <= 3, NEW s, WalkOK(s, d, k - 1),
           s.out = "descend", Correlates(d[k], s.p.poll)
    PROVE  WalkOK(OpenPoll(s, d[k], SubSeq(d, k + 1, Len(d))), d, k)
  <1> DEFINE layer == d[k]
             rest == SubSeq(d, k + 1, Len(d))
             taken == Open([s EXCEPT !.p.poll = NoReply], layer)
             empty == [taken EXCEPT !.p.queue_available = FALSE]
  <1>1. s.p.poll \in Expected(pending)
    BY DEF WalkOK, Correlates, Expected
  <1>2. TypeOK
    BY DEF SequenceInv
  <1>3. /\ layer.reply \in ExpectedReply
        /\ layer.reply.op = op
    BY <1>1, <1>2, OwnReply, DatagramLayers
  <1>4. Len(d) \in Nat \ {0} /\ (rest = <<>> <=> k = Len(d))
    BY <1>2, DatagramLayers
  <1> HIDE DEF layer, rest
  <1>5. \A out \in {"none", "mismatch", "fatal"} :
            /\ WalkOK(Stop(taken, out), d, k)
            /\ WalkOK(Stop(empty, out), d, k)
    BY <1>3, <1>4, ZenonT(30) DEF WalkOK, Walk, PendingRequest, MaybeReply, Stop, Open, AllAcked
  <1>6. WalkOK(OpenQueued(empty, layer, rest), d, k)
    <2>1. rest # <<>> => WalkOK(Stop(empty, "descend"), d, k)
      BY <1>3, <1>4 DEF WalkOK, Walk, PendingRequest, MaybeReply, Stop, Open, AllAcked
    <2> QED
      BY <1>5, <2>1 DEF OpenQueued
  <1>7. WalkOK(Stop([taken EXCEPT !.p.queue_available = (layer.first % 2 = 1)], "none"), d, k)
    BY <1>3, <1>4 DEF WalkOK, Walk, PendingRequest, MaybeReply, Stop, Open, AllAcked
  <1>8. WalkOK(Stop([taken EXCEPT !.supported = FALSE], "none"), d, k)
    BY <1>3, <1>4 DEF WalkOK, Walk, PendingRequest, MaybeReply, Stop, Open, AllAcked
  <1> HIDE DEF taken, empty
  <1>9. WalkOK(OpenPoll(s, layer, rest), d, k)
    BY <1>5, <1>6, <1>7, <1>8 DEF OpenPoll, taken, empty
  <1> QED
    BY <1>9 DEF layer, rest

LEMMA WalkAck ==
    ASSUME SequenceInv, pending # NoPending, NEW d \in Datagrams,
           NEW k \in 1..Len(d), k <= 3, NEW s, WalkOK(s, d, k - 1),
           s.out = "descend", NEW h \in {0, 1},
           Correlates(d[k], s.p.send_acks[h])
    PROVE  WalkOK(OpenAck(s, d[k], SubSeq(d, k + 1, Len(d)), h), d, k)
  <1> DEFINE layer == d[k]
             rest == SubSeq(d, k + 1, Len(d))
             acked == Open([s EXCEPT !.p.acked[h] = TRUE], layer)
  <1>1. TypeOK
    BY DEF SequenceInv
  <1>2. s.p.send_acks[h] \in Expected(pending)
    BY DEF WalkOK, Correlates, Expected
  <1>3. /\ layer.kind = "reply"
        /\ layer.reply = s.p.send_acks[h]
        /\ layer.reply \in ExpectedReply
        /\ layer.reply.op = op
    BY <1>1, <1>2, OwnReply, DatagramLayers
  <1>4. Len(d) \in Nat \ {0} /\ (rest = <<>> <=> k = Len(d))
    BY <1>1, DatagramLayers
  <1>5. layer.cc = "ok" => layer.reply \in AcksIn(d)
    <2>1. layer.reply.cmd = "SendMessage"
      <3>1. pending.send_acks[h] = s.p.send_acks[h]
        BY DEF WalkOK
      <3> QED
        BY <1>3, <3>1, ConstantsAssumption DEF SequenceInv, AckCommands
    <2>2. k \in DOMAIN d
      BY <1>1, <1>4, DatagramLayers
    <2> QED
      BY <1>3, <2>1, <2>2 DEF AcksIn
  <1> HIDE DEF layer, rest
  <1>6. WalkOK(Stop(s, "mismatch"), d, k)
    BY DEF WalkOK, Walk, Stop, AllAcked
  <1>7. WalkOK(Stop(Open(s, layer), "fatal"), d, k)
    BY <1>3 DEF WalkOK, Walk, Stop, Open, AllAcked
  <1>8. ASSUME layer.cc = "ok"
        PROVE  /\ acked.p \in PendingRequest
               /\ rest # <<>> => WalkOK(Stop(acked, "descend"), d, k)
               /\ WalkOK(Stop(acked, "none"), d, k)
               /\ AllAcked(acked.p) /\ s.p.deferred # NoReply =>
                     WalkOK(Respond([acked EXCEPT !.p.deferred = NoReply],
                                    s.p.deferred), d, k)
    <2>1. /\ s \in Walk /\ s.p \in PendingRequest
          /\ s.p.acked \in [{0, 1} -> BOOLEAN]
          /\ s.opened \subseteq ExpectedReply
      BY DEF WalkOK, Walk, PendingRequest
    <2>2. PICK q : q = [s.p.acked EXCEPT ![h] = TRUE]
      OBVIOUS
    <2>3. /\ q \in [{0, 1} -> BOOLEAN]
          /\ q[h] = TRUE
          /\ \A g \in {0, 1} : g # h => q[g] = s.p.acked[g]
      BY <2>1, <2>2
    <2>4. acked = [s EXCEPT !.p = [s.p EXCEPT !.acked = q],
                            !.opened = s.opened \cup {layer.reply}]
      BY <2>1, <2>2 DEF Open, Walk, PendingRequest
    <2>5. /\ acked \in Walk
          /\ acked.p = [s.p EXCEPT !.acked = q]
          /\ acked.opened = s.opened \cup {layer.reply}
          /\ acked.response = s.response
          /\ acked.supported = s.supported
      <3> HIDE DEF acked
      <3>1. [s.p EXCEPT !.acked = q] \in PendingRequest
        BY <2>1, <2>3 DEF PendingRequest
      <3> QED
        BY <1>3, <2>1, <2>4, <3>1 DEF Walk
    <2>6. \A g \in {0, 1} :
             acked.p.send_acks[g] # NoReply /\ acked.p.acked[g] =>
                 acked.p.send_acks[g] \in heard \cup AcksIn(d)
      BY <1>3, <1>5, <1>8, <2>1, <2>3, <2>5 DEF WalkOK, PendingRequest
    <2>7. /\ acked.p.final_reply = pending.final_reply
          /\ acked.p.send_acks = pending.send_acks
          /\ acked.p.poll \in {NoReply, pending.poll}
          /\ acked.p.deferred = s.p.deferred
          /\ acked.p.deferred \in {NoReply, pending.final_reply}
          /\ \A r \in acked.opened : r.op = op
          /\ acked.response = NoReply
      BY <1>3, <2>1, <2>5 DEF WalkOK, PendingRequest
    <2> HIDE DEF acked
    <2>8. ASSUME NEW out \in {"descend", "none"}, out = "descend" => rest # <<>>
          PROVE  WalkOK(Stop(acked, out), d, k)
      <3> DEFINE t == Stop(acked, out)
      <3>1. /\ t \in Walk
            /\ t.p = acked.p
            /\ t.out = out
            /\ t.opened = acked.opened
            /\ t.response = acked.response
        BY <2>5 DEF Stop, Walk
      <3> HIDE DEF t
      <3>2. out = "descend" => k < Len(d)
        BY <1>4, <2>8
      <3>3. WalkOK(t, d, k)
        BY <2>6, <2>7, <2>8, <3>1, <3>2 DEF WalkOK
      <3> QED
        BY <3>3 DEF t
    <2>9. ASSUME AllAcked(acked.p), s.p.deferred # NoReply
          PROVE  WalkOK(Respond([acked EXCEPT !.p.deferred = NoReply],
                                s.p.deferred), d, k)
      <3> DEFINE held == [acked.p EXCEPT !.deferred = NoReply]
                 t == Respond([acked EXCEPT !.p.deferred = NoReply], s.p.deferred)
      <3>1. /\ held \in PendingRequest
            /\ held.final_reply = acked.p.final_reply
            /\ held.send_acks = acked.p.send_acks
            /\ held.acked = acked.p.acked
            /\ held.poll = acked.p.poll
            /\ held.deferred = NoReply
        <4>1. acked.p \in PendingRequest
          BY <2>5 DEF Walk
        <4> QED
          BY <4>1 DEF PendingRequest, MaybeReply
      <3>2. t = [acked EXCEPT !.p = held, !.out = "response", !.response = s.p.deferred]
        BY <2>5 DEF Respond, Walk
      <3>3. s.p.deferred = pending.final_reply /\ s.p.deferred \in MaybeReply
        BY <2>5, <2>7, <2>9 DEF Walk, PendingRequest
      <3> HIDE DEF held
      <3>4. /\ t \in Walk
            /\ t.p = held
            /\ t.out = "response"
            /\ t.opened = acked.opened
            /\ t.response = pending.final_reply
        <4> HIDE DEF t
        <4> QED
          BY <2>5, <3>1, <3>2, <3>3 DEF Walk
      <3>5. AllAcked(held)
        BY <2>9, <3>1 DEF AllAcked
      <3> HIDE DEF t
      <3>6. WalkOK(t, d, k)
        BY <2>6, <2>7, <3>1, <3>4, <3>5 DEF WalkOK
      <3> QED
        BY <3>6 DEF t
    <2> QED
      BY <2>5, <2>8, <2>9 DEF Walk
  <1> HIDE DEF acked
  <1>9. WalkOK(OpenAck(s, layer, rest, h), d, k)
    BY <1>6, <1>7, <1>8 DEF OpenAck, acked
  <1> QED
    BY <1>9 DEF layer, rest

LEMMA WalkFinal ==
    ASSUME SequenceInv, pending # NoPending, NEW d \in Datagrams,
           NEW k \in 1..Len(d), k <= 3, NEW s, WalkOK(s, d, k - 1),
           s.out = "descend"
    PROVE  WalkOK(OpenFinal(s, d[k]), d, k)
  <1> DEFINE layer == d[k]
             opened == Open(s, layer)
             held == Open([s EXCEPT !.p.deferred = layer.reply], layer)
  <1>1. s.p.final_reply = pending.final_reply /\ s \in Walk /\ s.p \in PendingRequest
    BY DEF WalkOK, Walk
  <1>2. pending.final_reply \in ExpectedReply
    BY <1>1 DEF PendingRequest
  <1>3. pending.final_reply \in Expected(pending)
    BY <1>2, ConstantsAssumption DEF Expected
  <1>4. Correlates(layer, s.p.final_reply) =>
            /\ layer.reply = pending.final_reply
            /\ layer.reply.op = op
    BY <1>1, <1>3, OwnReply, DatagramLayers DEF SequenceInv
  <1> HIDE DEF layer
  <1>5. \A out \in {"mismatch", "fatal"} : WalkOK(Stop(s, out), d, k)
    BY DEF WalkOK, Walk, Stop, AllAcked
  <1>6. ASSUME Correlates(layer, s.p.final_reply)
        PROVE  /\ AllAcked(s.p) => WalkOK(Respond(opened, layer.reply), d, k)
               /\ WalkOK(Stop(held, "none"), d, k)
    <2>1. AllAcked(s.p) => WalkOK(Respond(opened, layer.reply), d, k)
      BY <1>1, <1>2, <1>4, <1>6
         DEF WalkOK, Walk, MaybeReply, Respond, Open, AllAcked
    <2>2. WalkOK(Stop(held, "none"), d, k)
      BY <1>1, <1>2, <1>4, <1>6
         DEF WalkOK, Walk, PendingRequest, MaybeReply, Stop, Open, AllAcked
    <2> QED
      BY <2>1, <2>2
  <1> HIDE DEF opened, held
  <1>7. WalkOK(OpenFinal(s, layer), d, k)
    <2>1. CASE Correlates(layer, s.p.final_reply)
      BY <1>5, <1>6, <2>1 DEF OpenFinal, opened, held, Correlates
    <2>2. CASE ~ Correlates(layer, s.p.final_reply)
      BY <1>5, <2>2 DEF OpenFinal
    <2> QED
      BY <2>1, <2>2
  <1> QED
    BY <1>7 DEF layer

\* One layer, and then the whole datagram.
LEMMA WalkLayer ==
    ASSUME SequenceInv, pending # NoPending, NEW d \in Datagrams,
           NEW depth \in 0..3, NEW s, WalkOK(s, d, depth)
    PROVE  WalkOK(Descend(s, d, depth), d, depth + 1)
  <1>1. CASE s.out # "descend"
    BY <1>1 DEF Descend, WalkOK
  <1>2. CASE s.out = "descend"
    <2>1. depth + 1 \in 1..Len(d) /\ depth + 2 = (depth + 1) + 1
      BY <1>2, DatagramLayers DEF WalkOK, SequenceInv
    <2>2. WalkOK(Stop(s, "mismatch"), d, depth + 1)
      BY <1>2 DEF WalkOK, Walk, Stop, AllAcked
    <2>3. ASSUME depth <= 2
          PROVE  /\ Correlates(d[depth + 1], s.p.poll) =>
                      WalkOK(OpenPoll(s, d[depth + 1], SubSeq(d, depth + 2, Len(d))),
                             d, depth + 1)
                 /\ \A h \in {0, 1} : Correlates(d[depth + 1], s.p.send_acks[h]) =>
                      WalkOK(OpenAck(s, d[depth + 1], SubSeq(d, depth + 2, Len(d)), h),
                             d, depth + 1)
                 /\ WalkOK(OpenFinal(s, d[depth + 1]), d, depth + 1)
      <3>1. depth + 1 <= 3 /\ (depth + 1) - 1 = depth
        BY <2>3
      <3> QED
        BY <1>2, <2>1, <3>1, WalkPoll, WalkAck, WalkFinal
    <2>4. WalkOK(OpenLayer(s, d, depth), d, depth + 1)
      BY <2>2, <2>3 DEF OpenLayer
    <2> QED
      BY <1>2, <2>4 DEF Descend
  <1> QED
    BY <1>1, <1>2

LEMMA WalkEnd ==
    ASSUME SequenceInv, pending # NoPending, NEW d \in Datagrams
    PROVE  /\ WalkOK(receive_nested(d), d, 4)
           /\ receive_nested(d).out # "descend"
  <1> DEFINE start == [p |-> pending, supported |-> get_message_supported,
                       out |-> "descend", opened |-> {}, response |-> NoReply]
  <1>1. WalkOK(start, d, 0)
    BY DatagramLayers
       DEF SequenceInv, TypeOK, PendingIsCurrent, AcksAreHeard, WalkOK, Walk,
           PendingRequest, MaybeReply, AllAcked
  <1> HIDE DEF start
  <1>2. WalkOK(Descend(start, d, 0), d, 1)
    BY <1>1, WalkLayer
  <1>3. WalkOK(Descend(Descend(start, d, 0), d, 1), d, 2)
    BY <1>2, WalkLayer
  <1>4. WalkOK(Descend(Descend(Descend(start, d, 0), d, 1), d, 2), d, 3)
    BY <1>3, WalkLayer
  <1>5. WalkOK(receive_nested(d), d, 4)
    BY <1>4, WalkLayer DEF receive_nested, start
  <1> QED
    BY <1>5 DEF WalkOK

(***************************************************************************)
(* Issuing new replies on unretired numbers keeps the history consistent.  *)
(***************************************************************************)
LEMMA IssueStep ==
    ASSUME SequenceInv, NEW n \in Nat, NEW rs, rs \subseteq ExpectedReply,
           Unretired(n), Issue(n, rs),
           \A r \in rs : \E i \in 0..(n - 1) : r.sequence = Ahead(i),
           \A i \in 0..(n - 1) : \E r \in rs : r.sequence = Ahead(i),
           \A r, q \in rs : r.sequence = q.sequence => r = q
    PROVE  /\ ipmb_sequence' \in 0..(NSeq - 1)
           /\ retired_sequences' \subseteq 0..(NSeq - 1)
           /\ issued' \subseteq ExpectedReply
           /\ RetiredAreIssued'
           /\ SequencesNeverReused'
  <1>1. TypeOK /\ RetiredAreIssued /\ SequencesNeverReused
    BY DEF SequenceInv
  <1>2. n \in 0..NSeq /\ \A i \in 0..(n - 1) : i \in 0..NSeq
    BY ConstantsAssumption DEF Unretired
  <1>3. \A i \in 0..(n - 1) : Ahead(i) \in 0..(NSeq - 1) \ retired_sequences
    BY <1>1, <1>2, AheadRange DEF Unretired
  <1>4. ipmb_sequence' \in 0..(NSeq - 1)
    BY <1>1, <1>2, AheadRange DEF Issue
  <1>5. retired_sequences' \subseteq 0..(NSeq - 1)
    BY <1>1, <1>3, ZenonT(30) DEF Issue, TypeOK
  <1>6. issued' \subseteq ExpectedReply
    BY <1>1 DEF Issue, TypeOK
  <1>7. RetiredAreIssued'
    BY <1>1, <1>3 DEF Issue, RetiredAreIssued
  <1>8. SequencesNeverReused'
    <2>1. \A r \in issued, q \in rs : r.sequence # q.sequence
      <3> SUFFICES ASSUME NEW r \in issued, NEW q \in rs, r.sequence = q.sequence
                   PROVE  FALSE
        OBVIOUS
      <3>1. r.sequence \in 0..(NSeq - 1)
        BY <1>1 DEF TypeOK, ExpectedReply
      <3>2. r.sequence \in retired_sequences
        BY <1>1, <3>1 DEF RetiredAreIssued
      <3> QED
        BY <1>3, <3>2
    <2> QED
      BY <1>1, <2>1 DEF Issue, SequencesNeverReused
  <1> QED
    BY <1>4, <1>5, <1>6, <1>7, <1>8

\* What begin() expects for a request it accepts.
NewReplies(req) ==
    {FinalReply(req)} \cup {SendAck(req, h) : h \in 0..(Len(Route(req)) - 1)}

LEMMA RouteShape ==
    ASSUME NEW req \in Requests
    PROVE  /\ Len(Route(req)) \in 0..2
           /\ \A i \in 1..Len(Route(req)) :
                 /\ Route(req)[i].address \in Nat
                 /\ Route(req)[i].channel \in Nat
           /\ Route(req) = <<>> <=> Len(Route(req)) = 0
           /\ req.cmd \in Commands
           /\ req.netfn \in Nat
  <1>1. req \in Request /\ req.hops \in Seq(Hop) /\ Len(req.hops) \in 0..2
    BY ConstantsAssumption DEF Request
  <1>2. Route(req) \in Seq(Hop) /\ Len(Route(req)) \in 0..2
    BY <1>1 DEF Route
  <1>3. \A i \in 1..Len(Route(req)) : Route(req)[i] \in Hop
    BY <1>2
  <1>4. Route(req) = <<>> <=> Len(Route(req)) = 0
    BY <1>2
  <1>5. \A hop \in Hop : hop.address \in Nat /\ hop.channel \in Nat
    BY DEF Hop
  <1>6. req.cmd \in Commands /\ req.netfn \in Nat
    BY <1>1 DEF Request, Commands, RequestCommands
  <1> QED
    BY <1>2, <1>3, <1>4, <1>5, <1>6

LEMMA NewRepliesShape ==
    ASSUME TypeOK, NEW req \in Requests, Unretired(Needed(req))
    PROVE  /\ Needed(req) \in 1..3
           /\ NewReplies(req) \subseteq ExpectedReply
           /\ \A r \in NewReplies(req) : \E i \in 0..(Needed(req) - 1) : r.sequence = Ahead(i)
           /\ \A i \in 0..(Needed(req) - 1) : \E r \in NewReplies(req) : r.sequence = Ahead(i)
           /\ \A r, q \in NewReplies(req) : r.sequence = q.sequence => r = q
           /\ \A r \in NewReplies(req) : r.op = op + 1
           /\ \A r \in NewReplies(req) :
                 r \in {FinalReply(req), SendAck(req, 0), SendAck(req, 1)}
           /\ NewPending(req) \in PendingRequest
           /\ Expected(NewPending(req)) \subseteq NewReplies(req)
           /\ \A h \in {0, 1} : SendAck(req, h) # NoReply =>
                 SendAck(req, h).cmd = "SendMessage"
  <1> DEFINE len == Len(Route(req))
             n == Needed(req)
             final == FinalReply(req)
             ack(h) == SendAck(req, h)
  <1>1. len \in 0..2 /\ n = len + 1 /\ n \in 1..3 /\ n \in 0..NSeq
    BY RouteShape, ConstantsAssumption DEF Needed, Unretired
  <1>2. \A i \in 0..(n - 1) : Ahead(i) \in 0..(NSeq - 1)
    <2>1. \A i \in 0..(n - 1) : i \in 0..NSeq
      BY <1>1, ConstantsAssumption
    <2> QED
      BY <2>1, AheadRange
  <1>3. \A i, j \in 0..(n - 1) : Ahead(i) = Ahead(j) => i = j
    BY <1>1, AheadDiffer
  <1>4. /\ final \in ExpectedReply
        /\ final.sequence = Ahead(len)
        /\ final.op = op + 1
    BY <1>1, <1>2, RouteShape
       DEF FinalReply, Reply, ExpectedReply, TypeOK, responder_addr, requestor_addr
  <1>5. \A h \in 0..(len - 1) :
            /\ ack(h) \in ExpectedReply
            /\ ack(h).sequence = Ahead(h)
            /\ ack(h).op = op + 1
            /\ ack(h).cmd = "SendMessage"
    BY <1>1, <1>2, RouteShape
       DEF SendAck, Reply, ExpectedReply, TypeOK, responder_addr, requestor_addr,
           Commands
  <1>6. \A h \in {0, 1} : h >= len => ack(h) = NoReply
    BY <1>1 DEF SendAck
  <1>7. NewReplies(req) = {final} \cup {ack(h) : h \in 0..(len - 1)}
    BY DEF NewReplies
  <1>8. NewPending(req) \in PendingRequest
    <2>1. (IF Route(req) = <<>> THEN 0 ELSE Route(req)[1].channel) \in Nat
      BY RouteShape
    <2>2. \A h \in {0, 1} : ack(h) \in MaybeReply
      BY <1>1, <1>5, <1>6 DEF MaybeReply
    <2> QED
      BY <1>4, <2>1, <2>2 DEF NewPending, PendingRequest, MaybeReply
  <1>9. Expected(NewPending(req)) \subseteq NewReplies(req)
    <2>1. \A h \in {0, 1} : ack(h) # NoReply => h \in 0..(len - 1)
      BY <1>1, <1>6
    <2> QED
      BY <1>7, <2>1 DEF Expected, NewPending
  <1> HIDE DEF len, n, final, ack
  <1>10. \A r, q \in NewReplies(req) : r.sequence = q.sequence => r = q
    BY <1>1, <1>3, <1>4, <1>5, <1>7
  <1>11. /\ \A r \in NewReplies(req) : \E i \in 0..(n - 1) : r.sequence = Ahead(i)
         /\ \A i \in 0..(n - 1) : \E r \in NewReplies(req) : r.sequence = Ahead(i)
    BY <1>1, <1>4, <1>5, <1>7
  <1>12. \A r \in NewReplies(req) : r \in {final, ack(0), ack(1)}
    BY <1>1, <1>7
  <1>13. \A h \in {0, 1} : ack(h) # NoReply => ack(h).cmd = "SendMessage"
    BY <1>1, <1>5, <1>6
  <1> QED
    BY <1>1, <1>4, <1>5, <1>7, <1>8, <1>9, <1>10, <1>11, <1>12, <1>13
       DEF n, final, ack

(***************************************************************************)
(* A step that issues nothing, begins nothing, leaves what the pending     *)
(* request expects alone and returns no reply keeps the invariant.         *)
(***************************************************************************)
LEMMA QuietStep ==
    ASSUME SequenceInv, TypeOK',
           UNCHANGED <<ipmb_sequence, retired_sequences, op, issued, heard>>,
           result'.opened = {}, result'.response = NoReply,
           result'.outcome # "response",
           \/ pending' = NoPending
           \/ pending' = pending
           \/ /\ pending # NoPending
              /\ pending' = [pending EXCEPT !.poll_blocked = TRUE]
    PROVE  SequenceInv'
  <1>1. /\ RetiredAreIssued'
        /\ SequencesNeverReused'
        /\ OnlyCurrentReplies'
        /\ DeliveredAfterAllAcks'
    BY DEF SequenceInv, RetiredAreIssued, SequencesNeverReused,
           OnlyCurrentReplies, DeliveredAfterAllAcks
  <1>2. PendingIsCurrent' /\ AcksAreHeard' /\ AckCommands'
    <2>1. CASE pending' = NoPending
      BY <2>1 DEF SequenceInv, PendingIsCurrent, AcksAreHeard, AckCommands
    <2>2. CASE pending' = pending
      BY <2>2 DEF SequenceInv, PendingIsCurrent, AcksAreHeard, AckCommands
    <2>3. CASE pending # NoPending /\ pending' = [pending EXCEPT !.poll_blocked = TRUE]
      <3>1. /\ pending'.final_reply = pending.final_reply
            /\ pending'.poll = pending.poll
            /\ pending'.send_acks = pending.send_acks
            /\ pending'.acked = pending.acked
            /\ pending'.deferred = pending.deferred
        BY <2>3 DEF SequenceInv, TypeOK, PendingRequest
      <3> QED
        BY <2>3, <3>1
           DEF SequenceInv, PendingIsCurrent, AcksAreHeard, AckCommands, Expected
    <2> QED
      BY <2>1, <2>2, <2>3
  <1> QED
    BY <1>1, <1>2 DEF SequenceInv

LEMMA InitInv == Init => SequenceInv
  BY ConstantsAssumption
     DEF Init, SequenceInv, TypeOK, RetiredAreIssued, SequencesNeverReused,
         PendingIsCurrent, AcksAreHeard, AckCommands, OnlyCurrentReplies,
         DeliveredAfterAllAcks, Result, Return, Outcomes, MaybeReply, NoReservation

LEMMA BeginStep ==
    ASSUME SequenceInv, NEW req \in Requests, Begin(req)
    PROVE  SequenceInv'
  <1>1. Unretired(Needed(req)) /\ pending = NoPending
        /\ reserved_sequences \notin 0..(Needed(req) - 1)
    BY DEF Begin, Refusal
  <1>2. TypeOK
    BY DEF SequenceInv
  <1>3. Issue(Needed(req), NewReplies(req))
    BY DEF Begin, NewReplies
  <1>4. /\ ipmb_sequence' \in 0..(NSeq - 1)
        /\ retired_sequences' \subseteq 0..(NSeq - 1)
        /\ issued' \subseteq ExpectedReply
        /\ RetiredAreIssued'
        /\ SequencesNeverReused'
    BY <1>1, <1>2, <1>3, NewRepliesShape, IssueStep
  <1>5. /\ pending' = NewPending(req)
        /\ issued' = issued \cup NewReplies(req)
        /\ op' = op + 1
        /\ heard' = {}
        /\ result' = Return("sent")
        /\ get_message_supported' = get_message_supported
    BY <1>3 DEF Begin, Issue
  <1>6. TypeOK'
    <2>1. reserved_sequences' \in Nat \cup {NoReservation}
      <3>1. Needed(req) \in 1..3
        BY <1>1, <1>2, NewRepliesShape
      <3> QED
        BY <1>1, <1>2, <3>1 DEF Begin, TypeOK
    <2> QED
      BY <1>1, <1>2, <1>4, <1>5, <2>1, NewRepliesShape
         DEF TypeOK, Result, Return, Outcomes, MaybeReply
  <1>7. \A r \in issued : r.op <= op
    BY DEF SequenceInv, AcksAreHeard
  <1>8. PendingIsCurrent'
    BY <1>1, <1>2, <1>5, NewRepliesShape DEF PendingIsCurrent, NewPending
  <1>9. AcksAreHeard'
    <2>1. \A r \in issued' : r.op <= op'
      BY <1>1, <1>2, <1>5, <1>7, NewRepliesShape DEF TypeOK, ExpectedReply
    <2>2. \A r \in issued' : r.op = op' => r \in NewReplies(req)
      BY <1>2, <1>5, <1>7 DEF TypeOK, ExpectedReply
    <2>3. \A r \in NewReplies(req) :
              r \in {pending'.final_reply, pending'.send_acks[0], pending'.send_acks[1]}
      BY <1>1, <1>2, <1>5, NewRepliesShape DEF NewPending
    <2>4. \A h \in {0, 1} : ~ pending'.acked[h]
      BY <1>5 DEF NewPending
    <2> QED
      BY <2>1, <2>2, <2>3, <2>4 DEF AcksAreHeard
  <1>10. AckCommands'
    BY <1>1, <1>2, <1>5, NewRepliesShape DEF AckCommands, NewPending
  <1>11. OnlyCurrentReplies' /\ DeliveredAfterAllAcks'
    BY <1>5 DEF OnlyCurrentReplies, DeliveredAfterAllAcks, Return
  <1> QED
    BY <1>4, <1>6, <1>8, <1>9, <1>10, <1>11 DEF SequenceInv

LEMMA PollStep ==
    ASSUME SequenceInv, PollMessage
    PROVE  SequenceInv'
  <1>1. /\ TypeOK
        /\ pending # NoPending
        /\ pending \in PendingRequest
        /\ Unretired(1)
        /\ Issue(1, {PollReply})
    BY DEF SequenceInv, TypeOK, PollMessage, NeedsPoll
  <1>2. PollReply \in ExpectedReply /\ PollReply.sequence = Ahead(0)
        /\ PollReply.op = op /\ PollReply.cmd # "SendMessage"
    <2>1. Ahead(0) \in 0..(NSeq - 1)
      BY <1>1, AheadRange, ConstantsAssumption
    <2> QED
      BY <1>1, <2>1 DEF PollReply, Reply, ExpectedReply, TypeOK, Commands,
                       QueueCommands, responder_addr, requestor_addr
  <1>3. /\ ipmb_sequence' \in 0..(NSeq - 1)
        /\ retired_sequences' \subseteq 0..(NSeq - 1)
        /\ issued' \subseteq ExpectedReply
        /\ RetiredAreIssued'
        /\ SequencesNeverReused'
    <2>1. \A i \in 0..(1 - 1) : i = 0
      OBVIOUS
    <2>2. /\ {PollReply} \subseteq ExpectedReply
          /\ \A r \in {PollReply} : \E i \in 0..(1 - 1) : r.sequence = Ahead(i)
          /\ \A i \in 0..(1 - 1) : \E r \in {PollReply} : r.sequence = Ahead(i)
      BY <1>2, <2>1
    <2> QED
      BY <1>1, <2>2, IssueStep
  <1>4. /\ pending' = [pending EXCEPT !.poll = PollReply]
        /\ issued' = issued \cup {PollReply}
        /\ result' = Return("sent")
        /\ UNCHANGED <<get_message_supported, reserved_sequences, op, heard>>
    BY <1>1 DEF PollMessage, Issue
  <1>5. /\ pending' \in PendingRequest
        /\ pending'.final_reply = pending.final_reply
        /\ pending'.poll = PollReply
        /\ pending'.send_acks = pending.send_acks
        /\ pending'.acked = pending.acked
        /\ pending'.deferred = pending.deferred
    BY <1>1, <1>2, <1>4 DEF PendingRequest, MaybeReply
  <1>6. TypeOK'
    BY <1>1, <1>3, <1>4, <1>5 DEF TypeOK, Result, Return, Outcomes, MaybeReply
  <1>7. PendingIsCurrent'
    BY <1>1, <1>2, <1>4, <1>5 DEF SequenceInv, PendingIsCurrent, Expected
  <1>8. AcksAreHeard' /\ AckCommands'
    BY <1>1, <1>2, <1>4, <1>5 DEF SequenceInv, TypeOK, AcksAreHeard, AckCommands
  <1>9. OnlyCurrentReplies' /\ DeliveredAfterAllAcks'
    BY <1>4 DEF OnlyCurrentReplies, DeliveredAfterAllAcks, Return
  <1> QED
    BY <1>3, <1>6, <1>7, <1>8, <1>9 DEF SequenceInv

LEMMA ReceiveStep ==
    ASSUME SequenceInv, NEW d \in Datagrams, Receive(d)
    PROVE  SequenceInv'
  <1> DEFINE end == receive_nested(d)
  <1>1. /\ pending # NoPending
        /\ pending' = IF end.out = "response" THEN NoPending ELSE end.p
        /\ get_message_supported' = end.supported
        /\ result' = [outcome |-> end.out, opened |-> end.opened,
                      response |-> end.response]
        /\ heard' = heard \cup AcksIn(d)
        /\ UNCHANGED <<ipmb_sequence, retired_sequences, reserved_sequences, op, issued>>
    BY DEF Receive
  <1>2. TypeOK /\ WalkOK(end, d, 4) /\ end.out # "descend"
    BY <1>1, WalkEnd DEF SequenceInv
  <1>3. AcksIn(d) \subseteq ExpectedReply
    BY <1>2, DatagramLayers DEF AcksIn, TypeOK
  <1> HIDE DEF end
  <1>4. TypeOK'
    BY <1>1, <1>2, <1>3 DEF TypeOK, WalkOK, Walk, Result, Outcomes
  <1>5. /\ pending.final_reply \in issued
        /\ pending.final_reply.op = op
    BY <1>1, <1>2, ConstantsAssumption
       DEF SequenceInv, TypeOK, PendingRequest, PendingIsCurrent, Expected
  <1>6. RetiredAreIssued' /\ SequencesNeverReused'
    BY <1>1 DEF SequenceInv, RetiredAreIssued, SequencesNeverReused
  <1>7. PendingIsCurrent' /\ AcksAreHeard' /\ AckCommands'
    BY <1>1, <1>2
       DEF SequenceInv, PendingIsCurrent, AcksAreHeard, AckCommands, Expected, WalkOK
  <1>8. OnlyCurrentReplies'
    BY <1>1, <1>2, <1>5 DEF OnlyCurrentReplies, WalkOK
  <1>9. DeliveredAfterAllAcks'
    BY <1>1, <1>2, ConstantsAssumption
       DEF SequenceInv, AcksAreHeard, DeliveredAfterAllAcks, WalkOK, AllAcked, TypeOK
  <1> QED
    BY <1>4, <1>6, <1>7, <1>8, <1>9 DEF SequenceInv

LEMMA NextInv ==
    ASSUME SequenceInv, [Next]_vars
    PROVE  SequenceInv'
  <1> USE DEF SequenceInv
  <1>1. ASSUME NEW minimum \in 0..NSeq, ReserveSequences(minimum)
        PROVE  SequenceInv'
    <2>1. TypeOK'
      BY <1>1, ConstantsAssumption
         DEF ReserveSequences, TypeOK, Result, Return, Outcomes, MaybeReply
    <2> QED
      BY <1>1, <2>1, QuietStep DEF ReserveSequences, Return
  <1>2. CASE ReleaseSequences
    <2>1. TypeOK'
      BY <1>2 DEF ReleaseSequences, TypeOK, Result, Return, Outcomes, MaybeReply
    <2> QED
      BY <1>2, <2>1, QuietStep DEF ReleaseSequences, Return
  <1>3. ASSUME NEW req \in Requests, BeginRefused(req)
        PROVE  SequenceInv'
    <2>1. Refusal(req) \in Outcomes \ {"response"}
      BY DEF Refusal, Outcomes, BeginErrors
    <2>2. TypeOK'
      BY <1>3, <2>1 DEF BeginRefused, TypeOK, Result, Return, MaybeReply
    <2> QED
      BY <1>3, <2>1, <2>2, QuietStep DEF BeginRefused, Return
  <1>4. ASSUME NEW req \in Requests, Begin(req)
        PROVE  SequenceInv'
    BY <1>4, BeginStep
  <1>5. CASE RetirePending
    <2>1. TypeOK'
      BY <1>5 DEF RetirePending, TypeOK, Result, Return, Outcomes, MaybeReply
    <2> QED
      BY <1>5, <2>1, QuietStep DEF RetirePending, Return
  <1>6. CASE PollMessage
    BY <1>6, PollStep
  <1>7. CASE PollBlocked
    <2>1. TypeOK'
      BY <1>7 DEF PollBlocked, NeedsPoll, TypeOK, PendingRequest,
                  Result, Return, Outcomes, MaybeReply
    <2> QED
      BY <1>7, <2>1, QuietStep DEF PollBlocked, NeedsPoll, Return
  <1>8. CASE PollExhausted
    <2>1. TypeOK'
      BY <1>8 DEF PollExhausted, TypeOK, Result, Return, Outcomes, BeginErrors, MaybeReply
    <2> QED
      BY <1>8, <2>1, QuietStep DEF PollExhausted, Return
  <1>9. ASSUME NEW d \in Datagrams, Receive(d)
        PROVE  SequenceInv'
    BY <1>9, ReceiveStep
  <1>10. CASE UNCHANGED vars
    BY <1>10 DEF vars, TypeOK, RetiredAreIssued, SequencesNeverReused,
                PendingIsCurrent, AcksAreHeard, AckCommands, Expected,
                OnlyCurrentReplies, DeliveredAfterAllAcks
  <1> QED
    BY <1>1, <1>2, <1>3, <1>4, <1>5, <1>6, <1>7, <1>8, <1>9, <1>10 DEF Next

LEMMA SequenceInvariant == Spec => []SequenceInv
  <1>1. Init => SequenceInv
    BY InitInv
  <1>2. SequenceInv /\ [Next]_vars => SequenceInv'
    BY NextInv
  <1> QED
    BY <1>1, <1>2, PTL DEF Spec

(***************************************************************************)
(* The theorems.                                                           *)
(***************************************************************************)

\* Every variable of IpmbState keeps its type.
THEOREM TypeCorrect == Spec => []TypeOK
  <1>1. SequenceInv => TypeOK
    BY DEF SequenceInv
  <1> QED
    BY <1>1, SequenceInvariant, PTL

\* No IPMB sequence number is issued twice in a session (next_reply()).
THEOREM NeverReused == Spec => []SequencesNeverReused
  <1>1. SequenceInv => SequencesNeverReused
    BY DEF SequenceInv
  <1> QED
    BY <1>1, SequenceInvariant, PTL

\* A request never takes a reply to an earlier request for its own, however
\* late, often or deeply nested it arrives (correlate(), receive_nested()).
THEOREM CurrentReplies == Spec => []OnlyCurrentReplies
  <1>1. SequenceInv => OnlyCurrentReplies
    BY DEF SequenceInv
  <1> QED
    BY <1>1, SequenceInvariant, PTL

\* A response is reported only after every Send Message hop has acknowledged
\* successfully (acked, deferred).
THEOREM AllAcksFirst == Spec => []DeliveredAfterAllAcks
  <1>1. SequenceInv => DeliveredAfterAllAcks
    BY DEF SequenceInv
  <1> QED
    BY <1>1, SequenceInvariant, PTL

(***************************************************************************)
(* The reservation.                                                        *)
(***************************************************************************)

\* After the first n of n + k free numbers are issued, k are left.
LEMMA IssueLeaves ==
    ASSUME TypeOK, NEW n \in Nat, NEW k \in Nat, NEW rs,
           Unretired(n + k), Issue(n, rs)
    PROVE  Unretired(k)'
  <1>1. NSeq \in Nat \ {0} /\ ipmb_sequence \in 0..(NSeq - 1) /\ n + k <= NSeq
    BY ConstantsAssumption DEF TypeOK, Unretired
  <1>2. ASSUME NEW i \in 0..(k - 1)
        PROVE  Ahead(i)' = Ahead(n + i) /\ n + i \in 0..(n + k - 1)
    <2>1. /\ n \in 0..NSeq
          /\ n + i \in 0..NSeq
          /\ i \in 0..NSeq
      BY <1>1
    <2>2. /\ Ahead(n + i) = IF ipmb_sequence + (n + i) < NSeq
                            THEN ipmb_sequence + (n + i)
                            ELSE ipmb_sequence + (n + i) - NSeq
          /\ ipmb_sequence' = IF ipmb_sequence + n < NSeq THEN ipmb_sequence + n
                              ELSE ipmb_sequence + n - NSeq
      BY <2>1, AheadRange DEF Issue
    <2>3. PICK x \in 0..(2 * NSeq - 1) : x = ipmb_sequence' + i
      <3>1. PICK y \in 0..(NSeq - 1) : y = ipmb_sequence'
        BY <2>1, AheadRange DEF Issue
      <3>2. y + i \in 0..(2 * NSeq - 1)
        BY <1>1
      <3> QED
        BY <3>1, <3>2
    <2>4. x % NSeq = IF x < NSeq THEN x ELSE x - NSeq
      BY <1>1, RingWrap
    <2>5. Ahead(i)' = x % NSeq
      BY <2>3 DEF Ahead
    <2> QED
      BY <1>1, <2>1, <2>2, <2>3, <2>4, <2>5
  <1>3. ASSUME NEW i \in 0..(k - 1)
        PROVE  Ahead(i)' \notin retired_sequences'
    <2>1. Ahead(n + i) \notin retired_sequences
      BY <1>2 DEF Unretired
    <2>2. \A j \in 0..(n - 1) : Ahead(j) # Ahead(n + i)
      <3> SUFFICES ASSUME NEW j \in 0..(n - 1)
                   PROVE  Ahead(j) # Ahead(n + i)
        OBVIOUS
      <3>1. /\ n + k \in 0..NSeq
            /\ j \in 0..((n + k) - 1)
            /\ n + i \in 0..((n + k) - 1)
            /\ j # n + i
        BY <1>1
      <3> QED
        BY <3>1, AheadDiffer
    <2> QED
      BY <1>2, <2>1, <2>2 DEF Issue
  <1>4. k <= NSeq
    BY <1>1
  <1> QED
    BY <1>3, <1>4 DEF Unretired

LEMMA ReservationStep ==
    ASSUME TypeOK, ReservationHonoured, [Next]_vars
    PROVE  ReservationHonoured'
  <1>1. ASSUME NEW req \in Requests, Begin(req)
        PROVE  ReservationHonoured'
    <2>1. CASE reserved_sequences = NoReservation
      BY <1>1, <2>1 DEF Begin, ReservationHonoured
    <2>2. CASE reserved_sequences # NoReservation
      <3>1. Needed(req) \in Nat
        BY RouteShape DEF Needed
      <3>2. /\ reserved_sequences \in Nat
            /\ reserved_sequences \notin 0..(Needed(req) - 1)
        BY <1>1, <2>2 DEF TypeOK, Begin, Refusal
      <3>3. PICK k \in Nat : reserved_sequences = Needed(req) + k
        <4>1. reserved_sequences - Needed(req) \in Nat
          BY <3>1, <3>2
        <4> QED
          BY <3>1, <3>2, <4>1
      <3>4. Unretired(k)'
        <4>1. Unretired(Needed(req) + k)
          BY <2>2, <3>3 DEF ReservationHonoured
        <4> QED
          BY <1>1, <3>1, <4>1, IssueLeaves DEF Begin
      <3>5. reserved_sequences' = k
        BY <1>1, <2>2, <3>1, <3>3 DEF Begin
      <3> QED
        BY <3>4, <3>5 DEF ReservationHonoured
    <2> QED
      BY <2>1, <2>2
  <1>2. CASE PollMessage
    <2>1. CASE reserved_sequences = NoReservation
      BY <1>2, <2>1 DEF PollMessage, ReservationHonoured
    <2>2. CASE reserved_sequences # NoReservation
      <3>1. reserved_sequences \in Nat /\ Unretired(1 + reserved_sequences)
        BY <1>2, <2>2 DEF TypeOK, PollMessage, AtReservation
      <3>2. Unretired(reserved_sequences)'
        <4>1. PICK k : k = reserved_sequences
          OBVIOUS
        <4>2. Unretired(k)'
          BY <1>2, <3>1, <4>1, IssueLeaves DEF PollMessage
        <4>3. reserved_sequences' = k
          BY <1>2, <4>1 DEF PollMessage
        <4> QED
          BY <4>2, <4>3
      <3> QED
        BY <3>2 DEF ReservationHonoured
    <2> QED
      BY <2>1, <2>2
  <1>3. ASSUME NEW minimum \in 0..NSeq, ReserveSequences(minimum)
        PROVE  ReservationHonoured'
    BY <1>3 DEF ReserveSequences, ReservationHonoured, Unretired, Ahead
  <1>4. CASE ReleaseSequences
    BY <1>4 DEF ReleaseSequences, ReservationHonoured
  <1>5. CASE UNCHANGED <<ipmb_sequence, retired_sequences, reserved_sequences>>
    BY <1>5 DEF ReservationHonoured, Unretired, Ahead
  <1> QED
    BY <1>1, <1>2, <1>3, <1>4, <1>5
       DEF Next, BeginRefused, RetirePending, PollBlocked, PollExhausted, Receive, vars

\* Numbers set aside by reserve_sequences() are there when they are used:
\* polls and other requests never eat into them (poll_message(), begin()).
THEOREM ReservationKept == Spec => []ReservationHonoured
  <1>1. Init => ReservationHonoured
    BY DEF Init, ReservationHonoured
  <1>2. TypeOK /\ ReservationHonoured /\ [Next]_vars => ReservationHonoured'
    BY ReservationStep
  <1> QED
    BY <1>1, <1>2, TypeCorrect, PTL DEF Spec

(***************************************************************************)
(* What the session transports rely on (IpmbContract).                     *)
(***************************************************************************)

\* n numbers never issued before are taken from the budget, which has them.
LEMMA IssueCost ==
    ASSUME TypeOK, NEW n \in Nat, NEW rs, Unretired(n), Issue(n, rs)
    PROVE  /\ NSeq - Cardinality(retired_sequences) \in Nat
           /\ n <= NSeq - Cardinality(retired_sequences)
           /\ NSeq - Cardinality(retired_sequences') = NSeq - Cardinality(retired_sequences) - n
  <1> DEFINE taken == {Ahead(i) : i \in 0..(n - 1)}
             ring == 0..(NSeq - 1)
             number == [i \in 0..(n - 1) |-> Ahead(i)]
  <1>1. NSeq \in Nat \ {0} /\ n \in 0..NSeq /\ \A i \in 0..(n - 1) : i \in 0..NSeq
    BY ConstantsAssumption DEF Unretired
  <1>2. IsFiniteSet(ring) /\ Cardinality(ring) = NSeq
    <2>1. IsFiniteSet(0..(NSeq - 1)) /\ Cardinality(0..(NSeq - 1)) = IF 0 > NSeq - 1 THEN 0 ELSE NSeq - 1 - 0 + 1
      BY <1>1, FS_Interval
    <2> QED
      BY <1>1, <2>1
  <1>3. taken \subseteq ring /\ retired_sequences \subseteq ring /\ taken \cap retired_sequences = {}
    BY <1>1, AheadRange DEF TypeOK, Unretired
  <1>4. IsFiniteSet(taken) /\ Cardinality(taken) = n
    <2>1. IsFiniteSet(0..(n - 1)) /\ Cardinality(0..(n - 1)) = n
      <3>1. IsFiniteSet(0..(n - 1)) /\ Cardinality(0..(n - 1)) = IF 0 > n - 1 THEN 0 ELSE n - 1 - 0 + 1
        BY FS_Interval
      <3> QED
        BY <1>1, <3>1
    <2>2. number \in Bijection(0..(n - 1), taken)
      <3>1. \A i, j \in 0..(n - 1) : Ahead(i) = Ahead(j) => i = j
        BY <1>1, AheadDiffer
      <3>2. number \in [0..(n - 1) -> taken]
        OBVIOUS
      <3>3. \A i, j \in 0..(n - 1) : number[i] = number[j] => i = j
        BY <3>1
      <3>4. \A t \in taken : \E i \in 0..(n - 1) : number[i] = t
        OBVIOUS
      <3> QED
        BY <3>2, <3>3, <3>4 DEF Bijection, Injection, Surjection, IsInjective
    <2>3. ExistsBijection(0..(n - 1), taken)
      BY <2>2 DEF ExistsBijection
    <2> HIDE DEF taken
    <2> QED
      BY <2>1, <2>3, FS_Bijection
  <1> HIDE DEF taken, ring
  <1>5. IsFiniteSet(retired_sequences) /\ Cardinality(retired_sequences) \in Nat
    BY <1>2, <1>3, FS_Subset, FS_CardinalityType
  <1>6. retired_sequences' = retired_sequences \cup taken
    BY DEF Issue, taken
  <1>7. Cardinality(retired_sequences') = Cardinality(retired_sequences) + n
    <2>1. Cardinality(retired_sequences \cup taken)
            = Cardinality(retired_sequences) + Cardinality(taken) - Cardinality(retired_sequences \cap taken)
      BY <1>4, <1>5, FS_Union
    <2>2. retired_sequences \cap taken = {}
      BY <1>3
    <2> QED
      BY <1>4, <1>5, <1>6, <2>1, <2>2, FS_EmptySet
  <1>8. Cardinality(retired_sequences') <= NSeq
    BY <1>2, <1>3, <1>6, FS_Subset
  <1>9. PICK c \in Nat, e \in Nat : c = Cardinality(retired_sequences) /\ e = Cardinality(retired_sequences')
    BY <1>5, <1>7
  <1>10. e = c + n /\ e <= NSeq
    BY <1>7, <1>8, <1>9
  <1>11. NSeq - c \in Nat /\ n <= NSeq - c /\ NSeq - e = NSeq - c - n
    BY <1>1, <1>10
  <1> QED
    BY <1>9, <1>11

\* No poll is needed before the BMC acknowledges the first hop.
LEMMA ContractBegin ==
    ASSUME SequenceInv, NEW req \in Requests, Begin(req)
    PROVE  Contract!IpmbBegin
  <1>1. /\ TypeOK
        /\ pending = NoPending
        /\ pending' = NewPending(req)
        /\ Unretired(Needed(req))
        /\ Issue(Needed(req), NewReplies(req))
    BY DEF SequenceInv, Begin, Refusal, NewReplies
  <1>2. pending' # NoPending
    <2>1. TypeOK'
      BY BeginStep DEF SequenceInv
    <2>2. NewPending(req) \in PendingRequest
      BY <1>1, NewRepliesShape
    <2> QED
      BY <1>1, <2>2, ConstantsAssumption
  <1>3. ~ NeedsPoll /\ ~ NeedsPoll'
    BY <1>1 DEF NeedsPoll, NewPending
  <1>4. ~ pending'.queue_available
    BY <1>1 DEF NewPending
  <1>5. Needed(req) \in 1..3 /\ Needed(req) \in Nat
    BY <1>1, NewRepliesShape
  <1>6. \E n \in 1..3 : /\ n <= NSeq - Cardinality(retired_sequences)
                        /\ NSeq - Cardinality(retired_sequences') = NSeq - Cardinality(retired_sequences) - n
    <2>1. /\ Needed(req) <= NSeq - Cardinality(retired_sequences)
          /\ NSeq - Cardinality(retired_sequences') = NSeq - Cardinality(retired_sequences) - Needed(req)
      BY <1>1, <1>5, IssueCost
    <2> QED
      BY <1>5, <2>1, Zenon
  <1>7. /\ (NeedsPoll)' = NeedsPoll
        /\ (pending' # NoPending /\ pending'.queue_available) = (pending # NoPending /\ pending.queue_available)
        /\ (pending' # NoPending) = TRUE
    <2>1. (NeedsPoll)' = NeedsPoll
      BY <1>3 DEF NeedsPoll
    <2>2. (pending' # NoPending /\ pending'.queue_available) = (pending # NoPending /\ pending.queue_available)
      BY <1>1, <1>4
    <2>3. (pending' # NoPending) = TRUE
      BY <1>2
    <2> QED
      BY <2>1, <2>2, <2>3
  <1> QED
    BY <1>1, <1>6, <1>7, Zenon DEF Contract!IpmbBegin

\* A request is answered or given up, and with it its poll.
LEMMA ContractRetire ==
    ASSUME pending' = NoPending, UNCHANGED retired_sequences
    PROVE  Contract!IpmbRetire
  <1>1. (pending' # NoPending) = FALSE
    OBVIOUS
  <1>2. NeedsPoll' = FALSE
    BY DEF NeedsPoll
  <1>3. (pending' # NoPending /\ pending'.queue_available) = FALSE
    OBVIOUS
  <1> QED
    BY <1>1, <1>2, <1>3 DEF Contract!IpmbRetire

LEMMA ContractPoll ==
    ASSUME SequenceInv, PollMessage
    PROVE  Contract!IpmbPoll
  <1>1. /\ TypeOK
        /\ NeedsPoll
        /\ pending # NoPending
        /\ pending \in PendingRequest
        /\ Unretired(1)
        /\ Issue(1, {PollReply})
        /\ pending' = [pending EXCEPT !.poll = PollReply]
    BY DEF SequenceInv, TypeOK, PollMessage, NeedsPoll
  <1>2. PollReply # NoReply /\ pending' # NoPending
    <2>1. PollReply \in ExpectedReply
      <3>1. Ahead(0) \in 0..(NSeq - 1)
        BY <1>1, AheadRange, ConstantsAssumption
      <3> QED
        BY <1>1, <3>1 DEF PollReply, Reply, ExpectedReply, TypeOK, Commands,
                         QueueCommands, responder_addr, requestor_addr
    <2>2. pending' \in PendingRequest
      BY <1>1, <2>1 DEF PendingRequest, MaybeReply
    <2> QED
      BY <2>1, <2>2, ConstantsAssumption
  <1>3. NeedsPoll' = FALSE
    <2>1. pending'.poll = PollReply
      BY <1>1 DEF PendingRequest
    <2> QED
      BY <1>2, <2>1 DEF NeedsPoll
  <1>4. /\ NSeq - Cardinality(retired_sequences) > 0
        /\ NSeq - Cardinality(retired_sequences') = NSeq - Cardinality(retired_sequences) - 1
    BY <1>1, IssueCost
  <1>5. pending'.queue_available = pending.queue_available
    BY <1>1 DEF PendingRequest
  <1>6. /\ (pending' # NoPending) = (pending # NoPending)
        /\ (pending' # NoPending /\ pending'.queue_available) = (pending # NoPending /\ pending.queue_available)
    BY <1>1, <1>2, <1>5
  <1> QED
    BY <1>1, <1>3, <1>4, <1>6, Zenon DEF Contract!IpmbPoll

\* Polling is given up for this request, or for the session.
LEMMA ContractPollRefused ==
    ASSUME SequenceInv, PollBlocked \/ PollExhausted
    PROVE  Contract!IpmbPollRefused
  <1>1. NeedsPoll /\ pending # NoPending /\ pending \in PendingRequest /\ UNCHANGED retired_sequences
    BY DEF SequenceInv, TypeOK, PollBlocked, PollExhausted, NeedsPoll
  <1>2. \/ pending' = [pending EXCEPT !.poll_blocked = TRUE]
        \/ pending' = pending /\ get_message_supported' = FALSE
    BY DEF PollBlocked, PollExhausted
  <1>3. /\ pending' # NoPending
        /\ pending'.queue_available = pending.queue_available
        /\ pending'.poll_blocked = TRUE \/ get_message_supported' = FALSE
    <2>1. [pending EXCEPT !.poll_blocked = TRUE] \in PendingRequest
      BY <1>1 DEF PendingRequest
    <2>2. pending' # NoPending
      BY <1>1, <1>2, <2>1, ConstantsAssumption
    <2> QED
      BY <1>1, <1>2, <2>2 DEF PendingRequest
  <1>4. NeedsPoll' = FALSE
    BY <1>3 DEF NeedsPoll
  <1>5. /\ (pending' # NoPending) = (pending # NoPending)
        /\ (pending' # NoPending /\ pending'.queue_available) = (pending # NoPending /\ pending.queue_available)
    BY <1>1, <1>3
  <1> QED
    BY <1>1, <1>4, <1>5, Zenon DEF Contract!IpmbPollRefused

\* Whatever arrives answers the request or leaves it pending.
LEMMA ContractReceive ==
    ASSUME SequenceInv, NEW d \in Datagrams, Receive(d)
    PROVE  Contract!IpmbReceive \/ Contract!IpmbRetire
  <1> DEFINE end == receive_nested(d)
  <1>1. /\ pending # NoPending
        /\ pending' = IF end.out = "response" THEN NoPending ELSE end.p
        /\ UNCHANGED retired_sequences
    BY DEF Receive
  <1>2. end.p \in PendingRequest
    BY <1>1, WalkEnd DEF WalkOK, Walk
  <1> HIDE DEF end
  <1>3. CASE pending' = NoPending
    BY <1>1, <1>3, ContractRetire
  <1>4. CASE pending' # NoPending
    <2>1. pending' \in PendingRequest
      BY <1>1, <1>2, <1>4
    <2>2. (pending' # NoPending) = (pending # NoPending)
      BY <1>1, <1>4
    <2>3. NeedsPoll' \in BOOLEAN
      BY DEF NeedsPoll
    <2>4. (pending' # NoPending /\ pending'.queue_available) \in BOOLEAN
      OBVIOUS
    <2> QED
      BY <1>1, <2>2, <2>3, <2>4, Zenon DEF Contract!IpmbReceive
  <1> QED
    BY <1>3, <1>4

LEMMA ContractStart ==
    ASSUME Init
    PROVE  Contract!IpmbInit
  <1>1. Cardinality(retired_sequences) = 0
    BY FS_EmptySet DEF Init
  <1>2. NSeq - Cardinality(retired_sequences) = NSeq
    BY <1>1, ConstantsAssumption
  <1>3. (pending # NoPending) = FALSE
    BY DEF Init
  <1>4. NeedsPoll = FALSE
    BY DEF Init, NeedsPoll
  <1>5. (pending # NoPending /\ pending.queue_available) = FALSE
    BY DEF Init
  <1> QED
    BY <1>2, <1>3, <1>4, <1>5 DEF Contract!IpmbInit

LEMMA ContractStep ==
    ASSUME SequenceInv, [Next]_vars
    PROVE  [Contract!IpmbNext]_(Contract!ipmb_vars)
  <1>1. ASSUME UNCHANGED <<retired_sequences, pending, get_message_supported>>
        PROVE  UNCHANGED Contract!ipmb_vars
    <2>1. NeedsPoll' = NeedsPoll
      BY <1>1 DEF NeedsPoll
    <2>2. /\ (pending' # NoPending) = (pending # NoPending)
          /\ (pending' # NoPending /\ pending'.queue_available) = (pending # NoPending /\ pending.queue_available)
      BY <1>1
    <2> QED
      BY <1>1, <2>1, <2>2, Zenon DEF Contract!ipmb_vars
  <1>2. ASSUME NEW minimum \in 0..NSeq, ReserveSequences(minimum)
        PROVE  UNCHANGED Contract!ipmb_vars
    BY <1>1, <1>2 DEF ReserveSequences
  <1>3. CASE ReleaseSequences
    BY <1>1, <1>3 DEF ReleaseSequences
  <1>4. ASSUME NEW req \in Requests, BeginRefused(req)
        PROVE  UNCHANGED Contract!ipmb_vars
    BY <1>1, <1>4 DEF BeginRefused
  <1>5. ASSUME NEW req \in Requests, Begin(req)
        PROVE  Contract!IpmbNext
    BY <1>5, ContractBegin DEF Contract!IpmbNext
  <1>6. CASE RetirePending
    BY <1>6, ContractRetire DEF RetirePending, Contract!IpmbNext
  <1>7. CASE PollMessage
    BY <1>7, ContractPoll DEF Contract!IpmbNext
  <1>8. CASE PollBlocked \/ PollExhausted
    BY <1>8, ContractPollRefused DEF Contract!IpmbNext
  <1>9. ASSUME NEW d \in Datagrams, Receive(d)
        PROVE  Contract!IpmbNext
    BY <1>9, ContractReceive DEF Contract!IpmbNext
  <1>10. CASE UNCHANGED vars
    BY <1>1, <1>10 DEF vars
  <1> QED
    BY <1>2, <1>3, <1>4, <1>5, <1>6, <1>7, <1>8, <1>9, <1>10 DEF Next

\* The IPMB state keeps to what the session transports rely on (IpmbContract):
\* a pending request is never replaced, a poll belongs to a pending request,
\* and the budget loses exactly the numbers a request or a poll takes.
THEOREM StateImplementsContract == Spec => ImplementsContract
  <1>1. Init => Contract!IpmbInit
    BY ContractStart
  <1>2. SequenceInv /\ [Next]_vars => [Contract!IpmbNext]_(Contract!ipmb_vars)
    BY ContractStep
  <1> QED
    BY <1>1, <1>2, SequenceInvariant, PTL DEF Spec, ImplementsContract, Contract!IpmbSpec
=============================================================================
