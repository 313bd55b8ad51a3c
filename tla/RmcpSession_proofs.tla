------------------------- MODULE RmcpSession_proofs -------------------------
(***************************************************************************)
(* Proofs about RmcpSession, for any limits and sequence space.            *)
(*                                                                         *)
(* The argument for inbound numbers.  A number acted upon is either at     *)
(* most last_inbound_sequence or remembered by the running call, and those *)
(* remembered are all above last_inbound_sequence; committing the largest  *)
(* of them keeps both.  So a fresh number was never acted upon.            *)
(***************************************************************************)
EXTENDS RmcpSession, FiniteSetTheorems, WellFoundedInduction, TLAPS

(***************************************************************************)
(* The inductive invariant, in the parts that different steps disturb.     *)
(***************************************************************************)
Outbound ==
    /\ session_sequence_number \in Sequences
    /\ sent \in [Sequences -> Nat]
    /\ SentOnce

\* The numbers acted upon according to c are at most `last` or among S.
Covers(last, S, c) ==
    /\ last \in 0..MaxSequence
    /\ S \in SUBSET Sequences
    /\ c \in [Sequences -> Nat]
    /\ \A s \in Sequences : c[s] <= 1
    /\ \A s \in Sequences : c[s] > 0 => s <= last \/ s \in S
    /\ \A s \in S : s > last

Remembered == Covers(last_inbound_sequence, call.seen, consumed)

Between == pc \in {"idle", "sending"}

Running ==
    /\ call \in Call
    /\ pc \in {"idle", "sending", "loop", "receive", "ack", "lost"}
    /\ result \in Outcomes
    /\ Between => call = NoCall
    /\ ~ Between => call.kind # "none"
    /\ IpmbTypeOK
    /\ call.kind = "poll_sol" => waiting = FALSE
    /\ NothingLeftPending

Counted ==
    /\ reads \in Nat
    /\ reads <= SeenLimit + MaxUnrelated
    /\ Cardinality(call.seen) <= SeenLimit
    /\ ~ Between => reads <= Cardinality(call.seen) + call.unrelated
    /\ call.kind = "poll_sol" =>
          Cardinality(call.seen) <= IF pc = "ack" THEN 1 ELSE 0

Flags ==
    /\ sol \in BOOLEAN
    /\ expired \in BOOLEAN
    /\ cancelled \in BOOLEAN
    /\ request_sent \in BOOLEAN
    /\ result = "send_failed" => request_sent = FALSE

Inv ==
    /\ Outbound
    /\ Remembered
    /\ Running
    /\ Counted
    /\ Flags

(***************************************************************************)
(* Sets of sequence numbers.                                               *)
(***************************************************************************)

\* A non-empty set of naturals has a least element.
LEMMA Minimum ==
    ASSUME NEW T \in SUBSET Nat, T # {}
    PROVE  \E x \in T : \A y \in T : x <= y
  <1> DEFINE Less == {ss \in Nat \X Nat : ss[1] < ss[2]}
  <1>1. Less = OpToRel(<, Nat)
    BY Zenon DEF OpToRel
  <1>2. IsWellFoundedOn(Less, Nat)
    BY <1>1, NatLessThanWellFounded, Zenon
  <1>3. PICK x \in T : \A y \in T : <<y, x>> \notin Less
    BY <1>2, WFMin, Zenon
  <1>4. \A y \in T : ~ (y < x)
    BY <1>3
  <1> QED
    BY <1>4

\* What commit_session_sequences() commits is the largest number.
LEMMA MaxOfSequences ==
    ASSUME NEW S \in SUBSET Sequences, S # {}
    PROVE  Max(S) \in S /\ \A s \in S : s <= Max(S)
  <1> DEFINE T == {MaxSequence - s : s \in S}
  <1>1. MaxSequence \in Nat /\ \A s \in S : s \in Nat /\ s <= MaxSequence
    BY SessionAssumption DEF Sequences
  <1>2. T \in SUBSET Nat
    BY <1>1
  <1>3. T # {}
    OBVIOUS
  <1>4. PICK x \in T : \A y \in T : x <= y
    BY <1>2, <1>3, Minimum
  <1>5. PICK s \in S : x = MaxSequence - s
    BY <1>4
  <1>6. \A t \in S : MaxSequence - t \in T
    OBVIOUS
  <1>7. ASSUME NEW t \in S  PROVE s >= t
    <2>1. MaxSequence - s <= MaxSequence - t
      BY <1>4, <1>5, <1>6
    <2> QED
      BY <1>1, <2>1
  <1>8. Max(S) \in S /\ \A y \in S : Max(S) >= y
    BY <1>7 DEF Max
  <1> QED
    BY <1>1, <1>8

LEMMA SeenCardinality ==
    ASSUME NEW S \in SUBSET Sequences
    PROVE  /\ Cardinality(S) \in Nat
           /\ S = {} => Cardinality(S) = 0
           /\ \A s \in Sequences : s \notin S => Cardinality(S \cup {s}) = Cardinality(S) + 1
  <1>1. IsFiniteSet(Sequences)
    BY SessionAssumption, FS_Interval DEF Sequences
  <1>2. IsFiniteSet(S)
    BY <1>1, FS_Subset
  <1> QED
    BY <1>2, FS_CardinalityType, FS_EmptySet, FS_AddElement

(***************************************************************************)
(* What the helpers of several actions do.                                 *)
(***************************************************************************)

LEMMA TransmitKeeps ==
    ASSUME Outbound, NEW fate \in Fates, NEW late, Transmit(fate, late)
    PROVE  Outbound'
  <1> DEFINE n == session_sequence_number
  <1>0. MaxSequence \in Nat \ {0}
    BY SessionAssumption
  <1>1. CASE fate = "refused"
    <2>1. n' = n /\ sent' = sent
      BY <1>1 DEF Transmit, Outbound, OnWire, Sequences
    <2> QED
      BY <2>1 DEF Outbound, SentOnce
  <1>2. CASE fate # "refused"
    <2>1. n # MaxSequence /\ n' = n + 1
      BY <1>2 DEF Transmit, SendRefused
    <2>2. n' \in Sequences
      BY <1>0, <2>1 DEF Outbound, Sequences
    <2>3. \E k \in {0, 1} : sent' = [sent EXCEPT ![n] = @ + k]
      BY DEF Transmit
    <2>4. sent[n] = 0
      BY DEF Outbound, SentOnce, Sequences
    <2> QED
      BY <2>1, <2>2, <2>3, <2>4 DEF Outbound, SentOnce, Sequences
  <1> QED
    BY <1>1, <1>2

LEMMA IpmbKeeps ==
    ASSUME IpmbTypeOK, IpmbNext \/ UNCHANGED ipmb_vars
    PROVE  IpmbTypeOK'
  <1> USE NSeqAssumption DEF IpmbTypeOK
  <1>1. CASE IpmbBegin
    BY <1>1 DEF IpmbBegin
  <1>2. CASE IpmbRetire
    BY <1>2 DEF IpmbRetire
  <1>3. CASE IpmbPoll
    <2>1. budget' \in 0..NSeq
      BY <1>3 DEF IpmbPoll
    <2> QED
      BY <1>3, <2>1, Zenon DEF IpmbPoll
  <1>4. CASE IpmbPollRefused
    BY <1>4 DEF IpmbPollRefused
  <1>5. CASE IpmbReceive
    BY <1>5 DEF IpmbReceive
  <1>6. CASE UNCHANGED ipmb_vars
    BY <1>6 DEF ipmb_vars
  <1> QED
    BY <1>1, <1>2, <1>3, <1>4, <1>5, <1>6 DEF IpmbNext

LEMMA CommitCovers ==
    ASSUME NEW S, NEW c, Covers(last_inbound_sequence, S, c),
           commit_session_sequences(S)
    PROVE  Covers(last_inbound_sequence', {}, c)
  <1>1. CASE S = {}
    BY <1>1 DEF Covers, commit_session_sequences
  <1>2. CASE S # {}
    <2>1. S \in SUBSET Sequences
      BY DEF Covers
    <2>2. last_inbound_sequence' = Max(S)
      BY <1>2 DEF commit_session_sequences
    <2>3. Max(S) \in S /\ \A s \in S : s <= Max(S)
      BY <1>2, <2>1, MaxOfSequences
    <2>4. Max(S) \in 0..MaxSequence /\ Max(S) > last_inbound_sequence
      <3> DEFINE top == Max(S)
      <3>1. top \in S /\ top \in Sequences
        BY <2>1, <2>3
      <3>2. top > last_inbound_sequence
        BY <3>1 DEF Covers
      <3> HIDE DEF top
      <3>3. top \in 0..MaxSequence
        BY <3>1, SessionAssumption DEF Sequences
      <3> QED
        BY <3>2, <3>3 DEF top
    <2>5. ASSUME NEW s \in Sequences, c[s] > 0  PROVE s <= Max(S)
      BY <2>3, <2>4, <2>5 DEF Covers, Sequences
    <2> QED
      BY <2>2, <2>4, <2>5 DEF Covers
  <1> QED
    BY <1>1, <1>2

LEMMA ConsumeCovers ==
    ASSUME Remembered, NEW s \in Sequences, Fresh(s), Consume(s)
    PROVE  Covers(last_inbound_sequence, call.seen \cup {s}, consumed')
  <1>0. s \in Nat
    BY SessionAssumption DEF Sequences
  <1>1. consumed[s] = 0 /\ consumed \in [Sequences -> Nat]
    BY <1>0 DEF Remembered, Covers, Fresh
  <1>2. consumed' = [consumed EXCEPT ![s] = 1]
    BY <1>1 DEF Consume
  <1> QED
    BY <1>0, <1>1, <1>2 DEF Remembered, Covers, Fresh

(***************************************************************************)
(* Every receiving step either ends the call or lets it go on, having seen *)
(* numbers S that cover all those acted upon.                              *)
(***************************************************************************)
Ready(S) ==
    /\ Covers(last_inbound_sequence, S, consumed')
    /\ Cardinality(S) <= SeenLimit
    /\ reads' \in Nat
    /\ reads' <= SeenLimit + MaxUnrelated

EndsWith(S) ==
    \E outcome \in {"response", "outcome_unknown", "sol_ready", "sol_failed"} :
        Finish(S, outcome)

GoesOn(S) ==
    \E n \in {0, 1}, where \in {"loop", "receive"} :
        /\ Continue(S, n, where)
        /\ n = 1 => ~ LastUnrelated
        /\ IpmbTypeOK'
        /\ waiting' = waiting
        /\ reads' <= call.unrelated + n + (IF call.kind = "recv" THEN Cardinality(S) ELSE 0)

LEMMA EndsKeeps ==
    ASSUME Inv, ~ Between, NEW S, Ready(S), EndsWith(S)
    PROVE  Remembered' /\ Running' /\ Counted' /\ result' # "send_failed"
  <1>1. PICK outcome \in {"response", "outcome_unknown", "sol_ready", "sol_failed"} :
           Finish(S, outcome)
    BY DEF EndsWith
  <1>2. call' = NoCall /\ pc' = "idle" /\ result' = outcome
    BY <1>1 DEF Finish
  <1>3. Remembered'
    <2>1. Covers(last_inbound_sequence', {}, consumed')
      BY <1>1, CommitCovers DEF Finish, Ready
    <2> QED
      BY <1>2, <2>1 DEF Remembered, NoCall
  <1>4. IpmbTypeOK' /\ waiting' = FALSE
    <2>1. CASE call.kind = "recv"
      <3>1. IpmbRetire
        BY <1>1, <2>1 DEF Finish
      <3> QED
        BY <3>1, IpmbKeeps DEF Inv, Running, IpmbNext, IpmbRetire
    <2>2. CASE call.kind # "recv"
      <3>1. call.kind = "poll_sol"
        BY <2>2 DEF Inv, Running, Call
      <3>2. UNCHANGED ipmb_vars
        BY <1>1, <2>2 DEF Finish
      <3> QED
        BY <3>1, <3>2, IpmbKeeps DEF Inv, Running, ipmb_vars
    <2> QED
      BY <2>1, <2>2
  <1>5. Running'
    <2>1. call' \in Call
      BY <1>2, SessionAssumption DEF NoCall, Call
    <2> QED
      BY <1>2, <1>4, <2>1 DEF Running, Between, Outcomes, NothingLeftPending, NoCall
  <1>6. Counted'
    <2>1. Cardinality(call'.seen) = 0 /\ call'.kind = "none"
      BY <1>2, FS_EmptySet DEF NoCall
    <2> QED
      BY <1>2, <2>1, SessionAssumption DEF Ready, Counted, Between
  <1> QED
    BY <1>2, <1>3, <1>5, <1>6

LEMMA GoesOnKeeps ==
    ASSUME Inv, ~ Between, NEW S, Ready(S), GoesOn(S)
    PROVE  Remembered' /\ Running' /\ Counted' /\ result' = result
  <1>1. PICK n \in {0, 1}, where \in {"loop", "receive"} :
           /\ Continue(S, n, where)
           /\ n = 1 => ~ LastUnrelated
           /\ IpmbTypeOK'
           /\ waiting' = waiting
           /\ reads' <= call.unrelated + n + (IF call.kind = "recv" THEN Cardinality(S) ELSE 0)
    BY DEF GoesOn
  <1> DEFINE seen == IF call.kind = "recv" THEN S ELSE {}
  <1>2. call \in Call /\ S \in SUBSET Sequences
    BY DEF Inv, Running, Ready, Covers
  <1>3. call' = [call EXCEPT !.seen = seen, !.unrelated = @ + n, !.frame = "none"]
    BY <1>1 DEF Continue
  <1>4. call'.seen = seen /\ call'.unrelated = call.unrelated + n /\ call'.kind = call.kind
    BY <1>2, <1>3 DEF Call
  <1>5. pc' = where /\ result' = result
    BY <1>1 DEF Continue
  <1>6. Remembered'
    <2>1. CASE call.kind = "recv"
      BY <1>1, <1>4, <2>1 DEF Continue, Ready, Remembered
    <2>2. CASE call.kind # "recv"
      BY <1>1, <1>4, <2>2, CommitCovers DEF Continue, Ready, Remembered
    <2> QED
      BY <2>1, <2>2
  <1>7. call' \in Call
    <2>1. call.unrelated + n \in 0..(MaxUnrelated - 1)
      BY <1>1, <1>2, SessionAssumption DEF Call, LastUnrelated
    <2> QED
      BY <1>2, <1>3, <2>1 DEF Call
  <1>8. Running'
    BY <1>1, <1>4, <1>5, <1>7 DEF Inv, Running, Between, NothingLeftPending
  <1>9. Counted'
    <2>1. Cardinality({}) = 0
      BY FS_EmptySet
    <2>2. Cardinality(S) \in Nat
      BY <1>2, SeenCardinality
    <2>3. call.unrelated \in Nat /\ reads' \in Nat
      BY <1>2, SessionAssumption DEF Call, Ready
    <2>4. CASE call.kind = "recv"
      BY <1>1, <1>4, <1>5, <2>2, <2>3, <2>4 DEF Counted, Ready
    <2>5. CASE call.kind # "recv"
      BY <1>1, <1>4, <1>5, <2>1, <2>3, <2>5, SessionAssumption DEF Counted, Ready
    <2> QED
      BY <2>4, <2>5
  <1> QED
    BY <1>5, <1>6, <1>8, <1>9

(***************************************************************************)
(* The receiving steps, one after the other.                               *)
(***************************************************************************)

\* What a step inside recv() or poll_sol() can rely on.
LEMMA InCall ==
    ASSUME Inv, ~ Between
    PROVE  /\ call \in Call
           /\ call.kind \in {"recv", "poll_sol"}
           /\ call.seen \in SUBSET Sequences
           /\ call.unrelated \in Nat /\ call.unrelated + 1 <= MaxUnrelated
           /\ Cardinality(call.seen) \in Nat
           /\ reads \in Nat
           /\ reads + 1 <= SeenLimit + MaxUnrelated
           /\ reads <= Cardinality(call.seen) + call.unrelated
           /\ MaxUnrelated \in Nat /\ SeenLimit \in Nat
  <1>1. call \in Call /\ call.kind \in {"recv", "poll_sol"}
    BY DEF Inv, Running, Call
  <1>2. call.seen \in SUBSET Sequences /\ call.unrelated \in 0..(MaxUnrelated - 1)
    BY <1>1 DEF Call
  <1>3. Cardinality(call.seen) \in Nat
    BY <1>2, SeenCardinality
  <1> QED
    BY <1>1, <1>2, <1>3, SessionAssumption DEF Inv, Counted

\* The three ways a receiving step goes on.
LEMMA FailEnds ==
    ASSUME Inv, ~ Between, NEW S, Fail(S)
    PROVE  EndsWith(S)
  BY DEF Fail, EndsWith

LEMMA UnrelatedEndsOrGoesOn ==
    ASSUME Inv, ~ Between, NEW S, NEW where \in {"loop", "receive"},
           Unrelated(S, where),
           reads' <= call.unrelated + 1 + (IF call.kind = "recv" THEN Cardinality(S) ELSE 0)
    PROVE  EndsWith(S) \/ GoesOn(S)
  <1>1. CASE LastUnrelated /\ Fail(S)
    BY <1>1, FailEnds
  <1>2. CASE ~ LastUnrelated /\ Continue(S, 1, where) /\ UNCHANGED ipmb_vars
    <2>1. IpmbTypeOK' /\ waiting' = waiting
      BY <1>2, IpmbKeeps DEF Inv, Running, ipmb_vars
    <2> QED
      BY <1>2, <2>1 DEF GoesOn
  <1> QED
    BY <1>1, <1>2 DEF Unrelated

LEMMA SolAcceptedEndsOrGoesOn ==
    ASSUME Inv, ~ Between, NEW S, SolAccepted(S),
           reads' <= call.unrelated + 1 + (IF call.kind = "recv" THEN Cardinality(S) ELSE 0)
    PROVE  EndsWith(S) \/ GoesOn(S)
  <1>1. CASE Finish(S, "sol_ready")
    BY <1>1 DEF EndsWith
  <1>2. CASE Unrelated(S, IF call.kind = "recv" THEN "loop" ELSE "receive")
    BY <1>2, UnrelatedEndsOrGoesOn
  <1> QED
    BY <1>1, <1>2 DEF SolAccepted

\* The message is left aside: the numbers seen stay as they are.
LEMMA Unconsumed ==
    ASSUME Inv, ~ Between, UNCHANGED consumed, reads' \in {reads, reads + 1}
    PROVE  /\ Ready(call.seen)
           /\ reads' <= call.unrelated + 1 + Cardinality(call.seen)
           /\ pc # "ack" => reads' <= call.unrelated + 1
                               + (IF call.kind = "recv" THEN Cardinality(call.seen) ELSE 0)
  <1>1. Ready(call.seen)
    BY InCall DEF Ready, Inv, Remembered, Counted
  <1> QED
    BY <1>1, InCall DEF Inv, Counted

\* The message is acted upon: its number joins those seen.
LEMMA Consumed ==
    ASSUME Inv, ~ Between, NEW s \in Sequences, Fresh(s), Room, Consume(s),
           reads' = reads + 1
    PROVE  /\ Ready(call.seen \cup {s})
           /\ Cardinality(call.seen \cup {s}) = Cardinality(call.seen) + 1
           /\ reads' \in Nat /\ reads' <= call.unrelated + Cardinality(call.seen \cup {s})
  <1>1. Cardinality(call.seen \cup {s}) = Cardinality(call.seen) + 1
    BY InCall, SeenCardinality DEF Fresh
  <1>2. Covers(last_inbound_sequence, call.seen \cup {s}, consumed')
    BY ConsumeCovers DEF Inv
  <1>3. Cardinality(call.seen) + 1 <= SeenLimit
    BY InCall DEF Room
  <1> QED
    BY <1>1, <1>2, <1>3, InCall DEF Ready

Receiving ==
    \/ GiveUp
    \/ ReadForeign
    \/ ReadBroken
    \/ \E s \in 0..MaxSequence, kind \in Kinds : ReadMismatch(kind, s)
    \/ \E s \in Sequences :
          \/ ReadTooMany(s)
          \/ ReadResponse(s)
          \/ ReadDrained(s)
          \/ ReadRejected(s)
          \/ ReadSolFatal(s)
          \/ ReadSolBare(s)
    \/ \E fate \in Fates : SendAck(fate)

\* A receiving step ends the call or lets it go on.
LEMMA ReceivingReady ==
    ASSUME Inv, Receiving
    PROVE  ~ Between /\ \E S : Ready(S) /\ (EndsWith(S) \/ GoesOn(S))
  <1>1. ~ Between
    BY DEF Receiving, Between, GiveUp, ReadForeign, ReadBroken, ReadMismatch, ReadTooMany,
           ReadResponse, ReadDrained, ReadRejected, ReadSolFatal, ReadSolBare, ReadIpmi,
           ReadSol, Read, SendAck
  <1>2. CASE GiveUp
    <2>1. Ready(call.seen)
      BY <1>1, <1>2, Unconsumed DEF GiveUp, history
    <2> QED
      BY <1>1, <1>2, <2>1, FailEnds DEF GiveUp
  <1>3. CASE ReadForeign
    BY <1>1, <1>3, Unconsumed, UnrelatedEndsOrGoesOn DEF ReadForeign, Read
  <1>4. CASE ReadBroken
    BY <1>1, <1>4, Unconsumed, FailEnds DEF ReadBroken, Read
  <1>5. ASSUME NEW s \in 0..MaxSequence, NEW kind \in Kinds, ReadMismatch(kind, s)
        PROVE  Ready(call.seen) /\ (EndsWith(call.seen) \/ GoesOn(call.seen))
    <2>1. Read /\ UNCHANGED consumed
      BY <1>5 DEF ReadMismatch
    <2>2. IF call.kind = "recv" THEN Unrelated(call.seen, "loop") ELSE Fail(call.seen)
      BY <1>5 DEF ReadMismatch
    <2> QED
      BY <1>1, <2>1, <2>2, Unconsumed, UnrelatedEndsOrGoesOn, FailEnds DEF Read
  <1>6. ASSUME NEW s \in Sequences, ReadTooMany(s)
        PROVE  Ready(call.seen) /\ EndsWith(call.seen)
    BY <1>1, <1>6, Unconsumed, FailEnds DEF ReadTooMany, Read
  <1>7. ASSUME NEW s \in Sequences, ReadResponse(s)
        PROVE  Ready(call.seen \cup {s}) /\ EndsWith(call.seen \cup {s})
    BY <1>1, <1>7, Consumed DEF ReadResponse, ReadIpmi, Read, EndsWith
  <1>8. ASSUME NEW s \in Sequences, ReadDrained(s)
        PROVE  Ready(call.seen \cup {s})
               /\ (EndsWith(call.seen \cup {s}) \/ GoesOn(call.seen \cup {s}))
    <2> DEFINE S == call.seen \cup {s}
    <2>1. Ready(S) /\ reads' \in Nat /\ reads' <= call.unrelated + Cardinality(S)
          /\ Cardinality(S) = Cardinality(call.seen) + 1
      BY <1>1, <1>8, Consumed DEF ReadDrained, ReadIpmi, Read
    <2>2. call.kind = "recv"
      BY <1>1, <1>8, InCall DEF ReadDrained, ReadIpmi, Inv, Running
    <2>3. ASSUME ReceiveUnanswered
          PROVE  IpmbTypeOK' /\ waiting' = waiting
      BY <2>3, IpmbKeeps DEF ReceiveUnanswered, IpmbNext, IpmbReceive, Inv, Running
    <2>4. CASE ReceiveUnanswered /\ Continue(S, 0, "loop")
      BY <2>1, <2>2, <2>3, <2>4, <1>1, InCall DEF GoesOn
    <2>5. CASE ~ LastUnrelated /\ ReceiveUnanswered /\ Continue(S, 1, "loop")
      BY <2>1, <2>2, <2>3, <2>5, <1>1, InCall DEF GoesOn
    <2>6. CASE LastUnrelated /\ Fail(S)
      BY <2>1, <2>6, <1>1, FailEnds
    <2> QED
      BY <1>8, <2>1, <2>4, <2>5, <2>6 DEF ReadDrained
  <1>9. ASSUME NEW s \in Sequences, ReadRejected(s)
        PROVE  Ready(call.seen) /\ (EndsWith(call.seen) \/ GoesOn(call.seen))
    <2>1. Ready(call.seen) /\ reads' <= call.unrelated + 1 + Cardinality(call.seen)
      BY <1>1, <1>9, Unconsumed DEF ReadRejected, ReadIpmi, Read
    <2>2. call.kind = "recv"
      BY <1>1, <1>9, InCall DEF ReadRejected, ReadIpmi, Inv, Running
    <2>3. CASE ~ LastUnrelated /\ ReceiveUnanswered /\ Continue(call.seen, 1, "loop")
      <3>1. IpmbTypeOK' /\ waiting' = waiting
        BY <2>3, IpmbKeeps DEF ReceiveUnanswered, IpmbNext, IpmbReceive, Inv, Running
      <3> QED
        BY <2>1, <2>2, <2>3, <3>1 DEF GoesOn
    <2>4. CASE Fail(call.seen)
      BY <2>1, <2>4, <1>1, FailEnds
    <2> QED
      BY <1>9, <2>1, <2>3, <2>4 DEF ReadRejected
  <1>10. ASSUME NEW s \in Sequences, ReadSolFatal(s)
         PROVE  Ready(call.seen \cup {s}) /\ EndsWith(call.seen \cup {s})
    BY <1>1, <1>10, Consumed, FailEnds DEF ReadSolFatal, ReadSol, Read
  <1>11. ASSUME NEW s \in Sequences, ReadSolBare(s)
         PROVE  Ready(call.seen \cup {s})
                /\ (EndsWith(call.seen \cup {s}) \/ GoesOn(call.seen \cup {s}))
    <2> DEFINE S == call.seen \cup {s}
    <2>1. Ready(S) /\ reads' \in Nat /\ reads' <= call.unrelated + Cardinality(S)
          /\ Cardinality(S) = Cardinality(call.seen) + 1
      BY <1>1, <1>11, Consumed DEF ReadSolBare, ReadSol, Read
    <2>2. reads' <= call.unrelated + 1 + (IF call.kind = "recv" THEN Cardinality(S) ELSE 0)
      <3>1. CASE call.kind = "recv"
        BY <2>1, <3>1, <1>1, InCall
      <3>2. CASE call.kind # "recv"
        <4>1. pc # "ack" /\ call.kind = "poll_sol"
          BY <1>1, <1>11, <3>2, InCall DEF ReadSolBare, ReadSol, Read
        <4>2. Cardinality(call.seen) <= 0
          BY <4>1 DEF Inv, Counted
        <4> QED
          BY <2>1, <3>2, <4>2, <1>1, InCall
      <3> QED
        BY <3>1, <3>2
    <2> QED
      BY <1>1, <1>11, <2>1, <2>2, SolAcceptedEndsOrGoesOn DEF ReadSolBare
  <1>12. ASSUME NEW fate \in Fates, SendAck(fate)
         PROVE  Ready(call.seen) /\ (EndsWith(call.seen) \/ GoesOn(call.seen))
    <2>1. UNCHANGED <<consumed, reads>>
      BY <1>12 DEF SendAck, history
    <2>2. Ready(call.seen)
      BY <1>1, <2>1, Unconsumed
    <2>3. reads' <= call.unrelated + 1
                    + (IF call.kind = "recv" THEN Cardinality(call.seen) ELSE 0)
      <3>1. call.kind = "poll_sol" => Cardinality(call.seen) <= 1
        BY <1>12 DEF SendAck, Inv, Counted
      <3> QED
        BY <1>1, <2>1, <3>1, InCall
    <2> QED
      BY <1>1, <1>12, <2>2, <2>3, SolAcceptedEndsOrGoesOn, FailEnds DEF SendAck
  <1> QED
    BY <1>1, <1>2, <1>3, <1>4, <1>5, <1>6, <1>7, <1>8, <1>9, <1>10, <1>11, <1>12, Unconsumed
    DEF Receiving

(***************************************************************************)
(* The remaining steps.                                                    *)
(***************************************************************************)

\* The caller's steps between two calls, and those of time and other threads.
LEMMA QuietKeeps ==
    ASSUME Inv, Environment \/ SendRejected \/ RecvNothing
                \/ \E open \in BOOLEAN : SetSol(open)
    PROVE  Inv'
  <1>1. UNCHANGED <<session_sequence_number, sent, last_inbound_sequence, consumed, pc, reads,
                    waiting, needs_poll, queue_available, budget>>
    BY DEF Environment, DeadlinePasses, ProbeDue, Cancel, Elsewhere, SendRejected, RecvNothing,
           SetSol, out_vars, history, ipmb_vars
  <1>2. /\ call' \in Call
        /\ call'.kind = call.kind /\ call'.seen = call.seen
        /\ call'.unrelated = call.unrelated
        /\ Between => call' = call
    <2>1. CASE ProbeDue
      BY <2>1 DEF ProbeDue, Inv, Running, Call, NoCall
    <2>2. CASE call' = call
      BY <2>2 DEF Inv, Running
    <2> QED
      BY <2>1, <2>2 DEF Environment, DeadlinePasses, Cancel, SendRejected, RecvNothing, SetSol
  <1>3. /\ sol' \in BOOLEAN /\ expired' \in BOOLEAN /\ cancelled' \in BOOLEAN
        /\ request_sent' \in BOOLEAN
        /\ result' = "send_failed" => request_sent' = FALSE
        /\ \/ result' = result
           \/ pc = "idle" /\ result' \in {"send_failed", "no_pending"}
    BY DEF Environment, DeadlinePasses, ProbeDue, Cancel, Elsewhere, SendRejected, RecvNothing,
           SetSol, out_vars, history, Inv, Flags, env_vars
  <1>4. Outbound' /\ Remembered'
    BY <1>1, <1>2 DEF Inv, Outbound, SentOnce, Remembered, Covers
  <1>5. Running'
    BY <1>1, <1>2, <1>3 DEF Inv, Running, Between, IpmbTypeOK, NothingLeftPending, Outcomes
  <1>6. Counted' /\ Flags'
    BY <1>1, <1>2, <1>3 DEF Inv, Counted, Flags, Between
  <1> QED
    BY <1>4, <1>5, <1>6 DEF Inv

LEMMA SendKeeps ==
    ASSUME Inv, SendBegin \/ \E fate \in Fates : SendPayload(fate)
    PROVE  Inv'
  <1>1. UNCHANGED <<last_inbound_sequence, consumed, call, reads, sol, cancelled>>
    BY DEF SendBegin, SendPayload, env_vars
  <1>2. Between /\ Between' /\ call = NoCall
    BY DEF SendBegin, SendPayload, Between, Inv, Running
  <1>3. Outbound'
    BY TransmitKeeps DEF SendBegin, SendPayload, Inv, Outbound, SentOnce, out_vars
  <1>4. IpmbTypeOK'
    BY IpmbKeeps DEF SendBegin, SendPayload, IpmbNext, Inv, Running
  <1>5. /\ pc' \in {"idle", "sending"}
        /\ result' \in Outcomes
        /\ pc' = "idle" => result' \in {"sent", "send_failed", "send_unknown"}
    BY DEF SendBegin, SendPayload, into_operation_error, Inv, Running, Outcomes
  <1>6. /\ expired' \in BOOLEAN
        /\ request_sent' \in BOOLEAN
        /\ result' = "send_failed" => request_sent' = FALSE
    <2>1. CASE SendBegin
      BY <2>1 DEF SendBegin
    <2>2. CASE \E fate \in Fates : SendPayload(fate)
      <3>1. PICK fate \in Fates : SendPayload(fate)
        BY <2>2
      <3>2. expired' \in BOOLEAN
        BY <3>1 DEF SendPayload, env_vars, Inv, Flags
      <3>3. CASE fate \in OnWire
        <4>1. request_sent' = TRUE
          BY <3>1, <3>3, Zenon DEF SendPayload
        <4>2. result' # "send_failed"
          BY <3>1, <3>3 DEF SendPayload, into_operation_error, OnWire
        <4> QED
          BY <3>2, <4>1, <4>2
      <3>4. CASE fate \notin OnWire
        <4>1. request_sent' = FALSE
          <5>1. request_sent' = (fate \in OnWire)
            BY <3>1 DEF SendPayload
          <5>2. (fate \in OnWire) = FALSE
            BY <3>4
          <5> QED
            BY <5>1, <5>2, Zenon
        <4> QED
          BY <3>2, <4>1
      <3> QED
        BY <3>3, <3>4
    <2> QED
      BY <2>1, <2>2
  <1>7. Remembered' /\ Counted' /\ Flags'
    BY <1>1, <1>2, <1>6 DEF Inv, Remembered, Counted, Flags, NoCall
  <1>8. Running'
    BY <1>1, <1>2, <1>4, <1>5 DEF Inv, Running, NoCall, NothingLeftPending
  <1> QED
    BY <1>3, <1>7, <1>8 DEF Inv

LEMMA EnterKeeps ==
    ASSUME Inv, Recv \/ PollSol
    PROVE  Inv'
  <1>1. PICK kind \in {"recv", "poll_sol"}, where \in {"loop", "receive"} :
           Enter(kind, where) /\ (kind = "poll_sol" => waiting = FALSE)
    BY DEF Recv, PollSol, Inv, Running, IpmbTypeOK
  <1>2. /\ call = NoCall
        /\ call' = [NoCall EXCEPT !.kind = kind]
        /\ pc' = where
        /\ reads' = 0
        /\ result' = result /\ request_sent' = request_sent
        /\ UNCHANGED <<session_sequence_number, sent, last_inbound_sequence, consumed, sol,
                       cancelled, waiting, needs_poll, queue_available, budget>>
    BY <1>1 DEF Enter, Inv, Running, Between, out_vars, ipmb_vars
  <1>3. /\ call' \in Call
        /\ call'.kind = kind /\ call'.seen = {} /\ call'.unrelated = 0
    <2>1. NoCall \in Call /\ NoCall.seen = {} /\ NoCall.unrelated = 0
      BY SessionAssumption DEF NoCall, Call
    <2> QED
      BY <1>1, <1>2, <2>1 DEF Call
  <1>4. expired' \in BOOLEAN
    BY DEF Recv, PollSol, Inv, Flags
  <1>5. Outbound' /\ Remembered' /\ Flags'
    BY <1>2, <1>3, <1>4 DEF Inv, Outbound, SentOnce, Remembered, Covers, NoCall, Flags
  <1>6. Running'
    BY <1>1, <1>2, <1>3 DEF Inv, Running, Between, IpmbTypeOK, NothingLeftPending
  <1>7. Counted'
    BY <1>2, <1>3, FS_EmptySet, SessionAssumption DEF Counted, Between
  <1> QED
    BY <1>5, <1>6, <1>7 DEF Inv

\* recv() polls, or finds nothing to poll for.
LEMMA PollingKeeps ==
    ASSUME Inv, NoPoll \/ PollRefused \/ ProbeTimeout \/ \E fate \in Fates : Poll(fate)
    PROVE  Inv'
  <1>1. ~ Between /\ ~ Between' /\ pc' # "ack" /\ pc # "ack"
        /\ pc' \in {"loop", "receive", "lost"}
    BY DEF NoPoll, PollRefused, ProbeTimeout, Poll, Between
  <1>2. /\ UNCHANGED <<last_inbound_sequence, sol, expired, cancelled, result, consumed,
                       request_sent, reads>>
        /\ waiting' = waiting
    BY DEF NoPoll, PollRefused, ProbeTimeout, Poll, env_vars, history, ipmb_vars, IpmbPoll,
           IpmbPollRefused
  <1>3. /\ call' \in Call
        /\ call'.kind = call.kind /\ call'.seen = call.seen
        /\ call'.unrelated = call.unrelated
    BY DEF NoPoll, PollRefused, ProbeTimeout, Poll, Inv, Running, Call
  <1>4. Outbound'
    BY TransmitKeeps DEF NoPoll, PollRefused, ProbeTimeout, Poll, Inv, Outbound, SentOnce,
                         out_vars
  <1>5. IpmbTypeOK'
    BY IpmbKeeps DEF NoPoll, PollRefused, ProbeTimeout, Poll, IpmbNext, Inv, Running
  <1>6. Remembered' /\ Flags'
    BY <1>2, <1>3 DEF Inv, Remembered, Flags
  <1>7. Running'
    BY <1>1, <1>2, <1>3, <1>5 DEF Inv, Running, Between, NothingLeftPending
  <1>8. Counted'
    BY <1>1, <1>2, <1>3 DEF Inv, Counted
  <1> QED
    BY <1>4, <1>6, <1>7, <1>8 DEF Inv

\* A SOL frame with data waits for its acknowledgement.
LEMMA SolDataKeeps ==
    ASSUME Inv, NEW s \in Sequences, NEW then \in {"accepted", "stopped"}, ReadSolData(s, then)
    PROVE  Inv'
  <1> DEFINE S == call.seen \cup {s}
  <1>1. pc = "receive" /\ ~ Between
    BY DEF ReadSolData, ReadSol, Read, Between
  <1>2. /\ Ready(S)
        /\ Cardinality(S) = Cardinality(call.seen) + 1
        /\ reads' <= call.unrelated + Cardinality(S)
    BY <1>1, Consumed DEF ReadSolData, ReadSol, Read
  <1>3. /\ call' = [call EXCEPT !.seen = S, !.frame = then]
        /\ pc' = "ack" /\ ~ Between'
        /\ reads' = reads + 1
        /\ UNCHANGED <<last_inbound_sequence, result, session_sequence_number, sent, sol, expired,
                       cancelled, request_sent, waiting, needs_poll, queue_available, budget>>
    BY DEF ReadSolData, ReadSol, Read, Between, out_vars, env_vars, ipmb_vars
  <1>4. /\ call' \in Call
        /\ call'.kind = call.kind /\ call'.seen = S /\ call'.unrelated = call.unrelated
    BY <1>2, <1>3 DEF Inv, Running, Call, Ready, Covers
  <1>5. Outbound' /\ Remembered' /\ Flags'
    BY <1>2, <1>3, <1>4 DEF Inv, Outbound, SentOnce, Remembered, Ready, Flags
  <1>6. Running'
    BY <1>1, <1>3, <1>4 DEF Inv, Running, Between, IpmbTypeOK, NothingLeftPending
  <1>7. Counted'
    <2>1. call.kind = "poll_sol" => Cardinality(S) <= 1
      BY <1>1, <1>2, InCall DEF Inv, Counted
    <2>2. reads' <= Cardinality(S) + call.unrelated
      BY <1>1, <1>2, InCall, SeenCardinality DEF Ready, Covers
    <2> QED
      BY <1>2, <1>3, <1>4, <2>1, <2>2 DEF Counted, Ready
  <1> QED
    BY <1>5, <1>6, <1>7 DEF Inv

LEMMA ReceivingKeeps ==
    ASSUME Inv, Receiving
    PROVE  Inv'
  <1>1. PICK S : ~ Between /\ Ready(S) /\ (EndsWith(S) \/ GoesOn(S))
    BY ReceivingReady
  <1>2. Remembered' /\ Running' /\ Counted' /\ (result' = result \/ result' # "send_failed")
    BY <1>1, EndsKeeps, GoesOnKeeps
  <1>3. UNCHANGED <<sol, expired, cancelled, request_sent>>
    BY DEF Receiving, GiveUp, ReadForeign, ReadBroken, ReadMismatch, ReadTooMany,
           ReadResponse, ReadDrained, ReadRejected, ReadSolFatal, ReadSolBare, ReadIpmi,
           ReadSol, Read, SendAck, env_vars, history
  <1>4. Outbound'
    <2>1. CASE \E fate \in Fates : SendAck(fate)
      BY <2>1, TransmitKeeps DEF SendAck, Inv
    <2>2. CASE UNCHANGED out_vars
      BY <2>2 DEF out_vars, Inv, Outbound, SentOnce
    <2> QED
      BY <2>1, <2>2 DEF Receiving, GiveUp, ReadForeign, ReadBroken, ReadMismatch, ReadTooMany,
           ReadResponse, ReadDrained, ReadRejected, ReadSolFatal, ReadSolBare, ReadIpmi,
           ReadSol, Read
  <1> QED
    BY <1>2, <1>3, <1>4 DEF Inv, Flags

(***************************************************************************)
(* The theorems.                                                           *)
(***************************************************************************)
LEMMA InitInv ==
    ASSUME Init
    PROVE  Inv
  <1>1. Outbound
    BY SessionAssumption DEF Init, Outbound, SentOnce, Sequences
  <1>2. Remembered
    BY SessionAssumption DEF Init, Remembered, Covers, NoCall
  <1>3. Running
    <2>1. NoCall \in Call /\ NoCall.kind = "none"
      BY SessionAssumption DEF NoCall, Call
    <2>2. IpmbTypeOK
      <3>1. budget \in 0..NSeq
        BY NSeqAssumption DEF Init, IpmbInit
      <3> QED
        BY <3>1, Zenon DEF Init, IpmbInit, IpmbTypeOK
    <2> QED
      BY <2>1, <2>2 DEF Init, Running, Between, Outcomes, NothingLeftPending
  <1>4. Counted
    BY FS_EmptySet, SessionAssumption DEF Init, Counted, NoCall, Between
  <1>5. Flags
    BY DEF Init, Flags
  <1> QED
    BY <1>1, <1>2, <1>3, <1>4, <1>5 DEF Inv

LEMMA NextInv ==
    ASSUME Inv, [Next]_vars
    PROVE  Inv'
  <1>1. CASE UNCHANGED vars
    BY <1>1 DEF vars, out_vars, env_vars, history, ipmb_vars, Inv, Outbound, SentOnce,
                Remembered, Covers, Running, Between, IpmbTypeOK, NothingLeftPending, Counted,
                Flags
  <1>2. CASE Environment
    BY <1>2, QuietKeeps
  <1>3. CASE Caller
    BY <1>3, QuietKeeps, SendKeeps, EnterKeeps DEF Caller
  <1>4. CASE Step
    BY <1>4, SendKeeps, PollingKeeps, ReceivingKeeps DEF Step, Receiving
  <1>5. CASE Network
    BY <1>5, SolDataKeeps, ReceivingKeeps DEF Network, Receiving
  <1> QED
    BY <1>1, <1>2, <1>3, <1>4, <1>5 DEF Next

THEOREM Invariance == Spec => []Inv
  BY InitInv, NextInv, PTL DEF Spec

\* The variables keep their types: in particular the next outbound number
\* stays in range and a call never counts to MAX_UNRELATED.
THEOREM TypeCorrect == Spec => []TypeOK
  <1>1. Inv => TypeOK
    BY DEF Inv, Outbound, Remembered, Covers, Running, Counted, Flags, TypeOK
  <1> QED
    BY <1>1, Invariance, PTL

\* No inbound session sequence number is acted upon twice, whichever calls
\* read the copies.
THEOREM NumbersConsumedOnce == Spec => []ConsumedOnce
  <1>1. Inv => ConsumedOnce
    BY DEF Inv, Remembered, Covers, ConsumedOnce
  <1> QED
    BY <1>1, Invariance, PTL

\* No outbound session sequence number is on the wire twice, and the last one
\* never is.
THEOREM NumbersSentOnce == Spec => []SentOnce
  <1>1. Inv => SentOnce
    BY DEF Inv, Outbound
  <1> QED
    BY <1>1, Invariance, PTL

\* A request whose sending failed definitely is not on the wire.
THEOREM FailureIsDefinite == Spec => []DefiniteFailure
  <1>1. Inv => DefiniteFailure
    BY DEF Inv, Flags, DefiniteFailure
  <1> QED
    BY <1>1, Invariance, PTL

\* A call reads at most SeenLimit + MAX_UNRELATED datagrams.
THEOREM CallsReadBoundedly == Spec => []ReadsBounded
  <1>1. Inv => ReadsBounded
    BY DEF Inv, Counted, ReadsBounded
  <1> QED
    BY <1>1, Invariance, PTL

\* After recv() no request is pending.
THEOREM RequestsRetired == Spec => []NothingLeftPending
  <1>1. Inv => NothingLeftPending
    BY DEF Inv, Running
  <1> QED
    BY <1>1, Invariance, PTL
=============================================================================
