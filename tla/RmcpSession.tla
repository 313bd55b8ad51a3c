---------------------------- MODULE RmcpSession ----------------------------
(***************************************************************************)
(* The RMCP+ session transport: `State` of src/ipmi-rs/src/rmcp/v2_0/      *)
(* mod.rs over the socket of src/ipmi-rs/src/rmcp/socket.rs.               *)
(*                                                                         *)
(* One owner calls send(), recv(), poll_sol(), sol_open() and sol_close()  *)
(* in turn; a call takes many steps.  Meanwhile time passes, another       *)
(* thread may cancel, and the network delivers what it likes: datagrams of *)
(* another class, broken ones, ones of another session, and authenticated  *)
(* ones whose session sequence number is fresh, repeated or late.          *)
(*                                                                         *)
(* IPMB correlation enters through the actions of IpmbContract, which      *)
(* IpmbState implements.  The contents of SOL frames are left to SolFlow.  *)
(***************************************************************************)
EXTENDS Integers, FiniteSetsExt, IpmbContract

CONSTANTS
    MaxSequence,        \* u32::MAX: largest session sequence number
    MaxUnrelated,       \* MAX_UNRELATED, 32 in the code
    SeenLimit           \* 64 + MAX_UNRELATED in the code

ASSUME SessionAssumption ==
    /\ MaxSequence \in Nat \ {0}
    /\ MaxUnrelated \in Nat \ {0}
    /\ SeenLimit \in Nat \ {0}

VARIABLES
    session_sequence_number,    \* next outbound number
    last_inbound_sequence,      \* Option<u32>, 0 for None
    sol,                        \* sol.is_some()
    pc,                         \* where the owner's call stands
    call,                       \* local variables of a receiving call
    expired,                    \* the operation's deadline has passed
    cancelled,                  \* the cancellation token
    result,                     \* outcome of the last call
    consumed,                   \* history: times a number was acted upon
    sent,                       \* history: times a number was on the wire
    request_sent,               \* history: the request may be on the wire
    reads                       \* history: datagrams read by the call

out_vars == <<session_sequence_number, sent>>
env_vars == <<expired, cancelled>>
history  == <<consumed, request_sent, reads>>
vars == <<out_vars, last_inbound_sequence, sol, pc, call, env_vars, result,
          history, ipmb_vars>>

Sequences == 1..MaxSequence
Outcomes == {"none", "sent", "send_failed", "send_unknown", "no_pending",
             "response", "outcome_unknown", "sol_ready", "sol_failed"}

(***************************************************************************)
(* The local variables of recv() and poll_sol(); `polled` is polls > 0,    *)
(* next_probe tells whether the instant has come, `frame` what follows the *)
(* acknowledgement of a SOL frame.                                         *)
(***************************************************************************)
Call == [kind : {"none", "recv", "poll_sol"}, seen : SUBSET Sequences,
         unrelated : 0..(MaxUnrelated - 1), polled : BOOLEAN,
         next_probe : {"none", "armed", "ready"},
         frame : {"none", "accepted", "stopped"}]

NoCall == [kind |-> "none", seen |-> {}, unrelated |-> 0, polled |-> FALSE,
           next_probe |-> "none", frame |-> "none"]

TypeOK ==
    /\ IpmbTypeOK
    /\ session_sequence_number \in Sequences
    /\ last_inbound_sequence \in 0..MaxSequence
    /\ sol \in BOOLEAN
    /\ pc \in {"idle", "sending", "loop", "receive", "ack", "lost"}
    /\ call \in Call
    /\ expired \in BOOLEAN
    /\ cancelled \in BOOLEAN
    /\ result \in Outcomes
    /\ consumed \in [Sequences -> Nat]
    /\ sent \in [Sequences -> Nat]
    /\ request_sent \in BOOLEAN
    /\ reads \in Nat

Init ==
    /\ IpmbInit
    /\ session_sequence_number = 1
    /\ last_inbound_sequence = 0
    /\ sol = FALSE
    /\ pc = "idle"
    /\ call = NoCall
    /\ expired = FALSE
    /\ cancelled = FALSE
    /\ result = "none"
    /\ consumed = [s \in Sequences |-> 0]
    /\ sent = [s \in Sequences |-> 0]
    /\ request_sent = FALSE
    /\ reads = 0

-----------------------------------------------------------------------------
(***************************************************************************)
(* Time and the other thread.                                              *)
(***************************************************************************)

Elsewhere == UNCHANGED <<out_vars, last_inbound_sequence, sol, pc, result, history,
                         ipmb_vars>>

\* The deadline of the running call, or of a request sent and not received.
DeadlinePasses ==
    /\ pc # "idle" \/ waiting
    /\ ~ expired
    /\ expired' = TRUE
    /\ Elsewhere /\ UNCHANGED <<call, cancelled>>

ProbeDue ==
    /\ call.next_probe = "armed"
    /\ call' = [call EXCEPT !.next_probe = "ready"]
    /\ Elsewhere /\ UNCHANGED env_vars

\* cancel() from any thread, reset() from the owner between two calls.
Cancel ==
    /\ cancelled => pc = "idle"
    /\ cancelled' = ~ cancelled
    /\ Elsewhere /\ UNCHANGED <<call, expired>>

-----------------------------------------------------------------------------
(***************************************************************************)
(* Putting a datagram on the wire.                                         *)
(***************************************************************************)

\* The checks send_payload() and send_sol_frame() make first.
SendRefused(late) == cancelled \/ late \/ session_sequence_number = MaxSequence

(***************************************************************************)
(* What becomes of a datagram.  Past the checks it is sent, not encoded,   *)
(* or cancelled, expired or failed inside the socket, before or after the  *)
(* kernel took it: the caller sees the same I/O error for these two.       *)
(***************************************************************************)
Fates == {"ok", "refused", "unencodable", "io_unsent", "io_sent"}
OnWire == {"ok", "io_sent"}

\* Faulty variant: a number is taken only when the datagram is known sent.
Transmit_CountAfter(fate, late) ==
    /\ SendRefused(late) <=> fate = "refused"
    /\ session_sequence_number' = session_sequence_number + (IF fate = "ok" THEN 1 ELSE 0)
    /\ sent' = [sent EXCEPT ![session_sequence_number] =
                               @ + (IF fate \in OnWire THEN 1 ELSE 0)]

\* Past the checks the number is taken, whatever comes of the datagram.
Transmit(fate, late) ==
    /\ SendRefused(late) <=> fate = "refused"
    /\ session_sequence_number' =
          session_sequence_number + (IF fate = "refused" THEN 0 ELSE 1)
    /\ sent' = [sent EXCEPT ![session_sequence_number] =
                               @ + (IF fate \in OnWire THEN 1 ELSE 0)]

\* Faulty variant: every failed send is reported as not sent.
into_operation_error_Definite(fate) == "send_failed"

into_operation_error(fate) ==
    IF fate \in {"io_unsent", "io_sent"} THEN "send_unknown" ELSE "send_failed"

-----------------------------------------------------------------------------
(***************************************************************************)
(* send().                                                                 *)
(***************************************************************************)

\* A new operation has a new deadline; cancelled and exhausted are refused.
SendBegin ==
    /\ pc = "idle"
    /\ ~ SendRefused(FALSE)
    /\ IpmbBegin
    /\ expired' = FALSE
    /\ pc' = "sending"
    /\ request_sent' = FALSE
    /\ UNCHANGED <<out_vars, last_inbound_sequence, sol, call, cancelled, result,
                   consumed, reads>>

\* Cancelled, expired, exhausted, or refused by begin(): nothing was sent.
SendRejected ==
    /\ pc = "idle"
    /\ result' = "send_failed"
    /\ request_sent' = FALSE
    /\ UNCHANGED <<out_vars, last_inbound_sequence, sol, pc, call, env_vars,
                   consumed, reads, ipmb_vars>>

\* send_payload() repeats the checks of send(): time has passed in between.
SendPayload(fate) ==
    /\ pc = "sending"
    /\ Transmit(fate, expired)
    /\ IF fate = "ok" THEN UNCHANGED ipmb_vars ELSE IpmbRetire
    /\ pc' = "idle"
    /\ result' = IF fate = "ok" THEN "sent" ELSE into_operation_error(fate)
    /\ request_sent' = (fate \in OnWire)
    /\ UNCHANGED <<last_inbound_sequence, sol, call, env_vars, consumed, reads>>

-----------------------------------------------------------------------------
(***************************************************************************)
(* Entering and leaving recv() and poll_sol().                             *)
(***************************************************************************)

Enter(kind, where) ==
    /\ pc = "idle"
    /\ pc' = where
    /\ call' = [NoCall EXCEPT !.kind = kind]
    /\ reads' = 0
    /\ UNCHANGED <<out_vars, last_inbound_sequence, sol, cancelled, result,
                   consumed, request_sent, ipmb_vars>>

Recv == waiting /\ Enter("recv", "loop") /\ UNCHANGED expired

RecvNothing ==
    /\ pc = "idle"
    /\ ~ waiting
    /\ result' = "no_pending"
    /\ UNCHANGED <<out_vars, last_inbound_sequence, sol, pc, call, env_vars,
                   history, ipmb_vars>>

\* A SOL session polls between its own requests, never while one is pending.
PollSol == sol /\ ~ waiting /\ Enter("poll_sol", "receive") /\ expired' = FALSE

\* sol_open() before Activate Payload, sol_close() after Deactivate Payload or
\* a refused activation: a SOL session owns the connection in between.
SetSol(open) ==
    /\ pc = "idle"
    /\ ~ waiting
    /\ sol' = open
    /\ UNCHANGED <<out_vars, last_inbound_sequence, pc, call, env_vars, result,
                   history, ipmb_vars>>

\* Faulty variant: the smallest number of the call is committed.
commit_session_sequences_Lowest(S) ==
    last_inbound_sequence' = IF S = {} THEN last_inbound_sequence ELSE Min(S)

commit_session_sequences(S) ==
    last_inbound_sequence' = IF S = {} THEN last_inbound_sequence ELSE Max(S)

\* Faulty variant: recv() retires its request only when it was answered.
Finish_KeepsPending(S, outcome) ==
    /\ commit_session_sequences(S)
    /\ IF outcome = "response" THEN IpmbRetire ELSE UNCHANGED ipmb_vars
    /\ pc' = "idle"
    /\ call' = NoCall
    /\ result' = outcome

\* The call returns, having seen the numbers S; recv() retires its request.
Finish(S, outcome) ==
    /\ commit_session_sequences(S)
    /\ IF call.kind = "recv" THEN IpmbRetire ELSE UNCHANGED ipmb_vars
    /\ pc' = "idle"
    /\ call' = NoCall
    /\ result' = outcome

Fail(S) == Finish(S, IF call.kind = "recv" THEN "outcome_unknown" ELSE "sol_failed")

\* The call goes on at `where`, having seen the numbers S and counted n more
\* unrelated datagrams; poll_sol() commits after every datagram.
Continue(S, n, where) ==
    /\ IF call.kind = "recv"
       THEN /\ call' = [call EXCEPT !.seen = S, !.unrelated = @ + n, !.frame = "none"]
            /\ UNCHANGED last_inbound_sequence
       ELSE /\ call' = [call EXCEPT !.seen = {}, !.unrelated = @ + n, !.frame = "none"]
            /\ commit_session_sequences(S)
    /\ pc' = where
    /\ UNCHANGED result

\* Faulty variant: the limit itself is let through.
LastUnrelated_OffByOne == call.unrelated >= MaxUnrelated

\* count_unrelated() fails when it reaches the limit.
LastUnrelated == call.unrelated + 1 >= MaxUnrelated

Unrelated(S, where) ==
    \/ LastUnrelated /\ Fail(S)
    \/ ~ LastUnrelated /\ Continue(S, 1, where) /\ UNCHANGED ipmb_vars

-----------------------------------------------------------------------------
(***************************************************************************)
(* The top of recv()'s loop: polling the BMC's queue.                      *)
(***************************************************************************)

\* With a poll already sent and nothing known to be queued, the next waits.
Postponed == call.polled /\ ~ queue_available /\ call.next_probe # "ready"

NoPoll ==
    /\ pc = "loop"
    /\ needs_poll => Postponed
    /\ call' = [call EXCEPT !.next_probe = IF needs_poll THEN "armed" ELSE "none"]
    /\ pc' = "receive"
    /\ UNCHANGED <<out_vars, last_inbound_sequence, sol, env_vars, result, history,
                   ipmb_vars>>

\* IpmbSequenceReserved, or IpmbSequenceExhausted and stop_polling().
PollRefused ==
    /\ pc = "loop"
    /\ ~ Postponed
    /\ IpmbPollRefused
    /\ call' = [call EXCEPT !.next_probe = "none"]
    /\ UNCHANGED <<out_vars, last_inbound_sequence, sol, pc, env_vars, result, history>>

Poll(fate) ==
    /\ pc = "loop"
    /\ ~ Postponed
    /\ IpmbPoll
    /\ Transmit(fate, expired)
    /\ call' = [call EXCEPT !.next_probe = "none", !.polled = TRUE]
    /\ pc' = IF fate = "ok" THEN "receive" ELSE "lost"
    /\ UNCHANGED <<last_inbound_sequence, sol, env_vars, result, history>>

\* Faulty variant: every timeout of a receive goes back to the loop.
GiveUp_Continues ==
    /\ pc = "receive" /\ expired
    /\ pc' = "loop"
    /\ UNCHANGED <<out_vars, last_inbound_sequence, sol, call, env_vars, result,
                   history, ipmb_vars>>

\* The call ends with BridgePollSend, at its deadline or by cancellation.
GiveUp ==
    /\ pc = "lost" \/ (pc = "receive" /\ (expired \/ cancelled))
    /\ Fail(call.seen)
    /\ UNCHANGED <<out_vars, sol, env_vars, history>>

\* receive_deadline was the next probe's: look at the queue again.
ProbeTimeout ==
    /\ pc = "receive"
    /\ call.next_probe = "ready"
    /\ pc' = "loop"
    /\ UNCHANGED <<out_vars, last_inbound_sequence, sol, call, env_vars, result,
                   history, ipmb_vars>>

-----------------------------------------------------------------------------
(***************************************************************************)
(* receive_one(): reading a datagram.                                      *)
(***************************************************************************)

Read ==
    /\ pc = "receive"
    /\ reads' = reads + 1
    /\ UNCHANGED <<out_vars, sol, env_vars, request_sent>>

Consume(s) == consumed' = [consumed EXCEPT ![s] = @ + 1]

\* A datagram of another RMCP class: recv_until_with_budget() reads on.
ReadForeign == Read /\ Unrelated(call.seen, "receive") /\ UNCHANGED consumed

\* A bad RMCP header, an unreadable or oversized payload, a socket error.
ReadBroken == Read /\ Fail(call.seen) /\ UNCHANGED consumed

\* Faulty variant: only numbers committed by earlier calls are remembered.
Fresh_CommittedOnly(s) == s # 0 /\ s > last_inbound_sequence

Fresh(s) == s # 0 /\ s > last_inbound_sequence /\ s \notin call.seen

\* Faulty variant: the list of numbers seen has no bound.
Room_Unbounded == TRUE

Room == Cardinality(call.seen) < SeenLimit

(***************************************************************************)
(* A datagram of another session, one whose number is not fresh, one of    *)
(* another payload type, an IPMI reply with no request pending, SOL with   *)
(* no flow: recv() counts and survives them, poll_sol() ends.              *)
(***************************************************************************)
ReadMismatch(kind, s) ==
    /\ CASE kind = "stranger" -> TRUE
         [] kind = "stale"    -> ~ Fresh(s)
         [] kind = "ipmi"     -> Fresh(s) /\ Room /\ ~ waiting
         [] kind = "sol"      -> Fresh(s) /\ Room /\ ~ sol
         [] kind = "other"    -> Fresh(s) /\ Room
    /\ Read
    /\ IF call.kind = "recv" THEN Unrelated(call.seen, "loop") ELSE Fail(call.seen)
    /\ UNCHANGED consumed

ReadTooMany(s) ==
    /\ Fresh(s)
    /\ ~ Room
    /\ Read
    /\ Fail(call.seen)
    /\ UNCHANGED consumed

-----------------------------------------------------------------------------
(***************************************************************************)
(* receive_one(): an IPMI message.                                         *)
(***************************************************************************)

ReadIpmi(s) == Fresh(s) /\ Room /\ waiting /\ Read

ReadResponse(s) ==
    /\ ReadIpmi(s)
    /\ Consume(s)
    /\ Finish(call.seen \cup {s}, "response")

\* A SOL session sends no bridged request, and only those need polls.
ReceiveUnanswered == IpmbReceive /\ (sol => ~ needs_poll')

\* Drained without a response.  While a poll is due it is not counted.
ReadDrained(s) ==
    /\ ReadIpmi(s)
    /\ Consume(s)
    /\ LET S == call.seen \cup {s} IN
       \/ ReceiveUnanswered /\ needs_poll' /\ Continue(S, 0, "loop")
       \/ ~ LastUnrelated /\ ReceiveUnanswered /\ ~ needs_poll' /\ Continue(S, 1, "loop")
       \/ LastUnrelated /\ Fail(S)

\* receive() rejects the message, whose number stays unseen.
ReadRejected(s) ==
    /\ ReadIpmi(s)
    /\ \/ ~ LastUnrelated /\ ReceiveUnanswered /\ Continue(call.seen, 1, "loop")
       \/ Fail(call.seen)
    /\ UNCHANGED consumed

-----------------------------------------------------------------------------
(***************************************************************************)
(* receive_one(): a SOL frame.                                             *)
(***************************************************************************)

ReadSol(s) == Fresh(s) /\ Room /\ sol /\ Read /\ Consume(s)

\* Undecodable, or rejected or stopped with no acknowledgement to send.
ReadSolFatal(s) == ReadSol(s) /\ Fail(call.seen \cup {s})

\* A frame with data is acknowledged first, a rejected one refused; `then`
\* is what follows.
ReadSolData(s, then) ==
    /\ ReadSol(s)
    /\ call' = [call EXCEPT !.seen = @ \cup {s}, !.frame = then]
    /\ pc' = "ack"
    /\ UNCHANGED <<last_inbound_sequence, result, ipmb_vars>>

\* Ok(None) for a SOL frame: poll_sol() may have what it waits for.
SolAccepted(S) ==
    \/ call.kind = "poll_sol" /\ Finish(S, "sol_ready")
    \/ Unrelated(S, IF call.kind = "recv" THEN "loop" ELSE "receive")

\* A frame without data.
ReadSolBare(s) == ReadSol(s) /\ SolAccepted(call.seen \cup {s})

\* The acknowledgement; without it, or after a rejected or stopping frame,
\* the call fails.
SendAck(fate) ==
    /\ pc = "ack"
    /\ Transmit(fate, expired)
    /\ IF fate = "ok" /\ call.frame = "accepted"
       THEN SolAccepted(call.seen)
       ELSE Fail(call.seen)
    /\ UNCHANGED <<sol, env_vars, history>>

-----------------------------------------------------------------------------
Environment == DeadlinePasses \/ ProbeDue \/ Cancel

Caller ==
    \/ SendBegin
    \/ SendRejected
    \/ Recv
    \/ RecvNothing
    \/ PollSol
    \/ \E open \in BOOLEAN : SetSol(open)

\* The call's own steps, which need nothing from the network.
Step ==
    \/ \E fate \in Fates : SendPayload(fate) \/ Poll(fate) \/ SendAck(fate)
    \/ NoPoll
    \/ PollRefused
    \/ GiveUp
    \/ ProbeTimeout

Kinds == {"stranger", "stale", "ipmi", "sol", "other"}

Network ==
    \/ ReadForeign
    \/ ReadBroken
    \/ \E s \in 0..MaxSequence, kind \in Kinds : ReadMismatch(kind, s)
    \/ \E s \in Sequences :
          \/ ReadTooMany(s)
          \/ ReadResponse(s)
          \/ ReadDrained(s)
          \/ ReadRejected(s)
          \/ ReadSolFatal(s)
          \/ \E then \in {"accepted", "stopped"} : ReadSolData(s, then)
          \/ ReadSolBare(s)

Next == Environment \/ Caller \/ Step \/ Network

Spec == Init /\ [][Next]_vars

\* Time passes and the owner's thread runs.
FairSpec ==
    /\ Spec
    /\ WF_vars(DeadlinePasses)
    /\ WF_vars(Step)

-----------------------------------------------------------------------------
(***************************************************************************)
(* Properties.                                                             *)
(***************************************************************************)

\* No inbound session sequence number is acted upon twice, whatever mixture
\* of recv() and poll_sol() read the copies, whichever of them failed, and
\* although a call accepts numbers out of order (seen, last_inbound_sequence).
ConsumedOnce == \A s \in Sequences : consumed[s] <= 1

\* No outbound session sequence number is on the wire twice and the last one
\* never is: not after failed sends, nor for polls and SOL acknowledgements
\* that share the counter.
SentOnce ==
    \A s \in Sequences : sent[s] <= IF s < session_sequence_number THEN 1 ELSE 0

\* An error that promises that the request was not sent is right: only
\* SendOutcomeUnknown and later errors leave room for an executed request.
DefiniteFailure == result = "send_failed" /\ pc = "idle" => ~ request_sent

\* A call reads a bounded number of datagrams, although those that leave a
\* poll due are not counted as unrelated (seen, MAX_UNRELATED).
ReadsBounded == reads <= SeenLimit + MaxUnrelated

\* recv() never leaves its request pending: a failed call must not have
\* every later one refused (retire_pending()).
NothingLeftPending ==
    pc = "idle" /\ result \in {"response", "outcome_unknown"} => ~ waiting

\* A datagram is acted upon only if its session sequence number is above that
\* of every datagram acted upon before: reordered ones are rejected.
ReorderedRejected ==
    [][\A s \in Sequences : consumed'[s] > consumed[s] =>
          \A t \in Sequences : consumed[t] > 0 => t < s]_vars

\* Every call ends: at its deadline if nothing else ends it.
CallsEnd == pc # "idle" ~> pc = "idle"
=============================================================================
