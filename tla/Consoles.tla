------------------------------- MODULE Consoles -------------------------------
(***************************************************************************)
(* The serial consoles of ipmi-rs/src/rmcp/ together: the output of SOL    *)
(* (SolFlow), its input (SolInput), the life of a SOL console (SolSession) *)
(* and the Tyan console (TyanSol).  A behaviour is one of these programs;  *)
(* the others' variables keep their first values.                          *)
(***************************************************************************)
EXTENDS SolFlow

CONSTANTS
    ChunkSize, MaxRetransmissions, MaxControls, MaxUnderWay,    \* of SolInput
    MaxInput,                                                   \* of SolInput and TyanSol
    MaxSessions, MaxOutput,                                     \* of SolSession, MaxOutput of TyanSol too
    MaxUnrelated                                                \* of TyanSol

\* send_input() refuses to run with chunks of 0.
ASSUME InputAssumption == ChunkSize \in Nat \ {0} /\ MaxInput \in Nat
ASSUME BoundsAssumption ==
    /\ MaxRetransmissions \in Nat /\ MaxControls \in Nat /\ MaxSessions \in Nat /\ MaxOutput \in Nat
    /\ MaxUnrelated \in Nat \ {0}

VARIABLES
    program,
    pc, cancelled, report, returned, dropped,
    \* SolInput.
    next_input_sequence, waiting_for_ack, input_ack, first, last, confirmed, chunk_left,
    partials, attempt, control, controls, uncertain, packets, repeated, copies, bmc_last,
    received, executed, newest, overtaken,
    \* SolSession.
    session, flow, handle, remote_close_unconfirmed, op, queue, answer, payload, sessions,
    acknowledged, doubtful, told,
    \* TyanSol.
    call, active, privileged, due, pending, unrelated, streaming, typed, keys, doubts, arrived

inputOwn == <<next_input_sequence, waiting_for_ack, input_ack, first, last, chunk_left,
              partials, attempt, control, controls, uncertain, packets, repeated,
              copies, bmc_last, received, executed, newest, overtaken>>
sessionOwn == <<session, flow, handle, remote_close_unconfirmed, op, queue, answer, payload,
                sessions, acknowledged, doubtful, told>>
tyanOwn == <<call, active, privileged, due, pending, unrelated, streaming, typed, keys, doubts, arrived>>
flowOwn == <<flow_vars, stopped, delivered, bmc_vars>>
wires == <<frames, acks>>
allVars == <<program, vars, pc, cancelled, report, returned, dropped, confirmed, inputOwn, sessionOwn, tyanOwn>>

Input == INSTANCE SolInput
Session == INSTANCE SolSession WITH delivered <- returned
Tyan == INSTANCE TyanSol

InputOff ==
    /\ next_input_sequence = 0 /\ waiting_for_ack = 0 /\ input_ack = 0 /\ first = 0 /\ last = 0
    /\ chunk_left = 0 /\ partials = 0 /\ attempt = 0 /\ control = 0 /\ controls = 0
    /\ uncertain = 0 /\ packets = 0 /\ repeated = 0 /\ copies = 0 /\ bmc_last = 0 /\ received = 0
    /\ executed = 0 /\ newest = 0 /\ overtaken = 0
SessionOff ==
    /\ session = 0 /\ flow = 0 /\ handle = 0 /\ remote_close_unconfirmed = 0 /\ op = 0 /\ queue = 0
    /\ answer = 0 /\ payload = 0 /\ sessions = 0 /\ acknowledged = 0 /\ doubtful = 0 /\ told = 0
TyanOff ==
    /\ call = 0 /\ active = 0 /\ privileged = 0 /\ due = 0 /\ pending = 0 /\ unrelated = 0
    /\ streaming = 0 /\ typed = 0 /\ keys = 0 /\ doubts = 0 /\ arrived = 0
CallsOff == cancelled = 0 /\ report = 0 /\ returned = 0 /\ dropped = 0

ConsolesInit ==
    /\ Init
    /\ \/ /\ program = "flow" /\ InputOff /\ SessionOff /\ TyanOff /\ CallsOff /\ pc = "idle" /\ confirmed = 0
       \/ /\ program = "input" /\ resend = "same"
          /\ Input!Init /\ SessionOff /\ TyanOff /\ CallsOff
       \/ /\ program = "session" /\ resend = "same"
          /\ Session!Init /\ InputOff /\ TyanOff /\ confirmed = 0
       \/ /\ program = "tyan" /\ resend = "same"
          /\ Tyan!Init /\ InputOff /\ SessionOff

RunFlow ==
    /\ program = "flow" /\ Next
    /\ UNCHANGED <<program, pc, cancelled, report, returned, dropped, confirmed, inputOwn, sessionOwn, tyanOwn>>
RunInput ==
    /\ program = "input" /\ Input!Next
    /\ UNCHANGED <<program, frames, cancelled, report, returned, dropped, flowOwn, sessionOwn, tyanOwn>>
RunSession ==
    /\ program = "session" /\ Session!Next
    /\ UNCHANGED <<program, flowOwn, wires, confirmed, inputOwn, tyanOwn>>
RunTyan ==
    /\ program = "tyan" /\ Tyan!Next
    /\ UNCHANGED <<program, flowOwn, wires, inputOwn, sessionOwn>>

ConsolesNext == RunFlow \/ RunInput \/ RunSession \/ RunTyan

(* The caller keeps reading and the BMC keeps trying, and of the datagrams *)
(* sent over and over some arrive; the thread in send_input() runs, and    *)
(* the time it waits for an answer passes.                                 *)
ConsolesSpec ==
    /\ ConsolesInit /\ [][ConsolesNext]_allVars
    /\ WF_vars(program = "flow" /\ ReadOutput(1))
    /\ WF_vars(program = "flow" /\ BmcSend(1))
    /\ WF_vars(program = "flow" /\ BmcRepeat(Len(sending)))
    /\ SF_vars(program = "flow" /\ (ReceiveAccepted(TRUE) \/ ReceiveRefused))
    /\ SF_vars(program = "flow" /\ BmcAcked)
    /\ WF_<<pc, acks, confirmed, inputOwn>>(program = "input" /\ Input!Step)
-----------------------------------------------------------------------------
ConsolesTypeOK ==
    /\ program = "flow" => TypeOK
    /\ program = "input" => Input!TypeOK
    /\ program = "session" => Session!TypeOK
    /\ program = "tyan" => Tyan!TypeOK

(* Output that the BMC counts as taken (acknowledged, or a datagram of the *)
(* Tyan listener) reaches the caller or is still queued: on every path out *)
(* of every operation, by a read or with the error that ends the console.  *)
OutputKept ==
    /\ program = "flow" => AcknowledgedKept
    /\ program = "session" => Session!OutputAccounted
    /\ program = "tyan" => Tyan!OutputAccounted

(* Everything printed is read in the end, or the stream is interrupted: a  *)
(* full queue and partial acceptances do not bring it to a standstill.     *)
PrintedIsRead == program = "flow" => AllDelivered

(* The BMC accepts input once and in order, although packets are repeated  *)
(* while they or their acknowledgements are on the way, in any order.  It  *)
(* takes a packet twice only when an old copy overtakes a newer packet,    *)
(* and never one that was sent once (SolInput!InputOnce).                  *)
InputInOrder == program = "input" => Input!InputOnce

(* What send_input(), send_control() and the Tyan send_input() report of   *)
(* the input is exact: what is confirmed arrived, and what is neither      *)
(* confirmed nor uncertain did not.                                        *)
ReportExact ==
    /\ program = "input" => Input!ConfirmedArrived /\ Input!CertainIsExact
    /\ program = "tyan" => Tyan!KeysExact

(* send_input() ends without the help of its deadline.                     *)
InputCallsEnd == program = "input" => Input!InputEnds

(* A report that leaves out remote_close_unconfirmed is right: the payload,*)
(* or the Tyan stream, is not active.                                      *)
CloseTruthful ==
    /\ program = "session" => Session!ClosedIsClosed
    /\ program = "tyan" => Tyan!StoppedIsStopped

(* A payload is never left active without a report that said so            *)
(* (SolSession!OrphansReported).                                           *)
OrphansTold == program = "session" => Session!OrphansReported
===============================================================================
