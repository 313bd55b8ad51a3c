------------------------------- MODULE RmcpV15 -------------------------------
(***************************************************************************)
(* An IPMI 1.5 session (rmcp/v1_5): Get Session Challenge outside of any   *)
(* session, Activate Session in the temporary one, then the requests of    *)
(* the session itself, all through the same send() and recv().  Datagrams  *)
(* may be lost, late, doubled and reordered: what was ever sent stays in   *)
(* `air'.  What the correlation of IPMB replies (IpmbState) makes of a     *)
(* datagram that the session lets through is left open.                    *)
(***************************************************************************)
EXTENDS Integers, FiniteSets, FiniteSetsExt

CONSTANTS
    Top,            \* u32::MAX, the last session sequence number
    InitialSequences, \* what the BMC may name as first outbound number
    Strays          \* MAX_UNRELATED

VARIABLES
    pc,
    stage,          \* the exchange: challenge, activate, active, or failed
    session, session_sequence, last_inbound_sequence,
    activated, cancellation, taken, strays,
    air,            \* every datagram ever sent to the console
    bmc_sequence,   \* the BMC's last number in this session
    accepted,       \* numbers let through after activation; `twice': one of
    twice,          \* them again
    left,           \* may the last request have left the host?
    result
own == <<stage, session, session_sequence, last_inbound_sequence, activated, cancellation, taken,
         strays, air, bmc_sequence, accepted, twice, left, result>>
vars == <<pc, own>>

Init ==
    /\ pc = "ready" /\ stage = "challenge" /\ session = "none" /\ session_sequence = 0
    /\ last_inbound_sequence = 0 /\ activated = FALSE /\ cancellation = FALSE
    /\ taken = {} /\ strays = 0 /\ air = {} /\ bmc_sequence = 0
    /\ accepted = {} /\ twice = FALSE /\ left = FALSE /\ result = "none"

Exhausted == session # "none" /\ session_sequence = Top
-----------------------------------------------------------------------------
(* A failed exchange ends the activation; a failed request does not end    *)
(* the session.                                                            *)
End(r) ==
    /\ pc' = "ready" /\ result' = r
    /\ stage' = IF stage = "active" THEN stage ELSE "failed"

(* send(): refused before the request has a number -- the token, the       *)
(* deadline, the numbers used up, and what IpmbState refuses.              *)
SendRefused ==
    /\ pc = "ready" /\ stage # "failed"
    /\ End("refused") /\ left' = FALSE
    /\ UNCHANGED <<session, session_sequence, last_inbound_sequence, activated, cancellation, taken,
                   strays, air, bmc_sequence, accepted, twice>>

(* send_payload(): the number is used up before the datagram is built and  *)
(* written; a session has one, the challenge goes without.                 *)
SendPayload(written) ==
    /\ ~Exhausted /\ ~cancellation
    /\ session_sequence' = IF session = "none" THEN 0 ELSE session_sequence + 1
    /\ left' = written

Send ==
    /\ pc = "ready" /\ stage # "failed"
    /\ \/ SendPayload(TRUE) /\ pc' = "receiving" /\ UNCHANGED <<stage, result>>
       \/ \E written \in BOOLEAN :                   \* the socket reports an error
              SendPayload(written) /\ End("unknown")
       \/ SendPayload(FALSE) /\ End("refused")       \* no password, or too long
    /\ strays' = 0
    /\ UNCHANGED <<session, last_inbound_sequence, activated, cancellation, taken,
                   air, bmc_sequence, accepted, twice>>

(* The poll for a bridged reply; a failed one ends the call.               *)
Commit == last_inbound_sequence' = IF taken = {} THEN last_inbound_sequence ELSE Max(taken)
(* A failed end of recv(): the highest number of the call is remembered.   *)
Fail == End("unknown") /\ Commit /\ taken' = {}

Poll ==
    /\ pc = "receiving" /\ stage = "active"
    /\ \/ SendPayload(TRUE) /\ UNCHANGED <<pc, stage, result, last_inbound_sequence, taken>>
       \/ Fail /\ session_sequence' \in {session_sequence, Min({session_sequence + 1, Top})} /\ UNCHANGED left
    /\ UNCHANGED <<session, activated, cancellation, strays, air, bmc_sequence, accepted, twice>>
-----------------------------------------------------------------------------
(* recv(): what is not of this session, or not new in it.                  *)
Outside(d) == session # "none" /\ d.session # session
Stale(d) ==
    activated /\ (d.number = 0 \/ d.number <= last_inbound_sequence \/ d.number \in taken)

Unrelated ==
    IF strays + 1 < Strays
    THEN strays' = strays + 1 /\ UNCHANGED <<pc, stage, result, last_inbound_sequence, taken>>
    ELSE Fail /\ UNCHANGED strays

(* Dropped by the session, or by IpmbState, which then does not mark it.   *)
Drop(d) ==
    /\ pc = "receiving" /\ d \in air
    /\ Unrelated
    /\ UNCHANGED <<session, session_sequence, activated, cancellation, air, bmc_sequence,
                   accepted, twice, left>>

Through(d) == pc = "receiving" /\ d \in air /\ ~Outside(d) /\ ~Stale(d)
Consume(d) ==
    /\ twice' = (twice \/ (activated /\ d.number \in accepted))
    /\ accepted' = IF activated THEN accepted \union {d.number} ELSE accepted

(* A part of the reply: an acknowledgement, or an empty answer to a poll.  *)
(* IpmbState takes fewer of these in a call than the list of numbers holds. *)
Partial(d) ==
    /\ Through(d) /\ activated /\ Consume(d)
    /\ taken' = taken \union {d.number}
    /\ UNCHANGED <<pc, stage, session, session_sequence, last_inbound_sequence, activated,
                   cancellation, strays, air, bmc_sequence, left, result>>

(* The answer of an exchange.  Of the challenge: the temporary session.    *)
Challenged(d) ==
    /\ stage = "challenge" /\ Through(d)
    /\ stage' = "activate" /\ session' = "temporary" /\ pc' = "ready"
    /\ UNCHANGED <<session_sequence, last_inbound_sequence, activated, cancellation, taken, strays,
                   air, bmc_sequence, accepted, twice, left, result>>

(* Of Activate Session: the session (its id may be the temporary one), its *)
(* first number, and from now on the numbers of the BMC count.             *)
Activated(d) ==
    /\ stage = "activate" /\ Through(d)
    /\ \E initial \in InitialSequences, id \in {"temporary", "own"} :
          session_sequence' = initial /\ session' = id
    /\ stage' = "active" /\ pc' = "ready" /\ activated' = TRUE /\ last_inbound_sequence' = 0
    /\ UNCHANGED <<cancellation, taken, strays, air, bmc_sequence, accepted, twice, left, result>>

Answered(d) ==
    /\ stage = "active" /\ Through(d) /\ Consume(d)
    /\ last_inbound_sequence' = Max(taken \union {d.number}) /\ taken' = {}
    /\ pc' = "ready" /\ result' = "answer"
    /\ UNCHANGED <<stage, session, session_sequence, activated, cancellation, strays, air,
                   bmc_sequence, left>>

(* The deadline, the token, a datagram that cannot be read or checked, or  *)
(* an answer that the command cannot parse: the number is not recorded.    *)
Broken ==
    /\ pc = "receiving" /\ Fail
    /\ UNCHANGED <<session, session_sequence, activated, cancellation, strays, air, bmc_sequence,
                   accepted, twice, left>>
-----------------------------------------------------------------------------
(* The BMC sends: in the session under the next number, outside of it, in  *)
(* the temporary session without numbers.  The caller cancels, and resets  *)
(* the token after the call.                                               *)
Bmc ==
    /\ \/ /\ stage = "active" /\ bmc_sequence < Top
          /\ bmc_sequence' = bmc_sequence + 1
          /\ air' = air \union {[session |-> session, number |-> bmc_sequence + 1]}
       \/ /\ \E s \in {"none", session} : air' = air \union {[session |-> s, number |-> 0]}
          /\ UNCHANGED bmc_sequence
    /\ UNCHANGED <<pc, stage, session, session_sequence, last_inbound_sequence, activated,
                   cancellation, taken, strays, accepted, twice, left, result>>
Cancel ==
    /\ cancellation' = ~cancellation /\ (cancellation => pc = "ready")
    /\ UNCHANGED <<pc, stage, session, session_sequence, last_inbound_sequence, activated, taken,
                   strays, air, bmc_sequence, accepted, twice, left, result>>

Next ==
    \/ SendRefused \/ Send \/ Poll \/ Broken \/ Bmc \/ Cancel
    \/ \E d \in air : Drop(d) \/ Partial(d) \/ Challenged(d) \/ Activated(d) \/ Answered(d)

Spec == Init /\ [][Next]_vars
-----------------------------------------------------------------------------
TypeOK ==
    /\ pc \in {"ready", "receiving"} /\ stage \in {"challenge", "activate", "active", "failed"}
    /\ session \in {"none", "temporary", "own"} /\ session_sequence \in 0..Top
    /\ activated = (stage = "active") /\ strays < Strays
    /\ pc = "ready" => taken = {}

(* In an activated session no number of the BMC is let through twice, be   *)
(* it in one call or in two, and an error that promises that nothing was   *)
(* sent is right (v1_5/mod.rs, into_operation_error() of rmcp/mod.rs).     *)
TrafficOnce ==
    /\ ~twice
    /\ pc = "ready" /\ result = "refused" => ~left
=============================================================================
