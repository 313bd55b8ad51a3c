------------------------------- MODULE TyanSol -------------------------------
(***************************************************************************)
(* The Tyan console of ipmi-rs/src/rmcp/tyan_tsol.rs: a stream of UDP      *)
(* datagrams that the BMC sends to a listener, started, kept alive, typed  *)
(* into and stopped by commands of an IPMI 1.5 session.                    *)
(*                                                                         *)
(* A command may be executed although its answer is lost.  Nothing is sent *)
(* twice.  Every console has a listener of its own.  It borrows the        *)
(* connection, so that nothing else uses the session while it lives.       *)
(* Deadlines may pass at any time.                                         *)
(***************************************************************************)
EXTENDS Naturals

CONSTANTS
    MaxInput,           \* bound: calls of send_input()
    MaxOutput,          \* bound: characters the BMC sends
    MaxUnrelated        \* MAX_UNRELATED

VARIABLES
    pc,                 \* what the running call is about to do
    call,               \* the call and its local variables
    active, due,        \* the TsolSession, and: KEEPALIVE_INTERVAL has passed
    privileged,         \* tsol_capable() of the session
    pending, unrelated,
    cancelled, report,  \* the cancellation token; what the last call returned
    streaming,          \* external: the BMC sends to this listener
    typed, keys,        \* history: keystrokes sent, and executed by the BMC
    confirmed, doubts,  \* history: reported as confirmed, and as uncertain
    arrived, returned, dropped   \* history: characters received, and where they went

session == <<active, privileged, due>>
reading == <<pending, unrelated>>
counts == <<typed, keys, doubts, confirmed, arrived, returned, dropped>>

(* What becomes of a command: answered, refused by the BMC, not sent; or   *)
(* without an answer, executed or not.                                     *)
Fates == {"ok", "failed", "unsent", "executed", "lost"}
Executes == {"ok", "executed"}
may_have_executed_OnlyLost(fate) == fate = "lost"
may_have_executed(fate) == fate \in {"executed", "lost"}

NoCall == [name |-> "none", size |-> 0, uncertain |-> FALSE]
NoReport == [kind |-> "none", unconfirmed |-> FALSE]

TypeOK ==
    /\ pc \in {"none", "bound", "idle", "check", "keepalive", "receive", "key", "stop", "ended"}
    /\ call \in [name : {"none", "open", "read", "input", "close", "drop"}, size : 0..MaxOutput, uncertain : BOOLEAN]
    /\ {active, due, privileged, cancelled, streaming} \subseteq BOOLEAN
    /\ active => privileged
    /\ pc = "ended" => pending = 0
    /\ unrelated \in 0..(MaxUnrelated - 1)
    /\ report \in [kind : {"none", "failed", "start", "opened", "read", "sent", "interrupted", "closed"}, unconfirmed : BOOLEAN]

Init ==
    /\ pc = "none" /\ call = NoCall
    /\ active = FALSE /\ due = FALSE /\ privileged = FALSE
    /\ pending = 0 /\ unrelated = 0
    /\ cancelled = FALSE /\ report = NoReport /\ streaming = FALSE
    /\ typed = 0 /\ keys = 0 /\ confirmed = 0 /\ doubts = 0
    /\ arrived = 0 /\ returned = 0 /\ dropped = 0

Return(at, kind, unconfirmed) ==
    /\ pc' = at /\ call' = NoCall
    /\ report' = [kind |-> kind, unconfirmed |-> unconfirmed]
Begin(at, name, size) ==
    /\ pc' = at /\ call' = [name |-> name, size |-> size, uncertain |-> FALSE]
    /\ report' = NoReport
-----------------------------------------------------------------------------
(* open: the probes and the privilege, of which the old value is forgotten *)
(* before it is asked for; then the listener.                              *)
Preflight ==
    /\ pc = "none"
    /\ \/ /\ privileged' = FALSE \/ UNCHANGED privileged
          /\ Return("none", "failed", FALSE)
          /\ UNCHANGED streaming
       \/ /\ privileged' = TRUE
          /\ \/ Return("none", "failed", FALSE) /\ UNCHANGED streaming
             \/ Begin("bound", "open", 0) /\ streaming' = FALSE
    /\ UNCHANGED <<active, due, reading, cancelled, counts>>

(* A start that may have been executed is taken back.                      *)
Start ==
    /\ pc = "bound"
    /\ \E fate \in Fates :
        /\ streaming' = (fate \in Executes)
        /\ active' = (fate = "ok")
        /\ \/ fate = "ok" /\ Return("idle", "opened", FALSE)
           \/ fate # "ok" /\ ~may_have_executed(fate) /\ Return("none", "start", FALSE)
           \/ fate # "ok" /\ may_have_executed(fate) /\ pc' = "stop" /\ UNCHANGED <<call, report>>
    /\ due' = FALSE
    /\ UNCHANGED <<privileged, reading, cancelled, counts>>

(* interrupt(): the console is over, the BMC is told to stop once.         *)
EndSession(uncertain) ==
    /\ active' = FALSE
    /\ pc' = "stop" /\ call' = [call EXCEPT !.uncertain = uncertain]

TakePending == pending' = 0
ReadPending(n) == pending' = pending - n /\ returned' = returned + n

(* The BMC's stream after stop_bounded().                                  *)
StreamAfter(fate) == IF fate \in Executes THEN FALSE ELSE streaming
Stop ==
    /\ pc = "stop"
    /\ \E fate \in IF privileged THEN Fates ELSE {"unsent"} :
        LET unconfirmed == fate # "ok" IN
        /\ streaming' = StreamAfter(fate)
        /\ CASE call.name = "open" -> Return("none", "start", unconfirmed)
             [] call.name = "close" ->
                  Return("none", IF unconfirmed \/ pending > 0 THEN "interrupted" ELSE "closed", unconfirmed)
             [] call.name = "drop" -> Return("none", "none", FALSE)
             [] OTHER -> Return("ended", "interrupted", unconfirmed)
    /\ TakePending
    /\ IF call.name = "drop"
       THEN dropped' = dropped + pending /\ UNCHANGED returned
       ELSE returned' = returned + pending /\ UNCHANGED dropped
    /\ doubts' = IF call.uncertain THEN doubts + 1 ELSE doubts
    /\ UNCHANGED <<session, unrelated, cancelled, typed, keys, confirmed, arrived>>

(* close(), and the drop of a console that is not closed.                  *)
Close ==
    /\ pc = "idle"
    /\ \E name \in {"close", "drop"} : Begin("stop", name, 0)
    /\ active' = FALSE
    /\ UNCHANGED <<privileged, due, reading, cancelled, streaming, counts>>
(* An interrupted one refuses every call; its drop sends nothing.          *)
Release ==
    /\ pc = "ended"
    /\ Return("none", "none", FALSE)
    /\ UNCHANGED <<session, reading, cancelled, streaming, counts>>
-----------------------------------------------------------------------------
BeginRead ==
    /\ pc = "idle"
    /\ \E size \in 1..MaxOutput : Begin("check", "read", size)
    /\ unrelated' = 0
    /\ UNCHANGED <<session, pending, cancelled, streaming, counts>>

ReadWhatIsPending ==
    /\ pc \in {"check", "receive"} /\ pending > 0
    /\ ReadPending(IF call.size < pending THEN call.size ELSE pending)
    /\ Return("idle", "read", FALSE)
    /\ UNCHANGED <<session, unrelated, cancelled, streaming, typed, keys, doubts, confirmed, arrived, dropped>>

(* Pending output goes first when there is no time for a keep-alive.       *)
ReadGoesOn ==
    /\ pc = "check" /\ ~(pending > 0 /\ cancelled)
    /\ pc' = "keepalive"
    /\ UNCHANGED <<call, session, reading, cancelled, report, streaming, counts>>

(* keepalive_if_due(), of read_until() and send_input().                   *)
GoOn == pc' = IF call.name = "read" THEN "receive" ELSE "key"
Keepalive ==
    /\ pc = "keepalive"
    /\ \/ ~due /\ GoOn /\ UNCHANGED <<call, active, due>>
       \/ due /\ ~cancelled /\ GoOn /\ due' = FALSE /\ UNCHANGED <<call, active>>
       \/ due /\ EndSession(FALSE) /\ UNCHANGED due
    /\ UNCHANGED <<privileged, reading, cancelled, report, streaming, counts>>

Datagram ==
    /\ pc = "receive" /\ pending = 0 /\ ~cancelled
    /\ \E n \in 1..(MaxOutput - arrived) : pending' = n /\ arrived' = arrived + n
    /\ pc' = "check"
    /\ UNCHANGED <<call, session, unrelated, cancelled, report, streaming, typed, keys, doubts, confirmed, returned, dropped>>

(* From another host, or without data.                                     *)
OtherDatagram ==
    /\ pc = "receive" /\ pending = 0 /\ ~cancelled
    /\ IF unrelated + 1 >= MaxUnrelated
       THEN EndSession(FALSE) /\ UNCHANGED unrelated
       ELSE unrelated' = unrelated + 1 /\ pc' = "check" /\ UNCHANGED <<call, active>>
    /\ UNCHANGED <<privileged, due, pending, cancelled, report, streaming, counts>>

Waits ==
    /\ pc = "receive" /\ pending = 0 /\ ~cancelled
    /\ pc' = "check"
    /\ UNCHANGED <<call, session, reading, cancelled, report, streaming, counts>>

(* Cancelled, the deadline, an error of the socket, a malformed datagram.  *)
ReadFails ==
    /\ pc = "receive" /\ pending = 0
    /\ EndSession(FALSE)
    /\ UNCHANGED <<privileged, due, reading, cancelled, report, streaming, counts>>
-----------------------------------------------------------------------------
BeginInput ==
    /\ pc = "idle" /\ typed < MaxInput
    /\ IF cancelled
       THEN /\ call' = [NoCall EXCEPT !.name = "input"] /\ report' = NoReport
            /\ active' = FALSE /\ pc' = "stop"
       ELSE Begin("keepalive", "input", 0) /\ UNCHANGED active
    /\ UNCHANGED <<privileged, due, reading, cancelled, streaming, counts>>

Keystroke ==
    /\ pc = "key"
    /\ typed' = typed + 1
    /\ \E fate \in Fates :
        /\ keys' = IF fate \in Executes THEN keys + 1 ELSE keys
        /\ IF fate = "ok"
           THEN /\ confirmed' = confirmed + 1 /\ due' = FALSE
                /\ Return("idle", "sent", FALSE) /\ UNCHANGED active
           ELSE EndSession(may_have_executed(fate)) /\ UNCHANGED <<confirmed, due, report>>
    /\ UNCHANGED <<privileged, reading, cancelled, streaming, doubts, arrived, returned, dropped>>

Step ==
    \/ Preflight \/ Start \/ Stop \/ Close \/ Release
    \/ BeginRead \/ ReadWhatIsPending \/ ReadGoesOn \/ Keepalive
    \/ Datagram \/ OtherDatagram \/ Waits \/ ReadFails
    \/ BeginInput \/ Keystroke
-----------------------------------------------------------------------------
Cancel ==
    /\ ~cancelled /\ cancelled' = TRUE
    /\ UNCHANGED <<pc, call, session, reading, report, streaming, counts>>
KeepaliveDue ==
    /\ active /\ ~due /\ due' = TRUE
    /\ UNCHANGED <<pc, call, active, privileged, reading, cancelled, report, streaming, counts>>
BmcGivesUp ==
    /\ streaming /\ streaming' = FALSE
    /\ UNCHANGED <<pc, call, session, reading, cancelled, report, counts>>
Outside == Cancel \/ KeepaliveDue \/ BmcGivesUp

Next == Step \/ Outside
-----------------------------------------------------------------------------
(* Every character received is returned by a read, with the error that     *)
(* ends the console, or is still pending; only a drop discards it.         *)
OutputAccounted == arrived = returned + pending + dropped

(* The keystrokes that the BMC executed are those confirmed and some of    *)
(* those reported as uncertain (input_delivery_uncertain).                 *)
KeysExact ==
    /\ confirmed <= keys
    /\ keys <= confirmed + doubts + (IF call.uncertain THEN 1 ELSE 0)

(* A failed start, an interruption or a close without                      *)
(* remote_close_unconfirmed leaves no stream behind.                       *)
StoppedIsStopped ==
    report.kind \in {"start", "interrupted", "closed"} /\ ~report.unconfirmed => ~streaming
=============================================================================
