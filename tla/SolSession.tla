----------------------------- MODULE SolSession -----------------------------
(***************************************************************************)
(* The life of a SOL console: src/ipmi-rs/src/rmcp/sol.rs.                 *)
(*                                                                         *)
(* One owner opens, reads, closes, drops or reconnects a console.  Each of *)
(* these sends Activate or Deactivate Payload, which the BMC may execute   *)
(* although its answer is lost, and receives console output on the way.    *)
(* What a report says of the remote payload, and where the output that was *)
(* acknowledged goes, is what the caller has to go by.                     *)
(*                                                                         *)
(* A request that was not executed when its call ended never is.  Output   *)
(* is counted, its order is SolFlow's; input is left out.                  *)
(***************************************************************************)
EXTENDS Naturals

CONSTANTS
    MaxSessions,        \* bound: handshakes that succeed
    MaxOutput           \* bound: characters the BMC sends

VARIABLES
    session,            \* number of the authenticated session, 0 for none
    flow,               \* its sol.is_some()
    handle,             \* the SolSession: none, live (active) or stopped
    remote_close_unconfirmed,
    pc,                 \* what the running operation waits for
    op,                 \* the operation and its local variables
    report,             \* what the last operation returned
    cancelled,          \* the cancellation token
    queue,              \* characters queued in the flow
    answer,             \* the BMC's answer to the request that is out
    payload,            \* external: session that owns the BMC's SOL payload
    sessions,           \* history: sessions established
    acknowledged,       \* history: characters acknowledged
    delivered,          \* history: characters returned to the caller
    dropped,            \* history: characters discarded by drop
    doubtful,           \* history: the last deactivation was not confirmed
    told                \* history: and the caller knows, or dropped the console

client_vars == <<session, flow, handle, remote_close_unconfirmed>>
output_vars == <<queue, acknowledged, delivered, dropped>>
vars == <<client_vars, pc, op, report, cancelled, output_vars, answer, payload,
          sessions, doubtful, told>>

Sessions == 1..MaxSessions

(***************************************************************************)
(* The running operation: `why` tells which caller deactivate_bounded()    *)
(* returns to, `unconfirmed` is reconnect()'s local variable of that name. *)
(***************************************************************************)
Op == [name : {"none", "open", "read", "close", "drop", "reconnect"},
       why : {"none", "uncertain", "interrupted", "close", "drop", "reclose"},
       attempts : 0..3, max : 0..3, unconfirmed : BOOLEAN]

NoOp == [name |-> "none", why |-> "none", attempts |-> 0, max |-> 0, unconfirmed |-> FALSE]

(***************************************************************************)
(* What an operation returned: `unconfirmed` is remote_close_unconfirmed   *)
(* or, of a CaptureGap, previous_remote_close_unconfirmed.                 *)
(***************************************************************************)
Report == [kind : {"none", "opened", "rejected", "uncertain", "interrupted", "pending",
                   "closed", "stopped", "dropped", "gap", "reconnect_failed"},
           unconfirmed : BOOLEAN]

TypeOK ==
    /\ session \in 0..MaxSessions
    /\ flow \in BOOLEAN
    /\ handle \in {"none", "live", "stopped"}
    /\ remote_close_unconfirmed \in BOOLEAN
    /\ pc \in {"idle", "activate", "rejected", "cleanup", "handshake", "reading"}
    /\ op \in Op
    /\ report \in Report
    /\ cancelled \in BOOLEAN
    /\ queue \in Nat
    /\ answer \in {"none", "ok", "wrong_route", "refused"}
    /\ payload \in 0..MaxSessions
    /\ sessions \in 0..MaxSessions
    /\ acknowledged \in 0..MaxOutput
    /\ delivered \in Nat
    /\ dropped \in Nat
    /\ doubtful \in BOOLEAN
    /\ told \in BOOLEAN

Init ==
    /\ session = 0
    /\ flow = FALSE
    /\ handle = "none"
    /\ remote_close_unconfirmed = FALSE
    /\ pc = "idle"
    /\ op = NoOp
    /\ report = [kind |-> "none", unconfirmed |-> FALSE]
    /\ cancelled = FALSE
    /\ queue = 0
    /\ answer = "none"
    /\ payload = 0
    /\ sessions = 0
    /\ acknowledged = 0
    /\ delivered = 0
    /\ dropped = 0
    /\ doubtful = FALSE
    /\ told = FALSE

-----------------------------------------------------------------------------
(***************************************************************************)
(* The BMC (external) and the other threads.                               *)
(***************************************************************************)

Outside == UNCHANGED <<client_vars, pc, op, report, delivered, dropped, sessions,
                       doubtful, told>>

\* Activate Payload is executed, for a port that may be the wrong one, or
\* refused: SOL is disabled, or the payload is active.
BmcActivate(reply) ==
    /\ pc = "activate"
    /\ answer = "none"
    /\ reply # "refused" => payload = 0
    /\ answer' = reply
    /\ payload' = IF reply = "refused" THEN payload ELSE session
    /\ Outside /\ UNCHANGED <<cancelled, queue, acknowledged>>

BmcDeactivate ==
    /\ pc = "cleanup"
    /\ answer = "none"
    /\ answer' = IF payload = 0 THEN "refused" ELSE "ok"
    /\ payload' = 0
    /\ Outside /\ UNCHANGED <<cancelled, queue, acknowledged>>

\* The BMC gives the console up: its session expired, or it was reset.
BmcGivesUp ==
    /\ payload # 0
    /\ payload' = 0
    /\ Outside /\ UNCHANGED <<answer, cancelled, queue, acknowledged>>

\* Output for this session arrives in whatever call is receiving.
SolOutput ==
    /\ flow
    /\ payload = session
    /\ pc \in {"activate", "cleanup", "reading"}
    /\ acknowledged < MaxOutput
    /\ queue' = queue + 1
    /\ acknowledged' = acknowledged + 1
    /\ Outside /\ UNCHANGED <<answer, payload, cancelled>>

Cancel ==
    /\ cancelled' = ~ cancelled
    /\ cancelled => pc = "idle"
    /\ Outside /\ UNCHANGED <<answer, payload, queue, acknowledged>>

-----------------------------------------------------------------------------
(***************************************************************************)
(* Results.                                                                *)
(***************************************************************************)

\* The operation returns; the report carries the output that was queued.
Return(kind, unconfirmed) ==
    /\ pc' = "idle"
    /\ op' = NoOp
    /\ report' = [kind |-> kind, unconfirmed |-> unconfirmed]
    /\ told' = CASE kind \in {"opened", "gap"} -> FALSE
                 [] OTHER -> told \/ unconfirmed \/ kind = "dropped"

\* The operation goes on, with the next request not yet answered.
GoOn(where, next) ==
    /\ pc' = where
    /\ op' = next
    /\ UNCHANGED <<report, told>>

\* take_output() for the report, with the flow closed.
TakeOutput ==
    /\ delivered' = delivered + queue
    /\ queue' = 0
    /\ flow' = FALSE

KeepOutput == UNCHANGED <<queue, delivered, flow>>

Unchanged == UNCHANGED <<cancelled, acknowledged, payload>>

\* The next attempt of reconnect(), or none is left.
NextAttempt(unconfirmed) ==
    IF op.attempts < op.max
    THEN GoOn("handshake", [op EXCEPT !.why = "none", !.unconfirmed = unconfirmed])
    ELSE Return("reconnect_failed", unconfirmed)

-----------------------------------------------------------------------------
(***************************************************************************)
(* Rmcp::activate() and activate_sol().                                    *)
(***************************************************************************)

\* A new session replaces the one before, with its flow, which the BMC keeps.
Authenticate(ok) ==
    /\ session' = IF ok THEN sessions + 1 ELSE 0
    /\ sessions' = IF ok THEN sessions + 1 ELSE sessions
    /\ ok => sessions < MaxSessions

\* The owner authenticates while it has no console.
Connect(ok) ==
    /\ pc = "idle"
    /\ handle = "none"
    /\ Authenticate(ok)
    /\ flow' = FALSE
    /\ UNCHANGED <<handle, remote_close_unconfirmed, pc, op, report, output_vars, answer,
                   doubtful, told>>
    /\ Unchanged

\* open_sol_capture() and open_sol_interactive().
Open ==
    /\ pc = "idle"
    /\ handle = "none"
    /\ session # 0
    /\ flow' = TRUE
    /\ queue' = 0
    /\ answer' = "none"
    /\ GoOn("activate", [NoOp EXCEPT !.name = "open"])
    /\ UNCHANGED <<session, handle, remote_close_unconfirmed, delivered, dropped, sessions,
                   doubtful>>
    /\ Unchanged

\* reconnect() authenticates for an attempt.
Handshake(ok) ==
    /\ pc = "handshake"
    /\ Authenticate(ok)
    /\ answer' = "none"
    /\ flow' = ok
    /\ queue' = 0
    /\ LET attempt == [op EXCEPT !.attempts = @ + 1] IN
       \/ ok /\ GoOn("activate", attempt)
       \/ ~ ok /\ attempt.attempts < op.max /\ GoOn("handshake", attempt)
       \/ /\ ~ ok /\ (cancelled \/ attempt.attempts = op.max)
          /\ Return("reconnect_failed", op.unconfirmed)
    /\ UNCHANGED <<handle, remote_close_unconfirmed, delivered, dropped, doubtful>>
    /\ Unchanged

\* The payload is active, at the right port.
Activated ==
    /\ pc = "activate"
    /\ answer = "ok"
    /\ handle' = "live"
    /\ IF op.name = "open"
       THEN Return("opened", FALSE) /\ remote_close_unconfirmed' = FALSE
       ELSE Return("gap", op.unconfirmed) /\ UNCHANGED remote_close_unconfirmed
    /\ KeepOutput
    /\ UNCHANGED <<session, dropped, answer, sessions, doubtful>> /\ Unchanged

\* Faulty variant: every error means that SOL is not active.
DefinitelyRejected_Always == TRUE

\* The BMC refused, or the request was never sent (Cancelled, DeadlineExpired).
DefinitelyRejected == answer \in {"none", "refused"}

Rejected ==
    /\ pc = "activate"
    /\ DefinitelyRejected
    /\ TakeOutput
    /\ IF op.name = "open" THEN Return("rejected", FALSE)
       ELSE IF queue # 0 THEN Return("rejected", FALSE)
       ELSE NextAttempt(op.unconfirmed)
    /\ UNCHANGED <<session, handle, remote_close_unconfirmed, dropped, answer, sessions,
                   doubtful>>
    /\ Unchanged

\* The answer is lost or unreadable, or it names a route that is not ours.
PossiblyActivated ==
    /\ pc = "activate"
    /\ answer' = "none"
    /\ GoOn("cleanup", [op EXCEPT !.why = "uncertain"])
    /\ KeepOutput
    /\ UNCHANGED <<session, handle, remote_close_unconfirmed, dropped, sessions, doubtful>>
    /\ Unchanged

-----------------------------------------------------------------------------
(***************************************************************************)
(* deactivate_bounded() and its callers.                                   *)
(***************************************************************************)

\* The handle is stopped before its deactivation is tried.
Deactivate(next) ==
    /\ answer' = "none"
    /\ handle' = IF handle = "live" THEN "stopped" ELSE handle
    /\ GoOn("cleanup", next)

\* read_until() with nothing queued: cancelled, or it waits.
ReadWaits ==
    /\ pc = "idle" /\ handle = "live" /\ queue = 0 /\ ~ cancelled
    /\ GoOn("reading", [NoOp EXCEPT !.name = "read"])
    /\ UNCHANGED <<client_vars, output_vars, answer, sessions, doubtful>> /\ Unchanged

\* Queued output is returned, before any interruption.
ReadReturns(n) ==
    /\ pc = "reading" \/ (pc = "idle" /\ handle = "live")
    /\ n <= queue
    /\ queue' = queue - n
    /\ delivered' = delivered + n
    /\ Return("none", FALSE)
    /\ UNCHANGED <<client_vars, acknowledged, dropped, answer, sessions, doubtful>>
    /\ Unchanged

\* A timeout, an error, a cancellation: also after output was accepted.
ReadFails ==
    /\ pc = "reading" \/ (pc = "idle" /\ handle = "live" /\ queue = 0 /\ cancelled)
    /\ Deactivate([NoOp EXCEPT !.name = "read", !.why = "interrupted"])
    /\ KeepOutput
    /\ UNCHANGED <<session, remote_close_unconfirmed, dropped, sessions, doubtful>>
    /\ Unchanged

\* close() and Drop of a live console.
Close(why) ==
    /\ pc = "idle" /\ handle = "live"
    /\ Deactivate([NoOp EXCEPT !.name = why, !.why = why])
    /\ KeepOutput
    /\ UNCHANGED <<session, remote_close_unconfirmed, dropped, sessions, doubtful>>
    /\ Unchanged

\* close() or Drop of a stopped one: what is known is reported again.
CloseStopped ==
    /\ pc = "idle" /\ handle = "stopped"
    /\ handle' = "none"
    /\ Return("stopped", remote_close_unconfirmed)
    /\ KeepOutput
    /\ UNCHANGED <<session, remote_close_unconfirmed, dropped, answer, sessions, doubtful>>
    /\ Unchanged

\* reconnect() refuses to discard unread output.
ReconnectPending ==
    /\ pc = "idle" /\ handle = "live" /\ queue # 0
    /\ Return("pending", FALSE)
    /\ KeepOutput
    /\ UNCHANGED <<session, handle, remote_close_unconfirmed, dropped, answer, sessions,
                   doubtful>>
    /\ Unchanged

ReconnectLive(max) ==
    /\ pc = "idle" /\ handle = "live" /\ queue = 0
    /\ Deactivate([NoOp EXCEPT !.name = "reconnect", !.why = "reclose", !.max = max])
    /\ KeepOutput
    /\ UNCHANGED <<session, remote_close_unconfirmed, dropped, sessions, doubtful>>
    /\ Unchanged

ReconnectStopped(max) ==
    /\ pc = "idle" /\ handle = "stopped"
    /\ IF cancelled
       THEN Return("reconnect_failed", remote_close_unconfirmed)
       ELSE GoOn("handshake", [NoOp EXCEPT !.name = "reconnect", !.max = max,
                                           !.unconfirmed = remote_close_unconfirmed])
    /\ KeepOutput
    /\ UNCHANGED <<session, handle, remote_close_unconfirmed, dropped, answer, sessions,
                   doubtful>>
    /\ Unchanged

\* After activate_sol() failed: reconnect() goes on unless there is output, and
\* remembers that the payload may have been left active.
UncertainReturns(unconfirmed) ==
    /\ IF op.name = "reconnect" /\ queue = 0
       THEN NextAttempt(op.unconfirmed \/ unconfirmed)
       ELSE Return("uncertain", unconfirmed)
    /\ UNCHANGED <<handle, remote_close_unconfirmed>>

\* After close_inner() of reconnect().
RecloseReturns(unconfirmed) ==
    /\ remote_close_unconfirmed' = unconfirmed
    /\ IF queue # 0 THEN Return("interrupted", unconfirmed)
       ELSE IF cancelled THEN Return("reconnect_failed", unconfirmed)
       ELSE GoOn("handshake", [op EXCEPT !.why = "none", !.unconfirmed = unconfirmed])
    /\ UNCHANGED handle

\* The console is gone after close() and drop, stopped after an interruption.
ConsoleReturns(unconfirmed) ==
    /\ remote_close_unconfirmed' = unconfirmed
    /\ handle' = IF op.why = "interrupted" THEN "stopped" ELSE "none"
    /\ Return(CASE op.why = "interrupted" -> "interrupted"
                [] op.why = "close" -> "closed"
                [] op.why = "drop" -> "dropped",
              unconfirmed)

\* Faulty variant: a deactivation without an answer counts as done.
Deactivated_Unanswered(reply) == reply # "refused"

Deactivated(reply) == reply = "ok"

\* Deactivate Payload was answered, or its answer is lost or too late.
CleanedUp(reply) ==
    /\ pc = "cleanup"
    /\ reply \in {answer, "none"}
    /\ LET unconfirmed == ~ Deactivated(reply) IN
       /\ doubtful' = unconfirmed
       /\ CASE op.why = "uncertain" -> UncertainReturns(unconfirmed)
            [] op.why = "reclose"   -> RecloseReturns(unconfirmed)
            [] OTHER                -> ConsoleReturns(unconfirmed)
    /\ flow' = FALSE
    /\ queue' = 0
    /\ delivered' = IF pc' = "idle" /\ op.why # "drop" THEN delivered + queue ELSE delivered
    /\ dropped' = IF op.why = "drop" THEN dropped + queue ELSE dropped
    /\ UNCHANGED <<session, answer, sessions>> /\ Unchanged

-----------------------------------------------------------------------------
Environment ==
    \/ \E reply \in {"ok", "wrong_route", "refused"} : BmcActivate(reply)
    \/ BmcDeactivate
    \/ BmcGivesUp
    \/ SolOutput
    \/ Cancel

Opening ==
    \/ \E ok \in BOOLEAN : Connect(ok) \/ Handshake(ok)
    \/ Open
    \/ Activated
    \/ Rejected
    \/ PossiblyActivated

Console ==
    \/ ReadWaits
    \/ \E n \in 1..MaxOutput : ReadReturns(n)
    \/ ReadFails
    \/ \E why \in {"close", "drop"} : Close(why)
    \/ CloseStopped
    \/ ReconnectPending
    \/ \E max \in 1..3 : ReconnectLive(max) \/ ReconnectStopped(max)
    \/ \E reply \in {"ok", "refused", "none"} : CleanedUp(reply)

Next == Environment \/ Opening \/ Console

Spec == Init /\ [][Next]_vars

-----------------------------------------------------------------------------
(***************************************************************************)
(* Properties.                                                             *)
(***************************************************************************)

\* When closing or interrupting a live console, or cleaning up after an
\* uncertain activation, says that the remote close is confirmed, the payload
\* is not active, whichever session it belonged to and whatever was lost.
ClosedIsClosed ==
    pc = "idle" /\ report.kind \in {"closed", "interrupted", "uncertain"}
                /\ ~ report.unconfirmed
    => payload = 0

\* A payload is never left active without a report that said so, however many
\* sessions reconnect() went through, unless the console was dropped.
OrphansReported == pc = "idle" /\ handle # "live" /\ payload # 0 => told

\* Acknowledged output is returned by a read or with an error, on every path
\* out of every operation: only Drop discards it.
OutputAccounted == acknowledged = delivered + queue + dropped

\* A capture gap that does not warn of the remote payload follows a confirmed
\* deactivation.
GapTruthful == pc = "idle" /\ report.kind = "gap" /\ ~ report.unconfirmed => ~ doubtful
=============================================================================
