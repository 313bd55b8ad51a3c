------------------------------- MODULE ImeUpdate -------------------------------
(***************************************************************************)
(* Intel ME firmware: ime_update() and ime_rollback() of                   *)
(* ipmi-rs/src/oem/ime.rs.  Each mutation follows an identity check, is    *)
(* sent once, and is believed only when the status read next says so.  The *)
(* ME may refuse or lose a command, fail on its own, or be prepared by     *)
(* another console.                                                        *)
(***************************************************************************)
EXTENDS Integers, Sequences

CONSTANT Pieces    \* chunks of the image (22 bytes each)

VARIABLES
    pc, executed, confirmed,    \* see OneShot
    goal,                       \* "update" or "rollback"
    outcome,                    \* how the call ended
    update_state, staged, backup, area, running,    \* the ME
    intruded                    \* another console prepared an update (once)

transfer == <<pc, executed, confirmed>>
me == <<update_state, staged, backup, area, running>>
local == <<goal, outcome, me, intruded>>
vars == <<transfer, local>>

Write(op, at) == [op |-> op, at |-> at]
Plan ==
    IF goal = "rollback" THEN <<Write("restore", 0)>>
    ELSE <<Write("prepare", 0), Write("open", 0)>> \o [k \in 1 .. Pieces |-> Write("piece", k)]
           \o <<Write("close", 0), Write("activate", 0)>>

(* The state each mutation must leave (ime_expect). *)
Expected(op) ==
    CASE op \in {"prepare", "close"} -> "Requested"
      [] op \in {"open", "piece"} -> "InProgress"
      [] op = "activate" -> "Success"
      [] op = "restore" -> "RolledBack"

Init ==
    /\ pc = "info" /\ executed = <<>> /\ confirmed = 0
    /\ goal \in {"update", "rollback"} /\ outcome = "none"
    /\ update_state \in {"Idle", "Success", "Failed", "InProgress"}
    /\ staged \in BOOLEAN /\ backup \in BOOLEAN /\ area = <<>> /\ running = "old"
    /\ intruded = FALSE
-----------------------------------------------------------------------------
Stop(result) == pc' = "done" /\ outcome' = result

(* ime_info() and the checks on it; the others (availability, image type,  *)
(* capability, free space) hold or not whatever the ME does next.          *)
Fit ==
    IF goal = "update" THEN update_state = "Idle" /\ ~staged
    ELSE update_state \in {"Idle", "Success", "Failed"} /\ backup

Info ==
    /\ pc = "info"
    /\ \/ Fit /\ pc' = "send" /\ UNCHANGED outcome
       \/ Stop("refused")
    /\ UNCHANGED <<executed, confirmed, goal, me, intruded>>

(* What a carried command does to the ME; out of turn it fails the update. *)
Carry(write) ==
    \/ /\ write.op = "prepare"
       /\ update_state' = "Requested" /\ area' = <<>> /\ UNCHANGED <<staged, running>>
    \/ /\ write.op = "open" /\ update_state = "Requested"
       /\ update_state' = "InProgress" /\ UNCHANGED <<area, staged, running>>
    \/ /\ write.op = "piece" /\ update_state = "InProgress"
       /\ area' = Append(area, write.at) /\ UNCHANGED <<update_state, staged, running>>
    \/ /\ write.op = "close" /\ update_state = "InProgress"
       /\ staged' = (area = [k \in 1 .. Pieces |-> k])
       /\ update_state' = "Requested" /\ UNCHANGED <<area, running>>
    \/ /\ write.op = "activate" /\ staged
       /\ update_state' = "Success" /\ running' = "new" /\ staged' = FALSE /\ UNCHANGED area
    \/ /\ write.op = "restore" /\ backup
       /\ update_state' = "RolledBack" /\ running' = "backup" /\ UNCHANGED <<area, staged>>
    \/ update_state' = "Failed" /\ UNCHANGED <<area, staged, running>>

(* ime_mutate(): NotSent when the identity check fails, OutcomeUnknown for *)
(* every error after it.                                                   *)
Outcomes ==
    {[answer |-> "ok", carried |-> TRUE], [answer |-> "NotSent", carried |-> FALSE],
     [answer |-> "OutcomeUnknown", carried |-> TRUE], [answer |-> "OutcomeUnknown", carried |-> FALSE]}

Mutate ==
    /\ pc = "send"
    /\ LET write == Plan[confirmed + 1]
       IN \E o \in Outcomes :
            /\ executed' = IF o.carried THEN Append(executed, write) ELSE executed
            /\ confirmed' = IF o.answer = "ok" THEN confirmed + 1 ELSE confirmed
            /\ IF o.carried THEN Carry(write) ELSE UNCHANGED <<update_state, area, staged, running>>
            /\ IF o.answer = "ok" THEN pc' = "expect" /\ UNCHANGED outcome ELSE Stop(o.answer)
    /\ UNCHANGED <<goal, backup, intruded>>

(* The status read after each; after Close the image must be valid too. *)
AsExpected_Unread(op) == TRUE
AsExpected(op) == update_state = Expected(op) /\ (op = "close" => staged)

Expect ==
    /\ pc = "expect"
    /\ \/ Stop("Read")
       \/ ~AsExpected(Plan[confirmed].op) /\ Stop("UnexpectedState")
       \/ /\ AsExpected(Plan[confirmed].op)
          /\ IF confirmed = Len(Plan) THEN Stop("ok") ELSE pc' = "send" /\ UNCHANGED outcome
    /\ UNCHANGED <<executed, confirmed, goal, me, intruded>>

(* The ME fails, or another console prepares an update of its own. *)
Fail ==
    /\ pc # "done" /\ update_state \notin {"Idle", "Failed"}
    /\ update_state' = "Failed"
    /\ UNCHANGED <<transfer, goal, outcome, staged, backup, area, running, intruded>>

Intrude ==
    /\ pc # "done" /\ ~intruded
    /\ intruded' = TRUE
    /\ update_state' = "Requested" /\ area' = <<>>
    /\ UNCHANGED <<transfer, goal, outcome, staged, backup, running>>

Next == Info \/ Mutate \/ Expect \/ Fail \/ Intrude

Spec == Init /\ [][Next]_vars
-----------------------------------------------------------------------------
TypeOK ==
    /\ pc \in {"info", "send", "expect", "done"}
    /\ update_state \in {"Idle", "Requested", "InProgress", "Success", "Failed", "RolledBack"}
    /\ outcome \in {"none", "ok", "refused", "NotSent", "OutcomeUnknown", "Read", "UnexpectedState"}
    /\ running \in {"old", "new", "backup"}

Halted == pc = "done"

(* An update that is reported done is the one that runs. *)
Succeeded == outcome = "ok"
RunsWhatItReports == Succeeded => running = (IF goal = "update" THEN "new" ELSE "backup")
=============================================================================
