----------------------------- MODULE GuardedWrite -----------------------------
(***************************************************************************)
(* The Set In Progress transactions: lan_write_guarded(),                  *)
(* pef_write_guarded(), sol_write_guarded() and                            *)
(* system_info_write_guarded().  The BMC holds one advisory lock, which    *)
(* another console may take when it is free and which Set Complete         *)
(* releases whoever holds it.  Any command may be refused or lost.         *)
(***************************************************************************)
EXTENDS Integers, Sequences

CONSTANT Blocks    \* the most writes of one transaction

VARIABLES
    pc, executed, confirmed,     \* see OneShot
    kind, blocks, commit_mode,   \* the helper, its writes, whether it commits
    begin,                       \* how Begin ended: "none" until then
    failed_write, failed_commit, \* errors kept for the caller
    completed,                   \* Set Complete: "unsent", "ok" or "failed"
    lock, stolen                 \* the BMC: who holds it; another's was released

transfer == <<pc, executed, confirmed>>
call == <<kind, blocks, commit_mode>>
result == <<begin, failed_write, failed_commit, completed>>
local == <<call, result, lock, stolen>>
vars == <<transfer, local>>

Write(op, at) == [op |-> op, at |-> at]
Plan ==
    <<Write("begin", 0)>> \o [k \in 1 .. blocks |-> Write("block", k)]
      \o (IF commit_mode THEN <<Write("commit", 0)>> ELSE <<>>)

Init ==
    /\ pc = "begin" /\ executed = <<>> /\ confirmed = 0
    /\ kind \in {"lan", "pef", "sol", "info"}
    /\ blocks \in (IF kind \in {"lan", "info"} THEN 1 .. Blocks ELSE {1})
    /\ commit_mode \in (IF kind = "info" THEN BOOLEAN ELSE {TRUE})
    /\ begin = "none" /\ failed_write = FALSE /\ failed_commit = FALSE /\ completed = "unsent"
    /\ lock = "free" /\ stolen = FALSE
-----------------------------------------------------------------------------
Outcomes ==
    {[answer |-> "ok", carried |-> TRUE], [answer |-> "refused", carried |-> FALSE],
     [answer |-> "unknown", carried |-> TRUE], [answer |-> "unknown", carried |-> FALSE]}

Sent(o, write) ==
    /\ executed' = IF o.carried THEN Append(executed, write) ELSE executed
    /\ confirmed' = IF o.answer = "ok" THEN confirmed + 1 ELSE confirmed

(* Does a failed Begin send Set Complete?  System info never does, SOL     *)
(* always, LAN and PEF unless the rejection was confirmed.                 *)
CleansUp_Always(answer) == TRUE
CleansUp(answer) ==
    \/ kind = "sol"
    \/ kind \in {"lan", "pef"} /\ answer # "refused"

(* Begin is granted only while the lock is free. *)
Begin ==
    /\ pc = "begin"
    /\ \E o \in Outcomes :
         /\ o.carried => lock = "free"
         /\ Sent(o, Write("begin", 0))
         /\ lock' = IF o.carried THEN "ours" ELSE lock
         /\ begin' = o.answer
         /\ pc' = IF o.answer = "ok" THEN "write" ELSE IF CleansUp(o.answer) THEN "complete" ELSE "done"
    /\ UNCHANGED <<call, failed_write, failed_commit, completed, stolen>>

(* The first write that fails ends them. *)
WriteBlock ==
    /\ pc = "write" /\ confirmed <= blocks
    /\ \E o \in Outcomes :
         /\ Sent(o, Write("block", confirmed))
         /\ failed_write' = (o.answer # "ok")
         /\ pc' = IF o.answer = "ok" THEN "write" ELSE "complete"
    /\ UNCHANGED <<call, begin, failed_commit, completed, lock, stolen>>

Commit ==
    \E o \in Outcomes : Sent(o, Write("commit", 0)) /\ failed_commit' = (o.answer # "ok")

CommitWrite ==
    /\ pc = "write" /\ confirmed = blocks + 1
    /\ IF commit_mode THEN Commit ELSE UNCHANGED <<executed, confirmed, failed_commit>>
    /\ pc' = "complete"
    /\ UNCHANGED <<call, begin, failed_write, completed, lock, stolen>>

(* The one cleanup command; its error is returned with the others. *)
Complete ==
    /\ pc = "complete"
    /\ \E o \in Outcomes :
         /\ lock' = IF o.carried THEN "free" ELSE lock
         /\ stolen' = (stolen \/ (o.carried /\ lock = "other"))
         /\ completed' = IF o.answer = "ok" THEN "ok" ELSE "failed"
    /\ pc' = "done"
    /\ UNCHANGED <<executed, confirmed, call, begin, failed_write, failed_commit>>

(* The other console. *)
OtherBegins ==
    /\ lock = "free" /\ lock' = "other"
    /\ UNCHANGED <<transfer, call, result, stolen>>

OtherCompletes ==
    /\ lock = "other" /\ lock' = "free"
    /\ UNCHANGED <<transfer, call, result, stolen>>

Next == Begin \/ WriteBlock \/ CommitWrite \/ Complete \/ OtherBegins \/ OtherCompletes

Spec == Init /\ [][Next]_vars
-----------------------------------------------------------------------------
TypeOK ==
    /\ pc \in {"begin", "write", "complete", "done"}
    /\ begin \in {"none", "ok", "refused", "unknown"}
    /\ completed \in {"unsent", "ok", "failed"}
    /\ lock \in {"free", "ours", "other"}

Halted == pc \in {"complete", "done"}
Succeeded == pc = "done" /\ begin = "ok" /\ ~failed_write /\ ~failed_commit /\ completed = "ok"

(* Another writer's lock is only ever released after a Begin that may have *)
(* been granted.  SOL is the exception by design: its cleanup is attempted *)
(* after any failed Begin (core transport/sol.rs:410).                     *)
LockRespected == stolen => begin = "unknown" \/ kind = "sol"

(* A lock the caller is not told about is not left behind, except by the   *)
(* System Info helper, which leaves an ambiguous Begin to its caller.      *)
LockAccounted ==
    pc = "done" /\ lock = "ours" => completed = "failed" \/ (kind = "info" /\ begin = "unknown")
=============================================================================
