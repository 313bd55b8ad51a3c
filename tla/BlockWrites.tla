------------------------------ MODULE BlockWrites ------------------------------
(***************************************************************************)
(* Values too long for one command: Dell LCD text (set_lcd_text()), Sun    *)
(* SSH keys (sun_set_ssh_key()) and LUAPI values (sun_set_value()), DCMI   *)
(* strings (write_string()) and FRU images (write_fru_image()).  Each      *)
(* block is sent once; the first that is not confirmed ends the call.      *)
(***************************************************************************)
EXTENDS Integers, Sequences, FiniteSets

CONSTANTS
    Longest,    \* units of the longest value
    First,      \* units in the first LCD block (14)
    Block,      \* units in any other block (16, 56 or 64)
    Polls       \* status polls of a LUAPI value (5)

VARIABLES
    pc, executed, confirmed,     \* see OneShot
    writer, length, path,        \* the value: its length, that of its path
    polls, outcome,
    held, final, applied         \* the target: units written, the end seen, the value in force

transfer == <<pc, executed, confirmed>>
value == <<writer, length, path>>
target == <<held, final, applied>>
local == <<value, polls, outcome, target>>
vars == <<transfer, local>>

Write(op, at, n, last) == [op |-> op, at |-> at, n |-> n, last |-> last]

Least(a, b) == IF a < b THEN a ELSE b
BlockCount(n, size) == (n + size - 1) \div size

(* chunks(): block k of n units, the first of a size of its own. *)
Chunk(op, n, first, k) ==
    LET at == IF k = 1 THEN 0 ELSE first + (k - 2) * Block
    IN Write(op, at, Least(IF k = 1 THEN first ELSE Block, n - at), FALSE)

(* The marker FF of the last key block, the last flag of a LUAPI value. *)
Last(i, n) == i = (n - 1) \div Block

Plan ==
    CASE writer = "lcd" ->
           [k \in 1 .. 1 + BlockCount(length - Least(First, length), Block) |-> Chunk("text", length, First, k)]
      [] writer = "ssh" ->
           [k \in 1 .. BlockCount(length, Block) |->
               [Chunk("key", length, Block, k) EXCEPT !.last = Last(k - 1, length)]]
      [] writer = "luapi" ->
           [k \in 1 .. BlockCount(path, Block) |-> Chunk("path", path, Block, k)]
             \o [k \in 1 .. BlockCount(length, Block) |->
                    [Chunk("value", length, Block, k) EXCEPT !.last = Last(k - 1, length)]]
      [] writer = "dcmi" ->
           IF length = 0 THEN <<Write("string", 0, 0, FALSE)>>
           ELSE [k \in 1 .. BlockCount(length, Block) |-> Chunk("string", length, Block, k)]
      [] writer = "fru" ->
           [k \in 1 .. BlockCount(length, Block) |-> Chunk("image", length, Block, k)]

Init ==
    /\ pc = "check" /\ executed = <<>> /\ confirmed = 0
    /\ writer \in {"lcd", "ssh", "luapi", "dcmi", "fru"}
    /\ length \in (IF writer \in {"ssh", "luapi"} THEN 1 ELSE 0) .. Longest
    /\ path \in (IF writer = "luapi" THEN 1 .. Block + 1 ELSE {0})
    /\ polls = 0 /\ outcome = "none"
    /\ held = {} /\ final = FALSE /\ applied = FALSE
-----------------------------------------------------------------------------
Stop(result) == pc' = "done" /\ outcome' = result

(* Validation of the input, and the LCD's lock and capacity read before    *)
(* its first block: nothing has been sent.                                 *)
Check ==
    /\ pc = "check"
    /\ \/ Stop("invalid")
       \/ pc' = (IF Plan = <<>> THEN "end" ELSE "send") /\ UNCHANGED outcome
    /\ UNCHANGED <<executed, confirmed, value, polls, target>>

(* What the target makes of a block. *)
Carry(write) ==
    /\ held' = IF write.op = "path" THEN held ELSE held \union (write.at + 1 .. write.at + write.n)
    /\ final' = (final \/ write.last)
    /\ UNCHANGED applied

(* Vendor blocks follow an identity check; a FRU block may be acknowledged *)
(* with another count, a LUAPI block with another transaction.             *)
Outcomes ==
    {[answer |-> "ok", carried |-> TRUE], [answer |-> "error", carried |-> FALSE],
     [answer |-> "error", carried |-> TRUE]}
      \union (IF writer \in {"lcd", "ssh", "luapi"} THEN {[answer |-> "NotSent", carried |-> FALSE]} ELSE {})
      \union (IF writer \in {"fru", "luapi"} THEN {[answer |-> "unconfirmed", carried |-> TRUE]} ELSE {})

Accepted(o) == o.answer = "ok"

SendBlock ==
    /\ pc = "send"
    /\ \E o \in Outcomes :
         /\ executed' = IF o.carried THEN Append(executed, Plan[confirmed + 1]) ELSE executed
         /\ IF o.carried THEN Carry(Plan[confirmed + 1]) ELSE UNCHANGED target
         /\ IF Accepted(o)
            THEN /\ confirmed' = confirmed + 1
                 /\ pc' = (IF confirmed + 1 < Len(Plan) THEN "send" ELSE "end") /\ UNCHANGED outcome
            ELSE Stop(o.answer) /\ UNCHANGED confirmed
    /\ UNCHANGED <<value, polls>>

(* A LUAPI value is done when a status poll says so; the others are when   *)
(* their last block is.                                                    *)
Poll ==
    \/ applied /\ Stop("ok") /\ UNCHANGED polls
    \/ ~applied /\ polls < Polls - 1 /\ polls' = polls + 1 /\ UNCHANGED <<pc, outcome>>
    \/ ~applied /\ polls = Polls - 1 /\ Stop("limit") /\ UNCHANGED polls
    \/ Stop("error") /\ UNCHANGED polls

End ==
    /\ pc = "end"
    /\ IF writer = "luapi" THEN Poll ELSE Stop("ok") /\ UNCHANGED polls
    /\ UNCHANGED <<executed, confirmed, value, target>>

(* The target puts a complete LUAPI value in force, in its own time. *)
Apply ==
    /\ writer = "luapi" /\ final /\ ~applied /\ pc # "done"
    /\ applied' = TRUE
    /\ UNCHANGED <<transfer, value, polls, outcome, held, final>>

Next == Check \/ SendBlock \/ End \/ Apply

Spec == Init /\ [][Next]_vars
-----------------------------------------------------------------------------
TypeOK ==
    /\ pc \in {"check", "send", "end", "done"}
    /\ polls \in 0 .. Polls - 1
    /\ held \subseteq 1 .. Longest
    /\ outcome \in {"none", "invalid", "ok", "error", "NotSent", "unconfirmed", "limit"}

Halted == pc = "done"
Succeeded == outcome = "ok"

(* A value that is reported written is whole in the target, which knows    *)
(* its end and put it in force.                                            *)
WholeValue ==
    Succeeded =>
      /\ held = 1 .. length
      /\ writer \in {"ssh", "luapi"} => final
      /\ writer = "luapi" => applied

(* The end of a value is not announced before all of it is there. *)
EndIsLast == final => held = 1 .. length
=============================================================================
