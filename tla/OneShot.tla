-------------------------------- MODULE OneShot --------------------------------
(***************************************************************************)
(* What every mutating workflow of this crate promises (README of the      *)
(* repository, fwum/update.rs, hpm/update.rs, kontron_workflow.rs): its    *)
(* writes are a fixed plan, each is sent at most once and in order, and    *)
(* after one whose outcome is unknown, refused or unverified nothing but   *)
(* cleanup is sent.  So the target has carried out the acknowledged prefix *)
(* of the plan and at most one write more.  A workflow may end with one    *)
(* undo (a rollback), itself sent once.                                    *)
(***************************************************************************)
EXTENDS Naturals, Sequences

CONSTANT Undo    \* the write that takes the others back

VARIABLES
    plan,        \* the writes of this workflow, fixed when the first is sent
    executed,    \* what the target carried out, in its order
    confirmed,   \* how many writes of the plan were acknowledged
    halted       \* no further write of the plan will be sent

vars == <<plan, executed, confirmed, halted>>

Init == executed = <<>> /\ confirmed = 0 /\ halted = FALSE

(* Until the first write the plan may still follow what was read. *)
Planned == executed = <<>> /\ confirmed = 0 /\ UNCHANGED <<executed, confirmed, halted>>

Carry == executed' = Append(executed, plan[confirmed + 1])

Acknowledged ==
    /\ ~halted /\ confirmed < Len(plan)
    /\ Carry
    /\ confirmed' = confirmed + 1
    /\ halted' \in BOOLEAN
    /\ UNCHANGED plan

InDoubt ==
    /\ ~halted /\ confirmed < Len(plan)
    /\ Carry
    /\ halted' = TRUE
    /\ UNCHANGED <<plan, confirmed>>

Stopped ==
    /\ halted' = TRUE
    /\ UNCHANGED <<plan, executed, confirmed>>

Undone ==
    /\ ~halted
    /\ executed' = Append(executed, Undo)
    /\ halted' = TRUE
    /\ UNCHANGED <<plan, confirmed>>

Next == Planned \/ Acknowledged \/ InDoubt \/ Stopped \/ Undone

Spec == Init /\ [][Next]_vars
=============================================================================
