---------------------------- MODULE KontronWorkflow ----------------------------
(***************************************************************************)
(* The Kontron maintenance workflows of ipmi-rs/src/kontron_workflow.rs:   *)
(* apply_kontron_fru_change(), restore_kontron_fru_backup(), next boot and *)
(* large-buffer negotiation, over a transport whose sequence numbers may   *)
(* run out (IpmbState) and a controller that may refuse or lose any        *)
(* command, while another console may write the same inventory.            *)
(***************************************************************************)
EXTENDS Integers, Sequences, FiniteSets

CONSTANTS
    Board, Product,   \* chunks of the two areas
    Others,           \* chunks of the rest of the image
    Budgets,          \* sequence numbers left when the workflow begins
    Shrinks           \* repeats of an image read with a smaller chunk size

VARIABLES
    pc, executed, confirmed,
    large,                  \* channels whose buffer is not the default one
    \* Fixed: the workflow, the areas it changes, whether commands are bridged.
    workflow, changed, bridged,
    \* The transport.
    available,              \* sequence numbers left; Unlimited without a budget
    reserved,               \* how many of them are reserved
    \* The controller: the inventory by chunk, and whether another wrote it.
    fru, tampered,
    \* The workflow.
    before,                 \* the image as last read
    cost,                   \* sequence numbers that reading it took
    step,                   \* the next chunk or buffer step
    undo,                   \* buffer steps still to restore
    cleanup,                \* steps whose restoration failed
    outcome

transfer == <<pc, executed, confirmed, large>>
plans == <<workflow, changed, bridged>>
transport == <<available, reserved>>
controller == <<fru, tampered>>
local == <<plans, transport, controller, before, cost, step, undo, cleanup, outcome>>
vars == <<transfer, local>>

Chunks == Board + Product + Others
Area(a) == IF a = "board" THEN 1 .. Board ELSE Board + 1 .. Board + Product
Hop == IF bridged THEN 2 ELSE 1
Unlimited == -1

Backup == [c \in 1 .. Chunks |-> "old"]
Proposed == [c \in 1 .. Chunks |-> IF \E a \in changed : c \in Area(a) THEN "new" ELSE "old"]
Desired == IF workflow = "apply" THEN Proposed ELSE Backup

(* The areas to write, complete, in order. *)
Differing == {a \in {"board", "product"} : \E c \in Area(a) : before[c] # Desired[c]}
ChunksOf(areas) == UNION {Area(a) : a \in areas}
Write(op, at) == [op |-> op, at |-> at]
AreaWrites ==
    [k \in 1 .. Cardinality(ChunksOf(Differing)) |->
        CHOOSE c \in ChunksOf(Differing) : Cardinality({d \in ChunksOf(Differing) : d < c}) = k - 1]

(* The steps of a buffer negotiation, and the one write of a next boot. *)
Steps == IF bridged THEN <<"local", "ipmb", "remote">> ELSE <<"local">>

Plan ==
    CASE workflow \in {"apply", "restore"} -> [k \in DOMAIN AreaWrites |-> Write("fru", AreaWrites[k])]
      [] workflow = "buffer" -> [k \in DOMAIN Steps |-> Write(Steps[k], 0)]
      [] workflow = "boot" -> <<Write("boot", 0)>>

(* fru_sequence_cost(), in commands. *)
Readback == 1 + Chunks
CostOf(areas, preflight, readback) ==
    (Cardinality(ChunksOf(areas)) + readback + (IF preflight THEN 4 + Chunks ELSE 0)) * Hop
Needed ==
    CASE workflow = "apply" -> CostOf(changed, TRUE, Readback)
      [] workflow = "restore" -> CostOf(Differing, FALSE, Readback) + Hop
      [] workflow = "boot" -> 2 * Hop
      [] workflow = "buffer" -> IF bridged THEN 20 ELSE 4

StillNeeded_NoIdentity == CostOf(Differing, FALSE, cost)
StillNeeded == CostOf(Differing, FALSE, cost) + Hop

Init ==
    /\ executed = <<>> /\ confirmed = 0 /\ large = {}
    /\ workflow \in {"apply", "restore", "buffer", "boot"}
    /\ changed \in (IF workflow \in {"apply", "restore"} THEN {{"board"}, {"board", "product"}} ELSE {{}})
    /\ bridged \in BOOLEAN
    /\ available \in Budgets \union {Unlimited} /\ reserved = 0
    /\ fru \in (IF workflow = "restore"
                THEN {[c \in 1 .. Chunks |-> IF c \in cs THEN "new" ELSE "old"] : cs \in SUBSET ChunksOf(changed)}
                ELSE {Backup})
    /\ tampered = FALSE
    /\ before = Backup /\ cost = Readback /\ step = 1 /\ undo = 0 /\ cleanup = {}
    /\ pc = (IF workflow = "restore" THEN "identify" ELSE "reserve")
    /\ outcome = "none"
-----------------------------------------------------------------------------
Outcomes ==
    {[answer |-> "ok", carried |-> TRUE], [answer |-> "refused", carried |-> FALSE],
     [answer |-> "unknown", carried |-> TRUE], [answer |-> "unknown", carried |-> FALSE]}

Sent(o, write) ==
    /\ executed' = IF o.carried THEN Append(executed, write) ELSE executed
    /\ confirmed' = IF o.answer = "ok" THEN confirmed + 1 ELSE confirmed

End(result) == pc' = "release" /\ outcome' = result

(* n commands draw their numbers; polls for bridged replies draw more, but *)
(* never of the reserved ones.                                             *)
Spend(n) ==
    IF available = Unlimited THEN UNCHANGED transport
    ELSE /\ available >= n
         /\ reserved' = IF reserved > n THEN reserved - n ELSE 0
         /\ \E polls \in {0, 1} :
              /\ polls = 0 \/ available - n - polls >= reserved'
              /\ available - n - polls >= 0
              /\ available' = available - n - polls

(* reserve_kontron_fru_budget(), and the same checks of the others. *)
Reserve ==
    /\ pc = "reserve"
    /\ \/ /\ available # Unlimited /\ available < Needed
          /\ End("budget") /\ UNCHANGED reserved
       \/ /\ available = Unlimited \/ available >= Needed
          /\ reserved' = IF available = Unlimited THEN 0 ELSE Needed
          /\ outcome' = outcome
          /\ pc' = CASE workflow = "apply" -> "identify"
                     [] workflow = "restore" -> "identify_again"
                     [] workflow = "buffer" -> IF bridged THEN "remote_identity" ELSE "buffer"
                     [] workflow = "boot" -> "boot"
    /\ UNCHANGED <<executed, confirmed, large, plans, available, controller, before, cost, step, undo, cleanup>>

(* A read that fails, finds another target or runs out of sequences. *)
Refuse ==
    /\ pc \in {"identify", "info", "image", "identify_again", "remote_identity"}
    /\ End("refused")
    /\ UNCHANGED <<executed, confirmed, large, plans, transport, controller, before, cost, step, undo, cleanup>>

Identify ==
    /\ pc \in {"identify", "info"}
    /\ Spend(Hop)
    /\ pc' = IF pc = "identify" THEN "info" ELSE "image"
    /\ UNCHANGED <<executed, confirmed, large, plans, controller, before, cost, step, undo, cleanup, outcome>>

(* The image read: a restoration only wants the rest of it unchanged.  The *)
(* read-back is expected to cost what this read did.                       *)
Acceptable ==
    IF workflow = "apply" THEN fru = Backup
    ELSE \A c \in 1 .. Chunks : c \notin Area("board") \union Area("product") => fru[c] = Backup[c]

Measured(more) == IF available = Unlimited THEN Readback ELSE Readback + more

ReadImage ==
    /\ pc = "image"
    /\ \E more \in 0 .. Shrinks :
         /\ Spend((Readback + more) * Hop)
         /\ \/ ~Acceptable /\ End("changed") /\ UNCHANGED <<before, cost>>
            \/ /\ Acceptable
               /\ before' = fru /\ cost' = Measured(more)
               /\ pc' = IF workflow = "restore" THEN "reserve" ELSE "reserve_again"
               /\ UNCHANGED outcome
    /\ UNCHANGED <<executed, confirmed, large, plans, controller, step, undo, cleanup>>

ReserveAgain ==
    /\ pc = "reserve_again"
    /\ \/ /\ available # Unlimited /\ available < StillNeeded
          /\ End("budget") /\ UNCHANGED reserved
       \/ /\ available = Unlimited \/ available >= StillNeeded
          /\ reserved' = IF available = Unlimited THEN 0 ELSE StillNeeded
          /\ pc' = "identify_again" /\ UNCHANGED outcome
    /\ UNCHANGED <<executed, confirmed, large, plans, available, controller, before, cost, step, undo, cleanup>>

IdentifyAgain ==
    /\ pc = "identify_again"
    /\ Spend(Hop)
    /\ pc' = "write"
    /\ UNCHANGED <<executed, confirmed, large, plans, controller, before, cost, step, undo, cleanup, outcome>>

(* write_kontron_areas(): the first write that is not confirmed ends it. *)
WriteChunk ==
    /\ pc = "write" /\ step <= Len(AreaWrites)
    /\ Spend(Hop)
    /\ \E o \in Outcomes :
         /\ Sent(o, Write("fru", AreaWrites[step]))
         /\ fru' = IF o.carried THEN [fru EXCEPT ![AreaWrites[step]] = Desired[AreaWrites[step]]] ELSE fru
         /\ \/ o.answer = "ok" /\ step' = step + 1 /\ UNCHANGED <<pc, outcome>>
            \/ o.answer # "ok" /\ End("write") /\ UNCHANGED step
    /\ UNCHANGED <<large, plans, tampered, before, cost, undo, cleanup>>

(* The whole image must read back as desired. *)
ReadBack == End(IF fru = Desired THEN "applied" ELSE "mismatch")

Verify ==
    /\ pc = "write" /\ step > Len(AreaWrites)
    /\ \/ Spend(cost * Hop) /\ ReadBack
       \/ End("unread") /\ UNCHANGED transport
    /\ UNCHANGED <<executed, confirmed, large, plans, controller, before, cost, step, undo, cleanup>>

SetNextBoot ==
    /\ pc = "boot"
    /\ Spend(2 * Hop)
    /\ \E o \in Outcomes :
         /\ Sent(o, Write("boot", 0))
         /\ End(IF o.answer = "ok" THEN "applied" ELSE "write")
    /\ UNCHANGED <<large, plans, controller, before, cost, step, undo, cleanup>>
-----------------------------------------------------------------------------
(* configure_kontron_buffer() *)
RemoteIdentity ==
    /\ pc = "remote_identity"
    /\ Spend(Hop)
    /\ pc' = "buffer"
    /\ UNCHANGED <<executed, confirmed, large, plans, controller, before, cost, step, undo, cleanup, outcome>>

(* The steps to restore after a failure: the failed one too, if its        *)
(* command may have been sent.                                             *)
Attempted(o) == IF o.dispatched THEN step ELSE step - 1

(* Each step checks an identity first; that may be as far as it gets. *)
BufferOutcomes ==
    {[answer |-> "ok", carried |-> TRUE, dispatched |-> TRUE],
     [answer |-> "refused", carried |-> FALSE, dispatched |-> FALSE],
     [answer |-> "refused", carried |-> FALSE, dispatched |-> TRUE],
     [answer |-> "unknown", carried |-> TRUE, dispatched |-> TRUE],
     [answer |-> "unknown", carried |-> FALSE, dispatched |-> TRUE]}

StepCost(k) == IF Steps[k] = "remote" /\ bridged THEN 4 ELSE 2
SetCost(k) == StepCost(k) + (IF k = 3 THEN 2 ELSE 0)

SetStep ==
    /\ pc = "buffer" /\ step <= Len(Steps)
    /\ Spend(SetCost(step))
    /\ \E o \in BufferOutcomes :
         /\ Sent(o, Write(Steps[step], 0))
         /\ large' = IF o.carried THEN large \union {Steps[step]} ELSE large
         /\ \/ o.answer = "ok" /\ step' = step + 1 /\ UNCHANGED <<pc, undo>>
            \/ o.answer # "ok" /\ undo' = Attempted(o) /\ pc' = "undo" /\ UNCHANGED step
    /\ UNCHANGED <<plans, controller, before, cost, cleanup, outcome>>

BufferDone ==
    /\ pc = "buffer" /\ step > Len(Steps)
    /\ End("applied")
    /\ UNCHANGED <<executed, confirmed, large, plans, transport, controller, before, cost, step, undo, cleanup>>

(* Back to size zero, the last step first; what fails is reported. *)
RestoreStep ==
    /\ pc = "undo" /\ undo > 0
    /\ Spend(StepCost(undo))
    /\ \E o \in Outcomes :
         /\ large' = IF o.carried THEN large \ {Steps[undo]} ELSE large
         /\ cleanup' = IF o.answer = "ok" THEN cleanup ELSE cleanup \union {Steps[undo]}
    /\ undo' = undo - 1
    /\ UNCHANGED <<pc, executed, confirmed, plans, controller, before, cost, step, outcome>>

RestoreDone ==
    /\ pc = "undo" /\ undo = 0
    /\ End("write")
    /\ UNCHANGED <<executed, confirmed, large, plans, transport, controller, before, cost, step, undo, cleanup>>

(* A command that no number is left for fails; a failed buffer step is     *)
(* restored, as far as the numbers go.                                     *)
NextCost ==
    CASE pc \in {"identify", "info", "identify_again", "remote_identity"} -> Hop
      [] pc = "image" -> Readback * Hop
      [] pc = "write" -> IF step <= Len(AreaWrites) THEN Hop ELSE cost * Hop
      [] pc = "boot" -> 2 * Hop
      [] pc = "buffer" -> IF step <= Len(Steps) THEN SetCost(step) ELSE 0
      [] pc = "undo" -> IF undo > 0 THEN StepCost(undo) ELSE 0
      [] OTHER -> 0

OutOfSequences ==
    /\ available # Unlimited /\ available < NextCost
    /\ End(IF pc \in {"identify", "info", "image"} THEN "refused" ELSE "exhausted")
    /\ UNCHANGED <<executed, confirmed, large, plans, transport, controller, before, cost, step, undo, cleanup>>

(* However it ended, the reservation is given back. *)
Release ==
    /\ pc = "release"
    /\ pc' = "done" /\ reserved' = 0
    /\ UNCHANGED <<executed, confirmed, large, plans, available, controller, before, cost, step, undo, cleanup, outcome>>
-----------------------------------------------------------------------------
(* Another console writes one chunk of the inventory. *)
Tamper ==
    /\ ~tampered /\ workflow \in {"apply", "restore"} /\ pc # "done"
    /\ tampered' = TRUE
    /\ \E c \in 1 .. Chunks : fru' = [fru EXCEPT ![c] = "other"]
    /\ UNCHANGED <<transfer, plans, transport, before, cost, step, undo, cleanup, outcome>>

Next ==
    \/ Reserve \/ Refuse \/ Identify \/ ReadImage \/ ReserveAgain \/ IdentifyAgain
    \/ WriteChunk \/ Verify \/ OutOfSequences \/ SetNextBoot
    \/ RemoteIdentity \/ SetStep \/ BufferDone \/ RestoreStep \/ RestoreDone
    \/ Release \/ Tamper

Spec == Init /\ [][Next]_vars
-----------------------------------------------------------------------------
TypeOK ==
    /\ pc \in {"reserve", "identify", "info", "image", "reserve_again", "identify_again", "write",
               "boot", "remote_identity", "buffer", "undo", "release", "done"}
    /\ available >= -1 /\ reserved >= 0
    /\ DOMAIN fru = 1 .. Chunks /\ DOMAIN before = 1 .. Chunks
    /\ cleanup \union large \subseteq {"local", "ipmb", "remote"}

Halted == pc \in {"undo", "release", "done"}

(* A change that is applied is in the inventory, unless another console    *)
(* wrote it since; a configured buffer is large on every hop.              *)
AppliedExact ==
    outcome = "applied" =>
      /\ workflow \in {"apply", "restore"} /\ ~tampered => fru = Desired
      /\ workflow = "buffer" => large = {Steps[k] : k \in DOMAIN Steps}

(* A buffer left large by a failed negotiation is reported. *)
BuffersAccounted == pc = "done" /\ outcome # "applied" => large \subseteq cleanup

(* The reserved numbers are enough for a change that began. *)
ReservationEnough == outcome = "exhausted" => workflow = "restore" /\ cost > Readback
=============================================================================
