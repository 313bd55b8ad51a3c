------------------------------ MODULE FwumUpdate ------------------------------
(***************************************************************************)
(* The Kontron firmware update of ipmi-rs/src/fwum/update.rs: buffer       *)
(* setup, image upload, staging, activation and rollback, against a BMC    *)
(* that may refuse or lose any command, boot at any time and be written    *)
(* to by another console.  One action is one command with the handling of  *)
(* its answer; fwum_prepare_update() is its first operation.               *)
(***************************************************************************)
EXTENDS Integers, Sequences, FiniteSets

CONSTANTS
    Length,      \* bytes of the image
    Page,        \* bytes of a flash page (256)
    Capacity     \* image bytes of one Save Image (TransportLimits::capacity)

VARIABLES
    \* The transfer, whatever its kind (see OneShot).
    pc, executed, confirmed,
    large,             \* channels whose buffer is not the default one
    \* UpdateSession.
    phase, goal, bank, confirmed_bytes,
    armed,             \* armed_buffers
    cleanup,           \* channels named in UpdateError::cleanup
    seen,              \* bank statuses read so far
    negotiated, bridged, old_good_bank,     \* fixed by preparation
    \* The BMC.
    banks,             \* what Get Status tells of each bank
    open,              \* the bank being written
    saved,             \* bytes saved in it
    booting,           \* an acknowledged activation or rollback not yet done
    meddled            \* another console wrote a bank (at most once)

transfer == <<pc, executed, confirmed, large>>
session == <<phase, goal, bank, confirmed_bytes, armed, cleanup, seen>>
plans == <<negotiated, bridged, old_good_bank>>
bmc == <<banks, open, saved, booting, meddled>>
local == <<session, plans, bmc>>
vars == <<transfer, local>>

Banks == {1, 2}
NoBank == 0
Spare == CHOOSE b \in Banks : b # old_good_bank
Status(state, holds) == [state |-> state, holds |-> holds]
OldGood == Status("good", "baseline")
Image == "image"

Baseline == [b \in Banks |-> IF b = old_good_bank THEN OldGood ELSE Status("previous", "old")]

Write(op, at, n) == [op |-> op, at |-> at, n |-> n]
Undo == [op |-> "rollback"]
SetBuffer(channel) == Write(channel, 0, 0)

(* setup_buffers(): the gateway's channels, then the target's. *)
Buffers ==
    CASE ~negotiated -> <<>>
      [] negotiated /\ ~bridged -> <<"remote">>
      [] negotiated /\ bridged -> <<"local", "ipmb", "remote">>

(* The size of the next Save Image: never across a page. *)
Count_AcrossPages(offset) == IF Length - offset < Capacity THEN Length - offset ELSE Capacity

Count(offset) ==
    LET Least(a, b) == IF a < b THEN a ELSE b
    IN Least(Least(Capacity, Page - (offset % Page)), Length - offset)

(* What the whole update writes: every page in pieces of Capacity. *)
Starts == {o \in 0 .. Length - 1 : (o % Page) % Capacity = 0}
Piece(o) ==
    LET later == {e \in Starts \union {Length} : e > o}
    IN Write("save", o, (CHOOSE e \in later : \A f \in later : e <= f) - o)
Saves ==
    [k \in 1 .. Cardinality(Starts) |->
        Piece(CHOOSE o \in Starts : Cardinality({e \in Starts : e < o}) = k - 1)]

Plan ==
    [k \in DOMAIN Buffers |-> SetBuffer(Buffers[k])]
      \o <<Write("start", 0, Length)>> \o Saves
      \o <<Write("finish", 0, 0), Write("activate", 0, 0)>>

Init ==
    /\ pc = "read" /\ executed = <<>> /\ confirmed = 0 /\ large = {}
    /\ phase = "Preparing" /\ goal = "prepare" /\ bank = NoBank /\ confirmed_bytes = 0
    /\ armed = <<>> /\ cleanup = {} /\ seen = <<>>
    /\ negotiated \in BOOLEAN /\ bridged \in BOOLEAN /\ old_good_bank \in Banks
    /\ banks = Baseline
    /\ open = NoBank /\ saved = 0 /\ booting = "no" /\ meddled = FALSE
-----------------------------------------------------------------------------
(* One mutation, sent once: acknowledged, known not to have happened       *)
(* (rejected, or not sent after a failed identity check), or unknown.      *)
Outcomes ==
    {[answer |-> "ok", carried |-> TRUE], [answer |-> "refused", carried |-> FALSE],
     [answer |-> "unknown", carried |-> TRUE], [answer |-> "unknown", carried |-> FALSE]}

Sent(o, write) ==
    /\ executed' = IF o.carried THEN Append(executed, write) ELSE executed
    /\ confirmed' = IF o.answer = "ok" THEN confirmed + 1 ELSE confirmed

(* stop(): no further write but the buffers' reset. *)
Stop == phase' = "Interrupted" /\ pc' = "clear"

StopOrElse(ok, next) ==
    \/ ~ok /\ Stop
    \/ ok /\ pc' = next /\ UNCHANGED phase

(* The phase each operation is called in; any other call is refused. *)
RequiredPhase(operation) ==
    CASE operation = "stage" -> "Prepared"
      [] operation = "activate" -> "Staged"
      [] operation = "verify_activation" -> "ActivationRequested"
      [] operation = "rollback" -> "Activated"
      [] operation = "verify_rollback" -> "RollbackRequested"

Call ==
    /\ pc = "ready"
    /\ \E operation \in {"stage", "activate", "verify_activation", "rollback", "verify_rollback"} :
         /\ phase = RequiredPhase(operation)
         /\ goal' = operation
    /\ pc' = "read" /\ seen' = <<>>
    /\ UNCHANGED <<executed, confirmed, large, phase, bank, confirmed_bytes, armed, cleanup, plans, bmc>>

(* fwum_banks(): the statuses are read one after the other. *)
ReadBank ==
    /\ pc = "read" /\ Len(seen) < Cardinality(Banks)
    /\ seen' = Append(seen, banks[Len(seen) + 1])
    /\ UNCHANGED <<transfer, phase, goal, bank, confirmed_bytes, armed, cleanup, plans, bmc>>

(* Only stage() and activate() stop at a failed read. *)
ReadFails ==
    /\ pc = "read" /\ Len(seen) < Cardinality(Banks)
    /\ IF goal \in {"stage", "finish", "activate"}
       THEN Stop
       ELSE pc' = (IF goal = "prepare" THEN "refused" ELSE "ready") /\ UNCHANGED phase
    /\ UNCHANGED <<executed, confirmed, large, goal, bank, confirmed_bytes, armed, cleanup, seen, plans, bmc>>

(* An update that is already staged, or a target, image or approval that   *)
(* does not fit, ends the preparation; nothing has been written.           *)
Prepare ==
    \/ seen = Baseline /\ phase' = "Prepared" /\ pc' = "ready"
    \/ pc' = "refused" /\ UNCHANGED phase

StagedSeen == seen[old_good_bank] = OldGood /\ seen[bank] = Status("new", Image)
NewGood == seen[bank] = Status("good", Image)
OldKept == seen[old_good_bank] = Status("previous", "baseline")

VerifyActivation ==
    \/ NewGood /\ OldKept /\ phase' = "Activated" /\ pc' = "ready"
    \/ NewGood /\ ~OldKept /\ Stop
    \/ ~NewGood /\ pc' = "ready" /\ UNCHANGED phase

VerifyRollback ==
    /\ phase' = IF seen[old_good_bank] = OldGood /\ seen[bank].state # "good"
                THEN "RolledBack" ELSE phase
    /\ pc' = "ready"

(* What each operation makes of the bank statuses. *)
Judge ==
    /\ pc = "read" /\ Len(seen) = Cardinality(Banks)
    /\ CASE goal = "prepare" -> Prepare
         [] goal = "stage" -> StopOrElse(seen = Baseline, "buffers")
         [] goal = "finish" -> StopOrElse(StagedSeen, "clear")
         [] goal = "activate" -> StopOrElse(StagedSeen, "activate")
         [] goal = "verify_activation" -> VerifyActivation
         [] goal = "rollback" -> StopOrElse(OldKept /\ NewGood, "rollback")
         [] goal = "verify_rollback" -> VerifyRollback
    /\ UNCHANGED <<executed, confirmed, large, goal, bank, confirmed_bytes, armed, cleanup, seen, plans, bmc>>
-----------------------------------------------------------------------------
(* A bridged target first asks for the gateway's identity. *)
GatewayFails ==
    /\ pc = "buffers" /\ negotiated /\ bridged /\ armed = <<>>
    /\ Stop
    /\ UNCHANGED <<executed, confirmed, large, goal, bank, confirmed_bytes, armed, cleanup, seen, plans, bmc>>

(* A size that may be in force is one to reset. *)
Arm_Confirmed(o, channel) == armed' = IF o.answer = "ok" THEN Append(armed, channel) ELSE armed
Arm(o, channel) == armed' = IF o.answer # "refused" THEN Append(armed, channel) ELSE armed

SetNextBuffer ==
    /\ pc = "buffers" /\ Len(armed) < Len(Buffers)
    /\ LET channel == Buffers[Len(armed) + 1]
       IN \E o \in Outcomes :
            /\ Sent(o, SetBuffer(channel))
            /\ large' = IF o.carried THEN large \union {channel} ELSE large
            /\ Arm(o, channel)
            /\ StopOrElse(o.answer = "ok", pc)
    /\ UNCHANGED <<goal, bank, confirmed_bytes, cleanup, seen, plans, bmc>>

(* The BMC chooses the bank; one that was never offered, or the good one,  *)
(* ends the update.                                                        *)
Unfit(b) == b \notin Banks \/ b = old_good_bank

StartImage ==
    /\ pc = "buffers" /\ Len(armed) = Len(Buffers)
    /\ \E o \in Outcomes, b \in Banks \union {NoBank} :
         /\ Sent(o, Write("start", 0, Length))
         /\ IF o.carried THEN open' = b ELSE b = NoBank /\ UNCHANGED open
         /\ \/ /\ o.answer = "ok" /\ ~Unfit(b)
               /\ bank' = b /\ phase' = "Uploading"
               /\ pc' \in {"save", "cancelled"}
            \/ /\ o.answer # "ok" \/ Unfit(b)
               /\ Stop /\ UNCHANGED bank
    /\ UNCHANGED <<large, goal, confirmed_bytes, armed, cleanup, seen, plans, banks, saved, booting, meddled>>

(* The progress callback said no, at a chunk boundary. *)
Cancel ==
    /\ pc = "cancelled"
    /\ Stop
    /\ UNCHANGED <<executed, confirmed, large, goal, bank, confirmed_bytes, armed, cleanup, seen, plans, bmc>>

SaveImage ==
    /\ pc = "save" /\ confirmed_bytes < Length
    /\ LET n == Count(confirmed_bytes)
       IN \E o \in Outcomes :
            /\ Sent(o, Write("save", confirmed_bytes, n))
            /\ saved' = IF o.carried THEN saved + n ELSE saved
            /\ banks' = IF o.carried THEN [banks EXCEPT ![open] = Status("other", "partial")] ELSE banks
            /\ \/ /\ o.answer = "ok"
                  /\ confirmed_bytes' = confirmed_bytes + n
                  /\ pc' \in {"save", "cancelled"} /\ UNCHANGED phase
               \/ /\ o.answer # "ok"
                  /\ Stop /\ UNCHANGED confirmed_bytes
    /\ UNCHANGED <<large, goal, bank, armed, cleanup, seen, plans, open, booting, meddled>>

FinishImage ==
    /\ pc = "save" /\ confirmed_bytes = Length
    /\ \E o \in Outcomes :
         /\ Sent(o, Write("finish", 0, 0))
         /\ IF o.carried
            THEN /\ banks' = [banks EXCEPT ![open] = Status("new", IF saved = Length THEN Image ELSE "partial")]
                 /\ open' = NoBank
            ELSE UNCHANGED <<banks, open>>
         /\ StopOrElse(o.answer = "ok", "read")
    /\ goal' = "finish" /\ seen' = <<>>
    /\ UNCHANGED <<large, bank, confirmed_bytes, armed, cleanup, plans, saved, booting, meddled>>

(* clear_buffers(): in reverse order, each sent once. *)
ClearBuffer ==
    /\ pc = "clear" /\ armed # <<>>
    /\ LET channel == armed[Len(armed)]
       IN \E o \in Outcomes :
            /\ large' = IF o.carried THEN large \ {channel} ELSE large
            /\ cleanup' = IF o.answer = "ok" THEN cleanup ELSE cleanup \union {channel}
    /\ armed' = SubSeq(armed, 1, Len(armed) - 1)
    /\ UNCHANGED <<pc, executed, confirmed, phase, goal, bank, confirmed_bytes, seen, plans, bmc>>

(* stage() succeeds only if every buffer was reset. *)
Staged ==
    phase' = IF phase = "Uploading" THEN (IF cleanup = {} THEN "Staged" ELSE "Interrupted") ELSE phase

Cleared ==
    /\ pc = "clear" /\ armed = <<>>
    /\ Staged
    /\ pc' = "ready"
    /\ UNCHANGED <<executed, confirmed, large, goal, bank, confirmed_bytes, armed, cleanup, seen, plans, bmc>>

StartUpdate ==
    /\ pc = "activate"
    /\ \E o \in Outcomes :
         /\ Sent(o, Write("activate", 0, 0))
         /\ booting' = IF o.carried THEN "update" ELSE booting
         /\ \/ o.answer = "ok" /\ phase' = "ActivationRequested" /\ pc' = "ready"
            \/ o.answer # "ok" /\ Stop
    /\ UNCHANGED <<large, goal, bank, confirmed_bytes, armed, cleanup, seen, plans, banks, open, saved, meddled>>

ManualRollback ==
    /\ pc = "rollback"
    /\ \E o \in Outcomes :
         /\ executed' = IF o.carried THEN Append(executed, Undo) ELSE executed
         /\ booting' = IF o.carried THEN "rollback" ELSE booting
         /\ \/ o.answer = "ok" /\ phase' = "RollbackRequested" /\ pc' = "ready"
            \/ o.answer # "ok" /\ Stop
    /\ UNCHANGED <<confirmed, large, goal, bank, confirmed_bytes, armed, cleanup, seen, plans, banks, open, saved, meddled>>
-----------------------------------------------------------------------------
(* The BMC boots into the new bank, or rejects it; later it boots back.    *)
Boot ==
    /\ booting # "no"
    /\ booting' = "no"
    /\ \/ /\ booting = "update"
          /\ banks' = [banks EXCEPT ![old_good_bank].state = "previous", ![Spare].state = "good"]
       \/ /\ booting = "update"
          /\ banks' = [banks EXCEPT ![Spare].state = "other"]
       \/ /\ booting = "rollback"
          /\ banks' = [banks EXCEPT ![old_good_bank].state = "good", ![Spare].state = "previous"]
    /\ UNCHANGED <<transfer, session, plans, open, saved, meddled>>

(* Another console stages its own image, when no upload is under way. *)
Meddle ==
    /\ ~meddled /\ open = NoBank /\ booting = "no" /\ banks[Spare].state # "good"
    /\ meddled' = TRUE
    /\ banks' = [banks EXCEPT ![Spare] = Status("new", "foreign")]
    /\ UNCHANGED <<transfer, session, plans, open, saved, booting>>

Next ==
    \/ Call \/ ReadBank \/ ReadFails \/ Judge
    \/ GatewayFails \/ SetNextBuffer \/ StartImage \/ Cancel \/ SaveImage \/ FinishImage
    \/ ClearBuffer \/ Cleared \/ StartUpdate \/ ManualRollback
    \/ Boot \/ Meddle

Spec == Init /\ [][Next]_vars
-----------------------------------------------------------------------------
Phases == {"Preparing", "Prepared", "Uploading", "Staged", "ActivationRequested", "Activated",
           "RollbackRequested", "RolledBack", "Interrupted"}
Channels == {"local", "ipmb", "remote"}

TypeOK ==
    /\ pc \in {"ready", "read", "refused", "buffers", "save", "cancelled", "clear", "activate", "rollback"}
    /\ phase \in Phases
    /\ confirmed_bytes \in 0 .. Length
    /\ {armed[k] : k \in DOMAIN armed} \union cleanup \union large \subseteq Channels
    /\ Len(seen) <= Cardinality(Banks)
    /\ confirmed <= Len(Plan)

(* After an end of the plan, or a stop, nothing more of it is sent. *)
Halted == phase \in {"Interrupted", "RollbackRequested", "RolledBack"}

(* "Pending verification can be retried read-only" (docs/kontron-fwum.md:  *)
(* 107): verify_activation() gives up an activation only if the banks are  *)
(* not what the update made of them.                                       *)
PendingRetried == phase = "Interrupted" /\ goal = "verify_activation" => meddled
=============================================================================
