------------------------------- MODULE HpmUpdate -------------------------------
(***************************************************************************)
(* The HPM.1 update of ipmi-rs/src/hpm/update.rs: upload(), activate() and *)
(* rollback() of an Updater whose package passed the checks of new(),      *)
(* against a target that may refuse or lose any command, or ask for a      *)
(* section of its own choice.  Between two commands the progress callback  *)
(* may cancel.                                                             *)
(***************************************************************************)
EXTENDS Integers, Sequences, FiniteSets

CONSTANTS
    Packages,    \* sequences of actions, see Action
    ChunkSize    \* image bytes of one block

VARIABLES
    pc, executed, confirmed,        \* the transfer, see OneShot
    package, manual_rollback,       \* fixed when the Updater is built
    phase, action_index, confirmed_bytes, finished_images,
    uncertain,                      \* the write whose result is unknown
    initiated, received, finished   \* the target: image under way, its bytes, images done

transfer == <<pc, executed, confirmed>>
updater == <<package, manual_rollback>>
state == <<phase, action_index, confirmed_bytes, finished_images, uncertain>>
target == <<initiated, received, finished>>
local == <<updater, state, target>>
vars == <<transfer, local>>

(* A package action: kind "backup", "prepare" or "upload", component and   *)
(* image length.                                                           *)
Action == package[action_index]

Write(op, component, at, n) == [op |-> op, component |-> component, at |-> at, n |-> n]
NoWrite == Write("none", 0, 0, 0)
Undo == [op |-> "rollback"]

(* data.chunks(chunk_size): the block at an offset. *)
BlockLength_Fixed(length, offset) == ChunkSize
BlockLength(length, offset) ==
    IF length - offset < ChunkSize THEN length - offset ELSE ChunkSize

(* What the package asks for, action by action. *)
Blocks(action) ==
    [k \in 1 .. (action.length + ChunkSize - 1) \div ChunkSize |->
        Write("block", action.component, (k - 1) * ChunkSize,
              IF k * ChunkSize <= action.length THEN ChunkSize ELSE action.length % ChunkSize)]
WritesOf(action) ==
    <<Write(action.kind, action.component, 0, 0)>>
      \o (IF action.kind = "upload" THEN Blocks(action) \o <<Write("finish", action.component, 0, action.length)>>
                                    ELSE <<>>)
Plan ==
    LET upTo[k \in 0 .. Len(package)] ==
          IF k = 0 THEN <<>> ELSE upTo[k - 1] \o WritesOf(package[k])
    IN upTo[Len(package)] \o <<Write("activate", 0, 0, 0)>>

Init ==
    /\ pc = "ready" /\ executed = <<>> /\ confirmed = 0
    /\ package \in Packages /\ manual_rollback \in BOOLEAN
    /\ phase = "Prepared" /\ action_index = 1 /\ confirmed_bytes = 0 /\ finished_images = 0
    /\ uncertain = NoWrite
    /\ initiated = 0 /\ received = 0 /\ finished = 0
-----------------------------------------------------------------------------
(* The write is uncertain from before it is sent until its acknowledgement *)
(* has been read; a completion code leaves it uncertain as well.           *)
Outcomes ==
    {[ok |-> TRUE, carried |-> TRUE], [ok |-> FALSE, carried |-> TRUE], [ok |-> FALSE, carried |-> FALSE]}

Uncertain(o, write) == uncertain' = IF o.ok THEN NoWrite ELSE write

Sent(o, write) ==
    /\ executed' = IF o.carried THEN Append(executed, write) ELSE executed
    /\ confirmed' = IF o.ok THEN confirmed + 1 ELSE confirmed
    /\ Uncertain(o, write)

(* The action upload() turns to, before its first checkpoint. *)
Select(index) ==
    /\ action_index' = index
    /\ confirmed_bytes' = IF package[index].kind = "upload" THEN 0 ELSE confirmed_bytes
    /\ pc' = "initiate"

Upload ==
    /\ pc = "ready" /\ phase = "Prepared" /\ uncertain = NoWrite
    /\ Select(1)
    /\ UNCHANGED <<executed, confirmed, updater, phase, finished_images, uncertain, target>>

(* A checkpoint: the callback says no; nothing is sent. *)
Cancel ==
    /\ pc \in {"initiate", "block", "next"}
    /\ pc' = "ready"
    /\ UNCHANGED <<executed, confirmed, local>>

(* The phase after a write; that of the last action says so before the     *)
(* caller hears of it.                                                     *)
Attempted == IF phase = "Prepared" THEN "Uploading" ELSE phase
After(done) == IF done /\ action_index = Len(package) THEN "Uploaded" ELSE Attempted

Initiate ==
    /\ pc = "initiate"
    /\ \E o \in Outcomes :
         /\ Sent(o, Write(Action.kind, Action.component, 0, 0))
         /\ phase' = After(o.ok /\ Action.kind # "upload")
         /\ pc' = IF ~o.ok THEN "ready" ELSE IF Action.kind = "upload" THEN "block" ELSE "next"
         /\ IF o.carried /\ Action.kind = "upload"
            THEN initiated' = Action.component /\ received' = 0
            ELSE UNCHANGED <<initiated, received>>
    /\ UNCHANGED <<updater, action_index, confirmed_bytes, finished_images, finished>>

(* The section the target asks for next: none, the end, or any other. *)
NextSections == {"none", "zero", "rest", "other"}

UploadBlock ==
    /\ pc = "block" /\ confirmed_bytes < Action.length
    /\ LET n == BlockLength(Action.length, confirmed_bytes)
       IN \E o \in Outcomes, section \in NextSections :
            /\ ~o.ok => section = "none"
            /\ Sent(o, Write("block", Action.component, confirmed_bytes, n))
            /\ received' = IF o.carried THEN received + n ELSE received
            /\ confirmed_bytes' = IF o.ok THEN confirmed_bytes + n ELSE confirmed_bytes
            /\ pc' = IF o.ok /\ section # "other" THEN "block" ELSE "ready"
    /\ UNCHANGED <<updater, phase, action_index, finished_images, initiated, finished>>

Finish ==
    /\ pc = "block" /\ confirmed_bytes = Action.length
    /\ \E o \in Outcomes :
         /\ Sent(o, Write("finish", Action.component, 0, confirmed_bytes))
         /\ finished' = IF o.carried THEN finished + 1 ELSE finished
         /\ finished_images' = IF o.ok THEN finished_images + 1 ELSE finished_images
         /\ pc' = IF o.ok THEN "next" ELSE "ready"
         /\ phase' = After(o.ok)
    /\ UNCHANGED <<updater, action_index, confirmed_bytes, initiated, received>>

ActionDone ==
    /\ pc = "next"
    /\ \/ action_index < Len(package) /\ Select(action_index + 1)
       \/ /\ action_index = Len(package) /\ pc' = "ready"
          /\ UNCHANGED <<action_index, confirmed_bytes>>
    /\ UNCHANGED <<executed, confirmed, updater, phase, finished_images, uncertain, target>>

Activate ==
    /\ pc = "ready" /\ phase = "Uploaded" /\ uncertain = NoWrite
    /\ \E o \in Outcomes :
         /\ Sent(o, Write("activate", 0, 0, 0))
         /\ phase' = IF o.ok THEN "ActivationAcknowledged" ELSE phase
    /\ UNCHANGED <<pc, updater, action_index, confirmed_bytes, finished_images, target>>

(* Legal in every phase but its own, as long as nothing is uncertain. *)
MayRollback == manual_rollback /\ uncertain = NoWrite /\ phase # "RollbackAcknowledged"

Rollback ==
    /\ pc = "ready" /\ MayRollback
    /\ \E o \in Outcomes :
         /\ executed' = IF o.carried THEN Append(executed, Undo) ELSE executed
         /\ Uncertain(o, Undo)
         /\ phase' = IF o.ok THEN "RollbackAcknowledged"
                     ELSE Attempted
    /\ UNCHANGED <<pc, confirmed, updater, action_index, confirmed_bytes, finished_images, target>>

Next ==
    \/ Upload \/ Cancel \/ Initiate \/ UploadBlock \/ Finish \/ ActionDone
    \/ Activate \/ Rollback

Spec == Init /\ [][Next]_vars
-----------------------------------------------------------------------------
TypeOK ==
    /\ pc \in {"ready", "initiate", "block", "next"}
    /\ phase \in {"Prepared", "Uploading", "Uploaded", "ActivationAcknowledged", "RollbackAcknowledged"}
    /\ action_index \in DOMAIN package
    /\ confirmed_bytes \in 0 .. 5
    /\ finished_images \in 0 .. Len(package)
    /\ confirmed <= Len(Plan)

Halted == uncertain # NoWrite \/ phase = "RollbackAcknowledged"

(***************************************************************************)
(* What the caller is told is what the target has: the bytes of the image  *)
(* under way and the images done differ by the one uncertain write at most *)
(* (TransferState).                                                        *)
(***************************************************************************)
ProgressTruthful ==
    /\ uncertain = NoWrite => finished_images = finished
    /\ finished \in {finished_images, finished_images + 1}
    /\ pc = "block" => received = confirmed_bytes /\ initiated = Action.component
    /\ phase = "Uploaded" => finished = Cardinality({k \in DOMAIN package : package[k].kind = "upload"})
=============================================================================
