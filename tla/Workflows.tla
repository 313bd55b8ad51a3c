------------------------------- MODULE Workflows -------------------------------
(***************************************************************************)
(* The workflows that change a target, and the links that carry their      *)
(* requests: each as an instance of its module.  The workflows have the    *)
(* transfer in common (what was written and acknowledged), and with it the *)
(* promise of OneShot.  `program' says which of them a behaviour is about. *)
(***************************************************************************)
EXTENDS Integers, Sequences, FiniteSets

CONSTANTS
    Length, Page, Capacity,                       \* FwumUpdate
    Packages, ChunkSize,                          \* HpmUpdate
    Board, Product, Others, Budgets, Shrinks,     \* KontronWorkflow
    Writes,                                       \* GuardedWrite
    Pieces,                                       \* ImeUpdate
    Longest, First, Block, Polls,                 \* BlockWrites
    Ring, Requests, Frames, Foreign, Openings,    \* DirectLink
    Top, InitialSequences, Strays,                \* RmcpV15
    Attempts, Weak                                \* RmcpActivate

VARIABLES
    program,
    pc, executed, confirmed,
    \* Used by more than one.
    large, phase, confirmed_bytes, bridged, cleanup, goal, outcome, uncertain,
    \* FwumUpdate.
    bank, armed, seen, negotiated, old_good_bank, banks, open, saved, booting, meddled,
    \* HpmUpdate.
    package, manual_rollback, action_index, finished_images, initiated, received, finished,
    \* KontronWorkflow.
    workflow, changed, available, reserved, fru, tampered, before, cost, step, undo,
    \* GuardedWrite.
    kind, blocks, commit_mode, begin, failed_write, failed_commit, completed, lock, stolen,
    \* ImeUpdate.
    update_state, staged, backup, area, running, intruded,
    \* BlockWrites.
    writer, length, path, polls, held, final, applied,
    \* OemSettings.
    setter, generation, copy, controller, settings, permitted, theirs, late,
    \* DirectLink.
    link, call, pending, sequence, number, cancelled, queue, working, unrelated, status, openings,
    opened, foreign, listened,
    \* RmcpV15.
    stage, session, session_sequence, last_inbound_sequence, activated, cancellation, taken, strays,
    air, bmc_sequence, accepted, twice, left, result,
    \* RmcpActivate.
    attempt, rmcp_plus, policy, require_rmcp_plus, suite, peer, active_state, previous, agreed,
    authenticated, activation

transfer == <<pc, executed, confirmed>>
FwumOwn == <<bank, armed, seen, negotiated, old_good_bank, banks, open, saved, booting, meddled>>
HpmOwn == <<package, manual_rollback, action_index, finished_images, initiated, received, finished>>
KontronOwn == <<workflow, changed, available, reserved, fru, tampered, before, cost, step, undo>>
GuardedOwn == <<kind, blocks, commit_mode, begin, failed_write, failed_commit, completed, lock, stolen>>
ImeOwn == <<update_state, staged, backup, area, running, intruded>>
BlocksOwn == <<writer, length, path, polls, held, final, applied>>
SettingsOwn == <<setter, generation, copy, controller, settings, permitted, theirs, late>>
LinkOwn == <<link, call, pending, sequence, number, cancelled, queue, working, unrelated, status, openings, opened, foreign, listened>>
V15Own == <<stage, session, session_sequence, last_inbound_sequence, activated, cancellation, taken, strays, air, bmc_sequence, accepted, twice, left, result>>
ActivateOwn == <<attempt, rmcp_plus, policy, require_rmcp_plus, suite, peer, active_state, previous, agreed, authenticated, activation>>
shared == <<large, phase, confirmed_bytes, bridged, cleanup, goal, outcome>>
workflows == <<FwumOwn, HpmOwn, KontronOwn, GuardedOwn, ImeOwn, BlocksOwn, SettingsOwn>>

(* The serial port numbers its requests with six bits (serial.rs: & 0x3f). *)
ASSUME LinkAssumption == Ring \in Nat \ {0}

(* The sizes of an inventory, and what a transport may have left.          *)
ASSUME KontronAssumption ==
    /\ Board \in Nat /\ Product \in Nat /\ Others \in Nat /\ Shrinks \in Nat
    /\ Budgets \subseteq Nat

(* The sizes of images, values and chunks; a chunk is never empty          *)
(* (UpdateOptions::new(), the block constants of the writers).             *)
ASSUME SizesAssumption ==
    /\ Length \in Nat /\ Page \in Nat \ {0} /\ Capacity \in Nat \ {0}
    /\ ChunkSize \in Nat \ {0}
    /\ Writes \in Nat /\ Pieces \in Nat
    /\ Longest \in Nat /\ First \in Nat /\ Block \in Nat \ {0} /\ Polls \in Nat \ {0}

(* A package that passed parse() has an image, and so an action.           *)
PackageActions == [kind : {"backup", "prepare", "upload"}, component : Nat, length : Nat]
ASSUME PackagesAssumption == Packages \subseteq Seq(PackageActions) \ {<<>>}

Fwum == INSTANCE FwumUpdate
Hpm == INSTANCE HpmUpdate
Kontron == INSTANCE KontronWorkflow
Guarded == INSTANCE GuardedWrite WITH Blocks <- Writes
Ime == INSTANCE ImeUpdate
Blocks == INSTANCE BlockWrites
Settings == INSTANCE OemSettings
Link == INSTANCE DirectLink
V15 == INSTANCE RmcpV15
Activation == INSTANCE RmcpActivate

-----------------------------------------------------------------------------
(* The promise of all: see OneShot.  A buffer reset, Set Complete and the  *)
(* restoration of a buffer are cleanup, not writes of the plan.            *)
Plan ==
    CASE program = "fwum" -> Fwum!Plan       [] program = "hpm" -> Hpm!Plan
      [] program = "kontron" -> Kontron!Plan [] program = "guarded" -> Guarded!Plan
      [] program = "ime" -> Ime!Plan         [] program = "blocks" -> Blocks!Plan
      [] program = "settings" -> Settings!Plan
      [] OTHER -> <<>>
Halted ==
    CASE program = "fwum" -> Fwum!Halted       [] program = "hpm" -> Hpm!Halted
      [] program = "kontron" -> Kontron!Halted [] program = "guarded" -> Guarded!Halted
      [] program = "ime" -> Ime!Halted         [] program = "blocks" -> Blocks!Halted
      [] program = "settings" -> Settings!Halted
      [] OTHER -> FALSE

Promise == INSTANCE OneShot WITH plan <- Plan, halted <- Halted, Undo <- [op |-> "rollback"]
=============================================================================
