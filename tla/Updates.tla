-------------------------------- MODULE Updates --------------------------------
(***************************************************************************)
(* The workflows that change a target, side by side, and what they are     *)
(* built on: the links that carry their requests and the commands          *)
(* themselves.  `program' says which one runs.  The variables of the       *)
(* others stay 0.                                                          *)
(***************************************************************************)
EXTENDS Workflows

VARIABLES
    command, asked, stored, replies, reported    \* Commands

CommandOwn == <<command, asked, stored, replies, reported>>
links == <<LinkOwn, V15Own, ActivateOwn, CommandOwn>>
vars == <<program, transfer, shared, uncertain, workflows, links>>

Sent == INSTANCE Commands

FwumOff == bank = 0 /\ armed = 0 /\ seen = 0 /\ negotiated = 0 /\ old_good_bank = 0 /\ banks = 0 /\ open = 0 /\ saved = 0 /\ booting = 0 /\ meddled = 0
HpmOff == package = 0 /\ manual_rollback = 0 /\ action_index = 0 /\ finished_images = 0 /\ initiated = 0 /\ received = 0 /\ finished = 0
KontronOff == workflow = 0 /\ changed = 0 /\ available = 0 /\ reserved = 0 /\ fru = 0 /\ tampered = 0 /\ before = 0 /\ cost = 0 /\ step = 0 /\ undo = 0
GuardedOff == kind = 0 /\ blocks = 0 /\ commit_mode = 0 /\ begin = 0 /\ failed_write = 0 /\ failed_commit = 0 /\ completed = 0 /\ lock = 0 /\ stolen = 0
ImeOff == update_state = 0 /\ staged = 0 /\ backup = 0 /\ area = 0 /\ running = 0 /\ intruded = 0
BlocksOff == writer = 0 /\ length = 0 /\ path = 0 /\ polls = 0 /\ held = 0 /\ final = 0 /\ applied = 0
SettingsOff == setter = 0 /\ generation = 0 /\ copy = 0 /\ controller = 0 /\ settings = 0 /\ permitted = 0 /\ theirs = 0 /\ late = 0

LinkOff == link = 0 /\ call = 0 /\ pending = 0 /\ sequence = 0 /\ number = 0 /\ cancelled = 0 /\ queue = 0 /\ working = 0 /\ unrelated = 0 /\ status = 0 /\ openings = 0 /\ opened = 0 /\ foreign = 0 /\ listened = 0
V15Off == stage = 0 /\ session = 0 /\ session_sequence = 0 /\ last_inbound_sequence = 0 /\ activated = 0 /\ cancellation = 0 /\ taken = 0 /\ strays = 0 /\ air = 0 /\ bmc_sequence = 0 /\ accepted = 0 /\ twice = 0 /\ left = 0 /\ result = 0
ActivateOff == attempt = 0 /\ rmcp_plus = 0 /\ policy = 0 /\ require_rmcp_plus = 0 /\ suite = 0 /\ peer = 0 /\ active_state = 0 /\ previous = 0 /\ agreed = 0 /\ authenticated = 0 /\ activation = 0
CommandOff == command = 0 /\ asked = 0 /\ stored = 0 /\ replies = 0 /\ reported = 0
LinksOff == LinkOff /\ V15Off /\ ActivateOff /\ CommandOff
WorkflowsOff ==
    /\ FwumOff /\ HpmOff /\ KontronOff /\ GuardedOff /\ ImeOff /\ BlocksOff /\ SettingsOff
    /\ large = 0 /\ phase = 0 /\ confirmed_bytes = 0 /\ bridged = 0 /\ cleanup = 0 /\ goal = 0 /\ outcome = 0
    /\ executed = <<>> /\ confirmed = 0

Init ==
    \/ /\ program = "fwum" /\ Fwum!Init /\ LinksOff /\ uncertain = 0
       /\ HpmOff /\ KontronOff /\ GuardedOff /\ ImeOff /\ BlocksOff /\ SettingsOff
       /\ outcome = 0
    \/ /\ program = "hpm" /\ Hpm!Init /\ LinksOff
       /\ FwumOff /\ KontronOff /\ GuardedOff /\ ImeOff /\ BlocksOff /\ SettingsOff
       /\ large = 0 /\ bridged = 0 /\ cleanup = 0 /\ goal = 0 /\ outcome = 0
    \/ /\ program = "kontron" /\ Kontron!Init /\ LinksOff /\ uncertain = 0
       /\ FwumOff /\ HpmOff /\ GuardedOff /\ ImeOff /\ BlocksOff /\ SettingsOff
       /\ phase = 0 /\ confirmed_bytes = 0 /\ goal = 0
    \/ /\ program = "guarded" /\ Guarded!Init /\ LinksOff /\ uncertain = 0
       /\ FwumOff /\ HpmOff /\ KontronOff /\ ImeOff /\ BlocksOff /\ SettingsOff
       /\ large = 0 /\ phase = 0 /\ confirmed_bytes = 0 /\ bridged = 0 /\ cleanup = 0 /\ goal = 0 /\ outcome = 0
    \/ /\ program = "ime" /\ Ime!Init /\ LinksOff /\ uncertain = 0
       /\ FwumOff /\ HpmOff /\ KontronOff /\ GuardedOff /\ BlocksOff /\ SettingsOff
       /\ large = 0 /\ phase = 0 /\ confirmed_bytes = 0 /\ bridged = 0 /\ cleanup = 0
    \/ /\ program = "blocks" /\ Blocks!Init /\ LinksOff /\ uncertain = 0
       /\ FwumOff /\ HpmOff /\ KontronOff /\ GuardedOff /\ ImeOff /\ SettingsOff
       /\ large = 0 /\ phase = 0 /\ confirmed_bytes = 0 /\ bridged = 0 /\ cleanup = 0 /\ goal = 0
    \/ /\ program = "settings" /\ Settings!Init /\ LinksOff /\ uncertain = 0
       /\ FwumOff /\ HpmOff /\ KontronOff /\ GuardedOff /\ ImeOff /\ BlocksOff
       /\ large = 0 /\ phase = 0 /\ confirmed_bytes = 0 /\ bridged = 0 /\ cleanup = 0 /\ goal = 0
    \/ program = "link" /\ Link!Init /\ V15Off /\ ActivateOff /\ CommandOff /\ WorkflowsOff
    \/ program = "v15" /\ V15!Init /\ LinkOff /\ ActivateOff /\ CommandOff /\ WorkflowsOff /\ uncertain = 0
    \/ program = "activate" /\ Activation!Init /\ LinkOff /\ V15Off /\ CommandOff /\ WorkflowsOff /\ uncertain = 0
    \/ program = "command" /\ Sent!Init /\ LinkOff /\ V15Off /\ ActivateOff /\ WorkflowsOff /\ uncertain = 0

RunFwum ==
    /\ program = "fwum" /\ Fwum!Next
    /\ UNCHANGED <<program, links, uncertain, outcome,
                   HpmOwn, KontronOwn, GuardedOwn, ImeOwn, BlocksOwn, SettingsOwn>>
RunHpm ==
    /\ program = "hpm" /\ Hpm!Next
    /\ UNCHANGED <<program, links, large, bridged, cleanup, goal, outcome,
                   FwumOwn, KontronOwn, GuardedOwn, ImeOwn, BlocksOwn, SettingsOwn>>
RunKontron ==
    /\ program = "kontron" /\ Kontron!Next
    /\ UNCHANGED <<program, links, uncertain, phase, confirmed_bytes, goal,
                   FwumOwn, HpmOwn, GuardedOwn, ImeOwn, BlocksOwn, SettingsOwn>>
RunGuarded ==
    /\ program = "guarded" /\ Guarded!Next
    /\ UNCHANGED <<program, links, uncertain, large, phase, confirmed_bytes, bridged, cleanup, goal, outcome,
                   FwumOwn, HpmOwn, KontronOwn, ImeOwn, BlocksOwn, SettingsOwn>>
RunIme ==
    /\ program = "ime" /\ Ime!Next
    /\ UNCHANGED <<program, links, uncertain, large, phase, confirmed_bytes, bridged, cleanup,
                   FwumOwn, HpmOwn, KontronOwn, GuardedOwn, BlocksOwn, SettingsOwn>>
RunBlocks ==
    /\ program = "blocks" /\ Blocks!Next
    /\ UNCHANGED <<program, links, uncertain, large, phase, confirmed_bytes, bridged, cleanup, goal,
                   FwumOwn, HpmOwn, KontronOwn, GuardedOwn, ImeOwn, SettingsOwn>>
RunSettings ==
    /\ program = "settings" /\ Settings!Next
    /\ UNCHANGED <<program, links, uncertain, large, phase, confirmed_bytes, bridged, cleanup, goal,
                   FwumOwn, HpmOwn, KontronOwn, GuardedOwn, ImeOwn, BlocksOwn>>
RunLink ==
    /\ program = "link" /\ Link!Next
    /\ UNCHANGED <<program, executed, confirmed, shared, workflows, V15Own, ActivateOwn, CommandOwn>>
RunV15 ==
    /\ program = "v15" /\ V15!Next
    /\ UNCHANGED <<program, executed, confirmed, shared, uncertain, workflows, LinkOwn, ActivateOwn, CommandOwn>>
RunActivation ==
    /\ program = "activate" /\ Activation!Next
    /\ UNCHANGED <<program, executed, confirmed, shared, uncertain, workflows, LinkOwn, V15Own, CommandOwn>>
RunCommand ==
    /\ program = "command" /\ Sent!Next
    /\ UNCHANGED <<program, executed, confirmed, shared, uncertain, workflows, LinkOwn, V15Own, ActivateOwn>>

Next ==
    \/ RunFwum \/ RunHpm \/ RunKontron \/ RunGuarded \/ RunIme \/ RunBlocks \/ RunSettings
    \/ RunLink \/ RunV15 \/ RunActivation \/ RunCommand

Spec == Init /\ [][Next]_vars
-----------------------------------------------------------------------------
(* Every write is sent at most once, in the order of the plan, and nothing *)
(* but cleanup after one whose outcome is not known: the workflows of      *)
(* fwum/update.rs, hpm/update.rs, kontron_workflow.rs, oem/*.rs, dcmi.rs,  *)
(* fru.rs and the Set In Progress helpers implement OneShot.               *)
ImplementsOneShot == Promise!Spec

TypeOK ==
    /\ program = "fwum" => Fwum!TypeOK
    /\ program = "hpm" => Hpm!TypeOK
    /\ program = "kontron" => Kontron!TypeOK
    /\ program = "guarded" => Guarded!TypeOK
    /\ program = "ime" => Ime!TypeOK
    /\ program = "blocks" => Blocks!TypeOK
    /\ program = "settings" => Settings!TypeOK
    /\ program = "link" => Link!TypeOK
    /\ program = "v15" => V15!TypeOK
    /\ program = "activate" => Activation!TypeOK
    /\ program = "command" => Sent!TypeOK

(* A reported success is one: what was asked for is all written, and is    *)
(* what the target has, as far as no other console changed it since; what  *)
(* is reported of the progress differs from what the target has by the     *)
(* write in doubt at most (UpdatePhase, TransferState, KontronOutcome,     *)
(* confirmed_bytes).                                                       *)
ReportsTruthful ==
    /\ program = "fwum" =>
         /\ phase = "Staged" => executed = SubSeq(Plan, 1, Len(Plan) - 1)
         /\ phase = "Activated" /\ ~meddled => banks[Fwum!Spare] = Fwum!Status("good", "image")
         /\ saved - confirmed_bytes \in 0 .. Capacity
    /\ program = "hpm" => Hpm!ProgressTruthful
    /\ program = "kontron" => Kontron!AppliedExact
    /\ program = "guarded" => (Guarded!Succeeded => executed = Plan /\ lock # "ours")
    /\ program = "ime" => Ime!RunsWhatItReports
    /\ program = "blocks" => Blocks!WholeValue /\ Blocks!EndIsLast

(* What a failed call leaves behind it says: a buffer of another size, a   *)
(* lock still held (UpdateError::cleanup, KontronBufferError, the cleanup  *)
(* errors of the guarded writes).                                          *)
LeftoversReported ==
    /\ program = "fwum" => (pc = "ready" => large \subseteq cleanup)
    /\ program = "kontron" => Kontron!BuffersAccounted
    /\ program = "guarded" => Guarded!LockAccounted

(* Nothing of another's is lost: the bank that runs keeps its image, a lock*)
(* is taken from another console only after a Begin in doubt, and a change *)
(* of another setting only if it came after the read of that setting       *)
(* (old_good_bank, confirmed_rejection(), the read-modify-write setters).  *)
OthersWorkKept ==
    /\ program = "fwum" => banks[old_good_bank].holds = "baseline"
    /\ program = "guarded" => Guarded!LockRespected
    /\ program = "settings" => Settings!OthersPreserved

(* The sequence numbers a FRU change set aside are enough for it: only a   *)
(* restoration, which reserves the least a read-back may cost and not what *)
(* the first read did cost, can run out of them (fru_sequence_cost()).     *)
BudgetSuffices == program = "kontron" => Kontron!ReservationEnough

(* What a connection hands to its caller is of the request it made, once:  *)
(* DirectLink for the file, the serial port and the virtual CD, RmcpV15    *)
(* for an IPMI 1.5 session.                                                *)
AnswersCurrent ==
    /\ program = "link" => Link!AnswersCurrent
    /\ program = "v15" => V15!TrafficOnce

(* A connection has the session that was asked for, or none: RmcpActivate. *)
SessionAsRequired == program = "activate" => Activation!SessionAsRequired

(* No parser reads past the answer it accepted, and a FRU image's areas    *)
(* stay apart: Commands (parse_success_response, the allocation info's     *)
(* apart).                                                                 *)
RepliesInBounds == program = "command" => Sent!RepliesInBounds

(* A setting is reported as what became of it, and read back as it was     *)
(* written: Commands (send_recv(), sel_mutation(), the requests and the    *)
(* parsers).                                                               *)
SettingsReadBack == program = "command" => Sent!SettingsReadBack
=============================================================================
