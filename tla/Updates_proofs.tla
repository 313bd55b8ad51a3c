---------------------------- MODULE Updates_proofs ----------------------------
(***************************************************************************)
(* The theorems about Updates: each of its programs keeps the invariant of *)
(* Workflows_proofs, and a behaviour is that of one of them.               *)
(***************************************************************************)
EXTENDS Updates, Transfers_proofs, TLAPS

(* Of whichever program runs.                                              *)
UpdatesInv ==
    /\ program = "v15" => V15Inv
    /\ program = "activate" => ActivateInv
    /\ program = "link" => LinkInv
    /\ program = "guarded" => GuardedInv
    /\ program = "settings" => SettingsInv
    /\ program = "fwum" => FwumInv
    /\ program = "kontron" => KontronInv

\* Initially.
LEMMA UpdatesStart == Init => UpdatesInv
<1> SUFFICES ASSUME Init PROVE UpdatesInv
  OBVIOUS
<1>1. CASE program = "fwum"
  BY <1>1, FwumStart DEF Init, UpdatesInv
<1>2. CASE program = "kontron"
  BY <1>2, KontronStart DEF Init, UpdatesInv
<1>3. CASE program = "guarded"
  BY <1>3, GuardedStart DEF Init, UpdatesInv
<1>4. CASE program = "settings"
  BY <1>4, SettingsStart DEF Init, UpdatesInv
<1>5. CASE program = "link"
  BY <1>5, LinkStart DEF Init, UpdatesInv
<1>6. CASE program = "v15"
  BY <1>6, V15Start DEF Init, UpdatesInv
<1>7. CASE program = "activate"
  BY <1>7, ActivationStart DEF Init, UpdatesInv
<1> QED
  BY <1>1, <1>2, <1>3, <1>4, <1>5, <1>6, <1>7 DEF UpdatesInv

\* The step is one of the program that runs.
LEMMA UpdatesStep ==
  ASSUME UpdatesInv, [Next]_vars
  PROVE  UpdatesInv'
<1>1. CASE RunFwum
  BY <1>1, FwumStep DEF RunFwum, UpdatesInv
<1>2. CASE RunKontron
  BY <1>2, KontronStep DEF RunKontron, UpdatesInv
<1>3. CASE RunGuarded
  BY <1>3, GuardedStep DEF RunGuarded, UpdatesInv
<1>4. CASE RunSettings
  BY <1>4, SettingsStep DEF RunSettings, UpdatesInv
<1>5. CASE RunLink
  BY <1>5, LinkStep DEF RunLink, UpdatesInv
<1>6. CASE RunV15
  BY <1>6, V15Step DEF RunV15, UpdatesInv
<1>7. CASE RunActivation
  BY <1>7, ActivationStep DEF RunActivation, UpdatesInv
<1>8. CASE RunHpm \/ RunIme \/ RunBlocks \/ RunCommand
  BY <1>8 DEF RunHpm, RunIme, RunBlocks, RunCommand, UpdatesInv
<1>9. CASE UNCHANGED vars
  <2>1. /\ UNCHANGED <<program, pc, uncertain, large, bridged, cleanup, goal, outcome>>
        /\ UNCHANGED <<FwumOwn, KontronOwn, GuardedOwn, SettingsOwn>>
        /\ UNCHANGED <<LinkOwn, V15Own, ActivateOwn>>
    BY <1>9 DEF vars, transfer, shared, workflows, links
  <2> QED
    BY <2>1, FwumStutter, KontronStutter, GuardedStutter, SettingsStutter, LinkStutter, V15Stutter,
       ActivationStutter DEF UpdatesInv
<1> QED
  BY <1>1, <1>2, <1>3, <1>4, <1>5, <1>6, <1>7, <1>8, <1>9 DEF Next

\* The invariant implies what it is for.
LEMMA UpdatesMean ==
  ASSUME UpdatesInv
  PROVE  AnswersCurrent /\ SessionAsRequired /\ OthersWorkKept /\ LeftoversReported /\ BudgetSuffices
<1>1. AnswersCurrent
  BY DEF UpdatesInv, LinkInv, V15Inv, AnswersCurrent
<1>2. SessionAsRequired
  BY DEF UpdatesInv, ActivateInv, SessionAsRequired
<1>3. OthersWorkKept
  BY DEF UpdatesInv, FwumInv, GuardedInv, SettingsInv, OthersWorkKept
<1>4. LeftoversReported
  <2>1. ASSUME program = "fwum", pc = "ready" PROVE large \subseteq cleanup
    BY <2>1 DEF UpdatesInv, FwumInv
  <2> QED
    BY <2>1, KontronMeans DEF UpdatesInv, GuardedInv, LeftoversReported
<1>5. BudgetSuffices
  BY KontronMeans DEF UpdatesInv, BudgetSuffices
<1> QED
  BY <1>1, <1>2, <1>3, <1>4, <1>5

\* The inductive invariant of all of them.
THEOREM UpdatesInvariant == Spec => []UpdatesInv
<1>1. Init => UpdatesInv
  BY UpdatesStart
<1>2. UpdatesInv /\ [Next]_vars => UpdatesInv'
  BY UpdatesStep
<1> QED
  BY <1>1, <1>2, PTL DEF Spec

\* What a connection hands to its caller is of the request it made, once.
\* The file and the virtual CD match on a number of their own or carry one
\* request at a time; the serial port matches on six bits, so a reopened
\* port may take an answer that is a whole ring old, and nothing younger
\* (file.rs recv(), serial.rs matching, ami_usb.rs); an IPMI 1.5 session
\* accepts no sequence number twice (rmcp/v1_5).
THEOREM AnswersAreCurrent == Spec => []AnswersCurrent
BY UpdatesInvariant, UpdatesMean, PTL

\* A connection has a session of the version, the suite and the
\* authentication that was asked for, or none (Rmcp::activate()).
THEOREM SessionIsAsRequired == Spec => []SessionAsRequired
BY UpdatesInvariant, UpdatesMean, PTL

\* The bank that runs keeps its image, a lock is taken from another console
\* only after a Begin in doubt or by the SOL helper, and a checked setter
\* writes back every other setting as it read it (fwum/update.rs, the
\* guarded writes, oem/*.rs).
THEOREM OthersWorkIsKept == Spec => []OthersWorkKept
BY UpdatesInvariant, UpdatesMean, PTL

\* What a failed call leaves behind it says: a buffer of another size, a
\* lock still held (UpdateError::cleanup, KontronBufferError, the cleanup
\* errors of the guarded writes).
THEOREM LeftoversAreReported == Spec => []LeftoversReported
BY UpdatesInvariant, UpdatesMean, PTL

\* The sequence numbers a Kontron change set aside are enough for it, for
\* any size of the inventory and any budget of the transport: only a
\* restoration whose first read did cost more than the least it may cost
\* can run out of them (fru_sequence_cost()).
THEOREM BudgetIsEnough == Spec => []BudgetSuffices
BY UpdatesInvariant, UpdatesMean, PTL

-----------------------------------------------------------------------------
\* Of whichever workflow runs: where it is in its plan.
TransfersInv ==
    /\ program = "fwum" => FwumPlace /\ AsPlanned
    /\ program = "hpm" => HpmPlace
    /\ program = "kontron" => KontronSent
    /\ program = "guarded" => GuardedSent /\ AsPlanned
    /\ program = "ime" => ImePlace /\ ImeRuns /\ AsPlanned
    /\ program = "blocks" => BlocksPlace /\ BlocksHeld
    /\ program = "settings" => SettingsPlace

\* Initially nothing is sent.
LEMMA TransfersStart == Init => TransfersInv /\ Promise!Init
<1> SUFFICES ASSUME Init PROVE TransfersInv /\ Promise!Init
  OBVIOUS
<1>0. executed = <<>> /\ confirmed = 0
  BY DEF Init, WorkflowsOff, Fwum!Init, Hpm!Init, Kontron!Init, Guarded!Init, Ime!Init, Blocks!Init, Settings!Init
<1>1. CASE program = "fwum"
  <2>1. FwumPlace /\ AsPlanned /\ ~Halted
    BY <1>1, FwumTransferStart DEF Init
  <2> QED
    BY <1>0, <1>1, <2>1, HaltedIs DEF TransfersInv, Promise!Init, Ended
<1>2. CASE program = "hpm"
  <2>1. HpmPlace /\ ~Halted
    BY <1>2, HpmTransferStart DEF Init
  <2> QED
    BY <1>0, <1>2, <2>1, HaltedIs DEF TransfersInv, Promise!Init, Ended
<1>3. CASE program = "kontron"
  <2>1. KontronSent /\ ~Halted
    BY <1>3, KontronTransferStart DEF Init
  <2> QED
    BY <1>0, <1>3, <2>1, HaltedIs DEF TransfersInv, Promise!Init, Ended
<1>4. CASE program = "guarded"
  <2>1. GuardedSent /\ AsPlanned /\ ~Halted
    BY <1>4, GuardedTransferStart DEF Init
  <2> QED
    BY <1>0, <1>4, <2>1, HaltedIs DEF TransfersInv, Promise!Init, Ended
<1>5. CASE program = "ime"
  <2>1. ImePlace /\ ImeRuns /\ AsPlanned /\ ~Halted
    BY <1>5, ImeTransferStart DEF Init
  <2> QED
    BY <1>0, <1>5, <2>1, HaltedIs DEF TransfersInv, Promise!Init, Ended
<1>6. CASE program = "blocks"
  <2>1. BlocksPlace /\ BlocksHeld /\ ~Halted
    BY <1>6, BlocksTransferStart DEF Init
  <2> QED
    BY <1>0, <1>6, <2>1, HaltedIs DEF TransfersInv, Promise!Init, Ended
<1>7. CASE program = "settings"
  <2>1. SettingsPlace /\ ~Halted
    BY <1>7, SettingsTransferStart DEF Init
  <2> QED
    BY <1>0, <1>7, <2>1, HaltedIs DEF TransfersInv, Promise!Init, Ended
<1>8. CASE program \in {"link", "v15", "activate", "command"}
  <2>1. ~Halted
    BY <1>8, PlanOf DEF OwnPlan
  <2> QED
    BY <1>0, <1>8, <2>1, HaltedIs DEF TransfersInv, Promise!Init, Ended
<1> QED
  BY <1>1, <1>2, <1>3, <1>4, <1>5, <1>6, <1>7, <1>8 DEF Init

\* A plan that is followed has a length.
LEMMA PlansHaveLength ==
  /\ program = "fwum" => Len(Plan) \in Nat
  /\ program = "guarded" /\ GuardedSent => Len(Plan) \in Nat
  /\ program = "ime" /\ ImePlace => Len(Plan) \in Nat
<1>1. ASSUME program = "fwum" PROVE Len(Plan) \in Nat
  <2>1. Plan = Fwum!Plan
    BY <1>1, PlanOf DEF OwnPlan
  <2> QED
    BY <2>1, FwumPlan, LenProperties
<1>2. ASSUME program = "guarded", GuardedSent PROVE Len(Plan) \in Nat
  <2>1. Plan = Guarded!Plan /\ blocks \in Nat
    BY <1>2, PlanOf DEF OwnPlan, GuardedSent
  <2> QED
    BY <2>1, GuardedPlan, LenProperties
<1>3. ASSUME program = "ime", ImePlace PROVE Len(Plan) \in Nat
  <2>1. Plan = Ime!Plan /\ goal \in {"update", "rollback"}
    BY <1>3, PlanOf DEF OwnPlan, ImePlace
  <2> QED
    BY <2>1, ImePlan, LenProperties
<1> QED
  BY <1>1, <1>2, <1>3

LEMMA PlansKeepLength ==
  /\ program' = "fwum" => Len(Plan') \in Nat
  /\ program' = "guarded" /\ GuardedSent' => Len(Plan') \in Nat
  /\ program' = "ime" /\ ImePlace' => Len(Plan') \in Nat
<1>1. (/\ program = "fwum" => Len(Plan) \in Nat
       /\ program = "guarded" /\ GuardedSent => Len(Plan) \in Nat
       /\ program = "ime" /\ ImePlace => Len(Plan) \in Nat)'
  BY PlansHaveLength, PTL
<1> QED
  BY <1>1

\* The step is one of the program that runs.
LEMMA TransfersStep ==
  ASSUME UpdatesInv, TransfersInv, [Next]_vars
  PROVE  TransfersInv' /\ [Promise!Next]_Promise!vars
<1>1. CASE RunFwum
  <2>1. /\ program = "fwum" /\ program' = program /\ Fwum!Next /\ FwumInv /\ FwumPlace /\ AsPlanned
    BY <1>1 DEF RunFwum, UpdatesInv, TransfersInv
  <2>2. FwumPlace' /\ [Promise!Next]_Promise!vars
    BY <2>1, FwumSends
  <2>3. AsPlanned'
    BY <2>1, <2>2, PlansHaveLength, PlansKeepLength, AsPlannedStep
  <2> QED
    BY <2>1, <2>2, <2>3 DEF TransfersInv
<1>2. CASE RunHpm
  <2>1. program = "hpm" /\ program' = program /\ Hpm!Next /\ HpmPlace
    BY <1>2 DEF RunHpm, TransfersInv
  <2>2. HpmPlace' /\ [Promise!Next]_Promise!vars
    BY <2>1, HpmSends
  <2> QED
    BY <2>1, <2>2 DEF TransfersInv
<1>3. CASE RunKontron
  <2>1. program = "kontron" /\ program' = program /\ Kontron!Next /\ KontronInv /\ KontronSent
    BY <1>3 DEF RunKontron, UpdatesInv, TransfersInv
  <2>2. KontronSent' /\ [Promise!Next]_Promise!vars
    BY <2>1, KontronSends
  <2> QED
    BY <2>1, <2>2 DEF TransfersInv
<1>4. CASE RunGuarded
  <2>1. program = "guarded" /\ program' = program /\ Guarded!Next /\ GuardedSent /\ AsPlanned
    BY <1>4 DEF RunGuarded, TransfersInv
  <2>2. GuardedSent' /\ [Promise!Next]_Promise!vars
    BY <2>1, GuardedSends
  <2>3. AsPlanned'
    BY <2>1, <2>2, PlansHaveLength, PlansKeepLength, AsPlannedStep
  <2> QED
    BY <2>1, <2>2, <2>3 DEF TransfersInv
<1>5. CASE RunIme
  <2>1. program = "ime" /\ program' = program /\ Ime!Next /\ ImePlace /\ ImeRuns /\ AsPlanned
    BY <1>5 DEF RunIme, TransfersInv
  <2>2. ImePlace' /\ ImeRuns' /\ [Promise!Next]_Promise!vars
    BY <2>1, ImeSends
  <2>3. AsPlanned'
    BY <2>1, <2>2, PlansHaveLength, PlansKeepLength, AsPlannedStep
  <2> QED
    BY <2>1, <2>2, <2>3 DEF TransfersInv
<1>6. CASE RunBlocks
  <2>1. program = "blocks" /\ program' = program /\ Blocks!Next /\ BlocksPlace /\ BlocksHeld
    BY <1>6 DEF RunBlocks, TransfersInv
  <2>2. BlocksPlace' /\ BlocksHeld' /\ [Promise!Next]_Promise!vars
    BY <2>1, BlocksSends
  <2> QED
    BY <2>1, <2>2 DEF TransfersInv
<1>7. CASE RunSettings
  <2>1. program = "settings" /\ program' = program /\ Settings!Next /\ SettingsPlace
    BY <1>7 DEF RunSettings, TransfersInv
  <2>2. SettingsPlace' /\ [Promise!Next]_Promise!vars
    BY <2>1, SettingsSends
  <2> QED
    BY <2>1, <2>2 DEF TransfersInv
<1>8. CASE RunLink \/ RunV15 \/ RunActivation \/ RunCommand
  <2>1. /\ program \in {"link", "v15", "activate", "command"} /\ program' = program
        /\ UNCHANGED <<executed, confirmed>>
    BY <1>8 DEF RunLink, RunV15, RunActivation, RunCommand
  <2>2. UNCHANGED Plan /\ ~Halted
    BY <2>1, PlanOf DEF OwnPlan
  <2> QED
    BY <2>1, <2>2, Quiet DEF TransfersInv
<1>9. CASE UNCHANGED vars
  <2>1. /\ UNCHANGED <<program, pc, executed, confirmed>>
        /\ UNCHANGED <<large, phase, confirmed_bytes, bridged, cleanup, goal, outcome, uncertain>>
        /\ UNCHANGED <<FwumOwn, HpmOwn, KontronOwn, GuardedOwn, ImeOwn, BlocksOwn, SettingsOwn>>
    BY <1>9 DEF vars, transfer, shared, workflows
  <2>2. /\ UNCHANGED <<negotiated, package, workflow, changed, before, blocks, commit_mode>>
        /\ UNCHANGED <<writer, length, path, setter>>
    BY <2>1 DEF FwumOwn, HpmOwn, KontronOwn, GuardedOwn, BlocksOwn, SettingsOwn
  <2>3. UNCHANGED <<Plan, Halted>>
    BY <2>1, <2>2, PlansStay
  <2>4. [Promise!Next]_Promise!vars
    BY <2>1, <2>3 DEF Promise!vars
  <2>5. AsPlanned => AsPlanned'
    BY <2>1, <2>3, AsPlannedStays
  <2>6. FwumPlace => FwumPlace'
    BY <2>1, FwumTransferStays
  <2>7. HpmPlace => HpmPlace'
    BY <2>1, HpmTransferStays
  <2>8. KontronSent => KontronSent'
    BY <2>1, KontronTransferStays
  <2>9. program = "guarded" /\ GuardedSent => GuardedSent'
    BY <2>1, GuardedTransferStays
  <2>10. ImePlace /\ ImeRuns => ImePlace' /\ ImeRuns'
    BY <2>1, ImeTransferStays
  <2>11. BlocksPlace /\ BlocksHeld => BlocksPlace' /\ BlocksHeld'
    BY <2>1, BlocksTransferStays
  <2>12. SettingsPlace => SettingsPlace'
    BY <2>1 DEF SettingsPlace
  <2> QED
    BY <2>1, <2>4, <2>5, <2>6, <2>7, <2>8, <2>9, <2>10, <2>11, <2>12 DEF TransfersInv
<1> QED
  BY <1>1, <1>2, <1>3, <1>4, <1>5, <1>6, <1>7, <1>8, <1>9 DEF Next

\* What the places mean for the caller.
LEMMA TransfersMean ==
  ASSUME UpdatesInv, TransfersInv
  PROVE  ReportsTruthful
<1>1. ASSUME program = "guarded", Guarded!Succeeded PROVE executed = Plan /\ lock # "ours"
  BY <1>1 DEF UpdatesInv, TransfersInv, GuardedInv, GuardedSent, Guarded!Succeeded, Guarded!LockAccounted
<1>2. program = "hpm" => Hpm!ProgressTruthful
  BY HpmMeans DEF TransfersInv
<1>3. program = "kontron" => Kontron!AppliedExact
  BY DEF TransfersInv, KontronSent
<1>4. program = "ime" => Ime!RunsWhatItReports
  BY DEF TransfersInv, ImeRuns
<1>5. program = "blocks" => Blocks!WholeValue /\ Blocks!EndIsLast
  BY DEF TransfersInv, BlocksHeld
<1>6. program = "fwum" =>
         /\ phase = "Staged" => executed = SubSeq(Plan, 1, Len(Plan) - 1)
         /\ phase = "Activated" /\ ~meddled => banks[Fwum!Spare] = Fwum!Status("good", "image")
         /\ saved - confirmed_bytes \in 0 .. Capacity
  BY FwumMeans DEF TransfersInv
<1> QED
  BY <1>1, <1>2, <1>3, <1>4, <1>5, <1>6, Zenon DEF ReportsTruthful

\* Where every workflow is in its plan, and what the target has of it: the
\* inductive invariant of the workflows of fwum/update.rs, hpm/update.rs,
\* kontron_workflow.rs, oem/*.rs, dcmi.rs, fru.rs and the guarded writes.
THEOREM TransfersInvariant == Spec => [](UpdatesInv /\ TransfersInv)
<1>1. Init => UpdatesInv /\ TransfersInv
  BY UpdatesStart, TransfersStart
<1>2. (UpdatesInv /\ TransfersInv) /\ [Next]_vars => (UpdatesInv /\ TransfersInv)'
  BY UpdatesStep, TransfersStep
<1> QED
  BY <1>1, <1>2, PTL DEF Spec

\* Each of these workflows sends every write of its plan at most once and in
\* order, and after one that was refused or is in doubt nothing but cleanup,
\* or one rollback that is itself sent once: the steps of each are steps of
\* OneShot or change nothing of it.
THEOREM WorkflowsImplementOneShot == Spec => ImplementsOneShot
<1>1. Init => Promise!Init
  BY TransfersStart
<1>2. UpdatesInv /\ TransfersInv /\ [Next]_vars => [Promise!Next]_Promise!vars
  BY TransfersStep
<1> QED
  BY <1>1, <1>2, TransfersInvariant, PTL DEF Spec, ImplementsOneShot, Promise!Spec

\* A reported success is one, and what is reported of the progress differs
\* from what the target has by the write in doubt at most (UpdatePhase,
\* TransferState, KontronOutcome, confirmed_bytes).
THEOREM ReportsAreTruthful == Spec => []ReportsTruthful
<1>1. UpdatesInv /\ TransfersInv => ReportsTruthful
  BY TransfersMean
<1> QED
  BY <1>1, TransfersInvariant, PTL
=============================================================================
