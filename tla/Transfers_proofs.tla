--------------------------- MODULE Transfers_proofs ---------------------------
(***************************************************************************)
(* What each workflow sends, for any image, package, inventory, value and  *)
(* chunk: where it is in its plan (its place), that a step sends the next  *)
(* write of the plan or none, and what the places say of the target.       *)
(* Updates_proofs concludes from it that all of them implement OneShot.    *)
(*                                                                         *)
(* In the order of the module: what holds for all (Sending, Quiet,         *)
(* AsPlannedStep, AllSent), settings, guarded writes, Intel ME, values in  *)
(* blocks, Kontron, FWUM, HPM.1; then how each begins and idles.           *)
(***************************************************************************)
EXTENDS Workflows_proofs

\* Each program has its own plan, and its own end.
OwnPlan ==
  /\ program = "fwum" => Plan = Fwum!Plan /\ (Halted <=> Fwum!Halted)
  /\ program = "hpm" => Plan = Hpm!Plan /\ (Halted <=> Hpm!Halted)
  /\ program = "kontron" => Plan = Kontron!Plan /\ (Halted <=> Kontron!Halted)
  /\ program = "guarded" => Plan = Guarded!Plan /\ (Halted <=> Guarded!Halted)
  /\ program = "ime" => Plan = Ime!Plan /\ (Halted <=> Ime!Halted)
  /\ program = "blocks" => Plan = Blocks!Plan /\ (Halted <=> Blocks!Halted)
  /\ program = "settings" => Plan = Settings!Plan /\ (Halted <=> Settings!Halted)
  /\ program \notin {"fwum", "hpm", "kontron", "guarded", "ime", "blocks", "settings"} => Plan = <<>> /\ ~Halted

LEMMA PlanOf == OwnPlan /\ OwnPlan'
<1>1. OwnPlan
  BY DEF OwnPlan, Plan, Halted
<1>2. OwnPlan'
  BY DEF OwnPlan, Plan, Halted
<1> QED
  BY <1>1, <1>2

\* Each has ended or not.
Ended(halted) == halted = TRUE \/ halted = FALSE

OwnEnd ==
  /\ program = "fwum" => Halted = Fwum!Halted
  /\ program = "hpm" => Halted = Hpm!Halted
  /\ program = "kontron" => Halted = Kontron!Halted
  /\ program = "guarded" => Halted = Guarded!Halted
  /\ program = "ime" => Halted = Ime!Halted
  /\ program = "blocks" => Halted = Blocks!Halted
  /\ program = "settings" => Halted = Settings!Halted
  /\ program \notin {"fwum", "hpm", "kontron", "guarded", "ime", "blocks", "settings"} => Halted = FALSE

LEMMA HaltedIs == Ended(Halted) /\ Ended(Halted')
<1>1. /\ Ended(Fwum!Halted) /\ Ended(Hpm!Halted) /\ Ended(Kontron!Halted) /\ Ended(Guarded!Halted)
      /\ Ended(Ime!Halted) /\ Ended(Blocks!Halted) /\ Ended(Settings!Halted)
  BY DEF Ended, Fwum!Halted, Hpm!Halted, Kontron!Halted, Guarded!Halted, Ime!Halted, Blocks!Halted, Settings!Halted
<1>2. /\ Ended(Fwum!Halted') /\ Ended(Hpm!Halted') /\ Ended(Kontron!Halted') /\ Ended(Guarded!Halted')
      /\ Ended(Ime!Halted') /\ Ended(Blocks!Halted') /\ Ended(Settings!Halted')
  BY DEF Ended, Fwum!Halted, Hpm!Halted, Kontron!Halted, Guarded!Halted, Ime!Halted, Blocks!Halted, Settings!Halted
<1>3. Ended(FALSE)
  BY DEF Ended
<1>4. OwnEnd /\ OwnEnd'
  BY DEF OwnEnd, Halted
<1> QED
  BY <1>1, <1>2, <1>3, <1>4, Zenon DEF OwnEnd

\* A write that is sent is the next of the plan, and ends it unless it is
\* acknowledged.
LEMMA Sending ==
  ASSUME ~Halted, Plan' = Plan, confirmed < Len(Plan),
         \/ executed' = Append(executed, Plan[confirmed + 1]) /\ confirmed' = confirmed + 1
         \/ /\ executed' = Append(executed, Plan[confirmed + 1]) \/ executed' = executed
            /\ confirmed' = confirmed /\ Halted'
  PROVE  [Promise!Next]_Promise!vars
<1>1. Halted' \in BOOLEAN /\ (Halted' => Halted' = TRUE)
  BY HaltedIs, Zenon DEF Ended
<1> QED
  BY <1>1 DEF Promise!Next, Promise!Acknowledged, Promise!InDoubt, Promise!Stopped, Promise!Carry

\* Any other step sends none.
LEMMA Quiet ==
  ASSUME UNCHANGED <<executed, confirmed, Plan>>, Halted => Halted'
  PROVE  [Promise!Next]_Promise!vars
<1>1. Halted' = Halted \/ Halted' = TRUE
  BY HaltedIs, Zenon DEF Ended
<1> QED
  BY <1>1 DEF Promise!Next, Promise!Stopped, Promise!vars

\* What is acknowledged so far is the plan so far.
Items == {Plan[i] : i \in 1..Len(Plan)}
AsPlanned ==
    ~Halted =>
      /\ confirmed \in Nat /\ confirmed <= Len(Plan)
      /\ executed \in Seq(Items) /\ Len(executed) = confirmed
      /\ \A i \in 1..confirmed : executed[i] = Plan[i]

LEMMA AsPlannedStep ==
  ASSUME AsPlanned, Len(Plan) \in Nat, Len(Plan') \in Nat, [Promise!Next]_Promise!vars
  PROVE  AsPlanned'
<1> SUFFICES ASSUME ~Halted' PROVE AsPlanned'
  BY DEF AsPlanned
<1>1. CASE executed' = <<>> /\ confirmed' = 0
  <2>1. <<>> \in Seq(Items')
    BY EmptySeq
  <2> QED
    BY <1>1, <2>1 DEF AsPlanned
<1>2. CASE Plan' = Plan /\ ~Halted /\ executed' = executed /\ confirmed' = confirmed
  BY <1>2 DEF AsPlanned, Items
<1>3. CASE Promise!Acknowledged
  <2>1. /\ confirmed < Len(Plan) /\ executed' = Append(executed, Plan[confirmed + 1])
        /\ confirmed' = confirmed + 1 /\ Plan' = Plan /\ ~Halted
    BY <1>3 DEF Promise!Acknowledged, Promise!Carry
  <2>2. /\ confirmed \in Nat /\ executed \in Seq(Items) /\ Len(executed) = confirmed
        /\ \A i \in 1..confirmed : executed[i] = Plan[i]
    BY <2>1 DEF AsPlanned
  <2>3. Plan[confirmed + 1] \in Items
    BY <2>1, <2>2 DEF Items
  <2>4. /\ executed' \in Seq(Items) /\ Len(executed') = confirmed + 1
        /\ \A i \in 1..confirmed : executed'[i] = executed[i]
        /\ executed'[confirmed + 1] = Plan[confirmed + 1]
    BY <2>1, <2>2, <2>3, AppendProperties
  <2>5. \A i \in 1..confirmed' : executed'[i] = Plan'[i]
    BY <2>1, <2>2, <2>4
  <2>6. Items' = Items
    BY <2>1 DEF Items
  <2> QED
    BY <2>1, <2>2, <2>4, <2>5, <2>6 DEF AsPlanned
<1> QED
  BY <1>1, <1>2, <1>3, HaltedIs DEF Ended, Promise!Next, Promise!Planned, Promise!InDoubt, Promise!Stopped, Promise!Undone, Promise!vars

\* A checked setting is one write.
SettingsPlace == pc # "done" => confirmed = 0

LEMMA SettingsSends ==
  ASSUME program = "settings", program' = program, SettingsPlace, Settings!Next
  PROVE  SettingsPlace' /\ [Promise!Next]_Promise!vars
<1>1. /\ Plan = Settings!Plan /\ Plan' = Settings!Plan' 
      /\ (Halted <=> Settings!Halted) /\ (Halted' <=> Settings!Halted')
  BY PlanOf DEF OwnPlan
<1>2. Settings!Plan' = Settings!Plan
  BY DEF Settings!Plan, Settings!Write, Settings!Next, Settings!Start, Settings!CheckGeneration, Settings!Read,
         Settings!Set, Settings!Meddle, Settings!Replace, Settings!call
<1>3. CASE Settings!Set
  <2>1. PICK o \in Settings!Outcomes :
          /\ executed' = IF o.carried THEN Append(executed, Settings!Plan[1]) ELSE executed
          /\ confirmed' = IF o.answer = "ok" THEN 1 ELSE 0
          /\ Settings!Stop(o.answer)
    BY <1>3 DEF Settings!Set
  <2>2. pc = "write" /\ confirmed = 0 /\ pc' = "done"
    BY <1>3, <2>1 DEF Settings!Set, Settings!Stop, SettingsPlace
  <2>3. \/ executed' = Append(executed, Settings!Plan[1]) /\ confirmed' = 1
        \/ (executed' = Append(executed, Settings!Plan[1]) \/ executed' = executed) /\ confirmed' = 0
    BY <2>1 DEF Settings!Outcomes
  <2>4. Len(Settings!Plan) = 1
    BY DEF Settings!Plan
  <2>5. ~Halted /\ Halted'
    BY <1>1, <2>2 DEF Settings!Halted
  <2>6. Plan' = Plan /\ confirmed < Len(Plan)
    BY <1>1, <1>2, <2>2, <2>4
  <2>7. \/ executed' = Append(executed, Plan[confirmed + 1]) /\ confirmed' = confirmed + 1
        \/ (executed' = Append(executed, Plan[confirmed + 1]) \/ executed' = executed) /\ confirmed' = confirmed
    BY <1>1, <2>2, <2>3
  <2> QED
    BY <2>2, <2>5, <2>6, <2>7, Sending DEF SettingsPlace
<1>4. CASE ~Settings!Set
  <2>1. UNCHANGED <<executed, confirmed>> /\ (pc = "done" => pc' = "done") /\ (pc' = pc \/ pc # "done")
    BY <1>4 DEF Settings!Next, Settings!Start, Settings!CheckGeneration, Settings!Read, Settings!BeforeWrite,
                Settings!Stop, Settings!Meddle, Settings!Replace, Settings!transfer
  <2>2. Halted => Halted'
    BY <1>1, <2>1 DEF Settings!Halted
  <2> QED
    BY <1>1, <1>2, <2>1, <2>2, Quiet DEF SettingsPlace
<1> QED
  BY <1>3, <1>4

-----------------------------------------------------------------------------
\* All of the plan is sent: up to now, or with the write that is sent now.
LEMMA AllSent ==
  ASSUME AsPlanned, ~Halted, NEW S, Plan \in Seq(S)
  PROVE  /\ confirmed = Len(Plan) => executed = Plan
         /\ confirmed + 1 = Len(Plan) => Append(executed, Plan[confirmed + 1]) = Plan
<1>1. /\ confirmed \in Nat /\ executed \in Seq(Items) /\ Len(executed) = confirmed
      /\ \A i \in 1..confirmed : executed[i] = Plan[i]
  BY DEF AsPlanned
<1>2. Len(Plan) \in Nat
  BY LenProperties
<1>3. Plan \in Seq(Items)
  <2>1. Plan = [i \in 1..Len(Plan) |-> Plan[i]]
    BY LenProperties
  <2>2. \A i \in 1..Len(Plan) : Plan[i] \in Items
    BY DEF Items
  <2>3. Plan \in [1..Len(Plan) -> Items]
    BY <2>1, <2>2
  <2> QED
    BY <1>2, <2>3, SeqDef
<1>4. ASSUME confirmed = Len(Plan) PROVE executed = Plan
  BY <1>1, <1>3, <1>4, SeqEqual
<1>5. ASSUME confirmed + 1 = Len(Plan) PROVE Append(executed, Plan[confirmed + 1]) = Plan
  <2> DEFINE whole == Append(executed, Plan[confirmed + 1])
  <2>1. Plan[confirmed + 1] \in Items
    BY <1>1, <1>5 DEF Items
  <2>2. /\ whole \in Seq(Items) /\ Len(whole) = confirmed + 1
        /\ \A i \in 1..confirmed : whole[i] = executed[i]
        /\ whole[confirmed + 1] = Plan[confirmed + 1]
    BY <1>1, <2>1, AppendProperties
  <2> HIDE DEF whole
  <2>3. Len(whole) = Len(Plan) /\ \A i \in 1..Len(whole) : whole[i] = Plan[i]
    BY <1>1, <1>5, <2>2
  <2>4. whole = Plan
    BY <1>3, <2>2, <2>3, SeqEqual
  <2> QED
    BY <2>4 DEF whole
<1> QED
  BY <1>4, <1>5

\* Two parts of a plan, one after the other.
LEMMA Joined ==
  ASSUME NEW S, NEW s \in Seq(S), NEW t \in Seq(S), NEW u, u = s \o t
  PROVE  /\ u \in Seq(S) /\ Len(s) \in Nat /\ Len(t) \in Nat /\ Len(u) = Len(s) + Len(t)
         /\ \A i \in 1..Len(s) : u[i] = s[i]
         /\ \A i \in 1..Len(t) : u[Len(s) + i] = t[i]
<1>1. /\ u \in Seq(S) /\ Len(u) = Len(s) + Len(t)
      /\ \A i \in 1..Len(s) + Len(t) : u[i] = IF i <= Len(s) THEN s[i] ELSE t[i - Len(s)]
  BY ConcatProperties
<1>2. Len(s) \in Nat /\ Len(t) \in Nat
  BY LenProperties
<1>3. ASSUME NEW i \in 1..Len(s) PROVE u[i] = s[i]
  BY <1>1, <1>2
<1>4. ASSUME NEW i \in 1..Len(t) PROVE u[Len(s) + i] = t[i]
  <2>1. Len(s) + i \in 1..Len(s) + Len(t) /\ ~(Len(s) + i <= Len(s)) /\ (Len(s) + i) - Len(s) = i
    BY <1>2
  <2> QED
    BY <1>1, <2>1
<1> QED
  BY <1>1, <1>2, <1>3, <1>4

(* A guarded write: Begin, the blocks, the commit; its flags say which of  *)
(* them was not acknowledged.                                              *)
GuardedSent ==
    /\ blocks \in Nat
    /\ pc \in {"begin", "write", "complete", "done"}
    /\ pc = "begin" => confirmed = 0 /\ ~failed_write /\ ~failed_commit
    /\ pc = "write" => /\ confirmed \in Nat \ {0} /\ confirmed <= blocks + 1
                       /\ begin = "ok" /\ ~failed_write /\ ~failed_commit
    /\ pc \in {"complete", "done"} /\ begin = "ok" /\ ~failed_write /\ ~failed_commit => executed = Plan

GuardedWrites == [op : {"begin", "block", "commit"}, at : Nat]

LEMMA GuardedPlan ==
  ASSUME blocks \in Nat
  PROVE  /\ Guarded!Plan \in Seq(GuardedWrites)
         /\ Len(Guarded!Plan) = IF commit_mode THEN blocks + 2 ELSE blocks + 1
         /\ Guarded!Plan[1] = Guarded!Write("begin", 0)
         /\ \A k \in 1..blocks : Guarded!Plan[k + 1] = Guarded!Write("block", k)
         /\ commit_mode => Guarded!Plan[blocks + 2] = Guarded!Write("commit", 0)
<1> DEFINE first == <<Guarded!Write("begin", 0)>>
           middle == [k \in 1..blocks |-> Guarded!Write("block", k)]
           end == IF commit_mode THEN <<Guarded!Write("commit", 0)>> ELSE <<>>
           start == first \o middle
<1>1. first \in Seq(GuardedWrites) /\ Len(first) = 1 /\ first[1] = Guarded!Write("begin", 0)
  BY DEF GuardedWrites, Guarded!Write
<1>2. middle \in Seq(GuardedWrites) /\ Len(middle) = blocks /\ \A k \in 1..blocks : middle[k] = Guarded!Write("block", k)
  <2>1. middle \in [1..blocks -> GuardedWrites]
    BY DEF GuardedWrites, Guarded!Write
  <2>2. middle \in Seq(GuardedWrites)
    BY <2>1, SeqDef
  <2> QED
    BY <2>2
<1>3. /\ end \in Seq(GuardedWrites) /\ Len(end) = IF commit_mode THEN 1 ELSE 0
      /\ commit_mode => end[1] = Guarded!Write("commit", 0)
  <2>1. CASE commit_mode
    <3>1. end = <<Guarded!Write("commit", 0)>> /\ Guarded!Write("commit", 0) \in GuardedWrites
      BY <2>1 DEF GuardedWrites, Guarded!Write
    <3> HIDE DEF end
    <3> QED
      BY <2>1, <3>1
  <2>2. CASE ~commit_mode
    <3>1. end = <<>>
      BY <2>2
    <3> HIDE DEF end
    <3> QED
      BY <2>2, <3>1, EmptySeq
  <2> QED
    BY <2>1, <2>2
<1>4. Guarded!Plan = (first \o middle) \o end
  BY DEF Guarded!Plan
<1> HIDE DEF first, middle, end
<1>a. start = first \o middle
  OBVIOUS
<1> HIDE DEF start
<1>5. /\ start \in Seq(GuardedWrites) /\ Len(start) = 1 + blocks
      /\ start[1] = Guarded!Write("begin", 0)
      /\ \A k \in 1..blocks : start[1 + k] = Guarded!Write("block", k)
  <2>1. /\ start \in Seq(GuardedWrites) /\ Len(start) = Len(first) + Len(middle)
        /\ \A i \in 1..Len(first) : start[i] = first[i]
        /\ \A i \in 1..Len(middle) : start[Len(first) + i] = middle[i]
    <3>1. first \in Seq(GuardedWrites) /\ middle \in Seq(GuardedWrites)
      BY <1>1, <1>2
    <3> QED
      BY <3>1, <1>a, Joined, SMTT(30)
  <2> QED
    BY <1>1, <1>2, <2>1
<1> DEFINE plan == start \o end
<1>b. plan = start \o end
  OBVIOUS
<1> HIDE DEF plan
<1>6. /\ plan \in Seq(GuardedWrites) /\ Len(plan) = 1 + blocks + Len(end)
      /\ \A i \in 1..1 + blocks : plan[i] = start[i]
      /\ \A i \in 1..Len(end) : plan[1 + blocks + i] = end[i]
  BY <1>3, <1>5, <1>b, Joined
<1>8. commit_mode => plan[blocks + 2] = end[1]
  <2>1. commit_mode => plan[1 + blocks + 1] = end[1]
    BY <1>3, <1>6
  <2>2. 1 + blocks + 1 = blocks + 2
    OBVIOUS
  <2> QED
    BY <2>1, <2>2
<1>9. \A k \in 1..blocks : plan[k + 1] = Guarded!Write("block", k)
  <2> SUFFICES ASSUME NEW k \in 1..blocks PROVE plan[k + 1] = Guarded!Write("block", k)
    OBVIOUS
  <2>1. 1 + k \in 1..1 + blocks /\ 1 + k = k + 1
    OBVIOUS
  <2> QED
    BY <1>5, <1>6, <2>1
<1>10. plan[1] = start[1]
  BY <1>6
<1>7. Guarded!Plan = plan
  BY <1>4, <1>a, <1>b
<1> QED
  BY <1>3, <1>5, <1>6, <1>7, <1>8, <1>9, <1>10

\* The blocks follow Begin, the commit follows them.
LEMMA GuardedSends ==
  ASSUME program = "guarded", program' = program, GuardedSent, AsPlanned, Guarded!Next
  PROVE  GuardedSent' /\ [Promise!Next]_Promise!vars
<1>1. /\ Plan = Guarded!Plan /\ Plan' = Guarded!Plan' 
      /\ (Halted <=> pc \in {"complete", "done"}) /\ (Halted' <=> pc' \in {"complete", "done"})
  BY PlanOf DEF OwnPlan, Guarded!Halted
<1>2. UNCHANGED <<blocks, commit_mode>>
  BY DEF Guarded!Next, Guarded!Begin, Guarded!WriteBlock, Guarded!CommitWrite, Guarded!Complete,
         Guarded!OtherBegins, Guarded!OtherCompletes, Guarded!call
<1>3. Guarded!Plan' = Guarded!Plan
  BY <1>2 DEF Guarded!Plan, Guarded!Write
<1>4. blocks \in Nat
  BY DEF GuardedSent
<1>5. /\ Plan \in Seq(GuardedWrites) /\ Len(Plan) = IF commit_mode THEN blocks + 2 ELSE blocks + 1
      /\ Plan[1] = Guarded!Write("begin", 0)
      /\ \A k \in 1..blocks : Plan[k + 1] = Guarded!Write("block", k)
      /\ commit_mode => Plan[blocks + 2] = Guarded!Write("commit", 0)
  BY <1>1, <1>4, GuardedPlan
<1>6. CASE Guarded!Begin
  <2>1. PICK o \in Guarded!Outcomes :
          /\ Guarded!Sent(o, Guarded!Write("begin", 0))
          /\ begin' = o.answer
          /\ pc' = IF o.answer = "ok" THEN "write" ELSE IF Guarded!CleansUp(o.answer) THEN "complete" ELSE "done"
    BY <1>6 DEF Guarded!Begin
  <2>2. /\ pc = "begin" /\ confirmed = 0 /\ UNCHANGED <<failed_write, failed_commit>>
    BY <1>6 DEF Guarded!Begin, GuardedSent
  <2>3. \/ /\ executed' = Append(executed, Plan[confirmed + 1]) /\ confirmed' = confirmed + 1
           /\ pc' = "write" /\ begin' = "ok"
        \/ /\ executed' = Append(executed, Plan[confirmed + 1]) \/ executed' = executed
           /\ confirmed' = confirmed /\ pc' \in {"complete", "done"} /\ begin' # "ok"
    BY <1>5, <2>1, <2>2 DEF Guarded!Sent, Guarded!Outcomes
  <2> QED
    BY <1>1, <1>2, <1>3, <1>4, <1>5, <2>2, <2>3, Sending DEF GuardedSent
<1>7. CASE Guarded!WriteBlock
  <2>1. PICK o \in Guarded!Outcomes :
          /\ Guarded!Sent(o, Guarded!Write("block", confirmed))
          /\ failed_write' = (o.answer # "ok")
          /\ pc' = IF o.answer = "ok" THEN "write" ELSE "complete"
    BY <1>7 DEF Guarded!WriteBlock
  <2>2. /\ pc = "write" /\ confirmed \in 1..blocks /\ begin = "ok" /\ ~failed_commit
        /\ UNCHANGED <<begin, failed_commit>>
    BY <1>4, <1>7 DEF Guarded!WriteBlock, GuardedSent
  <2>3. \/ /\ executed' = Append(executed, Plan[confirmed + 1]) /\ confirmed' = confirmed + 1
           /\ pc' = "write" /\ failed_write' = FALSE
        \/ /\ executed' = Append(executed, Plan[confirmed + 1]) \/ executed' = executed
           /\ confirmed' = confirmed /\ pc' = "complete" /\ failed_write' = TRUE
    <3>1. Plan[confirmed + 1] = Guarded!Write("block", confirmed)
      BY <1>5, <2>2
    <3>2. /\ o.answer = "ok" => failed_write' = FALSE
          /\ o.answer # "ok" => failed_write' = TRUE
      BY <2>1
    <3> QED
      BY <2>1, <2>2, <3>1, <3>2 DEF Guarded!Sent, Guarded!Outcomes
  <2>4. confirmed < Len(Plan)
    BY <1>4, <1>5, <2>2
  <2> QED
    BY <1>1, <1>2, <1>3, <1>4, <2>2, <2>3, <2>4, Sending DEF GuardedSent
<1>8. CASE Guarded!CommitWrite
  <2>1. /\ pc = "write" /\ confirmed = blocks + 1 /\ pc' = "complete" /\ ~failed_write /\ ~failed_commit
        /\ UNCHANGED <<begin, failed_write>>
    BY <1>8 DEF Guarded!CommitWrite, GuardedSent
  <2>2. ~Halted /\ Halted'
    BY <1>1, <2>1
  <2>3. CASE commit_mode
    <3>1. PICK o \in Guarded!Outcomes : Guarded!Sent(o, Guarded!Write("commit", 0)) /\ failed_commit' = (o.answer # "ok")
      BY <1>8, <2>3 DEF Guarded!CommitWrite, Guarded!Commit
    <3>2. /\ confirmed + 1 = Len(Plan) /\ confirmed + 1 = blocks + 2
      BY <1>4, <1>5, <2>1, <2>3
    <3>3. \/ executed' = Append(executed, Plan[confirmed + 1]) /\ confirmed' = confirmed + 1
          \/ /\ executed' = Append(executed, Plan[confirmed + 1]) \/ executed' = executed
             /\ confirmed' = confirmed /\ failed_commit' = TRUE
      <4>1. Plan[confirmed + 1] = Guarded!Write("commit", 0)
        BY <1>5, <2>3, <3>2
      <4>2. o.answer # "ok" => failed_commit' = TRUE
        BY <3>1
      <4> QED
        BY <3>1, <4>1, <4>2 DEF Guarded!Sent, Guarded!Outcomes
    <3>4. Append(executed, Plan[confirmed + 1]) = Plan
      BY <1>5, <2>2, <3>2, AllSent
    <3>5. confirmed < Len(Plan)
      BY <1>4, <2>1, <3>2
    <3>6. [Promise!Next]_Promise!vars
      BY <1>1, <1>3, <2>2, <3>3, <3>5, Sending
    <3> QED
      BY <1>1, <1>2, <1>3, <1>4, <2>1, <3>3, <3>4, <3>6 DEF GuardedSent
  <2>4. CASE ~commit_mode
    <3>1. UNCHANGED <<executed, confirmed>>
      BY <1>8, <2>4 DEF Guarded!CommitWrite
    <3>2. executed = Plan
      BY <1>5, <2>1, <2>2, <2>4, AllSent
    <3> QED
      BY <1>1, <1>2, <1>3, <1>4, <2>1, <2>2, <3>1, <3>2, Quiet DEF GuardedSent
  <2> QED
    BY <2>3, <2>4
<1>9. CASE Guarded!Complete \/ Guarded!OtherBegins \/ Guarded!OtherCompletes
  <2>1. /\ UNCHANGED <<executed, confirmed, begin, failed_write, failed_commit>>
        /\ pc' = pc \/ (pc = "complete" /\ pc' = "done")
    BY <1>9 DEF Guarded!Complete, Guarded!OtherBegins, Guarded!OtherCompletes, Guarded!transfer, Guarded!result
  <2>2. Halted => Halted'
    BY <1>1, <2>1
  <2> QED
    BY <1>1, <1>2, <1>3, <1>4, <2>1, <2>2, Quiet DEF GuardedSent
<1> QED
  BY <1>6, <1>7, <1>8, <1>9 DEF Guarded!Next

-----------------------------------------------------------------------------
(* Intel ME: each write is followed by a status read, which takes the last *)
(* of them for done only if the ME runs the image.                         *)
ImePlace ==
    /\ pc \in {"info", "send", "expect", "done"}
    /\ goal \in {"update", "rollback"}
    /\ pc = "info" => confirmed = 0
    /\ pc = "send" => confirmed \in Nat /\ confirmed < Len(Ime!Plan)
    /\ pc = "expect" => confirmed \in Nat \ {0} /\ confirmed <= Len(Ime!Plan)
ImeRuns ==
    /\ pc # "done" => outcome # "ok"
    /\ goal = "update" /\ pc \in {"send", "expect"} /\ update_state = "Success" => running = "new"
    /\ goal = "rollback" /\ update_state = "RolledBack" => running = "backup"
    /\ Ime!RunsWhatItReports

ImeWrites == [op : {"prepare", "open", "piece", "close", "activate", "restore"}, at : Nat]

LEMMA ImePlan ==
  ASSUME goal \in {"update", "rollback"}
  PROVE  /\ Ime!Plan \in Seq(ImeWrites) /\ Len(Ime!Plan) \in Nat \ {0}
         /\ Ime!Plan[Len(Ime!Plan)].op = IF goal = "update" THEN "activate" ELSE "restore"
<1> USE SizesAssumption
<1>1. CASE goal = "rollback"
  BY <1>1 DEF Ime!Plan, ImeWrites, Ime!Write
<1>2. CASE goal = "update"
  <2> DEFINE first == <<Ime!Write("prepare", 0), Ime!Write("open", 0)>>
             middle == [k \in 1 .. Pieces |-> Ime!Write("piece", k)]
             end == <<Ime!Write("close", 0), Ime!Write("activate", 0)>>
             start == first \o middle
             plan == start \o end
  <2>1. first \in Seq(ImeWrites) /\ Len(first) = 2
    BY DEF ImeWrites, Ime!Write
  <2>2. middle \in Seq(ImeWrites) /\ Len(middle) = Pieces
    <3>1. middle \in [1..Pieces -> ImeWrites]
      BY DEF ImeWrites, Ime!Write
    <3> QED
      BY <3>1, SeqDef
  <2>3. end \in Seq(ImeWrites) /\ Len(end) = 2 /\ end[2].op = "activate"
    BY DEF ImeWrites, Ime!Write
  <2>4. Ime!Plan = plan
    BY <1>2 DEF Ime!Plan
  <2> HIDE DEF first, middle, end
  <2>5. start = first \o middle
    OBVIOUS
  <2> HIDE DEF start
  <2>6. plan = start \o end
    OBVIOUS
  <2> HIDE DEF plan
  <2>7. start \in Seq(ImeWrites) /\ Len(start) = 2 + Pieces
    <3>1. first \in Seq(ImeWrites) /\ middle \in Seq(ImeWrites)
      BY <2>1, <2>2
    <3>2. start \in Seq(ImeWrites) /\ Len(start) = Len(first) + Len(middle)
      BY <3>1, <2>5, Joined, SMTT(30)
    <3> QED
      BY <2>1, <2>2, <3>2
  <2>8. plan \in Seq(ImeWrites) /\ Len(plan) = Pieces + 4 /\ plan[Pieces + 4] = end[2]
    <3>1. /\ plan \in Seq(ImeWrites) /\ Len(plan) = Len(start) + Len(end)
          /\ \A i \in 1..Len(end) : plan[Len(start) + i] = end[i]
      <4>1. start \in Seq(ImeWrites) /\ end \in Seq(ImeWrites)
        BY <2>3, <2>7
      <4> QED
        BY <4>1, <2>6, Joined, SMTT(30)
    <3>2. plan[Len(start) + 2] = end[2] /\ Len(start) + 2 = Pieces + 4
      BY <2>3, <2>7, <3>1
    <3> QED
      BY <2>3, <2>7, <3>1, <3>2
  <2> QED
    BY <1>2, <2>3, <2>4, <2>8
<1> QED
  BY <1>1, <1>2

LEMMA ImeSends ==
  ASSUME program = "ime", program' = program, ImePlace, ImeRuns, AsPlanned, Ime!Next
  PROVE  ImePlace' /\ ImeRuns' /\ [Promise!Next]_Promise!vars
<1>1. /\ Plan = Ime!Plan /\ Plan' = Ime!Plan'
      /\ (Halted <=> pc = "done") /\ (Halted' <=> pc' = "done")
  BY PlanOf DEF OwnPlan, Ime!Halted
<1>2. goal' = goal
  BY DEF Ime!Next, Ime!Info, Ime!Mutate, Ime!Expect, Ime!Fail, Ime!Intrude
<1>3. Ime!Plan' = Ime!Plan
  BY <1>2 DEF Ime!Plan, Ime!Write
<1>4. /\ Len(Plan) \in Nat \ {0}
      /\ Plan[Len(Plan)].op = IF goal = "update" THEN "activate" ELSE "restore"
  BY <1>1, ImePlan DEF ImePlace
<1> DEFINE last == Len(Ime!Plan)
<1>5. /\ last' = last /\ last \in Nat \ {0} /\ last = Len(Plan)
  BY <1>1, <1>3, <1>4
<1> HIDE DEF last
<1>6. /\ pc = "send" => confirmed \in Nat /\ confirmed < last
      /\ pc = "expect" => confirmed \in Nat \ {0} /\ confirmed <= last
  BY DEF ImePlace, last
<1>7. ASSUME pc' \in {"info", "send", "expect", "done"},
             pc' = "info" => confirmed' = 0,
             pc' = "send" => confirmed' \in Nat /\ confirmed' < last,
             pc' = "expect" => confirmed' \in Nat \ {0} /\ confirmed' <= last
      PROVE  ImePlace'
  BY <1>2, <1>5, <1>7 DEF ImePlace, last
<1>8. CASE Ime!Info
  <2>1. UNCHANGED <<executed, confirmed>> /\ pc = "info" /\ confirmed = 0
    BY <1>8 DEF Ime!Info, ImePlace
  <2>2. pc' \in {"send", "done"} /\ UNCHANGED <<update_state, running>>
    BY <1>8 DEF Ime!Info, Ime!Stop, Ime!me
  <2>3. ImePlace'
    BY <1>5, <1>7, <2>1, <2>2
  <2>4. ImeRuns'
    BY <1>2, <1>8, <2>2 DEF ImeRuns, Ime!Info, Ime!Stop, Ime!Fit, Ime!RunsWhatItReports, Ime!Succeeded, ImePlace
  <2> QED
    BY <1>1, <1>3, <2>1, <2>2, <2>3, <2>4, Quiet
<1>9. CASE Ime!Mutate
  <2>1. PICK o \in Ime!Outcomes :
          /\ executed' = IF o.carried THEN Append(executed, Ime!Plan[confirmed + 1]) ELSE executed
          /\ confirmed' = IF o.answer = "ok" THEN confirmed + 1 ELSE confirmed
          /\ IF o.carried THEN Ime!Carry(Ime!Plan[confirmed + 1]) ELSE UNCHANGED <<update_state, area, staged, running>>
          /\ IF o.answer = "ok" THEN pc' = "expect" /\ UNCHANGED outcome ELSE Ime!Stop(o.answer)
    BY <1>9 DEF Ime!Mutate
  <2>2. pc = "send" /\ confirmed \in Nat /\ confirmed < last
    BY <1>6, <1>9 DEF Ime!Mutate
  <2>3. \/ executed' = Append(executed, Plan[confirmed + 1]) /\ confirmed' = confirmed + 1 /\ pc' = "expect"
        \/ /\ executed' = Append(executed, Plan[confirmed + 1]) \/ executed' = executed
           /\ confirmed' = confirmed /\ pc' = "done"
    BY <1>1, <2>1 DEF Ime!Outcomes, Ime!Stop
  <2>4. ImePlace'
    BY <1>5, <1>7, <2>2, <2>3
  <2>5. ImeRuns'
    <3>1. /\ update_state' = "Success" => (update_state = "Success" /\ running' = running) \/ running' = "new"
          /\ update_state' = "RolledBack" => (update_state = "RolledBack" /\ running' = running) \/ running' = "backup"
      BY <2>1 DEF Ime!Carry
    <3>2. outcome' # "ok" /\ pc' # "send"
      BY <2>1, <2>2, <2>3 DEF Ime!Outcomes, Ime!Stop, ImeRuns
    <3> QED
      BY <1>2, <2>2, <3>1, <3>2 DEF ImeRuns, Ime!RunsWhatItReports, Ime!Succeeded
  <2> QED
    BY <1>1, <1>3, <1>5, <2>2, <2>3, <2>4, <2>5, Sending
<1>10. CASE Ime!Expect
  <2>1. UNCHANGED <<executed, confirmed, update_state, staged, running>> /\ pc = "expect" /\ pc' \in {"send", "done"}
    BY <1>10 DEF Ime!Expect, Ime!Stop, Ime!me
  <2>2. pc' = "send" => confirmed # last
    BY <1>10 DEF Ime!Expect, Ime!Stop, last
  <2>3. ImePlace'
    BY <1>5, <1>6, <1>7, <2>1, <2>2
  <2>4. outcome' = "ok" => running' = IF goal = "update" THEN "new" ELSE "backup"
    <3> SUFFICES ASSUME outcome' = "ok" PROVE running' = IF goal = "update" THEN "new" ELSE "backup"
      OBVIOUS
    <3>1. confirmed = last /\ Ime!AsExpected(Ime!Plan[last].op)
      BY <1>10, <2>1 DEF Ime!Expect, Ime!Stop, ImeRuns, last
    <3>2. CASE goal = "update"
      <4>1. Ime!Plan[last].op = "activate"
        BY <1>1, <1>4, <1>5, <3>2
      <4>2. update_state = "Success"
        BY <3>1, <4>1 DEF Ime!AsExpected, Ime!Expected
      <4> QED
        BY <2>1, <3>2, <4>2 DEF ImeRuns
    <3>3. CASE goal = "rollback"
      <4>1. Ime!Plan[last].op = "restore"
        BY <1>1, <1>4, <1>5, <3>3
      <4>2. update_state = "RolledBack"
        BY <3>1, <4>1 DEF Ime!AsExpected, Ime!Expected
      <4> QED
        BY <2>1, <3>3, <4>2 DEF ImeRuns
    <3> QED
      BY <3>2, <3>3 DEF ImePlace
  <2>5. ImeRuns'
    <3>1. pc' # "done" => outcome' # "ok"
      BY <1>10, <2>1 DEF Ime!Expect, Ime!Stop, ImeRuns
    <3> QED
      BY <1>2, <2>1, <2>4, <3>1 DEF ImeRuns, Ime!RunsWhatItReports, Ime!Succeeded
  <2> QED
    BY <1>1, <1>3, <2>1, <2>3, <2>5, Quiet
<1>11. CASE Ime!Fail \/ Ime!Intrude
  <2>1. /\ UNCHANGED <<pc, executed, confirmed, outcome, running>>
        /\ update_state' \notin {"Success", "RolledBack"}
    BY <1>11 DEF Ime!Fail, Ime!Intrude, Ime!transfer
  <2>2. ImePlace'
    BY <1>5, <1>6, <1>7, <2>1 DEF ImePlace
  <2>3. ImeRuns'
    BY <1>2, <2>1 DEF ImeRuns, Ime!RunsWhatItReports, Ime!Succeeded
  <2> QED
    BY <1>1, <1>3, <2>1, <2>2, <2>3, Quiet
<1> QED
  BY <1>8, <1>9, <1>10, <1>11 DEF Ime!Next

-----------------------------------------------------------------------------
\* Blocks of a value: enough for it, none of them empty.
LEMMA BlocksEnough ==
  ASSUME NEW n \in Nat, NEW c, c = Blocks!BlockCount(n, Block)
  PROVE  /\ c \in Nat /\ c * Block >= n /\ (c = 0 <=> n = 0)
         /\ \A k \in 1..c : (k - 1) * Block < n
         /\ n # 0 => (n - 1) \div Block = c - 1
<1> USE SizesAssumption
<1>1. c = (n + Block - 1) \div Block /\ c \in Int
  BY DEF Blocks!BlockCount
<1>2. c * Block <= n + Block - 1 /\ n + Block - 1 < c * Block + Block
  BY <1>1
<1>3. c >= 0
  BY <1>1, <1>2
<1>4. c * Block >= n
  BY <1>1, <1>2
<1>5. c = 0 <=> n = 0
  BY <1>1, <1>2, <1>3
<1>6. ASSUME NEW k \in 1..c PROVE (k - 1) * Block < n
  <2>1. (k - 1) * Block <= (c - 1) * Block
    BY <1>1
  <2>2. (c - 1) * Block = c * Block - Block /\ c * Block \in Int /\ (k - 1) * Block \in Int /\ (c - 1) * Block \in Int
    BY <1>1
  <2> QED
    BY <1>1, <1>2, <2>1, <2>2
<1>7. ASSUME n # 0 PROVE (n - 1) \div Block = c - 1
  <2> DEFINE d == (n - 1) \div Block
  <2>1. d \in Int /\ d * Block <= n - 1 /\ n - 1 < d * Block + Block
    BY <1>7
  <2> HIDE DEF d
  <2>2. (c - 1) * Block = c * Block - Block /\ c * Block \in Int /\ d * Block \in Int
    BY <1>1, <2>1
  <2>3. (c - 1) * Block <= n - 1 /\ n - 1 < (c - 1) * Block + Block
    BY <1>1, <1>2, <2>2
  <2>4. d = c - 1
    BY <1>1, <2>1, <2>3
  <2> QED
    BY <2>4 DEF d
<1> QED
  BY <1>1, <1>3, <1>4, <1>5, <1>6, <1>7
\* What the first k blocks of a value cover.
PathBlocks == IF writer = "luapi" THEN Blocks!BlockCount(path, Block) ELSE 0
Covered(k) ==
    IF writer = "lcd" THEN (IF k = 0 THEN 0 ELSE Blocks!Least(First + (k - 1) * Block, length))
    ELSE IF k <= PathBlocks THEN 0 ELSE Blocks!Least((k - PathBlocks) * Block, length)

BlocksValue ==
    /\ writer \in {"lcd", "ssh", "luapi", "dcmi", "fru"}
    /\ length \in Nat /\ path \in Nat
    /\ writer \in {"ssh", "luapi"} => length # 0

(* A block goes on where the one before it ended, the last one to the end  *)
(* of the value, and only the last says so.                                *)
BlockInPlace(k) ==
    /\ Blocks!Plan[k].op # "path" =>
         /\ Blocks!Plan[k].at = Covered(k - 1)
         /\ Blocks!Plan[k].at + Blocks!Plan[k].n = Covered(k)
    /\ Blocks!Plan[k].op = "path" => Covered(k) = Covered(k - 1)
    /\ Blocks!Plan[k].last => Covered(k) = length
    /\ k = Len(Blocks!Plan) /\ writer \in {"ssh", "luapi"} => Blocks!Plan[k].last
    /\ Covered(k) \in Nat /\ Covered(k - 1) \in Nat /\ Covered(k - 1) <= Covered(k) /\ Covered(k) <= length

BlocksInPlace ==
    /\ Len(Blocks!Plan) \in Nat /\ (Len(Blocks!Plan) = 0 <=> Blocks!Plan = <<>>)
    /\ Covered(Len(Blocks!Plan)) = length /\ Covered(0) = 0
    /\ Len(Blocks!Plan) = 0 => writer \notin {"ssh", "luapi"}
    /\ \A k \in 1..Len(Blocks!Plan) : BlockInPlace(k)

\* Blocks of one size: each ends a block further.
LEMMA NextBlock ==
  ASSUME NEW k \in Nat \ {0}, NEW n \in Nat, (k - 1) * Block < n
  PROVE  /\ k # 1 => Block + (k - 2) * Block = (k - 1) * Block
         /\ (k - 1) * Block + Block = k * Block
         /\ k * Block \in Nat /\ (k - 1) * Block \in Nat
         /\ Blocks!Least((k - 1) * Block, n) = (k - 1) * Block
         /\ (k - 1) * Block + Blocks!Least(Block, n - (k - 1) * Block) = Blocks!Least(k * Block, n)
         /\ Blocks!Least(k * Block, n) \in Nat /\ Blocks!Least(k * Block, n) <= n
         /\ (k - 1) * Block <= Blocks!Least(k * Block, n)
<1> USE SizesAssumption
<1>1. k # 1 => Block + (k - 2) * Block = (k - 1) * Block
  OBVIOUS
<1>2. (k - 1) * Block + Block = k * Block
  OBVIOUS
<1>3. k * Block \in Nat /\ (k - 1) * Block \in Nat
  OBVIOUS
<1> DEFINE a == (k - 1) * Block
           b == k * Block
<1>4. b = a + Block /\ a \in Nat /\ b \in Nat /\ a < n
  BY <1>2, <1>3
<1> HIDE DEF a, b
<1>5. /\ Blocks!Least(a, n) = a /\ a + Blocks!Least(Block, n - a) = Blocks!Least(b, n)
      /\ Blocks!Least(b, n) \in Nat /\ Blocks!Least(b, n) <= n /\ a <= Blocks!Least(b, n)
  BY <1>4 DEF Blocks!Least
<1> QED
  BY <1>1, <1>2, <1>3, <1>5 DEF a, b

\* A block of a run of blocks of one size.
LEMMA RunOfBlocks ==
  ASSUME NEW op, NEW n \in Nat, NEW c, c = Blocks!BlockCount(n, Block), NEW k \in 1..c
  PROVE  Blocks!Chunk(op, n, Block, k) = Blocks!Write(op, (k - 1) * Block, Blocks!Least(Block, n - (k - 1) * Block), FALSE)
<1>1. c \in Nat /\ (k - 1) * Block < n
  BY BlocksEnough
<1>2. k \in Nat \ {0}
  BY <1>1
<1>3. k # 1 => Block + (k - 2) * Block = (k - 1) * Block
  BY <1>1, <1>2, NextBlock
<1>4. k = 1 => (k - 1) * Block = 0
  BY SizesAssumption
<1> QED
  BY <1>3, <1>4 DEF Blocks!Chunk

\* What a run of blocks covers.
LEMMA RunCovers ==
  ASSUME NEW n \in Nat, NEW c, c = Blocks!BlockCount(n, Block)
  PROVE  /\ c \in Nat /\ (c = 0 <=> n = 0)
         /\ Blocks!Least(0 * Block, n) = 0 /\ Blocks!Least(c * Block, n) = n
         /\ \A k \in 1..c :
              /\ Blocks!Least((k - 1) * Block, n) = (k - 1) * Block /\ (k - 1) * Block \in Nat
              /\ (k - 1) * Block + Blocks!Least(Block, n - (k - 1) * Block) = Blocks!Least(k * Block, n)
              /\ Blocks!Least(k * Block, n) \in Nat /\ Blocks!Least(k * Block, n) <= n
              /\ (k - 1) * Block <= Blocks!Least(k * Block, n)
<1>1. /\ c \in Nat /\ c * Block >= n /\ (c = 0 <=> n = 0)
      /\ \A k \in 1..c : (k - 1) * Block < n
  BY BlocksEnough
<1>2. Blocks!Least(0 * Block, n) = 0
  <2>1. 0 * Block = 0
    BY SizesAssumption
  <2> QED
    BY <2>1 DEF Blocks!Least
<1>3. Blocks!Least(c * Block, n) = n
  <2>1. c * Block \in Int
    BY <1>1, SizesAssumption
  <2> QED
    BY <1>1, <2>1 DEF Blocks!Least
<1>4. ASSUME NEW k \in 1..c
      PROVE  /\ Blocks!Least((k - 1) * Block, n) = (k - 1) * Block /\ (k - 1) * Block \in Nat
             /\ (k - 1) * Block + Blocks!Least(Block, n - (k - 1) * Block) = Blocks!Least(k * Block, n)
             /\ Blocks!Least(k * Block, n) \in Nat /\ Blocks!Least(k * Block, n) <= n
             /\ (k - 1) * Block <= Blocks!Least(k * Block, n)
  <2>1. k \in Nat \ {0} /\ (k - 1) * Block < n
    BY <1>1
  <2> QED
    BY <2>1, NextBlock
<1> QED
  BY <1>1, <1>2, <1>3, <1>4

\* A plan that is one run.
LEMMA SingleRun ==
  ASSUME BlocksValue, writer \in {"ssh", "dcmi", "fru"},
         NEW c, c = Blocks!BlockCount(length, Block), Len(Blocks!Plan) = c,
         \A k \in 1..c : /\ Blocks!Plan[k].op # "path" /\ Blocks!Plan[k].at = (k - 1) * Block
                         /\ Blocks!Plan[k].n = Blocks!Least(Block, length - (k - 1) * Block)
                         /\ Blocks!Plan[k].last => k = c
         , writer = "ssh" => Blocks!Plan[c].last
  PROVE  /\ \A k \in 1..Len(Blocks!Plan) : BlockInPlace(k)
         /\ Covered(Len(Blocks!Plan)) = length /\ Covered(0) = 0 /\ c \in Nat
         /\ c = 0 => writer # "ssh"
<1>1. length \in Nat
  BY DEF BlocksValue
<1>2. /\ c \in Nat /\ (c = 0 <=> length = 0)
      /\ Blocks!Least(0 * Block, length) = 0 /\ Blocks!Least(c * Block, length) = length
      /\ \A k \in 1..c :
           /\ Blocks!Least((k - 1) * Block, length) = (k - 1) * Block /\ (k - 1) * Block \in Nat
           /\ (k - 1) * Block + Blocks!Least(Block, length - (k - 1) * Block) = Blocks!Least(k * Block, length)
           /\ Blocks!Least(k * Block, length) \in Nat /\ Blocks!Least(k * Block, length) <= length
           /\ (k - 1) * Block <= Blocks!Least(k * Block, length)
  BY <1>1, RunCovers
<1>3. \A k \in 0..c : Covered(k) = Blocks!Least(k * Block, length)
  <2> SUFFICES ASSUME NEW k \in 0..c PROVE Covered(k) = Blocks!Least(k * Block, length)
    OBVIOUS
  <2>1. PathBlocks = 0 /\ writer # "lcd"
    BY DEF PathBlocks
  <2>2. Covered(k) = IF k <= 0 THEN 0 ELSE Blocks!Least((k - 0) * Block, length)
    BY <2>1 DEF Covered
  <2>3. CASE k = 0
    BY <1>2, <2>2, <2>3
  <2>4. CASE k # 0
    BY <1>2, <2>2, <2>4
  <2> QED
    BY <2>3, <2>4
<1>4. Covered(c) = length /\ Covered(0) = 0
  BY <1>2, <1>3
<1>5. ASSUME NEW k \in 1..c PROVE BlockInPlace(k)
  <2>1. Covered(k) = Blocks!Least(k * Block, length) /\ Covered(k - 1) = Blocks!Least((k - 1) * Block, length)
    BY <1>2, <1>3
  <2>2. Covered(k - 1) = (k - 1) * Block /\ Covered(k) = (k - 1) * Block + Blocks!Least(Block, length - (k - 1) * Block)
    BY <1>2, <2>1
  <2>3. Covered(k) \in Nat /\ Covered(k - 1) \in Nat /\ Covered(k - 1) <= Covered(k) /\ Covered(k) <= length
    BY <1>2, <2>1, <2>2
  <2>4. Blocks!Plan[k].last => Covered(k) = length
    BY <1>4
  <2>5. k = Len(Blocks!Plan) /\ writer \in {"ssh", "luapi"} => Blocks!Plan[k].last
    OBVIOUS
  <2> QED
    BY <2>2, <2>3, <2>4, <2>5 DEF BlockInPlace
<1> QED
  BY <1>1, <1>2, <1>4, <1>5 DEF BlocksValue

\* A plan is as long as it says.
LEMMA PlanLength ==
  ASSUME NEW c \in Nat, NEW p, NEW S, p \in [1..c -> S]
  PROVE  p \in Seq(S) /\ Len(p) = c /\ (c = 0 <=> p = <<>>)
<1>1. p \in Seq(S) /\ Len(p) = c
  BY SeqDef
<1> QED
  BY <1>1, EmptySeq

\* Only the last block says that it is.
Flagged(op, n, k) == [Blocks!Chunk(op, n, Block, k) EXCEPT !.last = Blocks!Last(k - 1, n)]

LEMMA LastOfRun ==
  ASSUME NEW op, NEW n \in Nat \ {0}, NEW c, c = Blocks!BlockCount(n, Block), NEW k \in 1..c,
         NEW b, b = Flagged(op, n, k)
  PROVE  /\ b.op = op /\ b.at = (k - 1) * Block
         /\ b.n = Blocks!Least(Block, n - (k - 1) * Block)
         /\ b.last <=> k = c
<1> DEFINE w == Blocks!Write(op, (k - 1) * Block, Blocks!Least(Block, n - (k - 1) * Block), FALSE)
<1>1. c \in Nat /\ (n - 1) \div Block = c - 1
  BY BlocksEnough
<1>2. Blocks!Chunk(op, n, Block, k) = w
  BY RunOfBlocks
<1>3. b = [w EXCEPT !.last = (k - 1 = c - 1)]
  BY <1>1, <1>2 DEF Flagged, Blocks!Last
<1>4. /\ w = [op |-> op, at |-> (k - 1) * Block, n |-> Blocks!Least(Block, n - (k - 1) * Block), last |-> FALSE]
  BY DEF Blocks!Write
<1> HIDE DEF w
<1>5. CASE k = c
  <2>1. (k - 1 = c - 1) = TRUE
    BY <1>5
  <2>2. b = [w EXCEPT !.last = TRUE]
    BY <1>3, <2>1
  <2> QED
    BY <1>4, <1>5, <2>2
<1>6. CASE k # c
  <2>1. (k - 1 = c - 1) = FALSE
    BY <1>1, <1>6
  <2>2. b = [w EXCEPT !.last = FALSE]
    BY <1>3, <2>1
  <2> QED
    BY <1>4, <1>6, <2>2
<1> QED
  BY <1>5, <1>6

LEMMA SshPlan ==
  ASSUME BlocksValue, writer = "ssh"
  PROVE  BlocksInPlace
<1> DEFINE c == Blocks!BlockCount(length, Block)
           plan == [k \in 1..c |-> [Blocks!Chunk("key", length, Block, k) EXCEPT !.last = Blocks!Last(k - 1, length)]]
<1>1. Blocks!Plan = plan
  BY DEF Blocks!Plan
<1>2. length \in Nat \ {0}
  BY DEF BlocksValue
<1>3. c \in Nat /\ c # 0
  BY <1>2, BlocksEnough
<1>4. Len(plan) = c /\ (c = 0 <=> plan = <<>>)
  <2>1. plan \in [1..c -> {plan[k] : k \in 1..c}]
    OBVIOUS
  <2> HIDE DEF plan
  <2> QED
    BY <1>3, <2>1, PlanLength
<1>5. ASSUME NEW k \in 1..c
      PROVE  /\ plan[k].op # "path" /\ plan[k].at = (k - 1) * Block
             /\ plan[k].n = Blocks!Least(Block, length - (k - 1) * Block)
             /\ plan[k].last <=> k = c
  <2>1. plan[k] = Flagged("key", length, k)
    BY DEF Flagged
  <2> HIDE DEF plan
  <2>2. plan[k].op = "key"
    BY <1>2, <2>1, LastOfRun
  <2> QED
    BY <1>2, <2>1, <2>2, LastOfRun
<1>6. c = Blocks!BlockCount(length, Block)
  OBVIOUS
<1> HIDE DEF plan, c
<1>7. c \in 1..c
  BY <1>3
<1>8. Len(Blocks!Plan) = c /\ (c = 0 <=> Blocks!Plan = <<>>)
  BY <1>1, <1>4
<1>9. /\ \A k \in 1..c : /\ Blocks!Plan[k].op # "path" /\ Blocks!Plan[k].at = (k - 1) * Block
                         /\ Blocks!Plan[k].n = Blocks!Least(Block, length - (k - 1) * Block)
                         /\ Blocks!Plan[k].last => k = c
      /\ Blocks!Plan[c].last
  BY <1>1, <1>5, <1>7
<1> QED
  BY <1>3, <1>6, <1>8, <1>9, SingleRun DEF BlocksInPlace

\* Neither says which is the last.
LEMMA PlainPlan ==
  ASSUME BlocksValue, NEW op \in {"string", "image"}, writer \in {"dcmi", "fru"}, writer = "dcmi" => length # 0,
         Blocks!Plan = [k \in 1 .. Blocks!BlockCount(length, Block) |-> Blocks!Chunk(op, length, Block, k)]
  PROVE  BlocksInPlace
<1> DEFINE c == Blocks!BlockCount(length, Block)
           plan == [k \in 1..c |-> Blocks!Chunk(op, length, Block, k)]
<1>1. Blocks!Plan = plan
  OBVIOUS
<1>2. length \in Nat
  BY DEF BlocksValue
<1>3. c \in Nat
  BY <1>2, BlocksEnough
<1>4. Len(plan) = c /\ (c = 0 <=> plan = <<>>)
  <2>1. plan \in [1..c -> {plan[k] : k \in 1..c}]
    OBVIOUS
  <2> HIDE DEF plan
  <2> QED
    BY <1>3, <2>1, PlanLength
<1>5. ASSUME NEW k \in 1..c
      PROVE  /\ plan[k].op # "path" /\ plan[k].at = (k - 1) * Block
             /\ plan[k].n = Blocks!Least(Block, length - (k - 1) * Block)
             /\ ~plan[k].last
  <2>1. plan[k] = Blocks!Write(op, (k - 1) * Block, Blocks!Least(Block, length - (k - 1) * Block), FALSE)
    BY <1>2, RunOfBlocks
  <2> HIDE DEF plan
  <2> QED
    BY <2>1 DEF Blocks!Write
<1>6. c = Blocks!BlockCount(length, Block)
  OBVIOUS
<1> HIDE DEF plan, c
<1>7. Len(Blocks!Plan) = c /\ (c = 0 <=> Blocks!Plan = <<>>)
  BY <1>1, <1>4
<1>8. \A k \in 1..c : /\ Blocks!Plan[k].op # "path" /\ Blocks!Plan[k].at = (k - 1) * Block
                      /\ Blocks!Plan[k].n = Blocks!Least(Block, length - (k - 1) * Block)
                      /\ Blocks!Plan[k].last => k = c
  BY <1>1, <1>5
<1> QED
  BY <1>3, <1>6, <1>7, <1>8, SingleRun DEF BlocksInPlace

LEMMA EmptyString ==
  ASSUME BlocksValue, writer = "dcmi", length = 0
  PROVE  BlocksInPlace
<1>1. Blocks!Plan = <<Blocks!Write("string", 0, 0, FALSE)>>
  BY DEF Blocks!Plan
<1>2. Len(Blocks!Plan) = 1 /\ Blocks!Plan # <<>> /\ Blocks!Plan[1] = Blocks!Write("string", 0, 0, FALSE)
  BY <1>1
<1>3. Covered(0) = 0 /\ Covered(1) = 0
  <2>1. 1 * Block \in Nat
    BY SizesAssumption
  <2> QED
    BY <2>1 DEF Covered, PathBlocks, Blocks!Least
<1>4. BlockInPlace(1)
  BY <1>2, <1>3 DEF BlockInPlace, Blocks!Write
<1>5. \A k \in 1..Len(Blocks!Plan) : k = 1
  BY <1>2
<1> QED
  BY <1>2, <1>3, <1>4, <1>5 DEF BlocksInPlace

\* First the path, then the value.
LEMMA LuapiPlan ==
  ASSUME BlocksValue, writer = "luapi"
  PROVE  BlocksInPlace
<1> DEFINE m == Blocks!BlockCount(path, Block)
           c == Blocks!BlockCount(length, Block)
           p == [k \in 1..m |-> Blocks!Chunk("path", path, Block, k)]
           q == [k \in 1..c |-> [Blocks!Chunk("value", length, Block, k) EXCEPT !.last = Blocks!Last(k - 1, length)]]
           S == {p[k] : k \in 1..m} \union {q[k] : k \in 1..c}
<1>1. Blocks!Plan = p \o q
  BY DEF Blocks!Plan
<1>2. length \in Nat \ {0} /\ path \in Nat
  BY DEF BlocksValue
<1>3. m \in Nat
  BY <1>2, BlocksEnough
<1>4. /\ c \in Nat /\ c # 0
      /\ Blocks!Least(0 * Block, length) = 0 /\ Blocks!Least(c * Block, length) = length
      /\ \A j \in 1..c :
           /\ Blocks!Least((j - 1) * Block, length) = (j - 1) * Block /\ (j - 1) * Block \in Nat
           /\ (j - 1) * Block + Blocks!Least(Block, length - (j - 1) * Block) = Blocks!Least(j * Block, length)
           /\ Blocks!Least(j * Block, length) \in Nat /\ Blocks!Least(j * Block, length) <= length
           /\ (j - 1) * Block <= Blocks!Least(j * Block, length)
  BY <1>2, RunCovers
<1>5. \A k \in 1..m : p[k].op = "path" /\ ~p[k].last
  <2> SUFFICES ASSUME NEW k \in 1..m PROVE p[k].op = "path" /\ ~p[k].last
    OBVIOUS
  <2>1. p[k] = Blocks!Write("path", (k - 1) * Block, Blocks!Least(Block, path - (k - 1) * Block), FALSE)
    BY <1>2, RunOfBlocks
  <2> HIDE DEF p
  <2> QED
    BY <2>1 DEF Blocks!Write
<1>6. \A k \in 1..c : /\ q[k].op = "value" /\ q[k].at = (k - 1) * Block
                      /\ q[k].n = Blocks!Least(Block, length - (k - 1) * Block)
                      /\ q[k].last <=> k = c
  <2> SUFFICES ASSUME NEW k \in 1..c
               PROVE  /\ q[k].op = "value" /\ q[k].at = (k - 1) * Block
                      /\ q[k].n = Blocks!Least(Block, length - (k - 1) * Block)
                      /\ q[k].last <=> k = c
    OBVIOUS
  <2>1. q[k] = Flagged("value", length, k)
    BY DEF Flagged
  <2> HIDE DEF q
  <2> QED
    BY <1>2, <2>1, LastOfRun
<1>7. p \in [1..m -> S] /\ q \in [1..c -> S]
  OBVIOUS
<1>8. PathBlocks = m
  BY DEF PathBlocks
<1> HIDE DEF m, c, p, q, S
<1>9. p \in Seq(S) /\ Len(p) = m /\ q \in Seq(S) /\ Len(q) = c
  BY <1>3, <1>4, <1>7, PlanLength
<1>10. /\ Blocks!Plan \in Seq(S) /\ Len(Blocks!Plan) = Len(p) + Len(q)
       /\ \A i \in 1..Len(p) : Blocks!Plan[i] = p[i]
       /\ \A i \in 1..Len(q) : Blocks!Plan[Len(p) + i] = q[i]
  <2>1. p \in Seq(S) /\ q \in Seq(S)
    BY <1>9
  <2> QED
    BY <1>1, <2>1, Joined, SMTT(30)
<1>11. /\ Len(Blocks!Plan) = m + c
       /\ \A i \in 1..m : Blocks!Plan[i] = p[i]
       /\ \A i \in 1..c : Blocks!Plan[m + i] = q[i]
  BY <1>9, <1>10
<1>12. \A k \in 0..m : Covered(k) = 0
  BY <1>3, <1>8 DEF Covered
<1>13. \A j \in 0..c : Covered(m + j) = Blocks!Least(j * Block, length)
  <2> SUFFICES ASSUME NEW j \in 0..c PROVE Covered(m + j) = Blocks!Least(j * Block, length)
    OBVIOUS
  <2>1. CASE j = 0
    <3>1. m + j = m /\ m \in 0..m
      BY <1>3, <2>1
    <3> QED
      BY <1>4, <1>12, <2>1, <3>1
  <2>2. CASE j # 0
    <3>1. ~(m + j <= m) /\ (m + j) - m = j
      BY <1>3, <1>4, <2>2
    <3> QED
      BY <1>8, <3>1 DEF Covered
  <2> QED
    BY <2>1, <2>2
<1>14. Covered(m + c) = length /\ Covered(0) = 0
  <2>1. c \in 0..c /\ 0 \in 0..m
    BY <1>3, <1>4
  <2> QED
    BY <1>4, <1>12, <1>13, <2>1
<1>15. ASSUME NEW k \in 1..m PROVE BlockInPlace(k)
  <2>1. Covered(k) = 0 /\ Covered(k - 1) = 0
    BY <1>3, <1>12
  <2>2. Blocks!Plan[k].op = "path" /\ ~Blocks!Plan[k].last
    BY <1>5, <1>11
  <2>3. k # Len(Blocks!Plan)
    BY <1>3, <1>4, <1>11
  <2> QED
    BY <1>2, <2>1, <2>2, <2>3 DEF BlockInPlace
<1>16. ASSUME NEW j \in 1..c, NEW k, k = m + j PROVE BlockInPlace(k)
  <2>1. Covered(k) = Blocks!Least(j * Block, length) /\ Covered(m + (j - 1)) = Blocks!Least((j - 1) * Block, length)
    BY <1>4, <1>13, <1>16
  <2>2. k - 1 = m + (j - 1)
    BY <1>3, <1>4, <1>16
  <2>3. Blocks!Plan[k] = q[j]
    BY <1>11, <1>16
  <2>4. /\ q[j].op = "value" /\ q[j].at = (j - 1) * Block
        /\ q[j].n = Blocks!Least(Block, length - (j - 1) * Block)
        /\ q[j].last <=> j = c
    BY <1>6
  <2>5. /\ Blocks!Least((j - 1) * Block, length) = (j - 1) * Block /\ (j - 1) * Block \in Nat
        /\ (j - 1) * Block + Blocks!Least(Block, length - (j - 1) * Block) = Blocks!Least(j * Block, length)
        /\ Blocks!Least(j * Block, length) \in Nat /\ Blocks!Least(j * Block, length) <= length
        /\ (j - 1) * Block <= Blocks!Least(j * Block, length)
    BY <1>4
  <2>6. q[j].last => Covered(k) = length
    BY <1>14, <2>4, <1>16
  <2>7. k = m + c => j = c
    BY <1>3, <1>4, <1>16
  <2>8. Covered(k - 1) = (j - 1) * Block /\ Covered(k) = (j - 1) * Block + Blocks!Least(Block, length - (j - 1) * Block)
    BY <2>1, <2>2, <2>5
  <2>9. /\ Covered(k) \in Nat /\ Covered(k - 1) \in Nat
        /\ Covered(k - 1) <= Covered(k) /\ Covered(k) <= length
    BY <2>1, <2>5, <2>8
  <2>10. k = Len(Blocks!Plan) => Blocks!Plan[k].last
    BY <1>11, <2>3, <2>4, <2>7
  <2>11. /\ Blocks!Plan[k].op # "path" /\ Blocks!Plan[k].at = Covered(k - 1)
         /\ Blocks!Plan[k].at + Blocks!Plan[k].n = Covered(k)
    BY <2>3, <2>4, <2>8
  <2>12. Blocks!Plan[k].last => Covered(k) = length
    BY <2>3, <2>6
  <2> QED
    BY <2>9, <2>10, <2>11, <2>12, Zenon DEF BlockInPlace
<1>17. ASSUME NEW k \in 1..m + c PROVE BlockInPlace(k)
  <2>1. CASE k <= m
    BY <1>3, <1>4, <1>15, <2>1
  <2>2. CASE ~(k <= m)
    <3>1. k - m \in 1..c /\ m + (k - m) = k
      BY <1>3, <1>4, <2>2
    <3> QED
      BY <1>16, <3>1
  <2> QED
    BY <2>1, <2>2
<1>18. Len(Blocks!Plan) = 0 <=> Blocks!Plan = <<>>
  BY <1>10, EmptySeq
<1> QED
  BY <1>3, <1>4, <1>11, <1>14, <1>17, <1>18 DEF BlocksInPlace

\* An LCD's first block has a size of its own.
LEMMA LcdPlan ==
  ASSUME BlocksValue, writer = "lcd"
  PROVE  BlocksInPlace
<1> DEFINE r == length - Blocks!Least(First, length)
           c == Blocks!BlockCount(r, Block)
           p == [k \in 1..1 + c |-> Blocks!Chunk("text", length, First, k)]
<1>1. Blocks!Plan = p
  BY DEF Blocks!Plan
<1>2. length \in Nat /\ r \in Nat /\ First \in Nat
  BY SizesAssumption DEF BlocksValue, Blocks!Least
<1>3. r # 0 => First + r = length
  BY <1>2 DEF Blocks!Least
<1>4. r = 0 => length <= First
  BY <1>2 DEF Blocks!Least
<1>5. p \in [1..1 + c -> {p[k] : k \in 1..1 + c}]
  OBVIOUS
<1>6. \A k \in 1..1 + c : p[k] = Blocks!Chunk("text", length, First, k)
  OBVIOUS
<1> HIDE DEF r
<1>7. /\ c \in Nat /\ (c = 0 <=> r = 0) /\ Blocks!Least(c * Block, r) = r
      /\ \A k \in 1..c :
           /\ (k - 1) * Block \in Nat
           /\ (k - 1) * Block + Blocks!Least(Block, r - (k - 1) * Block) = Blocks!Least(k * Block, r)
           /\ Blocks!Least(k * Block, r) \in Nat /\ Blocks!Least(k * Block, r) <= r
           /\ (k - 1) * Block <= Blocks!Least(k * Block, r)
           /\ Blocks!Least((k - 1) * Block, r) = (k - 1) * Block
  BY <1>2, RunCovers
<1> HIDE DEF c, p
<1>8. Len(p) = 1 + c /\ p # <<>>
  <2>1. 1 + c \in Nat /\ 1 + c # 0
    BY <1>7
  <2> QED
    BY <1>5, <2>1, PlanLength
<1>9. Covered(0) = 0
  BY DEF Covered
<1>10. \A j \in 1..c : Covered(1 + j) = First + Blocks!Least(j * Block, r)
  <2> SUFFICES ASSUME NEW j \in 1..c PROVE Covered(1 + j) = First + Blocks!Least(j * Block, r)
    OBVIOUS
  <2>1. Covered(1 + j) = Blocks!Least(First + j * Block, length)
    <3>1. (1 + j) - 1 = j /\ 1 + j # 0
      BY <1>7
    <3> QED
      BY <3>1 DEF Covered
  <2>2. First + r = length /\ j * Block \in Int
    BY <1>3, <1>7, SizesAssumption
  <2> QED
    BY <1>2, <2>1, <2>2 DEF Blocks!Least
<1>11. Covered(1) = Blocks!Least(First, length)
  <2>1. 0 * Block = 0
    BY SizesAssumption
  <2> QED
    BY <1>2, <2>1 DEF Covered
<1>12. r # 0 => Covered(1) = First
  BY <1>2, <1>3, <1>11 DEF Blocks!Least
<1>13. Covered(1 + c) = length
  <2>1. CASE r = 0
    BY <1>2, <1>4, <1>7, <1>11, <2>1 DEF Blocks!Least
  <2>2. CASE r # 0
    <3>1. c \in 1..c
      BY <1>7, <2>2
    <3> QED
      BY <1>3, <1>7, <1>10, <2>2, <3>1
  <2> QED
    BY <2>1, <2>2
<1>14. BlockInPlace(1)
  <2>1. p[1] = Blocks!Write("text", 0, Blocks!Least(First, length), FALSE)
    <3>1. 1 \in 1..1 + c
      BY <1>7
    <3>2. length - 0 = length
      BY <1>2
    <3> QED
      BY <1>6, <3>1, <3>2 DEF Blocks!Chunk
  <2>2. Covered(1) \in Nat /\ Covered(1) <= length
    BY <1>2, <1>11 DEF Blocks!Least
  <2> QED
    BY <1>1, <1>9, <1>11, <2>1, <2>2 DEF BlockInPlace, Blocks!Write
<1>15. ASSUME NEW j \in 1..c PROVE BlockInPlace(1 + j)
  <2>1. r # 0 /\ First + r = length /\ 1 + j \in 1..1 + c /\ 1 + j # 1 /\ (1 + j) - 2 = j - 1 /\ (1 + j) - 1 = j
    BY <1>3, <1>7
  <2>2. p[1 + j] = Blocks!Write("text", First + (j - 1) * Block, Blocks!Least(Block, length - (First + (j - 1) * Block)), FALSE)
    BY <1>6, <2>1 DEF Blocks!Chunk
  <2>3. length - (First + (j - 1) * Block) = r - (j - 1) * Block
    <3> DEFINE a == (j - 1) * Block
    <3>1. a \in Nat
      BY <1>7
    <3> HIDE DEF a
    <3>2. length - (First + a) = r - a
      BY <1>2, <2>1, <3>1
    <3> QED
      BY <3>2 DEF a
  <2>4. Covered(1 + j) = First + Blocks!Least(j * Block, r)
    BY <1>10
  <2>5. Covered(j) = First + (j - 1) * Block
    <3>1. CASE j = 1
      <4>1. (j - 1) * Block = 0
        BY <3>1, SizesAssumption
      <4> QED
        BY <1>2, <1>12, <2>1, <3>1, <4>1
    <3>2. CASE j # 1
      <4>1. j - 1 \in 1..c /\ 1 + (j - 1) = j
        BY <1>7, <3>2
      <4> QED
        BY <1>7, <1>10, <4>1
    <3> QED
      BY <3>1, <3>2
  <2>6. /\ (j - 1) * Block \in Nat
        /\ (j - 1) * Block + Blocks!Least(Block, r - (j - 1) * Block) = Blocks!Least(j * Block, r)
        /\ Blocks!Least(j * Block, r) \in Nat /\ Blocks!Least(j * Block, r) <= r
        /\ (j - 1) * Block <= Blocks!Least(j * Block, r)
    BY <1>7
  <2>7. /\ p[1 + j].op = "text" /\ p[1 + j].at = First + (j - 1) * Block
        /\ p[1 + j].n = Blocks!Least(Block, r - (j - 1) * Block) /\ ~p[1 + j].last
    BY <2>2, <2>3 DEF Blocks!Write
  <2> DEFINE a == (j - 1) * Block
             b == Blocks!Least(j * Block, r)
             n == Blocks!Least(Block, r - (j - 1) * Block)
  <2>8. a \in Nat /\ a + n = b /\ b \in Nat /\ b <= r /\ a <= b
    BY <2>6
  <2>9. Covered(1 + j) = First + b /\ Covered(j) = First + a /\ p[1 + j].at = First + a /\ p[1 + j].n = n
    BY <2>4, <2>5, <2>7
  <2>10. n \in Int
    <3>1. r - (j - 1) * Block \in Int
      BY <1>2, <2>6
    <3> QED
      BY <3>1, SizesAssumption DEF Blocks!Least
  <2> HIDE DEF a, b, n
  <2>11. Covered((1 + j) - 1) = Covered(j)
    BY <2>1
  <2>12. /\ p[1 + j].at + p[1 + j].n = Covered(1 + j)
         /\ Covered(1 + j) \in Nat /\ Covered(j) \in Nat /\ Covered(j) <= Covered(1 + j) /\ Covered(1 + j) <= length
    BY <1>2, <2>1, <2>8, <2>9, <2>10
  <2> QED
    BY <1>1, <2>7, <2>9, <2>11, <2>12 DEF BlockInPlace
<1>16. ASSUME NEW k \in 1..1 + c PROVE BlockInPlace(k)
  <2>1. CASE k = 1
    BY <1>14, <2>1
  <2>2. CASE k # 1
    <3>1. k - 1 \in 1..c /\ 1 + (k - 1) = k
      BY <1>7, <2>2
    <3> QED
      BY <1>15, <3>1
  <2> QED
    BY <2>1, <2>2
<1> QED
  BY <1>1, <1>7, <1>8, <1>9, <1>13, <1>16 DEF BlocksInPlace

LEMMA BlocksPlanned ==
  ASSUME BlocksValue
  PROVE  BlocksInPlace
<1>1. CASE writer = "dcmi" /\ length # 0
  <2>1. Blocks!Plan = [k \in 1 .. Blocks!BlockCount(length, Block) |-> Blocks!Chunk("string", length, Block, k)]
    BY <1>1 DEF Blocks!Plan
  <2>2. "string" \in {"string", "image"}
    OBVIOUS
  <2> QED
    BY <1>1, <2>1, <2>2, PlainPlan
<1>2. CASE writer = "fru"
  <2>1. Blocks!Plan = [k \in 1 .. Blocks!BlockCount(length, Block) |-> Blocks!Chunk("image", length, Block, k)]
    BY <1>2 DEF Blocks!Plan
  <2>2. "image" \in {"string", "image"}
    OBVIOUS
  <2> QED
    BY <1>2, <2>1, <2>2, PlainPlan
<1> QED
  BY <1>1, <1>2, LcdPlan, SshPlan, LuapiPlan, EmptyString DEF BlocksValue

\* One block more is covered.
LEMMA OneMore ==
  ASSUME NEW a \in Nat, NEW b \in Nat, a <= b
  PROVE  (1..a) \union (a + 1 .. b) = 1..b
  OBVIOUS

(* Values too long for one command: what the target holds is what the      *)
(* acknowledged blocks cover, and it hears of the end when it has all.     *)
BlocksPlace ==
    /\ pc \in {"check", "send", "end", "done"}
    /\ BlocksValue
    /\ pc = "check" => confirmed = 0
    /\ pc = "send" => confirmed \in Nat /\ confirmed < Len(Blocks!Plan)
    /\ pc = "end" => confirmed = Len(Blocks!Plan)
BlocksHeld ==
    /\ pc # "done" => held = 1..Covered(confirmed) /\ outcome # "ok"
    /\ pc = "end" /\ writer \in {"ssh", "luapi"} => final
    /\ Blocks!WholeValue /\ Blocks!EndIsLast

LEMMA BlocksSends ==
  ASSUME program = "blocks", program' = program, BlocksPlace, BlocksHeld, Blocks!Next
  PROVE  BlocksPlace' /\ BlocksHeld' /\ [Promise!Next]_Promise!vars
<1>1. /\ Plan = Blocks!Plan /\ Plan' = Blocks!Plan'
      /\ (Halted <=> pc = "done") /\ (Halted' <=> pc' = "done")
  BY PlanOf DEF OwnPlan, Blocks!Halted
<1>2. UNCHANGED <<writer, length, path>>
  BY DEF Blocks!Next, Blocks!Check, Blocks!SendBlock, Blocks!End, Blocks!Apply, Blocks!value
<1>3. Blocks!Plan' = Blocks!Plan
  BY <1>2 DEF Blocks!Plan, Blocks!Chunk, Blocks!Write, Blocks!BlockCount, Blocks!Least, Blocks!Last
<1>4. Covered(confirmed)' = Covered(confirmed')
  BY <1>2 DEF Covered, PathBlocks, Blocks!BlockCount, Blocks!Least
<1>5. BlocksInPlace /\ BlocksValue'
  BY <1>2, BlocksPlanned DEF BlocksPlace, BlocksValue
<1> DEFINE count == Len(Blocks!Plan)
           cover == Covered(confirmed)
<1>6. count' = count /\ count = Len(Plan)
  BY <1>1, <1>3
<1> HIDE DEF count
<1>7. /\ pc = "send" => confirmed \in Nat /\ confirmed < count
      /\ pc = "end" => confirmed = count
  BY DEF BlocksPlace, count
<1>8. ASSUME pc' \in {"check", "send", "end", "done"},
             pc' = "check" => confirmed' = 0,
             pc' = "send" => confirmed' \in Nat /\ confirmed' < count,
             pc' = "end" => confirmed' = count
      PROVE  BlocksPlace'
  BY <1>5, <1>6, <1>8 DEF BlocksPlace, count
<1>9. /\ count \in Nat /\ (count = 0 <=> Plan = <<>>) /\ Covered(count) = length /\ Covered(0) = 0
      /\ count = 0 => writer \notin {"ssh", "luapi"}
  BY <1>1, <1>5 DEF BlocksInPlace, count
<1>10. CASE Blocks!Check
  <2>1. /\ UNCHANGED <<executed, confirmed, held, final, applied>> /\ pc = "check" /\ confirmed = 0
        /\ \/ pc' = "done" /\ outcome' = "invalid"
           \/ pc' = "end" /\ Blocks!Plan = <<>> /\ outcome' = outcome
           \/ pc' = "send" /\ Blocks!Plan # <<>> /\ outcome' = outcome
    BY <1>10 DEF Blocks!Check, Blocks!Stop, Blocks!target, BlocksPlace
  <2>2. BlocksPlace'
    BY <1>1, <1>8, <1>9, <2>1
  <2>3. Covered(confirmed)' = Covered(confirmed)
    BY <1>4, <2>1
  <2>4. pc' = "end" => writer \notin {"ssh", "luapi"}
    BY <1>1, <1>9, <2>1
  <2>5. BlocksHeld'
    BY <1>2, <2>1, <2>3, <2>4 DEF BlocksHeld, Blocks!WholeValue, Blocks!EndIsLast, Blocks!Succeeded
  <2> QED
    BY <1>1, <1>3, <2>1, <2>2, <2>5, Quiet
<1>11. CASE Blocks!SendBlock
  <2> DEFINE block == Blocks!Plan[confirmed + 1]
  <2>1. PICK o \in Blocks!Outcomes :
         /\ executed' = IF o.carried THEN Append(executed, block) ELSE executed
         /\ IF o.carried THEN Blocks!Carry(block) ELSE UNCHANGED <<held, final, applied>>
         /\ IF o.answer = "ok"
            THEN /\ confirmed' = confirmed + 1
                 /\ pc' = (IF confirmed + 1 < count THEN "send" ELSE "end") /\ UNCHANGED outcome
            ELSE Blocks!Stop(o.answer) /\ UNCHANGED confirmed
    BY <1>11 DEF Blocks!SendBlock, Blocks!Accepted, Blocks!target, count
  <2>2. pc = "send" /\ confirmed \in Nat /\ confirmed < count /\ confirmed + 1 \in 1..count /\ (confirmed + 1) - 1 = confirmed
    BY <1>7, <1>9, <1>11 DEF Blocks!SendBlock
  <2>3. held = 1..Covered(confirmed) /\ outcome # "ok" /\ (final => held = 1..length)
    BY <2>2 DEF BlocksHeld, Blocks!EndIsLast
  <2>4. BlockInPlace(confirmed + 1)
    BY <1>5, <2>2 DEF BlocksInPlace, count
  <2>5. /\ block.op # "path" => block.at = Covered(confirmed) /\ block.at + block.n = Covered(confirmed + 1)
        /\ block.op = "path" => Covered(confirmed + 1) = Covered(confirmed)
        /\ block.last => Covered(confirmed + 1) = length
        /\ confirmed + 1 = count /\ writer \in {"ssh", "luapi"} => block.last
        /\ Covered(confirmed + 1) \in Nat /\ Covered(confirmed) \in Nat
        /\ Covered(confirmed) <= Covered(confirmed + 1) /\ Covered(confirmed + 1) <= length
    BY <2>2, <2>4 DEF BlockInPlace, count
  <2> HIDE DEF block
  <2>6. \/ o.carried /\ o.answer = "ok" /\ confirmed' = confirmed + 1 /\ outcome' = outcome
           /\ pc' = (IF confirmed + 1 < count THEN "send" ELSE "end")
        \/ o.answer # "ok" /\ confirmed' = confirmed /\ pc' = "done" /\ outcome' # "ok"
    BY <2>1 DEF Blocks!Outcomes, Blocks!Stop
  <2>7. BlocksPlace'
    BY <1>8, <1>9, <2>2, <2>6
  <2>8. ASSUME o.carried
        PROVE  /\ held' = 1..Covered(confirmed + 1)
               /\ final' => final \/ block.last
               /\ block.last => final'
    <3>1. /\ held' = IF block.op = "path" THEN held ELSE held \union (block.at + 1 .. block.at + block.n)
          /\ final' = (final \/ block.last)
      BY <2>1, <2>8 DEF Blocks!Carry
    <3>2. CASE block.op = "path"
      BY <2>3, <2>5, <3>1, <3>2
    <3>3. CASE block.op # "path"
      <4>1. held' = (1..Covered(confirmed)) \union (Covered(confirmed) + 1 .. Covered(confirmed + 1))
        <5>1. block.at = Covered(confirmed) /\ block.at + block.n = Covered(confirmed + 1)
          BY <2>5, <3>3
        <5> QED
          BY <2>3, <3>1, <3>3, <5>1
      <4>2. held' = 1..Covered(confirmed + 1)
        BY <2>5, <4>1, OneMore
      <4> QED
        BY <3>1, <4>2
    <3> QED
      BY <3>2, <3>3
  <2>9. /\ o.carried => held' = 1..Covered(confirmed + 1)
        /\ o.carried /\ final' /\ ~final => block.last
        /\ o.carried /\ block.last => final'
        /\ ~o.carried => held' = held
        /\ ~o.carried => final' = final
    BY <2>1, <2>8
  <2>10. Blocks!EndIsLast'
    <3> SUFFICES ASSUME final' PROVE held' = 1..length
      BY <1>2 DEF Blocks!EndIsLast
    <3>1. CASE final
      <4>1. Covered(confirmed) = length
        <5>1. 1..Covered(confirmed) = 1..length
          BY <2>3, <3>1
        <5>2. length \in Nat
          BY <1>5, <1>2 DEF BlocksPlace, BlocksValue
        <5> QED
          BY <2>5, <5>1, <5>2
      <4>2. Covered(confirmed + 1) = length
        BY <2>5, <4>1
      <4>3. held' = 1..Covered(confirmed + 1) \/ held' = held
        BY <2>9
      <4> QED
        BY <2>3, <3>1, <4>2, <4>3
    <3>2. CASE ~final
      <4>1. o.carried
        BY <2>9, <3>2
      <4>2. held' = 1..Covered(confirmed + 1) /\ block.last
        BY <2>9, <3>2, <4>1
      <4> QED
        BY <2>5, <4>2
    <3> QED
      BY <3>1, <3>2
  <2>11. CASE o.answer = "ok"
    <3>0. /\ o.carried /\ confirmed' = confirmed + 1 /\ outcome' = outcome
          /\ pc' = (IF confirmed + 1 < count THEN "send" ELSE "end")
      BY <2>6, <2>11
    <3>1. /\ held' = 1..Covered(confirmed + 1) /\ (block.last => final')
          /\ confirmed' = confirmed + 1 /\ outcome' = outcome /\ pc' \in {"send", "end"}
          /\ pc' = "end" => ~(confirmed + 1 < count)
      BY <2>9, <3>0
    <3>2. Covered(confirmed)' = Covered(confirmed + 1)
      BY <1>4, <3>1
    <3>3. pc' = "end" /\ writer \in {"ssh", "luapi"} => final'
      BY <1>9, <2>2, <2>5, <3>1
    <3>4. BlocksHeld'
      BY <1>2, <2>3, <2>10, <3>1, <3>2, <3>3 DEF BlocksHeld, Blocks!WholeValue, Blocks!Succeeded
    <3>5. executed' = Append(executed, Plan[confirmed + 1])
      BY <1>1, <2>1, <2>6, <2>11 DEF block
    <3> QED
      BY <1>1, <1>3, <1>6, <2>2, <2>7, <3>1, <3>4, <3>5, Sending
  <2>12. CASE o.answer # "ok"
    <3>1. confirmed' = confirmed /\ pc' = "done" /\ outcome' # "ok"
      BY <2>6, <2>12
    <3>2. BlocksHeld'
      BY <2>10, <3>1 DEF BlocksHeld, Blocks!WholeValue, Blocks!Succeeded
    <3>3. executed' = Append(executed, Plan[confirmed + 1]) \/ executed' = executed
      BY <1>1, <2>1 DEF block
    <3> QED
      BY <1>1, <1>3, <1>6, <2>2, <2>7, <3>1, <3>2, <3>3, Sending
  <2> QED
    BY <2>11, <2>12
<1>12. CASE Blocks!End
  <2>1. /\ UNCHANGED <<executed, confirmed, held, final, applied>> /\ pc = "end" /\ pc' \in {"end", "done"}
        /\ pc' = "end" => outcome' = outcome
        /\ outcome' = "ok" => writer # "luapi" \/ applied
    BY <1>12 DEF Blocks!End, Blocks!Poll, Blocks!Stop, Blocks!target, BlocksHeld
  <2>2. BlocksPlace'
    BY <1>7, <1>8, <2>1
  <2>3. held = 1..length /\ (writer \in {"ssh", "luapi"} => final)
    BY <1>7, <1>9, <2>1 DEF BlocksHeld
  <2>4. BlocksHeld'
    <3>1. Covered(confirmed)' = Covered(confirmed)
      BY <1>4, <2>1
    <3>2. Blocks!EndIsLast'
      BY <1>2, <2>1, <2>3 DEF Blocks!EndIsLast
    <3>3. Blocks!WholeValue'
      BY <1>2, <2>1, <2>3 DEF Blocks!WholeValue, Blocks!Succeeded
    <3>4. pc' # "done" => held' = 1..Covered(confirmed)' /\ outcome' # "ok"
      BY <2>1, <3>1 DEF BlocksHeld
    <3>5. pc' = "end" /\ writer' \in {"ssh", "luapi"} => final'
      BY <1>2, <2>1, <2>3
    <3> QED
      BY <3>2, <3>3, <3>4, <3>5 DEF BlocksHeld
  <2> QED
    BY <1>1, <1>3, <2>1, <2>2, <2>4, Quiet
<1>13. CASE Blocks!Apply
  <2>1. UNCHANGED <<pc, executed, confirmed, held, final, outcome>> /\ pc # "done"
    BY <1>13 DEF Blocks!Apply, Blocks!transfer
  <2>2. BlocksPlace'
    BY <1>7, <1>8, <2>1 DEF BlocksPlace
  <2>3. Covered(confirmed)' = Covered(confirmed)
    BY <1>4, <2>1
  <2>4. BlocksHeld'
    BY <1>2, <2>1, <2>3 DEF BlocksHeld, Blocks!WholeValue, Blocks!EndIsLast, Blocks!Succeeded
  <2> QED
    BY <1>1, <1>3, <2>1, <2>2, <2>4, Quiet
<1> QED
  BY <1>10, <1>11, <1>12, <1>13 DEF Blocks!Next

-----------------------------------------------------------------------------
(* The Kontron workflows: the steps done are the writes acknowledged, and  *)
(* the buffers of the steps done are large.                                *)
KontronSent ==
    /\ pc \in {"reserve", "identify", "info", "image", "reserve_again", "identify_again", "remote_identity"}
         => confirmed = 0 /\ executed = <<>>
    /\ pc = "boot" => confirmed = 0
    /\ pc \in {"write", "buffer"} => confirmed = step - 1
    /\ pc = "buffer" => \A k \in 1..Last : k < step => Kontron!Steps[k] \in large
    /\ Kontron!AppliedExact

\* The plan of each workflow.
LEMMA KontronPlan ==
  /\ workflow \in {"apply", "restore"} =>
       /\ Len(Kontron!Plan) = Writing
       /\ \A k \in 1..Writing : Kontron!Plan[k] = Kontron!Write("fru", Kontron!AreaWrites[k])
  /\ workflow = "buffer" =>
       /\ Len(Kontron!Plan) = Last /\ Last \in Nat /\ Len(Kontron!Steps) = Last
       /\ DOMAIN Kontron!Steps = 1..Last
       /\ \A k \in 1..Last : Kontron!Plan[k] = Kontron!Write(Kontron!Steps[k], 0)
  /\ workflow = "boot" => Len(Kontron!Plan) = 1 /\ Kontron!Plan[1] = Kontron!Write("boot", 0)
<1>1. ASSUME workflow \in {"apply", "restore"}
      PROVE  /\ Len(Kontron!Plan) = Writing
             /\ \A k \in 1..Writing : Kontron!Plan[k] = Kontron!Write("fru", Kontron!AreaWrites[k])
  <2>1. DOMAIN Kontron!AreaWrites = 1..Writing
    BY Zenon DEF Kontron!AreaWrites, Writing
  <2>2. Kontron!Plan = [k \in DOMAIN Kontron!AreaWrites |-> Kontron!Write("fru", Kontron!AreaWrites[k])]
    BY <1>1 DEF Kontron!Plan
  <2>3. Kontron!Plan = [k \in 1..Writing |-> Kontron!Write("fru", Kontron!AreaWrites[k])]
    BY <2>1, <2>2
  <2> QED
    BY <2>3, WritingNat
<1>2. ASSUME workflow = "buffer"
      PROVE  /\ Len(Kontron!Plan) = Last /\ Last \in Nat /\ Len(Kontron!Steps) = Last
             /\ DOMAIN Kontron!Steps = 1..Last
             /\ \A k \in 1..Last : Kontron!Plan[k] = Kontron!Write(Kontron!Steps[k], 0)
  <2>1. DOMAIN Kontron!Steps = 1..Last /\ Last \in Nat /\ Len(Kontron!Steps) = Last
    <3>1. Kontron!Steps \in Seq({"local", "ipmb", "remote"})
      <4>1. CASE bridged
        <5>1. Kontron!Steps = <<"local", "ipmb", "remote">>
          BY <4>1 DEF Kontron!Steps
        <5> QED
          BY <5>1
      <4>2. CASE ~bridged
        <5>1. Kontron!Steps = <<"local">>
          BY <4>2 DEF Kontron!Steps
        <5> QED
          BY <5>1
      <4> QED
        BY <4>1, <4>2
    <3>2. Last \in Nat
      BY DEF Last
    <3> QED
      BY <3>1, <3>2, BufferCosts, LenProperties
  <2>2. Kontron!Plan = [k \in DOMAIN Kontron!Steps |-> Kontron!Write(Kontron!Steps[k], 0)]
    BY <1>2 DEF Kontron!Plan
  <2>3. Kontron!Plan = [k \in 1..Last |-> Kontron!Write(Kontron!Steps[k], 0)]
    BY <2>1, <2>2
  <2> QED
    BY <2>1, <2>3
<1>3. ASSUME workflow = "boot" PROVE Len(Kontron!Plan) = 1 /\ Kontron!Plan[1] = Kontron!Write("boot", 0)
  BY <1>3 DEF Kontron!Plan
<1> QED
  BY <1>1, <1>2, <1>3

\* The plan is fixed while the image is not read again.
LEMMA KontronPlanFixed ==
  ASSUME UNCHANGED <<workflow, changed, bridged>>
  PROVE  /\ UNCHANGED before => Kontron!Plan' = Kontron!Plan
         /\ workflow \in {"buffer", "boot"} => Kontron!Plan' = Kontron!Plan
         /\ Kontron!Desired' = Kontron!Desired
<1>1. Kontron!Desired' = Kontron!Desired
  BY DEF Kontron!Desired, Kontron!Proposed, Kontron!Backup
<1>2. ASSUME UNCHANGED before PROVE Kontron!Plan' = Kontron!Plan
  <2>1. Kontron!Differing' = Kontron!Differing
    BY <1>1, <1>2 DEF Kontron!Differing
  <2>2. Kontron!AreaWrites' = Kontron!AreaWrites
    BY <2>1 DEF Kontron!AreaWrites
  <2>3. Kontron!Steps' = Kontron!Steps
    BY DEF Kontron!Steps
  <2> QED
    BY <2>2, <2>3, Zenon DEF Kontron!Plan, Kontron!Write
<1>3. ASSUME workflow \in {"buffer", "boot"} PROVE Kontron!Plan' = Kontron!Plan
  <2>1. Kontron!Steps' = Kontron!Steps
    BY DEF Kontron!Steps
  <2> QED
    BY <1>3, <2>1 DEF Kontron!Plan, Kontron!Write
<1> QED
  BY <1>1, <1>2, <1>3

\* A command of a workflow is sent, and acknowledged or not.
LEMMA KontronAnswers ==
  ASSUME NEW o, o \in Kontron!Outcomes \/ o \in Kontron!BufferOutcomes, NEW write, Kontron!Sent(o, write)
  PROVE  \/ o.answer = "ok" /\ o.carried /\ executed' = Append(executed, write) /\ confirmed' = confirmed + 1
         \/ /\ o.answer # "ok" /\ confirmed' = confirmed
            /\ executed' = Append(executed, write) \/ executed' = executed
BY DEF Kontron!Outcomes, Kontron!BufferOutcomes, Kontron!Sent

\* A workflow that sends nothing: how far it is may change before the first write.
LEMMA KontronWaits ==
  ASSUME program = "kontron", program' = program, KontronSent, UNCHANGED <<executed, confirmed, workflow, changed, bridged>>,
         \/ UNCHANGED before
         \/ pc = "image" /\ pc' \in {"reserve", "reserve_again"},
         pc \in {"undo", "release", "done"} => pc' \in {"undo", "release", "done"}
  PROVE  [Promise!Next]_Promise!vars
<1>1. /\ Plan = Kontron!Plan /\ Plan' = Kontron!Plan'
      /\ (Halted <=> pc \in {"undo", "release", "done"}) /\ (Halted' <=> pc' \in {"undo", "release", "done"})
  BY PlanOf DEF OwnPlan, Kontron!Halted
<1>2. CASE UNCHANGED before
  BY <1>1, <1>2, KontronPlanFixed, Quiet
<1>3. CASE pc = "image" /\ pc' \in {"reserve", "reserve_again"}
  <2>1. executed = <<>> /\ confirmed = 0
    BY <1>3 DEF KontronSent
  <2>2. Halted' = Halted
    BY <1>1, <1>3, HaltedIs DEF Ended
  <2> QED
    BY <2>1, <2>2 DEF Promise!Next, Promise!Planned
<1> QED
  BY <1>2, <1>3

\* A chunk is written.
LEMMA KontronSendsChunk ==
  ASSUME program = "kontron", program' = program, KontronInv, KontronSent, Kontron!WriteChunk
  PROVE  KontronSent' /\ [Promise!Next]_Promise!vars
<1>1. /\ Plan = Kontron!Plan /\ Plan' = Kontron!Plan'
      /\ (Halted <=> pc \in {"undo", "release", "done"}) /\ (Halted' <=> pc' \in {"undo", "release", "done"})
  BY PlanOf DEF OwnPlan, Kontron!Halted
<1>2. /\ pc = "write" /\ step <= Writing /\ step \in Nat \ {0} /\ confirmed = step - 1
      /\ workflow \in {"apply", "restore"} /\ UNCHANGED <<workflow, changed, bridged, before>> /\ outcome = "none"
  BY WritingNat DEF Kontron!WriteChunk, Kontron!plans, KontronInv, KontronTypes, Pcs, KontronSent
<1>3. PICK o \in Kontron!Outcomes :
        /\ Kontron!Sent(o, Kontron!Write("fru", Kontron!AreaWrites[step]))
        /\ \/ o.answer = "ok" /\ step' = step + 1 /\ UNCHANGED <<pc, outcome>>
           \/ o.answer # "ok" /\ Kontron!End("write") /\ UNCHANGED step
  BY DEF Kontron!WriteChunk
<1>4. Kontron!Write("fru", Kontron!AreaWrites[step]) = Plan[confirmed + 1] /\ confirmed \in Nat /\ confirmed < Len(Plan)
  <2>1. step \in 1..Writing /\ step = confirmed + 1 /\ Writing \in Nat
    BY <1>2, WritingNat
  <2> QED
    BY <1>1, <1>2, <2>1, KontronPlan
<1>5. \/ executed' = Append(executed, Plan[confirmed + 1]) /\ confirmed' = confirmed + 1 /\ step' = step + 1 /\ UNCHANGED <<pc, outcome>>
      \/ /\ executed' = Append(executed, Plan[confirmed + 1]) \/ executed' = executed
         /\ confirmed' = confirmed /\ pc' = "release" /\ outcome' = "write"
  BY <1>3, <1>4, KontronAnswers DEF Kontron!End
<1>6. ~Halted /\ Plan' = Plan
  BY <1>1, <1>2, KontronPlanFixed
<1>7. [Promise!Next]_Promise!vars
  BY <1>1, <1>4, <1>5, <1>6, Sending
<1>8. KontronSent'
  BY <1>2, <1>4, <1>5 DEF KontronSent, Kontron!AppliedExact
<1> QED
  BY <1>7, <1>8

\* The next boot is set.
LEMMA KontronSendsBoot ==
  ASSUME program = "kontron", program' = program, KontronInv, KontronSent, Kontron!SetNextBoot
  PROVE  KontronSent' /\ [Promise!Next]_Promise!vars
<1>1. /\ Plan = Kontron!Plan /\ Plan' = Kontron!Plan'
      /\ (Halted <=> pc \in {"undo", "release", "done"}) /\ (Halted' <=> pc' \in {"undo", "release", "done"})
  BY PlanOf DEF OwnPlan, Kontron!Halted
<1>2. /\ pc = "boot" /\ confirmed = 0 /\ workflow = "boot" /\ UNCHANGED <<workflow, changed, bridged, before>>
  BY DEF Kontron!SetNextBoot, Kontron!plans, KontronInv, KontronTypes, Pcs, KontronSent
<1>3. PICK o \in Kontron!Outcomes :
        /\ Kontron!Sent(o, Kontron!Write("boot", 0))
        /\ Kontron!End(IF o.answer = "ok" THEN "applied" ELSE "write")
  BY DEF Kontron!SetNextBoot
<1>4. Kontron!Write("boot", 0) = Plan[confirmed + 1] /\ confirmed < Len(Plan)
  BY <1>1, <1>2, KontronPlan
<1>5. \/ executed' = Append(executed, Plan[confirmed + 1]) /\ confirmed' = confirmed + 1
      \/ (executed' = Append(executed, Plan[confirmed + 1]) \/ executed' = executed) /\ confirmed' = confirmed
  BY <1>3, <1>4, KontronAnswers
<1>6. ~Halted /\ Halted' /\ Plan' = Plan /\ pc' = "release"
  BY <1>1, <1>2, <1>3, KontronPlanFixed DEF Kontron!End
<1>7. [Promise!Next]_Promise!vars
  BY <1>4, <1>5, <1>6, Sending
<1>8. KontronSent'
  BY <1>2, <1>6 DEF KontronSent, Kontron!AppliedExact
<1> QED
  BY <1>7, <1>8

\* A buffer is set.
LEMMA KontronSendsStep ==
  ASSUME program = "kontron", program' = program, KontronInv, KontronSent, Kontron!SetStep
  PROVE  KontronSent' /\ [Promise!Next]_Promise!vars
<1>1. /\ Plan = Kontron!Plan /\ Plan' = Kontron!Plan'
      /\ (Halted <=> pc \in {"undo", "release", "done"}) /\ (Halted' <=> pc' \in {"undo", "release", "done"})
  BY PlanOf DEF OwnPlan, Kontron!Halted
<1>2. /\ pc = "buffer" /\ step \in Nat \ {0} /\ step <= Last /\ confirmed = step - 1
      /\ workflow = "buffer" /\ UNCHANGED <<workflow, changed, bridged, before, outcome>> /\ outcome = "none"
      /\ \A k \in 1..Last : k < step => Kontron!Steps[k] \in large
  BY BufferCosts DEF Kontron!SetStep, Kontron!plans, KontronInv, KontronTypes, Pcs, KontronSent
<1>3. PICK o \in Kontron!BufferOutcomes :
        /\ Kontron!Sent(o, Kontron!Write(Kontron!Steps[step], 0))
        /\ large' = IF o.carried THEN large \union {Kontron!Steps[step]} ELSE large
        /\ \/ o.answer = "ok" /\ step' = step + 1 /\ UNCHANGED <<pc, undo>>
           \/ o.answer # "ok" /\ undo' = Kontron!Attempted(o) /\ pc' = "undo" /\ UNCHANGED step
  BY DEF Kontron!SetStep
<1>4. Kontron!Write(Kontron!Steps[step], 0) = Plan[confirmed + 1] /\ confirmed \in Nat /\ confirmed < Len(Plan) /\ Last \in Nat
  <2>1. step \in 1..Last /\ step = confirmed + 1 /\ Last \in Nat
    BY <1>2 DEF Last
  <2> QED
    BY <1>1, <1>2, <2>1, KontronPlan
<1>5. \/ /\ executed' = Append(executed, Plan[confirmed + 1]) /\ confirmed' = confirmed + 1 /\ step' = step + 1
         /\ UNCHANGED pc /\ large' = large \union {Kontron!Steps[step]}
      \/ /\ executed' = Append(executed, Plan[confirmed + 1]) \/ executed' = executed
         /\ confirmed' = confirmed /\ pc' = "undo"
  BY <1>3, <1>4, KontronAnswers
<1>6. ~Halted /\ Plan' = Plan
  BY <1>1, <1>2, KontronPlanFixed
<1>7. [Promise!Next]_Promise!vars
  BY <1>1, <1>4, <1>5, <1>6, Sending
<1>8. KontronSent'
  <2>1. Last' = Last /\ Kontron!Steps' = Kontron!Steps
    BY <1>2, KontronFixed
  <2>2. pc' = "buffer" => \A k \in 1..Last : k < step' => Kontron!Steps[k] \in large'
    <3> SUFFICES ASSUME pc' = "buffer", NEW k \in 1..Last, k < step' PROVE Kontron!Steps[k] \in large'
      OBVIOUS
    <3>1. step' = step + 1 /\ large' = large \union {Kontron!Steps[step]}
      BY <1>5
    <3>2. k < step \/ k = step
      BY <1>2, <3>1
    <3> QED
      BY <1>2, <3>1, <3>2
  <2>3. pc' \in {"buffer", "undo"} /\ (pc' = "buffer" => confirmed' = step' - 1)
    BY <1>2, <1>4, <1>5
  <2> QED
    BY <1>2, <2>1, <2>2, <2>3 DEF KontronSent, Kontron!AppliedExact
<1> QED
  BY <1>7, <1>8

\* The other steps send nothing.
LEMMA KontronSends ==
  ASSUME program = "kontron", program' = program, KontronInv, KontronSent, Kontron!Next
  PROVE  KontronSent' /\ [Promise!Next]_Promise!vars
<1>1. KontronInv'
  BY KontronStep
<1>2. UNCHANGED <<workflow, changed, bridged>>
  BY DEF Kontron!Next, Kontron!Reserve, Kontron!Refuse, Kontron!Identify, Kontron!ReadImage, Kontron!ReserveAgain,
         Kontron!IdentifyAgain, Kontron!WriteChunk, Kontron!Verify, Kontron!OutOfSequences, Kontron!SetNextBoot,
         Kontron!RemoteIdentity, Kontron!SetStep, Kontron!BufferDone, Kontron!RestoreStep, Kontron!RestoreDone,
         Kontron!Release, Kontron!Tamper, Kontron!plans
<1>3. Kontron!Desired' = Kontron!Desired /\ Last' = Last /\ Kontron!Steps' = Kontron!Steps
  BY <1>2, KontronFixed, KontronPlanFixed
<1>4. /\ workflow \in {"apply", "restore", "buffer", "boot"} /\ pc \in Pcs
      /\ pc \notin {"release", "done"} => outcome = "none"
  BY DEF KontronInv, KontronTypes
<1>5. /\ pc \in {"reserve", "identify", "info", "image", "reserve_again", "identify_again", "remote_identity"} =>
           confirmed = 0 /\ executed = <<>> /\ step = 1
      /\ pc = "boot" => confirmed = 0
      /\ pc \in {"write", "buffer"} => confirmed = step - 1
      /\ pc = "buffer" => \A k \in 1..Last : k < step => Kontron!Steps[k] \in large
  BY DEF KontronSent, KontronInv, KontronPlace
\* A workflow ends without success.
<1>6. ASSUME pc' \in {"undo", "release", "done"}, outcome' # "applied" PROVE KontronSent'
  BY <1>6 DEF KontronSent, Kontron!AppliedExact
<1>7. CASE Kontron!Refuse \/ Kontron!RestoreDone \/ Kontron!OutOfSequences
  <2>1. /\ UNCHANGED <<executed, confirmed, before>> /\ pc' = "release" /\ outcome' # "applied"
    BY <1>7 DEF Kontron!Refuse, Kontron!RestoreDone, Kontron!OutOfSequences, Kontron!End
  <2> QED
    BY <1>2, <1>6, <2>1, KontronWaits
<1>8. CASE Kontron!Reserve
  <2>1. /\ UNCHANGED <<executed, confirmed, before, step>> /\ pc = "reserve"
        /\ \/ pc' = "release" /\ outcome' = "budget"
           \/ pc' \in {"identify", "identify_again", "remote_identity", "buffer", "boot"} /\ outcome' = outcome
    BY <1>4, <1>8 DEF Kontron!Reserve, Kontron!End
  <2>2. KontronSent'
    <3>1. \A k \in 1..Last : ~(k < 1)
      BY DEF Last
    <3> QED
      BY <1>3, <1>4, <1>5, <2>1, <3>1 DEF KontronSent, Kontron!AppliedExact
  <2> QED
    BY <1>2, <2>1, <2>2, KontronWaits
<1>9. CASE Kontron!Identify \/ Kontron!ReserveAgain \/ Kontron!IdentifyAgain \/ Kontron!RemoteIdentity
  <2>1. /\ UNCHANGED <<executed, confirmed, before, step>>
        /\ pc \in {"identify", "info", "reserve_again", "identify_again", "remote_identity"}
        /\ \/ pc' = "release" /\ outcome' = "budget"
           \/ pc' \in {"info", "image", "identify_again", "write", "buffer"} /\ outcome' = outcome
    BY <1>9 DEF Kontron!Identify, Kontron!ReserveAgain, Kontron!IdentifyAgain, Kontron!RemoteIdentity, Kontron!End
  <2>2. KontronSent'
    <3>1. \A k \in 1..Last : ~(k < 1)
      BY DEF Last
    <3> QED
      BY <1>3, <1>4, <1>5, <2>1, <3>1 DEF KontronSent, Kontron!AppliedExact
  <2> QED
    BY <1>2, <2>1, <2>2, KontronWaits
<1>10. CASE Kontron!ReadImage
  <2>1. /\ UNCHANGED <<executed, confirmed, step>> /\ pc = "image"
        /\ \/ pc' = "release" /\ outcome' = "changed" /\ UNCHANGED before
           \/ pc' \in {"reserve", "reserve_again"} /\ outcome' = outcome
    BY <1>10 DEF Kontron!ReadImage, Kontron!End
  <2>2. KontronSent'
    BY <1>4, <1>5, <2>1 DEF KontronSent, Kontron!AppliedExact
  <2> QED
    BY <1>2, <2>1, <2>2, KontronWaits
<1>11. CASE Kontron!Verify
  <2>1. /\ UNCHANGED <<executed, confirmed, before, fru>> /\ pc = "write" /\ pc' = "release"
        /\ outcome' = "applied" => fru = Kontron!Desired
    BY <1>11 DEF Kontron!Verify, Kontron!ReadBack, Kontron!End, Kontron!controller
  <2>2. workflow # "buffer"
    BY <2>1, <1>4 DEF Pcs
  <2>3. KontronSent'
    BY <1>2, <1>3, <2>1, <2>2 DEF KontronSent, Kontron!AppliedExact
  <2> QED
    BY <1>2, <2>1, <2>3, KontronWaits
<1>12. CASE Kontron!BufferDone
  <2>1. /\ UNCHANGED <<executed, confirmed, before, large>> /\ pc = "buffer" /\ pc' = "release" /\ step > Last
    BY <1>12, BufferCosts DEF Kontron!BufferDone, Kontron!End
  <2>2. workflow = "buffer"
    BY <2>1, <1>4 DEF Pcs
  <2>3. DOMAIN Kontron!Steps = 1..Last /\ Last \in Nat /\ step \in Nat
    BY <2>2, KontronPlan DEF KontronInv, KontronTypes
  <2>4. large = {Kontron!Steps[k] : k \in DOMAIN Kontron!Steps}
    <3>1. \A c \in large : \E k \in 1..Last : k < step /\ c = Kontron!Steps[k]
      BY <2>1 DEF KontronInv, KontronBuffers
    <3>2. \A k \in 1..Last : Kontron!Steps[k] \in large
      BY <1>5, <2>1, <2>3
    <3> QED
      BY <2>3, <3>1, <3>2
  <2>5. KontronSent'
    BY <1>2, <1>3, <2>1, <2>2, <2>4 DEF KontronSent, Kontron!AppliedExact
  <2> QED
    BY <1>2, <2>1, <2>5, KontronWaits
<1>13. CASE Kontron!RestoreStep
  <2>1. UNCHANGED <<executed, confirmed, before, outcome>> /\ pc = "undo" /\ pc' = "undo"
    BY <1>13 DEF Kontron!RestoreStep
  <2> QED
    BY <1>2, <1>4, <1>6, <2>1, KontronWaits
<1>14. CASE Kontron!Release
  <2>1. UNCHANGED <<executed, confirmed, before, outcome, large, fru, tampered>> /\ pc = "release" /\ pc' = "done"
    BY <1>14 DEF Kontron!Release, Kontron!controller
  <2>2. KontronSent'
    BY <1>2, <1>3, <2>1 DEF KontronSent, Kontron!AppliedExact
  <2> QED
    BY <1>2, <2>1, <2>2, KontronWaits
<1>15. CASE Kontron!Tamper
  <2>1. UNCHANGED <<pc, executed, confirmed, before, step, outcome, large>> /\ tampered'
    BY <1>15 DEF Kontron!Tamper, Kontron!transfer
  <2>2. KontronSent'
    BY <1>2, <1>3, <2>1 DEF KontronSent, Kontron!AppliedExact
  <2> QED
    BY <1>2, <2>1, <2>2, KontronWaits
<1> QED
  BY <1>7, <1>8, <1>9, <1>10, <1>11, <1>12, <1>13, <1>14, <1>15, KontronSendsChunk, KontronSendsBoot, KontronSendsStep
     DEF Kontron!Next

-----------------------------------------------------------------------------
\* A piece of the image ends where the next one starts.
Ends(o) == o + Fwum!Count(o)

\* The size of a piece.
LEMMA CountIs ==
  ASSUME NEW o \in Nat, o < Length
  PROVE  /\ Fwum!Count(o) \in 1..Capacity /\ Ends(o) <= Length
         /\ Fwum!Count(o) <= Page - (o % Page)
         /\ \/ Fwum!Count(o) = Capacity \/ Fwum!Count(o) = Page - (o % Page) \/ Ends(o) = Length
<1> USE SizesAssumption
<1>1. o % Page \in 0..(Page - 1)
  BY Remainder
<1> DEFINE p == o % Page
<1>2. p \in Int /\ Page - p \in Nat \ {0} /\ Length - o \in Nat \ {0}
  BY <1>1
<1> HIDE DEF p
<1>3. Fwum!Count(o) = IF (IF Capacity < Page - p THEN Capacity ELSE Page - p) < Length - o
                      THEN (IF Capacity < Page - p THEN Capacity ELSE Page - p) ELSE Length - o
  BY DEF Fwum!Count, p
<1>4. /\ Fwum!Count(o) \in 1..Capacity /\ Ends(o) <= Length
      /\ Fwum!Count(o) <= Page - p
      /\ \/ Fwum!Count(o) = Capacity \/ Fwum!Count(o) = Page - p \/ Ends(o) = Length
  BY <1>2, <1>3 DEF Ends
<1> QED
  BY <1>4 DEF p

\* No number below the divisor but zero has none for a remainder.
LEMMA RemainderOf ==
  ASSUME NEW R \in Nat \ {0}, NEW k \in Int, NEW r \in 0..(R - 1), NEW n \in Nat, n = R * k + r
  PROVE  n % R = r
<1>1. n = R * (n \div R) + (n % R) /\ n % R \in 0..(R-1) /\ n \div R \in Int
  BY Remainder
<1> DEFINE q == n \div R
           s == n % R
<1>2. R * q + s = R * k + r /\ s \in 0..(R - 1) /\ q \in Int
  BY <1>1
<1> HIDE DEF q, s
<1>3. s = r
  BY <1>2, RemainderIsOne
<1> QED
  BY <1>3 DEF s

LEMMA MultipleOf ==
  ASSUME NEW R \in Nat \ {0}, NEW k \in Int, NEW n \in Nat, n = R * k
  PROVE  n % R = 0
<1> DEFINE q == n \div R
           s == n % R
<1>1. n = R * q + s /\ s \in 0..(R - 1) /\ q \in Int
  BY Remainder
<1> HIDE DEF q, s
<1>2. ASSUME NEW r, r = 0 PROVE s = r
  <2>1. r \in 0..(R - 1)
    BY <1>2
  <2>2. R * q + s = R * k + r
    BY <1>1, <1>2
  <2> QED
    BY <1>1, <2>1, <2>2, RemainderIsOne
<1>3. s = 0
  BY <1>2
<1> QED
  BY <1>3 DEF s

\* The pieces follow one another.
LEMMA PieceEnds ==
  ASSUME NEW o \in Fwum!Starts
  PROVE  /\ Ends(o) \in Fwum!Starts \union {Length}
         /\ o < Ends(o)
         /\ \A e \in Fwum!Starts : e > o => e >= Ends(o)
<1> USE SizesAssumption
<1>1. o \in Nat /\ o < Length /\ (o % Page) % Capacity = 0
  BY DEF Fwum!Starts
<1> DEFINE n == Fwum!Count(o)
           p == o % Page
           a == o \div Page
           b == p \div Capacity
<1>2. /\ n \in 1..Capacity /\ Ends(o) <= Length /\ n <= Page - p
      /\ n = Capacity \/ n = Page - p \/ Ends(o) = Length
  BY <1>1, CountIs
<1>3. o = Page * a + p /\ p \in 0..(Page - 1) /\ a \in Int
  BY <1>1, Remainder
<1>4. p = Capacity * b /\ b \in Int
  <2>1. p \in Nat
    BY <1>3
  <2>2. p = Capacity * (p \div Capacity) + (p % Capacity) /\ p \div Capacity \in Int
    BY <2>1, Remainder
  <2>3. p % Capacity = 0
    BY <1>1
  <2> QED
    BY <2>2, <2>3
<1>5. Ends(o) = o + n
  BY DEF Ends
<1> HIDE DEF n, p, a, b
<1>6. n \in Nat /\ p \in Nat /\ Page * a \in Int /\ Capacity * b \in Int
  BY <1>2, <1>3, <1>4
<1>7. ASSUME NEW e \in Fwum!Starts, e > o PROVE e >= Ends(o)
  <2> SUFFICES ASSUME e < o + n PROVE FALSE
    <3>1. e \in Nat
      BY DEF Fwum!Starts
    <3> QED
      BY <1>1, <1>5, <1>6, <3>1
  <2>1. e \in Nat /\ (e % Page) % Capacity = 0
    BY DEF Fwum!Starts
  <2> DEFINE d == e - o
  <2>2. d \in 1..(Capacity - 1) /\ p + d \in 0..(Page - 1) /\ e = Page * a + (p + d)
    BY <1>1, <1>2, <1>3, <1>6, <1>7, <2>1
  <2> HIDE DEF d
  <2>3. e % Page = p + d
    BY <1>3, <2>1, <2>2, RemainderOf
  <2>4. p + d = Capacity * b + d /\ p + d \in Nat /\ d \in 0..(Capacity - 1)
    BY <1>4, <1>6, <2>2
  <2>5. (p + d) % Capacity = d
    BY <1>4, <2>4, RemainderOf
  <2> QED
    BY <2>1, <2>2, <2>3, <2>5
<1>8. ASSUME Ends(o) # Length PROVE Ends(o) \in Fwum!Starts
  <2>1. o + n \in 0..Length - 1
    BY <1>1, <1>2, <1>5, <1>6, <1>8
  <2>2. CASE n = Page - p
    <3> DEFINE c == a + 1
    <3>1. o + n = Page * c /\ o + n \in Nat /\ c \in Int
      <4>1. Page * (a + 1) = Page * a + Page
        BY <1>3
      <4> QED
        BY <1>1, <1>3, <1>6, <2>1, <2>2, <4>1
    <3> HIDE DEF c
    <3>2. (o + n) % Page = 0
      BY <3>1, MultipleOf
    <3>3. 0 % Capacity = 0
      OBVIOUS
    <3> QED
      BY <1>5, <2>1, <3>2, <3>3 DEF Fwum!Starts
  <2>3. CASE n # Page - p
    <3>1. n = Capacity /\ p + n \in 0..(Page - 1)
      BY <1>2, <1>3, <1>6, <1>8, <2>3
    <3>2. o + n = Page * a + (p + n)
      BY <1>3, <1>6
    <3>3. o + n \in Nat
      BY <2>1
    <3>4. (o + n) % Page = p + n
      BY <1>3, <3>1, <3>2, <3>3, RemainderOf
    <3> DEFINE c == b + 1
    <3>5. p + n = Capacity * c /\ p + n \in Nat /\ c \in Int
      <4>1. Capacity * (b + 1) = Capacity * b + Capacity
        BY <1>4
      <4> QED
        BY <1>4, <1>6, <3>1, <4>1
    <3> HIDE DEF c
    <3>6. (p + n) % Capacity = 0
      BY <3>5, MultipleOf
    <3> QED
      BY <1>5, <2>1, <3>4, <3>6 DEF Fwum!Starts
  <2> QED
    BY <2>2, <2>3
<1>9. o < Ends(o)
  BY <1>1, <1>2, <1>5
<1> QED
  BY <1>7, <1>8, <1>9

\* How many pieces come before.
Rank(o) == Cardinality({e \in Fwum!Starts : e < o})

LEMMA Ranks ==
  /\ IsFiniteSet(Fwum!Starts) /\ Cardinality(Fwum!Starts) \in Nat
  /\ Rank(0) = 0 /\ 0 \in Fwum!Starts \union {Length}
  /\ Rank(Length) = Cardinality(Fwum!Starts)
  /\ \A o \in Fwum!Starts : Rank(o) \in Nat /\ Rank(o) < Cardinality(Fwum!Starts) /\ Rank(Ends(o)) = Rank(o) + 1
<1> USE SizesAssumption
<1>1. Fwum!Starts \subseteq 0..(Length - 1)
  BY DEF Fwum!Starts
<1>0. \A e \in Fwum!Starts : e \in Nat /\ e < Length
  BY DEF Fwum!Starts
<1>2. IsFiniteSet(Fwum!Starts) /\ Cardinality(Fwum!Starts) \in Nat
  <2>1. 0 \in Int /\ Length - 1 \in Int
    OBVIOUS
  <2>2. IsFiniteSet(0..(Length - 1))
    BY <2>1, FS_Interval
  <2>3. IsFiniteSet(Fwum!Starts)
    BY <1>1, <2>2, FS_Subset
  <2> QED
    BY <2>3, FS_CardinalityType
<1>3. Rank(0) = 0
  <2>1. {e \in Fwum!Starts : e < 0} = {}
    BY <1>0
  <2> QED
    BY <2>1, FS_EmptySet DEF Rank
<1>4. 0 \in Fwum!Starts \union {Length}
  <2>1. 0 % Page = 0 /\ 0 % Capacity = 0
    OBVIOUS
  <2> QED
    BY <2>1 DEF Fwum!Starts
<1>5. Rank(Length) = Cardinality(Fwum!Starts)
  <2>1. {e \in Fwum!Starts : e < Length} = Fwum!Starts
    BY <1>0
  <2> QED
    BY <2>1 DEF Rank
<1>6. ASSUME NEW o \in Fwum!Starts
      PROVE  Rank(o) \in Nat /\ Rank(o) < Cardinality(Fwum!Starts) /\ Rank(Ends(o)) = Rank(o) + 1
  <2> DEFINE S == {e \in Fwum!Starts : e < o}
             T == {e \in Fwum!Starts : e < Ends(o)}
  <2>1. S \subseteq Fwum!Starts /\ o \notin S /\ S # Fwum!Starts
    BY <1>0
  <2>2. T = S \union {o}
    <3>1. Ends(o) \in Nat /\ o < Ends(o) /\ \A e \in Fwum!Starts : e > o => e >= Ends(o)
      <4>1. o < Ends(o) /\ \A e \in Fwum!Starts : e > o => e >= Ends(o)
        BY PieceEnds
      <4>2. Ends(o) \in Fwum!Starts \union {Length}
        BY PieceEnds
      <4>3. Ends(o) \in Nat
        BY <1>0, <4>2
      <4> QED
        BY <4>1, <4>3
    <3>2. \A e \in Fwum!Starts : e < Ends(o) <=> e < o \/ e = o
      <4> SUFFICES ASSUME NEW e \in Fwum!Starts PROVE e < Ends(o) <=> e < o \/ e = o
        OBVIOUS
      <4>1. e \in Nat /\ o \in Nat
        BY <1>0
      <4> QED
        BY <3>1, <4>1
    <3> QED
      BY <3>2
  <2> HIDE DEF S, T
  <2>3. IsFiniteSet(S) /\ Cardinality(S) \in Nat /\ Cardinality(S) <= Cardinality(Fwum!Starts)
        /\ Cardinality(S) # Cardinality(Fwum!Starts)
    BY <1>2, <2>1, FS_Subset, FS_CardinalityType
  <2>4. Cardinality(S \union {o}) = Cardinality(S) + 1
    BY <2>1, <2>3, FS_AddElement
  <2>5. Rank(o) = Cardinality(S) /\ Rank(Ends(o)) = Cardinality(T)
    BY DEF Rank, S, T
  <2> QED
    BY <1>2, <2>2, <2>3, <2>4, <2>5
<1> QED
  BY <1>2, <1>3, <1>4, <1>5, <1>6

\* Each piece has a rank of its own.
LEMMA RankApart ==
  ASSUME NEW o \in Fwum!Starts, NEW e \in Fwum!Starts, Rank(o) = Rank(e)
  PROVE  o = e
<1>1. ASSUME NEW a \in Fwum!Starts, NEW b \in Fwum!Starts, a < b PROVE Rank(a) # Rank(b)
  <2> DEFINE S == {x \in Fwum!Starts : x < a}
             T == {x \in Fwum!Starts : x < b}
  <2>1. S \subseteq T /\ a \in T /\ a \notin S /\ T \subseteq Fwum!Starts
    BY <1>1, SizesAssumption DEF Fwum!Starts
  <2>2. Rank(a) = Cardinality(S) /\ Rank(b) = Cardinality(T)
    BY DEF Rank
  <2> HIDE DEF S, T
  <2>3. IsFiniteSet(T)
    BY <2>1, Ranks, FS_Subset
  <2>4. Cardinality(S) = Cardinality(T) => S = T
    BY <2>1, <2>3, FS_Subset
  <2> QED
    BY <2>1, <2>2, <2>4
<1>2. o < e \/ e < o \/ o = e
  BY SizesAssumption DEF Fwum!Starts
<1> QED
  BY <1>1, <1>2

\* The saves of the plan.
LEMMA SavesAre ==
  /\ Fwum!Saves \in [1..Cardinality(Fwum!Starts) -> {Fwum!Saves[k] : k \in 1..Cardinality(Fwum!Starts)}]
  /\ \A o \in Fwum!Starts : Fwum!Saves[Rank(o) + 1] = Fwum!Write("save", o, Fwum!Count(o))
<1>1. \A T : Fwum!Cardinality(T) = Cardinality(T)
  BY Zenon DEF Fwum!Cardinality, Cardinality
<1> DEFINE Nth(k) == CHOOSE o \in Fwum!Starts : Fwum!Cardinality({e \in Fwum!Starts : e < o}) = k - 1
<1>2. Fwum!Saves = [k \in 1..Cardinality(Fwum!Starts) |-> Fwum!Piece(Nth(k))]
  <2>1. Fwum!Saves = [k \in 1..Fwum!Cardinality(Fwum!Starts) |-> Fwum!Piece(Nth(k))]
    BY Zenon DEF Fwum!Saves
  <2>2. Fwum!Cardinality(Fwum!Starts) = Cardinality(Fwum!Starts)
    BY <1>1
  <2> HIDE DEF Nth
  <2> QED
    BY <2>1, <2>2, Zenon
<1>3. ASSUME NEW o \in Fwum!Starts PROVE Fwum!Saves[Rank(o) + 1] = Fwum!Write("save", o, Fwum!Count(o))
  <2> DEFINE k == Rank(o) + 1
  <2>1. k \in 1..Cardinality(Fwum!Starts) /\ k - 1 = Rank(o)
    BY Ranks
  <2>2. Nth(k) = o
    <3>1. \A x \in Fwum!Starts : Fwum!Cardinality({e \in Fwum!Starts : e < x}) = Rank(x)
      BY <1>1 DEF Rank
    <3>2. \A x \in Fwum!Starts : Rank(x) = Rank(o) => x = o
      BY RankApart
    <3>3. \A x \in Fwum!Starts : Fwum!Cardinality({e \in Fwum!Starts : e < x}) = k - 1 <=> x = o
      BY <2>1, <3>1, <3>2
    <3> QED
      BY <3>3
  <2>3. Fwum!Saves[k] = Fwum!Piece(Nth(k))
    <3> HIDE DEF Nth, k
    <3> QED
      BY <1>2, <2>1
  <2> HIDE DEF Nth, k
  <2>4. Fwum!Saves[k] = Fwum!Piece(o)
    BY <2>2, <2>3
  <2>5. Fwum!Piece(o) = Fwum!Write("save", o, Fwum!Count(o))
    <3> DEFINE later == {e \in Fwum!Starts \union {Length} : e > o}
               next == CHOOSE e \in later : \A f \in later : e <= f
    <3>1. /\ Ends(o) \in Fwum!Starts \union {Length} /\ o < Ends(o) /\ Ends(o) <= Length /\ o \in Nat /\ Fwum!Count(o) \in Nat
          /\ \A e \in Fwum!Starts : e > o => e >= Ends(o)
      <4>1. o \in Nat /\ o < Length /\ Length \in Nat
        BY SizesAssumption DEF Fwum!Starts
      <4>2. Fwum!Count(o) \in 1..Capacity /\ Ends(o) <= Length
        BY <4>1, CountIs
      <4>3. Fwum!Count(o) \in Nat
        BY <4>2, SizesAssumption
      <4>4. /\ Ends(o) \in Fwum!Starts \union {Length} /\ o < Ends(o)
            /\ \A e \in Fwum!Starts : e > o => e >= Ends(o)
        BY PieceEnds
      <4> QED
        BY <4>1, <4>2, <4>3, <4>4
    <3>2. Ends(o) \in later /\ \A f \in later : Ends(o) <= f /\ f \in Nat
      BY <3>1, SizesAssumption DEF Fwum!Starts
    <3>3. Fwum!Piece(o) = Fwum!Write("save", o, next - o)
      BY DEF Fwum!Piece
    <3> HIDE DEF later
    <3>4. next \in later /\ \A f \in later : next <= f
      BY <3>2
    <3> HIDE DEF next
    <3>5. next = Ends(o)
      BY <3>2, <3>4
    <3>6. next - o = Fwum!Count(o)
      BY <3>1, <3>5 DEF Ends
    <3> QED
      BY <3>3, <3>6
  <2> QED
    BY <2>4, <2>5 DEF k
<1>4. Fwum!Saves \in [1..Cardinality(Fwum!Starts) -> {Fwum!Saves[k] : k \in 1..Cardinality(Fwum!Starts)}]
  BY <1>2
<1> QED
  BY <1>3, <1>4

\* The plan of an update: the buffers, the start, the pieces, the end.
Many == Cardinality(Fwum!Starts)
FwumEnd == <<Fwum!Write("finish", 0, 0), Fwum!Write("activate", 0, 0)>>
FwumSets == [k \in DOMAIN Fwum!Buffers |-> Fwum!SetBuffer(Fwum!Buffers[k])]
FwumItems ==
    {Fwum!SetBuffer(c) : c \in Fwum!Channels} \union {Fwum!Saves[k] : k \in 1..Many}
      \union {Fwum!Write("start", 0, Length), Fwum!Write("finish", 0, 0), Fwum!Write("activate", 0, 0)}

LEMMA FwumBuffers == Fwum!Buffers \in Seq(Fwum!Channels) /\ Len(Fwum!Buffers) \in Nat
<1>1. CASE ~negotiated
  <2>1. Fwum!Buffers = <<>>
    BY <1>1 DEF Fwum!Buffers
  <2> QED
    BY <2>1, EmptySeq
<1>2. CASE negotiated /\ ~bridged
  BY <1>2 DEF Fwum!Buffers, Fwum!Channels
<1>3. CASE negotiated /\ bridged
  BY <1>3 DEF Fwum!Buffers, Fwum!Channels
<1> QED
  BY <1>1, <1>2, <1>3

LEMMA FwumPlan ==
  ASSUME NEW m, m = Len(Fwum!Buffers)
  PROVE  /\ Fwum!Plan \in Seq(FwumItems) /\ m \in Nat /\ Many \in Nat
         /\ Len(Fwum!Plan) = ((m + 1) + Many) + 2
         /\ \A k \in 1..m : Fwum!Plan[k] = Fwum!SetBuffer(Fwum!Buffers[k])
         /\ Fwum!Plan[m + 1] = Fwum!Write("start", 0, Length)
         /\ \A o \in Fwum!Starts : Fwum!Plan[(m + 1) + (Rank(o) + 1)] = Fwum!Write("save", o, Fwum!Count(o))
         /\ Fwum!Plan[((m + 1) + Many) + 1] = Fwum!Write("finish", 0, 0)
         /\ Fwum!Plan[((m + 1) + Many) + 2] = Fwum!Write("activate", 0, 0)
<1> DEFINE start == <<Fwum!Write("start", 0, Length)>>
           t == FwumSets \o start
           u == t \o Fwum!Saves
           v == u \o FwumEnd
<1>1. Fwum!Plan = v
  BY DEF Fwum!Plan, FwumSets, FwumEnd
<1>2. m \in Nat /\ Fwum!Buffers \in Seq(Fwum!Channels) /\ Many \in Nat
  BY FwumBuffers, Ranks DEF Many
<1>3. /\ FwumSets \in Seq(FwumItems) /\ Len(FwumSets) = m
      /\ \A k \in 1..m : FwumSets[k] = Fwum!SetBuffer(Fwum!Buffers[k])
  <2>1. DOMAIN Fwum!Buffers = 1..m
    BY <1>2, LenProperties
  <2>2. FwumSets = [k \in 1..m |-> Fwum!SetBuffer(Fwum!Buffers[k])]
    BY <2>1 DEF FwumSets
  <2>3. \A k \in 1..m : Fwum!SetBuffer(Fwum!Buffers[k]) \in FwumItems
    <3>1. \A k \in 1..m : Fwum!Buffers[k] \in Fwum!Channels
      BY <1>2, <2>1, ElementOfSeq
    <3> QED
      BY <3>1 DEF FwumItems
  <2>4. FwumSets \in [1..m -> FwumItems]
    BY <2>2, <2>3
  <2>5. FwumSets \in Seq(FwumItems) /\ Len(FwumSets) = m
    BY <1>2, <2>4, SeqDef, LenProperties
  <2> QED
    BY <2>2, <2>5
<1>4. start \in Seq(FwumItems) /\ Len(start) = 1 /\ start[1] = Fwum!Write("start", 0, Length)
  BY DEF FwumItems
<1>5. /\ Fwum!Saves \in Seq(FwumItems) /\ Len(Fwum!Saves) = Many
      /\ \A o \in Fwum!Starts : Fwum!Saves[Rank(o) + 1] = Fwum!Write("save", o, Fwum!Count(o)) /\ Rank(o) + 1 \in 1..Many
  <2>1. Fwum!Saves \in [1..Many -> FwumItems]
    BY SavesAre DEF FwumItems, Many
  <2>2. Fwum!Saves \in Seq(FwumItems) /\ Len(Fwum!Saves) = Many
    BY <1>2, <2>1, SeqDef, LenProperties
  <2> QED
    BY <2>2, Ranks, SavesAre DEF Many
<1>6. /\ FwumEnd \in Seq(FwumItems) /\ Len(FwumEnd) = 2 /\ FwumEnd[1] = Fwum!Write("finish", 0, 0)
      /\ FwumEnd[2] = Fwum!Write("activate", 0, 0)
  BY DEF FwumItems, FwumEnd
<1> HIDE DEF start
<1>7. t = FwumSets \o start
  OBVIOUS
<1> HIDE DEF t
<1>8. u = t \o Fwum!Saves
  OBVIOUS
<1> HIDE DEF u
<1>9. v = u \o FwumEnd
  OBVIOUS
<1> HIDE DEF v
<1>10. /\ t \in Seq(FwumItems) /\ Len(t) = m + 1
       /\ \A i \in 1..m : t[i] = FwumSets[i]
       /\ t[m + 1] = start[1]
  <2>1. FwumSets \in Seq(FwumItems) /\ start \in Seq(FwumItems)
    BY <1>3, <1>4
  <2>2. /\ t \in Seq(FwumItems) /\ Len(t) = Len(FwumSets) + Len(start)
        /\ \A i \in 1..Len(FwumSets) : t[i] = FwumSets[i]
        /\ \A i \in 1..Len(start) : t[Len(FwumSets) + i] = start[i]
    BY <2>1, <1>7, Joined, SMTT(30)
  <2> QED
    BY <1>2, <1>3, <1>4, <2>2
<1>11. /\ u \in Seq(FwumItems) /\ Len(u) = (m + 1) + Many
       /\ \A i \in 1..m + 1 : u[i] = t[i]
       /\ \A i \in 1..Many : u[(m + 1) + i] = Fwum!Saves[i]
  <2>1. t \in Seq(FwumItems) /\ Fwum!Saves \in Seq(FwumItems)
    BY <1>5, <1>10
  <2>2. /\ u \in Seq(FwumItems) /\ Len(u) = Len(t) + Len(Fwum!Saves)
        /\ \A i \in 1..Len(t) : u[i] = t[i]
        /\ \A i \in 1..Len(Fwum!Saves) : u[Len(t) + i] = Fwum!Saves[i]
    BY <2>1, <1>8, Joined, SMTT(30)
  <2> QED
    BY <1>5, <1>10, <2>2
<1>12. /\ v \in Seq(FwumItems) /\ Len(v) = ((m + 1) + Many) + 2
       /\ \A i \in 1..(m + 1) + Many : v[i] = u[i]
       /\ \A i \in 1..2 : v[((m + 1) + Many) + i] = FwumEnd[i]
  <2>1. u \in Seq(FwumItems) /\ FwumEnd \in Seq(FwumItems)
    BY <1>6, <1>11
  <2>2. /\ v \in Seq(FwumItems) /\ Len(v) = Len(u) + Len(FwumEnd)
        /\ \A i \in 1..Len(u) : v[i] = u[i]
        /\ \A i \in 1..Len(FwumEnd) : v[Len(u) + i] = FwumEnd[i]
    BY <2>1, <1>9, Joined, SMTT(30)
  <2> QED
    BY <1>6, <1>11, <2>2
<1>13. \A k \in 1..m : v[k] = Fwum!SetBuffer(Fwum!Buffers[k])
  BY <1>2, <1>3, <1>10, <1>11, <1>12
<1>14. v[m + 1] = Fwum!Write("start", 0, Length)
  BY <1>2, <1>4, <1>10, <1>11, <1>12
<1>15. ASSUME NEW o \in Fwum!Starts PROVE v[(m + 1) + (Rank(o) + 1)] = Fwum!Write("save", o, Fwum!Count(o))
  <2> DEFINE r == Rank(o) + 1
  <2>1. r \in 1..Many /\ Fwum!Saves[r] = Fwum!Write("save", o, Fwum!Count(o))
    BY <1>5
  <2> HIDE DEF r
  <2>2. u[(m + 1) + r] = Fwum!Saves[r] /\ v[(m + 1) + r] = u[(m + 1) + r]
    BY <1>2, <1>11, <1>12, <2>1
  <2>3. v[(m + 1) + r] = Fwum!Write("save", o, Fwum!Count(o))
    BY <2>1, <2>2
  <2> QED
    BY <2>3 DEF r
<1>16. v[((m + 1) + Many) + 1] = FwumEnd[1] /\ v[((m + 1) + Many) + 2] = FwumEnd[2]
  BY <1>12
<1> QED
  BY <1>1, <1>2, <1>6, <1>12, <1>13, <1>14, <1>15, <1>16

(* Where an update is: the operation under way, the phase and the writes   *)
(* acknowledged go together.                                               *)
SavedAt == ((Len(Fwum!Buffers) + 1) + Many)
FwumPhases ==
    /\ phase \in Fwum!Phases
    /\ pc = "read" =>
         /\ goal = "prepare" => phase = "Preparing"
         /\ goal = "stage" => phase = "Prepared"
         /\ goal = "finish" => phase = "Uploading"
         /\ goal = "activate" => phase = "Staged"
         /\ goal = "verify_activation" => phase = "ActivationRequested"
         /\ goal = "rollback" => phase = "Activated"
         /\ goal = "verify_rollback" => phase = "RollbackRequested"
    /\ pc = "refused" => phase = "Preparing"
    /\ pc = "buffers" => phase = "Prepared"
    /\ pc \in {"save", "cancelled"} => phase = "Uploading"
    /\ pc = "clear" => phase \in {"Uploading", "Interrupted"}
    /\ pc = "ready" => phase \notin {"Preparing", "Uploading"}
    /\ pc = "activate" => phase = "Staged"
    /\ pc = "rollback" => phase = "Activated"
FwumCount ==
    /\ phase = "Preparing" \/ (phase = "Prepared" /\ pc # "buffers") => confirmed = 0 /\ confirmed_bytes = 0
    /\ pc = "buffers" => confirmed = Len(armed) /\ confirmed <= Len(Fwum!Buffers) /\ confirmed_bytes = 0
    /\ pc \in {"save", "cancelled"} =>
         /\ confirmed_bytes \in Fwum!Starts \union {Length}
         /\ confirmed = (Len(Fwum!Buffers) + 1) + Rank(confirmed_bytes)
    /\ (phase = "Uploading" /\ pc \in {"read", "clear"}) \/ phase = "Staged" => confirmed = SavedAt + 1
    /\ phase \in {"ActivationRequested", "Activated"} => confirmed = SavedAt + 2

LEMMA FwumFixed ==
  ASSUME Fwum!Next
  PROVE  /\ UNCHANGED <<negotiated, bridged, old_good_bank>>
         /\ Fwum!Plan' = Fwum!Plan /\ Fwum!Buffers' = Fwum!Buffers
<1>1. UNCHANGED <<negotiated, bridged, old_good_bank>>
  BY DEF Fwum!Next, Fwum!Call, Fwum!ReadBank, Fwum!ReadFails, Fwum!Judge, Fwum!GatewayFails, Fwum!SetNextBuffer,
         Fwum!StartImage, Fwum!Cancel, Fwum!SaveImage, Fwum!FinishImage, Fwum!ClearBuffer, Fwum!Cleared,
         Fwum!StartUpdate, Fwum!ManualRollback, Fwum!Boot, Fwum!Meddle, Fwum!plans
<1>2. Fwum!Buffers' = Fwum!Buffers
  BY <1>1 DEF Fwum!Buffers
<1>3. Fwum!Plan' = Fwum!Plan
  BY <1>2 DEF Fwum!Plan
<1> QED
  BY <1>1, <1>2, <1>3

LEMMA FwumPhasesStep ==
  ASSUME FwumInv, FwumPhases, Fwum!Next
  PROVE  FwumPhases'
<1>0. pc \in {"ready", "read", "refused", "buffers", "save", "cancelled", "clear", "activate", "rollback"}
      /\ goal \in Goals
  BY DEF FwumInv
<1>1. CASE Fwum!Call
  BY <1>1 DEF FwumPhases, Fwum!Call, Fwum!RequiredPhase, Fwum!Phases
<1>2. CASE Fwum!ReadBank
  BY <1>2 DEF FwumPhases, Fwum!ReadBank, Fwum!transfer
<1>3. CASE Fwum!ReadFails
  BY <1>0, <1>3 DEF FwumPhases, Fwum!ReadFails, Fwum!Stop, Fwum!Phases, Goals
<1>4. CASE Fwum!Judge
  <2>0. pc = "read" /\ UNCHANGED goal
    BY <1>4 DEF Fwum!Judge
  <2>1. CASE goal = "prepare"
    BY <1>4, <2>0, <2>1 DEF FwumPhases, Fwum!Judge, Fwum!Prepare, Fwum!Phases
  <2>2. CASE goal = "stage"
    BY <1>4, <2>0, <2>2 DEF FwumPhases, Fwum!Judge, Fwum!StopOrElse, Fwum!Stop, Fwum!Phases
  <2>3. CASE goal = "finish"
    BY <1>4, <2>0, <2>3 DEF FwumPhases, Fwum!Judge, Fwum!StopOrElse, Fwum!Stop, Fwum!Phases
  <2>4. CASE goal = "activate"
    BY <1>4, <2>0, <2>4 DEF FwumPhases, Fwum!Judge, Fwum!StopOrElse, Fwum!Stop, Fwum!Phases
  <2>5. CASE goal = "verify_activation"
    BY <1>4, <2>0, <2>5 DEF FwumPhases, Fwum!Judge, Fwum!VerifyActivation, Fwum!Stop, Fwum!Phases
  <2>6. CASE goal = "rollback"
    BY <1>4, <2>0, <2>6 DEF FwumPhases, Fwum!Judge, Fwum!StopOrElse, Fwum!Stop, Fwum!Phases
  <2>7. CASE goal = "verify_rollback"
    BY <1>4, <2>0, <2>7 DEF FwumPhases, Fwum!Judge, Fwum!VerifyRollback, Fwum!Phases
  <2> QED
    BY <1>0, <2>1, <2>2, <2>3, <2>4, <2>5, <2>6, <2>7 DEF Goals
<1>5. CASE Fwum!GatewayFails \/ Fwum!Cancel
  BY <1>5 DEF FwumPhases, Fwum!GatewayFails, Fwum!Cancel, Fwum!Stop, Fwum!Phases
<1>6. CASE Fwum!SetNextBuffer
  BY <1>6 DEF FwumPhases, Fwum!SetNextBuffer, Fwum!StopOrElse, Fwum!Stop, Fwum!Phases
<1>7. CASE Fwum!StartImage
  BY <1>7 DEF FwumPhases, Fwum!StartImage, Fwum!Stop, Fwum!Phases
<1>8. CASE Fwum!SaveImage
  BY <1>8 DEF FwumPhases, Fwum!SaveImage, Fwum!Stop, Fwum!Phases
<1>9. CASE Fwum!FinishImage
  BY <1>9 DEF FwumPhases, Fwum!FinishImage, Fwum!StopOrElse, Fwum!Stop, Fwum!Phases
<1>10. CASE Fwum!ClearBuffer
  BY <1>10 DEF FwumPhases, Fwum!ClearBuffer
<1>11. CASE Fwum!Cleared
  BY <1>11 DEF FwumPhases, Fwum!Cleared, Fwum!Staged, Fwum!Phases
<1>12. CASE Fwum!StartUpdate
  BY <1>12 DEF FwumPhases, Fwum!StartUpdate, Fwum!Stop, Fwum!Phases
<1>13. CASE Fwum!ManualRollback
  BY <1>13 DEF FwumPhases, Fwum!ManualRollback, Fwum!Stop, Fwum!Phases
<1>14. CASE Fwum!Boot \/ Fwum!Meddle
  BY <1>14 DEF FwumPhases, Fwum!Boot, Fwum!Meddle, Fwum!transfer, Fwum!session
<1> QED
  BY <1>1, <1>2, <1>3, <1>4, <1>5, <1>6, <1>7, <1>8, <1>9, <1>10, <1>11, <1>12, <1>13, <1>14 DEF Fwum!Next

\* The steps that send nothing of the plan.
LEMMA FwumQuiet ==
  ASSUME FwumInv, FwumPhases, FwumPhases', FwumCount,
         \/ Fwum!Call \/ Fwum!ReadBank \/ Fwum!ReadFails \/ Fwum!Judge \/ Fwum!GatewayFails \/ Fwum!Cancel
         \/ Fwum!ClearBuffer \/ Fwum!Cleared \/ Fwum!Boot \/ Fwum!Meddle
  PROVE  FwumCount' /\ UNCHANGED <<executed, confirmed>> /\ (Fwum!Halted => Fwum!Halted')
<1>0. Fwum!Next
  BY DEF Fwum!Next
<1>1. UNCHANGED <<executed, confirmed, confirmed_bytes>> /\ Fwum!Buffers' = Fwum!Buffers /\ SavedAt' = SavedAt
  <2>1. UNCHANGED <<executed, confirmed, confirmed_bytes>>
    BY DEF Fwum!Call, Fwum!ReadBank, Fwum!ReadFails, Fwum!Judge, Fwum!GatewayFails, Fwum!Cancel, Fwum!ClearBuffer,
           Fwum!Cleared, Fwum!Boot, Fwum!Meddle, Fwum!transfer, Fwum!session
  <2> QED
    BY <1>0, <2>1, FwumFixed DEF SavedAt
<1>2. ASSUME UNCHANGED phase, UNCHANGED pc \/ pc' # "buffers", UNCHANGED armed \/ pc # "buffers",
             pc' \in {"save", "cancelled"} => pc \in {"save", "cancelled"},
             phase = "Prepared" => pc # "buffers" \/ UNCHANGED pc,
             phase = "Uploading" /\ pc' \in {"read", "clear"} => pc \in {"read", "clear"}
      PROVE  FwumCount' /\ (Fwum!Halted => Fwum!Halted')
  BY <1>1, <1>2 DEF FwumCount, Fwum!Halted, Rank
<1>3. ASSUME phase' = "Interrupted" PROVE FwumCount' /\ (Fwum!Halted => Fwum!Halted')
  BY <1>3 DEF FwumCount, FwumPhases, Fwum!Halted
<1>4. CASE Fwum!Call
  <2>1. UNCHANGED <<phase, armed>> /\ pc' = "read" /\ pc = "ready"
    BY <1>4 DEF Fwum!Call
  <2> QED
    BY <1>1, <1>2, <2>1 DEF FwumPhases
<1>5. CASE Fwum!ReadBank
  BY <1>1, <1>2, <1>5 DEF Fwum!ReadBank, Fwum!transfer
<1>6. CASE Fwum!ReadFails
  <2>1. CASE goal \in {"stage", "finish", "activate"}
    BY <1>1, <1>3, <1>6, <2>1 DEF Fwum!ReadFails, Fwum!Stop
  <2>2. CASE goal \notin {"stage", "finish", "activate"}
    <3>1. UNCHANGED <<phase, armed>> /\ pc = "read" /\ pc' \in {"refused", "ready"}
      BY <1>6, <2>2 DEF Fwum!ReadFails
    <3> QED
      BY <1>1, <1>2, <3>1
  <2> QED
    BY <2>1, <2>2
<1>7. CASE Fwum!Judge
  <2>0. pc = "read" /\ UNCHANGED <<goal, armed>>
    BY <1>7 DEF Fwum!Judge
  <2>1. CASE phase' = "Interrupted"
    BY <1>1, <1>3, <2>1
  <2>2. CASE UNCHANGED phase /\ goal # "stage"
    <3>1. pc' \in {"ready", "refused", "clear", "activate", "rollback"} 
      BY <1>7, <2>0, <2>2 DEF FwumInv, Goals, Fwum!Judge, Fwum!Prepare, Fwum!StopOrElse, Fwum!Stop, Fwum!VerifyActivation, Fwum!VerifyRollback
    <3> QED
      BY <1>1, <1>2, <2>0, <2>2, <3>1
  <2>3. CASE UNCHANGED phase /\ goal = "stage"
    <3>1. phase = "Prepared" /\ armed = <<>> /\ confirmed = 0 /\ confirmed_bytes = 0
      BY <2>0, <2>3 DEF FwumPhases, FwumInv, FwumCount
    <3>2. pc' \in {"buffers", "clear"}
      BY <1>7, <2>3 DEF Fwum!Judge, Fwum!StopOrElse, Fwum!Stop
    <3>3. Len(armed') = 0 /\ 0 <= Len(Fwum!Buffers)
      BY <2>0, <3>1, FwumBuffers
    <3> QED
      BY <1>1, <2>3, <3>1, <3>2, <3>3 DEF FwumCount, Fwum!Halted
  <2>4. CASE phase' # phase /\ phase' # "Interrupted"
    <3>1. \/ goal = "prepare" /\ phase' = "Prepared" /\ pc' = "ready"
          \/ goal = "verify_activation" /\ phase' = "Activated" /\ pc' = "ready"
          \/ goal = "verify_rollback" /\ phase' = "RolledBack" /\ pc' = "ready"
      BY <1>7, <2>0, <2>4 DEF FwumInv, Goals, Fwum!Judge, Fwum!Prepare, Fwum!StopOrElse, Fwum!Stop,
                              Fwum!VerifyActivation, Fwum!VerifyRollback
    <3>2. CASE goal = "prepare"
      BY <1>1, <2>0, <3>1, <3>2 DEF FwumCount, FwumPhases, Fwum!Halted
    <3>3. CASE goal = "verify_activation"
      BY <1>1, <2>0, <3>1, <3>3 DEF FwumCount, FwumPhases, Fwum!Halted
    <3>4. CASE goal = "verify_rollback"
      BY <1>1, <2>0, <3>1, <3>4 DEF FwumCount, FwumPhases, Fwum!Halted
    <3> QED
      BY <3>1, <3>2, <3>3, <3>4
  <2> QED
    BY <2>1, <2>2, <2>3, <2>4
<1>8. CASE Fwum!GatewayFails \/ Fwum!Cancel
  BY <1>1, <1>3, <1>8 DEF Fwum!GatewayFails, Fwum!Cancel, Fwum!Stop
<1>9. CASE Fwum!ClearBuffer
  BY <1>1, <1>2, <1>9 DEF Fwum!ClearBuffer
<1>10. CASE Fwum!Cleared
  <2>1. pc = "clear" /\ pc' = "ready"
    BY <1>10 DEF Fwum!Cleared
  <2>2. CASE phase = "Uploading"
    BY <1>1, <1>10, <2>1, <2>2 DEF Fwum!Cleared, Fwum!Staged, FwumCount, Fwum!Halted
  <2>3. CASE phase # "Uploading"
    <3>1. UNCHANGED <<phase, armed>>
      BY <1>10, <2>3 DEF Fwum!Cleared, Fwum!Staged
    <3> QED
      BY <1>1, <1>2, <2>1, <3>1
  <2> QED
    BY <2>2, <2>3
<1>11. CASE Fwum!Boot \/ Fwum!Meddle
  BY <1>1, <1>2, <1>11 DEF Fwum!Boot, Fwum!Meddle, Fwum!transfer, Fwum!session
<1> QED
  BY <1>1, <1>4, <1>5, <1>6, <1>7, <1>8, <1>9, <1>10, <1>11

\* An answer: the write is acknowledged, or not and nothing follows.
LEMMA FwumAnswers ==
  ASSUME NEW o \in Fwum!Outcomes, NEW w, Fwum!Sent(o, w), o.answer # "ok" => Fwum!Stop
  PROVE  \/ o.answer = "ok" /\ executed' = Append(executed, w) /\ confirmed' = confirmed + 1
         \/ /\ o.answer # "ok" /\ (executed' = Append(executed, w) \/ executed' = executed)
            /\ confirmed' = confirmed /\ phase' = "Interrupted" /\ pc' = "clear"
BY DEF Fwum!Outcomes, Fwum!Sent, Fwum!Stop

\* Those that send the next of it.
LEMMA FwumSending ==
  ASSUME FwumInv, FwumPhases, FwumPhases', FwumCount,
         Fwum!SetNextBuffer \/ Fwum!StartImage \/ Fwum!SaveImage \/ Fwum!FinishImage \/ Fwum!StartUpdate
  PROVE  /\ FwumCount' /\ ~Fwum!Halted /\ confirmed < Len(Fwum!Plan)
         /\ \/ executed' = Append(executed, Fwum!Plan[confirmed + 1]) /\ confirmed' = confirmed + 1
            \/ /\ executed' = Append(executed, Fwum!Plan[confirmed + 1]) \/ executed' = executed
               /\ confirmed' = confirmed /\ Fwum!Halted'
<1>0. Fwum!Next
  BY DEF Fwum!Next
<1> DEFINE m == Len(Fwum!Buffers)
<1>1. Fwum!Buffers' = Fwum!Buffers /\ m' = m /\ SavedAt' = SavedAt /\ SavedAt = (m + 1) + Many /\ m \in Nat /\ Many \in Nat
  BY <1>0, FwumFixed, FwumBuffers, Ranks DEF SavedAt, Many
<1>a. m = Len(Fwum!Buffers)
  OBVIOUS
<1> HIDE DEF m
<1>2. /\ Len(Fwum!Plan) = ((m + 1) + Many) + 2
      /\ \A k \in 1..m : Fwum!Plan[k] = Fwum!SetBuffer(Fwum!Buffers[k])
      /\ Fwum!Plan[m + 1] = Fwum!Write("start", 0, Length)
      /\ \A o \in Fwum!Starts : Fwum!Plan[(m + 1) + (Rank(o) + 1)] = Fwum!Write("save", o, Fwum!Count(o))
      /\ Fwum!Plan[((m + 1) + Many) + 1] = Fwum!Write("finish", 0, 0)
      /\ Fwum!Plan[((m + 1) + Many) + 2] = Fwum!Write("activate", 0, 0)
  BY <1>a, FwumPlan
<1>3. ASSUME phase' = "Interrupted", pc' = "clear" PROVE FwumCount' /\ Fwum!Halted'
  BY <1>3 DEF FwumCount, Fwum!Halted
<1>4. CASE Fwum!SetNextBuffer
  <2> DEFINE channel == Fwum!Buffers[Len(armed) + 1]
  <2>1. PICK o \in Fwum!Outcomes :
          /\ Fwum!Sent(o, Fwum!SetBuffer(channel)) /\ Fwum!Arm(o, channel) /\ Fwum!StopOrElse(o.answer = "ok", pc)
    BY <1>4 DEF Fwum!SetNextBuffer
  <2>2. /\ pc = "buffers" /\ phase = "Prepared" /\ confirmed = Len(armed) /\ confirmed < m /\ confirmed_bytes = 0
        /\ confirmed \in Nat /\ confirmed_bytes' = confirmed_bytes
    <3>1. Len(armed) \in Nat
      BY LenProperties DEF FwumInv
    <3> QED
      BY <1>4, <1>a, <3>1 DEF Fwum!SetNextBuffer, FwumCount, FwumPhases
  <2>3. Fwum!Plan[confirmed + 1] = Fwum!SetBuffer(channel)
    BY <1>1, <1>2, <2>2
  <2>4. o.answer # "ok" => Fwum!Stop
    BY <2>1 DEF Fwum!StopOrElse
  <2>5. \/ o.answer = "ok" /\ executed' = Append(executed, Fwum!Plan[confirmed + 1]) /\ confirmed' = confirmed + 1
        \/ /\ o.answer # "ok" /\ (executed' = Append(executed, Fwum!Plan[confirmed + 1]) \/ executed' = executed)
           /\ confirmed' = confirmed /\ phase' = "Interrupted" /\ pc' = "clear"
    BY <2>1, <2>3, <2>4, FwumAnswers
  <2>6. ASSUME o.answer = "ok" PROVE FwumCount'
    <3>1. pc' = "buffers" /\ phase' = "Prepared" /\ armed' = Append(armed, channel)
      BY <2>1, <2>2, <2>6 DEF Fwum!StopOrElse, Fwum!Stop, Fwum!Arm
    <3>2. Len(armed') = Len(armed) + 1
      <4>1. channel \in Fwum!Channels /\ armed \in Seq(Fwum!Channels)
        BY <1>1, <1>a, <2>2, FwumBuffers, ElementOfSeq DEF FwumInv
      <4> HIDE DEF channel
      <4> QED
        BY <3>1, <4>1, AppendProperties
    <3> QED
      BY <1>1, <1>a, <2>2, <2>5, <2>6, <3>1, <3>2 DEF FwumCount
  <2>7. confirmed < Len(Fwum!Plan) /\ ~Fwum!Halted
    BY <1>1, <1>2, <2>2 DEF Fwum!Halted
  <2> QED
    BY <1>3, <2>5, <2>6, <2>7
<1>5. CASE Fwum!StartImage
  <2>1. PICK o \in Fwum!Outcomes, b \in Fwum!Banks \union {Fwum!NoBank} :
         /\ Fwum!Sent(o, Fwum!Write("start", 0, Length))
         /\ \/ /\ o.answer = "ok" /\ ~Fwum!Unfit(b)
               /\ bank' = b /\ phase' = "Uploading"
               /\ pc' \in {"save", "cancelled"}
            \/ /\ o.answer # "ok" \/ Fwum!Unfit(b)
               /\ Fwum!Stop /\ UNCHANGED bank
    BY <1>5 DEF Fwum!StartImage
  <2>2. /\ pc = "buffers" /\ phase = "Prepared" /\ confirmed = m /\ confirmed_bytes = 0 /\ confirmed_bytes' = 0
    BY <1>5, <1>a DEF Fwum!StartImage, FwumCount, FwumPhases
  <2>3. Fwum!Plan[confirmed + 1] = Fwum!Write("start", 0, Length)
    BY <1>2, <2>2
  <2>4. \/ executed' = Append(executed, Fwum!Plan[confirmed + 1]) /\ confirmed' = confirmed + 1
        \/ /\ executed' = Append(executed, Fwum!Plan[confirmed + 1]) \/ executed' = executed
           /\ confirmed' = confirmed /\ o.answer # "ok"
    BY <2>1, <2>3 DEF Fwum!Sent, Fwum!Outcomes
  <2>5. CASE phase' = "Uploading" /\ o.answer = "ok"
    <3>1. confirmed' = (m + 1) + Rank(0) /\ 0 \in Fwum!Starts \union {Length}
      BY <1>1, <2>2, <2>4, <2>5, Ranks
    <3>2. pc' \in {"save", "cancelled"}
      BY <2>1, <2>5 DEF Fwum!Stop
    <3>3. confirmed' = (Len(Fwum!Buffers)' + 1) + Rank(confirmed_bytes')
      BY <1>1, <1>a, <2>2, <3>1
    <3> QED
      BY <1>1, <1>2, <2>2, <2>4, <2>5, <3>1, <3>2, <3>3 DEF FwumCount, Fwum!Halted, Rank
  <2>6. CASE Fwum!Stop
    BY <1>1, <1>2, <1>3, <2>2, <2>4, <2>6 DEF Fwum!Stop, Fwum!Halted
  <2> QED
    BY <2>1, <2>5, <2>6
<1>6. CASE Fwum!SaveImage
  <2> DEFINE n == Fwum!Count(confirmed_bytes)
  <2>1. PICK o \in Fwum!Outcomes :
            /\ Fwum!Sent(o, Fwum!Write("save", confirmed_bytes, n))
            /\ \/ /\ o.answer = "ok"
                  /\ confirmed_bytes' = confirmed_bytes + n
                  /\ pc' \in {"save", "cancelled"} /\ UNCHANGED phase
               \/ /\ o.answer # "ok"
                  /\ Fwum!Stop /\ UNCHANGED confirmed_bytes
    BY <1>6 DEF Fwum!SaveImage
  <2>2. /\ pc = "save" /\ phase = "Uploading" /\ confirmed_bytes \in Fwum!Starts /\ confirmed = (m + 1) + Rank(confirmed_bytes)
    <3>1. pc = "save" /\ confirmed_bytes < Length /\ phase = "Uploading"
      BY <1>6 DEF Fwum!SaveImage, FwumPhases
    <3>2. confirmed_bytes \in Fwum!Starts \union {Length} /\ confirmed = (m + 1) + Rank(confirmed_bytes)
      BY <1>a, <3>1 DEF FwumCount
    <3>3. confirmed_bytes # Length
      BY <3>1, SizesAssumption
    <3> QED
      BY <3>1, <3>2, <3>3
  <2>3. /\ Rank(confirmed_bytes) \in Nat /\ Rank(confirmed_bytes) < Many
        /\ Rank(Ends(confirmed_bytes)) = Rank(confirmed_bytes) + 1
        /\ Ends(confirmed_bytes) \in Fwum!Starts \union {Length}
    BY <2>2, Ranks, PieceEnds DEF Many
  <2>4. Fwum!Plan[confirmed + 1] = Fwum!Write("save", confirmed_bytes, n) /\ confirmed < Len(Fwum!Plan)
    <3>1. confirmed + 1 = (m + 1) + (Rank(confirmed_bytes) + 1) /\ confirmed < Len(Fwum!Plan)
      BY <1>1, <1>2, <2>2, <2>3
    <3> QED
      BY <1>2, <2>2, <3>1
  <2>5. o.answer # "ok" => Fwum!Stop
    BY <2>1
  <2>6. \/ o.answer = "ok" /\ executed' = Append(executed, Fwum!Plan[confirmed + 1]) /\ confirmed' = confirmed + 1
        \/ /\ o.answer # "ok" /\ (executed' = Append(executed, Fwum!Plan[confirmed + 1]) \/ executed' = executed)
           /\ confirmed' = confirmed /\ phase' = "Interrupted" /\ pc' = "clear"
    BY <2>1, <2>4, <2>5, FwumAnswers
  <2>7. ASSUME o.answer = "ok" PROVE FwumCount'
    <3>1. confirmed_bytes' = Ends(confirmed_bytes) /\ pc' \in {"save", "cancelled"} /\ phase' = "Uploading"
      BY <2>1, <2>2, <2>7 DEF Ends
    <3>2. confirmed' = (m + 1) + Rank(confirmed_bytes')
      BY <1>1, <2>2, <2>3, <2>6, <2>7, <3>1
    <3>3. confirmed' = (Len(Fwum!Buffers)' + 1) + Rank(confirmed_bytes')
      BY <1>1, <1>a, <3>2
    <3> QED
      BY <2>3, <3>1, <3>3 DEF FwumCount, Rank
  <2>8. ~Fwum!Halted
    BY <2>2 DEF Fwum!Halted
  <2> QED
    BY <1>3, <2>4, <2>6, <2>7, <2>8
<1>7. CASE Fwum!FinishImage
  <2>1. PICK o \in Fwum!Outcomes : Fwum!Sent(o, Fwum!Write("finish", 0, 0)) /\ Fwum!StopOrElse(o.answer = "ok", "read")
    BY <1>7 DEF Fwum!FinishImage
  <2>2. pc = "save" /\ phase = "Uploading" /\ confirmed = (m + 1) + Many
    <3>1. pc = "save" /\ confirmed_bytes = Length /\ phase = "Uploading"
      BY <1>7 DEF Fwum!FinishImage, FwumPhases
    <3> QED
      BY <1>a, <3>1, Ranks DEF FwumCount, Many
  <2>3. Fwum!Plan[confirmed + 1] = Fwum!Write("finish", 0, 0) /\ confirmed < Len(Fwum!Plan) /\ ~Fwum!Halted
    BY <1>1, <1>2, <2>2 DEF Fwum!Halted
  <2>4. o.answer # "ok" => Fwum!Stop
    BY <2>1 DEF Fwum!StopOrElse
  <2>5. \/ o.answer = "ok" /\ executed' = Append(executed, Fwum!Plan[confirmed + 1]) /\ confirmed' = confirmed + 1
        \/ /\ o.answer # "ok" /\ (executed' = Append(executed, Fwum!Plan[confirmed + 1]) \/ executed' = executed)
           /\ confirmed' = confirmed /\ phase' = "Interrupted" /\ pc' = "clear"
    BY <2>1, <2>3, <2>4, FwumAnswers
  <2>6. ASSUME o.answer = "ok" PROVE FwumCount'
    <3>1. pc' = "read" /\ phase' = "Uploading" /\ confirmed' = SavedAt' + 1
      BY <1>1, <2>1, <2>2, <2>5, <2>6 DEF Fwum!StopOrElse, Fwum!Stop
    <3> QED
      BY <3>1 DEF FwumCount
  <2> QED
    BY <1>3, <2>3, <2>5, <2>6
<1>8. CASE Fwum!StartUpdate
  <2>1. PICK o \in Fwum!Outcomes :
         /\ Fwum!Sent(o, Fwum!Write("activate", 0, 0))
         /\ \/ o.answer = "ok" /\ phase' = "ActivationRequested" /\ pc' = "ready"
            \/ o.answer # "ok" /\ Fwum!Stop
    BY <1>8 DEF Fwum!StartUpdate
  <2>2. pc = "activate" /\ phase = "Staged" /\ confirmed = ((m + 1) + Many) + 1
    BY <1>1, <1>8 DEF Fwum!StartUpdate, FwumPhases, FwumCount
  <2>3. Fwum!Plan[confirmed + 1] = Fwum!Write("activate", 0, 0) /\ confirmed < Len(Fwum!Plan) /\ ~Fwum!Halted
    <3>1. confirmed + 1 = ((m + 1) + Many) + 2 /\ confirmed < ((m + 1) + Many) + 2
      BY <1>1, <2>2
    <3> QED
      BY <1>2, <2>2, <3>1 DEF Fwum!Halted
  <2>4. o.answer # "ok" => Fwum!Stop
    BY <2>1
  <2>5. \/ o.answer = "ok" /\ executed' = Append(executed, Fwum!Plan[confirmed + 1]) /\ confirmed' = confirmed + 1
        \/ /\ o.answer # "ok" /\ (executed' = Append(executed, Fwum!Plan[confirmed + 1]) \/ executed' = executed)
           /\ confirmed' = confirmed /\ phase' = "Interrupted" /\ pc' = "clear"
    BY <2>1, <2>3, <2>4, FwumAnswers
  <2>6. ASSUME o.answer = "ok" PROVE FwumCount'
    <3>1. pc' = "ready" /\ phase' = "ActivationRequested" /\ confirmed' = SavedAt' + 2
      BY <1>1, <2>1, <2>2, <2>5, <2>6 DEF Fwum!Stop
    <3> QED
      BY <3>1 DEF FwumCount
  <2> QED
    BY <1>3, <2>3, <2>5, <2>6
<1> QED
  BY <1>4, <1>5, <1>6, <1>7, <1>8

(* What the phases say is so: the bank written is the spare one, and what  *)
(* is read of it stays so until the next command.                          *)
Early == {"Preparing", "Prepared", "Uploading", "Staged"}
Late == {"ActivationRequested", "Activated"}
Updated == [state |-> "good", holds |-> "image"]
FwumReports ==
    /\ confirmed_bytes \in Nat /\ saved \in Nat /\ saved - confirmed_bytes \in 0..Capacity
    /\ phase # "Interrupted" => saved = confirmed_bytes
    /\ phase \in {"Uploading", "Staged", "ActivationRequested", "Activated"} => bank = Fwum!Spare
    /\ phase \in Early => booting = "no" /\ banks[Fwum!Spare].state # "good"
    /\ phase \in Late /\ banks[Fwum!Spare].state = "good" => booting = "no"
    /\ seen \in Seq(BankStatuses)
    /\ phase = "ActivationRequested" /\ pc = "read" =>
         (Fwum!Spare <= Len(seen) /\ seen[Fwum!Spare].state = "good" => banks[Fwum!Spare] = seen[Fwum!Spare])
    /\ phase = "Activated" => banks[Fwum!Spare] = Updated

\* Steps that leave the banks alone.
LEMMA FwumReportsKept ==
  ASSUME FwumReports, UNCHANGED <<old_good_bank, banks, booting, saved, confirmed_bytes, bank>>,
         UNCHANGED phase \/ phase' = "Interrupted" \/ (phase' \in Early /\ phase \in Early /\ (phase' \in {"Uploading", "Staged"} => phase = "Uploading"))
           \/ (phase' \in {"RollbackRequested", "RolledBack"} /\ phase # "Interrupted"),
         phase' = "ActivationRequested" /\ pc' = "read" => UNCHANGED <<phase, pc, seen>> \/ seen' = <<>>,
         UNCHANGED seen \/ seen' = <<>>
  PROVE  FwumReports'
<1>1. Fwum!Spare' = Fwum!Spare
  BY DEF Fwum!Spare
<1>2. \/ UNCHANGED phase 
      \/ phase' \in {"Interrupted", "RollbackRequested", "RolledBack"}
      \/ phase' \in Early /\ phase \in Early /\ (phase' \in {"Uploading", "Staged"} => phase = "Uploading")
  OBVIOUS
<1>3. /\ confirmed_bytes' \in Nat /\ saved' \in Nat /\ saved' - confirmed_bytes' \in 0..Capacity
      /\ phase' # "Interrupted" => saved' = confirmed_bytes'
  BY <1>2 DEF FwumReports, Early
<1>4. phase' \in {"Uploading", "Staged", "ActivationRequested", "Activated"} => bank' = Fwum!Spare'
  BY <1>1, <1>2 DEF FwumReports, Early
<1>5. /\ phase' \in Early => booting' = "no" /\ banks'[Fwum!Spare'].state # "good"
      /\ phase' \in Late /\ banks'[Fwum!Spare'].state = "good" => booting' = "no"
      /\ phase' = "Activated" => banks'[Fwum!Spare'] = Updated
  BY <1>1, <1>2 DEF FwumReports, Early, Late
<1>6. phase' = "ActivationRequested" /\ pc' = "read" =>
         (Fwum!Spare' <= Len(seen') /\ seen'[Fwum!Spare'].state = "good" => banks'[Fwum!Spare'] = seen'[Fwum!Spare'])
  <2>1. CASE UNCHANGED <<phase, pc, seen>>
    BY <1>1, <2>1 DEF FwumReports
  <2>2. CASE seen' = <<>>
    <3>1. Len(seen') = 0
      BY <2>2
    <3>2. ~(Fwum!Spare <= 0)
      <4>1. Fwum!Spare \in {1, 2}
        BY DEF Fwum!Spare, Fwum!Banks
      <4> QED
        BY <4>1
    <3> QED
      BY <1>1, <3>1, <3>2
  <2> QED
    BY <2>1, <2>2
<1>7. seen' \in Seq(BankStatuses)
  BY EmptySeq DEF FwumReports
<1> QED
  BY <1>3, <1>4, <1>5, <1>6, <1>7 DEF FwumReports

LEMMA TwoBanks == Fwum!Cardinality(Fwum!Banks) = 2
<1>1. Fwum!Banks = {1} \union {2} /\ 2 \notin {1}
  BY DEF Fwum!Banks
<1>2. IsFiniteSet({1}) /\ Cardinality({1}) = 1
  BY FS_Singleton
<1>3. Cardinality({1} \union {2}) = 2
  BY <1>1, <1>2, FS_AddElement
<1>4. Fwum!Cardinality(Fwum!Banks) = Cardinality(Fwum!Banks)
  BY Zenon DEF Fwum!Cardinality, Cardinality
<1> QED
  BY <1>1, <1>3, <1>4

\* What is reported of the step that reads the banks, and judges them.
LEMMA FwumReportsRead ==
  ASSUME FwumInv, FwumPhases, FwumPhases', FwumReports,
         Fwum!ReadBank \/ Fwum!ReadFails \/ Fwum!Judge
  PROVE  FwumReports'
<1>0. Fwum!Spare \in Fwum!Banks \ {old_good_bank} /\ Fwum!Spare' = Fwum!Spare
  <2>1. old_good_bank' = old_good_bank
    BY FwumFixed DEF Fwum!Next
  <2> QED
    BY <2>1, FwumSpare DEF FwumInv, Fwum!Spare
<1>1. CASE Fwum!ReadBank
  <2>1. /\ pc = "read" /\ Len(seen) < 2 /\ seen' = Append(seen, banks[Len(seen) + 1])
        /\ UNCHANGED <<pc, phase, banks, booting, saved, confirmed_bytes, bank>>
    BY <1>1, TwoBanks DEF Fwum!ReadBank, Fwum!transfer, Fwum!bmc
  <2>2. seen \in Seq(BankStatuses) /\ Len(seen) \in Nat
    BY LenProperties DEF FwumReports
  <2>3. banks[Len(seen) + 1] \in BankStatuses
    <3>1. Len(seen) + 1 \in Fwum!Banks
      BY <2>1, <2>2 DEF Fwum!Banks
    <3> QED
      BY <3>1 DEF FwumInv
  <2>4. /\ seen' \in Seq(BankStatuses) /\ Len(seen') = Len(seen) + 1
        /\ \A i \in 1..Len(seen) : seen'[i] = seen[i]
        /\ seen'[Len(seen) + 1] = banks[Len(seen) + 1]
    BY <2>1, <2>2, <2>3, AppendProperties
  <2>5. ASSUME phase = "ActivationRequested", Fwum!Spare <= Len(seen'), seen'[Fwum!Spare].state = "good"
        PROVE  banks[Fwum!Spare] = seen'[Fwum!Spare]
    <3>1. Fwum!Spare \in Nat \ {0}
      BY <1>0 DEF Fwum!Banks
    <3>2. CASE Fwum!Spare = Len(seen) + 1
      BY <2>4, <3>2
    <3>3. CASE Fwum!Spare \in 1..Len(seen)
      BY <2>1, <2>2, <2>4, <2>5, <3>3 DEF FwumReports
    <3> QED
      BY <2>2, <2>4, <2>5, <3>1, <3>2, <3>3
  <2> QED
    BY <1>0, <2>1, <2>4, <2>5 DEF FwumReports
<1>2. CASE Fwum!ReadFails
  <2>1. /\ UNCHANGED <<old_good_bank, banks, booting, saved, confirmed_bytes, bank, seen>>
        /\ pc' # "read" /\ (phase' = phase \/ phase' = "Interrupted")
    BY <1>2 DEF Fwum!ReadFails, Fwum!Stop, Fwum!plans, Fwum!bmc
  <2> QED
    BY <2>1, FwumReportsKept
<1>3. CASE Fwum!Judge
  <2>1. /\ UNCHANGED <<old_good_bank, banks, booting, saved, confirmed_bytes, bank, seen>>
        /\ pc = "read" /\ Len(seen) = 2
    BY <1>3, TwoBanks DEF Fwum!Judge, Fwum!plans, Fwum!bmc
  <2>2. \/ /\ phase' = phase \/ phase' = "Interrupted" \/ (phase = "Preparing" /\ phase' = "Prepared")
             \/ (phase = "RollbackRequested" /\ phase' = "RolledBack")
           /\ pc' # "read"
        \/ phase = "ActivationRequested" /\ phase' = "Activated" /\ Fwum!NewGood /\ pc' = "ready"
    <3>0. goal \in Goals
      BY DEF FwumInv
    <3>1. CASE goal = "prepare"
      BY <1>3, <2>1, <3>1 DEF FwumPhases, Fwum!Judge, Fwum!Prepare
    <3>2. CASE goal \in {"stage", "finish", "activate", "rollback"}
      <4>1. /\ goal = "stage" => Fwum!StopOrElse(seen = Fwum!Baseline, "buffers")
            /\ goal = "finish" => Fwum!StopOrElse(Fwum!StagedSeen, "clear")
            /\ goal = "activate" => Fwum!StopOrElse(Fwum!StagedSeen, "activate")
            /\ goal = "rollback" => Fwum!StopOrElse(Fwum!OldKept /\ Fwum!NewGood, "rollback")
        <5>1. CASE goal = "stage"
          BY <1>3, <5>1 DEF Fwum!Judge
        <5>2. CASE goal = "finish"
          BY <1>3, <5>2 DEF Fwum!Judge
        <5>3. CASE goal = "activate"
          BY <1>3, <5>3 DEF Fwum!Judge
        <5>4. CASE goal = "rollback"
          BY <1>3, <5>4 DEF Fwum!Judge
        <5> QED
          BY <3>2, <5>1, <5>2, <5>3, <5>4
      <4> QED
        BY <3>2, <4>1 DEF Fwum!StopOrElse, Fwum!Stop
    <3>3. CASE goal = "verify_activation"
      BY <1>3, <2>1, <3>3 DEF FwumPhases, Fwum!Judge, Fwum!VerifyActivation, Fwum!Stop
    <3>4. CASE goal = "verify_rollback"
      BY <1>3, <2>1, <3>4 DEF FwumPhases, Fwum!Judge, Fwum!VerifyRollback
    <3> QED
      BY <3>0, <3>1, <3>2, <3>3, <3>4 DEF Goals
  <2>3. CASE phase = "ActivationRequested" /\ phase' = "Activated" /\ Fwum!NewGood /\ pc' = "ready"
    <3>1. seen[Fwum!Spare] = Updated /\ Fwum!Spare <= Len(seen)
      <4>1. bank = Fwum!Spare
        BY <2>3 DEF FwumReports
      <4>2. Fwum!Spare <= 2
        BY <1>0 DEF Fwum!Banks
      <4> QED
        BY <2>1, <2>3, <4>1, <4>2 DEF Fwum!NewGood, Fwum!Status, Fwum!Image, Updated
    <3>2. banks[Fwum!Spare] = Updated /\ booting = "no"
      BY <2>1, <2>3, <3>1 DEF FwumReports, Updated, Late
    <3> QED
      BY <1>0, <2>1, <2>3, <3>2 DEF FwumReports, Early, Late
  <2>4. CASE phase' = phase \/ phase' = "Interrupted" \/ (phase = "Preparing" /\ phase' = "Prepared")
             \/ (phase = "RollbackRequested" /\ phase' = "RolledBack")
    <3>1. pc' # "read"
      BY <2>2, <2>4
    <3> QED
      BY <2>1, <2>4, <3>1, FwumReportsKept DEF Early
  <2> QED
    BY <2>2, <2>3, <2>4
<1> QED
  BY <1>1, <1>2, <1>3

\* The steps that neither read, write nor boot a bank.
LEMMA FwumReportsQuiet ==
  ASSUME FwumInv, FwumPhases, FwumPhases', FwumReports,
         \/ Fwum!Call \/ Fwum!GatewayFails \/ Fwum!SetNextBuffer \/ Fwum!Cancel
         \/ Fwum!ClearBuffer \/ Fwum!Cleared
  PROVE  FwumReports'
<1>1. UNCHANGED <<old_good_bank, banks, booting, saved, confirmed_bytes, bank>>
  BY DEF Fwum!Call, Fwum!GatewayFails, Fwum!SetNextBuffer, Fwum!Cancel, Fwum!ClearBuffer, Fwum!Cleared,
         Fwum!plans, Fwum!bmc
<1>2. CASE Fwum!Call
  <2>1. UNCHANGED phase /\ seen' = <<>>
    BY <1>2 DEF Fwum!Call
  <2> QED
    BY <1>1, <2>1, FwumReportsKept
<1>3. CASE Fwum!GatewayFails \/ Fwum!Cancel
  <2>1. UNCHANGED seen /\ phase' = "Interrupted"
    BY <1>3 DEF Fwum!GatewayFails, Fwum!Cancel, Fwum!Stop
  <2> QED
    BY <1>1, <2>1, FwumReportsKept
<1>4. CASE Fwum!SetNextBuffer
  <2>1. UNCHANGED seen /\ (phase' = "Interrupted" \/ (phase' = phase /\ pc' = pc))
    BY <1>4 DEF Fwum!SetNextBuffer, Fwum!StopOrElse, Fwum!Stop
  <2> QED
    BY <1>1, <2>1, FwumReportsKept
<1>5. CASE Fwum!ClearBuffer
  <2>1. UNCHANGED <<phase, pc, seen>>
    BY <1>5 DEF Fwum!ClearBuffer
  <2> QED
    BY <1>1, <2>1, FwumReportsKept
<1>6. CASE Fwum!Cleared
  <2>1. UNCHANGED seen /\ pc' = "ready" /\ (phase' \in {phase, "Interrupted"} \/ (phase = "Uploading" /\ phase' = "Staged"))
    BY <1>6 DEF Fwum!Cleared, Fwum!Staged
  <2> QED
    BY <1>1, <2>1, FwumReportsKept DEF Early
<1> QED
  BY <1>2, <1>3, <1>4, <1>5, <1>6

\* Those that write the spare bank, or boot it.
LEMMA FwumReportsWrite ==
  ASSUME FwumInv, FwumPhases, FwumPhases', FwumCount, FwumReports,
         Fwum!StartImage \/ Fwum!SaveImage \/ Fwum!FinishImage \/ Fwum!StartUpdate \/ Fwum!ManualRollback
  PROVE  FwumReports'
<1>0. /\ Fwum!Spare \in Fwum!Banks \ {old_good_bank} /\ Fwum!Spare' = Fwum!Spare
      /\ old_good_bank \in Fwum!Banks /\ \A b \in Fwum!Banks : b = old_good_bank \/ b = Fwum!Spare
  <2>1. old_good_bank' = old_good_bank
    BY FwumFixed DEF Fwum!Next
  <2>2. Fwum!Spare \in Fwum!Banks \ {old_good_bank} /\ old_good_bank \in Fwum!Banks
    BY FwumSpare DEF FwumInv
  <2>3. \A b \in Fwum!Banks : b = old_good_bank \/ b = Fwum!Spare
    BY <2>2 DEF Fwum!Banks
  <2> QED
    BY <2>1, <2>2, <2>3 DEF Fwum!Spare
<1>1. CASE Fwum!StartImage
  <2>1. PICK o \in Fwum!Outcomes, b \in Fwum!Banks \union {Fwum!NoBank} :
         \/ /\ ~Fwum!Unfit(b) /\ bank' = b /\ phase' = "Uploading" /\ pc' \in {"save", "cancelled"}
         \/ Fwum!Stop /\ UNCHANGED bank
    BY <1>1 DEF Fwum!StartImage
  <2>2. UNCHANGED <<old_good_bank, banks, booting, saved, confirmed_bytes, seen>> /\ phase = "Prepared"
    BY <1>1 DEF Fwum!StartImage, Fwum!plans, FwumPhases
  <2>3. CASE Fwum!Stop /\ UNCHANGED bank
    BY <2>2, <2>3, FwumReportsKept DEF Fwum!Stop
  <2>4. CASE ~Fwum!Unfit(b) /\ bank' = b /\ phase' = "Uploading" /\ pc' \in {"save", "cancelled"}
    <3>1. bank' = Fwum!Spare
      BY <1>0, <2>4 DEF Fwum!Unfit
    <3> QED
      BY <1>0, <2>2, <2>4, <3>1 DEF FwumReports, Early, Late
  <2> QED
    BY <2>1, <2>3, <2>4
<1>2. CASE Fwum!SaveImage
  <2> DEFINE n == Fwum!Count(confirmed_bytes)
  <2>1. PICK o \in Fwum!Outcomes :
            /\ saved' = IF o.carried THEN saved + n ELSE saved
            /\ banks' = IF o.carried THEN [banks EXCEPT ![open] = Fwum!Status("other", "partial")] ELSE banks
            /\ \/ /\ o.answer = "ok"
                  /\ confirmed_bytes' = confirmed_bytes + n
                  /\ pc' \in {"save", "cancelled"} /\ UNCHANGED phase
               \/ /\ o.answer # "ok"
                  /\ Fwum!Stop /\ UNCHANGED confirmed_bytes
    BY <1>2 DEF Fwum!SaveImage
  <2>2. /\ UNCHANGED <<bank, seen, booting>> /\ phase = "Uploading" /\ pc = "save" /\ confirmed_bytes < Length
        /\ confirmed_bytes \in Nat /\ saved = confirmed_bytes /\ booting = "no" /\ open = Fwum!Spare
    <3>1. open \in Fwum!Banks \ {old_good_bank}
      BY <1>2 DEF Fwum!SaveImage, FwumInv
    <3> QED
      BY <1>0, <1>2, <3>1 DEF Fwum!SaveImage, FwumPhases, FwumReports, Early
  <2>3. n \in 1..Capacity /\ Capacity \in Nat
    BY <2>2, CountIs, SizesAssumption
  <2> HIDE DEF n
  <2>4. banks'[Fwum!Spare].state # "good"
    <3>1. CASE o.carried
      BY <1>0, <2>1, <2>2, <3>1 DEF Fwum!Status, FwumInv
    <3>2. CASE ~o.carried
      BY <2>1, <2>2, <3>2 DEF FwumReports, Early
    <3> QED
      BY <3>1, <3>2
  <2>5. CASE o.answer = "ok"
    <3>1. saved' = saved + n /\ confirmed_bytes' = confirmed_bytes + n /\ phase' = "Uploading"
      BY <2>1, <2>2, <2>5 DEF Fwum!Outcomes
    <3>2. confirmed_bytes' \in Nat /\ saved' = confirmed_bytes'
      BY <2>2, <2>3, <3>1
    <3> QED
      BY <1>0, <2>2, <2>3, <2>4, <3>1, <3>2 DEF FwumReports, Early, Late
  <2>6. CASE o.answer # "ok"
    <3>1. (saved' = saved + n \/ saved' = saved) /\ confirmed_bytes' = confirmed_bytes /\ phase' = "Interrupted"
      BY <2>1, <2>2, <2>6 DEF Fwum!Stop
    <3>2. saved' \in Nat /\ saved' - confirmed_bytes' \in 0..Capacity
      BY <2>2, <2>3, <3>1
    <3> QED
      BY <2>2, <3>1, <3>2 DEF FwumReports, Early, Late
  <2> QED
    BY <2>5, <2>6
<1>3. CASE Fwum!FinishImage
  <2>1. PICK o \in Fwum!Outcomes :
         /\ IF o.carried
            THEN banks' = [banks EXCEPT ![open] = Fwum!Status("new", IF saved = Length THEN Fwum!Image ELSE "partial")]
            ELSE UNCHANGED banks
         /\ Fwum!StopOrElse(o.answer = "ok", "read")
    BY <1>3 DEF Fwum!FinishImage
  <2>2. /\ UNCHANGED <<bank, booting, saved, confirmed_bytes>> /\ phase = "Uploading" /\ seen' = <<>>
        /\ booting = "no" /\ open = Fwum!Spare
    <3>1. open \in Fwum!Banks \ {old_good_bank}
      BY <1>3 DEF Fwum!FinishImage, FwumInv
    <3> QED
      BY <1>0, <1>3, <3>1 DEF Fwum!FinishImage, FwumPhases, FwumReports, Early
  <2>4. banks'[Fwum!Spare].state # "good"
    <3>1. CASE o.carried
      BY <1>0, <2>1, <2>2, <3>1 DEF Fwum!Status, FwumInv
    <3>2. CASE ~o.carried
      BY <2>1, <2>2, <3>2 DEF FwumReports, Early
    <3> QED
      BY <3>1, <3>2
  <2>5. phase' \in {"Uploading", "Interrupted"}
    BY <2>1, <2>2 DEF Fwum!StopOrElse, Fwum!Stop
  <2> QED
    BY <1>0, <2>2, <2>4, <2>5, EmptySeq DEF FwumReports, Early, Late
<1>4. CASE Fwum!StartUpdate
  <2>1. /\ UNCHANGED <<bank, saved, confirmed_bytes, banks, seen>> /\ phase = "Staged"
        /\ (phase' = "ActivationRequested" /\ pc' = "ready") \/ phase' = "Interrupted"
    BY <1>4 DEF Fwum!StartUpdate, Fwum!Stop, FwumPhases
  <2> QED
    BY <1>0, <2>1 DEF FwumReports, Early, Late
<1>5. CASE Fwum!ManualRollback
  <2>1. /\ UNCHANGED <<bank, saved, confirmed_bytes, banks, seen>> /\ phase = "Activated"
        /\ phase' \in {"RollbackRequested", "Interrupted"}
    BY <1>5 DEF Fwum!ManualRollback, Fwum!Stop, FwumPhases
  <2> QED
    BY <1>0, <2>1 DEF FwumReports, Early, Late
<1> QED
  BY <1>1, <1>2, <1>3, <1>4, <1>5

\* The BMC boots, or another console writes the spare bank.
LEMMA FwumReportsOther ==
  ASSUME FwumInv, FwumPhases, FwumReports, Fwum!Boot \/ Fwum!Meddle
  PROVE  FwumReports'
<1>0. /\ Fwum!Spare \in Fwum!Banks \ {old_good_bank} /\ Fwum!Spare' = Fwum!Spare
  <2>1. old_good_bank' = old_good_bank
    BY FwumFixed DEF Fwum!Next
  <2> QED
    BY <2>1, FwumSpare DEF FwumInv, Fwum!Spare
<1>1. UNCHANGED <<pc, phase, bank, saved, confirmed_bytes, seen>>
  BY DEF Fwum!Boot, Fwum!Meddle, Fwum!transfer, Fwum!session
<1>2. CASE Fwum!Boot
  <2>1. booting # "no" /\ booting' = "no"
    BY <1>2 DEF Fwum!Boot
  <2>2. phase \notin Early /\ (phase \in Late => banks[Fwum!Spare].state # "good")
    BY <2>1 DEF FwumReports
  <2>3. phase # "Activated"
    BY <2>2 DEF FwumReports, Late, Updated
  <2>4. phase = "ActivationRequested" /\ pc = "read" /\ Fwum!Spare <= Len(seen) => seen[Fwum!Spare].state # "good"
    BY <2>2 DEF FwumReports, Late
  <2> QED
    BY <1>0, <1>1, <2>1, <2>2, <2>3, <2>4 DEF FwumReports
<1>3. CASE Fwum!Meddle
  <2>1. /\ UNCHANGED booting /\ banks[Fwum!Spare].state # "good"
        /\ banks' = [banks EXCEPT ![Fwum!Spare] = Fwum!Status("new", "foreign")]
    BY <1>3 DEF Fwum!Meddle
  <2>2. banks'[Fwum!Spare].state # "good"
    BY <1>0, <2>1 DEF FwumInv, Fwum!Status
  <2>3. phase # "Activated"
    BY <2>1 DEF FwumReports, Updated
  <2>4. phase = "ActivationRequested" /\ pc = "read" /\ Fwum!Spare <= Len(seen) => seen[Fwum!Spare].state # "good"
    BY <2>1 DEF FwumReports
  <2> QED
    BY <1>0, <1>1, <2>1, <2>2, <2>3, <2>4 DEF FwumReports
<1> QED
  BY <1>2, <1>3

\* The whole of it.
FwumPlace == FwumPhases /\ FwumCount /\ FwumReports

LEMMA FwumSends ==
  ASSUME program = "fwum", program' = program, FwumInv, FwumPlace, Fwum!Next
  PROVE  FwumPlace' /\ [Promise!Next]_Promise!vars
<1>1. /\ Plan = Fwum!Plan /\ Plan' = Fwum!Plan'
      /\ (Halted <=> Fwum!Halted) /\ (Halted' <=> Fwum!Halted')
  BY PlanOf DEF OwnPlan
<1>2. Plan' = Plan
  BY <1>1, FwumFixed
<1>3. FwumPhases'
  BY FwumPhasesStep DEF FwumPlace
<1>4. FwumReports'
  BY <1>3, FwumReportsRead, FwumReportsQuiet, FwumReportsWrite, FwumReportsOther DEF FwumPlace, Fwum!Next
<1>5. CASE \/ Fwum!Call \/ Fwum!ReadBank \/ Fwum!ReadFails \/ Fwum!Judge \/ Fwum!GatewayFails \/ Fwum!Cancel
           \/ Fwum!ClearBuffer \/ Fwum!Cleared \/ Fwum!Boot \/ Fwum!Meddle
  <2>1. FwumCount' /\ UNCHANGED <<executed, confirmed>> /\ (Fwum!Halted => Fwum!Halted')
    BY <1>3, <1>5, FwumQuiet DEF FwumPlace
  <2> QED
    BY <1>1, <1>2, <1>3, <1>4, <2>1, Quiet DEF FwumPlace
<1>6. CASE Fwum!SetNextBuffer \/ Fwum!StartImage \/ Fwum!SaveImage \/ Fwum!FinishImage \/ Fwum!StartUpdate
  <2>1. /\ FwumCount' /\ ~Fwum!Halted /\ confirmed < Len(Fwum!Plan)
        /\ \/ executed' = Append(executed, Fwum!Plan[confirmed + 1]) /\ confirmed' = confirmed + 1
           \/ /\ executed' = Append(executed, Fwum!Plan[confirmed + 1]) \/ executed' = executed
              /\ confirmed' = confirmed /\ Fwum!Halted'
    BY <1>3, <1>6, FwumSending DEF FwumPlace
  <2> QED
    BY <1>1, <1>2, <1>3, <1>4, <2>1, Sending DEF FwumPlace
<1>7. CASE Fwum!ManualRollback
  <2>1. /\ executed' = Append(executed, [op |-> "rollback"]) \/ executed' = executed
        /\ confirmed' = confirmed /\ phase' \in {"RollbackRequested", "Interrupted"}
        /\ phase = "Activated" /\ pc' # "buffers" /\ pc' \notin {"save", "cancelled"}
    BY <1>7 DEF Fwum!ManualRollback, Fwum!Undo, Fwum!Stop, FwumPlace, FwumPhases
  <2>2. FwumCount'
    BY <2>1 DEF FwumCount
  <2>3. ~Halted /\ Halted' = TRUE
    <3>1. ~Halted /\ Halted'
      BY <1>1, <2>1 DEF Fwum!Halted
    <3> QED
      BY <3>1, HaltedIs, Zenon DEF Ended
  <2> QED
    BY <1>2, <1>3, <1>4, <2>1, <2>2, <2>3 DEF FwumPlace, Promise!Next, Promise!Undone, Promise!Stopped
<1> QED
  BY <1>5, <1>6, <1>7 DEF Fwum!Next

\* What it means for the caller.
LEMMA FwumMeans ==
  ASSUME program = "fwum", FwumPlace, AsPlanned
  PROVE  /\ phase = "Staged" => executed = SubSeq(Plan, 1, Len(Plan) - 1)
         /\ phase = "Activated" /\ ~meddled => banks[Fwum!Spare] = Fwum!Status("good", "image")
         /\ saved - confirmed_bytes \in 0 .. Capacity
<1>1. phase = "Activated" => banks[Fwum!Spare] = Fwum!Status("good", "image")
  BY DEF FwumPlace, FwumReports, Updated, Fwum!Status
<1>2. saved - confirmed_bytes \in 0 .. Capacity
  BY DEF FwumPlace, FwumReports
<1>3. ASSUME phase = "Staged" PROVE executed = SubSeq(Plan, 1, Len(Plan) - 1)
  <2>1. Plan = Fwum!Plan /\ ~Halted
    BY <1>3, PlanOf DEF OwnPlan, Fwum!Halted
  <2>2. /\ confirmed \in Nat /\ executed \in Seq(Items) /\ Len(executed) = confirmed
        /\ \A i \in 1..confirmed : executed[i] = Plan[i]
    BY <2>1 DEF AsPlanned
  <2> DEFINE m == Len(Fwum!Buffers)
  <2>3. m = Len(Fwum!Buffers)
    OBVIOUS
  <2>4. confirmed = ((m + 1) + Many) + 1
    BY <1>3 DEF FwumPlace, FwumCount, SavedAt
  <2> HIDE DEF m
  <2>5. Plan \in Seq(FwumItems) /\ Len(Plan) = ((m + 1) + Many) + 2 /\ m \in Nat /\ Many \in Nat
    BY <2>1, <2>3, FwumPlan
  <2>6. Len(Plan) \in Nat /\ Len(Plan) - 1 = confirmed /\ confirmed <= Len(Plan)
    BY <2>4, <2>5
  <2> DEFINE part == SubSeq(Plan, 1, confirmed)
  <2>7. /\ part \in Seq(FwumItems) /\ Len(part) = confirmed
        /\ \A i \in 1..confirmed : part[i] = Plan[i]
    BY <2>2, <2>5, <2>6, SubSeqProperties
  <2>8. executed = [i \in 1..confirmed |-> Plan[i]]
    BY <2>2, LenProperties
  <2> HIDE DEF part
  <2>9. part = [i \in 1..confirmed |-> Plan[i]]
    BY <2>7, LenProperties
  <2>10. executed = part
    BY <2>8, <2>9
  <2> QED
    BY <2>6, <2>10 DEF part
<1> QED
  BY <1>1, <1>2, <1>3

-----------------------------------------------------------------------------
\* What an upload sends of its image: chunks of one size, the last of what
\* is left.
ChunksOf(n) == (n + ChunkSize - 1) \div ChunkSize
HpmAt(n, j) == IF j = ChunksOf(n) THEN n ELSE j * ChunkSize

LEMMA HpmChunks ==
  ASSUME NEW n \in Nat
  PROVE  /\ ChunksOf(n) \in Nat /\ HpmAt(n, 0) = 0
         /\ \A j \in 0..ChunksOf(n) : HpmAt(n, j) \in 0..n /\ (HpmAt(n, j) = n <=> j = ChunksOf(n))
         /\ \A j \in 0..(ChunksOf(n) - 1) :
              /\ HpmAt(n, j) = j * ChunkSize
              /\ HpmAt(n, j + 1) = HpmAt(n, j) + Hpm!BlockLength(n, HpmAt(n, j))
              /\ Hpm!BlockLength(n, HpmAt(n, j)) = IF (j + 1) * ChunkSize <= n THEN ChunkSize ELSE n % ChunkSize
<1> USE SizesAssumption
<1> DEFINE c == ChunksOf(n)
<1>1. c = (n + ChunkSize - 1) \div ChunkSize /\ c \in Int
  BY DEF ChunksOf
<1>2. c * ChunkSize <= n + ChunkSize - 1 /\ n + ChunkSize - 1 < c * ChunkSize + ChunkSize
  BY <1>1
<1>c. c = ChunksOf(n)
  OBVIOUS
<1> HIDE DEF c
<1>3. c \in Nat /\ c * ChunkSize \in Int /\ c * ChunkSize >= n
  BY <1>1, <1>2
<1>4. ASSUME NEW j \in 0..(c - 1) PROVE j * ChunkSize \in Nat /\ j * ChunkSize < n
  <2>1. j * ChunkSize <= (c - 1) * ChunkSize
    BY <1>3
  <2>2. (c - 1) * ChunkSize = c * ChunkSize - ChunkSize /\ (c - 1) * ChunkSize \in Int /\ j * ChunkSize \in Nat
    BY <1>3
  <2> QED
    BY <1>2, <1>3, <2>1, <2>2
<1>5. ASSUME NEW j \in 0..c PROVE HpmAt(n, j) \in 0..n /\ (HpmAt(n, j) = n <=> j = c)
  <2>1. CASE j = c
    BY <1>c, <2>1 DEF HpmAt
  <2>2. CASE j # c
    <3>1. j \in 0..(c - 1)
      BY <1>3, <2>2
    <3>2. j * ChunkSize \in Nat /\ j * ChunkSize < n
      BY <1>4, <3>1
    <3> QED
      BY <1>c, <2>2, <3>2 DEF HpmAt
  <2> QED
    BY <2>1, <2>2
<1>6. ASSUME NEW j \in 0..(c - 1)
      PROVE  /\ HpmAt(n, j) = j * ChunkSize
             /\ HpmAt(n, j + 1) = HpmAt(n, j) + Hpm!BlockLength(n, HpmAt(n, j))
             /\ Hpm!BlockLength(n, HpmAt(n, j)) = IF (j + 1) * ChunkSize <= n THEN ChunkSize ELSE n % ChunkSize
  <2> DEFINE p == j * ChunkSize
             s == (j + 1) * ChunkSize
  <2>1. p \in Nat /\ p < n
    BY <1>4
  <2>2. s = p + ChunkSize /\ j \in Nat /\ j + 1 \in 1..c
    BY <1>3
  <2>3. HpmAt(n, j) = p
    BY <1>3, <1>c DEF HpmAt
  <2>9. p = ChunkSize * j
    BY <1>3
  <2>s. s = (j + 1) * ChunkSize
    OBVIOUS
  <2>p. p = j * ChunkSize
    OBVIOUS
  <2> HIDE DEF p, s
  <2>4. Hpm!BlockLength(n, HpmAt(n, j)) = IF n - p < ChunkSize THEN n - p ELSE ChunkSize
    BY <2>3 DEF Hpm!BlockLength
  <2>5. CASE s <= n
    <3>1. Hpm!BlockLength(n, HpmAt(n, j)) = ChunkSize
      BY <2>1, <2>2, <2>4, <2>5
    <3>2. HpmAt(n, j + 1) = s
      <4>1. CASE j + 1 = c
        <5>1. s = c * ChunkSize
          BY <2>s, <4>1
        <5>2. HpmAt(n, j + 1) = n
          BY <1>c, <4>1 DEF HpmAt
        <5> QED
          BY <1>3, <2>1, <2>2, <2>5, <5>1, <5>2
      <4>2. CASE j + 1 # c
        BY <1>c, <2>s, <4>2 DEF HpmAt
      <4> QED
        BY <4>1, <4>2
    <3> QED
      BY <2>2, <2>3, <2>5, <2>p, <2>s, <3>1, <3>2
  <2>6. CASE s > n
    <3>1. Hpm!BlockLength(n, HpmAt(n, j)) = n - p /\ n - p \in 0..(ChunkSize - 1)
      BY <2>1, <2>2, <2>4, <2>6
    <3>2. j + 1 = c
      <4>1. ASSUME j + 1 # c PROVE FALSE
        <5>1. j + 1 \in 0..(c - 1)
          BY <1>3, <2>2, <4>1
        <5>2. s < n
          BY <1>4, <2>s, <5>1
        <5> QED
          BY <2>1, <2>2, <2>6, <5>2
      <4> QED
        BY <4>1
    <3>3. HpmAt(n, j + 1) = n
      BY <1>c, <3>2 DEF HpmAt
    <3>4. n % ChunkSize = n - p
      <4> DEFINE r == n - p
      <4>1. r \in 0..(ChunkSize - 1) /\ n = ChunkSize * j + r /\ j \in Int
        BY <2>1, <2>2, <2>9, <3>1
      <4> HIDE DEF r
      <4>2. n % ChunkSize = r
        BY <4>1, RemainderOf
      <4> QED
        BY <4>2 DEF r
    <3>5. ~((j + 1) * ChunkSize <= n)
      BY <2>1, <2>2, <2>6, <2>s
    <3>6. HpmAt(n, j + 1) = HpmAt(n, j) + Hpm!BlockLength(n, HpmAt(n, j))
      BY <2>1, <2>3, <3>1, <3>3
    <3> QED
      BY <2>3, <2>p, <3>1, <3>4, <3>5, <3>6
  <2>7. s <= n \/ s > n
    BY <2>1, <2>2
  <2> QED
    BY <2>5, <2>6, <2>7
<1>7. HpmAt(n, 0) = 0
  <2>1. CASE c = 0
    <3>1. n = 0
      BY <1>3, <2>1
    <3> QED
      BY <1>c, <2>1, <3>1 DEF HpmAt
  <2>2. CASE c # 0
    BY <1>c, <2>2 DEF HpmAt
  <2> QED
    BY <2>1, <2>2
<1> QED
  BY <1>3, <1>5, <1>6, <1>7, <1>c

\* The writes of one action of the package.
HpmWrites == [op : {"backup", "prepare", "upload", "block", "finish", "activate"}, component : Nat, at : Int, n : Int]

LEMMA HpmWritesOf ==
  ASSUME NEW a \in PackageActions
  PROVE  /\ Hpm!WritesOf(a) \in Seq(HpmWrites) /\ Hpm!WritesOf(a)[1] = Hpm!Write(a.kind, a.component, 0, 0)
         /\ a.kind # "upload" => Len(Hpm!WritesOf(a)) = 1
         /\ a.kind = "upload" =>
              /\ Len(Hpm!WritesOf(a)) = ChunksOf(a.length) + 2
              /\ \A j \in 0..(ChunksOf(a.length) - 1) :
                   Hpm!WritesOf(a)[j + 2] =
                     Hpm!Write("block", a.component, HpmAt(a.length, j), Hpm!BlockLength(a.length, HpmAt(a.length, j)))
              /\ Hpm!WritesOf(a)[ChunksOf(a.length) + 2] = Hpm!Write("finish", a.component, 0, a.length)
<1> USE SizesAssumption
<1> DEFINE c == ChunksOf(a.length)
           first == <<Hpm!Write(a.kind, a.component, 0, 0)>>
           middle == Hpm!Blocks(a)
           end == <<Hpm!Write("finish", a.component, 0, a.length)>>
           rest == middle \o end
           none == <<>>
<1>0. a.kind \in {"backup", "prepare", "upload"} /\ a.component \in Nat /\ a.length \in Nat
  BY DEF PackageActions
<1>1. /\ first \in Seq(HpmWrites) /\ Len(first) = 1 /\ first[1] = Hpm!Write(a.kind, a.component, 0, 0)
  BY <1>0 DEF HpmWrites, Hpm!Write
<1>2. /\ end \in Seq(HpmWrites) /\ Len(end) = 1 /\ end[1] = Hpm!Write("finish", a.component, 0, a.length)
  BY <1>0 DEF HpmWrites, Hpm!Write
<1>3. c \in Nat
  BY <1>0, HpmChunks
<1>4. /\ middle \in Seq(HpmWrites) /\ Len(middle) = c
      /\ \A k \in 1..c : middle[k] = Hpm!Write("block", a.component, (k - 1) * ChunkSize,
              IF k * ChunkSize <= a.length THEN ChunkSize ELSE a.length % ChunkSize)
  <2>1. middle = [k \in 1..c |-> Hpm!Write("block", a.component, (k - 1) * ChunkSize,
              IF k * ChunkSize <= a.length THEN ChunkSize ELSE a.length % ChunkSize)]
    BY DEF Hpm!Blocks, ChunksOf
  <2>2. ASSUME NEW k \in 1..c
        PROVE  Hpm!Write("block", a.component, (k - 1) * ChunkSize,
                 IF k * ChunkSize <= a.length THEN ChunkSize ELSE a.length % ChunkSize) \in HpmWrites
    <3>1. (k - 1) * ChunkSize \in Int
      BY <1>3
    <3>2. a.length % ChunkSize \in Int
      BY <1>0
    <3>3. (IF k * ChunkSize <= a.length THEN ChunkSize ELSE a.length % ChunkSize) \in Int
      BY <3>2
    <3> QED
      BY <1>0, <3>1, <3>3 DEF HpmWrites, Hpm!Write
  <2> HIDE DEF middle, c
  <2>3. middle \in [1..c -> HpmWrites]
    BY <2>1, <2>2
  <2>4. middle \in Seq(HpmWrites) /\ Len(middle) = c
    BY <1>3, <2>3, SeqDef, LenProperties
  <2> QED
    BY <2>1, <2>4
<1>5. Hpm!WritesOf(a) = first \o (IF a.kind = "upload" THEN rest ELSE none)
  BY DEF Hpm!WritesOf
<1> HIDE DEF first, middle, end, c
<1>6. rest = middle \o end
  OBVIOUS
<1>7. none \in Seq(HpmWrites) /\ Len(none) = 0
  BY EmptySeq
<1> HIDE DEF rest, none
<1>8. CASE a.kind # "upload"
  <2> DEFINE u == first \o none
  <2>1. u = first \o none /\ first \in Seq(HpmWrites) /\ none \in Seq(HpmWrites) /\ Hpm!WritesOf(a) = u
    BY <1>1, <1>5, <1>7, <1>8
  <2> HIDE DEF u
  <2>2. u \in Seq(HpmWrites) /\ Len(u) = Len(first) + Len(none) /\ \A i \in 1..Len(first) : u[i] = first[i]
    BY <2>1, Joined, SMTT(30)
  <2> QED
    BY <1>1, <1>7, <1>8, <2>1, <2>2
<1>9. CASE a.kind = "upload"
  <2> DEFINE u == first \o rest
  <2>1. u = first \o rest /\ Hpm!WritesOf(a) = u
    BY <1>5, <1>9
  <2> HIDE DEF u
  <2>2. middle \in Seq(HpmWrites) /\ end \in Seq(HpmWrites)
    BY <1>2, <1>4
  <2>3. /\ rest \in Seq(HpmWrites) /\ Len(rest) = Len(middle) + Len(end)
        /\ \A i \in 1..Len(middle) : rest[i] = middle[i]
        /\ \A i \in 1..Len(end) : rest[Len(middle) + i] = end[i]
    BY <1>6, <2>2, Joined, SMTT(30)
  <2>4. first \in Seq(HpmWrites) /\ rest \in Seq(HpmWrites)
    BY <1>1, <2>3
  <2>5. /\ u \in Seq(HpmWrites) /\ Len(u) = Len(first) + Len(rest)
        /\ \A i \in 1..Len(first) : u[i] = first[i]
        /\ \A i \in 1..Len(rest) : u[Len(first) + i] = rest[i]
    BY <2>1, <2>4, Joined, SMTT(30)
  <2>6. /\ Len(u) = c + 2 /\ u[1] = first[1] /\ u[c + 2] = end[1]
        /\ \A j \in 0..(c - 1) : u[j + 2] = middle[j + 1]
    <3>1. Len(rest) = c + 1 /\ rest[c + 1] = end[1] /\ \A k \in 1..c : rest[k] = middle[k]
      BY <1>2, <1>3, <1>4, <2>3
    <3>2. u[1 + (c + 1)] = rest[c + 1] /\ 1 + (c + 1) = c + 2 /\ u[1] = first[1] /\ Len(u) = c + 2
      BY <1>1, <1>3, <2>5, <3>1
    <3>3. ASSUME NEW j \in 0..(c - 1) PROVE u[j + 2] = middle[j + 1]
      <4>1. j + 1 \in 1..c /\ j + 1 \in 1..Len(rest) /\ 1 + (j + 1) = j + 2
        BY <1>3, <3>1
      <4>2. u[1 + (j + 1)] = rest[j + 1] /\ rest[j + 1] = middle[j + 1]
        BY <1>1, <2>5, <3>1, <4>1
      <4> QED
        BY <4>1, <4>2
    <3> QED
      BY <3>1, <3>2, <3>3
  <2>7. ASSUME NEW j \in 0..(c - 1)
        PROVE  u[j + 2] = Hpm!Write("block", a.component, HpmAt(a.length, j), Hpm!BlockLength(a.length, HpmAt(a.length, j)))
    <3>1. j + 1 \in 1..c /\ (j + 1) - 1 = j
      BY <1>3
    <3>2. u[j + 2] = Hpm!Write("block", a.component, j * ChunkSize,
                        IF (j + 1) * ChunkSize <= a.length THEN ChunkSize ELSE a.length % ChunkSize)
      BY <1>4, <2>6, <3>1
    <3>3. /\ HpmAt(a.length, j) = j * ChunkSize
          /\ Hpm!BlockLength(a.length, HpmAt(a.length, j)) = IF (j + 1) * ChunkSize <= a.length THEN ChunkSize ELSE a.length % ChunkSize
      BY <1>0, HpmChunks DEF c
    <3> QED
      BY <3>2, <3>3
  <2> QED
    BY <1>1, <1>2, <1>9, <2>1, <2>5, <2>6, <2>7 DEF c
<1> QED
  BY <1>8, <1>9

\* Sequences one after the other, from the first on.
Chain(f, n, w) == f = [k \in 0..n |-> IF k = 0 THEN <<>> ELSE f[k - 1] \o w[k]]

LEMMA ChainExists ==
  ASSUME NEW N \in Nat, NEW w
  PROVE  \E f : Chain(f, N, w)
<1> DEFINE Bad == {n \in 0..N : ~ \E f : Chain(f, n, w)}
<1>1. Bad = {}
  <2> SUFFICES ASSUME Bad # {} PROVE FALSE
    OBVIOUS
  <2>1. Bad \in SUBSET Nat
    OBVIOUS
  <2> HIDE DEF Bad
  <2>2. PICK n \in Bad : \A m \in Bad : n <= m
    BY <2>1, LeastOf
  <2>3. n \in 0..N /\ ~ \E f : Chain(f, n, w)
    BY <2>2 DEF Bad
  <2>4. CASE n = 0
    <3> DEFINE g == [k \in 0..0 |-> <<>>]
    <3>1. \A k \in 0..0 : k = 0
      OBVIOUS
    <3>2. g = [k \in 0..0 |-> IF k = 0 THEN <<>> ELSE g[k - 1] \o w[k]]
      BY <3>1, Zenon
    <3> HIDE DEF g
    <3>3. Chain(g, n, w)
      BY <2>4, <3>2 DEF Chain
    <3> QED
      BY <2>3, <3>3
  <2>5. CASE n # 0
    <3>1. n - 1 \in 0..N /\ ~(n <= n - 1)
      BY <2>3, <2>5
    <3>2. n - 1 \notin Bad
      BY <2>2, <3>1
    <3>3. PICK f : Chain(f, n - 1, w)
      BY <3>1, <3>2 DEF Bad
    <3> DEFINE g == [k \in 0..n |-> IF k = n THEN f[n - 1] \o w[n] ELSE f[k]]
    <3>4. \A k \in 0..n : k # 0 => k - 1 \in 0..n /\ k - 1 # n /\ (k # n => k \in 0..(n - 1))
      BY <2>3
    <3>5. \A k \in 0..(n - 1) : f[k] = IF k = 0 THEN <<>> ELSE f[k - 1] \o w[k]
      BY <3>3, Zenon DEF Chain
    <3>6. \A k \in 0..n : k # 0 => g[k - 1] = f[k - 1]
      BY <3>4
    <3>7. ASSUME NEW k \in 0..n
          PROVE  (IF k = n THEN f[n - 1] \o w[n] ELSE f[k]) = IF k = 0 THEN <<>> ELSE g[k - 1] \o w[k]
      <4>1. CASE k = n
        <5>1. g[k - 1] = f[n - 1] /\ k # 0
          BY <2>5, <3>6, <4>1
        <5> QED
          BY <4>1, <5>1
      <4>2. CASE k # n
        <5>1. k \in 0..(n - 1)
          BY <2>3, <4>2
        <5>2. f[k] = IF k = 0 THEN <<>> ELSE f[k - 1] \o w[k]
          BY <3>5, <5>1
        <5>3. k # 0 => g[k - 1] = f[k - 1]
          BY <3>6
        <5> HIDE DEF g
        <5> QED
          BY <4>2, <5>2, <5>3
      <4> QED
        BY <4>1, <4>2
    <3>8. g = [k \in 0..n |-> IF k = 0 THEN <<>> ELSE g[k - 1] \o w[k]]
      <4> DEFINE G(k) == IF k = n THEN f[n - 1] \o w[n] ELSE f[k]
                 H(k) == IF k = 0 THEN <<>> ELSE g[k - 1] \o w[k]
      <4>1. \A k \in 0..n : G(k) = H(k)
        BY <3>7
      <4>2. g = [k \in 0..n |-> G(k)]
        OBVIOUS
      <4> HIDE DEF G, H
      <4>3. [k \in 0..n |-> G(k)] = [k \in 0..n |-> H(k)]
        BY <4>1
      <4> HIDE DEF g
      <4>4. g = [k \in 0..n |-> H(k)]
        BY <4>2, <4>3
      <4> QED
        BY <4>4 DEF H
    <3> HIDE DEF g
    <3>9. Chain(g, n, w)
      BY <3>8 DEF Chain
    <3> QED
      BY <2>3, <3>9
  <2> QED
    BY <2>4, <2>5
<1>2. N \in 0..N
  OBVIOUS
<1> QED
  BY <1>1, <1>2

\* Each starts where those before it end.
Placed(S, N, w, f) ==
  /\ f[0] = <<>>
  /\ \A n \in 0..N : f[n] \in Seq(S) /\ Len(f[n]) \in Nat
  /\ \A n \in 1..N : Len(w[n]) \in Nat /\ Len(f[n]) = Len(f[n - 1]) + Len(w[n])
  /\ \A n \in 0..N : \A i \in 1..n :
       /\ Len(f[i]) <= Len(f[n])
       /\ \A j \in 1..Len(w[i]) : f[n][Len(f[i - 1]) + j] = w[i][j]
\* One sequence is two others, one after the other.
JoinOf(s, t, u) ==
  /\ Len(s) \in Nat /\ Len(t) \in Nat /\ Len(u) = Len(s) + Len(t)
  /\ \A i \in 1..Len(s) : u[i] = s[i]
  /\ \A i \in 1..Len(t) : u[Len(s) + i] = t[i]

LEMMA ChainPlaces ==
  ASSUME NEW S, NEW N \in Nat, NEW w, NEW f, Chain(f, N, w), \A k \in 1..N : w[k] \in Seq(S)
  PROVE  Placed(S, N, w, f)
<1>1. f[0] = <<>> /\ \A k \in 1..N : f[k] = f[k - 1] \o w[k]
  <2>1. \A k \in 0..N : f[k] = IF k = 0 THEN <<>> ELSE f[k - 1] \o w[k]
    BY Zenon DEF Chain
  <2>2. 0 \in 0..N /\ \A k \in 1..N : k \in 0..N /\ k # 0
    OBVIOUS
  <2> QED
    BY <2>1, <2>2, Zenon
<1>2. ASSUME NEW n \in 1..N, f[n - 1] \in Seq(S)
      PROVE  f[n] \in Seq(S) /\ JoinOf(f[n - 1], w[n], f[n])
  <2> DEFINE x == f[n - 1]
             y == w[n]
             z == f[n]
  <2>1. x \in Seq(S) /\ y \in Seq(S) /\ z = x \o y
    BY <1>1, <1>2
  <2> HIDE DEF x, y, z
  <2>2. z \in Seq(S) /\ JoinOf(x, y, z)
    BY <2>1, Joined, SMTT(30) DEF JoinOf
  <2> QED
    BY <2>2, Zenon DEF x, y, z
<1> DEFINE Bad == {n \in 0..N : f[n] \notin Seq(S)}
<1>3. Bad = {}
  <2> SUFFICES ASSUME Bad # {} PROVE FALSE
    OBVIOUS
  <2>1. Bad \in SUBSET Nat
    OBVIOUS
  <2> HIDE DEF Bad
  <2>2. PICK n \in Bad : \A m \in Bad : n <= m
    BY <2>1, LeastOf
  <2>3. n \in 0..N /\ f[n] \notin Seq(S)
    BY <2>2 DEF Bad
  <2>4. n # 0
    BY <1>1, <2>3, EmptySeq
  <2>5. n \in 1..N /\ n - 1 \in 0..N /\ ~(n <= n - 1)
    BY <2>3, <2>4
  <2>6. n - 1 \notin Bad
    BY <2>2, <2>5
  <2>7. f[n - 1] \in Seq(S)
    BY <2>5, <2>6 DEF Bad
  <2> QED
    BY <1>2, <2>3, <2>5, <2>7
<1>4. \A n \in 0..N : f[n] \in Seq(S)
  BY <1>3
<1>5. \A n \in 0..N : Len(f[n]) \in Nat
  BY <1>4, LenProperties
<1>6. \A n \in 1..N : n - 1 \in 0..N /\ n \in 0..N
  OBVIOUS
<1>7. ASSUME NEW n \in 1..N
      PROVE  /\ Len(w[n]) \in Nat /\ Len(f[n]) = Len(f[n - 1]) + Len(w[n])
             /\ \A i \in 1..Len(f[n - 1]) : f[n][i] = f[n - 1][i]
             /\ \A i \in 1..Len(w[n]) : f[n][Len(f[n - 1]) + i] = w[n][i]
  <2>1. f[n - 1] \in Seq(S)
    BY <1>4, <1>6, Zenon
  <2>2. JoinOf(f[n - 1], w[n], f[n])
    BY <1>2, <2>1, Zenon
  <2> QED
    BY <2>2, Zenon DEF JoinOf
<1> DEFINE Apart(n, i) == /\ Len(f[i]) <= Len(f[n])
                          /\ \A j \in 1..Len(w[i]) : f[n][Len(f[i - 1]) + j] = w[i][j]
           Wrong == {n \in 0..N : ~ \A i \in 1..n : Apart(n, i)}
<1>8. Wrong = {}
  <2> SUFFICES ASSUME Wrong # {} PROVE FALSE
    OBVIOUS
  <2>1. Wrong \in SUBSET Nat
    OBVIOUS
  <2> HIDE DEF Wrong
  <2>2. PICK n \in Wrong : \A m \in Wrong : n <= m
    BY <2>1, LeastOf
  <2>3. n \in 0..N /\ ~ \A i \in 1..n : Apart(n, i)
    BY <2>2 DEF Wrong
  <2>4. PICK i \in 1..n : ~Apart(n, i)
    BY <2>3
  <2>5. n \in 1..N /\ n - 1 \in 0..N /\ ~(n <= n - 1) /\ i \in 1..N
    BY <2>3, <2>4
  <2>6. n - 1 \notin Wrong
    BY <2>2, <2>5
  <2>7. \A k \in 1..(n - 1) : Apart(n - 1, k)
    BY <2>5, <2>6 DEF Wrong
  <2>8. CASE i = n
    <3>1. Len(f[n]) <= Len(f[n])
      BY <1>5, <2>3
    <3>2. \A j \in 1..Len(w[n]) : f[n][Len(f[n - 1]) + j] = w[n][j]
      BY <1>7, <2>5
    <3> QED
      BY <2>4, <2>8, <3>1, <3>2
  <2>9. CASE i # n
    <3>1. i \in 1..(n - 1)
      BY <2>3, <2>9
    <3>2. Apart(n - 1, i)
      BY <2>7, <3>1
    <3> DEFINE a == Len(f[i - 1])
               b == Len(w[i])
               c == Len(f[i])
               d == Len(f[n - 1])
               e == Len(f[n])
               x == f[n]
               y == f[n - 1]
               z == w[i]
    <3>3. a \in Nat /\ b \in Nat /\ c = a + b /\ c <= d /\ d \in Nat /\ Len(w[n]) \in Nat /\ e = d + Len(w[n])
      BY <1>5, <1>6, <1>7, <2>5, <3>2
    <3>4. \A j \in 1..b : y[a + j] = z[j]
      BY <3>2
    <3>5. \A k \in 1..d : x[k] = y[k]
      BY <1>7, <2>5
    <3>6. ASSUME c <= e, \A j \in 1..b : x[a + j] = z[j] PROVE FALSE
      BY <2>4, <3>6
    <3> HIDE DEF a, b, c, d, e, x, y, z
    <3>7. c <= e
      BY <3>3
    <3>8. ASSUME NEW j \in 1..b PROVE x[a + j] = z[j]
      <4>1. a + j \in 1..d
        BY <3>3
      <4> QED
        BY <3>4, <3>5, <4>1
    <3> QED
      BY <3>6, <3>7, <3>8
  <2> QED
    BY <2>8, <2>9
<1>9. \A n \in 0..N : \A i \in 1..n : Apart(n, i)
  BY <1>8
<1> QED
  BY <1>1, <1>4, <1>5, <1>7, <1>9 DEF Placed

\* Where each action of the package starts in the plan.
HpmUp(p) ==
  CHOOSE f : f = [k \in 0..Len(p) |-> IF k = 0 THEN <<>> ELSE f[k - 1] \o Hpm!WritesOf(p[k])]
HpmFrom(p, i) == Len(HpmUp(p)[i - 1])

LEMMA HpmPlan ==
  ASSUME package \in Packages
  PROVE  /\ Len(package) \in Nat \ {0} /\ \A i \in 1..Len(package) : package[i] \in PackageActions
         /\ HpmFrom(package, 1) = 0
         /\ \A i \in 1..Len(package) : 
              /\ HpmFrom(package, i) \in Nat /\ Len(Hpm!WritesOf(package[i])) \in Nat
              /\ HpmFrom(package, i + 1) = HpmFrom(package, i) + Len(Hpm!WritesOf(package[i]))
              /\ HpmFrom(package, i + 1) < Len(Hpm!Plan)
              /\ \A j \in 1..Len(Hpm!WritesOf(package[i])) : Hpm!Plan[HpmFrom(package, i) + j] = Hpm!WritesOf(package[i])[j]
         /\ Hpm!Plan \in Seq(HpmWrites) /\ Len(Hpm!Plan) = HpmFrom(package, Len(package) + 1) + 1
         /\ Hpm!Plan[Len(Hpm!Plan)] = Hpm!Write("activate", 0, 0, 0)
<1> DEFINE N == Len(package)
           w == [k \in 1..N |-> Hpm!WritesOf(package[k])]
<1>1. N \in Nat \ {0} /\ \A i \in 1..N : package[i] \in PackageActions
  <2>1. package \in Seq(PackageActions) /\ package # <<>>
    BY PackagesAssumption
  <2>2. N \in Nat /\ N # 0
    BY <2>1, EmptySeq, LenProperties
  <2> QED
    BY <2>1, <2>2, ElementOfSeq
<1>2. \A i \in 1..N : w[i] = Hpm!WritesOf(package[i]) /\ w[i] \in Seq(HpmWrites)
  BY <1>1, HpmWritesOf
<1>3. Chain(HpmUp(package), N, w)
  <2>1. PICK first : Chain(first, N, w)
    BY <1>1, ChainExists
  <2>2. \A f : Chain(f, N, w) <=> f = [k \in 0..N |-> IF k = 0 THEN <<>> ELSE f[k - 1] \o Hpm!WritesOf(package[k])]
    <3> SUFFICES ASSUME NEW f
                 PROVE  Chain(f, N, w) <=> f = [k \in 0..N |-> IF k = 0 THEN <<>> ELSE f[k - 1] \o Hpm!WritesOf(package[k])]
      OBVIOUS
    <3> DEFINE G(k) == IF k = 0 THEN <<>> ELSE f[k - 1] \o w[k]
               H(k) == IF k = 0 THEN <<>> ELSE f[k - 1] \o Hpm!WritesOf(package[k])
    <3>1. \A k \in 0..N : G(k) = H(k)
      <4> SUFFICES ASSUME NEW k \in 0..N PROVE G(k) = H(k)
        OBVIOUS
      <4>1. CASE k = 0
        BY <4>1
      <4>2. CASE k # 0
        <5>1. k \in 1..N
          BY <1>1, <4>2
        <5>2. w[k] = Hpm!WritesOf(package[k])
          BY <1>2, <5>1
        <5> HIDE DEF w
        <5> QED
          BY <4>2, <5>2
      <4> QED
        BY <4>1, <4>2
    <3>2. Chain(f, N, w) <=> f = [k \in 0..N |-> G(k)]
      BY Zenon DEF Chain
    <3> HIDE DEF G, H
    <3>3. [k \in 0..N |-> G(k)] = [k \in 0..N |-> H(k)]
      BY <3>1
    <3>4. Chain(f, N, w) <=> f = [k \in 0..N |-> H(k)]
      BY <3>2, <3>3
    <3> QED
      BY <3>4 DEF H
  <2>3. HpmUp(package) = CHOOSE f : f = [k \in 0..N |-> IF k = 0 THEN <<>> ELSE f[k - 1] \o Hpm!WritesOf(package[k])]
    BY DEF HpmUp
  <2> HIDE DEF N, w
  <2>4. HpmUp(package) = [k \in 0..N |-> IF k = 0 THEN <<>> ELSE HpmUp(package)[k - 1] \o Hpm!WritesOf(package[k])]
    BY <2>1, <2>2, <2>3, Zenon
  <2> QED
    BY <2>2, <2>4, Zenon
<1> DEFINE end == <<Hpm!Write("activate", 0, 0, 0)>>
<1>4. Hpm!Plan = HpmUp(package)[N] \o end
  BY Zenon DEF Hpm!Plan, HpmUp
<1>5. end \in Seq(HpmWrites) /\ Len(end) = 1 /\ end[1] = Hpm!Write("activate", 0, 0, 0)
  BY DEF HpmWrites, Hpm!Write
<1>n. N = Len(package)
  OBVIOUS
<1> HIDE DEF N, w, end
<1> DEFINE f == HpmUp(package)
<1>f. Chain(f, N, w) /\ f = HpmUp(package) /\ Hpm!Plan = f[N] \o end
  BY <1>3, <1>4
<1> HIDE DEF f
<1>6. /\ f[0] = <<>>
      /\ \A n \in 0..N : f[n] \in Seq(HpmWrites) /\ Len(f[n]) \in Nat
      /\ \A n \in 1..N : Len(w[n]) \in Nat /\ Len(f[n]) = Len(f[n - 1]) + Len(w[n])
      /\ \A n \in 0..N : \A i \in 1..n :
              /\ Len(f[i]) <= Len(f[n])
              /\ \A j \in 1..Len(w[i]) : f[n][Len(f[i - 1]) + j] = w[i][j]
  <2>1. N \in Nat /\ \A k \in 1..N : w[k] \in Seq(HpmWrites)
    BY <1>1, <1>2
  <2>2. Placed(HpmWrites, N, w, f)
    BY <1>f, <2>1, ChainPlaces
  <2> QED
    BY <2>2 DEF Placed
<1> DEFINE u == Hpm!Plan
           s == f[N]
<1>7. u = s \o end /\ s \in Seq(HpmWrites) /\ end \in Seq(HpmWrites) /\ s = f[N]
  <2>1. N \in 0..N
    BY <1>1
  <2> QED
    BY <1>f, <1>5, <1>6, <2>1
<1>u. u = Hpm!Plan
  OBVIOUS
<1> HIDE DEF u, s
<1>8. /\ u \in Seq(HpmWrites) /\ Len(s) \in Nat /\ Len(u) = Len(s) + Len(end)
      /\ \A i \in 1..Len(s) : u[i] = s[i]
      /\ \A i \in 1..Len(end) : u[Len(s) + i] = end[i]
  BY <1>7, Joined, SMTT(30)
<1>9. Len(u) = Len(s) + 1 /\ u[Len(u)] = Hpm!Write("activate", 0, 0, 0)
  BY <1>5, <1>8
<1>10. \A i \in 1..(N + 1) : HpmFrom(package, i) = Len(f[i - 1])
  BY <1>f DEF HpmFrom
<1>11. HpmFrom(package, 1) = 0 /\ HpmFrom(package, N + 1) = Len(s)
  <2>1. 1 \in 1..(N + 1) /\ N + 1 \in 1..(N + 1) /\ 1 - 1 = 0 /\ (N + 1) - 1 = N /\ 0 \in 0..N
    BY <1>1
  <2>2. Len(f[0]) = 0
    BY <1>6
  <2> QED
    BY <1>7, <1>10, <2>1, <2>2
<1>12. ASSUME NEW i \in 1..N
       PROVE  /\ HpmFrom(package, i) \in Nat /\ Len(w[i]) \in Nat
              /\ HpmFrom(package, i + 1) = HpmFrom(package, i) + Len(w[i])
              /\ HpmFrom(package, i + 1) < Len(u)
              /\ \A j \in 1..Len(w[i]) : u[HpmFrom(package, i) + j] = w[i][j]
  <2>1. i \in 1..(N + 1) /\ i + 1 \in 1..(N + 1) /\ (i + 1) - 1 = i /\ i - 1 \in 0..N /\ i \in 0..N /\ N \in 0..N
    BY <1>1
  <2>2. HpmFrom(package, i) = Len(f[i - 1]) /\ HpmFrom(package, i + 1) = Len(f[i])
    BY <1>10, <2>1
  <2>3. /\ Len(f[i - 1]) \in Nat /\ Len(f[i]) \in Nat /\ Len(w[i]) \in Nat /\ Len(f[i]) = Len(f[i - 1]) + Len(w[i])
        /\ Len(f[i]) <= Len(s)
        /\ \A j \in 1..Len(w[i]) : s[Len(f[i - 1]) + j] = w[i][j]
    BY <1>6, <1>7, <2>1
  <2> DEFINE from == HpmFrom(package, i)
             to == HpmFrom(package, i + 1)
             y == w[i]
  <2>4. /\ from \in Nat /\ to = from + Len(y) /\ Len(y) \in Nat /\ to <= Len(s)
        /\ \A j \in 1..Len(y) : s[from + j] = y[j]
    BY <2>2, <2>3
  <2> HIDE DEF from, to, y
  <2>5. to < Len(u)
    BY <1>8, <1>9, <2>4
  <2>6. ASSUME NEW j \in 1..Len(y) PROVE u[from + j] = y[j]
    <3>1. from + j \in 1..Len(s)
      BY <1>8, <2>4
    <3> QED
      BY <1>8, <2>4, <3>1
  <2> QED
    BY <2>4, <2>5, <2>6 DEF from, to, y
<1>13. \A i \in 1..N : w[i] = Hpm!WritesOf(package[i])
  BY <1>2
<1>14. \A i \in 1..N :
         /\ HpmFrom(package, i) \in Nat /\ Len(Hpm!WritesOf(package[i])) \in Nat
         /\ HpmFrom(package, i + 1) = HpmFrom(package, i) + Len(Hpm!WritesOf(package[i]))
         /\ HpmFrom(package, i + 1) < Len(u)
         /\ \A j \in 1..Len(Hpm!WritesOf(package[i])) : u[HpmFrom(package, i) + j] = Hpm!WritesOf(package[i])[j]
  BY <1>12, <1>13
<1>15. Len(u) = HpmFrom(package, N + 1) + 1
  BY <1>9, <1>11
<1> QED
  BY <1>1, <1>8, <1>9, <1>11, <1>14, <1>15 DEF N, u

\* The images among the first actions of a package.
UploadsTo(p, n) == Cardinality({k \in 1..n : p[k].kind = "upload"})

LEMMA UploadsNext ==
  ASSUME NEW p, NEW n \in Nat
  PROVE  /\ UploadsTo(p, 0) = 0 /\ UploadsTo(p, n) \in Nat
         /\ UploadsTo(p, n + 1) = IF p[n + 1].kind = "upload" THEN UploadsTo(p, n) + 1 ELSE UploadsTo(p, n)
<1> DEFINE S == {k \in 1..n : p[k].kind = "upload"}
           T == {k \in 1..(n + 1) : p[k].kind = "upload"}
<1>1. UploadsTo(p, n) = Cardinality(S) /\ UploadsTo(p, n + 1) = Cardinality(T)
  BY DEF UploadsTo
<1>2. IsFiniteSet(S) /\ Cardinality(S) \in Nat
  <2>1. IsFiniteSet(1..n)
    BY FS_Interval
  <2>2. IsFiniteSet(S)
    BY <2>1, FS_Subset
  <2> QED
    BY <2>2, FS_CardinalityType
<1>3. UploadsTo(p, 0) = 0
  <2>1. {k \in 1..0 : p[k].kind = "upload"} = {}
    OBVIOUS
  <2> QED
    BY <2>1, FS_EmptySet DEF UploadsTo
<1>4. CASE p[n + 1].kind = "upload"
  <2>1. T = S \union {n + 1} /\ n + 1 \notin S
    BY <1>4
  <2> HIDE DEF S, T
  <2>2. Cardinality(T) = Cardinality(S) + 1
    BY <1>2, <2>1, FS_AddElement
  <2> QED
    BY <1>1, <1>2, <1>3, <1>4, <2>2
<1>5. CASE p[n + 1].kind # "upload"
  <2>1. T = S
    BY <1>5
  <2> HIDE DEF S, T
  <2> QED
    BY <1>1, <1>2, <1>3, <1>5, <2>1
<1> QED
  BY <1>4, <1>5

\* Where an HPM.1 update is in its package, and what it has sent of it.
BeforeAction(p, i, b, c) == c = HpmFrom(p, i) /\ (p[i].kind = "upload" => b = 0)
WithinImage(p, i, b, c) ==
    /\ p[i].kind = "upload"
    /\ \E j \in 0..ChunksOf(p[i].length) : b = HpmAt(p[i].length, j) /\ c = HpmFrom(p, i) + (1 + j)
HpmPhases ==
    /\ package \in Packages
    /\ pc \in {"ready", "initiate", "block", "next"}
    /\ phase \in {"Prepared", "Uploading", "Uploaded", "ActivationAcknowledged", "RollbackAcknowledged"}
    /\ pc # "ready" => uncertain = Hpm!NoWrite /\ action_index \in 1..Len(package)
    /\ pc = "initiate" => phase \in {"Prepared", "Uploading"}
    /\ pc = "block" => phase = "Uploading"
    /\ pc = "next" => phase = IF action_index = Len(package) THEN "Uploaded" ELSE "Uploading"
    /\ phase = "Prepared" => confirmed = 0 /\ finished = 0
HpmPosition ==
    /\ pc = "initiate" => BeforeAction(package, action_index, confirmed_bytes, confirmed)
    /\ pc = "block" => WithinImage(package, action_index, confirmed_bytes, confirmed)
    /\ pc = "next" => confirmed = HpmFrom(package, action_index + 1)
    /\ phase = "Uploaded" => confirmed = HpmFrom(package, Len(package) + 1)
HpmProgress ==
    /\ finished_images \in Nat /\ finished \in Nat
    /\ finished = finished_images \/ (finished = finished_images + 1 /\ uncertain # Hpm!NoWrite)
    /\ pc = "block" => received = confirmed_bytes /\ initiated = package[action_index].component
    /\ pc \in {"initiate", "block"} => finished = UploadsTo(package, action_index - 1)
    /\ pc = "next" => finished = UploadsTo(package, action_index)
    /\ phase = "Uploaded" => finished = UploadsTo(package, Len(package))
HpmPlace == HpmPhases /\ HpmPosition /\ HpmProgress

\* What it means for the caller.
LEMMA HpmMeans == HpmPlace => Hpm!ProgressTruthful
<1> SUFFICES ASSUME HpmPlace PROVE Hpm!ProgressTruthful
  OBVIOUS
<1>1. DOMAIN package = 1..Len(package)
  BY PackagesAssumption, LenProperties DEF HpmPlace, HpmPhases
<1>2. UploadsTo(package, Len(package)) = Cardinality({k \in DOMAIN package : package[k].kind = "upload"})
  BY <1>1 DEF UploadsTo
<1>3. \A T : Hpm!Cardinality(T) = Cardinality(T)
  BY Zenon DEF Hpm!Cardinality, Cardinality
<1>4. UploadsTo(package, Len(package)) = Hpm!Cardinality({k \in DOMAIN package : package[k].kind = "upload"})
  BY <1>2, <1>3
<1> DEFINE all == Hpm!Cardinality({k \in DOMAIN package : package[k].kind = "upload"})
<1>5. phase = "Uploaded" => finished = all
  BY <1>4 DEF HpmPlace, HpmProgress
<1>6. /\ uncertain = Hpm!NoWrite => finished_images = finished
      /\ finished \in {finished_images, finished_images + 1}
      /\ pc = "block" => received = confirmed_bytes /\ initiated = Hpm!Action.component
  BY DEF HpmPlace, HpmProgress, Hpm!Action
<1> QED
  BY <1>5, <1>6, Zenon DEF Hpm!ProgressTruthful

\* The same of the next state.
LEMMA HpmNext ==
  ASSUME package' = package
  PROVE  /\ HpmPhases' <=>
              /\ package \in Packages
              /\ pc' \in {"ready", "initiate", "block", "next"}
              /\ phase' \in {"Prepared", "Uploading", "Uploaded", "ActivationAcknowledged", "RollbackAcknowledged"}
              /\ pc' # "ready" => uncertain' = Hpm!NoWrite /\ action_index' \in 1..Len(package)
              /\ pc' = "initiate" => phase' \in {"Prepared", "Uploading"}
              /\ pc' = "block" => phase' = "Uploading"
              /\ pc' = "next" => phase' = IF action_index' = Len(package) THEN "Uploaded" ELSE "Uploading"
              /\ phase' = "Prepared" => confirmed' = 0 /\ finished' = 0
         /\ HpmPosition' <=>
              /\ pc' = "initiate" => BeforeAction(package, action_index', confirmed_bytes', confirmed')
              /\ pc' = "block" => WithinImage(package, action_index', confirmed_bytes', confirmed')
              /\ pc' = "next" => confirmed' = HpmFrom(package, action_index' + 1)
              /\ phase' = "Uploaded" => confirmed' = HpmFrom(package, Len(package) + 1)
         /\ HpmProgress' <=>
              /\ finished_images' \in Nat /\ finished' \in Nat
              /\ finished' = finished_images' \/ (finished' = finished_images' + 1 /\ uncertain' # Hpm!NoWrite)
              /\ pc' = "block" => received' = confirmed_bytes' /\ initiated' = package[action_index'].component
              /\ pc' \in {"initiate", "block"} => finished' = UploadsTo(package, action_index' - 1)
              /\ pc' = "next" => finished' = UploadsTo(package, action_index')
              /\ phase' = "Uploaded" => finished' = UploadsTo(package, Len(package))
<1>1. /\ BeforeAction(package, action_index, confirmed_bytes, confirmed)'
           <=> BeforeAction(package', action_index', confirmed_bytes', confirmed')
      /\ WithinImage(package, action_index, confirmed_bytes, confirmed)'
           <=> WithinImage(package', action_index', confirmed_bytes', confirmed')
      /\ HpmFrom(package, action_index + 1)' = HpmFrom(package', action_index' + 1)
      /\ HpmFrom(package, Len(package) + 1)' = HpmFrom(package', Len(package') + 1)
      /\ UploadsTo(package, action_index - 1)' = UploadsTo(package', action_index' - 1)
      /\ UploadsTo(package, action_index)' = UploadsTo(package', action_index')
      /\ UploadsTo(package, Len(package))' = UploadsTo(package', Len(package'))
  OBVIOUS
<1> QED
  BY <1>1 DEF HpmPhases, HpmPosition, HpmProgress

LEMMA HpmFixed ==
  ASSUME Hpm!Next
  PROVE  package' = package /\ manual_rollback' = manual_rollback /\ Hpm!Plan' = Hpm!Plan
<1>1. package' = package /\ manual_rollback' = manual_rollback
  BY DEF Hpm!Next, Hpm!Upload, Hpm!Cancel, Hpm!Initiate, Hpm!UploadBlock, Hpm!Finish, Hpm!ActionDone,
         Hpm!Activate, Hpm!Rollback, Hpm!updater, Hpm!local
<1> QED
  BY <1>1 DEF Hpm!Plan

\* An answer: the write is acknowledged, or is uncertain.
LEMMA HpmAnswers ==
  ASSUME NEW o \in Hpm!Outcomes, NEW w, Hpm!Sent(o, w)
  PROVE  \/ /\ o.ok = TRUE /\ o.carried = TRUE /\ executed' = Append(executed, w)
            /\ confirmed' = confirmed + 1 /\ uncertain' = Hpm!NoWrite
         \/ /\ o.ok = FALSE /\ (executed' = Append(executed, w) \/ executed' = executed)
            /\ confirmed' = confirmed /\ uncertain' = w
<1>1. \/ o.ok = TRUE /\ o.carried = TRUE
      \/ o.ok = FALSE
  <2>1. o = [ok |-> TRUE, carried |-> TRUE] \/ o = [ok |-> FALSE, carried |-> TRUE] \/ o = [ok |-> FALSE, carried |-> FALSE]
    BY Zenon DEF Hpm!Outcomes
  <2>2. CASE o = [ok |-> TRUE, carried |-> TRUE]
    BY <2>2
  <2>3. CASE o = [ok |-> FALSE, carried |-> TRUE]
    BY <2>3
  <2>4. CASE o = [ok |-> FALSE, carried |-> FALSE]
    BY <2>4
  <2> QED
    BY <2>1, <2>2, <2>3, <2>4
<1>2. CASE o.ok = TRUE /\ o.carried = TRUE
  BY <1>2 DEF Hpm!Sent, Hpm!Uncertain
<1>3. CASE o.ok = FALSE
  BY <1>3 DEF Hpm!Sent, Hpm!Uncertain
<1> QED
  BY <1>1, <1>2, <1>3

\* A write is none only if it is called so.
LEMMA HpmWriteIs ==
  ASSUME NEW op, op # "none", NEW c, NEW a, NEW n
  PROVE  Hpm!Write(op, c, a, n) # Hpm!NoWrite
BY DEF Hpm!Write, Hpm!NoWrite

\* The steps that send nothing.
LEMMA HpmQuiet ==
  ASSUME HpmPlace, Hpm!Upload \/ Hpm!Cancel \/ Hpm!ActionDone
  PROVE  HpmPlace' /\ UNCHANGED <<executed, confirmed, uncertain, phase>>
<1>1. package' = package
  BY HpmFixed DEF Hpm!Next
<1>2. /\ Len(package) \in Nat \ {0} /\ \A i \in 1..Len(package) : package[i] \in PackageActions
      /\ HpmFrom(package, 1) = 0
  BY HpmPlan DEF HpmPlace, HpmPhases
<1> USE DEF HpmPlace
<1>3. CASE Hpm!Upload
  <2>1. /\ pc = "ready" /\ phase = "Prepared" /\ uncertain = Hpm!NoWrite /\ Hpm!Select(1)
        /\ UNCHANGED <<executed, confirmed, phase, finished_images, uncertain, initiated, received, finished>>
    BY <1>3 DEF Hpm!Upload, Hpm!target
  <2>2. /\ pc' = "initiate" /\ action_index' = 1 /\ confirmed' = 0 /\ finished' = 0
        /\ package[1].kind = "upload" => confirmed_bytes' = 0
    BY <2>1 DEF Hpm!Select, HpmPhases
  <2>3. UploadsTo(package, action_index' - 1) = 0
    <3>1. action_index' - 1 = 0
      BY <2>2
    <3>2. UploadsTo(package, 0) = 0
      BY UploadsNext
    <3> QED
      BY <3>1, <3>2
  <2>4. HpmPhases'
    BY <1>1, <1>2, <2>1, <2>2, HpmNext DEF HpmPhases
  <2>5. HpmPosition'
    BY <1>1, <1>2, <2>1, <2>2, HpmNext DEF BeforeAction
  <2>6. HpmProgress'
    BY <1>1, <2>1, <2>2, <2>3, HpmNext DEF HpmProgress
  <2> QED
    BY <2>1, <2>4, <2>5, <2>6
<1>4. CASE Hpm!Cancel
  <2>1. /\ pc' = "ready"
        /\ UNCHANGED <<executed, confirmed, phase, action_index, confirmed_bytes, finished_images, uncertain, initiated, received, finished>>
    BY <1>4 DEF Hpm!Cancel, Hpm!local, Hpm!state, Hpm!target
  <2>4. HpmPhases'
    BY <1>1, <2>1, HpmNext DEF HpmPhases
  <2>5. HpmPosition'
    BY <1>1, <2>1, HpmNext DEF HpmPosition
  <2>6. HpmProgress'
    BY <1>1, <2>1, HpmNext DEF HpmProgress
  <2> QED
    BY <2>1, <2>4, <2>5, <2>6
<1>5. CASE Hpm!ActionDone
  <2>1. /\ pc = "next" /\ action_index \in 1..Len(package) /\ uncertain = Hpm!NoWrite
        /\ UNCHANGED <<executed, confirmed, phase, finished_images, uncertain, initiated, received, finished>>
    BY <1>5 DEF Hpm!ActionDone, Hpm!target, HpmPhases
  <2>2. CASE action_index < Len(package) /\ Hpm!Select(action_index + 1)
    <3> DEFINE i == action_index + 1
    <3>1. /\ pc' = "initiate" /\ action_index' = i /\ phase' = "Uploading"
          /\ package[i].kind = "upload" => confirmed_bytes' = 0
      BY <1>2, <2>1, <2>2 DEF Hpm!Select, HpmPhases
    <3>2. i \in 1..Len(package) /\ i - 1 = action_index
      BY <1>2, <2>1, <2>2
    <3>3. confirmed' = HpmFrom(package, i) /\ finished' = UploadsTo(package, action_index)
      BY <2>1 DEF HpmPosition, HpmProgress
    <3> HIDE DEF i
    <3>4. HpmPhases'
      BY <1>1, <2>1, <3>1, <3>2, HpmNext DEF HpmPhases
    <3>5. HpmPosition'
      BY <1>1, <3>1, <3>3, HpmNext DEF BeforeAction
    <3>6. HpmProgress'
      <4>1. UploadsTo(package, action_index' - 1) = UploadsTo(package, action_index)
        BY <3>1, <3>2
      <4> QED
        BY <1>1, <2>1, <3>1, <3>3, <4>1, HpmNext DEF HpmProgress
    <3> QED
      BY <2>1, <3>4, <3>5, <3>6
  <2>3. CASE action_index = Len(package) /\ pc' = "ready" /\ UNCHANGED <<action_index, confirmed_bytes>>
    <3>4. HpmPhases'
      BY <1>1, <2>1, <2>3, HpmNext DEF HpmPhases
    <3>5. HpmPosition'
      BY <1>1, <2>1, <2>3, HpmNext DEF HpmPosition
    <3>6. HpmProgress'
      BY <1>1, <2>1, <2>3, HpmNext DEF HpmProgress
    <3> QED
      BY <2>1, <3>4, <3>5, <3>6
  <2> QED
    BY <1>5, <2>2, <2>3 DEF Hpm!ActionDone
<1> QED
  BY <1>3, <1>4, <1>5

\* What a step that sends does to the transfer.
HpmSent ==
    /\ uncertain = Hpm!NoWrite /\ phase # "RollbackAcknowledged" /\ confirmed < Len(Hpm!Plan)
    /\ \/ executed' = Append(executed, Hpm!Plan[confirmed + 1]) /\ confirmed' = confirmed + 1
       \/ /\ executed' = Append(executed, Hpm!Plan[confirmed + 1]) \/ executed' = executed
          /\ confirmed' = confirmed /\ uncertain' # Hpm!NoWrite

\* The first write of an action.
LEMMA HpmInitiates ==
  ASSUME HpmPlace, Hpm!Initiate
  PROVE  HpmPlace' /\ HpmSent
<1> USE DEF HpmPlace
<1>1. package' = package
  BY HpmFixed DEF Hpm!Next
<1> DEFINE i == action_index
           a == package[action_index]
<1>2. PICK o \in Hpm!Outcomes :
         /\ Hpm!Sent(o, Hpm!Write(a.kind, a.component, 0, 0))
         /\ phase' = Hpm!After(o.ok /\ a.kind # "upload")
         /\ pc' = IF ~o.ok THEN "ready" ELSE IF a.kind = "upload" THEN "block" ELSE "next"
         /\ IF o.carried /\ a.kind = "upload"
            THEN initiated' = a.component /\ received' = 0
            ELSE UNCHANGED <<initiated, received>>
  BY DEF Hpm!Initiate, Hpm!Action
<1>3. /\ pc = "initiate" /\ i \in 1..Len(package) /\ uncertain = Hpm!NoWrite /\ phase \in {"Prepared", "Uploading"}
      /\ BeforeAction(package, i, confirmed_bytes, confirmed)
      /\ UNCHANGED <<action_index, confirmed_bytes, finished_images, finished>>
  BY DEF Hpm!Initiate, HpmPhases, HpmPosition
<1>4. /\ Len(package) \in Nat \ {0} /\ a \in PackageActions
      /\ HpmFrom(package, i) \in Nat
      /\ HpmFrom(package, i + 1) = HpmFrom(package, i) + Len(Hpm!WritesOf(a))
      /\ HpmFrom(package, i + 1) < Len(Hpm!Plan)
      /\ \A j \in 1..Len(Hpm!WritesOf(a)) : Hpm!Plan[HpmFrom(package, i) + j] = Hpm!WritesOf(a)[j]
  BY <1>3, HpmPlan DEF HpmPhases
<1>5. a.kind \in {"backup", "prepare", "upload"} /\ a.component \in Nat /\ a.length \in Nat
  BY <1>4 DEF PackageActions
<1>6. /\ Len(Hpm!WritesOf(a)) \in Nat \ {0} /\ Hpm!WritesOf(a)[1] = Hpm!Write(a.kind, a.component, 0, 0)
      /\ a.kind # "upload" => Len(Hpm!WritesOf(a)) = 1
  <2>1. /\ Hpm!WritesOf(a)[1] = Hpm!Write(a.kind, a.component, 0, 0)
        /\ a.kind # "upload" => Len(Hpm!WritesOf(a)) = 1
        /\ a.kind = "upload" => Len(Hpm!WritesOf(a)) = ChunksOf(a.length) + 2
    BY <1>4, HpmWritesOf
  <2>2. ChunksOf(a.length) \in Nat
    BY <1>5, HpmChunks
  <2> QED
    BY <2>1, <2>2
<1> DEFINE w == Hpm!Write(a.kind, a.component, 0, 0)
<1>7. confirmed \in Nat /\ confirmed = HpmFrom(package, i) /\ confirmed < Len(Hpm!Plan) /\ Hpm!Plan[confirmed + 1] = w
  <2>1. confirmed = HpmFrom(package, i)
    BY <1>3 DEF BeforeAction
  <2>2. 1 \in 1..Len(Hpm!WritesOf(a)) /\ confirmed < HpmFrom(package, i + 1)
    BY <1>4, <1>6, <2>1
  <2>3. confirmed < Len(Hpm!Plan)
    <3>1. HpmFrom(package, i + 1) \in Nat /\ Len(Hpm!Plan) \in Nat
      <4>1. Hpm!Plan \in Seq(HpmWrites)
        BY HpmPlan DEF HpmPhases
      <4> QED
        BY <1>4, <1>6, <4>1, LenProperties
    <3> QED
      BY <1>4, <2>1, <2>2, <3>1
  <2> QED
    BY <1>4, <1>6, <2>1, <2>2, <2>3
<1>8. w # Hpm!NoWrite
  BY <1>5, HpmWriteIs
<1> HIDE DEF w
<1>9. \/ /\ o.ok = TRUE /\ o.carried = TRUE /\ executed' = Append(executed, w)
         /\ confirmed' = confirmed + 1 /\ uncertain' = Hpm!NoWrite
      \/ /\ o.ok = FALSE /\ (executed' = Append(executed, w) \/ executed' = executed)
         /\ confirmed' = confirmed /\ uncertain' = w
  BY <1>2, HpmAnswers DEF w
<1>10. HpmSent
  BY <1>3, <1>7, <1>8, <1>9 DEF HpmSent
<1>11. finished \in Nat /\ finished_images \in Nat /\ finished = finished_images /\ finished = UploadsTo(package, i - 1)
  BY <1>3 DEF HpmProgress
<1>12. UploadsTo(package, i) = IF a.kind = "upload" THEN UploadsTo(package, i - 1) + 1 ELSE UploadsTo(package, i - 1)
  <2>1. i - 1 \in Nat /\ (i - 1) + 1 = i
    BY <1>3
  <2> QED
    BY <2>1, UploadsNext
<1> HIDE DEF i, a
<1>i. i = action_index /\ a = package[action_index]
  BY DEF i, a
<1>13. CASE o.ok = FALSE
  <2>1. pc' = "ready" /\ phase' = "Uploading" /\ uncertain' = w
    BY <1>2, <1>3, <1>9, <1>13 DEF Hpm!After, Hpm!Attempted
  <2>4. HpmPhases'
    BY <1>1, <2>1, HpmNext DEF HpmPhases
  <2>5. HpmPosition'
    BY <1>1, <2>1, HpmNext
  <2>6. HpmProgress'
    BY <1>1, <1>3, <1>11, <2>1, HpmNext
  <2> QED
    BY <1>10, <2>4, <2>5, <2>6
<1>14. CASE o.ok = TRUE /\ a.kind = "upload"
  <2>1. /\ pc' = "block" /\ phase' = "Uploading" /\ uncertain' = Hpm!NoWrite /\ confirmed' = confirmed + 1
        /\ initiated' = a.component /\ received' = 0
    BY <1>2, <1>3, <1>9, <1>14 DEF Hpm!After, Hpm!Attempted
  <2>2. confirmed_bytes = 0
    BY <1>3, <1>14, <1>i DEF BeforeAction
  <2>3. WithinImage(package, action_index', confirmed_bytes', confirmed')
    <3>1. 0 \in 0..ChunksOf(a.length) /\ HpmAt(a.length, 0) = 0
      BY <1>5, HpmChunks
    <3>2. confirmed' = HpmFrom(package, i) + (1 + 0)
      BY <1>7, <2>1
    <3>3. WithinImage(package, i, 0, confirmed')
      BY <1>14, <1>i, <3>1, <3>2 DEF WithinImage
    <3> QED
      BY <1>3, <1>i, <2>2, <3>3
  <2>4. HpmPhases'
    BY <1>1, <1>3, <1>i, <2>1, HpmNext DEF HpmPhases
  <2>5. HpmPosition'
    BY <1>1, <2>1, <2>3, HpmNext
  <2>6. HpmProgress'
    <3>1. received' = confirmed_bytes' /\ initiated' = package[action_index'].component
      BY <1>3, <1>i, <2>1, <2>2
    <3>2. finished' = UploadsTo(package, action_index' - 1)
      BY <1>3, <1>11, <1>i
    <3> QED
      BY <1>1, <1>3, <1>11, <2>1, <3>1, <3>2, HpmNext
  <2> QED
    BY <1>10, <2>4, <2>5, <2>6
<1>15. CASE o.ok = TRUE /\ a.kind # "upload"
  <2>1. /\ pc' = "next" /\ uncertain' = Hpm!NoWrite /\ confirmed' = confirmed + 1
        /\ phase' = IF i = Len(package) THEN "Uploaded" ELSE "Uploading"
    <3>1. phase' = Hpm!After(TRUE)
      <4>1. (o.ok /\ a.kind # "upload") = TRUE
        BY <1>15
      <4> QED
        BY <1>2, <4>1
    <3>2. phase' = IF i = Len(package) THEN "Uploaded" ELSE "Uploading"
      BY <1>3, <1>i, <3>1 DEF Hpm!After, Hpm!Attempted
    <3>3. pc' = "next"
      BY <1>2, <1>15
    <3> QED
      BY <1>9, <1>15, <3>2, <3>3
  <2>2. confirmed' = HpmFrom(package, i + 1)
    BY <1>4, <1>6, <1>7, <1>15, <2>1
  <2>3. finished' = UploadsTo(package, i)
    BY <1>3, <1>11, <1>12, <1>15
  <2>4. HpmPhases'
    BY <1>1, <1>3, <1>i, <2>1, HpmNext DEF HpmPhases
  <2>5. HpmPosition'
    BY <1>1, <1>3, <1>i, <2>1, <2>2, HpmNext
  <2>6. HpmProgress'
    BY <1>1, <1>3, <1>11, <1>i, <2>1, <2>3, HpmNext
  <2> QED
    BY <1>10, <2>4, <2>5, <2>6
<1> QED
  BY <1>9, <1>13, <1>14, <1>15

\* A chunk of an image.
LEMMA HpmUploadsBlock ==
  ASSUME HpmPlace, Hpm!UploadBlock
  PROVE  HpmPlace' /\ HpmSent
<1> USE DEF HpmPlace
<1>1. package' = package
  BY HpmFixed DEF Hpm!Next
<1> DEFINE i == action_index
           a == package[action_index]
           n == Hpm!BlockLength(a.length, confirmed_bytes)
           w == Hpm!Write("block", a.component, confirmed_bytes, n)
<1>2. PICK o \in Hpm!Outcomes, section \in Hpm!NextSections :
            /\ Hpm!Sent(o, w)
            /\ received' = IF o.carried THEN received + n ELSE received
            /\ confirmed_bytes' = IF o.ok THEN confirmed_bytes + n ELSE confirmed_bytes
            /\ pc' = IF o.ok /\ section # "other" THEN "block" ELSE "ready"
  BY DEF Hpm!UploadBlock, Hpm!Action
<1>3. /\ pc = "block" /\ i \in 1..Len(package) /\ uncertain = Hpm!NoWrite /\ phase = "Uploading"
      /\ WithinImage(package, i, confirmed_bytes, confirmed) /\ confirmed_bytes < a.length
      /\ UNCHANGED <<phase, action_index, finished_images, finished, initiated>>
  BY DEF Hpm!UploadBlock, Hpm!Action, HpmPhases, HpmPosition
<1>4. /\ Len(package) \in Nat \ {0} /\ a \in PackageActions
      /\ HpmFrom(package, i) \in Nat
      /\ HpmFrom(package, i + 1) = HpmFrom(package, i) + Len(Hpm!WritesOf(a))
      /\ HpmFrom(package, i + 1) < Len(Hpm!Plan)
      /\ \A j \in 1..Len(Hpm!WritesOf(a)) : Hpm!Plan[HpmFrom(package, i) + j] = Hpm!WritesOf(a)[j]
  BY <1>3, HpmPlan DEF HpmPhases
<1>5. a.kind = "upload" /\ a.component \in Nat /\ a.length \in Nat
  BY <1>3, <1>4 DEF PackageActions, WithinImage
<1> DEFINE c == ChunksOf(a.length)
<1>6. PICK j \in 0..c : confirmed_bytes = HpmAt(a.length, j) /\ confirmed = HpmFrom(package, i) + (1 + j)
  BY <1>3 DEF WithinImage
<1>7. /\ c \in Nat /\ j \in 0..(c - 1)
      /\ HpmAt(a.length, j + 1) = confirmed_bytes + n
      /\ confirmed_bytes \in Nat
  <2>1. c \in Nat /\ HpmAt(a.length, j) \in 0..a.length /\ (HpmAt(a.length, j) = a.length <=> j = c)
    BY <1>5, <1>6, HpmChunks
  <2>2. j # c /\ confirmed_bytes \in Nat
    BY <1>3, <1>5, <1>6, <2>1
  <2>3. j \in 0..(c - 1)
    BY <1>6, <2>1, <2>2
  <2>4. HpmAt(a.length, j + 1) = HpmAt(a.length, j) + Hpm!BlockLength(a.length, HpmAt(a.length, j))
    BY <1>5, <2>3, HpmChunks
  <2> QED
    BY <1>6, <2>1, <2>2, <2>3, <2>4
<1>8. confirmed \in Nat /\ confirmed < Len(Hpm!Plan) /\ Hpm!Plan[confirmed + 1] = w
  <2>1. /\ Len(Hpm!WritesOf(a)) = c + 2
        /\ Hpm!WritesOf(a)[j + 2] = w
    BY <1>4, <1>5, <1>6, <1>7, HpmWritesOf
  <2>2. j + 2 \in 1..(c + 2) /\ confirmed + 1 = HpmFrom(package, i) + (j + 2) /\ confirmed < HpmFrom(package, i) + (c + 2)
        /\ confirmed \in Nat
    <3> DEFINE from == HpmFrom(package, i)
    <3>1. from \in Nat /\ c \in Nat /\ j \in 0..(c - 1) /\ confirmed = from + (1 + j)
      BY <1>4, <1>6, <1>7
    <3> HIDE DEF from, c
    <3>2. j + 2 \in 1..(c + 2) /\ confirmed + 1 = from + (j + 2) /\ confirmed < from + (c + 2) /\ confirmed \in Nat
      BY <3>1
    <3> QED
      BY <3>2 DEF from
  <2>3. Hpm!Plan[confirmed + 1] = w
    BY <1>4, <2>1, <2>2
  <2>4. Len(Hpm!Plan) \in Nat
    BY HpmPlan, LenProperties DEF HpmPhases
  <2>5. confirmed < Len(Hpm!Plan) /\ confirmed \in Nat
    <3> DEFINE from == HpmFrom(package, i)
               total == Len(Hpm!Plan)
    <3>1. from \in Nat /\ c \in Nat /\ total \in Nat /\ from + (c + 2) < total /\ confirmed < from + (c + 2) /\ confirmed \in Nat
      BY <1>4, <1>7, <2>1, <2>2, <2>4
    <3> HIDE DEF from, c, total
    <3>2. confirmed < total /\ confirmed \in Nat
      BY <3>1
    <3> QED
      BY <3>2 DEF total
  <2> QED
    BY <2>3, <2>5
<1>9. w # Hpm!NoWrite
  BY HpmWriteIs
<1> HIDE DEF w
<1>10. \/ /\ o.ok = TRUE /\ o.carried = TRUE /\ executed' = Append(executed, w)
          /\ confirmed' = confirmed + 1 /\ uncertain' = Hpm!NoWrite
       \/ /\ o.ok = FALSE /\ (executed' = Append(executed, w) \/ executed' = executed)
          /\ confirmed' = confirmed /\ uncertain' = w
  BY <1>2, HpmAnswers
<1>11. HpmSent
  BY <1>3, <1>8, <1>9, <1>10 DEF HpmSent
<1>12. /\ finished \in Nat /\ finished_images \in Nat /\ finished = finished_images /\ finished = UploadsTo(package, i - 1)
       /\ received = confirmed_bytes /\ initiated = a.component
  BY <1>3 DEF HpmProgress
<1> HIDE DEF i, a, n, c
<1>i. i = action_index /\ a = package[action_index]
  BY DEF i, a
<1>13. CASE pc' = "ready"
  <2>4. HpmPhases'
    BY <1>1, <1>3, <1>13, HpmNext DEF HpmPhases
  <2>5. HpmPosition'
    BY <1>1, <1>3, <1>13, HpmNext
  <2>6. HpmProgress'
    BY <1>1, <1>3, <1>12, <1>13, HpmNext
  <2> QED
    BY <1>11, <2>4, <2>5, <2>6
<1>14. CASE pc' # "ready"
  <2>1. o.ok = TRUE /\ o.carried = TRUE
    BY <1>2, <1>10, <1>14
  <2>2. /\ pc' = "block" /\ uncertain' = Hpm!NoWrite /\ confirmed' = confirmed + 1
        /\ confirmed_bytes' = confirmed_bytes + n /\ received' = received + n
    BY <1>2, <1>10, <1>14, <2>1
  <2>3. WithinImage(package, action_index', confirmed_bytes', confirmed')
    <3> DEFINE k == j + 1
    <3>1. k \in 0..c /\ confirmed_bytes' = HpmAt(a.length, k) /\ confirmed' = HpmFrom(package, i) + (1 + k)
      BY <1>4, <1>6, <1>7, <2>2
    <3> HIDE DEF k
    <3>2. WithinImage(package, i, confirmed_bytes', confirmed')
      BY <1>5, <1>i, <3>1 DEF WithinImage, c
    <3> QED
      BY <1>3, <1>i, <3>2
  <2>4. HpmPhases'
    BY <1>1, <1>3, <1>i, <2>2, HpmNext DEF HpmPhases
  <2>5. HpmPosition'
    BY <1>1, <1>3, <2>2, <2>3, HpmNext
  <2>6. HpmProgress'
    <3>1. received' = confirmed_bytes' /\ initiated' = package[action_index'].component
      BY <1>3, <1>12, <1>i, <2>2
    <3>2. finished' = UploadsTo(package, action_index' - 1)
      BY <1>3, <1>12, <1>i
    <3> QED
      BY <1>1, <1>3, <1>12, <2>2, <3>1, <3>2, HpmNext
  <2> QED
    BY <1>11, <2>4, <2>5, <2>6
<1> QED
  BY <1>13, <1>14

\* The end of an image.
LEMMA HpmFinishes ==
  ASSUME HpmPlace, Hpm!Finish
  PROVE  HpmPlace' /\ HpmSent
<1> USE DEF HpmPlace
<1>1. package' = package
  BY HpmFixed DEF Hpm!Next
<1> DEFINE i == action_index
           a == package[action_index]
           w == Hpm!Write("finish", a.component, 0, confirmed_bytes)
<1>2. PICK o \in Hpm!Outcomes :
         /\ Hpm!Sent(o, w)
         /\ finished' = IF o.carried THEN finished + 1 ELSE finished
         /\ finished_images' = IF o.ok THEN finished_images + 1 ELSE finished_images
         /\ pc' = IF o.ok THEN "next" ELSE "ready"
         /\ phase' = Hpm!After(o.ok)
  BY DEF Hpm!Finish, Hpm!Action
<1>3. /\ pc = "block" /\ i \in 1..Len(package) /\ uncertain = Hpm!NoWrite /\ phase = "Uploading"
      /\ WithinImage(package, i, confirmed_bytes, confirmed) /\ confirmed_bytes = a.length
      /\ UNCHANGED <<action_index, confirmed_bytes, initiated, received>>
  BY DEF Hpm!Finish, Hpm!Action, HpmPhases, HpmPosition
<1>4. /\ Len(package) \in Nat \ {0} /\ a \in PackageActions
      /\ HpmFrom(package, i) \in Nat
      /\ HpmFrom(package, i + 1) = HpmFrom(package, i) + Len(Hpm!WritesOf(a))
      /\ HpmFrom(package, i + 1) < Len(Hpm!Plan)
      /\ \A j \in 1..Len(Hpm!WritesOf(a)) : Hpm!Plan[HpmFrom(package, i) + j] = Hpm!WritesOf(a)[j]
  BY <1>3, HpmPlan DEF HpmPhases
<1>5. a.kind = "upload" /\ a.component \in Nat /\ a.length \in Nat
  BY <1>3, <1>4 DEF PackageActions, WithinImage
<1> DEFINE c == ChunksOf(a.length)
<1>6. c \in Nat /\ confirmed = HpmFrom(package, i) + (1 + c)
  <2>1. PICK j \in 0..c : confirmed_bytes = HpmAt(a.length, j) /\ confirmed = HpmFrom(package, i) + (1 + j)
    BY <1>3 DEF WithinImage
  <2>2. c \in Nat /\ (HpmAt(a.length, j) = a.length <=> j = c)
    BY <1>5, <2>1, HpmChunks
  <2> QED
    BY <1>3, <2>1, <2>2
<1>8. /\ confirmed \in Nat /\ confirmed < Len(Hpm!Plan) /\ Hpm!Plan[confirmed + 1] = w
      /\ HpmFrom(package, i + 1) = confirmed + 1
  <2>1. /\ Len(Hpm!WritesOf(a)) = c + 2
        /\ Hpm!WritesOf(a)[c + 2] = w
    BY <1>3, <1>4, <1>5, HpmWritesOf
  <2>2. c + 2 \in 1..(c + 2) /\ confirmed + 1 = HpmFrom(package, i) + (c + 2) /\ confirmed < HpmFrom(package, i) + (c + 2)
    BY <1>4, <1>6
  <2>3. Hpm!Plan[confirmed + 1] = w
    BY <1>4, <2>1, <2>2
  <2>4. Len(Hpm!Plan) \in Nat
    BY HpmPlan, LenProperties DEF HpmPhases
  <2>5. HpmFrom(package, i + 1) = HpmFrom(package, i) + (c + 2)
    BY <1>4, <2>1
  <2>6. HpmFrom(package, i + 1) = confirmed + 1
    BY <1>4, <1>6, <2>5
  <2>7. confirmed \in Nat
    BY <1>4, <1>6
  <2>8. confirmed < Len(Hpm!Plan)
    BY <1>4, <2>4, <2>6, <2>7
  <2> QED
    BY <2>3, <2>6, <2>7, <2>8, Zenon
<1>9. w # Hpm!NoWrite
  BY HpmWriteIs
<1> HIDE DEF w
<1>10. \/ /\ o.ok = TRUE /\ o.carried = TRUE /\ executed' = Append(executed, w)
          /\ confirmed' = confirmed + 1 /\ uncertain' = Hpm!NoWrite
       \/ /\ o.ok = FALSE /\ (executed' = Append(executed, w) \/ executed' = executed)
          /\ confirmed' = confirmed /\ uncertain' = w
  BY <1>2, HpmAnswers
<1>11. HpmSent
  BY <1>3, <1>8, <1>9, <1>10 DEF HpmSent
<1>12. finished \in Nat /\ finished_images \in Nat /\ finished = finished_images /\ finished = UploadsTo(package, i - 1)
  BY <1>3 DEF HpmProgress
<1>a. UploadsTo(package, i) = UploadsTo(package, i - 1) + 1
  <2>1. i - 1 \in Nat /\ (i - 1) + 1 = i
    BY <1>3
  <2> QED
    BY <1>5, <2>1, UploadsNext
<1> HIDE DEF i, a, c
<1>i. i = action_index /\ a = package[action_index]
  BY DEF i, a
<1>13. CASE o.ok = FALSE
  <2>1. /\ pc' = "ready" /\ phase' = "Uploading" /\ uncertain' = w /\ finished_images' = finished_images
        /\ finished' = finished + 1 \/ finished' = finished
    BY <1>2, <1>3, <1>10, <1>13 DEF Hpm!After, Hpm!Attempted
  <2>4. HpmPhases'
    BY <1>1, <2>1, HpmNext DEF HpmPhases
  <2>5. HpmPosition'
    BY <1>1, <2>1, HpmNext
  <2>6. HpmProgress'
    <3>0. finished \in Nat /\ finished_images \in Nat /\ finished = finished_images
      BY <1>12, Zenon
    <3>a. finished_images' = finished_images
      BY <2>1, Zenon
    <3>b. (finished' = finished + 1) \/ (finished' = finished)
      BY <2>1, Zenon
    <3>1. finished' \in Nat /\ finished_images' \in Nat
      BY <3>0, <3>a, <3>b
    <3>2. finished' = finished_images' \/ (finished' = finished_images' + 1 /\ uncertain' # Hpm!NoWrite)
      BY <1>9, <2>1, <3>0, <3>a, <3>b
    <3>3. pc' = "ready" /\ phase' # "Uploaded"
      BY <2>1
    <3> QED
      BY <1>1, <3>1, <3>2, <3>3, HpmNext
  <2> QED
    BY <1>11, <2>4, <2>5, <2>6
<1>14. CASE o.ok = TRUE
  <2>1. /\ pc' = "next" /\ uncertain' = Hpm!NoWrite /\ confirmed' = confirmed + 1
        /\ finished' = finished + 1 /\ finished_images' = finished_images + 1
        /\ phase' = IF i = Len(package) THEN "Uploaded" ELSE "Uploading"
    BY <1>2, <1>3, <1>10, <1>14, <1>i DEF Hpm!After, Hpm!Attempted
  <2>2. confirmed' = HpmFrom(package, i + 1) /\ finished' = UploadsTo(package, i)
    BY <1>8, <1>12, <1>a, <2>1
  <2>4. HpmPhases'
    BY <1>1, <1>3, <1>i, <2>1, HpmNext DEF HpmPhases
  <2>5. HpmPosition'
    BY <1>1, <1>3, <1>i, <2>1, <2>2, HpmNext
  <2>6. HpmProgress'
    <3>0. finished \in Nat /\ finished_images \in Nat /\ finished = finished_images
      BY <1>12, Zenon
    <3>a. finished_images' = finished_images + 1
      BY <2>1, Zenon
    <3>b. finished' = finished + 1
      BY <2>1, Zenon
    <3>1. finished' \in Nat /\ finished_images' \in Nat /\ finished' = finished_images'
      BY <3>0, <3>a, <3>b
    <3>2. pc' = "next" /\ action_index' = i
      BY <1>3, <1>i, <2>1
    <3>3. phase' = "Uploaded" => finished' = UploadsTo(package, Len(package))
      BY <2>1, <2>2
    <3> QED
      BY <1>1, <2>2, <3>1, <3>2, <3>3, HpmNext
  <2> QED
    BY <1>11, <2>4, <2>5, <2>6
<1> QED
  BY <1>10, <1>13, <1>14

\* The last write of the plan.
LEMMA HpmActivates ==
  ASSUME HpmPlace, Hpm!Activate
  PROVE  HpmPlace' /\ HpmSent
<1> USE DEF HpmPlace
<1>1. package' = package
  BY HpmFixed DEF Hpm!Next
<1> DEFINE w == Hpm!Write("activate", 0, 0, 0)
<1>2. PICK o \in Hpm!Outcomes : Hpm!Sent(o, w) /\ phase' = IF o.ok THEN "ActivationAcknowledged" ELSE phase
  BY DEF Hpm!Activate
<1>3. /\ pc = "ready" /\ phase = "Uploaded" /\ uncertain = Hpm!NoWrite
      /\ UNCHANGED <<pc, action_index, confirmed_bytes, finished_images, initiated, received, finished>>
  BY DEF Hpm!Activate, Hpm!target
<1>4. confirmed \in Nat /\ Len(Hpm!Plan) = confirmed + 1 /\ Hpm!Plan[confirmed + 1] = w
  <2>1. confirmed = HpmFrom(package, Len(package) + 1)
    BY <1>3 DEF HpmPosition
  <2>2. /\ Len(Hpm!Plan) = HpmFrom(package, Len(package) + 1) + 1 /\ Hpm!Plan[Len(Hpm!Plan)] = w
        /\ Len(package) \in Nat \ {0}
        /\ \A i \in 1..Len(package) : HpmFrom(package, i) \in Nat /\ Len(Hpm!WritesOf(package[i])) \in Nat
                                     /\ HpmFrom(package, i + 1) = HpmFrom(package, i) + Len(Hpm!WritesOf(package[i]))
    BY HpmPlan DEF HpmPhases
  <2>3. HpmFrom(package, Len(package) + 1) \in Nat
    <3>1. Len(package) \in 1..Len(package)
      BY <2>2
    <3>2. /\ HpmFrom(package, Len(package)) \in Nat /\ Len(Hpm!WritesOf(package[Len(package)])) \in Nat
          /\ HpmFrom(package, Len(package) + 1) = HpmFrom(package, Len(package)) + Len(Hpm!WritesOf(package[Len(package)]))
      BY <2>2, <3>1, Zenon
    <3> QED
      BY <3>2
  <2> QED
    BY <2>1, <2>2, <2>3
<1>5. w # Hpm!NoWrite
  BY HpmWriteIs
<1> HIDE DEF w
<1>6. \/ /\ o.ok = TRUE /\ o.carried = TRUE /\ executed' = Append(executed, w)
         /\ confirmed' = confirmed + 1 /\ uncertain' = Hpm!NoWrite
      \/ /\ o.ok = FALSE /\ (executed' = Append(executed, w) \/ executed' = executed)
         /\ confirmed' = confirmed /\ uncertain' = w
  BY <1>2, HpmAnswers
<1>7. HpmSent
  BY <1>3, <1>4, <1>5, <1>6 DEF HpmSent
<1>8. CASE o.ok = TRUE
  <2>1. phase' = "ActivationAcknowledged" /\ uncertain' = Hpm!NoWrite
    BY <1>2, <1>6, <1>8
  <2> QED
    BY <1>1, <1>3, <1>7, <2>1, HpmNext DEF HpmPhases, HpmProgress
<1>9. CASE o.ok = FALSE
  <2>1. phase' = "Uploaded" /\ uncertain' = w /\ confirmed' = confirmed
    BY <1>2, <1>3, <1>6, <1>9
  <2>4. HpmPhases'
    BY <1>1, <1>3, <2>1, HpmNext DEF HpmPhases
  <2>5. HpmPosition'
    BY <1>1, <1>3, <2>1, HpmNext DEF HpmPosition
  <2>6. HpmProgress'
    <3>1. /\ finished \in Nat /\ finished_images \in Nat /\ finished = finished_images
          /\ finished = UploadsTo(package, Len(package))
      BY <1>3 DEF HpmProgress
    <3> QED
      BY <1>1, <1>3, <1>5, <2>1, <3>1, HpmNext
  <2> QED
    BY <1>7, <2>4, <2>5, <2>6
<1> QED
  BY <1>6, <1>8, <1>9

\* The one undo.
LEMMA HpmRollsBack ==
  ASSUME HpmPlace, Hpm!Rollback
  PROVE  /\ HpmPlace' /\ confirmed' = confirmed
         /\ uncertain = Hpm!NoWrite /\ phase # "RollbackAcknowledged"
         /\ executed' = Append(executed, [op |-> "rollback"]) \/ executed' = executed
         /\ uncertain' # Hpm!NoWrite \/ phase' = "RollbackAcknowledged"
<1> USE DEF HpmPlace
<1>1. package' = package
  BY HpmFixed DEF Hpm!Next
<1>2. PICK o \in Hpm!Outcomes :
         /\ executed' = IF o.carried THEN Append(executed, Hpm!Undo) ELSE executed
         /\ Hpm!Uncertain(o, Hpm!Undo)
         /\ phase' = IF o.ok THEN "RollbackAcknowledged" ELSE Hpm!Attempted
  BY DEF Hpm!Rollback
<1>3. /\ pc = "ready" /\ phase # "RollbackAcknowledged" /\ uncertain = Hpm!NoWrite
      /\ UNCHANGED <<pc, confirmed, action_index, confirmed_bytes, finished_images, initiated, received, finished>>
  BY DEF Hpm!Rollback, Hpm!MayRollback, Hpm!target
<1>4. Hpm!Undo # Hpm!NoWrite
  <2>1. Hpm!Undo.op = "rollback" /\ Hpm!NoWrite.op = "none"
    BY DEF Hpm!Undo, Hpm!NoWrite, Hpm!Write
  <2> QED
    BY <2>1
<1>5. executed' = Append(executed, [op |-> "rollback"]) \/ executed' = executed
  BY <1>2 DEF Hpm!Undo
<1>6. \/ phase' = "RollbackAcknowledged" /\ uncertain' = Hpm!NoWrite
      \/ phase' = Hpm!Attempted /\ uncertain' = Hpm!Undo
  BY <1>2 DEF Hpm!Uncertain
<1>7. CASE phase' = "RollbackAcknowledged" /\ uncertain' = Hpm!NoWrite
  BY <1>1, <1>3, <1>5, <1>7, HpmNext DEF HpmPhases, HpmProgress
<1>8. CASE phase' = Hpm!Attempted /\ uncertain' = Hpm!Undo
  <2>1. phase' # "Prepared" /\ (phase' = phase \/ phase' = "Uploading")
    BY <1>8 DEF Hpm!Attempted
  <2>2. uncertain' # Hpm!NoWrite
    BY <1>4, <1>8
  <2>4. HpmPhases'
    BY <1>1, <1>3, <2>1, HpmNext DEF HpmPhases
  <2>5. HpmPosition'
    BY <1>1, <1>3, <2>1, HpmNext DEF HpmPosition
  <2>6. HpmProgress'
    <3>1. /\ finished \in Nat /\ finished_images \in Nat /\ finished = finished_images
          /\ phase = "Uploaded" => finished = UploadsTo(package, Len(package))
      BY <1>3 DEF HpmProgress
    <3> QED
      BY <1>1, <1>3, <2>1, <2>2, <3>1, HpmNext
  <2> QED
    BY <1>3, <1>5, <2>2, <2>4, <2>5, <2>6
<1> QED
  BY <1>6, <1>7, <1>8

LEMMA HpmSends ==
  ASSUME program = "hpm", program' = program, HpmPlace, Hpm!Next
  PROVE  HpmPlace' /\ [Promise!Next]_Promise!vars
<1>1. /\ Plan = Hpm!Plan /\ Plan' = Hpm!Plan'
      /\ (Halted <=> Hpm!Halted) /\ (Halted' <=> Hpm!Halted')
  BY PlanOf DEF OwnPlan
<1>2. Plan' = Plan
  BY <1>1, HpmFixed
<1>a. (Halted <=> uncertain # Hpm!NoWrite \/ phase = "RollbackAcknowledged")
      /\ (Halted' <=> uncertain' # Hpm!NoWrite \/ phase' = "RollbackAcknowledged")
  BY <1>1 DEF Hpm!Halted, Hpm!NoWrite, Hpm!Write
<1>3. CASE Hpm!Upload \/ Hpm!Cancel \/ Hpm!ActionDone
  <2>1. HpmPlace' /\ UNCHANGED <<executed, confirmed, uncertain, phase>>
    BY <1>3, HpmQuiet
  <2> QED
    BY <1>2, <1>a, <2>1, Quiet
<1>4. CASE Hpm!Initiate \/ Hpm!UploadBlock \/ Hpm!Finish \/ Hpm!Activate
  <2>1. HpmPlace' /\ HpmSent
    BY <1>4, HpmInitiates, HpmUploadsBlock, HpmFinishes, HpmActivates
  <2>2. /\ ~Halted /\ confirmed < Len(Plan)
        /\ \/ executed' = Append(executed, Plan[confirmed + 1]) /\ confirmed' = confirmed + 1
           \/ /\ executed' = Append(executed, Plan[confirmed + 1]) \/ executed' = executed
              /\ confirmed' = confirmed /\ Halted'
    BY <1>1, <1>a, <2>1 DEF HpmSent
  <2> QED
    BY <1>2, <2>1, <2>2, Sending
<1>5. CASE Hpm!Rollback
  <2>1. /\ HpmPlace' /\ confirmed' = confirmed
        /\ uncertain = Hpm!NoWrite /\ phase # "RollbackAcknowledged"
        /\ executed' = Append(executed, [op |-> "rollback"]) \/ executed' = executed
        /\ uncertain' # Hpm!NoWrite \/ phase' = "RollbackAcknowledged"
    BY <1>5, HpmRollsBack
  <2>2. ~Halted /\ Halted' = TRUE
    <3>1. ~Halted /\ Halted'
      BY <1>a, <2>1
    <3> QED
      BY <3>1, HaltedIs, Zenon DEF Ended
  <2> QED
    BY <1>2, <2>1, <2>2 DEF Promise!Next, Promise!Undone, Promise!Stopped
<1> QED
  BY <1>3, <1>4, <1>5 DEF Hpm!Next

-----------------------------------------------------------------------------
\* Where each workflow starts.
LEMMA PlansStart ==
  ASSUME executed = <<>>, confirmed = 0
  PROVE  Len(Plan) \in Nat => AsPlanned
<1>1. <<>> \in Seq(Items) /\ Len(<<>>) = 0
  BY EmptySeq
<1> QED
  BY <1>1 DEF AsPlanned

LEMMA GuardedTransferStart ==
  ASSUME program = "guarded", Guarded!Init
  PROVE  GuardedSent /\ AsPlanned /\ ~Halted
<1>1. blocks \in Nat /\ pc = "begin" /\ confirmed = 0 /\ executed = <<>> /\ ~failed_write /\ ~failed_commit
  <2>1. blocks \in 1 .. Writes \/ blocks = 1
    BY DEF Guarded!Init
  <2> QED
    BY <2>1, SizesAssumption DEF Guarded!Init
<1>2. Len(Plan) \in Nat
  <2>1. Plan = Guarded!Plan
    BY PlanOf DEF OwnPlan
  <2> QED
    BY <1>1, <2>1, GuardedPlan, LenProperties
<1> QED
  BY <1>1, <1>2, PlansStart, PlanOf DEF GuardedSent, OwnPlan, Guarded!Halted

LEMMA ImeTransferStart ==
  ASSUME program = "ime", Ime!Init
  PROVE  ImePlace /\ ImeRuns /\ AsPlanned /\ ~Halted
<1>1. Len(Plan) \in Nat
  <2>1. Plan = Ime!Plan
    BY PlanOf DEF OwnPlan
  <2> QED
    BY <2>1, ImePlan DEF Ime!Init
<1>2. AsPlanned
  BY <1>1, PlansStart DEF Ime!Init
<1>3. ImePlace /\ ImeRuns
  BY DEF Ime!Init, ImePlace, ImeRuns, Ime!RunsWhatItReports, Ime!Succeeded
<1> QED
  BY <1>2, <1>3, PlanOf DEF OwnPlan, Ime!Halted, Ime!Init

LEMMA BlocksTransferStart ==
  ASSUME program = "blocks", Blocks!Init
  PROVE  BlocksPlace /\ BlocksHeld /\ ~Halted
<1>1. /\ pc = "check" /\ confirmed = 0 /\ held = {} /\ outcome = "none" /\ final = FALSE
      /\ writer \in {"lcd", "ssh", "luapi", "dcmi", "fru"}
      /\ length \in Nat /\ (writer \in {"ssh", "luapi"} => length # 0)
      /\ path \in Nat
  <2>1. path \in 1..Block + 1 \/ path = 0
    BY DEF Blocks!Init
  <2>2. length \in 1..Longest \/ (length \in 0..Longest /\ writer \notin {"ssh", "luapi"})
    BY DEF Blocks!Init
  <2> QED
    BY <2>1, <2>2, SizesAssumption DEF Blocks!Init
<1>2. BlocksValue
  BY <1>1 DEF BlocksValue
<1>3. Covered(confirmed) = 0
  BY <1>1, <1>2, BlocksPlanned DEF BlocksInPlace
<1>4. 1..0 = {}
  OBVIOUS
<1>5. BlocksHeld
  BY <1>1, <1>3, <1>4 DEF BlocksHeld, Blocks!WholeValue, Blocks!EndIsLast, Blocks!Succeeded
<1> QED
  BY <1>1, <1>2, <1>5, PlanOf DEF BlocksPlace, OwnPlan, Blocks!Halted

LEMMA SettingsTransferStart ==
  ASSUME program = "settings", Settings!Init
  PROVE  SettingsPlace /\ ~Halted
BY PlanOf DEF OwnPlan, Settings!Init, Settings!Halted, SettingsPlace

LEMMA KontronTransferStart ==
  ASSUME program = "kontron", Kontron!Init
  PROVE  KontronSent /\ ~Halted
<1>1. confirmed = 0 /\ executed = <<>> /\ outcome = "none" /\ pc \in {"identify", "reserve"}
  BY DEF Kontron!Init
<1> QED
  BY <1>1, PlanOf DEF KontronSent, Kontron!AppliedExact, OwnPlan, Kontron!Halted

LEMMA HpmTransferStart ==
  ASSUME program = "hpm", Hpm!Init
  PROVE  HpmPlace /\ ~Halted
<1>1. /\ pc = "ready" /\ confirmed = 0 /\ package \in Packages /\ phase = "Prepared"
      /\ uncertain = Hpm!NoWrite /\ finished_images = 0 /\ finished = 0
  BY DEF Hpm!Init
<1>2. HpmPlace
  BY <1>1 DEF HpmPlace, HpmPhases, HpmPosition, HpmProgress
<1> QED
  BY <1>1, <1>2, PlanOf DEF OwnPlan, Hpm!Halted

LEMMA FwumTransferStart ==
  ASSUME program = "fwum", Fwum!Init
  PROVE  FwumPlace /\ AsPlanned /\ ~Halted
<1>1. /\ pc = "read" /\ executed = <<>> /\ confirmed = 0 /\ phase = "Preparing" /\ goal = "prepare"
      /\ confirmed_bytes = 0 /\ saved = 0 /\ booting = "no" /\ seen = <<>>
      /\ old_good_bank \in {1, 2} /\ banks = Fwum!Baseline
  BY DEF Fwum!Init, Fwum!Banks
<1>2. banks[Fwum!Spare].state # "good"
  <2>1. \E b \in {1, 2} : b # old_good_bank
    BY <1>1
  <2>2. Fwum!Spare \in {1, 2} /\ Fwum!Spare # old_good_bank
    BY <2>1 DEF Fwum!Spare, Fwum!Banks
  <2>3. Fwum!Baseline[Fwum!Spare] = Fwum!Status("previous", "old")
    BY <2>2 DEF Fwum!Baseline, Fwum!Banks
  <2> QED
    BY <1>1, <2>3 DEF Fwum!Status
<1>3. FwumPhases /\ FwumCount
  BY <1>1 DEF FwumPhases, FwumCount, Fwum!Phases
<1>4. FwumReports
  BY <1>1, <1>2, EmptySeq, SizesAssumption DEF FwumReports, Early, Late
<1>5. Len(Plan) \in Nat
  <2>1. Plan = Fwum!Plan
    BY <1>1, PlanOf DEF OwnPlan
  <2> QED
    BY <2>1, FwumPlan, LenProperties
<1> QED
  BY <1>1, <1>3, <1>4, <1>5, PlansStart, PlanOf DEF FwumPlace, OwnPlan, Fwum!Halted

\* Nothing moves: no plan changes,
LEMMA PlansStay ==
  ASSUME UNCHANGED <<program, pc, phase, uncertain, bridged, negotiated, package, workflow, changed, before, blocks, commit_mode,
                     goal, writer, length, path, setter>>
  PROVE  UNCHANGED <<Plan, Halted>>
<1>1. Fwum!Plan' = Fwum!Plan
  <2>1. Fwum!Buffers' = Fwum!Buffers
    BY DEF Fwum!Buffers
  <2> QED
    BY <2>1 DEF Fwum!Plan
<1>2. Hpm!Plan' = Hpm!Plan
  BY DEF Hpm!Plan
<1>3. Kontron!Plan' = Kontron!Plan
  BY KontronPlanFixed
<1>4. Guarded!Plan' = Guarded!Plan
  BY DEF Guarded!Plan, Guarded!Write
<1>5. Ime!Plan' = Ime!Plan
  BY DEF Ime!Plan, Ime!Write
<1>6. Blocks!Plan' = Blocks!Plan
  BY DEF Blocks!Plan
<1>7. Settings!Plan' = Settings!Plan
  BY DEF Settings!Plan, Settings!Write
<1>8. Plan' = Plan
  BY <1>1, <1>2, <1>3, <1>4, <1>5, <1>6, <1>7, PlanOf DEF OwnPlan
<1>9. Halted' = Halted
  <2>1. Halted' <=> Halted
    BY PlanOf DEF OwnPlan, Fwum!Halted, Hpm!Halted, Kontron!Halted, Guarded!Halted, Ime!Halted, Blocks!Halted, Settings!Halted
  <2> QED
    BY <2>1, HaltedIs, Zenon DEF Ended
<1> QED
  BY <1>8, <1>9

\* and every workflow stays where it is.
LEMMA AsPlannedStays ==
  ASSUME AsPlanned, UNCHANGED <<executed, confirmed, Plan, Halted>>
  PROVE  AsPlanned'
BY DEF AsPlanned, Items

LEMMA GuardedTransferStays ==
  ASSUME program = "guarded", program' = program, GuardedSent, UNCHANGED <<pc, executed, confirmed, GuardedOwn>>
  PROVE  GuardedSent'
<1>1. UNCHANGED <<pc, executed, confirmed, blocks, commit_mode, begin, failed_write, failed_commit>>
  BY DEF GuardedOwn
<1>2. Guarded!Plan' = Guarded!Plan
  BY <1>1 DEF Guarded!Plan, Guarded!Write
<1>3. Plan' = Plan
  BY <1>2, PlanOf DEF OwnPlan
<1> QED
  BY <1>1, <1>3 DEF GuardedSent

LEMMA ImeTransferStays ==
  ASSUME ImePlace, ImeRuns, UNCHANGED <<pc, confirmed, goal, outcome, ImeOwn>>
  PROVE  ImePlace' /\ ImeRuns'
<1>1. UNCHANGED <<pc, confirmed, goal, outcome, update_state, running>>
  BY DEF ImeOwn
<1>2. Ime!Plan' = Ime!Plan
  BY DEF Ime!Plan, Ime!Write
<1> QED
  BY <1>1, <1>2 DEF ImePlace, ImeRuns, Ime!RunsWhatItReports, Ime!Succeeded

LEMMA BlocksTransferStays ==
  ASSUME BlocksPlace, BlocksHeld, UNCHANGED <<pc, confirmed, outcome, BlocksOwn>>
  PROVE  BlocksPlace' /\ BlocksHeld'
<1>1. UNCHANGED <<pc, confirmed, outcome, writer, length, path, held, final, applied>>
  BY DEF BlocksOwn
<1>2. Blocks!Plan' = Blocks!Plan
  BY <1>1 DEF Blocks!Plan
<1>3. Covered(confirmed)' = Covered(confirmed)
  BY <1>1, <1>2 DEF Covered, PathBlocks
<1> QED
  BY <1>1, <1>2, <1>3 DEF BlocksPlace, BlocksHeld, BlocksValue, Blocks!WholeValue, Blocks!EndIsLast, Blocks!Succeeded

LEMMA KontronTransferStays ==
  ASSUME KontronSent, UNCHANGED <<pc, executed, confirmed, large, bridged, outcome, KontronOwn>>
  PROVE  KontronSent'
<1>1. UNCHANGED <<pc, executed, confirmed, large, bridged, outcome, workflow, changed, fru, tampered, before, step>>
  BY DEF KontronOwn
<1>2. UNCHANGED <<Last, Kontron!Steps, Kontron!Desired>>
  BY <1>1, KontronFixed, KontronPlanFixed
<1> QED
  BY <1>1, <1>2 DEF KontronSent, Kontron!AppliedExact

LEMMA HpmTransferStays ==
  ASSUME HpmPlace, UNCHANGED <<pc, confirmed, phase, confirmed_bytes, uncertain, HpmOwn>>
  PROVE  HpmPlace'
<1>1. UNCHANGED <<pc, confirmed, phase, confirmed_bytes, uncertain, package, action_index, finished_images, initiated, received, finished>>
  BY DEF HpmOwn
<1> QED
  BY <1>1, HpmNext DEF HpmPlace, HpmPhases, HpmPosition, HpmProgress

LEMMA FwumTransferStays ==
  ASSUME FwumPlace, UNCHANGED <<pc, confirmed, large, phase, confirmed_bytes, bridged, cleanup, goal, FwumOwn>>
  PROVE  FwumPlace'
<1>1. UNCHANGED <<pc, confirmed, phase, confirmed_bytes, bridged, goal, bank, armed, seen, negotiated, old_good_bank,
                  banks, saved, booting>>
  BY DEF FwumOwn
<1>2. UNCHANGED <<Fwum!Buffers, Fwum!Spare>>
  BY <1>1 DEF Fwum!Buffers, Fwum!Spare
<1>3. FwumPhases'
  BY <1>1 DEF FwumPlace, FwumPhases
<1>4. FwumCount'
  BY <1>1, <1>2 DEF FwumPlace, FwumCount, SavedAt
<1>5. FwumReports'
  BY <1>1, <1>2 DEF FwumPlace, FwumReports
<1> QED
  BY <1>3, <1>4, <1>5 DEF FwumPlace
=============================================================================
