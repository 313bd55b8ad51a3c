------------------------------- MODULE SelWalk -------------------------------
(***************************************************************************)
(* The fallible traversal of the System Event Log: SelIter of              *)
(* ipmi-rs/src/sel.rs, over a log that the BMC and other consoles change   *)
(* between any two of its commands.  One action is one command with the    *)
(* handling of its answer.  SelPoll adds the poller that scans with it.    *)
(***************************************************************************)
EXTENDS Integers, Sequences, FiniteSets

CONSTANTS
    MaxEntries,   \* max_entries of the traversal
    Capacity,     \* records the log has room for
    Contents,     \* what a record may say
    MaxChanges    \* bound: events, deletions and clears of one behaviour

(* A record number is 16 bits, and 0xffff stands for the end of the log.   *)
ASSUME WalkAssumption ==
    /\ MaxEntries \in Nat \ {0}
    /\ Capacity \in Nat \ {0}
    /\ MaxChanges \in Nat
    /\ MaxChanges + Capacity < 65535
    /\ Contents # {}

VARIABLES
    \* The BMC.
    log,              \* its records: number, content and, for the properties, serial
    next_number,      \* the record number the next event gets
    events,           \* events so far: the serial of the last one
    changes,          \* changes so far: the clock of the timestamps
    last_add_time, last_del_time, overflow,    \* as Get SEL Info tells them
    reserved,         \* the iterator's reservation is still good
    faulty,           \* this BMC may answer anything (never changes)
    has_reservation,  \* it offers Reserve SEL (never changes)
    \* The iterator.
    pc,               \* the command it is about to send
    next_id, seen, scanned, remaining_reads, restarts,
    retry,            \* repeats of the current read
    emitted,          \* the entries it returned
    outcome,          \* how the last scan ended
    \* History, for the properties.
    began,            \* changes when the scan began
    before,           \* events when the scan began
    at_start          \* serials in the log when the scan began

bmc == <<log, next_number, events, changes, last_add_time, last_del_time, overflow>>
fixed == <<faulty, has_reservation>>
iterator == <<next_id, seen, scanned, remaining_reads, restarts, retry, emitted>>
history == <<began, before, at_start>>
walkVars == <<bmc, reserved, fixed, pc, iterator, outcome, history>>

FIRST == 0
LAST == 65535
Numbers == 1 .. MaxChanges + Capacity
Records == [id : Numbers, raw : Contents, serial : Numbers]
Serials(records) == {r.serial : r \in records}
LogSet == {log[k] : k \in DOMAIN log}
EmittedSet == {emitted[k] : k \in DOMAIN emitted}

(* Every read counts, however often one is repeated. *)
ReadBudget == IF MaxEntries * 4 + 4 < 65536 THEN MaxEntries * 4 + 4 ELSE 65536

-----------------------------------------------------------------------------
(* The BMC, seen through the commands of src/. *)

NewLog(n) == [k \in 1 .. n |-> [id |-> k, raw |-> CHOOSE c \in Contents : TRUE, serial |-> k]]

InitWalk ==
    /\ \E n \in 0 .. Capacity :
         /\ log = NewLog(n)
         /\ next_number = n + 1
         /\ events = n
    /\ changes = 0 /\ last_add_time = 0 /\ last_del_time = 0
    /\ overflow = FALSE /\ reserved = FALSE
    /\ faulty \in BOOLEAN /\ has_reservation \in BOOLEAN
    /\ pc = "idle" /\ next_id = FIRST /\ seen = {} /\ scanned = {}
    /\ remaining_reads = ReadBudget /\ restarts = 0 /\ retry = 0
    /\ emitted = <<>> /\ outcome = "none"
    /\ began = 0 /\ before = 0 /\ at_start = {}

Changeable == ~faulty /\ changes < MaxChanges /\ changes' = changes + 1

(* An event is logged, or dropped by a full log. *)
LogEvent ==
    /\ Changeable
    /\ events' = events + 1
    /\ \/ /\ Len(log) < Capacity
          /\ \E c \in Contents :
               log' = Append(log, [id |-> next_number, raw |-> c, serial |-> events'])
          /\ next_number' = next_number + 1
          /\ last_add_time' = changes'
          /\ UNCHANGED overflow
       \/ /\ Len(log) = Capacity
          /\ overflow' = TRUE
          /\ UNCHANGED <<log, next_number, last_add_time>>
    /\ UNCHANGED <<last_del_time, reserved>>

Erase(records, number) ==
    /\ Changeable
    /\ log' = records
    /\ next_number' = number
    /\ last_del_time' = changes'
    /\ overflow' = FALSE
    /\ reserved' = FALSE
    /\ UNCHANGED <<events, last_add_time>>

DeleteEntry ==
    \E k \in DOMAIN log : Erase(SubSeq(log, 1, k - 1) \o SubSeq(log, k + 1, Len(log)), next_number)

(* After a clear the numbers start again. *)
ClearLog == log # <<>> /\ Erase(<<>>, 1)

(* What Get SEL Info may say of the number of entries. *)
EntryCounts == IF faulty THEN 0 .. 2 ELSE {Len(log)}

Found(k) == [record |-> log[k], next |-> IF k = Len(log) THEN LAST ELSE log[k + 1].id]
Matches(id) == {k \in DOMAIN log : IF id = FIRST THEN k = 1 ELSE log[k].id = id}

(* The entries, none or one, that answer Get SEL Entry. *)
Answers(id) ==
    IF faulty
    THEN [record : [id : {FIRST, 1, 2, LAST}, raw : {CHOOSE c \in Contents : TRUE}, serial : {1}],
          next : {FIRST, 1, 2, LAST}]
    ELSE {Found(k) : k \in Matches(id)}

AbsentPossible(id) == faulty \/ Matches(id) = {}
CancelPossible == faulty \/ (has_reservation /\ ~reserved)
-----------------------------------------------------------------------------
(* The iterator. *)

BeginScan ==
    /\ pc = "idle"
    /\ pc' = "info"
    /\ next_id' = FIRST /\ seen' = {} /\ scanned' = {}
    /\ remaining_reads' = ReadBudget /\ restarts' = 0 /\ retry' = 0
    /\ emitted' = <<>> /\ outcome' = "none"
    /\ began' = changes /\ before' = events /\ at_start' = Serials(LogSet)
    /\ UNCHANGED <<bmc, reserved, fixed>>

Quiet == UNCHANGED <<bmc, fixed, history>>

(* fail(): one error, then nothing more. *)
Fail ==
    /\ pc' = "idle"
    /\ outcome' = "refused"
    /\ UNCHANGED <<reserved, iterator>>

(* next() returns None. *)
Finish ==
    /\ pc' = "end"
    /\ UNCHANGED <<reserved, iterator, outcome>>

(* Without Reserve SEL the walk goes on with reservation zero. *)
AfterInfo == IF has_reservation THEN "reserve" ELSE "next"

FirstInfo ==
    /\ pc = "info"
    /\ \E entries \in EntryCounts :
         \/ entries = 0 /\ Finish
         \/ entries # 0 /\ pc' = AfterInfo /\ UNCHANGED <<reserved, iterator, outcome>>
    /\ Quiet

(* A repeated read continues with the read, anything else with next(). *)
Reserve ==
    /\ pc = "reserve"
    /\ reserved' = TRUE
    /\ pc' = IF retry > 0 THEN "read" ELSE "next"
    /\ UNCHANGED <<iterator, outcome>>
    /\ Quiet

Full_AtEnd(id) == Cardinality(seen) >= MaxEntries
Full_OneMore(id) == id # LAST /\ Cardinality(seen) > MaxEntries
Full(id) == id # LAST /\ Cardinality(seen) >= MaxEntries

(* The checks of next() before it reads. *)
CheckNext ==
    /\ pc = "next"
    /\ \/ next_id = LAST /\ ~Full(next_id) /\ Finish
       \/ (Full(next_id) \/ next_id \in scanned) /\ Fail
       \/ /\ next_id # LAST /\ ~Full(next_id) /\ next_id \notin scanned
          /\ pc' = "read"
          /\ retry' = 0
          /\ UNCHANGED <<reserved, next_id, seen, scanned, remaining_reads, restarts, emitted, outcome>>
    /\ Quiet

Spend == remaining_reads > 0 /\ remaining_reads' = remaining_reads - 1

ReadLimit == pc = "read" /\ remaining_reads = 0 /\ Fail /\ Quiet

(* The reservation was cancelled: a read is safe to repeat. *)
ReadCancelled ==
    /\ pc = "read" /\ CancelPossible /\ Spend
    /\ \/ /\ has_reservation /\ retry < 2
          /\ pc' = "reserve"
          /\ retry' = retry + 1
          /\ UNCHANGED outcome
       \/ /\ ~(has_reservation /\ retry < 2)
          /\ pc' = "idle" /\ outcome' = "refused"
          /\ UNCHANGED retry
    /\ UNCHANGED <<reserved, next_id, seen, scanned, restarts, emitted>>
    /\ Quiet

ReadAbsent ==
    /\ pc = "read" /\ AbsentPossible(next_id) /\ Spend
    /\ pc' = "reinfo"
    /\ UNCHANGED <<reserved, next_id, seen, scanned, restarts, retry, emitted, outcome>>
    /\ Quiet

(* The rescan from FIRST keeps what was emitted and the budget. *)
Rescan_Afresh ==
    /\ next_id' = FIRST
    /\ scanned' = {}
    /\ remaining_reads' = ReadBudget
    /\ UNCHANGED <<seen, restarts>>

Rescan ==
    /\ restarts' = restarts + 1
    /\ next_id' = FIRST
    /\ scanned' = {}
    /\ UNCHANGED <<seen, remaining_reads>>

(* The record is gone: the end of an emptied log, a rescan, or an error. *)
InfoAfterAbsent_Ends == pc = "reinfo" /\ Finish /\ Quiet

InfoAfterAbsent ==
    /\ pc = "reinfo"
    /\ \E entries \in EntryCounts :
         \/ entries = 0 /\ Finish
         \/ entries # 0 /\ (next_id = FIRST \/ restarts >= 2) /\ Fail
         \/ /\ entries # 0 /\ next_id # FIRST /\ restarts < 2
            /\ pc' = AfterInfo
            /\ Rescan
            /\ retry' = 0
            /\ UNCHANGED <<reserved, emitted, outcome>>
    /\ Quiet

(* What next() does not take from a BMC. *)
Unacceptable(id, a) ==
    \/ a.record.id \in {FIRST, LAST}
    \/ id # FIRST /\ a.record.id # id
    \/ a.next \in {FIRST, a.record.id}
    \/ a.record.id \in scanned

ReadEntry ==
    /\ pc = "read" /\ Spend
    /\ \E a \in Answers(next_id) :
         \/ /\ Unacceptable(next_id, a)
            /\ pc' = "idle" /\ outcome' = "refused"
            /\ UNCHANGED <<next_id, seen, scanned, emitted>>
         \/ /\ ~Unacceptable(next_id, a)
            /\ scanned' = scanned \union {a.record.id}
            /\ next_id' = a.next
            /\ seen' = seen \union {a.record.id}
            /\ emitted' = IF a.record.id \in seen THEN emitted ELSE Append(emitted, a.record)
            /\ pc' = "next"
            /\ UNCHANGED outcome
    /\ UNCHANGED <<reserved, restarts, retry>>
    /\ Quiet

(* No answer, an unreadable one, a cancellation or the deadline. *)
CommandFails ==
    /\ pc \in {"info", "reserve", "read", "reinfo", "end"}
    /\ pc' = "idle"
    /\ outcome' = "failed"
    /\ UNCHANGED <<reserved, iterator>>
    /\ Quiet

Walk ==
    \/ FirstInfo \/ Reserve \/ CheckNext \/ ReadLimit \/ ReadCancelled \/ ReadAbsent
    \/ InfoAfterAbsent \/ ReadEntry \/ CommandFails
-----------------------------------------------------------------------------
(***************************************************************************)
(* A walk that ends without an error returned every record that was in the *)
(* log from its beginning to its end, whatever was logged, deleted or      *)
(* cleared meanwhile (SelIter: "reports changes or truncated traversal     *)
(* rather than silently ending").                                          *)
(***************************************************************************)
WalkComplete ==
    pc = "end" /\ ~faulty =>
        at_start \intersect Serials(LogSet) \subseteq Serials(EmittedSet)

(***************************************************************************)
(* A walk refuses a log for a reason: as long as the log does not change   *)
(* and has no more than MaxEntries records, no limit of the iterator       *)
(* (entries, reads, restarts, cycle check) ends it.                        *)
(***************************************************************************)
QuietWalkSucceeds ==
    outcome = "refused" /\ ~faulty => changes > began \/ Len(log) > MaxEntries
=============================================================================
