------------------------------- MODULE SelPoll -------------------------------
(***************************************************************************)
(* The System Event Log poller, SelPoller of ipmi-rs/src/events.rs: it     *)
(* scans the whole log with the iterator of SelWalk and compares each      *)
(* complete scan with the one before.                                      *)
(***************************************************************************)
EXTENDS SelWalk

VARIABLES
    previous,   \* records of the last complete scan
    info,       \* Get SEL Info after it; NoInfo before the baseline
    batch,      \* what poll_once() returned last
    known,      \* history: serials in the baseline or reported
    stale,      \* history: previous records already erased when their scan ended
    owed        \* history: serials logged since the baseline and neither
                \* reported nor excused

vars == <<walkVars, previous, info, batch, known, stale, owed>>

NoInfo == [add |-> -1, del |-> -1, overflow |-> FALSE]
NoBatch == [entries |-> {}, continuity_lost |-> FALSE]
Infos == [add : 0 .. MaxChanges, del : 0 .. MaxChanges, overflow : BOOLEAN]
SelInfo == [add |-> last_add_time, del |-> last_del_time, overflow |-> overflow]

Init ==
    /\ InitWalk
    /\ previous = {} /\ info = NoInfo /\ batch = NoBatch
    /\ known = {} /\ stale = {} /\ owed = {}

UnchangedPoller == UNCHANGED <<previous, info, batch, known, stale>>

(* A record is the same if number and content are. *)
Same(r, s) == r.id = s.id /\ r.raw = s.raw
NewIn(records) == {r \in records : \A p \in previous : ~Same(p, r)}
Missing(records) == {p \in previous : \A r \in records : r.id # p.id}

ContinuityLost_NoTimestamp(records) == Missing(records) # {} \/ overflow

ContinuityLost(records) ==
    \/ Missing(records) # {}
    \/ info.del # last_del_time
    \/ overflow
    \/ NewIn(records) = {} /\ info.add # last_add_time

(* The count of Get SEL Info after the scan is not that of the scan. *)
Unstable(entries) == entries # Len(emitted)

(* The scan's records and the info after them become the baseline. *)
Accept_InfoOnly == info' = SelInfo /\ UNCHANGED previous

Accept ==
    /\ previous' = EmittedSet
    /\ info' = SelInfo

Baseline ==
    /\ info = NoInfo
    /\ Accept
    /\ known' = Serials(EmittedSet)
    /\ UNCHANGED <<batch, owed>>

(* Still in the log, and unlike every record of this scan and the last. *)
Distinct == {r \in LogSet : \A p \in previous \union EmittedSet : ~Same(p, r)}

(* What a batch excuses: under a gap all but the distinct records, and in  *)
(* any case a record that is the same as one erased while the last scan    *)
(* read it ("identical reused IDs cannot be disambiguated").               *)
Excused(gap) ==
    (IF gap THEN owed \ Serials(Distinct) ELSE {})
      \union Serials({r \in EmittedSet : \E p \in stale : Same(p, r)})

PollOnce ==
    /\ info # NoInfo
    /\ Accept
    /\ batch' = [entries |-> NewIn(EmittedSet), continuity_lost |-> ContinuityLost(EmittedSet)]
    /\ known' = known \union Serials(batch'.entries)
    /\ owed' = owed \ (known' \union Excused(batch'.continuity_lost))

(* scan() after the last entry, and what new() or poll_once() make of it. *)
EndScan ==
    /\ pc = "end"
    /\ pc' = "idle"
    /\ \E entries \in EntryCounts :
         \/ /\ Unstable(entries)
            /\ outcome' = "refused"
            /\ UnchangedPoller /\ UNCHANGED owed
         \/ /\ ~Unstable(entries)
            /\ outcome' = "scanned"
            /\ Baseline \/ PollOnce
            /\ stale' = EmittedSet \ LogSet
    /\ UNCHANGED <<bmc, reserved, fixed, iterator, history>>

Logged ==
    /\ LogEvent
    /\ owed' = IF info = NoInfo THEN owed ELSE owed \union {events'}

Outside ==
    /\ Logged \/ ((DeleteEntry \/ ClearLog) /\ UNCHANGED owed)
    /\ UNCHANGED <<fixed, pc, iterator, outcome, history>>
    /\ UnchangedPoller

Scan == EndScan \/ (Walk /\ UnchangedPoller /\ UNCHANGED owed)

Next ==
    \/ BeginScan /\ UnchangedPoller /\ UNCHANGED owed
    \/ Scan
    \/ Outside

Spec == Init /\ [][Next]_vars
-----------------------------------------------------------------------------
TypeOK ==
    /\ LogSet \subseteq Records /\ Len(log) <= Capacity
    /\ next_number \in Numbers \union {MaxChanges + Capacity + 1}
    /\ changes \in 0 .. MaxChanges /\ events \in 0 .. MaxChanges + Capacity
    /\ {overflow, reserved, faulty, has_reservation} \subseteq BOOLEAN
    /\ pc \in {"idle", "info", "reserve", "next", "read", "reinfo", "end"}
    /\ outcome \in {"none", "failed", "refused", "scanned"}
    /\ next_id \in Numbers \union {FIRST, 1, 2, LAST}
    /\ scanned \subseteq Numbers \union {1, 2} /\ seen = {emitted[k].id : k \in DOMAIN emitted}
    /\ remaining_reads \in 0 .. ReadBudget /\ restarts \in 0 .. 2 /\ retry \in 0 .. 2
    /\ Len(emitted) = Cardinality(seen) /\ Len(emitted) <= MaxEntries
    /\ info \in {NoInfo} \union Infos
    /\ owed \subseteq 1 .. events /\ known \subseteq Numbers /\ stale \subseteq previous

(***************************************************************************)
(* Nothing is lost in silence: when a poll has ended, every event logged   *)
(* between the baseline and the beginning of the poll was reported, unless *)
(* a batch admitted a gap since (SelPollBatch::continuity_lost); and an    *)
(* event that is still in the log is reported in any case, if its record   *)
(* differs from the one that had its number before.  A record erased while *)
(* a scan read it may hide one that repeats its number and content.        *)
(***************************************************************************)
NothingMissed ==
    outcome = "scanned" /\ info # NoInfo /\ ~faulty =>
        /\ ~batch.continuity_lost => owed \intersect (1 .. before) = {}
        /\ owed \intersect at_start \intersect Serials(LogSet) = {}

(***************************************************************************)
(* No event is reported twice and none of the baseline is reported, by     *)
(* polls that fail, scan a changing log or start again from FIRST.         *)
(***************************************************************************)
ReportedOnce ==
    [][pc = "end" /\ outcome' = "scanned" /\ info # NoInfo /\ ~faulty =>
         Serials(batch'.entries) \intersect known = {}]_vars
=============================================================================
