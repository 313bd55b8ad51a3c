----------------------------- MODULE Reading_proofs -----------------------------
(***************************************************************************)
(* Theorems about Reading, for every value of its constants.               *)
(*                                                                         *)
(* The log.  Record numbers and serials go up along the log (LogOrdered),  *)
(* so whatever was there when a walk began was returned or has a number    *)
(* that the walk has not reached (StillAhead), although records come and   *)
(* go and walks start again; and as long as nothing was erased, what the   *)
(* poller owes is in the log (NothingErased).                              *)
(*                                                                         *)
(* The sensor records.  As long as a reservation is good, what was read of *)
(* a record is of the record that is there (OfOnePiece); a record that is  *)
(* read was never read before (Visited).                                   *)
(*                                                                         *)
(* Paged values.  What was got is the value as far as it goes (SoFar).     *)
(***************************************************************************)
EXTENDS Reading, SequenceTheorems, FiniteSetTheorems, TLAPS

(* Records, as the log and the entries returned have them.                 *)
SelRecords == [id : Nat \ {0}, raw : Contents \union {CHOOSE c \in Contents : TRUE}, serial : Nat \ {0}]

(* The log: numbers and serials go up, and its numbers were given out.     *)
LogOrdered ==
    /\ events \in Nat /\ changes \in 0..MaxChanges
    /\ next_number \in 1..(Capacity + changes + 1)
    /\ log \in Seq(SelRecords)
    /\ \A i \in 1..Len(log) : log[i].id < next_number /\ log[i].serial <= events
    /\ \A i, j \in 1..Len(log) : i < j => log[i].id < log[j].id /\ log[i].serial < log[j].serial

(* A serial names one record, in the log or read of it.                    *)
Known == LogSet \union EmittedSet \union previous
SerialsTell ==
    /\ emitted \in Seq(SelRecords) /\ previous \subseteq SelRecords
    /\ \A r, s \in Known : r.serial = s.serial => r = s
    /\ \A r \in Known : r.serial <= events

(* What was in the log when the scan began, and what was known by then.    *)
SinceBegan ==
    /\ before \in 0..events /\ at_start \subseteq 1..before
    /\ known \subseteq 1..events
    /\ pc # "idle" => known \subseteq 1..before
    /\ pc # "idle" => \A r \in LogSet : r.serial <= before => r.serial \in at_start

(* Of the records there since the scan began, one whose number was         *)
(* returned is the one that was returned.                                  *)
SeenIds ==
    /\ seen = {r.id : r \in EmittedSet}
    /\ pc # "idle" => \A e \in EmittedSet, r \in LogSet : r.serial \in at_start /\ r.id = e.id => r = e

(* Each of them was returned or is ahead.                                  *)
Ahead(r) == r \in EmittedSet \/ next_id = FIRST \/ (next_id # LAST /\ r.id >= next_id)
StillAhead ==
    /\ next_id \in Nat
    /\ pc = "info" => next_id = FIRST
    /\ pc \in {"next", "read", "reserve", "reinfo"} => \A r \in LogSet : r.serial \in at_start => Ahead(r)
    /\ pc = "end" => \A r \in LogSet : r.serial \in at_start => r \in EmittedSet

(* What is known and was read, or still can be, was in the last scan.      *)
Remembered == \A r \in LogSet \union EmittedSet : r.serial \in known => r \in previous

(* As long as nothing was erased since the last scan, all of that scan is  *)
(* there but for what was erased while it ran, all of this one is, and an  *)
(* event that is owed is in the log or was dropped.                        *)
NothingErased ==
    info.del = last_del_time =>
        /\ previous \ stale \subseteq LogSet
        /\ pc # "idle" => EmittedSet \subseteq LogSet
        /\ overflow \/ owed \subseteq Serials(LogSet)
Owing ==
    /\ info = NoInfo => owed = {} /\ previous = {} /\ known = {}
    /\ owed \subseteq 1..events
    /\ last_del_time \in 0..changes
    /\ info # NoInfo => info.del \in 0..last_del_time /\ NothingErased
    /\ owed \intersect Serials(previous) = {}

(* A scan that runs has not ended.                                         *)
Running == pc # "idle" => outcome # "scanned"

SelTrue ==
    /\ LogOrdered /\ SerialsTell /\ SinceBegan /\ SeenIds /\ StillAhead
    /\ Remembered /\ Owing /\ NothingMissed /\ Running

(* A BMC that answers anything promises nothing.                           *)
SelInv == ~faulty => SelTrue
-----------------------------------------------------------------------------
\* A sequence without one of its elements.
LEMMA Removed ==
  ASSUME NEW S, NEW s \in Seq(S), NEW k \in 1..Len(s), NEW t,
         t = SubSeq(s, 1, k - 1) \o SubSeq(s, k + 1, Len(s))
  PROVE  /\ t \in Seq(S) /\ Len(t) = Len(s) - 1
         /\ \A i \in 1..Len(t) : t[i] = IF i < k THEN s[i] ELSE s[i + 1]
<1> DEFINE front == SubSeq(s, 1, k - 1)
           back == SubSeq(s, k + 1, Len(s))
<1>1. Len(s) \in Nat /\ k \in Nat
  OBVIOUS
<1>2. /\ front \in Seq(S) /\ Len(front) = k - 1
      /\ \A i \in 1..(k - 1) : front[i] = s[i]
  <2>1. \A i \in 1..(k - 1) : s[i] \in S
    BY <1>1, ElementOfSeq
  <2> QED
    BY <1>1, <2>1
<1>3. /\ back \in Seq(S) /\ Len(back) = Len(s) - k
      /\ \A i \in 1..(Len(s) - k) : back[i] = s[k + i]
  <2>1. \A i \in 1..(Len(s) - k) : s[k + i] \in S
    BY <1>1, ElementOfSeq
  <2> QED
    BY <1>1, <2>1
<1> HIDE DEF front, back
<1>4. /\ front \o back \in Seq(S) /\ Len(front \o back) = Len(s) - 1
      /\ \A i \in 1..(Len(s) - 1) : (front \o back)[i] = IF i <= k - 1 THEN front[i] ELSE back[i - (k - 1)]
  BY <1>1, <1>2, <1>3
<1>5. ASSUME NEW i \in 1..(Len(s) - 1) PROVE (front \o back)[i] = IF i < k THEN s[i] ELSE s[i + 1]
  <2>1. CASE i < k
    BY <1>1, <1>2, <1>4, <2>1
  <2>2. CASE ~(i < k)
    <3>1. i - (k - 1) \in 1..(Len(s) - k) /\ k + (i - (k - 1)) = i + 1 /\ ~(i <= k - 1)
      BY <1>1, <2>2
    <3> QED
      BY <1>3, <1>4, <2>2, <3>1
  <2> QED
    BY <2>1, <2>2
<1> QED
  BY <1>4, <1>5 DEF front, back

\* A sequence with one more.
LEMMA Appended ==
  ASSUME NEW S, NEW s \in Seq(S), NEW x \in S
  PROVE  /\ Append(s, x) \in Seq(S) /\ Len(Append(s, x)) = Len(s) + 1
         /\ \A i \in 1..Len(s) : Append(s, x)[i] = s[i]
         /\ Append(s, x)[Len(s) + 1] = x
         /\ {Append(s, x)[i] : i \in DOMAIN Append(s, x)} = {s[i] : i \in DOMAIN s} \union {x}
  OBVIOUS

\* Before the first scan.
LEMMA SelStart == Init => SelInv
<1> SUFFICES ASSUME Init, ~faulty PROVE SelTrue
  BY DEF SelInv
<1>1. PICK n \in 0..Capacity : log = NewLog(n) /\ next_number = n + 1 /\ events = n
  BY DEF Init, InitWalk
<1> DEFINE first == CHOOSE c \in Contents : TRUE
<1>2. log = [k \in 1..n |-> [id |-> k, raw |-> first, serial |-> k]] /\ n \in Nat
  BY <1>1, WalkAssumption DEF NewLog
<1>3. first \in Contents \union {first}
  OBVIOUS
<1>4. \A k \in 1..n : [id |-> k, raw |-> first, serial |-> k] \in SelRecords
  BY <1>2 DEF SelRecords
<1> HIDE DEF first
<1>5. log \in Seq(SelRecords) /\ Len(log) = n
  BY <1>2, <1>4
<1>6. LogOrdered
  BY <1>1, <1>2, <1>5, WalkAssumption DEF LogOrdered, Init, InitWalk
<1>7. /\ emitted = <<>> /\ previous = {} /\ pc = "idle" /\ seen = {} /\ next_id = 0 /\ info = NoInfo
      /\ owed = {} /\ known = {} /\ outcome = "none" /\ before = 0 /\ at_start = {} /\ last_del_time = 0
      /\ changes = 0
  BY DEF Init, InitWalk, FIRST
<1>8. EmittedSet = {}
  BY <1>7 DEF EmittedSet
<1>9. SerialsTell
  <2>1. \A i, j \in 1..n : log[i].serial = log[j].serial => i = j
    BY <1>2
  <2>2. Known = {log[k] : k \in 1..n}
    BY <1>2, <1>7, <1>8 DEF Known, LogSet
  <2>3. emitted \in Seq(SelRecords) /\ previous \subseteq SelRecords
    BY <1>7
  <2>4. \A r \in Known : r.serial <= events
    BY <1>1, <1>2, <2>2
  <2> QED
    BY <2>1, <2>2, <2>3, <2>4 DEF SerialsTell
<1>10. SinceBegan /\ SeenIds /\ StillAhead
  BY <1>1, <1>2, <1>7, <1>8 DEF SinceBegan, SeenIds, StillAhead
<1>11. Remembered /\ Owing /\ NothingMissed /\ Running
  BY <1>7, <1>8 DEF Remembered, Owing, NothingMissed, Serials, Running
<1> QED
  BY <1>6, <1>9, <1>10, <1>11 DEF SelTrue

\* What a command of a scan leaves as it is, whatever it does to the walk.
Still == <<log, next_number, events, changes, last_del_time, overflow, faulty, before, at_start,
           previous, info, batch, known, stale, owed>>

\* A command that returns no record.
LEMMA SelMoves ==
  ASSUME SelTrue, UNCHANGED Still, UNCHANGED <<emitted, seen>>, pc # "idle",
         outcome' = "scanned" => outcome = "scanned", StillAhead'
  PROVE  SelTrue'
<1>1. /\ UNCHANGED <<log, next_number, events, changes, last_del_time, overflow, faulty, before, at_start>>
      /\ UNCHANGED <<previous, info, batch, known, stale, owed>>
  BY DEF Still
<1>2. UNCHANGED <<LogSet, EmittedSet, Known>>
  BY <1>1 DEF LogSet, EmittedSet, Known
<1>3. LogOrdered' /\ SerialsTell'
  BY <1>1, <1>2 DEF SelTrue, LogOrdered, SerialsTell
<1>4. SinceBegan' /\ SeenIds' /\ Remembered'
  BY <1>1, <1>2 DEF SelTrue, SinceBegan, SeenIds, Remembered
<1>5. Owing'
  BY <1>1, <1>2 DEF SelTrue, Owing, NothingErased
<1>6. NothingMissed'
  BY <1>1, <1>2 DEF SelTrue, NothingMissed
<1>7. Running'
  BY DEF SelTrue, Running
<1> QED
  BY <1>3, <1>4, <1>5, <1>6, <1>7 DEF SelTrue

\* The commands of a walk but for the read of a record that is there.
LEMMA SelWalks ==
  ASSUME SelTrue, ~faulty, UnchangedPoller, UNCHANGED owed,
         \/ FirstInfo \/ Reserve \/ CheckNext \/ ReadLimit \/ ReadCancelled \/ ReadAbsent
         \/ InfoAfterAbsent \/ CommandFails
  PROVE  SelTrue'
<1>1. /\ UNCHANGED Still /\ UNCHANGED <<emitted, seen>> /\ pc # "idle"
      /\ outcome' \in {outcome, "refused", "failed"}
  BY DEF Still, UnchangedPoller, FirstInfo, Reserve, CheckNext, ReadLimit, ReadCancelled, ReadAbsent, InfoAfterAbsent,
     CommandFails, Quiet, bmc, fixed, history, iterator, Fail, Finish, Rescan, Spend
<1>2. UNCHANGED <<LogSet, EmittedSet, at_start>>
  BY <1>1 DEF LogSet, EmittedSet, Still
<1>3. next_id \in Nat /\ next_id' \in {next_id, FIRST} /\ FIRST \in Nat
  BY DEF SelTrue, StillAhead, FirstInfo, Reserve, CheckNext, ReadLimit, ReadCancelled, ReadAbsent, InfoAfterAbsent,
     CommandFails, iterator, Fail, Finish, Rescan, FIRST
<1>4. LogSet = {} \/ pc' # "end" \/ (pc = "next" /\ next_id = LAST)
  <2>1. ASSUME pc' = "end" PROVE (pc = "next" /\ next_id = LAST) \/ Len(log) = 0
    BY <2>1 DEF FirstInfo, Reserve, CheckNext, ReadLimit, ReadCancelled, ReadAbsent, InfoAfterAbsent,
       CommandFails, Fail, Finish, AfterInfo, EntryCounts
  <2>2. Len(log) = 0 => LogSet = {}
    BY DEF SelTrue, LogOrdered, LogSet
  <2> QED
    BY <2>1, <2>2
<1>5. /\ pc' \in {"idle", "end", "next", "read", "reserve", "reinfo"}
      /\ pc' \in {"next", "read", "reserve", "reinfo"} =>
           \/ next_id' = FIRST
           \/ pc \in {"next", "read", "reserve", "reinfo"} /\ next_id' = next_id
  BY DEF SelTrue, StillAhead, FirstInfo, Reserve, CheckNext, ReadLimit, ReadCancelled, ReadAbsent, InfoAfterAbsent,
     CommandFails, iterator, Fail, Finish, AfterInfo, Rescan
<1>6. StillAhead'
  <2>1. ASSUME pc' \in {"next", "read", "reserve", "reinfo"}, NEW r \in LogSet, r.serial \in at_start PROVE Ahead(r)'
    BY <1>2, <1>5, <2>1 DEF SelTrue, StillAhead, Ahead, FIRST
  <2>2. ASSUME pc' = "end", NEW r \in LogSet, r.serial \in at_start PROVE r \in EmittedSet
    <3>1. pc = "next" /\ next_id = LAST
      BY <1>4, <2>2
    <3>2. Ahead(r)
      BY <2>2, <3>1 DEF SelTrue, StillAhead
    <3> QED
      BY <3>1, <3>2 DEF Ahead, FIRST, LAST
  <2>3. next_id' \in Nat
    BY <1>3
  <2> QED
    BY <1>2, <1>5, <2>1, <2>2, <2>3 DEF StillAhead
<1> QED
  BY <1>1, <1>6, SelMoves

\* A record is read: what is ahead of the walk is ahead of it still, but for
\* the record, which is returned.
LEMMA SelReads ==
  ASSUME SelTrue, ~faulty, UnchangedPoller, UNCHANGED owed, ReadEntry
  PROVE  SelTrue'
<1>1. /\ UNCHANGED Still /\ pc = "read"
      /\ outcome' \in {outcome, "refused"}
  BY DEF Still, UnchangedPoller, ReadEntry, Quiet, bmc, fixed, history
<1>2. PICK k \in Matches(next_id) :
        \/ pc' = "idle" /\ UNCHANGED <<next_id, seen, emitted>>
        \/ /\ ~Unacceptable(next_id, Found(k))
           /\ next_id' = Found(k).next
           /\ seen' = seen \union {log[k].id}
           /\ emitted' = IF log[k].id \in seen THEN emitted ELSE Append(emitted, log[k])
           /\ pc' = "next"
  <2>1. PICK a \in Answers(next_id) :
          \/ pc' = "idle" /\ UNCHANGED <<next_id, seen, emitted>>
          \/ /\ ~Unacceptable(next_id, a)
             /\ next_id' = a.next
             /\ seen' = seen \union {a.record.id}
             /\ emitted' = IF a.record.id \in seen THEN emitted ELSE Append(emitted, a.record)
             /\ pc' = "next"
    BY DEF ReadEntry
  <2>2. PICK k \in Matches(next_id) : a = Found(k)
    BY DEF Answers
  <2>3. a.record = log[k]
    BY <2>2 DEF Found
  <2> QED
    BY <2>1, <2>2, <2>3
<1>3. CASE pc' = "idle" /\ UNCHANGED <<next_id, seen, emitted>>
  <2>1. StillAhead'
    BY <1>3 DEF SelTrue, StillAhead
  <2> QED
    BY <1>1, <1>3, <2>1, SelMoves
<1>4. CASE /\ ~Unacceptable(next_id, Found(k))
           /\ next_id' = Found(k).next
           /\ seen' = seen \union {log[k].id}
           /\ emitted' = IF log[k].id \in seen THEN emitted ELSE Append(emitted, log[k])
           /\ pc' = "next"
  <2>1. /\ UNCHANGED <<log, next_number, events, changes, last_del_time, overflow, faulty, before, at_start>>
        /\ UNCHANGED <<previous, info, batch, known, stale, owed>>
    BY <1>1 DEF Still
  <2>2. /\ LogSet' = LogSet
        /\ k \in 1..Len(log) /\ log[k] \in LogSet /\ log[k] \in SelRecords
        /\ log \in Seq(SelRecords) /\ emitted \in Seq(SelRecords)
        /\ \A r \in LogSet : \E i \in 1..Len(log) : r = log[i]
    BY <2>1 DEF LogSet, Matches, SelTrue, LogOrdered, SerialsTell
  <2>12. /\ Len(log) \in Nat /\ \A i \in 1..Len(log) : log[i].id \in Nat
        /\ \A i, j \in 1..Len(log) : i < j => log[i].id < log[j].id
    <3>1. \A i \in 1..Len(log) : log[i] \in SelRecords
      BY <2>2
    <3> QED
      BY <2>2, <3>1, SMTT(30) DEF SelTrue, LogOrdered, SelRecords
  <2>3. /\ emitted' \in Seq(SelRecords)
        /\ log[k].id \in seen => EmittedSet' = EmittedSet
        /\ log[k].id \notin seen => EmittedSet' = EmittedSet \union {log[k]}
    <3>1. CASE log[k].id \in seen
      BY <1>4, <2>2, <3>1 DEF EmittedSet
    <3>2. CASE log[k].id \notin seen
      <4> DEFINE r == log[k]
                 s == emitted
      <4>1. emitted' = Append(s, r) /\ s \in Seq(SelRecords) /\ r \in SelRecords
        BY <1>4, <2>2, <3>2
      <4> HIDE DEF r, s
      <4>2. /\ Append(s, r) \in Seq(SelRecords)
            /\ {Append(s, r)[i] : i \in DOMAIN Append(s, r)} = {s[i] : i \in DOMAIN s} \union {r}
        BY <4>1, Appended
      <4> QED
        BY <3>2, <4>1, <4>2 DEF EmittedSet, r, s
    <3> QED
      BY <3>1, <3>2
  <2>4. Known' = Known
    BY <2>1, <2>2, <2>3 DEF Known
  <2>5. LogOrdered' /\ SerialsTell'
    BY <2>1, <2>2, <2>3, <2>4 DEF SelTrue, LogOrdered, SerialsTell
  <2>6. SinceBegan'
    BY <1>1, <1>4, <2>1, <2>2 DEF SelTrue, SinceBegan
  <2>7. SeenIds'
    <3>1. seen' = {r.id : r \in EmittedSet'}
      BY <1>4, <2>3 DEF SelTrue, SeenIds
    <3>2. ASSUME NEW e \in EmittedSet', NEW r \in LogSet, r.serial \in at_start, r.id = e.id PROVE r = e
      <4>1. CASE e \in EmittedSet
        BY <1>1, <3>2, <4>1 DEF SelTrue, SeenIds
      <4>2. CASE e \notin EmittedSet
        <5>1. e = log[k]
          BY <2>3, <4>2
        <5>2. PICK i \in 1..Len(log) : r = log[i]
          BY <2>2
        <5>3. i = k
          BY <2>2, <2>12, <3>2, <5>1, <5>2
        <5> QED
          BY <5>1, <5>2, <5>3
      <4> QED
        BY <4>1, <4>2
    <3> QED
      BY <2>1, <2>2, <3>1, <3>2 DEF SeenIds
  <2>8. StillAhead'
    <3>1. next_id' = IF k = Len(log) THEN LAST ELSE log[k + 1].id
      BY <1>4 DEF Found
    <3>2. next_id' \in Nat
      BY <2>2, <2>12, <3>1 DEF LAST
    <3>3. ASSUME NEW r \in LogSet, r.serial \in at_start PROVE Ahead(r)'
      <4>1. PICK i \in 1..Len(log) : r = log[i]
        BY <2>2
      <4>2. Ahead(r)
        BY <1>1, <3>3 DEF SelTrue, StillAhead
      <4>3. CASE r \in EmittedSet
        BY <2>3, <4>3 DEF Ahead
      <4>4. CASE i = k
        <5>1. r \in EmittedSet'
          <6>1. CASE log[k].id \in seen
            <7>1. PICK e \in EmittedSet : e.id = log[k].id
              BY <6>1 DEF SelTrue, SeenIds
            <7>2. r = e
              BY <1>1, <3>3, <4>1, <4>4, <7>1 DEF SelTrue, SeenIds
            <7> QED
              BY <2>3, <6>1, <7>2
          <6>2. CASE log[k].id \notin seen
            BY <2>3, <4>1, <4>4, <6>2
          <6> QED
            BY <6>1, <6>2
        <5> QED
          BY <5>1 DEF Ahead
      <4>5. CASE r \notin EmittedSet /\ i # k
        <5>1. k < i
          <6>1. CASE next_id = FIRST
            <7>1. k = 1
              BY <6>1 DEF Matches
            <7> QED
              BY <4>5, <7>1
          <6>2. CASE next_id # FIRST
            <7>1. log[k].id = next_id /\ log[i].id >= next_id
              BY <4>1, <4>2, <4>5, <6>2 DEF Matches, Ahead
            <7>2. ~(i < k)
              BY <2>2, <2>12, <7>1
            <7> QED
              BY <2>2, <4>5, <7>2
          <6> QED
            BY <6>1, <6>2
        <5>2. k # Len(log) /\ k + 1 \in 1..Len(log) /\ (i = k + 1 \/ k + 1 < i)
          BY <2>2, <5>1
        <5>3. next_id' = log[k + 1].id /\ log[k + 1].id <= log[i].id
          BY <2>2, <2>12, <3>1, <5>2
        <5>4. next_id' # LAST
          <6>1. /\ log[k + 1].id < next_number /\ next_number \in 1..(Capacity + changes + 1)
                /\ changes \in 0..MaxChanges
            BY <5>2 DEF SelTrue, LogOrdered
          <6>2. log[k + 1].id \in Nat
            BY <2>12, <5>2
          <6> QED
            BY <5>3, <6>1, <6>2, WalkAssumption DEF LAST
        <5> QED
          BY <4>1, <5>3, <5>4, <2>2 DEF Ahead, SelRecords
      <4> QED
        BY <4>3, <4>4, <4>5
    <3> QED
      BY <1>4, <2>1, <2>2, <3>2, <3>3 DEF StillAhead
  <2>9. Remembered'
    BY <2>1, <2>2, <2>3 DEF SelTrue, Remembered
  <2>10. Owing'
    <3>1. NothingErased => NothingErased'
      BY <1>1, <1>4, <2>1, <2>2, <2>3 DEF NothingErased
    <3> QED
      BY <2>1, <3>1 DEF SelTrue, Owing
  <2>11. NothingMissed' /\ Running'
    BY <1>1, <2>1, <2>2 DEF SelTrue, NothingMissed, Running
  <2> QED
    BY <2>5, <2>6, <2>7, <2>8, <2>9, <2>10, <2>11 DEF SelTrue
<1> QED
  BY <1>2, <1>3, <1>4

\* A scan begins with the log as it is.
LEMMA SelBegins ==
  ASSUME SelTrue, UnchangedPoller, UNCHANGED owed, BeginScan
  PROVE  SelTrue'
<1>1. /\ UNCHANGED <<log, next_number, events, changes, last_del_time, overflow, previous, info, batch, known, stale, owed>>
      /\ next_id' = FIRST /\ pc' = "info" /\ pc = "idle" /\ emitted' = <<>> /\ seen' = {} /\ outcome' = "none"
      /\ before' = events /\ at_start' = Serials(LogSet)
  BY DEF BeginScan, UnchangedPoller, bmc
<1>2. LogSet' = LogSet /\ EmittedSet' = {} /\ Known' \subseteq Known
  BY <1>1 DEF LogSet, EmittedSet, Known
<1>3. LogOrdered'
  BY <1>1 DEF SelTrue, LogOrdered
<1>4. SerialsTell'
  <2>1. emitted' \in Seq(SelRecords) /\ previous' \subseteq SelRecords
    BY <1>1 DEF SelTrue, SerialsTell
  <2> QED
    BY <1>1, <1>2, <2>1 DEF SelTrue, SerialsTell
<1>5. SinceBegan'
  <2>1. ASSUME NEW r \in LogSet PROVE r.serial \in 1..events
    <3>1. r \in SelRecords /\ r.serial <= events /\ events \in Nat
      BY <2>1 DEF SelTrue, SerialsTell, Known, LogOrdered, LogSet
    <3> QED
      BY <3>1 DEF SelRecords
  <2>2. at_start' \subseteq 1..events
    BY <1>1, <2>1 DEF Serials
  <2>3. \A r \in LogSet : r.serial \in at_start'
    BY <1>1 DEF Serials
  <2>4. events \in Nat /\ known \subseteq 1..events
    BY DEF SelTrue, LogOrdered, SinceBegan
  <2> QED
    BY <1>1, <1>2, <2>2, <2>3, <2>4 DEF SinceBegan
<1>6. SeenIds' /\ StillAhead'
  BY <1>1, <1>2 DEF SeenIds, StillAhead, FIRST
<1>7. Remembered' /\ NothingMissed' /\ Running'
  BY <1>1, <1>2 DEF SelTrue, Remembered, NothingMissed, Running
<1>8. Owing'
  BY <1>1, <1>2 DEF SelTrue, Owing, NothingErased
<1> QED
  BY <1>3, <1>4, <1>5, <1>6, <1>7, <1>8 DEF SelTrue

\* What others do leaves the iterator and the poller as they are.
Aside == <<faulty, pc, next_id, seen, emitted, outcome, before, at_start, previous, info, batch, known, stale>>

\* An event is logged, or dropped by a full log.
LEMMA SelLogs ==
  ASSUME SelTrue, UNCHANGED Aside, Logged
  PROVE  SelTrue'
<1>1. /\ UNCHANGED <<faulty, pc, next_id, seen, emitted, outcome, before, at_start, previous, info, batch, known, stale>>
      /\ UNCHANGED last_del_time
      /\ events' = events + 1 /\ changes' = changes + 1 /\ changes < MaxChanges
      /\ owed' = IF info = NoInfo THEN owed ELSE owed \union {events'}
  BY DEF Aside, Logged, LogEvent, Changeable
<1>2. /\ events \in Nat /\ changes \in 0..MaxChanges /\ next_number \in 1..(Capacity + changes + 1)
      /\ log \in Seq(SelRecords) /\ before \in 0..events /\ Len(log) \in Nat
  BY DEF SelTrue, LogOrdered, SinceBegan
<1>3. EmittedSet' = EmittedSet
  BY <1>1 DEF EmittedSet
<1>4. \/ /\ UNCHANGED overflow /\ next_number' = next_number + 1
         /\ \E c \in Contents : log' = Append(log, [id |-> next_number, raw |-> c, serial |-> events'])
      \/ overflow' = TRUE /\ UNCHANGED <<log, next_number>>
  BY DEF Logged, LogEvent
<1>5. PICK r :
        /\ r.serial = events + 1
        /\ LogSet' = LogSet \/ LogSet' = LogSet \union {r}
        /\ LogSet' = LogSet => overflow'
        /\ LogOrdered'
  <2>1. CASE /\ UNCHANGED overflow /\ next_number' = next_number + 1
             /\ \E c \in Contents : log' = Append(log, [id |-> next_number, raw |-> c, serial |-> events'])
    <3>1. PICK c \in Contents : log' = Append(log, [id |-> next_number, raw |-> c, serial |-> events'])
      BY <2>1
    <3> DEFINE added == [id |-> next_number, raw |-> c, serial |-> events']
    <3>2. added \in SelRecords /\ added.id = next_number /\ added.serial = events + 1
      BY <1>1, <1>2 DEF SelRecords
    <3> HIDE DEF added
    <3>3. /\ log' \in Seq(SelRecords) /\ Len(log') = Len(log) + 1
          /\ \A i \in 1..Len(log) : log'[i] = log[i]
          /\ log'[Len(log) + 1] = added
          /\ LogSet' = LogSet \union {added}
      BY <1>2, <3>1, <3>2, Appended DEF added, LogSet
    <3>4. LogOrdered'
      <4>1. \A i \in 1..Len(log) : log[i].id < next_number /\ log[i].serial <= events
        BY DEF SelTrue, LogOrdered
      <4>2. \A i \in 1..Len(log) : log[i].id \in Nat /\ log[i].serial \in Nat
        <5>1. \A i \in 1..Len(log) : log[i] \in SelRecords
          BY <1>2
        <5> QED
          BY <5>1 DEF SelRecords
      <4>3. \A i, j \in 1..Len(log) : i < j => log[i].id < log[j].id /\ log[i].serial < log[j].serial
        BY DEF SelTrue, LogOrdered
      <4>4. next_number' = next_number + 1
        BY <2>1
      <4>5. \A i \in 1..Len(log') : i \in 1..Len(log) \/ i = Len(log) + 1
        BY <1>2, <3>3
      <4>6. \A i \in 1..Len(log') : log'[i].id < next_number' /\ log'[i].serial <= events'
        BY <1>1, <1>2, <3>2, <3>3, <4>1, <4>2, <4>4, <4>5
      <4>7. \A i, j \in 1..Len(log') : i < j => log'[i].id < log'[j].id /\ log'[i].serial < log'[j].serial
        <5> SUFFICES ASSUME NEW i \in 1..Len(log'), NEW j \in 1..Len(log'), i < j
                     PROVE  log'[i].id < log'[j].id /\ log'[i].serial < log'[j].serial
          OBVIOUS
        <5>1. i \in 1..Len(log) /\ (j \in 1..Len(log) \/ j = Len(log) + 1)
          BY <1>2, <3>3
        <5>2. CASE j \in 1..Len(log)
          BY <3>3, <4>3, <5>1, <5>2
        <5>3. CASE j = Len(log) + 1
          <6>1. /\ log'[j] = added /\ log'[i] = log[i]
                /\ log[i].id < next_number /\ log[i].serial <= events /\ log[i].serial \in Nat
            BY <3>3, <4>1, <4>2, <5>1, <5>3
          <6> QED
            BY <1>2, <3>2, <6>1
        <5> QED
          BY <5>1, <5>2, <5>3
      <4>8. next_number' \in 1..(Capacity + changes' + 1) /\ events' \in Nat /\ changes' \in 0..MaxChanges
        BY <1>1, <1>2, <4>4, WalkAssumption
      <4> QED
        BY <3>3, <4>6, <4>7, <4>8 DEF LogOrdered
    <3>5. LogSet' # LogSet
      <4>1. ASSUME added \in LogSet PROVE FALSE
        BY <1>2, <3>2, <4>1 DEF SelTrue, SerialsTell, Known
      <4> QED
        BY <3>3, <4>1
    <3> QED
      BY <3>2, <3>3, <3>4, <3>5
  <2>2. CASE overflow' = TRUE /\ UNCHANGED <<log, next_number>>
    <3>1. overflow' /\ UNCHANGED <<log, next_number>>
      BY <2>2
    <3>2. LogSet' = LogSet
      BY <3>1 DEF LogSet
    <3>3. LogOrdered'
      <4>1. next_number' \in 1..(Capacity + changes' + 1) /\ events' \in Nat /\ changes' \in 0..MaxChanges
        BY <1>1, <1>2, <3>1, WalkAssumption
      <4>2. \A i \in 1..Len(log) : log[i].serial \in Nat
        <5>1. \A i \in 1..Len(log) : log[i] \in SelRecords
          BY <1>2
        <5> QED
          BY <5>1 DEF SelRecords
      <4>3. \A i \in 1..Len(log) : log[i].serial <= events'
        BY <1>1, <1>2, <4>2 DEF SelTrue, LogOrdered
      <4> QED
        BY <3>1, <4>1, <4>3 DEF SelTrue, LogOrdered
    <3>4. [serial |-> events + 1].serial = events + 1
      OBVIOUS
    <3> QED
      BY <3>1, <3>2, <3>3, <3>4
  <2> QED
    BY <1>4, <2>1, <2>2
<1>6. Known' = Known \/ Known' = Known \union {r}
  BY <1>1, <1>3, <1>5 DEF Known
<1>7. \A s \in Known : s.serial \in 1..events
  <2>1. \A s \in Known : s \in SelRecords
    BY DEF SelTrue, LogOrdered, SerialsTell, Known, LogSet, EmittedSet
  <2> QED
    BY <1>2, <2>1 DEF SelTrue, SerialsTell, SelRecords
<1>8. SerialsTell'
  BY <1>1, <1>2, <1>5, <1>6, <1>7 DEF SelTrue, SerialsTell
<1>9. at_start \subseteq 1..before /\ known \subseteq 1..events
  BY DEF SelTrue, SinceBegan
<1>10. r.serial \notin at_start /\ r.serial \notin known /\ ~(r.serial <= before)
  BY <1>2, <1>5, <1>9
<1>11. SinceBegan'
  BY <1>1, <1>2, <1>5, <1>10 DEF SelTrue, SinceBegan
<1>12. SeenIds'
  BY <1>1, <1>3, <1>5, <1>10 DEF SelTrue, SeenIds
<1>13. StillAhead'
  BY <1>1, <1>3, <1>5, <1>10 DEF SelTrue, StillAhead, Ahead
<1>14. Remembered'
  BY <1>1, <1>3, <1>5, <1>10 DEF SelTrue, Remembered
<1>15. Owing'
  <2>1. owed' \subseteq 1..events' /\ (info = NoInfo => owed' = {}) /\ last_del_time' \in 0..changes'
    BY <1>1, <1>2 DEF SelTrue, Owing
  <2>2. owed' \intersect Serials(previous) = {}
    <3>1. events' \notin Serials(previous)
      BY <1>1, <1>2, <1>7 DEF Serials, Known
    <3> QED
      BY <1>1, <3>1 DEF SelTrue, Owing
  <2>3. NothingErased => NothingErased'
    <3>1. LogSet \subseteq LogSet' /\ Serials(LogSet) \subseteq Serials(LogSet')
      BY <1>5 DEF Serials
    <3>2. overflow' \/ owed' \subseteq Serials(LogSet') \/ ~(overflow \/ owed \subseteq Serials(LogSet))
      <4>1. CASE LogSet' = LogSet
        BY <1>5, <4>1
      <4>2. CASE LogSet' = LogSet \union {r}
        <5>1. events' \in Serials(LogSet')
          BY <1>1, <1>5, <4>2 DEF Serials
        <5>2. CASE overflow
          BY <1>4, <5>2
        <5>3. CASE owed \subseteq Serials(LogSet)
          BY <1>1, <3>1, <5>1, <5>3
        <5> QED
          BY <5>2, <5>3
      <4> QED
        BY <1>5, <4>1, <4>2
    <3> QED
      BY <1>1, <1>3, <3>1, <3>2 DEF NothingErased
  <2> QED
    BY <1>1, <2>1, <2>2, <2>3 DEF SelTrue, Owing
<1>16. NothingMissed'
  <2>1. owed' \intersect (1..before) = owed \intersect (1..before)
    BY <1>1, <1>2
  <2>2. owed' \intersect at_start \intersect Serials(LogSet') = owed \intersect at_start \intersect Serials(LogSet)
    <3>1. events' \notin at_start
      BY <1>1, <1>5, <1>10
    <3> QED
      BY <1>1, <1>5, <1>10, <3>1 DEF Serials
  <2> QED
    BY <1>1, <2>1, <2>2 DEF SelTrue, NothingMissed
<1>17. Running'
  BY <1>1 DEF SelTrue, Running
<1> QED
  BY <1>5, <1>8, <1>11, <1>12, <1>13, <1>14, <1>15, <1>16, <1>17 DEF SelTrue

\* A record is deleted, or all of them.
LEMMA SelErases ==
  ASSUME SelTrue, UNCHANGED Aside, UNCHANGED owed, DeleteEntry \/ ClearLog
  PROVE  SelTrue'
<1>1. UNCHANGED <<faulty, pc, next_id, seen, emitted, outcome, before, at_start, previous, info, batch, known, stale, owed>>
  BY DEF Aside
<1>2. /\ events \in Nat /\ changes \in 0..MaxChanges /\ next_number \in 1..(Capacity + changes + 1)
      /\ log \in Seq(SelRecords) /\ Len(log) \in Nat
      /\ \A i \in 1..Len(log) : log[i].id < next_number /\ log[i].serial <= events
      /\ \A i, j \in 1..Len(log) : i < j => log[i].id < log[j].id /\ log[i].serial < log[j].serial
  BY DEF SelTrue, LogOrdered
<1>3. /\ changes' = changes + 1 /\ changes < MaxChanges /\ last_del_time' = changes' /\ UNCHANGED events
  BY DEF DeleteEntry, ClearLog, Erase, Changeable
<1>4. changes' \in 0..MaxChanges
  BY <1>2, <1>3, WalkAssumption
<1>5. LogOrdered' /\ LogSet' \subseteq LogSet
  <2>1. CASE DeleteEntry
    <3>1. PICK k \in 1..Len(log) :
            log' = SubSeq(log, 1, k - 1) \o SubSeq(log, k + 1, Len(log)) /\ next_number' = next_number
      <4>1. DOMAIN log = 1..Len(log)
        BY <1>2
      <4> QED
        BY <2>1, <4>1, Zenon DEF DeleteEntry, Erase
    <3>2. /\ log' \in Seq(SelRecords) /\ Len(log') = Len(log) - 1
          /\ \A i \in 1..Len(log') : log'[i] = IF i < k THEN log[i] ELSE log[i + 1]
      <4> DEFINE t == SubSeq(log, 1, k - 1) \o SubSeq(log, k + 1, Len(log))
      <4>1. /\ t \in Seq(SelRecords) /\ Len(t) = Len(log) - 1
            /\ \A i \in 1..Len(t) : t[i] = IF i < k THEN log[i] ELSE log[i + 1]
        <5>1. log \in Seq(SelRecords) /\ t = SubSeq(log, 1, k - 1) \o SubSeq(log, k + 1, Len(log))
          BY <1>2
        <5> HIDE DEF t
        <5> QED
          BY <5>1, Removed, ZenonT(30)
      <4>2. log' = t
        BY <3>1
      <4> HIDE DEF t
      <4> QED
        BY <4>1, <4>2
    <3>3. \A i \in 1..Len(log') : /\ i \in 1..Len(log) /\ i + 1 \in 1..Len(log)
                                  /\ log'[i].id < next_number /\ log'[i].serial <= events
      BY <1>2, <3>2, SMTT(30)
    <3>4. \A i, j \in 1..Len(log') : i < j => log'[i].id < log'[j].id /\ log'[i].serial < log'[j].serial
      <4> SUFFICES ASSUME NEW i \in 1..Len(log'), NEW j \in 1..Len(log'), i < j
                   PROVE  log'[i].id < log'[j].id /\ log'[i].serial < log'[j].serial
        OBVIOUS
      <4> DEFINE was(n) == IF n < k THEN n ELSE n + 1
      <4>1. /\ was(i) \in 1..Len(log) /\ was(j) \in 1..Len(log) /\ was(i) < was(j)
        <5>1. /\ i \in Nat /\ j \in Nat /\ k \in Nat /\ j <= Len(log) - 1 /\ i >= 1
          BY <1>2, <3>1, <3>2, SMTT(30)
        <5> QED
          BY <1>2, <5>1
      <4>2. log'[i] = log[was(i)] /\ log'[j] = log[was(j)]
        BY <3>2
      <4> HIDE DEF was
      <4> QED
        BY <1>2, <4>1, <4>2
    <3>5. LogSet' \subseteq LogSet
      <4>1. DOMAIN log' = 1..Len(log') /\ DOMAIN log = 1..Len(log)
        BY <1>2, <3>2
      <4>2. ASSUME NEW i \in 1..Len(log') PROVE \E j \in 1..Len(log) : log'[i] = log[j]
        BY <3>2, <3>3
      <4> QED
        BY <4>1, <4>2 DEF LogSet
    <3>6. next_number' \in 1..(Capacity + changes' + 1)
      BY <1>2, <1>3, <3>1, WalkAssumption
    <3> QED
      BY <1>2, <1>3, <1>4, <3>1, <3>2, <3>3, <3>4, <3>5, <3>6 DEF LogOrdered
  <2>2. CASE ClearLog
    <3>1. log' = <<>> /\ next_number' = 1
      BY <2>2 DEF ClearLog, Erase
    <3>2. LogSet' = {}
      BY <3>1 DEF LogSet
    <3>3. 1 \in 1..(Capacity + changes' + 1)
      BY <1>2, <1>3, WalkAssumption
    <3> QED
      BY <1>2, <1>3, <1>4, <3>1, <3>2, <3>3 DEF LogOrdered
  <2> QED
    BY <2>1, <2>2
<1>6. EmittedSet' = EmittedSet /\ Known' \subseteq Known
  BY <1>1, <1>5 DEF EmittedSet, Known
<1>7. SerialsTell'
  <2>1. \A r, s \in Known' : r.serial = s.serial => r = s
    BY <1>6 DEF SelTrue, SerialsTell
  <2>2. \A r \in Known' : r.serial <= events'
    BY <1>3, <1>6 DEF SelTrue, SerialsTell
  <2> QED
    BY <1>1, <2>1, <2>2 DEF SelTrue, SerialsTell
<1>8. SinceBegan' /\ SeenIds'
  BY <1>1, <1>3, <1>5, <1>6 DEF SelTrue, SinceBegan, SeenIds
<1>9. StillAhead'
  BY <1>1, <1>5, <1>6 DEF SelTrue, StillAhead, Ahead
<1>10. Remembered'
  BY <1>1, <1>5, <1>6 DEF SelTrue, Remembered
<1>11. Owing'
  <2>1. info # NoInfo => info.del \in 0..last_del_time' /\ info.del # last_del_time'
    BY <1>2, <1>3 DEF SelTrue, Owing
  <2>2. last_del_time' \in 0..changes'
    BY <1>3, <1>4
  <2> QED
    BY <1>1, <1>3, <2>1, <2>2 DEF SelTrue, Owing, NothingErased
<1>12. NothingMissed' /\ Running'
  BY <1>1, <1>5 DEF SelTrue, NothingMissed, Serials, Running
<1> QED
  BY <1>5, <1>7, <1>8, <1>9, <1>10, <1>11, <1>12 DEF SelTrue

\* When a scan ends, what of it is known was in the one before, and what
\* was in the log when it began and still is, it returned.
LEMMA SelScanned ==
  ASSUME SelTrue, pc = "end"
  PROVE  /\ \A r \in LogSet : r.serial \in at_start => r \in EmittedSet
         /\ Serials(NewIn(EmittedSet)) \intersect known = {}
         /\ \A r \in LogSet : r.serial \in known => r \in EmittedSet
<1>1. \A r \in LogSet : r.serial \in at_start => r \in EmittedSet
  BY DEF SelTrue, StillAhead
<1>2. ASSUME NEW r \in NewIn(EmittedSet), r.serial \in known PROVE FALSE
  <2>1. r \in EmittedSet /\ r \in previous
    BY <1>2 DEF SelTrue, Remembered, NewIn
  <2> QED
    BY <1>2, <2>1 DEF NewIn, Same
<1>3. ASSUME NEW r \in LogSet, r.serial \in known PROVE r.serial \in at_start
  <2>1. known \subseteq 1..before /\ before \in Nat
    BY DEF SelTrue, SinceBegan, LogOrdered
  <2> DEFINE n == r.serial
  <2>2. n \in 1..before
    BY <1>3, <2>1
  <2>3. n <= before
    <3> HIDE DEF n
    <3> QED
      BY <2>1, <2>2
  <2> QED
    BY <1>3, <2>3 DEF SelTrue, SinceBegan
<1> QED
  BY <1>1, <1>2, <1>3 DEF Serials

\* No entry that a scan returned is still owed after it: it was reported,
\* or has the number and content of one erased since, which is a gap, or
\* erased while the scan before read it, which is excused.
LEMMA SelSettles ==
  ASSUME SelTrue, pc = "end", info # NoInfo, PollOnce, NEW r \in EmittedSet, r.serial \in owed'
  PROVE  FALSE
<1>1. /\ batch'.entries = NewIn(EmittedSet)
      /\ batch'.continuity_lost = ContinuityLost(EmittedSet)
      /\ known' = known \union Serials(NewIn(EmittedSet))
      /\ owed' = owed \ (known' \union Excused(ContinuityLost(EmittedSet)))
  BY DEF PollOnce
<1>2. r \notin NewIn(EmittedSet)
  BY <1>1 DEF Serials
<1>3. PICK p \in previous : Same(p, r)
  BY <1>2 DEF NewIn
<1>4. r.serial \in owed
  BY <1>1
<1>5. p \notin stale
  <2>1. ASSUME p \in stale PROVE FALSE
    <3>1. r.serial \in Serials({e \in EmittedSet : \E q \in stale : Same(q, e)})
      BY <1>3, <2>1 DEF Serials
    <3> QED
      BY <1>1, <3>1 DEF Excused
  <2> QED
    BY <2>1
<1>6. r \notin previous
  BY <1>4 DEF SelTrue, Owing, Serials
<1>7. info.del # last_del_time
  <2>1. ASSUME info.del = last_del_time PROVE FALSE
    <3>1. p \in LogSet /\ r \in LogSet
      BY <1>3, <1>5, <2>1 DEF SelTrue, Owing, NothingErased
    <3>2. PICK i \in DOMAIN log, j \in DOMAIN log : p = log[i] /\ r = log[j]
      BY <3>1 DEF LogSet
    <3>3. i \in 1..Len(log) /\ j \in 1..Len(log) /\ Len(log) \in Nat /\ log[i] \in SelRecords /\ log[j] \in SelRecords
      BY <3>2 DEF SelTrue, LogOrdered
    <3>4. log[i].id = log[j].id /\ log[i].id \in Nat
      BY <1>3, <3>2, <3>3 DEF Same, SelRecords
    <3>5. i = j
      BY <3>3, <3>4 DEF SelTrue, LogOrdered
    <3> QED
      BY <1>3, <1>6, <3>2, <3>5
  <2> QED
    BY <2>1
<1>8. ContinuityLost(EmittedSet)
  BY <1>7 DEF ContinuityLost
<1>9. r.serial \in Serials(Distinct)
  BY <1>1, <1>4, <1>8 DEF Excused
<1>10. PICK d \in LogSet : d.serial = r.serial /\ \A q \in previous \union EmittedSet : ~Same(q, d)
  BY <1>9 DEF Serials, Distinct
<1>11. d = r
  BY <1>10 DEF SelTrue, SerialsTell, Known
<1> QED
  BY <1>10, <1>11 DEF Same

\* A scan that ended is the baseline or is compared with it.
LEMMA SelEnds ==
  ASSUME SelTrue, ~faulty, EndScan
  PROVE  SelTrue'
<1>1. /\ pc = "end" /\ pc' = "idle"
      /\ UNCHANGED <<log, next_number, events, changes, last_del_time, overflow, faulty, before, at_start>>
      /\ UNCHANGED <<next_id, seen, emitted>>
  BY DEF EndScan, bmc, fixed, iterator, history
<1>2. CASE outcome' = "refused" /\ UnchangedPoller /\ UNCHANGED owed
  <2>1. UNCHANGED Still /\ UNCHANGED <<emitted, seen>>
    BY <1>1, <1>2 DEF Still, UnchangedPoller
  <2>2. StillAhead'
    BY <1>1 DEF SelTrue, StillAhead
  <2> QED
    BY <1>1, <1>2, <2>1, <2>2, SelMoves
<1>3. CASE outcome' = "scanned" /\ (Baseline \/ PollOnce) /\ stale' = EmittedSet \ LogSet
  <2>1. LogSet' = LogSet /\ EmittedSet' = EmittedSet
    BY <1>1 DEF LogSet, EmittedSet
  <2>2. previous' = EmittedSet /\ info' = SelInfo
    BY <1>3 DEF Baseline, PollOnce, Accept
  <2>3. Known' \subseteq Known
    BY <2>1, <2>2 DEF Known
  <2>4. LogOrdered'
    BY <1>1 DEF SelTrue, LogOrdered
  <2>5. SerialsTell'
    <3>1. EmittedSet \subseteq SelRecords
      BY DEF SelTrue, SerialsTell, EmittedSet
    <3> QED
      BY <1>1, <2>2, <2>3, <3>1 DEF SelTrue, SerialsTell
  <2>6. \A s \in known' : s \in known \/ \E e \in EmittedSet : e.serial = s
    BY <1>3 DEF Baseline, PollOnce, Serials, NewIn
  <2>7. SinceBegan'
    <3>1. ASSUME NEW e \in EmittedSet PROVE e.serial \in 1..events
      <4>1. e \in SelRecords /\ e.serial <= events /\ events \in Nat
        BY <3>1 DEF SelTrue, SerialsTell, Known, LogOrdered, EmittedSet
      <4> QED
        BY <4>1 DEF SelRecords
    <3>2. known' \subseteq 1..events
      BY <2>6, <3>1 DEF SelTrue, SinceBegan
    <3> QED
      BY <1>1, <3>2 DEF SelTrue, SinceBegan
  <2>8. SeenIds' /\ StillAhead'
    BY <1>1, <2>1 DEF SelTrue, SeenIds, StillAhead
  <2>9. Remembered'
    <3>1. ASSUME NEW r \in LogSet, r.serial \in known' PROVE r \in EmittedSet
      <4>1. CASE r.serial \in known
        BY <1>1, <4>1, SelScanned
      <4>2. CASE r.serial \notin known
        <5>1. PICK e \in EmittedSet : e.serial = r.serial
          BY <2>6, <3>1, <4>2
        <5> QED
          BY <5>1 DEF SelTrue, SerialsTell, Known
      <4> QED
        BY <4>1, <4>2
    <3> QED
      BY <2>1, <2>2, <3>1 DEF Remembered
  <2>10. /\ owed' \subseteq owed
         /\ owed' \intersect Serials(EmittedSet) = {}
         /\ overflow \/ owed' \subseteq Serials(LogSet)
         /\ ~batch'.continuity_lost => owed' = {} \/ (info.del = last_del_time /\ ~overflow)
    <3>1. CASE Baseline
      <4>1. info = NoInfo /\ owed' = owed
        BY <3>1 DEF Baseline
      <4>2. owed = {}
        BY <4>1 DEF SelTrue, Owing
      <4> QED
        BY <4>1, <4>2
    <3>2. CASE PollOnce
      <4>1. /\ info # NoInfo
            /\ batch'.continuity_lost = ContinuityLost(EmittedSet)
            /\ owed' = owed \ (known' \union Excused(ContinuityLost(EmittedSet)))
        BY <3>2 DEF PollOnce
      <4>2. owed' \intersect Serials(EmittedSet) = {}
        BY <1>1, <3>2, <4>1, SelSettles DEF Serials
      <4>3. CASE ContinuityLost(EmittedSet)
        <5>1. owed' \subseteq Serials(Distinct)
          BY <4>1, <4>3 DEF Excused
        <5>2. Serials(Distinct) \subseteq Serials(LogSet)
          BY DEF Serials, Distinct
        <5> QED
          BY <4>1, <4>2, <4>3, <5>1, <5>2
      <4>4. CASE ~ContinuityLost(EmittedSet)
        <5>1. info.del = last_del_time /\ ~overflow
          BY <4>4 DEF ContinuityLost
        <5>2. owed \subseteq Serials(LogSet)
          BY <4>1, <5>1 DEF SelTrue, Owing, NothingErased
        <5> QED
          BY <4>1, <4>2, <5>1, <5>2
      <4> QED
        BY <4>3, <4>4
    <3> QED
      BY <1>3, <3>1, <3>2
  <2>11. Owing'
    <3>1. info'.del = last_del_time /\ last_del_time \in 0..changes /\ changes \in Nat
      BY <2>2 DEF SelInfo, SelTrue, Owing, LogOrdered
    <3>2. info' # NoInfo
      BY <3>1 DEF NoInfo
    <3>3. info'.del \in 0..last_del_time
      BY <3>1
    <3>4. owed' \subseteq 1..events
      BY <2>10 DEF SelTrue, Owing
    <3>5. NothingErased'
      BY <1>1, <1>3, <2>1, <2>2, <2>10 DEF NothingErased
    <3> QED
      BY <1>1, <2>2, <2>10, <3>1, <3>2, <3>3, <3>4, <3>5 DEF Owing
  <2>12. NothingMissed'
    <3>1. ASSUME NEW s \in owed', s \in at_start, s \in Serials(LogSet) PROVE FALSE
      <4>1. PICK r \in LogSet : r.serial = s
        BY <3>1 DEF Serials
      <4>2. r \in EmittedSet
        BY <1>1, <3>1, <4>1, SelScanned
      <4> QED
        BY <2>10, <3>1, <4>1, <4>2 DEF Serials
    <3>2. ASSUME NEW s \in owed', s \in 1..before, ~batch'.continuity_lost PROVE FALSE
      <4>1. s \in Serials(LogSet)
        BY <2>10, <3>2
      <4>2. PICK r \in LogSet : r.serial = s
        BY <4>1 DEF Serials
      <4>3. before \in Nat
        BY DEF SelTrue, SinceBegan, LogOrdered
      <4>4. s <= before
        BY <3>2, <4>3
      <4>5. s \in at_start
        BY <1>1, <4>2, <4>4 DEF SelTrue, SinceBegan
      <4> QED
        BY <3>1, <4>1, <4>5
    <3> QED
      BY <1>1, <2>1, <3>1, <3>2 DEF NothingMissed
  <2>13. Running'
    BY <1>1 DEF Running
  <2> QED
    BY <2>4, <2>5, <2>7, <2>8, <2>9, <2>11, <2>12, <2>13 DEF SelTrue
<1> QED
  BY <1>2, <1>3 DEF EndScan

\* Every step of the poller, of the log and of others keeps the invariant.
LEMMA SelStep ==
  ASSUME SelInv, [Next]_vars
  PROVE  SelInv'
<1> SUFFICES ASSUME ~faulty' PROVE SelTrue'
  BY DEF SelInv
<1>1. CASE UNCHANGED vars
  <2>1. UNCHANGED Still /\ UNCHANGED <<emitted, seen, outcome, pc, next_id>>
    BY <1>1 DEF vars, walkVars, bmc, fixed, iterator, history, Still
  <2>2. SelTrue
    BY <2>1 DEF SelInv, Still
  <2>3. UNCHANGED <<LogSet, EmittedSet, at_start>>
    BY <2>1 DEF LogSet, EmittedSet, Still
  <2>4. StillAhead'
    BY <2>1, <2>2, <2>3 DEF SelTrue, StillAhead, Ahead
  <2>5. UNCHANGED Known
    BY <2>1, <2>3 DEF Known, Still
  <2>6. UNCHANGED <<log, next_number, events, changes, last_del_time, overflow, faulty, before, at_start,
           previous, info, batch, known, stale, owed>>
    BY <2>1 DEF Still
  <2>7. LogOrdered' /\ SerialsTell'
    BY <2>1, <2>2, <2>5, <2>6 DEF SelTrue, LogOrdered, SerialsTell
  <2>8. SinceBegan' /\ SeenIds' /\ Remembered'
    BY <2>1, <2>2, <2>3, <2>6 DEF SelTrue, SinceBegan, SeenIds, Remembered
  <2>9. Owing' /\ NothingMissed'
    BY <2>1, <2>2, <2>3, <2>6 DEF SelTrue, Owing, NothingErased, NothingMissed
  <2>10. Running'
    BY <2>1, <2>2 DEF SelTrue, Running
  <2> QED
    BY <2>4, <2>7, <2>8, <2>9, <2>10 DEF SelTrue
<1>2. CASE Next
  <2>1. faulty' = faulty
    BY <1>2 DEF Next, Scan, Outside, BeginScan, EndScan, Walk, FirstInfo, Reserve, CheckNext, ReadLimit, ReadCancelled,
       ReadAbsent, InfoAfterAbsent, ReadEntry, CommandFails, Quiet, fixed
  <2>2. SelTrue /\ ~faulty
    BY <2>1 DEF SelInv
  <2>3. CASE BeginScan /\ UnchangedPoller /\ UNCHANGED owed
    BY <2>2, <2>3, SelBegins
  <2>4. CASE EndScan
    BY <2>2, <2>4, SelEnds
  <2>5. CASE Walk /\ UnchangedPoller /\ UNCHANGED owed
    BY <2>2, <2>5, SelWalks, SelReads DEF Walk
  <2>6. CASE Outside
    <3>1. UNCHANGED Aside
      BY <2>6 DEF Outside, Aside, fixed, iterator, history, UnchangedPoller
    <3> QED
      BY <2>2, <2>6, <3>1, SelLogs, SelErases DEF Outside
  <2> QED
    BY <1>2, <2>3, <2>4, <2>5, <2>6 DEF Next, Scan
<1> QED
  BY <1>1, <1>2

\* What the invariant says of a scan that ended,
LEMMA SelMeans == SelInv => WalkComplete /\ NothingMissed
<1>1. ASSUME SelInv PROVE WalkComplete
  <2> SUFFICES ASSUME pc = "end", ~faulty, NEW s \in at_start, s \in Serials(LogSet)
               PROVE  s \in Serials(EmittedSet)
    BY DEF WalkComplete
  <2>1. PICK r \in LogSet : r.serial = s
    BY DEF Serials
  <2>2. r \in EmittedSet
    BY <1>1, <2>1 DEF SelInv, SelTrue, StillAhead
  <2> QED
    BY <2>1, <2>2 DEF Serials
<1>2. ASSUME SelInv PROVE NothingMissed
  BY <1>2 DEF SelInv, SelTrue, NothingMissed
<1> QED
  BY <1>1, <1>2

\* and of what it reports.
LEMMA SelReports ==
  ASSUME SelInv, Next, pc = "end", outcome' = "scanned", info # NoInfo, ~faulty
  PROVE  Serials(batch'.entries) \intersect known = {}
<1>1. SelTrue
  BY DEF SelInv
<1>2. CASE EndScan
  <2>1. CASE Baseline \/ PollOnce
    <3>1. batch'.entries = NewIn(EmittedSet)
      BY <2>1 DEF Baseline, PollOnce
    <3> QED
      BY <1>1, <3>1, SelScanned
  <2>2. CASE outcome' = "refused"
    BY <2>2
  <2> QED
    BY <1>2, <2>1, <2>2 DEF EndScan
<1>3. CASE ~EndScan
  <2>1. UNCHANGED outcome \/ outcome' \in {"none", "failed", "refused"}
    BY <1>3 DEF Next, Scan, Outside, BeginScan, Walk, FirstInfo, Reserve, CheckNext, ReadLimit, ReadCancelled,
       ReadAbsent, InfoAfterAbsent, ReadEntry, CommandFails, Quiet, Fail, Finish
  <2>2. outcome # "scanned"
    BY <1>1 DEF SelTrue, Running
  <2> QED
    BY <2>1, <2>2
<1> QED
  BY <1>2, <1>3
-----------------------------------------------------------------------------
(* A record of the repository, and one that was returned.                  *)
SdrRecords == [id : Nat \ {0}, version : Nat, length : Nat]
Returned == [id : Int, length : Int, versions : SUBSET Nat]

(* What counts, counts.                                                    *)
SdrCounts ==
    /\ records \in Seq(SdrRecords) /\ edits \in Nat /\ yielded \in Seq(Returned)
    /\ next_record \in Int /\ current \in Int /\ header.id \in Int /\ attempt \in Nat
    /\ read_limit \in Int /\ filled \in Int /\ header.length \in Int
    /\ parts \subseteq Nat /\ successor \in Int

(* A number is that of one record.                                         *)
NumbersTell == \A i, j \in 1..Len(records) : records[i].id = records[j].id => i = j

(* Under a good reservation the first record is the one whose header was   *)
(* read, and what was read of a record is of the version that is there.    *)
OfOnePiece ==
    at = "read" /\ held =>
        /\ filled >= Header /\ current = FIRST => records # <<>> /\ header.id = records[1].id
        /\ \A v \in parts : \E k \in Sdr!Place(Sdr!Target) : v = records[k].version

(* Of the records returned, all but the first are known by number to have  *)
(* been visited, and the one being read is none of them.                   *)
UnderWay == at = "read" \/ (at = "reserve" /\ attempt > 0)
Visited ==
    /\ at \in {"source", "info"} => attempt = 0
    /\ at \in {"source", "info"} \/ (at = "reserve" /\ ~(attempt > 0)) => yielded = <<>>
    /\ UnderWay =>
         /\ current \in visited
         /\ \A j \in 2..Len(yielded) : yielded[j].id # current
         /\ current = FIRST => yielded = <<>>
    /\ at = "next" /\ yielded # <<>> => next_record # FIRST
    /\ at = "read" /\ filled >= Header => successor # FIRST /\ successor # Sdr!NoId
    /\ \A j \in 2..Len(yielded) : yielded[j].id \in visited

(* All of a record that was returned is of one version.                    *)
Whole == \A k \in 1..Len(yielded) : \E v \in yielded[k].versions : yielded[k].versions = {v}

(* What is kept of a repository, the whole of it where reads are reserved. *)
SdrInv ==
    /\ SdrCounts /\ NumbersTell /\ Visited /\ Sdr!NoneTwice
    /\ reserves /\ ~broken => OfOnePiece /\ Whole
-----------------------------------------------------------------------------
\* Before the first command.
LEMMA SdrStart == Sdr!Init => SdrInv
<1> SUFFICES ASSUME Sdr!Init PROVE SdrInv
  OBVIOUS
<1>0. PICK n \in 0..Room :
        \E body \in [1..n -> Bodies] : records = [k \in 1..n |-> [id |-> k, version |-> 0, length |-> body[k]]]
  BY DEF Sdr!Init
<1>1. PICK body \in [1..n -> Bodies] : records = [k \in 1..n |-> [id |-> k, version |-> 0, length |-> body[k]]]
  BY <1>0
<1>2. n \in Nat /\ \A k \in 1..n : body[k] \in Nat
  <2>1. n \in Nat
    OBVIOUS
  <2>2. \A k \in 1..n : body[k] \in Bodies
    BY <1>1
  <2>3. Bodies \subseteq Nat
    BY ReadingAssumption
  <2> QED
    BY <2>1, <2>2, <2>3
<1>3. \A k \in 1..n : [id |-> k, version |-> 0, length |-> body[k]] \in SdrRecords
  BY <1>2 DEF SdrRecords
<1>4. records \in Seq(SdrRecords) /\ Len(records) = n /\ \A k \in 1..n : records[k].id = k
  BY <1>1, <1>2, <1>3
<1>5. /\ edits = 0 /\ held = FALSE /\ at = "source" /\ next_record = 0 /\ read_limit = Chunk
      /\ current = 0 /\ filled = 0 /\ header = [id |-> -1, length |-> 0] /\ parts = {}
      /\ attempt = 0 /\ yielded = <<>> /\ successor = -1
  BY DEF Sdr!Init, Sdr!FIRST, Sdr!NoHeader, Sdr!NoId
<1>6. SdrCounts
  BY <1>4, <1>5, ReadingAssumption DEF SdrCounts
<1>7. NumbersTell /\ Visited
  BY <1>4, <1>5 DEF NumbersTell, Visited, UnderWay
<1>8. Sdr!NoneTwice /\ OfOnePiece /\ Whole
  BY <1>5 DEF Sdr!NoneTwice, OfOnePiece, Whole
<1> QED
  BY <1>6, <1>7, <1>8 DEF SdrInv

\* A command that returns no record and reads nothing.
LEMMA SdrMoves ==
  ASSUME SdrInv, UNCHANGED <<records, edits, yielded, broken, reserves>>, SdrCounts', Visited',
         reserves /\ ~broken => OfOnePiece'
  PROVE  SdrInv'
<1>1. NumbersTell' /\ Sdr!NoneTwice' /\ (Whole => Whole')
  BY DEF SdrInv, NumbersTell, Sdr!NoneTwice, Whole
<1> QED
  BY <1>1 DEF SdrInv

\* A number is that of one record at most, FIRST that of the first.
LEMMA SdrPlaced ==
  ASSUME SdrInv, NEW id \in Int
  PROVE  /\ \A k \in Sdr!Place(id) : k \in 1..Len(records) /\ records[k] \in SdrRecords
         /\ \A j, k \in Sdr!Place(id) : j = k
<1>1. records \in Seq(SdrRecords)
  BY DEF SdrInv, SdrCounts
<1>2. ASSUME NEW k \in Sdr!Place(id)
      PROVE  /\ k \in 1..Len(records) /\ records[k] \in SdrRecords
             /\ IF id = 0 THEN k = 1 ELSE records[k].id = id
  BY <1>1 DEF Sdr!Place, Sdr!FIRST
<1>3. ASSUME NEW j \in Sdr!Place(id), NEW k \in Sdr!Place(id) PROVE j = k
  BY <1>2 DEF SdrInv, NumbersTell
<1> QED
  BY <1>2, <1>3

\* The commands that return no piece of a record.
LEMMA SdrWalks ==
  ASSUME SdrInv,
         \/ Sdr!Source \/ Sdr!Info \/ Sdr!Reserve \/ Sdr!CallNext \/ Sdr!OffsetOutOfRange
         \/ Sdr!TooMany \/ Sdr!Cancelled \/ Sdr!Absent \/ Sdr!CommandFails
  PROVE  SdrInv'
<1>1. /\ UNCHANGED <<records, edits, yielded, broken, reserves>>
      /\ parts' \in {parts, {}} /\ current' \in {current, next_record} /\ attempt' \in {attempt, attempt + 1, 0}
      /\ next_record' = next_record /\ header' \in {header, Sdr!NoHeader} /\ filled' \in {filled, 0}
      /\ read_limit' \in {read_limit, Sdr!Halved} /\ successor' \in {successor, Sdr!NoId}
  BY DEF Sdr!Source, Sdr!Info, Sdr!Reserve, Sdr!CallNext, Sdr!OffsetOutOfRange, Sdr!TooMany, Sdr!Cancelled, Sdr!Absent, Sdr!CommandFails, Sdr!Asks,
     Sdr!Quiet, Sdr!fixed, Sdr!Fails, Sdr!Stop, Sdr!iterator, Sdr!reading, Sdr!NothingRead, Sdr!Renew
<1>2. SdrCounts'
  <2>1. Sdr!Halved \in Int
    BY ReadingAssumption DEF SdrInv, SdrCounts, Sdr!Halved, Sdr!Requested, Sdr!Wanted
  <2> QED
    BY <1>1, <2>1 DEF SdrInv, SdrCounts, Sdr!NoHeader, Sdr!NoId
<1>3. Visited'
  <2>1. CASE Sdr!Source \/ Sdr!Info
    <3>1. /\ at \in {"source", "info"} /\ at' \in {"info", "reserve", "next", "done"}
          /\ UNCHANGED <<visited, current, next_record, attempt, filled, successor>>
      BY <2>1 DEF Sdr!Source, Sdr!Info, Sdr!Quiet, Sdr!Fails, Sdr!Stop, Sdr!iterator, Sdr!reading
    <3>2. attempt = 0 /\ yielded = <<>> /\ ~(attempt > 0)
      BY <3>1 DEF SdrInv, Visited
    <3> QED
      BY <1>1, <3>1, <3>2 DEF Visited, UnderWay
  <2>2. CASE Sdr!Reserve
    BY <2>2, ReadingAssumption DEF SdrInv, Visited, UnderWay, Sdr!Reserve, Sdr!Quiet, Sdr!Renew, Sdr!NothingRead
  <2>3. CASE Sdr!CallNext
    BY <2>3, ReadingAssumption DEF SdrInv, Visited, UnderWay, Sdr!CallNext, Sdr!Quiet, Sdr!Fails, Sdr!Stop, Sdr!iterator, Sdr!NothingRead
  <2>4. CASE Sdr!TooMany
    BY <2>4 DEF SdrInv, Visited, UnderWay, Sdr!TooMany, Sdr!Asks, Sdr!Quiet, Sdr!Fails, Sdr!Stop, Sdr!iterator, Sdr!reading
  <2>5. CASE Sdr!Cancelled
    <3>1. /\ at = "read" /\ at' \in {"reserve", "done"}
          /\ UNCHANGED <<visited, current>>
      BY <2>5 DEF Sdr!Cancelled, Sdr!Asks, Sdr!Quiet, Sdr!Fails, Sdr!Stop, Sdr!iterator, Sdr!reading
    <3>2. at' = "reserve" => attempt' > 0
      <4>1. attempt \in Nat
        BY DEF SdrInv, SdrCounts
      <4> QED
        BY <2>5, <4>1 DEF Sdr!Cancelled, Sdr!Fails, Sdr!Stop
    <3> QED
      BY <1>1, <3>1, <3>2 DEF SdrInv, Visited, UnderWay
  <2>6. CASE Sdr!OffsetOutOfRange \/ Sdr!Absent \/ Sdr!CommandFails
    BY <2>6 DEF SdrInv, Visited, UnderWay, Sdr!OffsetOutOfRange, Sdr!Absent, Sdr!CommandFails, Sdr!Asks, Sdr!Quiet, Sdr!Fails, Sdr!Stop, Sdr!iterator
  <2> QED
    BY <2>1, <2>2, <2>3, <2>4, <2>5, <2>6
<1>4. ASSUME reserves, ~broken PROVE OfOnePiece'
  <2>1. \/ at' = "read" /\ filled' = 0 /\ parts' = {}
        \/ at' = "read" /\ at = "read" /\ UNCHANGED <<held, filled, current, header, parts>>
        \/ at' # "read"
    BY DEF Sdr!Source, Sdr!Info, Sdr!Reserve, Sdr!CallNext, Sdr!OffsetOutOfRange, Sdr!TooMany, Sdr!Cancelled, Sdr!Absent, Sdr!CommandFails, Sdr!Asks,
     Sdr!Quiet, Sdr!fixed, Sdr!Fails, Sdr!Stop, Sdr!iterator, Sdr!reading, Sdr!NothingRead, Sdr!Renew
  <2>2. CASE at' = "read" /\ filled' = 0 /\ parts' = {}
    BY <2>2, ReadingAssumption DEF OfOnePiece
  <2>3. CASE at' = "read" /\ at = "read" /\ UNCHANGED <<held, filled, current, header, parts>>
    BY <1>1, <1>4, <2>3 DEF SdrInv, OfOnePiece, Sdr!Target, Sdr!Place
  <2>4. CASE at' # "read"
    BY <2>4 DEF OfOnePiece
  <2> QED
    BY <2>1, <2>2, <2>3, <2>4
<1> QED
  BY <1>1, <1>2, <1>3, <1>4, SdrMoves

\* What the repository changes to; the reservation is lost.
LEMMA SdrChanges ==
  ASSUME SdrInv, Sdr!Change
  PROVE  SdrInv'
<1>1. UNCHANGED <<at, broken, reserves, next_record, visited, read_limit, current, filled, header, successor, parts,
                  attempt, yielded>>
  BY DEF Sdr!Change, Sdr!fixed, Sdr!iterator, Sdr!reading
<1>2. held' = FALSE /\ edits' = edits + 1
  BY DEF Sdr!Change, Sdr!Changed
<1>3. records \in Seq(SdrRecords) /\ edits \in Nat /\ Len(records) \in Nat
  BY DEF SdrInv, SdrCounts
<1>4. /\ records' \in Seq(SdrRecords)
      /\ \A i, j \in 1..Len(records') : records'[i].id = records'[j].id => i = j
  <2>1. \A i \in 1..Len(records) : records[i] \in SdrRecords
    BY <1>3
  <2>2. CASE \E k \in DOMAIN records, n \in Bodies :
               Sdr!Changed([records EXCEPT ![k].version = edits + 1, ![k].length = n])
    <3>1. PICK k \in 1..Len(records), n \in Bodies :
            records' = [records EXCEPT ![k].version = edits + 1, ![k].length = n]
      <4>1. DOMAIN records = 1..Len(records)
        BY <1>3
      <4> QED
        BY <2>2, <4>1, Zenon DEF Sdr!Changed
    <3>2. records[k] \in SdrRecords /\ n \in Nat /\ edits + 1 \in Nat
      BY <1>3, <2>1, ReadingAssumption
    <3> DEFINE r == [[records[k] EXCEPT !.version = edits + 1] EXCEPT !.length = n]
    <3>3. r \in SdrRecords /\ r.id = records[k].id
      BY <3>2 DEF SdrRecords
    <3>4. records' = [records EXCEPT ![k] = r]
      BY <1>3, <3>1
    <3> HIDE DEF r
    <3>5. records' \in Seq(SdrRecords) /\ Len(records') = Len(records)
      BY <1>3, <3>3, <3>4
    <3>6. \A i \in 1..Len(records) : records'[i].id = records[i].id
      BY <1>3, <3>3, <3>4
    <3> QED
      BY <3>5, <3>6 DEF SdrInv, NumbersTell
  <2>3. CASE \E k \in DOMAIN records : Sdr!Changed(Sdr!Without(k))
    <3>1. PICK k \in 1..Len(records) : records' = SubSeq(records, 1, k - 1) \o SubSeq(records, k + 1, Len(records))
      <4>1. DOMAIN records = 1..Len(records)
        BY <1>3
      <4> QED
        BY <2>3, <4>1, Zenon DEF Sdr!Changed, Sdr!Without
    <3>2. /\ records' \in Seq(SdrRecords) /\ Len(records') = Len(records) - 1
          /\ \A i \in 1..Len(records') : records'[i] = IF i < k THEN records[i] ELSE records[i + 1]
      <4> DEFINE t == SubSeq(records, 1, k - 1) \o SubSeq(records, k + 1, Len(records))
      <4>1. records \in Seq(SdrRecords) /\ t = SubSeq(records, 1, k - 1) \o SubSeq(records, k + 1, Len(records))
        BY <1>3
      <4>2. records' = t
        BY <3>1
      <4> HIDE DEF t
      <4>3. /\ t \in Seq(SdrRecords) /\ Len(t) = Len(records) - 1
            /\ \A i \in 1..Len(t) : t[i] = IF i < k THEN records[i] ELSE records[i + 1]
        BY <4>1, Removed, ZenonT(30)
      <4> QED
        BY <4>2, <4>3
    <3> DEFINE was(n) == IF n < k THEN n ELSE n + 1
    <3>3. \A i \in 1..Len(records') : was(i) \in 1..Len(records) /\ records'[i] = records[was(i)]
      BY <1>3, <3>2
    <3>4. \A i, j \in 1..Len(records') : was(i) = was(j) => i = j
      BY <1>3, <3>2
    <3> HIDE DEF was
    <3> QED
      BY <3>2, <3>3, <3>4 DEF SdrInv, NumbersTell
  <2>4. CASE \E id \in Sdr!Ids \ {records[k].id : k \in DOMAIN records}, n \in Bodies :
               Sdr!Changed(Append(records, [id |-> id, version |-> edits + 1, length |-> n]))
    <3>1. PICK id \in Sdr!Ids \ {records[k].id : k \in DOMAIN records}, n \in Bodies :
            records' = Append(records, [id |-> id, version |-> edits + 1, length |-> n])
      BY <2>4 DEF Sdr!Changed
    <3> DEFINE r == [id |-> id, version |-> edits + 1, length |-> n]
    <3>2. r \in SdrRecords /\ r.id = id
      BY <1>3, <3>1, ReadingAssumption DEF Sdr!Ids, SdrRecords
    <3>3. \A i \in 1..Len(records) : records[i].id # id
      BY <1>3, <3>1
    <3>4. records' = Append(records, r)
      BY <3>1
    <3> HIDE DEF r
    <3>5. /\ records' \in Seq(SdrRecords) /\ Len(records') = Len(records) + 1
          /\ \A i \in 1..Len(records) : records'[i] = records[i]
          /\ records'[Len(records) + 1] = r
      BY <1>3, <3>2, <3>4, Appended
    <3>6. \A i \in 1..Len(records') : i \in 1..Len(records) \/ i = Len(records) + 1
      BY <1>3, <3>5
    <3> QED
      BY <3>2, <3>3, <3>5, <3>6 DEF SdrInv, NumbersTell
  <2> QED
    BY <2>2, <2>3, <2>4 DEF Sdr!Change
<1>5. SdrCounts' /\ NumbersTell'
  BY <1>1, <1>2, <1>3, <1>4 DEF SdrInv, SdrCounts, NumbersTell
<1>6. Visited' /\ Sdr!NoneTwice' /\ OfOnePiece' /\ (Whole => Whole')
  BY <1>1, <1>2 DEF SdrInv, Visited, UnderWay, Sdr!NoneTwice, OfOnePiece, Whole
<1> QED
  BY <1>1, <1>5, <1>6 DEF SdrInv

\* A piece of a record is read; with the last one the record is returned.
LEMMA SdrReads ==
  ASSUME SdrInv, Sdr!Read
  PROVE  SdrInv'
<1>1. /\ UNCHANGED <<records, edits, broken, reserves>> /\ at = "read"
      /\ broken \/ (reserves => held)
  BY DEF Sdr!Read, Sdr!Asks, Sdr!Quiet, Sdr!fixed
<1>2. PICK a \in Sdr!Answers(Sdr!Target, Sdr!Requested) :
        \/ Sdr!Fails("protocol")
        \/ /\ a.count = Sdr!Requested
           /\ Sdr!Accept(a)
           /\ filled' = Header => ~Sdr!BadHeader(a.from.id, successor') \/ Sdr!Stop("protocol")
           /\ UNCHANGED <<held, visited, read_limit, current, attempt>>
           /\ \/ at' = "done" /\ UNCHANGED <<next_record, yielded>>
              \/ /\ filled' = Header => ~Sdr!BadHeader(a.from.id, successor')
                 /\ \/ /\ filled' >= Header
                       /\ yielded' = Append(yielded, Sdr!Record)
                       /\ next_record' = successor' /\ at' = "next"
                    \/ UNCHANGED <<at, next_record, yielded>>
  BY DEF Sdr!Read, Sdr!Stop, Sdr!Complete
<1>3. CASE Sdr!Fails("protocol")
  <2>1. at' = "done" /\ UNCHANGED <<next_record, visited, read_limit, current, filled, header, successor, parts, attempt, yielded>>
    BY <1>3 DEF Sdr!Fails, Sdr!Stop, Sdr!iterator, Sdr!reading
  <2>2. SdrCounts' /\ Visited' /\ OfOnePiece'
    BY <1>1, <2>1 DEF SdrInv, SdrCounts, Visited, UnderWay, OfOnePiece
  <2> QED
    BY <1>1, <2>1, <2>2, SdrMoves
<1>4. CASE /\ a.count = Sdr!Requested
           /\ Sdr!Accept(a)
           /\ UNCHANGED <<held, visited, read_limit, current, attempt>>
           /\ \/ at' = "done" /\ UNCHANGED <<next_record, yielded>>
              \/ /\ filled' = Header => ~Sdr!BadHeader(a.from.id, successor')
                 /\ \/ /\ filled' >= Header
                       /\ yielded' = Append(yielded, Sdr!Record)
                       /\ next_record' = successor' /\ at' = "next"
                    \/ UNCHANGED <<at, next_record, yielded>>
  <2>1. /\ records \in Seq(SdrRecords) /\ edits \in Nat /\ yielded \in Seq(Returned)
        /\ next_record \in Int /\ current \in Int /\ header.id \in Int /\ attempt \in Nat
        /\ read_limit \in Int /\ filled \in Int /\ header.length \in Int /\ parts \subseteq Nat
        /\ successor \in Int
    BY DEF SdrInv, SdrCounts
  <2>2. Sdr!Target \in Int /\ Sdr!Wanted \in Int /\ Sdr!Requested \in Int
    BY <2>1, ReadingAssumption DEF Sdr!Target, Sdr!Wanted, Sdr!Requested
  <2>3. /\ a.next \in Nat /\ a.from.id \in Int /\ a.from.length \in Int /\ a.from.version \in Nat
        /\ ~broken => \E k \in Sdr!Place(Sdr!Target) : a.from = records[k]
    <3>1. CASE broken
      <4>1. /\ a.next \in {0, 1, 2, 65535}
            /\ a.from \in [id : {0, 1, 65535}, version : {0}, length : Bodies]
        BY <3>1 DEF Sdr!Answers, Sdr!FIRST, Sdr!LAST
      <4>2. a.from.id \in {0, 1, 65535} /\ a.from.version = 0 /\ a.from.length \in Bodies
        BY <4>1
      <4>3. a.from.id \in Int /\ a.from.version \in Nat /\ a.next \in Nat
        BY <4>1, <4>2
      <4>4. a.from.length \in Int
        <5>1. \A n \in Bodies : n \in Nat
          BY ReadingAssumption
        <5>2. a.from.length \in Bodies
          BY <4>2
        <5>3. a.from.length \in Nat
          BY <5>1, <5>2
        <5> QED
          BY <5>3
      <4> QED
        BY <3>1, <4>3, <4>4
    <3>2. CASE ~broken
      <4>1. PICK k \in Sdr!Place(Sdr!Target) : a.from = records[k] /\ a.next = Sdr!NextOf(k)
        BY <3>2 DEF Sdr!Answers
      <4>2. k \in 1..Len(records) /\ records[k] \in SdrRecords
        BY <2>2, SdrPlaced
      <4>3. a.next \in Nat
        <5>1. \A i \in 1..Len(records) : records[i] \in SdrRecords
          BY <2>1
        <5>2. k = Len(records) \/ k + 1 \in 1..Len(records)
          BY <2>1, <4>2
        <5> QED
          BY <4>1, <5>1, <5>2 DEF Sdr!NextOf, Sdr!LAST, SdrRecords
      <4> QED
        BY <4>1, <4>2, <4>3 DEF SdrRecords
    <3> QED
      BY <3>1, <3>2
  <2>4. /\ filled' = filled + Sdr!Requested /\ filled' \in Int
        /\ parts' = parts \union {a.from.version} /\ parts' \subseteq Nat
        /\ successor' = IF successor = Sdr!NoId THEN a.next ELSE successor
        /\ header' = IF filled' = Header THEN [id |-> a.from.id, length |-> a.from.length] ELSE header
        /\ header'.id \in Int /\ header'.length \in Int
    <3>1. /\ filled' = filled + Sdr!Requested
          /\ parts' = parts \union {a.from.version}
          /\ successor' = IF successor = Sdr!NoId THEN a.next ELSE successor
          /\ header' = IF filled' = Header THEN [id |-> a.from.id, length |-> a.from.length] ELSE header
      BY <1>4 DEF Sdr!Accept
    <3>2. filled' \in Int
      BY <2>1, <2>2, <3>1
    <3>3. header'.id \in Int /\ header'.length \in Int
      BY <2>1, <2>3, <3>1
    <3> QED
      BY <2>1, <2>3, <3>1, <3>2, <3>3
  <2>5. filled < Header /\ filled' >= Header => filled' = Header
    BY <2>1, <2>4, ReadingAssumption DEF Sdr!Wanted, Sdr!Requested
  <2>6. (at' # "done" /\ filled' >= Header) => successor' # FIRST /\ successor' # Sdr!NoId
    <3>1. ASSUME at' # "done", filled' = Header PROVE successor' # FIRST
      BY <1>4, <3>1 DEF Sdr!BadHeader, Sdr!FIRST, FIRST
    <3>2. successor' # Sdr!NoId
      BY <2>3, <2>4 DEF Sdr!NoId
    <3>3. filled >= Header => successor # FIRST /\ successor # Sdr!NoId
      BY <1>1 DEF SdrInv, Visited
    <3>4. filled >= Header \/ filled < Header
      BY <2>1, ReadingAssumption
    <3> QED
      BY <2>4, <2>5, <3>1, <3>2, <3>3, <3>4
  <2>7. Sdr!Record \in Returned
    BY <2>1, <2>4, ReadingAssumption DEF Sdr!Record, Returned
  <2>8. \/ yielded' = yielded /\ next_record' = next_record /\ at' \in {"done", "read"}
        \/ /\ yielded' = Append(yielded, Sdr!Record) /\ filled' >= Header
           /\ next_record' = successor' /\ at' = "next"
    BY <1>1, <1>4
  <2>9. /\ yielded' \in Seq(Returned)
        /\ \/ yielded' = yielded
           \/ /\ Len(yielded') = Len(yielded) + 1
              /\ \A j \in 1..Len(yielded) : yielded'[j] = yielded[j]
              /\ yielded'[Len(yielded) + 1] = Sdr!Record
    BY <2>1, <2>7, <2>8, Appended, SMTT(30)
  <2>10. SdrCounts'
    <3>1. successor' \in Int
      BY <2>1, <2>3, <2>4
    <3> QED
      BY <1>1, <1>4, <2>1, <2>4, <2>8, <2>9, <3>1 DEF SdrCounts
  <2>11. Visited'
    <3>1. /\ current \in visited /\ visited' = visited /\ current' = current
          /\ \A j \in 2..Len(yielded) : yielded[j].id # current /\ yielded[j].id \in visited
          /\ current = FIRST => yielded = <<>>
      BY <1>1, <1>4 DEF SdrInv, Visited, UnderWay
    <3>2. CASE yielded' = yielded /\ next_record' = next_record /\ at' \in {"done", "read"}
      BY <1>1, <1>4, <2>6, <3>1, <3>2 DEF Visited, UnderWay
    <3>3. CASE /\ yielded' = Append(yielded, Sdr!Record) /\ filled' >= Header
               /\ next_record' = successor' /\ at' = "next"
      <4>1. next_record' # FIRST
        BY <2>6, <3>3
      <4>2. ASSUME NEW j \in 2..Len(yielded') PROVE yielded'[j].id \in visited
        <5>1. Len(yielded) \in Nat /\ Len(yielded') = Len(yielded) + 1
          BY <2>1, <3>3
        <5>2. CASE j \in 2..Len(yielded)
          BY <2>1, <3>1, <3>3, <5>2
        <5>3. CASE j = Len(yielded) + 1
          <6>1. yielded'[j] = Sdr!Record
            BY <2>1, <3>3, <5>3
          <6>2. current # FIRST
            BY <2>1, <3>1, <5>1, <5>3
          <6> QED
            BY <3>1, <6>1, <6>2 DEF Sdr!Record, Sdr!FIRST, FIRST
        <5> QED
          BY <5>1, <5>2, <5>3
      <4> QED
        BY <3>1, <3>3, <4>1, <4>2 DEF Visited, UnderWay
    <3> QED
      BY <2>8, <3>2, <3>3
  <2>12. Sdr!NoneTwice'
    <3>1. CASE yielded' = yielded
      BY <3>1 DEF SdrInv, Sdr!NoneTwice
    <3>2. CASE yielded' = Append(yielded, Sdr!Record)
      <4>1. /\ Len(yielded) \in Nat /\ DOMAIN yielded = 1..Len(yielded)
            /\ DOMAIN yielded' = 1..(Len(yielded) + 1)
            /\ \A j \in 1..Len(yielded) : yielded'[j] = yielded[j]
            /\ yielded'[Len(yielded) + 1] = Sdr!Record
        BY <2>1, <3>2
      <4>2. /\ \A j \in 2..Len(yielded) : yielded[j].id # current
            /\ current = FIRST => yielded = <<>>
        BY <1>1 DEF SdrInv, Visited, UnderWay
      <4>3. \A j, k \in 1..Len(yielded) : 1 < j /\ j < k => yielded[j].id # yielded[k].id
        BY <4>1 DEF SdrInv, Sdr!NoneTwice
      <4>4. ASSUME NEW j \in 1..(Len(yielded) + 1), NEW k \in 1..(Len(yielded) + 1), 1 < j, j < k
            PROVE  yielded'[j].id # yielded'[k].id
        <5>1. j \in 1..Len(yielded) /\ j \in 2..Len(yielded) /\ (k \in 1..Len(yielded) \/ k = Len(yielded) + 1)
          BY <4>1, <4>4
        <5>2. CASE k \in 1..Len(yielded)
          BY <4>1, <4>3, <4>4, <5>1, <5>2
        <5>3. CASE k = Len(yielded) + 1
          <6>1. current # FIRST
            BY <4>1, <4>2, <5>1
          <6>2. yielded'[k].id = current
            BY <4>1, <5>3, <6>1 DEF Sdr!Record, Sdr!FIRST, FIRST
          <6> QED
            BY <4>1, <4>2, <5>1, <6>2
        <5> QED
          BY <5>1, <5>2, <5>3
      <4> QED
        BY <4>1, <4>4 DEF Sdr!NoneTwice
    <3> QED
      BY <2>8, <3>1, <3>2
  <2>13. ASSUME reserves, ~broken PROVE OfOnePiece' /\ Whole'
    <3>1. held /\ OfOnePiece /\ Whole
      BY <1>1, <2>13 DEF SdrInv
    <3>2. PICK k \in Sdr!Place(Sdr!Target) : a.from = records[k]
      BY <2>3, <2>13
    <3>3. /\ k \in 1..Len(records) /\ records[k] \in SdrRecords /\ \A j \in Sdr!Place(Sdr!Target) : j = k
      BY <2>2, <3>2, SdrPlaced
    <3>4. parts' = {records[k].version}
      BY <1>1, <2>4, <3>1, <3>2, <3>3 DEF OfOnePiece
    <3>5. current = FIRST => k = 1 /\ (filled' >= Header => header'.id = records[1].id)
      <4>1. CASE filled >= Header /\ current = FIRST
        <5>1. records # <<>> /\ header.id = records[1].id /\ Sdr!Target = header.id
          BY <1>1, <3>1, <4>1 DEF OfOnePiece, Sdr!Target, Sdr!FIRST, FIRST
        <5>2. 1 \in 1..Len(records) /\ records[1] \in SdrRecords
          BY <2>1, <5>1
        <5>3. 1 \in Sdr!Place(Sdr!Target)
          BY <2>1, <5>1, <5>2 DEF Sdr!Place, Sdr!FIRST, SdrRecords
        <5>4. k = 1
          BY <3>3, <5>3
        <5> QED
          BY <2>4, <3>2, <5>1, <5>4
      <4>2. CASE filled < Header /\ current = FIRST
        <5>1. Sdr!Target = Sdr!FIRST
          BY <2>1, <4>2, ReadingAssumption DEF Sdr!Target, FIRST, Sdr!FIRST
        <5>2. k = 1
          BY <3>2, <5>1 DEF Sdr!Place
        <5> QED
          BY <2>4, <2>5, <3>2, <4>2, <5>2
      <4> QED
        BY <2>1, <4>1, <4>2, ReadingAssumption
    <3>6. OfOnePiece'
      <4>1. current' = current /\ records' = records
        BY <1>1, <1>4
      <4>2. filled' >= Header /\ current = FIRST => records # <<>> /\ header'.id = records[1].id
        BY <2>1, <3>3, <3>5
      <4>3. k \in Sdr!Place(Sdr!Target')
        <5>1. CASE filled' >= Header /\ current = FIRST
          <6>1. Sdr!Target' = records[1].id /\ k = 1
            BY <3>5, <4>1, <5>1 DEF Sdr!Target, FIRST, Sdr!FIRST
          <6> QED
            BY <2>1, <3>3, <6>1 DEF Sdr!Place, Sdr!FIRST, SdrRecords
        <5>2. CASE ~(filled' >= Header) /\ current = FIRST
          <6>1. Sdr!Target' = Sdr!FIRST /\ k = 1
            BY <3>5, <4>1, <5>2 DEF Sdr!Target, FIRST, Sdr!FIRST
          <6> QED
            BY <2>1, <3>3, <6>1 DEF Sdr!Place
        <5>3. CASE current # FIRST
          BY <3>2, <4>1, <5>3 DEF Sdr!Target, FIRST, Sdr!FIRST
        <5> QED
          BY <5>1, <5>2, <5>3
      <4>4. Sdr!Place(Sdr!Target)' = Sdr!Place(Sdr!Target')
        BY <4>1 DEF Sdr!Place
      <4> QED
        BY <3>4, <4>1, <4>2, <4>3, <4>4 DEF OfOnePiece
    <3>7. Whole'
      <4>1. CASE yielded' = yielded
        BY <3>1, <4>1 DEF Whole
      <4>2. CASE yielded' = Append(yielded, Sdr!Record)
        <5>1. Sdr!Record.versions = {records[k].version}
          BY <3>4 DEF Sdr!Record
        <5>2. /\ Len(yielded) \in Nat /\ Len(yielded') = Len(yielded) + 1
              /\ \A j \in 1..Len(yielded) : yielded'[j] = yielded[j]
              /\ yielded'[Len(yielded) + 1] = Sdr!Record
          BY <2>1, <4>2
        <5>3. \A j \in 1..Len(yielded') : j \in 1..Len(yielded) \/ j = Len(yielded) + 1
          BY <5>2
        <5> QED
          BY <3>1, <5>1, <5>2, <5>3 DEF Whole
      <4> QED
        BY <2>8, <4>1, <4>2
    <3> QED
      BY <3>6, <3>7
  <2>14. NumbersTell'
    BY <1>1 DEF SdrInv, NumbersTell
  <2> QED
    BY <1>1, <2>10, <2>11, <2>12, <2>13, <2>14 DEF SdrInv
<1> QED
  BY <1>2, <1>3, <1>4
-----------------------------------------------------------------------------
(* An item of a value: its place, and the version it is of.                *)
PageItems == [at : Nat, version : Nat]

(* What counts of a call, and of a value that somebody answers truly.      *)
PageCounts ==
    /\ chunk_size \in Nat /\ unit \in Nat /\ length \in Nat /\ page \in Nat
    /\ got \in Seq(PageItems) /\ version \in Nat /\ total \in Int
    /\ reader = "spd" => length = Longest

(* The items are of the version there is, those after the m-th; or, if no  *)
(* version followed the first, all of a value as far as they go.           *)
Follows(t, m) == \A k \in 1..Len(t) : t[k].version = version /\ (selected => t[k].at = m + k)
InOrder(s) == selected => \A k \in 1..Len(s) : s[k].at = k /\ (version = 0 => s[k].version = 0)

(* What was got is the value as far as it goes, and the total that the     *)
(* reader goes by is its length.                                           *)
SoFar ==
    /\ Len(got) <= length
    /\ InOrder(got)
    /\ at = "page" /\ reader \in {"fru", "spd", "string", "ids"} => total = length
    /\ reader = "lcd" /\ page # 0 => total = length
    /\ result = "ok" => Len(got) = length /\ at = "done"
    /\ at = "first" \/ (at = "page" /\ reader = "value") => got = <<>>

(* A target that answers anything promises nothing.                        *)
PagesInv == ~broken => PageCounts /\ SoFar

\* Before the first command.
LEMMA PagesStart == Pages!Init => PagesInv
<1> SUFFICES ASSUME Pages!Init, ~broken PROVE PageCounts /\ SoFar
  BY DEF PagesInv
<1>1. /\ unit \in Nat /\ version = 0 /\ total = 0 /\ page = 0 /\ got = <<>> /\ at = "first" /\ result = "none"
  BY DEF Pages!Init
<1>2. length \in Nat /\ chunk_size \in Nat /\ (reader = "spd" => length = Longest)
  BY ReadingAssumption DEF Pages!Init
<1> QED
  BY <1>1, <1>2 DEF PageCounts, SoFar, InOrder

\* One sequence after another.
LEMMA Joined ==
  ASSUME NEW S, NEW r \in Seq(S), NEW t \in Seq(S), NEW s, s = r \o t
  PROVE  /\ s \in Seq(S) /\ Len(s) = Len(r) + Len(t)
         /\ \A k \in 1..Len(r) : s[k] = r[k]
         /\ \A j \in 1..Len(t) : s[Len(r) + j] = t[j]
         /\ \A k \in 1..Len(s) : k \in 1..Len(r) \/ \E j \in 1..Len(t) : k = Len(r) + j
<1>1. /\ s \in Seq(S) /\ Len(s) = Len(r) + Len(t) /\ Len(r) \in Nat /\ Len(t) \in Nat
      /\ \A k \in 1..(Len(r) + Len(t)) : s[k] = IF k <= Len(r) THEN r[k] ELSE t[k - Len(r)]
  OBVIOUS
<1>2. \A k \in 1..Len(r) : s[k] = r[k]
  BY <1>1
<1>3. ASSUME NEW j \in 1..Len(t) PROVE s[Len(r) + j] = t[j]
  <2>1. Len(r) + j \in 1..(Len(r) + Len(t)) /\ ~(Len(r) + j <= Len(r)) /\ (Len(r) + j) - Len(r) = j
    BY <1>1
  <2> QED
    BY <1>1, <2>1
<1>4. ASSUME NEW k \in 1..Len(s), k \notin 1..Len(r) PROVE \E j \in 1..Len(t) : k = Len(r) + j
  <2>1. k - Len(r) \in 1..Len(t) /\ k = Len(r) + (k - Len(r))
    BY <1>1, <1>4
  <2> QED
    BY <2>1
<1> QED
  BY <1>1, <1>2, <1>3, <1>4

\* The items of a page, as the target has them.
LEMMA PagesItem ==
  ASSUME NEW m \in Nat, NEW n \in Nat, version \in Nat, NEW t, t = Pages!Items(m, n)
  PROVE  /\ t \in Seq(PageItems) /\ Len(t) = n
         /\ Follows(t, m)
<1> DEFINE item(k) == [at |-> IF selected THEN m + k ELSE 0, version |-> version]
<1>1. t = [k \in 1..n |-> item(k)]
  BY DEF Pages!Items
<1>2. \A k \in 1..n : item(k) \in PageItems
  BY DEF PageItems
<1>3. \A k \in 1..n : item(k).version = version /\ (selected => item(k).at = m + k)
  OBVIOUS
<1> HIDE DEF item
<1>4. t \in Seq(PageItems) /\ Len(t) = n /\ \A k \in 1..n : t[k] = item(k)
  BY <1>1, <1>2
<1> QED
  BY <1>3, <1>4 DEF Follows

\* The items of a page follow those that are there.
LEMMA PagesItems ==
  ASSUME PageCounts, SoFar, NEW n \in Nat, NEW s, s = got \o Pages!Items(Len(got), n)
  PROVE  /\ s \in Seq(PageItems) /\ Len(s) = Len(got) + n
         /\ InOrder(s)
<1> DEFINE t == Pages!Items(Len(got), n)
<1>1. got \in Seq(PageItems) /\ version \in Nat /\ Len(got) \in Nat
  BY DEF PageCounts
<1>2. s = got \o t /\ t = Pages!Items(Len(got), n)
  OBVIOUS
<1> HIDE DEF t
<1>3. /\ t \in Seq(PageItems) /\ Len(t) = n
      /\ Follows(t, Len(got))
  <2>1. Len(got) \in Nat /\ version \in Nat /\ t = Pages!Items(Len(got), n)
    BY <1>1, <1>2
  <2> QED
    BY <2>1, PagesItem
<1>4. /\ s \in Seq(PageItems) /\ Len(s) = Len(got) + Len(t)
      /\ \A k \in 1..Len(got) : s[k] = got[k]
      /\ \A j \in 1..Len(t) : s[Len(got) + j] = t[j]
      /\ \A k \in 1..Len(s) : k \in 1..Len(got) \/ \E j \in 1..Len(t) : k = Len(got) + j
  <2>1. got \in Seq(PageItems) /\ t \in Seq(PageItems) /\ s = got \o t
    BY <1>1, <1>2, <1>3
  <2>2. s \in Seq(PageItems) /\ Len(s) = Len(got) + Len(t)
    BY <2>1, Joined
  <2>3. \A k \in 1..Len(got) : s[k] = got[k]
    BY <2>1, Joined
  <2>4. \A j \in 1..Len(t) : s[Len(got) + j] = t[j]
    BY <2>1, Joined
  <2>5. ASSUME NEW k \in 1..Len(s), k \notin 1..Len(got)
        PROVE  \E j \in 1..Len(t) : k = Len(got) + j
    <3>1. Len(got) \in Nat /\ Len(t) \in Nat /\ Len(s) = Len(got) + Len(t)
      BY <2>1, <2>2
    <3>2. k - Len(got) \in 1..Len(t) /\ k = Len(got) + (k - Len(got))
      BY <2>5, <3>1
    <3> QED
      BY <3>2
  <2> QED
    BY <2>2, <2>3, <2>4, <2>5
<1>5. ASSUME selected, NEW k \in 1..Len(s) PROVE s[k].at = k /\ (version = 0 => s[k].version = 0)
  <2>1. CASE k \in 1..Len(got)
    BY <1>4, <1>5, <2>1 DEF SoFar, InOrder
  <2>2. CASE \E j \in 1..Len(t) : k = Len(got) + j
    BY <1>3, <1>4, <1>5, <2>2 DEF Follows
  <2> QED
    BY <1>4, <2>1, <2>2
<1> QED
  BY <1>3, <1>4, <1>5 DEF InOrder

\* What adds no item: it ends the read or goes on with the next page.
LEMMA PagesMoves ==
  ASSUME PagesInv, ~broken, UNCHANGED <<broken, reader, unit, length, version, selected, got>>,
         chunk_size' \in Nat, page' \in Nat, total' \in Int, at \in {"first", "page"}, at' \in {"page", "done"},
         at' = "page" /\ reader \in {"fru", "spd", "string", "ids"} => total' = length,
         reader = "lcd" => total' = total /\ page' = page,
         result' = "ok" => Len(got) = length /\ at' = "done"
  PROVE  PagesInv'
<1>1. PageCounts'
  BY DEF PagesInv, PageCounts
<1>2. SoFar'
  BY DEF PagesInv, SoFar, InOrder
<1> QED
  BY <1>1, <1>2 DEF PagesInv

\* The items that are got are those that follow.
LEMMA PagesGets ==
  ASSUME PagesInv, ~broken, UNCHANGED <<broken, reader, unit, length, version, selected, chunk_size>>,
         page' \in Nat, total' \in Int, at' \in {"page", "done"}, at' = "page" => reader # "value",
         NEW n \in Nat, Len(got) + n <= length, got' = got \o Pages!Items(Len(got), n),
         at' = "page" /\ reader \in {"fru", "spd", "string", "ids"} => total' = length,
         reader = "lcd" => total' = length,
         result' = "ok" => Len(got) + n = length /\ at' = "done"
  PROVE  PagesInv'
<1>1. PageCounts /\ SoFar
  BY DEF PagesInv
<1>2. /\ got' \in Seq(PageItems) /\ Len(got') = Len(got) + n
      /\ InOrder(got')
  <2> DEFINE s == got \o Pages!Items(Len(got), n)
  <2>1. got' = s /\ s = got \o Pages!Items(Len(got), n)
    OBVIOUS
  <2> HIDE DEF s
  <2>2. /\ s \in Seq(PageItems) /\ Len(s) = Len(got) + n
        /\ InOrder(s)
    BY <1>1, <2>1, PagesItems
  <2> QED
    BY <2>1, <2>2
<1>3. PageCounts'
  BY <1>1, <1>2 DEF PageCounts
<1>4. SoFar'
  <2>1. InOrder(got)'
    BY <1>2 DEF InOrder
  <2> QED
    BY <1>2, <2>1 DEF SoFar
<1> QED
  BY <1>3, <1>4 DEF PagesInv

\* The first command, from a target that answers truly.
LEMMA PagesBegin ==
  ASSUME PagesInv, ~broken, Pages!FirstCommand
  PROVE  PagesInv'
<1>1. PageCounts /\ SoFar /\ UNCHANGED <<broken, reader, unit, length, version, selected>> /\ at = "first" /\ got = <<>>
  BY DEF PagesInv, SoFar, Pages!FirstCommand, Pages!Quiet, Pages!call, Pages!target
<1>2. /\ chunk_size \in Nat /\ page \in Nat /\ total \in Int /\ length \in Nat
      /\ reader = "spd" => length = Longest
  BY <1>1 DEF PageCounts
<1>3. CASE reader \in {"fru", "string", "ids"} /\ \E t \in Pages!Totals : Pages!FirstAnswer(t)
  <2>1. Pages!FirstAnswer(length)
    BY <1>3 DEF Pages!Totals
  <2>2. CASE Pages!Refuse
    <3>1. UNCHANGED <<chunk_size, total, page, got>> /\ at' = "done" /\ result' = "protocol"
      BY <2>2 DEF Pages!Refuse, Pages!Stop, Pages!progress
    <3> QED
      BY <1>1, <1>2, <3>1, PagesMoves
  <2>3. CASE /\ \E n \in Pages!Heads(length) : got' = Pages!Items(0, n)
             /\ total' = length /\ at' = "page" /\ UNCHANGED <<chunk_size, page, result>>
    <3>1. PICK n \in Pages!Heads(length) : got' = Pages!Items(0, n)
      BY <2>3
    <3>2. n \in Nat /\ n <= length
      BY <1>2, <3>1 DEF Pages!Heads, Pages!Least
    <3>3. Len(got) = 0 /\ got' = got \o Pages!Items(Len(got), n)
      <4> DEFINE t == Pages!Items(0, n)
      <4>1. t = Pages!Items(0, n)
        OBVIOUS
      <4>2. version \in Nat
        BY <1>1 DEF PageCounts
      <4> HIDE DEF t
      <4>3. t \in Seq(PageItems)
        BY <3>2, <4>1, <4>2, PagesItem
      <4>4. Len(got) = 0 /\ got \o t = t
        BY <1>1, <4>3
      <4> QED
        BY <3>1, <4>4 DEF t
    <3>4. result # "ok" /\ reader # "lcd" /\ reader # "value"
      BY <1>1, <1>3 DEF SoFar
    <3> QED
      BY <1>1, <1>2, <2>3, <3>2, <3>3, <3>4, PagesGets
  <2> QED
    BY <2>1, <2>2, <2>3 DEF Pages!FirstAnswer
<1>4. CASE /\ got' = got /\ page' = page /\ chunk_size' = chunk_size /\ at' = "page" /\ result' = result
           /\ \/ total' = total /\ reader \in {"value", "lcd", "nac", "file"}
              \/ total' = Longest /\ reader = "spd"
  <2>1. result # "ok"
    BY <1>1 DEF SoFar
  <2>2. total' \in Int /\ (reader \in {"fru", "spd", "string", "ids"} => total' = length) /\ (reader = "lcd" => total' = total)
    BY <1>2, <1>4, ReadingAssumption
  <2> QED
    BY <1>1, <1>2, <1>4, <2>1, <2>2, PagesMoves
<1>5. CASE Pages!Stop("failed") /\ UNCHANGED Pages!progress
  <2>1. UNCHANGED <<chunk_size, total, page, got>> /\ at' = "done" /\ result' = "failed"
    BY <1>5 DEF Pages!Stop, Pages!progress
  <2> QED
    BY <1>1, <1>2, <2>1, PagesMoves
<1>6. \/ reader \in {"fru", "string", "ids"} /\ \E t \in Pages!Totals : Pages!FirstAnswer(t)
      \/ reader = "spd" /\ total' = Longest /\ at' = "page" /\ UNCHANGED <<chunk_size, page, got, result>>
      \/ reader \in {"value", "lcd", "nac", "file"} /\ at' = "page" /\ UNCHANGED <<chunk_size, total, page, got, result>>
      \/ Pages!Stop("failed") /\ UNCHANGED Pages!progress
  BY DEF Pages!FirstCommand, Pages!progress
<1> QED
  BY <1>3, <1>4, <1>5, <1>6

\* What a target that answers truly returns, and what a reader makes of it.
LEMMA PagesPage ==
  ASSUME PagesInv, ~broken, Pages!ReadPage,
         NEW n, n = Pages!Least(Pages!Want, Pages!Rest), NEW a, a = Pages!Honest(Pages!Want)
  PROVE  /\ Pages!Want \in Nat /\ n \in Nat /\ Len(got) + n <= length
         /\ a.items = Pages!Items(Len(got), n) /\ a.items \in Seq(PageItems) /\ Len(a.items) = n
         /\ a.total = length /\ a.echo = page
         /\ a.last = (n = length - Len(got) /\ (reader = "nac" => n < Page))
         /\ \/ Pages!Refuse /\ ~Pages!Acceptable(a)
            \/ /\ Pages!Acceptable(a)
               /\ got' = got \o Pages!Items(Len(got), n)
               /\ total' = IF reader = "lcd" /\ page = 0 THEN length ELSE total
               /\ page' = IF Pages!Counted THEN page + 1 ELSE page
               /\ UNCHANGED chunk_size
               /\ IF reader \in {"nac", "file"} /\ a.last THEN at' = "done" /\ result' = "ok" ELSE UNCHANGED <<at, result>>
<1>1. /\ PageCounts /\ SoFar /\ at = "page"
      /\ chunk_size \in Nat /\ page \in Nat /\ total \in Int /\ length \in Nat
      /\ Len(got) \in Nat /\ Len(got) <= length /\ version \in Nat
      /\ reader \in {"fru", "spd", "string", "ids"} => total = length
      /\ reader = "lcd" /\ page # 0 => total = length
  BY DEF PagesInv, PageCounts, SoFar, Pages!ReadPage
<1>2. Pages!Want \in Nat
  BY <1>1, ReadingAssumption DEF Pages!Want, Pages!Least
<1>3. Pages!Rest = length - Len(got)
  BY DEF Pages!Rest
<1>4. n \in Nat /\ Len(got) + n <= length
  BY <1>1, <1>2, <1>3 DEF Pages!Least
<1>5. /\ a.total = length /\ a.items = Pages!Items(Len(got), n) /\ a.echo = page
      /\ a.last = (n = length - Len(got) /\ (reader = "nac" => n < Page))
  BY <1>3 DEF Pages!Honest, Pages!Answer
<1>6. a.items \in Seq(PageItems) /\ Len(a.items) = n
  BY <1>1, <1>4, <1>5, PagesItem
<1>7. Pages!Taken(a) = n
  BY <1>1, <1>4, <1>5, <1>6 DEF Pages!Taken, Pages!Least
<1>8. SubSeq(a.items, 1, Pages!Taken(a)) = Pages!Items(Len(got), n)
  <2>1. SubSeq(a.items, 1, n) = a.items
    BY <1>4, <1>6
  <2> QED
    BY <1>5, <1>7, <2>1, Zenon
<1>9. PICK x \in Pages!Answers(Pages!Want) :
        \/ Pages!Refuse /\ ~Pages!Acceptable(x)
        \/ /\ Pages!Acceptable(x)
           /\ got' = got \o SubSeq(x.items, 1, Pages!Taken(x))
           /\ total' = IF reader = "lcd" /\ page = 0 THEN x.total ELSE total
           /\ page' = IF Pages!Counted THEN page + 1 ELSE page
           /\ UNCHANGED chunk_size
           /\ IF reader \in {"nac", "file"} /\ x.last THEN at' = "done" /\ result' = "ok" ELSE UNCHANGED <<at, result>>
  BY Zenon DEF Pages!ReadPage, Pages!Stop
<1>10. x = a
  BY DEF Pages!Answers
<1> QED
  BY <1>2, <1>4, <1>5, <1>6, <1>8, <1>9, <1>10, Zenon

\* A page, from a target that answers truly.
LEMMA PagesReadPage ==
  ASSUME PagesInv, ~broken, Pages!ReadPage
  PROVE  PagesInv'
<1>1. PageCounts /\ SoFar /\ UNCHANGED <<broken, reader, unit, length, version, selected>> /\ at = "page"
  BY DEF PagesInv, Pages!ReadPage, Pages!Quiet, Pages!call, Pages!target
<1>2. /\ chunk_size \in Nat /\ page \in Nat /\ total \in Int /\ length \in Nat
      /\ Len(got) \in Nat /\ Len(got) <= length /\ version \in Nat
      /\ reader \in {"fru", "spd", "string", "ids"} => total = length
      /\ reader = "lcd" /\ page # 0 => total = length
      /\ reader # "value" /\ result # "ok"
  <2>1. reader # "value"
    BY DEF Pages!ReadPage, Pages!Paged
  <2> QED
    BY <1>1, <2>1 DEF PageCounts, SoFar
<1> DEFINE n == Pages!Least(Pages!Want, Pages!Rest)
           a == Pages!Honest(Pages!Want)
<1>3. /\ n \in Nat /\ Len(got) + n <= length /\ (a.last => Len(got) + n = length)
      /\ \/ Pages!Refuse
         \/ /\ got' = got \o Pages!Items(Len(got), n)
            /\ total' = IF reader = "lcd" /\ page = 0 THEN length ELSE total
            /\ page' = IF Pages!Counted THEN page + 1 ELSE page
            /\ UNCHANGED chunk_size
            /\ IF reader \in {"nac", "file"} /\ a.last THEN at' = "done" /\ result' = "ok" ELSE UNCHANGED <<at, result>>
  <2>1. /\ n \in Nat /\ Len(got) + n <= length /\ (a.last => n = length - Len(got))
    BY PagesPage
  <2>2. a.last => Len(got) + n = length
    BY <1>2, <2>1
  <2> QED
    BY <2>1, <2>2, PagesPage, Zenon
<1> HIDE DEF n, a
<1>4. CASE Pages!Refuse
  <2>1. UNCHANGED <<chunk_size, total, page, got>> /\ at' = "done" /\ result' = "protocol"
    BY <1>4 DEF Pages!Refuse, Pages!Stop, Pages!progress
  <2> QED
    BY <1>1, <1>2, <2>1, PagesMoves
<1>5. CASE /\ got' = got \o Pages!Items(Len(got), n)
           /\ total' = IF reader = "lcd" /\ page = 0 THEN length ELSE total
           /\ page' = IF Pages!Counted THEN page + 1 ELSE page
           /\ UNCHANGED chunk_size
           /\ IF reader \in {"nac", "file"} /\ a.last THEN at' = "done" /\ result' = "ok" ELSE UNCHANGED <<at, result>>
  <2>1. /\ page' \in Nat /\ total' \in Int /\ at' \in {"page", "done"}
        /\ at' = "page" /\ reader \in {"fru", "spd", "string", "ids"} => total' = length
        /\ reader = "lcd" => total' = length
        /\ result' = "ok" => Len(got) + n = length /\ at' = "done"
    BY <1>1, <1>2, <1>3, <1>5
  <2> QED
    BY <1>1, <1>2, <1>3, <1>5, <2>1, PagesGets
<1> QED
  BY <1>3, <1>4, <1>5

\* Whatever else happens to a read.
LEMMA PagesStep ==
  ASSUME PagesInv, Pages!Next
  PROVE  PagesInv'
<1> SUFFICES ASSUME ~broken' PROVE PagesInv'
  BY DEF PagesInv
<1>1. broken' = broken
  BY DEF Pages!Next, Pages!Step, Pages!FirstCommand, Pages!ReadPage, Pages!Shrink, Pages!PollValue, Pages!Finish, Pages!Fail,
     Pages!Rewrite, Pages!SelectElsewhere, Pages!Quiet, Pages!target
<1>2. ~broken /\ PageCounts /\ SoFar
  BY <1>1 DEF PagesInv
<1>3. /\ chunk_size \in Nat /\ unit \in Nat /\ page \in Nat /\ total \in Int /\ length \in Nat
      /\ at = "page" /\ reader \in {"fru", "spd", "string", "ids"} => total = length
      /\ at = "page" => result # "ok"
      /\ at = "page" /\ reader = "value" => got = <<>>
      /\ reader = "lcd" /\ page # 0 => total = length
  BY <1>2 DEF PageCounts, SoFar
<1>4. CASE Pages!FirstCommand \/ Pages!ReadPage
  BY <1>2, <1>4, PagesBegin, PagesReadPage
<1>5. CASE Pages!Shrink
  <2>1. /\ UNCHANGED <<broken, reader, unit, length, version, selected, got, total, page>> /\ at = "page"
        /\ \/ chunk_size' = Pages!Smaller /\ UNCHANGED <<at, result>>
           \/ UNCHANGED chunk_size /\ at' = "done" /\ result' = "failed"
    BY <1>5 DEF Pages!Shrink, Pages!Quiet, Pages!call, Pages!target, Pages!Stop, Pages!progress
  <2>2. Pages!Smaller \in Nat
    BY <1>3 DEF Pages!Smaller, Pages!Largest
  <2> QED
    BY <1>2, <1>3, <2>1, <2>2, PagesMoves
<1>6. CASE Pages!PollValue
  <2>1. /\ UNCHANGED <<broken, reader, unit, length, version, selected>> /\ at = "page" /\ reader = "value"
        /\ \/ got' = Pages!Items(0, length) /\ at' = "done" /\ result' = "ok" /\ UNCHANGED <<chunk_size, total, page>>
           \/ at' = "done" /\ result' \in {"absent", "limit"} /\ UNCHANGED <<chunk_size, total, page, got>>
           \/ page' = page + 1 /\ UNCHANGED <<at, chunk_size, total, got, result>>
    BY <1>6 DEF Pages!PollValue, Pages!Quiet, Pages!call, Pages!target, Pages!Stop, Pages!progress
  <2>2. CASE got' = Pages!Items(0, length) /\ at' = "done" /\ result' = "ok" /\ UNCHANGED <<chunk_size, total, page>>
    <3> DEFINE t == Pages!Items(0, length)
    <3>1. t = Pages!Items(0, length) /\ version \in Nat
      BY <1>2 DEF PageCounts
    <3> HIDE DEF t
    <3>2. t \in Seq(PageItems)
      BY <1>3, <3>1, PagesItem
    <3>3. Len(got) = 0 /\ got \o t = t
      BY <1>3, <2>1, <3>2
    <3>4. got' = got \o Pages!Items(Len(got), length)
      BY <2>2, <3>1, <3>3
    <3>5. length \in Nat /\ Len(got) + length <= length /\ Len(got) + length = length
      BY <1>3, <3>3
    <3> QED
      BY <1>2, <1>3, <2>1, <2>2, <3>4, <3>5, PagesGets
  <2>3. CASE \/ at' = "done" /\ result' \in {"absent", "limit"} /\ UNCHANGED <<chunk_size, total, page, got>>
             \/ page' = page + 1 /\ UNCHANGED <<at, chunk_size, total, got, result>>
    BY <1>2, <1>3, <2>1, <2>3, PagesMoves
  <2> QED
    BY <2>1, <2>2, <2>3
<1>7. CASE Pages!Finish
  <2>1. /\ UNCHANGED <<broken, reader, unit, length, version, selected, chunk_size, total, page, got>>
        /\ at = "page" /\ at' = "done" /\ reader # "value"
        /\ result' = "limit" \/ (result' = "ok" /\ ~Pages!Paged)
    BY <1>7 DEF Pages!Finish, Pages!Quiet, Pages!call, Pages!target, Pages!Stop, Pages!progress
  <2>2. ~Pages!Paged => Len(got) = length
    BY <1>3, <2>1 DEF Pages!Paged, Pages!Complete
  <2> QED
    BY <1>2, <1>3, <2>1, <2>2, PagesMoves
<1>8. CASE Pages!Fail
  <2>1. /\ UNCHANGED <<broken, reader, unit, length, version, selected, chunk_size, total, page, got>>
        /\ at = "page" /\ at' = "done" /\ result' = "failed"
    BY <1>8 DEF Pages!Fail, Pages!Quiet, Pages!call, Pages!target, Pages!Stop, Pages!progress
  <2> QED
    BY <1>2, <1>3, <2>1, PagesMoves
<1>9. CASE Pages!Rewrite
  <2>1. /\ UNCHANGED <<at, reader, unit, length, broken, selected, chunk_size, total, page, got, result>>
        /\ version' = 1
    BY <1>9 DEF Pages!Rewrite, Pages!call, Pages!progress
  <2>2. PageCounts'
    BY <1>2, <2>1 DEF PageCounts
  <2>3. InOrder(got)'
    BY <1>2, <2>1 DEF SoFar, InOrder
  <2>4. SoFar'
    BY <1>2, <2>1, <2>3 DEF SoFar
  <2> QED
    BY <2>2, <2>4 DEF PagesInv
<1>10. CASE Pages!SelectElsewhere
  <2>1. /\ UNCHANGED <<at, reader, unit, length, broken, version, chunk_size, total, page, got, result>>
        /\ selected' = FALSE
    BY <1>10 DEF Pages!SelectElsewhere, Pages!call, Pages!progress
  <2>2. PageCounts'
    BY <1>2, <2>1 DEF PageCounts
  <2>3. InOrder(got)'
    BY <2>1 DEF InOrder
  <2>4. SoFar'
    BY <1>2, <2>1, <2>3 DEF SoFar
  <2> QED
    BY <2>2, <2>4 DEF PagesInv
<1> QED
  BY <1>4, <1>5, <1>6, <1>7, <1>8, <1>9, <1>10 DEF Pages!Next, Pages!Step
-----------------------------------------------------------------------------
(***************************************************************************)
(* The inductive invariant: that of the reader that runs; the log is at    *)
(* rest, or read.                                                          *)
(***************************************************************************)
ReadingInv ==
    /\ SelInv
    /\ program = "sdr" => SdrInv
    /\ program = "pages" => PagesInv

\* A repository and a value at rest keep what is kept of them.
LEMMA SdrRests == SdrInv /\ UNCHANGED <<shared, sdrOwn>> => SdrInv'
<1> SUFFICES ASSUME SdrInv, UNCHANGED <<shared, sdrOwn>> PROVE SdrInv'
  OBVIOUS
<1>1. UNCHANGED <<at, limit, broken, result, records, edits, held, reserves, next_record, visited, read_limit, current,
                  filled, header, successor, parts, attempt, yielded, start>>
  BY DEF shared, sdrOwn
<1>2. SdrCounts' /\ Visited'
  BY <1>1 DEF SdrInv, SdrCounts, Visited, UnderWay
<1>3. OfOnePiece => OfOnePiece'
  BY <1>1 DEF OfOnePiece, Sdr!Place, Sdr!Target
<1> QED
  BY <1>1, <1>2, <1>3, SdrMoves DEF SdrInv

\* As SdrRests.
LEMMA PagesRest == PagesInv /\ UNCHANGED <<shared, pagesOwn>> => PagesInv'
<1> SUFFICES ASSUME PagesInv, UNCHANGED <<shared, pagesOwn>> PROVE PagesInv'
  OBVIOUS
<1>1. UNCHANGED <<at, limit, broken, result, reader, chunk_size, unit, length, version, selected, total, page, got>>
  BY DEF shared, pagesOwn
<1>2. PageCounts => PageCounts'
  BY <1>1 DEF PageCounts
<1>3. InOrder(got) => InOrder(got)'
  BY <1>1 DEF InOrder
<1>4. SoFar => SoFar'
  BY <1>1, <1>3 DEF SoFar
<1> QED
  BY <1>1, <1>2, <1>4 DEF PagesInv

\* Each of the readers begins with its invariant,
LEMMA ReadingStart == ReadingInit => ReadingInv
<1> SUFFICES ASSUME ReadingInit PROVE ReadingInv
  OBVIOUS
<1>1. SelInv
  BY SelStart DEF ReadingInit
<1>2. program = "sdr" => SdrInv
  BY SdrStart DEF ReadingInit
<1>3. program = "pages" => PagesInv
  BY PagesStart DEF ReadingInit
<1> QED
  BY <1>1, <1>2, <1>3 DEF ReadingInv

\* and every step of a reader, its BMC and the other consoles keeps it.
LEMMA ReadingStep == ReadingInv /\ [ReadingNext]_allVars => ReadingInv'
<1> SUFFICES ASSUME ReadingInv, [ReadingNext]_allVars PROVE ReadingInv'
  OBVIOUS
<1>1. CASE RunSel
  <2>1. SelInv'
    BY <1>1, SelStep DEF ReadingInv, RunSel
  <2> QED
    BY <1>1, <2>1 DEF ReadingInv, RunSel
<1>2. CASE RunSdr
  <2>1. SelInv'
    BY <1>2, SelStep DEF ReadingInv, RunSdr
  <2>2. SdrInv'
    BY <1>2, SdrWalks, SdrReads, SdrChanges DEF ReadingInv, RunSdr, Sdr!Next, Sdr!Step
  <2> QED
    BY <1>2, <2>1, <2>2 DEF ReadingInv, RunSdr
<1>3. CASE RunPages
  <2>1. SelInv'
    BY <1>3, SelStep DEF ReadingInv, RunPages
  <2>2. PagesInv'
    BY <1>3, PagesStep DEF ReadingInv, RunPages
  <2> QED
    BY <1>3, <2>1, <2>2 DEF ReadingInv, RunPages
<1>4. CASE UNCHANGED allVars
  <2>1. UNCHANGED <<program, vars>> /\ UNCHANGED <<shared, sdrOwn>> /\ UNCHANGED <<shared, pagesOwn>>
    BY <1>4 DEF allVars
  <2>2. SelInv'
    BY <2>1, SelStep DEF ReadingInv
  <2> QED
    BY <2>1, <2>2, SdrRests, PagesRest DEF ReadingInv
<1> QED
  BY <1>1, <1>2, <1>3, <1>4 DEF ReadingNext

\* What the invariant says of what is returned.
LEMMA ReadingMeans == ReadingInv => ValuesIntact
<1> SUFFICES ASSUME ReadingInv PROVE ValuesIntact
  OBVIOUS
<1>1. ASSUME program = "sdr" PROVE Sdr!RecordsWhole /\ Sdr!NoneTwice
  <2>1. SdrInv /\ yielded \in Seq(Returned)
    BY <1>1 DEF ReadingInv, SdrInv, SdrCounts
  <2> QED
    BY <2>1 DEF SdrInv, Whole, Sdr!RecordsWhole
<1>2. ASSUME program = "pages" PROVE Pages!ValueWhole
  <2> SUFFICES ASSUME result = "ok", ~broken, selected
               PROVE  /\ [k \in DOMAIN got |-> got[k].at] = [k \in 1..length |-> k]
                      /\ version = 0 => \A k \in DOMAIN got : got[k].version = 0
    BY DEF Pages!ValueWhole
  <2>1. PageCounts /\ SoFar
    BY <1>2 DEF ReadingInv, PagesInv
  <2>2. /\ Len(got) = length /\ got \in Seq(PageItems) /\ length \in Nat
        /\ \A k \in 1..Len(got) : got[k].at = k /\ (version = 0 => got[k].version = 0)
    BY <2>1 DEF PageCounts, SoFar, InOrder
  <2>3. DOMAIN got = 1..length
    BY <2>2
  <2> QED
    BY <2>2, <2>3
<1> QED
  BY <1>1, <1>2 DEF ValuesIntact

-----------------------------------------------------------------------------
(***************************************************************************)
(* While nothing changes.  A scan of the log has read its first records    *)
(* and is at the next of them (Reached); a traversal of the sensor records *)
(* has returned the first of them as they are, and holds a reservation     *)
(* that is good (Progress); the pages that a reader counts are full ones,  *)
(* so that only a value longer than it takes makes too many of them        *)
(* (FullPages).                                                            *)
(***************************************************************************)
(* While nothing changes, a scan of a log that is not too long has read    *)
(* the first of its records and is at the next of them: it has looked for  *)
(* none that is not there, repeated no read and not begun again.           *)
NextOf(k) == IF k = 0 THEN FIRST ELSE IF k = Len(log) THEN LAST ELSE log[k + 1].id
Reached ==
    /\ Len(emitted) <= Len(log) /\ \A j \in 1..Len(emitted) : emitted[j] = log[j]
    /\ scanned = seen /\ next_id = NextOf(Len(emitted))
    /\ remaining_reads = ReadBudget - Len(emitted)
    /\ pc \in {"reserve", "next", "read"} => Len(log) > 0
    /\ pc \in {"info", "reserve"} => retry = 0
    /\ pc \in {"next", "read"} /\ has_reservation => reserved
    /\ pc = "read" => Len(emitted) < Len(log)
    /\ pc = "end" => Len(emitted) = Len(log)
    /\ pc # "reinfo"

AtRest == changes = began /\ Len(log) <= MaxEntries
SelQuiet ==
    ~faulty =>
        /\ began \in 0..changes /\ Len(log) <= Capacity
        /\ QuietWalkSucceeds
        /\ pc # "idle" /\ AtRest => Reached


\* Where such a scan is: at the record after the last one read, which is
\* there and has a number of its own.
LEMMA ReachedNext ==
  ASSUME SelTrue, Reached
  PROVE  /\ Len(emitted) \in Nat /\ Len(log) \in Nat /\ DOMAIN log = 1..Len(log)
         /\ \A i \in 1..Len(log) : log[i].id \in Nat \ {0} /\ log[i].id < 65535
         /\ \A i, j \in 1..Len(log) : i < j => log[i].id < log[j].id
         /\ seen = {log[j].id : j \in 1..Len(emitted)}
         /\ Len(emitted) < Len(log) => next_id # LAST /\ next_id \notin scanned /\ Matches(next_id) = {Len(emitted) + 1}
<1> DEFINE k == Len(emitted)
<1>1. /\ k \in Nat /\ Len(log) \in Nat /\ DOMAIN log = 1..Len(log)
      /\ emitted \in Seq(SelRecords) /\ log \in Seq(SelRecords) /\ DOMAIN emitted = 1..k
  BY DEF SelTrue, LogOrdered, SerialsTell
<1>2. \A i \in 1..Len(log) : log[i].id \in Nat \ {0} /\ log[i].id < 65535
  <2>1. \A i \in 1..Len(log) : log[i].id \in Nat \ {0} /\ log[i].id < next_number
    <3>1. \A i \in 1..Len(log) : log[i] \in SelRecords
      BY <1>1
    <3>2. \A i \in 1..Len(log) : log[i].id < next_number
      BY DEF SelTrue, LogOrdered
    <3> QED
      BY <3>1, <3>2 DEF SelRecords
  <2>2. next_number \in Nat /\ next_number <= 65535
    BY WalkAssumption DEF SelTrue, LogOrdered
  <2> QED
    BY <2>1, <2>2
<1>3. \A i, j \in 1..Len(log) : i < j => log[i].id < log[j].id
  BY DEF SelTrue, LogOrdered
<1>4. seen = {log[j].id : j \in 1..k}
  <2>1. seen = {emitted[j].id : j \in 1..k}
    BY <1>1 DEF SelTrue, SeenIds, EmittedSet
  <2>2. \A j \in 1..k : emitted[j] = log[j]
    BY DEF Reached
  <2> QED
    BY <2>1, <2>2
<1>5. ASSUME k < Len(log)
      PROVE  next_id # LAST /\ next_id \notin scanned /\ Matches(next_id) = {k + 1}
  <2>1. next_id = IF k = 0 THEN FIRST ELSE log[k + 1].id
    <3>1. next_id = NextOf(k)
      BY Zenon DEF Reached
    <3>2. k # Len(log)
      <4>1. k \in Nat /\ Len(log) \in Nat
        BY <1>1
      <4> QED
        BY <1>5, <4>1
    <3> QED
      BY <3>1, <3>2, Zenon DEF NextOf
  <2>2. k + 1 \in 1..Len(log) /\ scanned = {log[j].id : j \in 1..k}
    <3>1. scanned = seen
      BY DEF Reached
    <3>2. k + 1 \in 1..Len(log)
      BY <1>1, <1>5
    <3> QED
      BY <1>4, <3>1, <3>2, Zenon
  <2>3. CASE k = 0
    <3>1. next_id = 0 /\ Len(log) >= 1
      BY <1>1, <1>5, <2>1, <2>3 DEF FIRST
    <3>2. Matches(next_id) = {1}
      BY <1>1, <3>1 DEF Matches, FIRST
    <3>3. scanned = {}
      BY <2>2, <2>3
    <3> QED
      BY <2>3, <3>1, <3>2, <3>3 DEF LAST
  <2>4. CASE k # 0
    <3>1. next_id = log[k + 1].id /\ next_id \in Nat \ {0} /\ next_id < 65535
      BY <1>2, <2>1, <2>2, <2>4
    <3>2. \A j \in 1..Len(log) : log[j].id = next_id => j = k + 1
      <4> SUFFICES ASSUME NEW j \in 1..Len(log), log[j].id = next_id, j # k + 1 PROVE FALSE
        OBVIOUS
      <4>1. j < k + 1 \/ k + 1 < j
        BY <1>1
      <4> QED
        BY <1>2, <1>3, <2>2, <3>1, <4>1
    <3>3. Matches(next_id) = {k + 1}
      <4>1. next_id # FIRST
        BY <3>1 DEF FIRST
      <4>2. Matches(next_id) = {j \in 1..Len(log) : log[j].id = next_id}
        BY <1>1, <4>1 DEF Matches
      <4> QED
        BY <2>2, <3>1, <3>2, <4>2
    <3>4. next_id \notin scanned
      <4>1. \A j \in 1..k : j \in 1..Len(log) /\ j # k + 1
        BY <1>1, <1>5
      <4> QED
        BY <2>2, <3>2, <4>1
    <3> QED
      BY <3>1, <3>3, <3>4 DEF LAST
  <2> QED
    BY <2>3, <2>4
<1> QED
  BY <1>1, <1>2, <1>3, <1>4, <1>5

\* It is not full before it is through, and has reads left.
LEMMA ReachedRoom ==
  ASSUME SelTrue, Reached, Len(log) <= MaxEntries, Len(log) <= Capacity, Len(emitted) < Len(log)
  PROVE  ~Full(next_id) /\ remaining_reads > 0
<1> DEFINE k == Len(emitted)
           number == [j \in 1..k |-> log[j].id]
<1>1. /\ k \in Nat /\ Len(log) \in Nat /\ k < MaxEntries /\ k < Capacity
      /\ seen = {log[j].id : j \in 1..k}
  BY ReachedNext, WalkAssumption
<1>2. IsFiniteSet(1..k) /\ Cardinality(1..k) = k
  <2>1. 1 \in Int /\ k \in Int /\ (1 > k => k = 0)
    BY <1>1
  <2> HIDE DEF k
  <2>2. IsFiniteSet(1..k) /\ Cardinality(1..k) = IF 1 > k THEN 0 ELSE k - 1 + 1
    BY <2>1, FS_Interval
  <2> QED
    BY <2>1, <2>2
<1>3. number \in Surjection(1..k, seen)
  BY <1>1 DEF Surjection, Range
<1>5. Cardinality(seen) <= k /\ Cardinality(seen) \in Nat
  <2> HIDE DEF k, number
  <2>1. IsFiniteSet(seen) /\ Cardinality(seen) <= Cardinality(1..k)
    BY <1>2, <1>3, FS_Surjection, Zenon
  <2> QED
    BY <1>2, <2>1, FS_CardinalityType
<1>6. ~Full(next_id)
  BY <1>1, <1>5, WalkAssumption DEF Full
<1>7. remaining_reads = ReadBudget - k /\ k < ReadBudget /\ ReadBudget \in Nat
  BY <1>1, WalkAssumption DEF Reached, ReadBudget
<1> QED
  BY <1>1, <1>6, <1>7

\* The commands of such a scan but for the read of a record.
LEMMA ReachedWalks ==
  ASSUME SelTrue, ~faulty, Reached, Len(log) <= MaxEntries, Len(log) <= Capacity,
         \/ FirstInfo \/ Reserve \/ CheckNext \/ ReadLimit \/ ReadCancelled \/ ReadAbsent
         \/ InfoAfterAbsent \/ CommandFails
  PROVE  /\ outcome' = "refused" => outcome = "refused"
         /\ pc' # "idle" => Reached'
<1>1. /\ Len(emitted) \in Nat /\ Len(log) \in Nat
      /\ \A i \in 1..Len(log) : log[i].id \in Nat \ {0} /\ log[i].id < 65535
      /\ seen = {log[j].id : j \in 1..Len(emitted)}
      /\ Len(emitted) < Len(log) =>
           /\ next_id # LAST /\ next_id \notin scanned /\ Matches(next_id) = {Len(emitted) + 1}
           /\ ~Full(next_id) /\ remaining_reads > 0
  BY ReachedNext, ReachedRoom
<1>2. /\ Len(emitted) <= Len(log) /\ scanned = seen
      /\ pc \in {"info", "reserve"} => retry = 0
      /\ pc \in {"reserve", "next", "read"} => Len(log) > 0
      /\ pc \in {"next", "read"} /\ has_reservation => reserved
      /\ pc = "read" => Len(emitted) < Len(log)
      /\ pc # "reinfo"
  BY Zenon DEF Reached
<1>3. \/ Len(emitted) < Len(log)
      \/ Len(emitted) = Len(log)
  BY <1>1, <1>2
<1>4. Len(emitted) = Len(log) /\ Len(log) > 0 => next_id = LAST /\ ~Full(next_id) /\ next_id \notin scanned
  <2> SUFFICES ASSUME Len(emitted) = Len(log), Len(log) > 0
               PROVE  next_id = LAST /\ ~Full(next_id) /\ next_id \notin scanned
    OBVIOUS
  <2>1. next_id = NextOf(Len(emitted))
    BY Zenon DEF Reached
  <2>2. Len(emitted) # 0
    BY <1>1
  <2>3. next_id = LAST
    BY <2>1, <2>2 DEF NextOf
  <2> QED
    BY <1>1, <1>2, <2>3 DEF Full, LAST
<1>5. UNCHANGED <<log, has_reservation>>
  BY DEF FirstInfo, Reserve, CheckNext, ReadLimit, ReadCancelled, ReadAbsent, InfoAfterAbsent, CommandFails,
     Quiet, bmc, fixed
<1>6. ASSUME UNCHANGED <<next_id, seen, scanned, remaining_reads, emitted>>, pc' # "reinfo",
             pc' = "reserve" => Len(log) > 0 /\ retry' = 0,
             pc' = "next" => Len(log) > 0 /\ (has_reservation => reserved'),
             pc' = "read" => Len(emitted) < Len(log) /\ (has_reservation => reserved'),
             pc' = "end" => Len(emitted) = Len(log), pc' # "info"
      PROVE  Reached'
  <2>1. NextOf(Len(emitted))' = NextOf(Len(emitted))
    BY <1>5, <1>6 DEF NextOf
  <2>2. /\ Len(emitted) <= Len(log) /\ \A j \in 1..Len(emitted) : emitted[j] = log[j]
        /\ scanned = seen /\ next_id = NextOf(Len(emitted))
        /\ remaining_reads = ReadBudget - Len(emitted)
    BY Zenon DEF Reached
  <2>3. Len(emitted) < Len(log) => Len(log) > 0
    BY <1>1
  <2> QED
    BY <1>5, <1>6, <2>1, <2>2, <2>3 DEF Reached
<1>7. CASE FirstInfo
  <2>1. /\ pc = "info" /\ UNCHANGED <<next_id, seen, scanned, remaining_reads, emitted, retry, outcome>>
        /\ \/ Len(log) = 0 /\ pc' = "end"
           \/ Len(log) # 0 /\ pc' = "reserve"
           \/ Len(log) # 0 /\ pc' = "next" /\ ~has_reservation
    BY <1>7 DEF FirstInfo, EntryCounts, Finish, iterator, AfterInfo
  <2> QED
    BY <1>1, <1>2, <1>6, <2>1
<1>8. CASE Reserve
  <2>1. /\ pc = "reserve" /\ reserved' = TRUE /\ UNCHANGED <<next_id, seen, scanned, remaining_reads, emitted, outcome>>
        /\ pc' = "next"
    BY <1>1, <1>2, <1>8 DEF Reserve, iterator
  <2> QED
    BY <1>2, <1>6, <2>1
<1>9. CASE CheckNext
  <2>1. /\ pc = "next" /\ UNCHANGED <<reserved, next_id, seen, scanned, remaining_reads, emitted>>
        /\ \/ next_id = LAST /\ pc' = "end" /\ UNCHANGED outcome
           \/ Full(next_id) \/ next_id \in scanned
           \/ next_id # LAST /\ pc' = "read" /\ UNCHANGED outcome
    BY <1>9 DEF CheckNext, Finish, Fail, iterator
  <2> QED
    BY <1>1, <1>2, <1>3, <1>4, <1>6, <2>1
<1>10. CASE ReadLimit \/ ReadCancelled \/ ReadAbsent \/ InfoAfterAbsent
  <2>1. /\ pc = "read" \/ pc = "reinfo"
        /\ pc = "reinfo" \/ remaining_reads = 0 \/ (has_reservation /\ ~reserved) \/ Matches(next_id) = {}
    BY <1>10 DEF ReadLimit, ReadCancelled, ReadAbsent, InfoAfterAbsent, CancelPossible, AbsentPossible
  <2>2. pc = "read" /\ Len(emitted) < Len(log)
    BY <1>2, <2>1
  <2>3. remaining_reads # 0 /\ Matches(next_id) # {}
    BY <1>1, <2>2
  <2>4. has_reservation /\ ~reserved
    BY <1>2, <2>1, <2>3, Zenon
  <2> QED
    BY <1>2, <2>2, <2>4, Zenon
<1>11. CASE CommandFails
  BY <1>11 DEF CommandFails
<1> QED
  BY <1>7, <1>8, <1>9, <1>10, <1>11

\* The record that such a scan reads is the next one, and is accepted.
LEMMA ReachedReads ==
  ASSUME SelTrue, ~faulty, Reached, ReadEntry
  PROVE  outcome' = outcome /\ Reached'
<1> DEFINE k == Len(emitted)
           r == log[k + 1]
<1>1. /\ k \in Nat /\ Len(log) \in Nat /\ k < Len(log) /\ k + 1 \in 1..Len(log)
      /\ \A i \in 1..Len(log) : log[i].id \in Nat \ {0} /\ log[i].id < 65535
      /\ \A i, j \in 1..Len(log) : i < j => log[i].id < log[j].id
      /\ seen = {log[j].id : j \in 1..k}
      /\ next_id # LAST /\ next_id \notin scanned /\ Matches(next_id) = {k + 1}
  <2>1. k < Len(log)
    BY DEF Reached, ReadEntry
  <2>2. /\ Len(emitted) \in Nat /\ Len(log) \in Nat
        /\ \A i \in 1..Len(log) : log[i].id \in Nat \ {0} /\ log[i].id < 65535
        /\ \A i, j \in 1..Len(log) : i < j => log[i].id < log[j].id
        /\ seen = {log[j].id : j \in 1..Len(emitted)}
        /\ Len(emitted) < Len(log) => next_id # LAST /\ next_id \notin scanned /\ Matches(next_id) = {Len(emitted) + 1}
    BY ReachedNext
  <2>3. k + 1 \in 1..Len(log)
    BY <2>1, <2>2
  <2> QED
    BY <2>1, <2>2, <2>3
<1>2. /\ scanned = seen /\ next_id = NextOf(k) /\ remaining_reads = ReadBudget - k
      /\ \A j \in 1..k : emitted[j] = log[j]
      /\ has_reservation => reserved
  BY DEF Reached, ReadEntry
<1>3. /\ Found(k + 1) = [record |-> r, next |-> NextOf(k + 1)]
      /\ k + 1 # 0
  BY <1>1 DEF Found, NextOf
<1>4. NextOf(k + 1) # FIRST /\ NextOf(k + 1) # r.id
  <2>1. CASE k + 1 = Len(log)
    <3>1. NextOf(k + 1) = LAST
      BY <1>3, <2>1 DEF NextOf
    <3> QED
      BY <1>1, <3>1 DEF FIRST, LAST
  <2>2. CASE k + 1 # Len(log)
    <3>1. k + 2 \in 1..Len(log) /\ k + 1 < k + 2
      BY <1>1, <2>2
    <3>2. NextOf(k + 1) = log[k + 2].id
      BY <1>3, <2>2, <1>1 DEF NextOf
    <3>3. r.id < log[k + 2].id /\ r.id \in Nat /\ log[k + 2].id \in Nat \ {0}
      BY <1>1, <3>1
    <3> QED
      BY <3>2, <3>3 DEF FIRST
  <2> QED
    BY <2>1, <2>2
<1>5. r.id \notin {FIRST, LAST} /\ (next_id # FIRST => r.id = next_id) /\ r.id \notin scanned
  <2>1. r.id \notin {FIRST, LAST}
    BY <1>1 DEF FIRST, LAST
  <2>2. next_id # FIRST => r.id = next_id
    BY <1>1, <1>2 DEF NextOf
  <2>3. ASSUME r.id \in scanned PROVE FALSE
    <3>1. PICK j \in 1..k : log[j].id = r.id
      BY <1>1, <1>2, <2>3
    <3>2. j \in 1..Len(log) /\ j < k + 1
      BY <1>1
    <3> QED
      BY <1>1, <3>1, <3>2
  <2> QED
    BY <2>1, <2>2, <2>3
<1> HIDE DEF r
<1>6. /\ pc' = "next" /\ outcome' = outcome
      /\ scanned' = scanned \union {r.id} /\ seen' = seen \union {r.id}
      /\ emitted' = Append(emitted, r) /\ next_id' = NextOf(k + 1)
  <2>1. PICK a \in Answers(next_id) :
         \/ Unacceptable(next_id, a)
         \/ /\ scanned' = scanned \union {a.record.id}
            /\ next_id' = a.next
            /\ seen' = seen \union {a.record.id}
            /\ emitted' = IF a.record.id \in seen THEN emitted ELSE Append(emitted, a.record)
            /\ pc' = "next"
            /\ UNCHANGED outcome
    BY DEF ReadEntry
  <2>2. a = Found(k + 1)
    BY <1>1 DEF Answers
  <2>3. a.record = r /\ a.next = NextOf(k + 1)
    BY <1>3, <2>2
  <2>4. ~Unacceptable(next_id, a)
    BY <1>4, <1>5, <2>3 DEF Unacceptable
  <2> QED
    BY <1>2, <1>5, <2>1, <2>3, <2>4
<1>7. /\ UNCHANGED <<log, has_reservation, reserved>> /\ remaining_reads' = remaining_reads - 1
  BY DEF ReadEntry, Spend, Quiet, bmc, fixed
<1>8. /\ Len(emitted') = k + 1 /\ \A j \in 1..(k + 1) : emitted'[j] = log[j]
  <2>1. emitted \in Seq(SelRecords) /\ r \in SelRecords
    BY <1>1 DEF SelTrue, SerialsTell, LogOrdered, r
  <2>2. /\ Len(Append(emitted, r)) = k + 1
        /\ \A j \in 1..k : Append(emitted, r)[j] = emitted[j]
        /\ Append(emitted, r)[k + 1] = r
    BY <2>1, Appended
  <2>3. \A j \in 1..(k + 1) : j \in 1..k \/ j = k + 1
    BY <1>1
  <2> QED
    BY <1>2, <1>6, <2>2, <2>3 DEF r
<1>9. NextOf(Len(emitted))' = NextOf(k + 1)
  BY <1>7, <1>8 DEF NextOf
<1>10. remaining_reads' = ReadBudget - (k + 1)
  <2>1. ReadBudget \in Nat
    BY WalkAssumption DEF ReadBudget
  <2> QED
    BY <1>1, <1>2, <1>7, <2>1
<1>11. k + 1 <= Len(log) /\ Len(log) > 0
  BY <1>1
<1> HIDE DEF k
<1> QED
  BY <1>2, <1>6, <1>7, <1>8, <1>9, <1>10, <1>11 DEF Reached

\* Before the first scan nothing was refused.
LEMMA SelQuietStart == Init => SelQuiet
<1> SUFFICES ASSUME Init PROVE SelQuiet
  OBVIOUS
<1>1. PICK n \in 0..Capacity : log = NewLog(n)
  BY DEF Init, InitWalk
<1>2. Len(log) = n /\ n <= Capacity
  BY <1>1, WalkAssumption DEF NewLog
<1>3. began = 0 /\ changes = 0 /\ pc = "idle" /\ outcome = "none"
  BY DEF Init, InitWalk
<1> QED
  BY <1>2, <1>3 DEF SelQuiet, QuietWalkSucceeds

\* No scan is refused of its own, whatever happens to the log between scans;
\* what happens during one excuses it.
LEMMA SelQuietStep == SelInv /\ SelQuiet /\ [Next]_vars => SelQuiet'
<1> SUFFICES ASSUME SelInv, SelQuiet, [Next]_vars, ~faulty' PROVE SelQuiet'
  BY DEF SelQuiet
<1>1. faulty' = faulty
  BY DEF Next, Scan, Outside, BeginScan, EndScan, Walk, FirstInfo, Reserve, CheckNext, ReadLimit, ReadCancelled,
     ReadAbsent, InfoAfterAbsent, ReadEntry, CommandFails, Quiet, fixed, vars, walkVars
<1>2. SelTrue /\ ~faulty
  BY <1>1 DEF SelInv
<1>3. /\ began \in 0..changes /\ Len(log) <= Capacity /\ changes \in Nat /\ Len(log) \in Nat
      /\ outcome = "refused" => changes > began \/ Len(log) > MaxEntries
      /\ pc # "idle" /\ AtRest => Reached
  BY <1>2 DEF SelQuiet, QuietWalkSucceeds, SelTrue, LogOrdered
<1>4. ASSUME UNCHANGED <<log, changes, began>>, outcome' = "refused" => outcome = "refused" \/ ~AtRest,
             pc' # "idle" /\ AtRest => Reached'
      PROVE  SelQuiet'
  <2>1. AtRest' = AtRest
    BY <1>4 DEF AtRest
  <2>2. ~AtRest => changes > began \/ Len(log) > MaxEntries
    BY <1>3, WalkAssumption DEF AtRest
  <2> QED
    BY <1>3, <1>4, <2>1, <2>2 DEF SelQuiet, QuietWalkSucceeds
<1>5. CASE UNCHANGED vars
  <2>1. UNCHANGED <<log, changes, began, pc, outcome, emitted, scanned, seen, next_id, remaining_reads, retry,
                    has_reservation, reserved>>
    BY <1>5 DEF vars, walkVars, bmc, fixed, iterator, history
  <2>2. Reached => Reached'
    BY <2>1 DEF Reached, NextOf
  <2> QED
    BY <1>3, <1>4, <2>1, <2>2
<1>6. CASE BeginScan
  <2>1. /\ UNCHANGED <<log, changes>> /\ began' = changes /\ pc' = "info" /\ outcome' = "none" /\ emitted' = <<>>
        /\ scanned' = {} /\ seen' = {} /\ next_id' = FIRST /\ remaining_reads' = ReadBudget /\ retry' = 0
    BY <1>6 DEF BeginScan, bmc
  <2>2. Reached'
    <3>1. Len(emitted') = 0 /\ Len(log') = Len(log) /\ ReadBudget \in Nat
      BY <2>1, WalkAssumption DEF ReadBudget
    <3> QED
      BY <1>3, <2>1, <3>1 DEF Reached, NextOf
  <2> QED
    BY <1>3, <2>1, <2>2 DEF SelQuiet, QuietWalkSucceeds
<1>7. CASE EndScan
  <2>1. /\ UNCHANGED <<log, changes, began>> /\ pc = "end" /\ pc' = "idle"
        /\ outcome' = "refused" => Len(log) # Len(emitted)
    BY <1>2, <1>7 DEF EndScan, bmc, history, EntryCounts, Unstable
  <2>2. Reached => Len(log) = Len(emitted)
    BY <2>1 DEF Reached
  <2> QED
    BY <1>3, <1>4, <2>1, <2>2
<1>8. CASE Walk
  <2>1. UNCHANGED <<log, changes, began>> /\ pc # "idle"
    BY <1>8 DEF Walk, FirstInfo, Reserve, CheckNext, ReadLimit, ReadCancelled, ReadAbsent, InfoAfterAbsent, ReadEntry,
       CommandFails, Quiet, bmc, history
  <2>2. AtRest => (outcome' = "refused" => outcome = "refused") /\ (pc' # "idle" => Reached')
    BY <1>2, <1>3, <1>8, <2>1, ReachedWalks, ReachedReads DEF Walk, AtRest
  <2> QED
    BY <1>4, <2>1, <2>2
<1>9. CASE Outside
  <2>1. changes' = changes + 1 /\ UNCHANGED began
    BY <1>9 DEF Outside, Logged, LogEvent, DeleteEntry, ClearLog, Erase, Changeable, history
  <2>2. Len(log') <= Capacity
    <3>1. CASE Logged
      <4>1. \/ log' = log
            \/ Len(log) < Capacity /\ \E r : log' = Append(log, r)
        BY <3>1, Zenon DEF Logged, LogEvent
      <4>2. \A r : Len(Append(log, r)) = Len(log) + 1
        BY <1>2 DEF SelTrue, LogOrdered
      <4>3. Len(log') = Len(log) \/ (Len(log) < Capacity /\ Len(log') = Len(log) + 1)
        BY <4>1, <4>2, Zenon
      <4> QED
        BY <1>3, <4>3, WalkAssumption
    <3>2. CASE DeleteEntry
      <4>1. log \in Seq(SelRecords) /\ DOMAIN log = 1..Len(log)
        BY <1>2 DEF SelTrue, LogOrdered
      <4>2. PICK k \in 1..Len(log) : log' = SubSeq(log, 1, k - 1) \o SubSeq(log, k + 1, Len(log))
        BY <3>2, <4>1, Zenon DEF DeleteEntry, Erase
      <4>3. Len(log') = Len(log) - 1
        BY <4>1, <4>2, Removed, ZenonT(30)
      <4> QED
        BY <1>3, <4>3, WalkAssumption
    <3>3. CASE ClearLog
      BY <3>3, WalkAssumption DEF ClearLog, Erase
    <3> QED
      BY <1>9, <3>1, <3>2, <3>3 DEF Outside
  <2>3. began' \in 0..changes' /\ changes' > began' /\ ~AtRest'
    BY <1>3, <2>1 DEF AtRest
  <2> QED
    BY <2>2, <2>3 DEF SelQuiet, QuietWalkSucceeds
<1> QED
  BY <1>5, <1>6, <1>7, <1>8, <1>9 DEF Next, Scan

-----------------------------------------------------------------------------
(* While nothing changes, the records are numbered from 1, and a traversal *)
(* has returned the first of them as they are.                             *)
Number(k) == IF k = 1 THEN Sdr!FIRST ELSE k
After(k) == IF k = 0 THEN Sdr!FIRST ELSE IF k = Len(records) THEN Sdr!LAST ELSE k + 1
AsStored(k) == [id |-> records[k].id, length |-> records[k].length, versions |-> {0}]
ReturnedSoFar ==
    /\ Len(records) <= Room /\ \A k \in 1..Len(records) : records[k].id = k /\ records[k].version = 0
    /\ Len(yielded) <= Len(records) /\ \A k \in 1..Len(yielded) : yielded[k] = AsStored(k)

(* What the first k records were asked for by.                             *)
Asked(k) == {Number(j) : j \in 1..k}

(* What is there of the record it reads, which is the next one.            *)
Piece ==
    LET k == Len(yielded) + 1 IN
    /\ k <= Len(records) /\ current = Number(k)
    /\ filled \in Nat
    /\ filled = 0 => parts = {} /\ successor = Sdr!NoId
    /\ filled > 0 => parts = {0} /\ successor = After(k)
    /\ filled >= Header =>
         header = [id |-> k, length |-> records[k].length] /\ filled < Header + records[k].length

(* The record it reads goes on past what a read can ask for.               *)
PastReach ==
    /\ Len(yielded) < Len(records)
    /\ Header + records[Len(yielded) + 1].length > MaxOffset + 1

(* It has visited the records it returned and the one it reads, and its    *)
(* reservation is good.                                                    *)
Progress ==
    /\ limit \in Nat \ {0} /\ read_limit \in Nat \ {0} /\ attempt = 0
    /\ at \in {"source", "info", "reserve"} => yielded = <<>>
    /\ at \in {"source", "info", "reserve", "next"} =>
         next_record = After(Len(yielded)) /\ visited = Asked(Len(yielded))
    /\ at \in {"reserve", "next", "read"} => records # <<>>
    /\ at \in {"next", "read"} /\ reserves => held
    /\ at = "read" => visited = Asked(Len(yielded) + 1) /\ Piece
    /\ result \in {"none", "end", "no_source", "failed", "offset", "parse"}
    /\ result = "end" => Len(yielded) = Len(records)
    /\ result = "offset" => PastReach
    /\ at # "done" => result = "none"

SdrQuiet == ~broken /\ edits = 0 => ReturnedSoFar /\ Progress

\* The numbers of such a repository: each names its record, and the one
\* after a record was not visited before.
LEMMA SdrNumbers ==
  ASSUME SdrCounts, ReturnedSoFar
  PROVE  /\ Len(records) \in Nat /\ Len(yielded) \in Nat /\ DOMAIN records = 1..Len(records)
         /\ Len(records) < Sdr!LAST /\ Sdr!LAST \in Nat /\ Sdr!FIRST = 0
         /\ \A k \in 1..Len(records) : records[k].id = k /\ records[k].version = 0 /\ records[k].length \in Nat
         /\ \A k \in 1..Len(records) : Sdr!Place(k) = {k} /\ Sdr!Place(Number(k)) = {k} /\ Sdr!NextOf(k) = After(k)
         /\ \A k \in 0..Len(records) :
              /\ After(k) # Sdr!NoId /\ (k > 0 => After(k) # Sdr!FIRST) /\ After(k) \notin Asked(k)
              /\ k < Len(records) => After(k) = Number(k + 1) /\ After(k) # Sdr!LAST
<1>1. /\ Len(records) \in Nat /\ Len(yielded) \in Nat /\ DOMAIN records = 1..Len(records)
      /\ \A k \in 1..Len(records) : records[k] \in SdrRecords
  BY DEF SdrCounts
<1>2. Len(records) < Sdr!LAST /\ Sdr!LAST \in Nat /\ Sdr!FIRST = 0
  BY <1>1, ReadingAssumption DEF ReturnedSoFar, Sdr!LAST, Sdr!FIRST
<1>3. \A k \in 1..Len(records) : records[k].id = k /\ records[k].version = 0 /\ records[k].length \in Nat
  <2>1. \A k \in 1..Len(records) : records[k].id = k /\ records[k].version = 0
    BY DEF ReturnedSoFar
  <2> QED
    BY <1>1, <2>1 DEF SdrRecords
<1>4. ASSUME NEW k \in 1..Len(records)
      PROVE  Sdr!Place(k) = {k} /\ Sdr!Place(Number(k)) = {k} /\ Sdr!NextOf(k) = After(k)
  <2>1. Sdr!Place(k) = {k}
    BY <1>1, <1>3 DEF Sdr!Place, Sdr!FIRST
  <2>2. Sdr!Place(Number(k)) = {k}
    BY <1>1, <1>3, <2>1 DEF Sdr!Place, Sdr!FIRST, Number
  <2>3. Sdr!NextOf(k) = After(k)
    <3>1. CASE k = Len(records)
      BY <1>1, <3>1 DEF Sdr!NextOf, After
    <3>2. CASE k # Len(records)
      <4>1. k + 1 \in 1..Len(records) /\ k # 0
        <5>1. k \in Nat /\ k >= 1 /\ k <= Len(records) /\ Len(records) \in Nat
          BY <1>1
        <5> QED
          BY <3>2, <5>1
      <4> QED
        BY <1>3, <3>2, <4>1 DEF Sdr!NextOf, After
    <3> QED
      BY <3>1, <3>2
  <2> QED
    BY <2>1, <2>2, <2>3
<1>5. ASSUME NEW k \in 0..Len(records)
      PROVE  /\ After(k) # Sdr!NoId /\ (k > 0 => After(k) # Sdr!FIRST) /\ After(k) \notin Asked(k)
             /\ k < Len(records) => After(k) = Number(k + 1) /\ After(k) # Sdr!LAST
  <2>1. k \in Nat /\ k <= Len(records)
    BY <1>1
  <2>2. \A j \in 1..k : Number(j) \in Nat /\ Number(j) <= k /\ (k = 1 => Number(j) = 0)
    BY <1>2, <2>1 DEF Number
  <2>3. CASE k = 0
    <3>1. After(k) = 0
      BY <1>2, <2>3, Zenon DEF After
    <3>2. Asked(k) = {}
      BY <2>3 DEF Asked
    <3>3. Number(k + 1) = 0
      BY <1>2, <2>3 DEF Number
    <3> QED
      BY <1>1, <1>2, <2>3, <3>1, <3>2, <3>3 DEF Sdr!NoId
  <2>4. CASE k # 0 /\ k = Len(records)
    <3>1. After(k) = Sdr!LAST
      BY <2>4, Zenon DEF After
    <3>2. \A j \in 1..k : Number(j) # Sdr!LAST
      BY <1>2, <2>1, <2>2, <2>4
    <3> QED
      BY <1>1, <1>2, <2>4, <3>1, <3>2 DEF Sdr!NoId, Asked
  <2>5. CASE k # 0 /\ k # Len(records)
    <3>1. After(k) = k + 1
      BY <2>5, Zenon DEF After
    <3>2. \A j \in 1..k : Number(j) # k + 1
      BY <2>1, <2>2
    <3>3. k + 1 \in Nat /\ k + 1 # 0 /\ k + 1 # 1 /\ k + 1 # -1 /\ k + 1 < Sdr!LAST
      <4>1. Len(records) \in Nat
        BY <1>1
      <4>2. k \in Nat /\ k # 0 /\ k < Len(records)
        BY <2>1, <2>5, <4>1
      <4> QED
        BY <1>2, <4>1, <4>2
    <3>4. Number(k + 1) = k + 1
      BY <3>3, Zenon DEF Number
    <3>5. After(k) \notin Asked(k)
      BY <3>1, <3>2 DEF Asked
    <3> QED
      BY <1>2, <3>1, <3>3, <3>4, <3>5 DEF Sdr!NoId
  <2> QED
    BY <2>3, <2>4, <2>5
<1> QED
  BY <1>1, <1>2, <1>3, <1>4, <1>5

\* Before the first command.
LEMMA SdrQuietStart == Sdr!Init => SdrQuiet
<1> SUFFICES ASSUME Sdr!Init PROVE ReturnedSoFar /\ Progress
  BY DEF SdrQuiet
<1>0. PICK n \in 0..Room :
        \E body \in [1..n -> Bodies] : records = [k \in 1..n |-> [id |-> k, version |-> 0, length |-> body[k]]]
  BY DEF Sdr!Init
<1>1. PICK body \in [1..n -> Bodies] : records = [k \in 1..n |-> [id |-> k, version |-> 0, length |-> body[k]]]
  BY <1>0
<1>2. Len(records) = n /\ n \in Nat /\ n <= Room /\ \A k \in 1..n : records[k].id = k /\ records[k].version = 0
  BY <1>1, ReadingAssumption
<1>3. /\ at = "source" /\ next_record = Sdr!FIRST /\ read_limit = Chunk /\ attempt = 0 /\ yielded = <<>>
      /\ visited = {} /\ result = "none" /\ limit \in Limits
  BY DEF Sdr!Init
<1>4. Len(yielded) = 0
  BY <1>3
<1>5. ReturnedSoFar
  BY <1>2, <1>4 DEF ReturnedSoFar
<1>6. limit \in Nat \ {0} /\ read_limit \in Nat \ {0}
  BY <1>3, ReadingAssumption
<1>7. After(Len(yielded)) = Sdr!FIRST /\ Asked(Len(yielded)) = {}
  BY <1>4 DEF After, Asked
<1> QED
  BY <1>3, <1>5, <1>6, <1>7 DEF Progress

\* A command that returns nothing.
LEMMA TraversedStays ==
  ASSUME ReturnedSoFar, UNCHANGED <<records, yielded>>
  PROVE  /\ ReturnedSoFar'
         /\ \A k \in Int : After(k)' = After(k) /\ Number(k)' = Number(k) /\ Asked(k)' = Asked(k)
  BY DEF ReturnedSoFar, After, AsStored, Number, Asked

\* The commands that read nothing of a record.
LEMMA SdrQuietWalks ==
  ASSUME SdrInv, ReturnedSoFar, Progress, ~broken,
         \/ Sdr!Source \/ Sdr!Info \/ Sdr!Reserve \/ Sdr!CallNext \/ Sdr!OffsetOutOfRange
         \/ Sdr!TooMany \/ Sdr!Cancelled \/ Sdr!Absent \/ Sdr!CommandFails
  PROVE  ReturnedSoFar' /\ Progress'
<1>0. SdrCounts
  BY DEF SdrInv
<1>1. /\ Len(records) \in Nat /\ Len(yielded) \in Nat /\ Len(yielded) <= Len(records)
      /\ \A k \in 1..Len(records) : Sdr!Place(k) = {k} /\ Sdr!Place(Number(k)) = {k}
      /\ \A k \in 0..Len(records) :
           /\ After(k) \notin Asked(k)
           /\ k < Len(records) => After(k) = Number(k + 1) /\ After(k) # Sdr!LAST
  BY <1>0, SdrNumbers DEF ReturnedSoFar
<1>2. UNCHANGED <<records, yielded, limit, reserves>>
  BY DEF Sdr!Source, Sdr!Info, Sdr!Reserve, Sdr!CallNext, Sdr!OffsetOutOfRange, Sdr!TooMany, Sdr!Cancelled, Sdr!Absent, Sdr!CommandFails, Sdr!Asks,
     Sdr!Quiet, Sdr!fixed, Sdr!Fails, Sdr!Stop, Sdr!iterator
<1>3. /\ ReturnedSoFar'
      /\ UNCHANGED <<After(Len(yielded)), After(Len(yielded) + 1), Number(Len(yielded) + 1)>>
      /\ UNCHANGED <<Asked(Len(yielded)), Asked(Len(yielded) + 1)>>
  BY <1>2, TraversedStays DEF After, Number, Asked
<1>4. /\ limit \in Nat \ {0} /\ read_limit \in Nat \ {0} /\ attempt = 0
      /\ at \in {"source", "info", "reserve"} => yielded = <<>>
      /\ at \in {"source", "info", "reserve", "next"} =>
           next_record = After(Len(yielded)) /\ visited = Asked(Len(yielded))
      /\ at \in {"reserve", "next", "read"} => records # <<>>
      /\ at \in {"next", "read"} /\ reserves => held
      /\ at = "read" => visited = Asked(Len(yielded) + 1) /\ Piece
      /\ result \in {"none", "end", "no_source", "failed", "offset", "parse"}
      /\ result = "end" => Len(yielded) = Len(records)
      /\ result = "offset" => PastReach
      /\ at # "done" => result = "none"
  BY Zenon DEF Progress
<1>5. ASSUME at' = "done", UNCHANGED <<read_limit, attempt>>,
             \/ result' \in {"failed", "no_source"}
             \/ result' = "end" /\ Len(yielded) = Len(records)
             \/ result' = "offset" /\ PastReach
      PROVE  Progress'
  BY <1>2, <1>4, <1>5 DEF Progress, PastReach
<1>6. CASE Sdr!Source
  <2>1. /\ at = "source" /\ UNCHANGED <<read_limit, attempt>>
        /\ \/ at' = "info" /\ UNCHANGED <<next_record, visited, result>>
           \/ at' = "done" /\ result' = "no_source"
    BY <1>6 DEF Sdr!Source, Sdr!Fails, Sdr!Stop, Sdr!iterator
  <2>2. CASE at' = "info" /\ UNCHANGED <<next_record, visited, result>>
    BY <1>2, <1>3, <1>4, <2>1, <2>2 DEF Progress, PastReach
  <2> QED
    BY <1>3, <1>5, <2>1, <2>2
<1>7. CASE Sdr!Info
  <2>1. /\ at = "info" /\ UNCHANGED <<read_limit, attempt, next_record, visited>>
        /\ \/ records = <<>> /\ at' = "done" /\ result' = "end"
           \/ records # <<>> /\ (at' = "reserve" \/ (at' = "next" /\ ~reserves)) /\ UNCHANGED result
    BY <1>7 DEF Sdr!Info, Sdr!Empty, Sdr!Stop, Sdr!iterator
  <2>2. CASE records = <<>> /\ at' = "done" /\ result' = "end"
    <3>1. Len(records) = 0 /\ Len(yielded) = 0
      BY <1>4, <2>1, <2>2
    <3> QED
      BY <1>3, <1>5, <2>1, <2>2, <3>1
  <2>3. CASE records # <<>> /\ (at' = "reserve" \/ (at' = "next" /\ ~reserves)) /\ UNCHANGED result
    BY <1>2, <1>3, <1>4, <2>1, <2>3 DEF Progress, PastReach
  <2> QED
    BY <2>1, <2>2, <2>3
<1>8. CASE Sdr!Reserve
  <2>1. /\ at = "reserve" /\ at' = "next" /\ held' = TRUE /\ UNCHANGED <<read_limit, attempt, next_record, visited, result>>
    BY <1>4, <1>8 DEF Sdr!Reserve
  <2> QED
    BY <1>2, <1>3, <1>4, <2>1 DEF Progress, PastReach
<1>9. CASE Sdr!CallNext
  <2>1. /\ at = "next" /\ UNCHANGED <<read_limit, held>>
        /\ \/ next_record = Sdr!LAST /\ at' = "done" /\ result' = "end" /\ UNCHANGED attempt
           \/ next_record # Sdr!LAST /\ next_record \in visited
           \/ /\ next_record # Sdr!LAST
              /\ visited' = visited \union {next_record} /\ current' = next_record /\ attempt' = 0
              /\ filled' = 0 /\ parts' = {} /\ successor' = Sdr!NoId /\ at' = "read" /\ UNCHANGED result
    BY <1>9 DEF Sdr!CallNext, Sdr!Fails, Sdr!Stop, Sdr!iterator, Sdr!NothingRead
  <2> DEFINE k == Len(yielded)
  <2>2. next_record = After(k) /\ visited = Asked(k) /\ k \in 0..Len(records) /\ k \in Nat
    BY <1>1, <1>4, <2>1
  <2>3. next_record \notin visited
    BY <1>1, <2>2
  <2>4. CASE next_record = Sdr!LAST /\ at' = "done" /\ result' = "end" /\ UNCHANGED attempt
    <3>1. k = Len(records)
      <4>1. ~(k < Len(records))
        BY <1>1, <2>2, <2>4, Zenon
      <4> QED
        BY <1>1, <2>2, <4>1
    <3> QED
      BY <1>3, <1>5, <2>1, <2>4, <3>1
  <2>5. CASE /\ next_record # Sdr!LAST
             /\ visited' = visited \union {next_record} /\ current' = next_record /\ attempt' = 0
             /\ filled' = 0 /\ parts' = {} /\ successor' = Sdr!NoId /\ at' = "read" /\ UNCHANGED result
    <3>1. k < Len(records) /\ k + 1 \in 1..Len(records)
      <4>1. k # Len(records)
        <5>1. Len(records) # 0
          BY <1>0, <1>4, <2>1 DEF SdrCounts
        <5>2. ASSUME k = Len(records) PROVE After(k) = Sdr!LAST
          BY <5>1, <5>2 DEF After
        <5> QED
          BY <2>2, <2>5, <5>2
      <4> QED
        BY <1>1, <2>2, <4>1
    <3>2. current' = Number(k + 1)
      BY <1>1, <2>2, <2>5, <3>1
    <3>3. visited' = Asked(k + 1)
      <4>1. \A j : j \in 1..(k + 1) <=> j \in 1..k \/ j = k + 1
        BY <2>2
      <4> HIDE DEF k
      <4>2. Asked(k + 1) = Asked(k) \union {Number(k + 1)}
        BY <4>1 DEF Asked
      <4>3. next_record = Number(k + 1)
        BY <2>5, <3>2
      <4> QED
        BY <2>2, <2>5, <4>2, <4>3, Zenon
    <3>4. Piece'
      BY <1>2, <1>3, <2>5, <3>1, <3>2, ReadingAssumption DEF Piece
    <3> QED
      BY <1>2, <1>3, <1>4, <2>1, <2>5, <3>3, <3>4 DEF Progress, PastReach
  <2> QED
    BY <2>1, <2>3, <2>4, <2>5
<1>10. CASE Sdr!TooMany
  <2>1. /\ at = "read" /\ Sdr!Requested > limit
        /\ \/ /\ read_limit' = Sdr!Halved
              /\ UNCHANGED <<held, at, visited, current, filled, header, successor, parts, attempt, result>>
           \/ Sdr!Requested = 1
    BY <1>10 DEF Sdr!TooMany, Sdr!Asks, Sdr!reading
  <2>2. Sdr!Requested # 1
    BY <1>4, <2>1
  <2>3. Sdr!Halved \in Nat \ {0}
    <3> DEFINE h == Sdr!Requested \div 2
    <3>1. Sdr!Requested \in Int
      BY <1>0, ReadingAssumption DEF SdrCounts, Sdr!Requested, Sdr!Wanted
    <3>2. h \in Int
      BY <3>1
    <3>3. Sdr!Halved = IF h > 1 THEN h ELSE 1
      BY DEF Sdr!Halved
    <3> HIDE DEF h
    <3> QED
      BY <3>2, <3>3
  <2>4. Piece'
    BY <1>2, <1>3, <1>4, <2>1, <2>2 DEF Piece
  <2> QED
    BY <1>2, <1>3, <1>4, <2>1, <2>2, <2>3, <2>4 DEF Progress, PastReach
<1>11. CASE Sdr!Cancelled
  <2>1. at = "read" /\ reserves /\ ~held
    BY <1>11 DEF Sdr!Cancelled, Sdr!Asks
  <2> QED
    BY <1>4, <2>1, Zenon
<1>12. CASE Sdr!Absent
  <2>1. at = "read" /\ Sdr!Place(Sdr!Target) = {}
    BY <1>12 DEF Sdr!Absent, Sdr!Asks
  <2>2. /\ Len(yielded) + 1 \in 1..Len(records) /\ current = Number(Len(yielded) + 1)
        /\ filled >= Header => header.id = Len(yielded) + 1
    BY <1>1, <1>4, <2>1 DEF Piece
  <2>3. Sdr!Target = Number(Len(yielded) + 1) \/ Sdr!Target = Len(yielded) + 1
    <3>1. CASE filled >= Header /\ current = Sdr!FIRST
      BY <2>2, <3>1 DEF Sdr!Target
    <3>2. CASE ~(filled >= Header /\ current = Sdr!FIRST)
      BY <2>2, <3>2, Zenon DEF Sdr!Target
    <3> QED
      BY <3>1, <3>2
  <2>4. Sdr!Place(Sdr!Target) = {Len(yielded) + 1}
    BY <1>1, <2>2, <2>3
  <2> QED
    BY <2>1, <2>4
<1>13. CASE Sdr!CommandFails
  <2>1. at' = "done" /\ result' = "failed" /\ UNCHANGED <<read_limit, attempt>>
    BY <1>13 DEF Sdr!CommandFails, Sdr!Fails, Sdr!Stop, Sdr!iterator
  <2> QED
    BY <1>3, <1>5, <2>1
<1>14. CASE Sdr!OffsetOutOfRange
  <2>1. at = "read" /\ filled > MaxOffset /\ at' = "done" /\ result' = "offset" /\ UNCHANGED <<read_limit, attempt>>
    BY <1>14 DEF Sdr!OffsetOutOfRange, Sdr!Fails, Sdr!Stop, Sdr!iterator
  <2> DEFINE size == records[Len(yielded) + 1].length
  <2>2. /\ filled \in Nat /\ Len(yielded) + 1 <= Len(records)
        /\ filled >= Header => filled < Header + size
    BY <1>4, <2>1 DEF Piece
  <2>3. Len(yielded) + 1 \in 1..Len(records) /\ records \in Seq(SdrRecords)
    BY <1>0, <1>1, <2>2 DEF SdrCounts
  <2>4. size \in Nat
    <3>1. records[Len(yielded) + 1] \in SdrRecords
      BY <2>3
    <3> QED
      BY <3>1 DEF SdrRecords
  <2> HIDE DEF size
  <2>5. Header \in Nat /\ MaxOffset \in Nat
    BY ReadingAssumption
  <2>6. filled < Header + size
    BY <2>2, <2>4, <2>5
  <2>7. Header + size > MaxOffset + 1
    BY <2>1, <2>2, <2>4, <2>5, <2>6
  <2>8. Len(yielded) < Len(records)
    BY <1>1, <2>2, <2>3
  <2> QED
    BY <1>3, <1>5, <2>1, <2>7, <2>8 DEF PastReach, size
<1> QED
  BY <1>3, <1>6, <1>7, <1>8, <1>9, <1>10, <1>11, <1>12, <1>13, <1>14

\* The piece that is read is the next of the record that is there, and with
\* the last of them the record is returned as it is.
LEMMA SdrQuietReads ==
  ASSUME SdrInv, ReturnedSoFar, Progress, ~broken, Sdr!Read,
         NEW k, k = Len(yielded) + 1, NEW size, size = records[k].length
  PROVE  ReturnedSoFar' /\ Progress'
<1>0. SdrCounts
  BY DEF SdrInv
<1>1. /\ at = "read" /\ UNCHANGED <<records, limit, reserves>>
      /\ limit \in Nat \ {0} /\ read_limit \in Nat \ {0} /\ attempt = 0
      /\ records # <<>> /\ (reserves => held) /\ visited = Asked(k)
      /\ result = "none"
  BY DEF Progress, Sdr!Read, Sdr!Asks, Sdr!Quiet, Sdr!fixed
<1>2. /\ k <= Len(records) /\ current = Number(k) /\ filled \in Nat
      /\ filled = 0 => parts = {} /\ successor = Sdr!NoId
      /\ filled > 0 => parts = {0} /\ successor = After(k)
      /\ filled >= Header => header = [id |-> k, length |-> size] /\ filled < Header + size
  BY <1>1 DEF Progress, Piece
<1>3. /\ Len(yielded) \in Nat /\ Len(records) \in Nat /\ k \in 1..Len(records) /\ k \in Nat
      /\ records[k].id = k /\ records[k].version = 0 /\ size \in Nat
      /\ Sdr!Place(k) = {k} /\ Sdr!Place(Number(k)) = {k} /\ Sdr!NextOf(k) = After(k)
      /\ After(k) # Sdr!NoId /\ After(k) # Sdr!FIRST /\ After(k) \notin Asked(k)
      /\ Len(records) < Sdr!LAST /\ Sdr!LAST \in Nat /\ Sdr!FIRST = 0
  <2>1. Len(yielded) \in Nat /\ Len(records) \in Nat
    BY <1>0, SdrNumbers
  <2>2. k \in 1..Len(records) /\ k \in 0..Len(records) /\ k > 0
    BY <1>2, <2>1
  <2>3. records[k].id = k /\ records[k].version = 0 /\ size \in Nat
    BY <1>0, <2>2, SdrNumbers
  <2>4. /\ Sdr!Place(k) = {k} /\ Sdr!Place(Number(k)) = {k} /\ Sdr!NextOf(k) = After(k)
        /\ Len(records) < Sdr!LAST /\ Sdr!LAST \in Nat /\ Sdr!FIRST = 0
    BY <1>0, <2>2, SdrNumbers
  <2>5. After(k) # Sdr!NoId /\ After(k) # Sdr!FIRST /\ After(k) \notin Asked(k)
    BY <1>0, <2>2, SdrNumbers
  <2> QED
    BY <2>1, <2>2, <2>3, <2>4, <2>5
<1>4. current # After(k)
  <2>1. Number(k) \in Asked(k)
    BY <1>3 DEF Asked
  <2> QED
    BY <1>2, <1>3, <2>1, Zenon
<1>5. k # Sdr!FIRST /\ k # Sdr!LAST
  BY <1>3
<1>6. /\ Sdr!Requested \in Nat \ {0}
      /\ filled < Header => filled + Sdr!Requested <= Header
      /\ filled >= Header => filled + Sdr!Requested <= Header + size
  <2>1. filled >= Header => header.length = size
    BY <1>2
  <2>2. /\ Sdr!Wanted \in Nat \ {0}
        /\ filled < Header => Sdr!Wanted = Header - filled
        /\ filled >= Header => Sdr!Wanted = Header + size - filled
    BY <1>2, <1>3, <2>1, ReadingAssumption DEF Sdr!Wanted
  <2>3. read_limit \in Nat \ {0} /\ filled \in Nat /\ size \in Nat
    BY <1>1, <1>2, <1>3
  <2>4. /\ Sdr!Requested \in Nat \ {0} /\ Sdr!Requested <= Sdr!Wanted
    BY <2>2, <2>3 DEF Sdr!Requested
  <2>5. Header \in Nat
    BY ReadingAssumption
  <2>6. filled < Header => filled + Sdr!Requested <= Header
    BY <2>2, <2>3, <2>4, <2>5
  <2>7. filled >= Header => filled + Sdr!Requested <= Header + size
    BY <2>2, <2>3, <2>4, <2>5
  <2> QED
    BY <2>4, <2>6, <2>7
<1>7. Sdr!Place(Sdr!Target) = {k}
  <2>1. CASE filled >= Header /\ current = Sdr!FIRST
    BY <1>2, <1>3, <2>1 DEF Sdr!Target
  <2>2. CASE ~(filled >= Header /\ current = Sdr!FIRST)
    BY <1>2, <1>3, <2>2, Zenon DEF Sdr!Target
  <2> QED
    BY <2>1, <2>2
<1> DEFINE a == [count |-> Sdr!Requested, from |-> records[k], next |-> After(k)]
<1>8. /\ \A x \in Sdr!Answers(Sdr!Target, Sdr!Requested) : x = a
      /\ a.count = Sdr!Requested /\ a.from = records[k] /\ a.next = After(k)
  BY <1>3, <1>7 DEF Sdr!Answers
<1>9. successor = Sdr!NoId \/ successor = After(k)
  BY <1>2
<1>10. /\ Sdr!Accept(a)
       /\ UNCHANGED <<held, visited, read_limit, current, attempt>>
       /\ \/ filled' = Header /\ Sdr!BadHeader(a.from.id, successor')
          \/ Sdr!Complete /\ yielded' = Append(yielded, Sdr!Record) /\ next_record' = successor' /\ at' = "next" /\ UNCHANGED result
          \/ at' = "done" /\ result' = "parse" /\ UNCHANGED <<next_record, yielded>>
          \/ ~Sdr!Complete /\ UNCHANGED <<at, next_record, yielded, result>>
  <2> HIDE DEF a
  <2>1. PICK x \in Sdr!Answers(Sdr!Target, Sdr!Requested) :
          \/ x.count # Sdr!Requested \/ (successor # Sdr!NoId /\ x.next # successor)
          \/ /\ Sdr!Accept(x)
             /\ UNCHANGED <<held, visited, read_limit, current, attempt>>
             /\ \/ filled' = Header /\ Sdr!BadHeader(x.from.id, successor')
                \/ Sdr!Complete /\ yielded' = Append(yielded, Sdr!Record) /\ next_record' = successor' /\ at' = "next" /\ UNCHANGED result
                \/ at' = "done" /\ result' = "parse" /\ UNCHANGED <<next_record, yielded>>
                \/ ~Sdr!Complete /\ UNCHANGED <<at, next_record, yielded, result>>
    BY DEF Sdr!Read, Sdr!Stop
  <2>2. x = a
    BY <1>8
  <2> QED
    BY <1>8, <1>9, <2>1, <2>2, Zenon
<1> HIDE DEF a
<1>11. /\ filled' = filled + Sdr!Requested /\ parts' = {0} /\ successor' = After(k)
       /\ header' = IF filled' = Header THEN [id |-> k, length |-> size] ELSE header
  <2>1. /\ filled' = filled + Sdr!Requested /\ parts' = parts \union {0}
        /\ successor' = IF successor = Sdr!NoId THEN After(k) ELSE successor
        /\ header' = IF filled' = Header THEN [id |-> k, length |-> size] ELSE header
    BY <1>3, <1>8, <1>10 DEF Sdr!Accept
  <2>2. parts = {} \/ parts = {0}
    BY <1>2
  <2>3. successor' = After(k)
    BY <1>9, <2>1, Zenon
  <2> QED
    BY <2>1, <2>2, <2>3
<1>12. /\ filled' \in Nat /\ filled' > 0
       /\ filled' >= Header => header' = [id |-> k, length |-> size] /\ filled' <= Header + size
  <2>0. Header \in Nat
    BY ReadingAssumption
  <2>1. filled' \in Nat /\ filled' > 0 /\ (filled' <= Header + size)
    BY <1>2, <1>3, <1>6, <1>11, <2>0
  <2>2. filled' >= Header => filled' = Header \/ filled >= Header
    BY <1>2, <1>6, <1>11, <2>0
  <2> QED
    BY <1>2, <1>11, <2>1, <2>2
<1>13. ~Sdr!BadHeader(a.from.id, successor')
  <2>1. a.from.id = k
    BY <1>3, <1>8
  <2> QED
    BY <1>1, <1>3, <1>4, <1>5, <1>11, <2>1 DEF Sdr!BadHeader
<1>14. Sdr!Complete <=> filled' = Header + size
  BY <1>3, <1>12, ReadingAssumption DEF Sdr!Complete
<1>15. /\ \A j \in Int : After(j)' = After(j) /\ Asked(j)' = Asked(j) /\ Number(j)' = Number(j)
       /\ \A j \in Int : AsStored(j)' = AsStored(j)
  BY <1>1 DEF After, Asked, Number, AsStored
<1>16. CASE at' = "done" /\ result' = "parse" /\ UNCHANGED <<next_record, yielded>>
  <2>1. ReturnedSoFar'
    BY <1>1, <1>16, TraversedStays
  <2> QED
    BY <1>1, <1>10, <1>16, <2>1 DEF Progress
<1>17. CASE ~Sdr!Complete /\ UNCHANGED <<at, next_record, yielded, result>>
  <2>1. ReturnedSoFar'
    BY <1>1, <1>17, TraversedStays
  <2>2. filled' >= Header => filled' < Header + size
    BY <1>3, <1>12, <1>14, <1>17, ReadingAssumption
  <2>3. Len(yielded') + 1 = k /\ Len(yielded)' + 1 = k /\ Len(records') = Len(records) /\ records'[k].length = size
    BY <1>1, <1>17
  <2>4. Number(k)' = Number(k) /\ After(k)' = After(k) /\ Asked(k)' = Asked(k)
    BY <1>3, <1>15
  <2>5. Piece'
    BY <1>2, <1>10, <1>11, <1>12, <2>2, <2>3, <2>4 DEF Piece
  <2>6. visited' = Asked(Len(yielded) + 1)'
    BY <1>1, <1>10, <2>3, <2>4
  <2> QED
    BY <1>1, <1>10, <1>17, <2>1, <2>5, <2>6 DEF Progress
<1>18. CASE Sdr!Complete /\ yielded' = Append(yielded, Sdr!Record) /\ next_record' = successor' /\ at' = "next" /\ UNCHANGED result
  <2>1. Sdr!Record = AsStored(k)
    <3>1. header'.id = k /\ filled' - Header = size
      BY <1>3, <1>12, <1>14, <1>18, ReadingAssumption
    <3>2. (IF current = Sdr!FIRST THEN header'.id ELSE current) = k
      BY <1>2, <3>1, Zenon DEF Number
    <3>3. Sdr!Record = [id |-> k, length |-> size, versions |-> {0}]
      BY <1>11, <3>1, <3>2, Zenon DEF Sdr!Record
    <3>4. AsStored(k) = [id |-> k, length |-> size, versions |-> {0}]
      BY <1>3, Zenon DEF AsStored
    <3> QED
      BY <3>3, <3>4
  <2>2. /\ Len(yielded') = k /\ yielded'[k] = AsStored(k)
        /\ \A j \in 1..Len(yielded) : yielded'[j] = yielded[j]
    BY <1>0, <1>18, <2>1 DEF SdrCounts
  <2>3. ReturnedSoFar'
    <3>1. \A j \in 1..Len(yielded) : yielded[j] = AsStored(j)
      BY DEF ReturnedSoFar
    <3>2. ASSUME NEW j \in 1..k PROVE yielded'[j] = AsStored(j)'
      <4>1. j \in 1..Len(yielded) \/ j = k
        BY <1>3
      <4>2. AsStored(j)' = AsStored(j)
        BY <1>15
      <4> QED
        BY <2>2, <3>1, <4>1, <4>2, Zenon
    <3>3. Len(records) <= Room /\ \A j \in 1..Len(records) : records[j].id = j /\ records[j].version = 0
      BY Zenon DEF ReturnedSoFar
    <3> QED
      BY <1>1, <1>2, <2>2, <3>2, <3>3 DEF ReturnedSoFar
  <2>4. next_record' = After(Len(yielded))' /\ visited' = Asked(Len(yielded))'
    <3>1. After(k)' = After(k) /\ Asked(k)' = Asked(k) /\ Len(yielded)' = k
      BY <1>3, <1>15, <2>2
    <3>2. next_record' = After(k) /\ visited' = Asked(k)
      BY <1>1, <1>10, <1>11, <1>18
    <3> QED
      BY <3>1, <3>2
  <2> QED
    BY <1>1, <1>10, <1>18, <2>3, <2>4 DEF Progress
<1> QED
  BY <1>10, <1>13, <1>16, <1>17, <1>18

\* A traversal of a repository that nobody changes returns all of it.
LEMMA SdrQuietStep == SdrInv /\ SdrQuiet /\ Sdr!Next => SdrQuiet'
<1> SUFFICES ASSUME SdrInv, SdrQuiet, Sdr!Next, ~broken', edits' = 0 PROVE ReturnedSoFar' /\ Progress'
  BY DEF SdrQuiet
<1>1. edits \in Nat
  BY DEF SdrInv, SdrCounts
<1>2. CASE Sdr!Change
  <2>1. edits' = edits + 1
    BY <1>2 DEF Sdr!Change, Sdr!Changed
  <2> QED
    BY <1>1, <2>1
<1>3. CASE Sdr!Step
  <2>1. broken' = broken /\ edits' = edits
    BY <1>3 DEF Sdr!Step, Sdr!Source, Sdr!Info, Sdr!Reserve, Sdr!CallNext, Sdr!OffsetOutOfRange, Sdr!TooMany, Sdr!Cancelled,
       Sdr!Read,
       Sdr!Absent, Sdr!CommandFails, Sdr!Quiet, Sdr!fixed
  <2>2. ~broken /\ ReturnedSoFar /\ Progress
    BY <2>1 DEF SdrQuiet
  <2> QED
    BY <1>3, <2>2, SdrQuietWalks, SdrQuietReads DEF Sdr!Step
<1> QED
  BY <1>2, <1>3 DEF Sdr!Next

\* As SdrRests.
LEMMA SdrQuietRests == SdrQuiet /\ UNCHANGED <<shared, sdrOwn>> => SdrQuiet'
<1> SUFFICES ASSUME SdrQuiet, UNCHANGED <<shared, sdrOwn>> PROVE SdrQuiet'
  OBVIOUS
<1>1. UNCHANGED <<at, limit, broken, result, records, edits, held, reserves, next_record, visited, read_limit, current,
                  filled, header, successor, parts, attempt, yielded, start>>
  BY DEF shared, sdrOwn
<1>2. ReturnedSoFar => ReturnedSoFar'
  BY <1>1 DEF ReturnedSoFar, AsStored
<1>3. Piece => Piece'
  BY <1>1 DEF Piece, After, Number
<1>4. Progress => Progress'
  BY <1>1, <1>3 DEF Progress, PastReach, After, Asked, Number
<1> QED
  BY <1>1, <1>2, <1>4 DEF SdrQuiet

\* What the invariant says of a traversal that ended.
LEMMA SdrQuietMeans == SdrInv /\ SdrQuiet => Sdr!QuietWalkComplete
<1> SUFFICES ASSUME SdrInv, SdrQuiet, ~broken, edits = 0
             PROVE  /\ result \in {"none", "end", "no_source", "failed", "offset", "parse"}
                    /\ result = "offset" => PastReach
                    /\ result = "end" => yielded = [k \in DOMAIN records |-> AsStored(k)]
  BY DEF Sdr!QuietWalkComplete, PastReach, AsStored
<1>1. ReturnedSoFar /\ Progress
  BY DEF SdrQuiet
<1>2. /\ result \in {"none", "end", "no_source", "failed", "offset", "parse"}
      /\ result = "offset" => PastReach
  BY <1>1 DEF Progress
<1>3. ASSUME result = "end" PROVE yielded = [k \in DOMAIN records |-> AsStored(k)]
  <2>1. /\ Len(yielded) = Len(records) /\ \A k \in 1..Len(yielded) : yielded[k] = AsStored(k)
    BY <1>1, <1>3 DEF Progress, ReturnedSoFar
  <2>2. yielded \in Seq(Returned) /\ DOMAIN yielded = 1..Len(yielded) /\ DOMAIN records = 1..Len(records)
    BY DEF SdrInv, SdrCounts
  <2>3. yielded = [k \in 1..Len(yielded) |-> yielded[k]]
    BY <2>2
  <2> QED
    BY <2>1, <2>2, <2>3
<1> QED
  BY <1>2, <1>3

-----------------------------------------------------------------------------
(* A value that the reader does not take.                                  *)
TooLong == length > Pages!Least(Most, Page * (Blocks - 1)) \/ length % unit # 0

(* The pages that are counted are full ones, but for the first and the     *)
(* last of a text.                                                         *)
FullPages ==
    /\ reader \in {"nac", "file"} => Len(got) = page * Page
    /\ reader = "lcd" /\ page # 0 => Len(got) = length \/ Len(got) >= (page - 1) * Page

PagesQuiet ==
    ~broken =>
        /\ reader \in Pages!Readers
        /\ result \in {"protocol", "limit"} /\ reader # "value" => TooLong
        /\ at # "done" => result = "none"
        /\ at = "first" => page = 0
        /\ at = "page" => FullPages

\* A page more or less.
LEMMA PageMore ==
  ASSUME NEW m \in Nat, NEW n \in Nat
  PROVE  /\ (m + 1) * n = m * n + n /\ m * n \in Nat
         /\ (m - 1) * n + n = m * n /\ n * (m - 1) = m * n - n /\ (m - 1) * n \in Int
  OBVIOUS

\* Before the first command.
LEMMA PagesQuietStart == Pages!Init => PagesQuiet
  BY DEF Pages!Init, PagesQuiet

\* A page of a target that answers truly is one that the reader accepts, or
\* the value is too long for it.
LEMMA PagesAccept ==
  ASSUME PagesInv, PagesQuiet, ~broken, Pages!ReadPage,
         NEW n, n = Pages!Least(Pages!Want, Pages!Rest), NEW a, a = Pages!Honest(Pages!Want)
  PROVE  Pages!Acceptable(a) \/ TooLong
<1>1. /\ Pages!Want \in Nat /\ n \in Nat /\ Len(got) + n <= length
      /\ a.items \in Seq(PageItems) /\ Len(a.items) = n
      /\ a.total = length /\ a.echo = page
      /\ a.last = (n = length - Len(got) /\ (reader = "nac" => n < Page))
  BY PagesPage
<1>2. /\ length \in Nat /\ Len(got) \in Nat /\ page \in Nat /\ chunk_size \in Nat
      /\ n = IF Pages!Want < length - Len(got) THEN Pages!Want ELSE length - Len(got)
      /\ reader \in {"fru", "spd", "string", "ids"} => total = length
      /\ reader = "lcd" /\ page # 0 => total = length
      /\ at = "page" /\ Pages!Paged
      /\ reader \in {"fru", "spd", "string", "ids", "lcd", "nac", "value", "file"}
  BY DEF PagesInv, PageCounts, SoFar, Pages!ReadPage, PagesQuiet, Pages!Readers, Pages!Least, Pages!Rest
<1>3. Page * (Blocks - 1) \in Int /\ Page \in Nat \ {0} /\ Most \in Nat
  BY ReadingAssumption, PageMore
<1>4. length > Most => TooLong
  BY <1>2, <1>3 DEF TooLong, Pages!Least
<1>5. CASE reader \in {"fru", "spd", "string"}
  <2>1. n = Pages!Want
    BY <1>1, <1>2, <1>5 DEF Pages!Want, Pages!Least
  <2> QED
    BY <1>1, <1>2, <1>5, <2>1 DEF Pages!Acceptable
<1>6. CASE reader = "ids"
  <2>1. Pages!Want = Page /\ length - Len(got) # 0
    BY <1>2, <1>6 DEF Pages!Want, Pages!Paged, Pages!Complete
  <2>2. n # 0 /\ n <= Pages!Least(Page, length - Len(got))
    BY <1>1, <1>2, <1>3, <2>1 DEF Pages!Least
  <2>3. a.items # <<>>
    BY <1>1, <2>2
  <2> QED
    BY <1>1, <1>2, <1>6, <2>2, <2>3 DEF Pages!Acceptable, Pages!Fits
<1>7. CASE reader = "lcd"
  <2>1. n = Pages!Least(Pages!Want, length - Len(got))
    BY <1>2 DEF Pages!Least
  <2>2. n >= Pages!Least(Pages!Want, (IF page = 0 THEN a.total ELSE total) - Len(got))
    BY <1>1, <1>2, <1>7, <2>1
  <2>3. a.total <= Most \/ TooLong
    BY <1>1, <1>2, <1>3, <1>4
  <2> QED
    BY <1>1, <1>7, <2>2, <2>3 DEF Pages!Acceptable
<1>8. CASE reader \in {"nac", "file"}
  <2>1. Pages!Want = Page
    BY <1>8 DEF Pages!Want
  <2>2. n <= Page /\ (n = Page \/ n = length - Len(got)) /\ (n = 0 => n = length - Len(got))
    BY <1>1, <1>2, <1>3, <2>1
  <2>3. Len(got) + n <= Most \/ TooLong
    BY <1>1, <1>2, <1>3, <1>4
  <2>4. a.items # <<>> \/ n = 0
    BY <1>1
  <2>5. CASE reader = "nac"
    <3>1. a.last = (n < Page)
      BY <1>1, <1>3, <2>2, <2>5
    <3> QED
      BY <1>1, <2>2, <2>3, <2>5, <3>1 DEF Pages!Acceptable
  <2>6. CASE reader = "file"
    <3>1. a.items # <<>> \/ a.last
      BY <1>1, <2>2, <2>4, <2>6
    <3> QED
      BY <1>1, <2>2, <2>3, <2>6, <3>1 DEF Pages!Acceptable
  <2> QED
    BY <1>8, <2>5, <2>6
<1> QED
  BY <1>2, <1>5, <1>6, <1>7, <1>8 DEF Pages!Paged

\* With a page more the pages are full ones still.
LEMMA PagesFull ==
  ASSUME PagesInv, PagesQuiet, ~broken, Pages!ReadPage, PagesInv', at' = "page"
  PROVE  FullPages'
<1> DEFINE n == Pages!Least(Pages!Want, Pages!Rest)
           a == Pages!Honest(Pages!Want)
<1>1. /\ Pages!Want \in Nat /\ n \in Nat /\ Len(got) + n <= length
      /\ a.last = (n = length - Len(got) /\ (reader = "nac" => n < Page))
      /\ \/ Pages!Refuse
         \/ /\ got' = got \o Pages!Items(Len(got), n)
            /\ page' = IF Pages!Counted THEN page + 1 ELSE page
            /\ IF reader \in {"nac", "file"} /\ a.last THEN at' = "done" ELSE UNCHANGED at
  BY PagesPage, Zenon
<1>2. n = IF Pages!Want < length - Len(got) THEN Pages!Want ELSE length - Len(got)
  BY DEF Pages!Least, Pages!Rest
<1> HIDE DEF n, a
<1>3. /\ length \in Nat /\ Len(got) \in Nat /\ page \in Nat /\ got \in Seq(PageItems) /\ version \in Nat
      /\ reader = "lcd" /\ page # 0 => total = length
      /\ at = "page" /\ Pages!Paged /\ FullPages /\ UNCHANGED <<reader, length>>
  BY DEF PagesInv, PageCounts, SoFar, Pages!ReadPage, PagesQuiet, Pages!Quiet, Pages!call, Pages!target
<1>4. at' # "done"
  OBVIOUS
<1>5. got' = got \o Pages!Items(Len(got), n) /\ page' = (IF Pages!Counted THEN page + 1 ELSE page)
      /\ ~(reader \in {"nac", "file"} /\ a.last)
  BY <1>1, <1>4 DEF Pages!Refuse, Pages!Stop
<1>6. Len(got') = Len(got) + n
  <2> DEFINE t == Pages!Items(Len(got), n)
  <2>1. t \in Seq(PageItems) /\ Len(t) = n
    BY <1>1, <1>3, PagesItem
  <2> HIDE DEF t
  <2>2. Len(got \o t) = Len(got) + Len(t)
    BY <1>3, <2>1
  <2> QED
    BY <1>5, <2>1, <2>2 DEF t
<1>7. Page \in Nat \ {0} /\ (page + 1) * Page = page * Page + Page /\ (page - 1) * Page + Page = page * Page
      /\ page * Page \in Nat /\ (page - 1) * Page \in Int
  BY <1>3, ReadingAssumption, PageMore
<1>8. ASSUME reader \in {"nac", "file"} PROVE Len(got') = page' * Page
  <2>1. Pages!Want = Page /\ page' = page + 1 /\ Len(got) = page * Page
    BY <1>3, <1>5, <1>8 DEF Pages!Want, Pages!Counted, FullPages
  <2>2. n = Page
    <3>1. ~(n = length - Len(got) /\ (reader = "nac" => n < Page))
      BY <1>1, <1>5, <1>8, Zenon
    <3>2. n = Page \/ (n = length - Len(got) /\ n < Page)
      BY <1>2, <1>3, <1>7, <2>1
    <3> QED
      BY <3>1, <3>2, Zenon
  <2> QED
    BY <1>6, <1>7, <2>1, <2>2
<1>9. ASSUME reader = "lcd" PROVE Len(got') = length \/ Len(got') >= (page' - 1) * Page
  <2>1. page' = page + 1 /\ page' - 1 = page
    BY <1>3, <1>5, <1>9 DEF Pages!Counted
  <2>2. CASE page = 0
    <3>1. (page' - 1) * Page = 0
      BY <1>7, <2>1, <2>2
    <3> QED
      BY <1>1, <1>3, <1>6, <3>1
  <2>3. CASE page # 0
    <3>1. Pages!Want = Page /\ Len(got) # length /\ (Len(got) = length \/ Len(got) >= (page - 1) * Page)
      BY <1>3, <1>9, <2>3 DEF Pages!Want, Pages!Paged, Pages!Complete, FullPages
    <3>2. n = Page \/ Len(got) + n = length
      BY <1>2, <1>3, <3>1
    <3>3. Len(got) + Page >= page * Page
      BY <1>3, <1>7, <3>1
    <3> QED
      BY <1>6, <2>1, <3>2, <3>3
  <2> QED
    BY <2>2, <2>3
<1> QED
  BY <1>3, <1>8, <1>9 DEF FullPages

\* A read of a value that the reader takes is refused by no check and no
\* limit of its own.
LEMMA PagesQuietStep == PagesInv /\ PagesQuiet /\ PagesInv' /\ Pages!Next => PagesQuiet'
<1> SUFFICES ASSUME PagesInv, PagesQuiet, PagesInv', Pages!Next, ~broken' PROVE PagesQuiet'
  BY DEF PagesQuiet
<1>1. UNCHANGED <<broken, reader, unit, length>> /\ at # "done"
  BY DEF Pages!Next, Pages!Step, Pages!FirstCommand, Pages!ReadPage, Pages!Shrink, Pages!PollValue, Pages!Finish, Pages!Fail,
     Pages!Rewrite, Pages!SelectElsewhere, Pages!Quiet, Pages!target, Pages!call
<1>2. ~broken /\ PageCounts /\ SoFar
  BY <1>1 DEF PagesInv
<1>3. /\ reader \in Pages!Readers /\ result = "none"
      /\ at = "first" => page = 0 /\ got = <<>>
      /\ at = "page" => FullPages
      /\ length \in Nat /\ page \in Nat /\ Len(got) \in Nat /\ Len(got) <= length
  BY <1>1, <1>2 DEF PagesQuiet, SoFar, PageCounts
<1>4. ASSUME result' \in {"protocol", "limit"} /\ reader # "value" => TooLong,
             at' # "done" => result' = "none", at' = "first" => page' = 0, at' = "page" => FullPages'
      PROVE  PagesQuiet'
  <2>1. TooLong' = TooLong
    BY <1>1 DEF TooLong, Pages!Least
  <2> QED
    BY <1>1, <1>3, <1>4, <2>1 DEF PagesQuiet, Pages!Readers
<1>5. CASE Pages!FirstCommand
  <2>1. \/ at' = "done" /\ result' = "failed"
        \/ at' = "page" /\ result' = result /\ (reader \in {"lcd", "nac", "file"} => UNCHANGED <<page, got>>)
        \/ at' = "done" /\ result' = "protocol" /\ Pages!Unfit(length)
    BY <1>2, <1>5 DEF Pages!FirstCommand, Pages!FirstAnswer, Pages!Totals, Pages!Refuse, Pages!Stop, Pages!progress
  <2>2. Pages!Unfit(length) => TooLong
    <3>1. Page * (Blocks - 1) \in Int
      BY ReadingAssumption, PageMore
    <3> QED
      BY <1>3, <3>1, ReadingAssumption DEF Pages!Unfit, TooLong, Pages!Least
  <2>3. ASSUME reader \in {"lcd", "nac", "file"} => UNCHANGED <<page, got>> PROVE FullPages'
    <3>1. page = 0 /\ Len(got) = 0 /\ 0 * Page = 0
      BY <1>3, <1>5, ReadingAssumption DEF Pages!FirstCommand
    <3> QED
      BY <1>1, <2>3, <3>1 DEF FullPages
  <2> QED
    BY <1>3, <1>4, <2>1, <2>2, <2>3
<1>6. CASE Pages!ReadPage
  <2> DEFINE n == Pages!Least(Pages!Want, Pages!Rest)
             a == Pages!Honest(Pages!Want)
  <2>1. \/ Pages!Refuse /\ ~Pages!Acceptable(a)
        \/ at' = "done" /\ result' = "ok"
        \/ UNCHANGED <<at, result>>
    BY <1>2, <1>6, PagesPage, Zenon
  <2>2. Pages!Acceptable(a) \/ TooLong
    BY <1>2, <1>6, PagesAccept, Zenon
  <2> HIDE DEF a
  <2>3. \/ at' = "done" /\ result' = "protocol" /\ TooLong
        \/ at' = "done" /\ result' = "ok"
        \/ at' = "page" /\ result' = "none"
    BY <1>3, <1>6, <2>1, <2>2 DEF Pages!Refuse, Pages!Stop, Pages!ReadPage
  <2>4. at' = "page" => FullPages'
    BY <1>2, <1>6, PagesFull
  <2> QED
    BY <1>4, <2>3, <2>4
<1>7. CASE Pages!Shrink
  <2>1. /\ reader = "fru" /\ \/ at' = "done" /\ result' = "failed"
                             \/ UNCHANGED <<at, result>>
        /\ at = "page"
    BY <1>7 DEF Pages!Shrink, Pages!Stop
  <2> QED
    BY <1>1, <1>3, <1>4, <2>1 DEF FullPages
<1>8. CASE Pages!PollValue
  <2>1. reader = "value" /\ at = "page" /\ (at' = "done" \/ UNCHANGED <<at, result>>)
    BY <1>8 DEF Pages!PollValue, Pages!Stop
  <2> QED
    BY <1>1, <1>3, <1>4, <2>1 DEF FullPages
<1>9. CASE Pages!Finish
  <2>1. at = "page" /\ at' = "done" /\ (result' = "ok" \/ (result' = "limit" /\ Pages!Paged /\ Pages!TooMany))
    BY <1>9 DEF Pages!Finish, Pages!Stop
  <2>2. Pages!Paged /\ Pages!TooMany /\ reader # "value" => TooLong
    <3> SUFFICES ASSUME Pages!Paged, Pages!TooMany, reader # "value" PROVE TooLong
      OBVIOUS
    <3>1. /\ Blocks \in Nat \ {0} /\ Page \in Nat \ {0} /\ Most \in Nat
          /\ Page * (Blocks - 1) = Blocks * Page - Page /\ (Blocks - 1) * Page + Page = Blocks * Page
          /\ Blocks * Page \in Nat /\ (Blocks - 1) * Page \in Int /\ Page * (Blocks - 1) \in Int
      BY ReadingAssumption, PageMore
    <3>2. reader \in {"lcd", "nac", "file"} /\ page = Blocks
      BY <1>3 DEF Pages!TooMany, Pages!Counted
    <3>3. CASE reader \in {"nac", "file"}
      <4>1. Len(got) = Blocks * Page
        BY <1>3, <2>1, <3>2, <3>3 DEF FullPages
      <4>2. length > Page * (Blocks - 1)
        BY <1>3, <3>1, <4>1
      <4> QED
        BY <1>3, <3>1, <4>2 DEF TooLong, Pages!Least
    <3>4. CASE reader = "lcd"
      <4>1. page # 0
        BY <3>1, <3>2
      <4>2. Len(got) # length
        BY <1>2, <3>4, <4>1 DEF Pages!Paged, Pages!Complete, SoFar
      <4>3. Len(got) >= (Blocks - 1) * Page
        BY <1>3, <2>1, <3>2, <3>4, <4>1, <4>2 DEF FullPages
      <4>4. length > Page * (Blocks - 1)
        BY <1>3, <3>1, <4>2, <4>3
      <4> QED
        BY <1>3, <3>1, <4>4 DEF TooLong, Pages!Least
    <3> QED
      BY <3>2, <3>3, <3>4
  <2> QED
    BY <1>4, <2>1, <2>2
<1>10. CASE Pages!Fail
  <2>1. at' = "done" /\ result' = "failed"
    BY <1>10 DEF Pages!Fail, Pages!Stop
  <2> QED
    BY <1>4, <2>1
<1>11. CASE Pages!Rewrite \/ Pages!SelectElsewhere
  <2>1. UNCHANGED <<at, page, got, result>>
    BY <1>11 DEF Pages!Rewrite, Pages!SelectElsewhere, Pages!call, Pages!progress
  <2> QED
    BY <1>1, <1>3, <1>4, <2>1 DEF FullPages
<1> QED
  BY <1>5, <1>6, <1>7, <1>8, <1>9, <1>10, <1>11 DEF Pages!Next, Pages!Step

\* As SdrRests.
LEMMA PagesQuietRest == PagesQuiet /\ UNCHANGED <<shared, pagesOwn>> => PagesQuiet'
<1> SUFFICES ASSUME PagesQuiet, UNCHANGED <<shared, pagesOwn>> PROVE PagesQuiet'
  OBVIOUS
<1>1. UNCHANGED <<at, limit, broken, result, reader, chunk_size, unit, length, version, selected, total, page, got>>
  BY DEF shared, pagesOwn
<1>2. TooLong' = TooLong
  BY <1>1 DEF TooLong, Pages!Least
<1> QED
  BY <1>1, <1>2 DEF PagesQuiet, FullPages, Pages!Readers

-----------------------------------------------------------------------------
(* The inductive invariant of what nobody changes, along with ReadingInv.  *)
QuietInv ==
    /\ SelQuiet
    /\ program = "sdr" => SdrQuiet
    /\ program = "pages" => PagesQuiet

\* Each of the readers begins with it,
LEMMA QuietStart == ReadingInit => QuietInv
<1> SUFFICES ASSUME ReadingInit PROVE QuietInv
  OBVIOUS
<1>1. SelQuiet
  BY SelQuietStart DEF ReadingInit
<1>2. program = "sdr" => SdrQuiet
  BY SdrQuietStart DEF ReadingInit
<1>3. program = "pages" => PagesQuiet
  BY PagesQuietStart DEF ReadingInit
<1> QED
  BY <1>1, <1>2, <1>3 DEF QuietInv

\* and every step keeps it.
LEMMA QuietStep == ReadingInv /\ QuietInv /\ ReadingInv' /\ [ReadingNext]_allVars => QuietInv'
<1> SUFFICES ASSUME ReadingInv, QuietInv, ReadingInv', [ReadingNext]_allVars PROVE QuietInv'
  OBVIOUS
<1>1. SelQuiet'
  <2>1. [Next]_vars
    BY DEF ReadingNext, RunSel, RunSdr, RunPages, allVars
  <2>2. SelInv /\ SelQuiet
    BY DEF ReadingInv, QuietInv
  <2> QED
    BY <2>1, <2>2, SelQuietStep
<1>2. CASE RunSel
  BY <1>1, <1>2 DEF ReadingInv, QuietInv, RunSel, SelInv
<1>3. CASE RunSdr
  <2>1. SdrQuiet'
    BY <1>3, SdrQuietStep DEF ReadingInv, QuietInv, RunSdr
  <2> QED
    BY <1>1, <1>3, <2>1 DEF QuietInv, RunSdr
<1>4. CASE RunPages
  <2>1. PagesQuiet'
    BY <1>4, PagesQuietStep DEF ReadingInv, QuietInv, RunPages
  <2> QED
    BY <1>1, <1>4, <2>1 DEF QuietInv, RunPages
<1>5. CASE UNCHANGED allVars
  <2>1. UNCHANGED program /\ UNCHANGED <<shared, sdrOwn>> /\ UNCHANGED <<shared, pagesOwn>>
    BY <1>5 DEF allVars
  <2> QED
    BY <1>1, <2>1, SdrQuietRests, PagesQuietRest DEF QuietInv
<1> QED
  BY <1>2, <1>3, <1>4, <1>5 DEF ReadingNext

\* What it says of how a read of what nobody changes ends.
LEMMA QuietMeans == ReadingInv /\ QuietInv => QuietReadsSucceed
<1> SUFFICES ASSUME ReadingInv, QuietInv PROVE QuietReadsSucceed
  OBVIOUS
<1>1. QuietWalkSucceeds
  BY DEF QuietInv, SelQuiet, QuietWalkSucceeds
<1>2. program = "sdr" => Sdr!QuietWalkComplete
  BY SdrQuietMeans DEF ReadingInv, QuietInv
<1>3. program = "pages" => Pages!QuietReadSucceeds
  BY DEF QuietInv, PagesQuiet, TooLong, Pages!QuietReadSucceeds
<1> QED
  BY <1>1, <1>2, <1>3 DEF QuietReadsSucceed

-----------------------------------------------------------------------------
(***************************************************************************)
(* Types, also under a BMC that answers anything.  The walk of the log     *)
(* reads a record only while it may return one more, so that it returns no *)
(* more than MaxEntries (ScanTyped); a paged reader takes no more than it  *)
(* was told that there is, or than the most it takes (Limited).            *)
(***************************************************************************)
(* Numbers that a record may have in an answer, and entries read.          *)
Named == Numbers \union {1, 2}
Entries == [id : Named, raw : Contents, serial : Numbers]

(* The log, which holds no more than it may.                               *)
LogTyped ==
    /\ log \in Seq(Records) /\ Len(log) <= Capacity
    /\ changes \in 0..MaxChanges /\ events \in 0..(Capacity + changes)
    /\ next_number \in 1..(Capacity + changes + 1)
    /\ last_add_time \in 0..changes /\ last_del_time \in 0..changes
    /\ overflow \in BOOLEAN /\ reserved \in BOOLEAN

(* The iterator, which reads a record only while it may return one more.   *)
ScanTyped ==
    /\ faulty \in BOOLEAN /\ has_reservation \in BOOLEAN
    /\ pc \in {"idle", "info", "reserve", "next", "read", "reinfo", "end"}
    /\ outcome \in {"none", "failed", "refused", "scanned"}
    /\ next_id \in Named \union {FIRST, LAST} /\ scanned \subseteq Named
    /\ remaining_reads \in 0..ReadBudget /\ restarts \in 0..2 /\ retry \in 0..2
    /\ emitted \in Seq(Entries) /\ seen = {emitted[k].id : k \in DOMAIN emitted}
    /\ IsFiniteSet(seen) /\ Cardinality(seen) = Len(emitted) /\ Len(emitted) <= MaxEntries
    /\ pc = "read" \/ (pc = "reserve" /\ retry > 0) => Len(emitted) < MaxEntries
    /\ pc = "info" => retry = 0

(* What the poller keeps.                                                  *)
PollTyped ==
    /\ info \in {NoInfo} \union Infos
    /\ owed \subseteq 1..events /\ known \subseteq Numbers /\ stale \subseteq previous

SelTyped == LogTyped /\ ScanTyped /\ PollTyped

\* The sizes that a log, its numbers and its entries may have.
LEMMA SelSizes ==
  /\ MaxEntries \in Nat \ {0} /\ Capacity \in Nat \ {0} /\ MaxChanges \in Nat
  /\ ReadBudget \in Nat /\ 1 \in Numbers /\ (CHOOSE c \in Contents : TRUE) \in Contents
<1>1. MaxEntries \in Nat \ {0} /\ Capacity \in Nat \ {0} /\ MaxChanges \in Nat /\ Contents # {}
  BY WalkAssumption
<1>2. (CHOOSE c \in Contents : TRUE) \in Contents
  BY <1>1, Zenon
<1> QED
  BY <1>1, <1>2 DEF ReadBudget, Numbers

\* The types hold before the first request.
LEMMA SelTypedStart == Init => SelTyped
<1> SUFFICES ASSUME Init PROVE SelTyped
  OBVIOUS
<1>1. PICK n \in 0..Capacity : log = NewLog(n) /\ next_number = n + 1 /\ events = n
  BY DEF Init, InitWalk
<1>2. \A k \in 1..n : [id |-> k, raw |-> CHOOSE c \in Contents : TRUE, serial |-> k] \in Records
  BY SelSizes DEF Records, Numbers
<1>3. log \in Seq(Records) /\ Len(log) = n
  BY <1>1, <1>2, SelSizes DEF NewLog
<1>4. LogTyped
  <2>1. /\ changes = 0 /\ last_add_time = 0 /\ last_del_time = 0 /\ overflow = FALSE /\ reserved = FALSE
    BY DEF Init, InitWalk
  <2>2. n \in Nat /\ n <= Capacity /\ Capacity \in Nat /\ MaxChanges \in Nat
    BY SelSizes
  <2>3. overflow \in BOOLEAN /\ reserved \in BOOLEAN
    BY <2>1, Zenon
  <2> QED
    BY <1>1, <1>3, <2>1, <2>2, <2>3 DEF LogTyped
<1>5. ScanTyped
  <2>1. seen = {} /\ emitted = <<>> /\ pc = "idle"
    BY DEF Init, InitWalk
  <2>2. IsFiniteSet(seen) /\ Cardinality(seen) = 0
    BY <2>1, FS_EmptySet
  <2>3. emitted \in Seq(Entries) /\ Len(emitted) = 0 /\ DOMAIN emitted = {}
    BY <2>1
  <2> QED
    BY <2>1, <2>2, <2>3, SelSizes DEF ScanTyped, Init, InitWalk
<1>6. PollTyped
  BY DEF PollTyped, Init
<1> QED
  BY <1>4, <1>5, <1>6 DEF SelTyped

\* What an answer to Get SEL Entry names.
LEMMA SelAnswers ==
  ASSUME SelTyped, NEW id, NEW a \in Answers(id)
  PROVE  /\ a.record.id \in Named \union {FIRST, LAST} /\ a.next \in Named \union {FIRST, LAST}
         /\ a.record.id \notin {FIRST, LAST} => a.record \in Entries
<1>1. CASE faulty
  <2>1. a \in [record : [id : {FIRST, 1, 2, LAST}, raw : {CHOOSE c \in Contents : TRUE}, serial : {1}],
               next : {FIRST, 1, 2, LAST}]
    BY <1>1 DEF Answers
  <2>2. /\ a.record \in [id : {FIRST, 1, 2, LAST}, raw : {CHOOSE c \in Contents : TRUE}, serial : {1}]
        /\ a.next \in {FIRST, 1, 2, LAST}
    BY <2>1
  <2> QED
    BY <2>2, SelSizes DEF Entries, Named
<1>2. CASE ~faulty
  <2>1. PICK k \in Matches(id) : a = Found(k)
    BY <1>2 DEF Answers
  <2>2. k \in 1..Len(log) /\ log \in Seq(Records)
    BY DEF Matches, SelTyped, LogTyped
  <2>3. log[k] \in Records /\ (k # Len(log) => log[k + 1] \in Records)
    BY <2>2
  <2>4. a.record = log[k] /\ a.next = IF k = Len(log) THEN LAST ELSE log[k + 1].id
    BY <2>1 DEF Found
  <2> QED
    BY <2>3, <2>4 DEF Records, Entries, Named
<1> QED
  BY <1>1, <1>2

\* A command that returns no entry.
LEMMA SelTypedWalks ==
  ASSUME SelTyped,
         \/ FirstInfo \/ Reserve \/ CheckNext \/ ReadLimit \/ ReadCancelled \/ ReadAbsent
         \/ InfoAfterAbsent \/ CommandFails
  PROVE  ScanTyped'
<1>1. /\ UNCHANGED <<faulty, has_reservation, emitted, seen>>
      /\ pc' \in {"idle", "reserve", "next", "read", "reinfo", "end"}
      /\ outcome' \in {outcome, "refused", "failed"}
  BY DEF SelTyped, ScanTyped, FirstInfo, Reserve, CheckNext, ReadLimit, ReadCancelled, ReadAbsent, InfoAfterAbsent,
     CommandFails, Quiet, bmc, fixed, history, iterator, Fail, Finish, Rescan, Spend, AfterInfo
<1>2. next_id' \in {next_id, FIRST} /\ scanned' \in {scanned, {}}
  BY DEF FirstInfo, Reserve, CheckNext, ReadLimit, ReadCancelled, ReadAbsent, InfoAfterAbsent,
     CommandFails, iterator, Fail, Finish, Rescan
<1>3. remaining_reads' \in 0..ReadBudget
  <2>1. remaining_reads' = remaining_reads \/ (remaining_reads > 0 /\ remaining_reads' = remaining_reads - 1)
    BY DEF FirstInfo, Reserve, CheckNext, ReadLimit, ReadCancelled, ReadAbsent, InfoAfterAbsent,
       CommandFails, iterator, Fail, Finish, Rescan, Spend
  <2>2. remaining_reads \in 0..ReadBudget /\ ReadBudget \in Nat
    BY SelSizes DEF SelTyped, ScanTyped
  <2> QED
    BY <2>1, <2>2
<1>4. restarts' \in 0..2 /\ retry' \in 0..2
  <2>1. /\ restarts' = restarts \/ (restarts < 2 /\ restarts' = restarts + 1)
        /\ retry' \in {retry, 0} \/ (retry < 2 /\ retry' = retry + 1)
    <3>1. CASE InfoAfterAbsent
      <4>1. \/ UNCHANGED <<restarts, retry>>
            \/ restarts < 2 /\ restarts' = restarts + 1 /\ retry' = 0
        BY <3>1, Zenon DEF InfoAfterAbsent, Rescan, iterator, Fail, Finish
      <4> QED
        BY <4>1
    <3>2. CASE FirstInfo \/ Reserve \/ CheckNext \/ ReadLimit \/ ReadCancelled \/ ReadAbsent \/ CommandFails
      BY <3>2 DEF FirstInfo, Reserve, CheckNext, ReadLimit, ReadCancelled, ReadAbsent,
         CommandFails, iterator, Fail, Finish
    <3> QED
      BY <3>1, <3>2
  <2>2. restarts \in 0..2 /\ retry \in 0..2
    BY DEF SelTyped, ScanTyped
  <2> QED
    BY <2>1, <2>2
<1>5. pc' = "read" \/ (pc' = "reserve" /\ retry' > 0) => Len(emitted) < MaxEntries
  <2>0. /\ ScanTyped /\ MaxEntries \in Nat /\ retry \in 0..2
        /\ Cardinality(seen) = Len(emitted) /\ Len(emitted) \in Nat
    BY SelSizes DEF SelTyped, ScanTyped
  <2>1. CASE FirstInfo
    <3>1. pc = "info" /\ pc' \in {"end", "reserve", "next"} /\ retry' = retry
      BY <2>1 DEF FirstInfo, Finish, AfterInfo, iterator
    <3> QED
      BY <2>0, <3>1 DEF ScanTyped
  <2>2. CASE Reserve
    <3>1. pc = "reserve" /\ retry' = retry /\ (pc' = "read" => retry > 0) /\ pc' # "reserve"
      BY <2>2 DEF Reserve, iterator
    <3> QED
      BY <2>0, <3>1 DEF ScanTyped
  <2>3. CASE CheckNext
    <3>1. pc' # "reserve" /\ (pc' = "read" => ~Full(next_id) /\ next_id # LAST)
      BY <2>3 DEF CheckNext, Fail, Finish
    <3> QED
      BY <2>0, <3>1 DEF Full
  <2>4. CASE ReadLimit \/ ReadAbsent \/ CommandFails
    BY <2>4 DEF ReadLimit, ReadAbsent, CommandFails, Fail
  <2>5. CASE ReadCancelled
    <3>1. pc = "read"
      BY <2>5 DEF ReadCancelled
    <3> QED
      BY <2>0, <3>1 DEF ScanTyped
  <2>6. CASE InfoAfterAbsent
    <3>1. pc' \in {"end", "idle"} \/ (pc' \in {"reserve", "next"} /\ retry' = 0)
      BY <2>6 DEF InfoAfterAbsent, AfterInfo, Fail, Finish
    <3> QED
      BY <3>1
  <2> QED
    BY <2>1, <2>2, <2>3, <2>4, <2>5, <2>6
<1>6. ScanTyped
  BY DEF SelTyped
<1>7. ReadBudget' = ReadBudget
  BY DEF ReadBudget
<1> QED
  BY <1>1, <1>2, <1>3, <1>4, <1>5, <1>6, <1>7 DEF ScanTyped

\* An entry is returned, if it was not before.
LEMMA SelTypedReads ==
  ASSUME SelTyped, ReadEntry
  PROVE  ScanTyped'
<1>1. /\ UNCHANGED <<faulty, has_reservation, restarts, retry>> /\ pc = "read" /\ ScanTyped
      /\ remaining_reads > 0 /\ remaining_reads' = remaining_reads - 1
  BY DEF ReadEntry, Quiet, fixed, Spend, SelTyped
<1>2. remaining_reads' \in 0..ReadBudget
  BY <1>1, SelSizes DEF ScanTyped
<1>3. PICK a \in Answers(next_id) :
        \/ /\ pc' = "idle" /\ outcome' = "refused"
           /\ UNCHANGED <<next_id, seen, scanned, emitted>>
        \/ /\ ~Unacceptable(next_id, a)
           /\ scanned' = scanned \union {a.record.id}
           /\ next_id' = a.next
           /\ seen' = seen \union {a.record.id}
           /\ emitted' = IF a.record.id \in seen THEN emitted ELSE Append(emitted, a.record)
           /\ pc' = "next"
           /\ UNCHANGED outcome
  BY Zenon DEF ReadEntry
<1>4. CASE pc' = "idle" /\ outcome' = "refused" /\ UNCHANGED <<next_id, seen, scanned, emitted>>
  BY <1>1, <1>2, <1>4 DEF ScanTyped
<1>5. CASE /\ ~Unacceptable(next_id, a)
           /\ scanned' = scanned \union {a.record.id}
           /\ next_id' = a.next
           /\ seen' = seen \union {a.record.id}
           /\ emitted' = IF a.record.id \in seen THEN emitted ELSE Append(emitted, a.record)
           /\ pc' = "next"
           /\ UNCHANGED outcome
  <2>1. a.record.id \notin {FIRST, LAST}
    BY <1>5 DEF Unacceptable
  <2>2. a.record \in Entries /\ a.next \in Named \union {FIRST, LAST}
    BY <2>1, SelAnswers
  <2>3. a.record.id \in Named
    BY <2>2 DEF Entries
  <2>4. /\ emitted \in Seq(Entries) /\ seen = {emitted[k].id : k \in DOMAIN emitted} /\ IsFiniteSet(seen)
        /\ Cardinality(seen) = Len(emitted) /\ Len(emitted) < MaxEntries /\ MaxEntries \in Nat
    BY <1>1, SelSizes DEF ScanTyped
  <2>5. /\ emitted' \in Seq(Entries) /\ seen' = {emitted'[k].id : k \in DOMAIN emitted'}
        /\ IsFiniteSet(seen') /\ Cardinality(seen') = Len(emitted') /\ Len(emitted') <= MaxEntries
    <3>1. CASE a.record.id \in seen
      <4>1. seen' = seen /\ emitted' = emitted
        BY <1>5, <3>1
      <4> QED
        BY <2>4, <4>1
    <3>2. CASE a.record.id \notin seen
      <4>1. emitted' = Append(emitted, a.record) /\ seen' = seen \union {a.record.id}
        BY <1>5, <3>2
      <4>2. /\ emitted' \in Seq(Entries) /\ Len(emitted') = Len(emitted) + 1
            /\ DOMAIN emitted = 1..Len(emitted) /\ DOMAIN emitted' = 1..(Len(emitted) + 1)
            /\ \A k \in 1..Len(emitted) : emitted'[k] = emitted[k]
            /\ emitted'[Len(emitted) + 1] = a.record /\ Len(emitted) \in Nat
        BY <2>2, <2>4, <4>1
      <4>3. seen' = {emitted'[k].id : k \in DOMAIN emitted'}
        <5>1. seen = {emitted[k].id : k \in 1..Len(emitted)}
          BY <2>4, <4>2
        <5> QED
          BY <4>1, <4>2, <5>1
      <4>4. IsFiniteSet(seen') /\ Cardinality(seen') = Cardinality(seen) + 1
        BY <2>4, <3>2, <4>1, FS_AddElement
      <4>5. Cardinality(seen) = Len(emitted) /\ Len(emitted) < MaxEntries /\ MaxEntries \in Nat
        BY <2>4, Zenon
      <4>6. Cardinality(seen') = Len(emitted') /\ Len(emitted') <= MaxEntries
        BY <4>2, <4>4, <4>5
      <4> QED
        BY <4>2, <4>3, <4>4, <4>6, Zenon
    <3> QED
      BY <3>1, <3>2
  <2>6. scanned' \subseteq Named /\ next_id' \in Named \union {FIRST, LAST}
    BY <1>1, <1>5, <2>2, <2>3 DEF ScanTyped
  <2>7. ReadBudget' = ReadBudget /\ pc' = "next" /\ UNCHANGED outcome
    BY <1>5 DEF ReadBudget
  <2> QED
    BY <1>1, <1>2, <2>5, <2>6, <2>7 DEF ScanTyped
<1> QED
  BY <1>3, <1>4, <1>5

\* The log changes, and what is owed with it.
LEMMA SelTypedLogs ==
  ASSUME SelTyped, Outside
  PROVE  SelTyped'
<1>1. /\ UNCHANGED <<faulty, has_reservation, pc, next_id, seen, scanned, remaining_reads, restarts, retry, emitted, outcome>>
      /\ UNCHANGED <<previous, info, batch, known, stale>>
      /\ changes < MaxChanges /\ changes' = changes + 1
  BY DEF Outside, fixed, iterator, UnchangedPoller, Logged, LogEvent, DeleteEntry, ClearLog, Erase, Changeable
<1>2. ScanTyped'
  <2>1. ReadBudget' = ReadBudget
    BY DEF ReadBudget
  <2> QED
    BY <1>1, <2>1 DEF SelTyped, ScanTyped
<1>3. /\ log \in Seq(Records) /\ Len(log) <= Capacity /\ Len(log) \in Nat
      /\ changes \in 0..MaxChanges /\ events \in 0..(Capacity + changes)
      /\ next_number \in 1..(Capacity + changes + 1)
      /\ last_add_time \in 0..changes /\ last_del_time \in 0..changes
      /\ Capacity \in Nat \ {0} /\ MaxChanges \in Nat
      /\ owed \subseteq 1..events
  BY SelSizes DEF SelTyped, LogTyped, PollTyped
<1>4. CASE Logged
  <2>1. events' = events + 1 /\ owed' \subseteq owed \union {events'} /\ UNCHANGED <<last_del_time, reserved>>
    BY <1>4 DEF Logged, LogEvent
  <2>2. owed' \subseteq 1..events' /\ events' \in 0..(Capacity + changes')
    BY <1>1, <1>3, <2>1
  <2>3. /\ log' \in Seq(Records) /\ Len(log') <= Capacity /\ next_number' \in 1..(Capacity + changes' + 1)
        /\ last_add_time' \in 0..changes' /\ overflow' \in BOOLEAN
    <3>1. CASE /\ Len(log) < Capacity
               /\ \E c \in Contents : log' = Append(log, [id |-> next_number, raw |-> c, serial |-> events'])
               /\ next_number' = next_number + 1 /\ last_add_time' = changes' /\ UNCHANGED overflow
      <4>1. PICK c \in Contents : log' = Append(log, [id |-> next_number, raw |-> c, serial |-> events'])
        BY <3>1
      <4>2. next_number \in Numbers /\ events' \in Numbers
        BY <1>1, <1>3, <2>1 DEF Numbers
      <4>3. [id |-> next_number, raw |-> c, serial |-> events'] \in Records
        BY <4>2 DEF Records
      <4>4. log' \in Seq(Records) /\ Len(log') = Len(log) + 1
        BY <1>3, <4>1, <4>3
      <4>5. overflow' \in BOOLEAN
        BY <3>1 DEF SelTyped, LogTyped
      <4> QED
        BY <1>1, <1>3, <3>1, <4>4, <4>5
    <3>2. CASE overflow' = TRUE /\ UNCHANGED <<log, next_number, last_add_time>>
      BY <1>1, <1>3, <3>2
    <3> QED
      BY <1>4, <3>1, <3>2 DEF Logged, LogEvent
  <2>4. LogTyped'
    <3>1. reserved' \in BOOLEAN
      BY <2>1 DEF SelTyped, LogTyped
    <3> QED
      BY <1>1, <1>3, <2>1, <2>2, <2>3, <3>1 DEF LogTyped
  <2>5. PollTyped'
    BY <1>1, <2>2 DEF SelTyped, PollTyped, NoInfo, Infos, Numbers
  <2> QED
    BY <1>2, <2>4, <2>5 DEF SelTyped
<1>5. CASE (DeleteEntry \/ ClearLog) /\ UNCHANGED owed
  <2>1. /\ log' \in Seq(Records) /\ Len(log') <= Capacity /\ next_number' \in 1..(Capacity + changes' + 1)
        /\ last_del_time' = changes' /\ overflow' = FALSE /\ reserved' = FALSE /\ UNCHANGED <<events, last_add_time>>
    <3>1. CASE DeleteEntry
      <4>1. PICK k \in DOMAIN log : Erase(SubSeq(log, 1, k - 1) \o SubSeq(log, k + 1, Len(log)), next_number)
        BY <3>1 DEF DeleteEntry
      <4>2. k \in 1..Len(log)
        BY <1>3
      <4>3. log' = SubSeq(log, 1, k - 1) \o SubSeq(log, k + 1, Len(log))
        BY <4>1 DEF Erase
      <4>4. log' \in Seq(Records) /\ Len(log') = Len(log) - 1
        BY <1>3, <4>2, <4>3, Removed
      <4>5. /\ next_number' = next_number /\ last_del_time' = changes' /\ overflow' = FALSE /\ reserved' = FALSE
            /\ UNCHANGED <<events, last_add_time>>
        BY <4>1 DEF Erase
      <4> QED
        BY <1>1, <1>3, <4>4, <4>5
    <3>2. CASE ClearLog
      <4>1. /\ log' = <<>> /\ next_number' = 1 /\ last_del_time' = changes' /\ overflow' = FALSE /\ reserved' = FALSE
            /\ UNCHANGED <<events, last_add_time>>
        BY <3>2 DEF ClearLog, Erase
      <4> QED
        BY <1>1, <1>3, <4>1
    <3> QED
      BY <1>5, <3>1, <3>2
  <2>2. LogTyped'
    <3>1. overflow' \in BOOLEAN /\ reserved' \in BOOLEAN
      BY <2>1, Zenon
    <3> QED
      BY <1>1, <1>3, <2>1, <3>1 DEF LogTyped
  <2>3. PollTyped'
    BY <1>1, <1>5, <2>1 DEF SelTyped, PollTyped, NoInfo, Infos, Numbers
  <2> QED
    BY <1>2, <2>2, <2>3 DEF SelTyped
<1> QED
  BY <1>4, <1>5 DEF Outside

\* A scan ends, and is compared with the one before.
LEMMA SelTypedEnds ==
  ASSUME SelTyped, EndScan
  PROVE  SelTyped'
<1>1. /\ UNCHANGED <<log, next_number, events, changes, last_add_time, last_del_time, overflow, reserved, faulty, has_reservation>>
      /\ UNCHANGED <<next_id, seen, scanned, remaining_reads, restarts, retry, emitted>>
      /\ pc' = "idle"
  BY DEF EndScan, bmc, fixed, iterator
<1>2. /\ outcome' \in {"refused", "scanned"}
      /\ \/ UNCHANGED <<previous, info, known, stale, owed>>
         \/ /\ info' = SelInfo /\ stale' \subseteq previous'
            /\ \/ known' = Serials(EmittedSet) /\ UNCHANGED owed
               \/ known' = known \union Serials(NewIn(EmittedSet)) /\ owed' \subseteq owed
  BY DEF EndScan, UnchangedPoller, Baseline, PollOnce, Accept
<1>3. LogTyped'
  BY <1>1 DEF SelTyped, LogTyped
<1>4. ScanTyped'
  <2>1. ReadBudget' = ReadBudget
    BY DEF ReadBudget
  <2> QED
    BY <1>1, <1>2, <2>1 DEF SelTyped, ScanTyped
<1>5. PollTyped'
  <2>1. Serials(EmittedSet) \subseteq Numbers /\ Serials(NewIn(EmittedSet)) \subseteq Numbers
    <3>1. EmittedSet \subseteq Entries
      BY DEF SelTyped, ScanTyped, EmittedSet
    <3> QED
      BY <3>1 DEF Serials, NewIn, Entries
  <2>2. SelInfo \in Infos
    BY SelSizes DEF SelTyped, LogTyped, SelInfo, Infos
  <2>3. PollTyped
    BY DEF SelTyped
  <2> QED
    BY <1>1, <1>2, <2>1, <2>2, <2>3 DEF PollTyped, NoInfo, Infos, Numbers
<1> QED
  BY <1>3, <1>4, <1>5 DEF SelTyped

\* Every step of the log readers keeps the types.
LEMMA SelTypedStep == SelTyped /\ [Next]_vars => SelTyped'
<1> SUFFICES ASSUME SelTyped, [Next]_vars PROVE SelTyped'
  OBVIOUS
<1>1. CASE BeginScan /\ UnchangedPoller /\ UNCHANGED owed
  <2>1. /\ UNCHANGED <<log, next_number, events, changes, last_add_time, last_del_time, overflow, reserved, faulty, has_reservation>>
        /\ UNCHANGED <<previous, info, known, stale, owed>>
        /\ pc' = "info" /\ next_id' = FIRST /\ seen' = {} /\ scanned' = {} /\ remaining_reads' = ReadBudget
        /\ restarts' = 0 /\ retry' = 0 /\ emitted' = <<>> /\ outcome' = "none"
    BY <1>1 DEF BeginScan, bmc, fixed, UnchangedPoller
  <2>2. LogTyped' /\ PollTyped'
    BY <2>1 DEF SelTyped, LogTyped, PollTyped, NoInfo, Infos, Numbers
  <2>3. ScanTyped'
    <3>1. IsFiniteSet(seen') /\ Cardinality(seen') = 0
      BY <2>1, FS_EmptySet
    <3>2. emitted' \in Seq(Entries) /\ Len(emitted') = 0 /\ DOMAIN emitted' = {}
      BY <2>1
    <3>3. ReadBudget' = ReadBudget
      BY DEF ReadBudget
    <3> QED
      BY <2>1, <3>1, <3>2, <3>3, SelSizes DEF SelTyped, ScanTyped
  <2> QED
    BY <2>2, <2>3 DEF SelTyped
<1>2. CASE EndScan
  BY <1>2, SelTypedEnds
<1>3. CASE Walk /\ UnchangedPoller /\ UNCHANGED owed
  <2>1. ScanTyped'
    BY <1>3, SelTypedWalks, SelTypedReads DEF Walk
  <2>2. /\ UNCHANGED <<log, next_number, events, changes, last_add_time, last_del_time, overflow>>
        /\ reserved' \in {reserved, TRUE}
    BY <1>3 DEF Walk, FirstInfo, Reserve, CheckNext, ReadLimit, ReadCancelled, ReadAbsent, InfoAfterAbsent, ReadEntry,
       CommandFails, Quiet, bmc, Fail, Finish
  <2>3. UNCHANGED <<previous, info, known, stale, owed>>
    BY <1>3 DEF UnchangedPoller
  <2>4. LogTyped'
    BY <2>2 DEF SelTyped, LogTyped
  <2>5. PollTyped'
    BY <2>2, <2>3 DEF SelTyped, PollTyped, NoInfo, Infos, Numbers
  <2> QED
    BY <2>1, <2>4, <2>5 DEF SelTyped
<1>4. CASE Outside
  BY <1>4, SelTypedLogs
<1>5. CASE UNCHANGED vars
  <2>1. /\ UNCHANGED <<log, next_number, events, changes, last_add_time, last_del_time, overflow, reserved, faulty, has_reservation>>
        /\ UNCHANGED <<pc, outcome, next_id, seen, scanned, remaining_reads, restarts, retry, emitted>>
        /\ UNCHANGED <<previous, info, known, stale, owed>>
    BY <1>5 DEF vars, walkVars, bmc, fixed, iterator
  <2>2. ReadBudget' = ReadBudget
    BY DEF ReadBudget
  <2>3. LogTyped'
    BY <2>1 DEF SelTyped, LogTyped
  <2>4. ScanTyped'
    BY <2>1, <2>2 DEF SelTyped, ScanTyped
  <2>5. PollTyped'
    BY <2>1 DEF SelTyped, PollTyped, NoInfo, Infos, Numbers
  <2> QED
    BY <2>3, <2>4, <2>5 DEF SelTyped
<1> QED
  BY <1>1, <1>2, <1>3, <1>4, <1>5 DEF Next, Scan

\* The types of SelWalk and SelPoll.
LEMMA SelTypedMeans == SelTyped => TypeOK
<1> SUFFICES ASSUME SelTyped PROVE TypeOK
  OBVIOUS
<1>1. LogSet \subseteq Records
  BY DEF SelTyped, LogTyped, LogSet
<1>2. /\ next_number \in Numbers \union {MaxChanges + Capacity + 1}
      /\ changes \in 0 .. MaxChanges /\ events \in 0 .. MaxChanges + Capacity
  BY SelSizes DEF SelTyped, LogTyped, Numbers
<1>3. {overflow, reserved, faulty, has_reservation} \subseteq BOOLEAN
  BY DEF SelTyped, LogTyped, ScanTyped
<1>4. next_id \in Numbers \union {FIRST, 1, 2, LAST} /\ scanned \subseteq Numbers \union {1, 2}
  BY DEF SelTyped, ScanTyped, Named
<1> QED
  BY <1>1, <1>2, <1>3, <1>4 DEF TypeOK, SelTyped, LogTyped, ScanTyped, PollTyped

-----------------------------------------------------------------------------
(* Ids that a record may have in an answer, and records of the repository. *)
SdrIds == Sdr!Ids \union {Sdr!FIRST, 1, 2, Sdr!LAST}
Stored == [id : Sdr!Ids, version : Sdr!Versions, length : Bodies]
SdrTyped ==
    /\ at \in {"source", "info", "reserve", "next", "read", "done"}
    /\ result \in {"none", "end", "no_source", "failed", "read", "reservation_lost", "offset", "protocol", "parse"}
    /\ records \in Seq(Stored) /\ edits \in 0..Edits
    /\ read_limit \in 1..Chunk /\ attempt \in 0..3
    /\ next_record \in SdrIds /\ successor \in SdrIds \union {Sdr!NoId}
    /\ visited \subseteq SdrIds \ {Sdr!LAST} /\ parts \subseteq Sdr!Versions

\* The types hold before the first request.
LEMMA SdrTypedStart == Sdr!Init => SdrTyped
<1> SUFFICES ASSUME Sdr!Init PROVE SdrTyped
  OBVIOUS
<1>0. PICK n \in 0..Room :
        \E body \in [1..n -> Bodies] : records = [k \in 1..n |-> [id |-> k, version |-> 0, length |-> body[k]]]
  BY DEF Sdr!Init
<1>1. PICK body \in [1..n -> Bodies] : records = [k \in 1..n |-> [id |-> k, version |-> 0, length |-> body[k]]]
  BY <1>0
<1>2. Room \in Nat /\ Edits \in Nat /\ Chunk \in Nat \ {0}
  BY ReadingAssumption
<1>3. \A k \in 1..n : [id |-> k, version |-> 0, length |-> body[k]] \in Stored
  <2>1. \A k \in 1..n : body[k] \in Bodies /\ k \in Sdr!Ids /\ 0 \in Sdr!Versions
    BY <1>2 DEF Sdr!Ids, Sdr!Versions
  <2> QED
    BY <2>1 DEF Stored
<1>4. records \in Seq(Stored)
  BY <1>1, <1>3
<1>5. /\ edits = 0 /\ at = "source" /\ next_record = Sdr!FIRST /\ read_limit = Chunk /\ visited = {} /\ parts = {}
      /\ attempt = 0 /\ successor = Sdr!NoId /\ result = "none"
  BY DEF Sdr!Init
<1> QED
  BY <1>2, <1>4, <1>5 DEF SdrTyped, SdrIds

\* What an answer to Get SDR names.
LEMMA SdrAnswers ==
  ASSUME SdrTyped, NEW id, NEW n, NEW a \in Sdr!Answers(id, n)
  PROVE  a.next \in SdrIds /\ a.from.version \in Sdr!Versions
<1>1. CASE broken
  <2>1. a \in [count : {n, n - 1}, from : [id : {Sdr!FIRST, 1, Sdr!LAST}, version : {0}, length : Bodies],
               next : {Sdr!FIRST, 1, 2, Sdr!LAST}]
    BY <1>1 DEF Sdr!Answers
  <2>2. a.next \in {Sdr!FIRST, 1, 2, Sdr!LAST} /\ a.from \in [id : {Sdr!FIRST, 1, Sdr!LAST}, version : {0}, length : Bodies]
    BY <2>1
  <2>3. a.from.version = 0 /\ Edits \in Nat
    BY <2>2, ReadingAssumption
  <2> QED
    BY <2>2, <2>3 DEF SdrIds, Sdr!Versions
<1>2. CASE ~broken
  <2>1. PICK k \in Sdr!Place(id) : a = [count |-> n, from |-> records[k], next |-> Sdr!NextOf(k)]
    BY <1>2 DEF Sdr!Answers
  <2>2. k \in 1..Len(records) /\ records \in Seq(Stored)
    BY DEF Sdr!Place, SdrTyped
  <2>3. records[k] \in Stored /\ (k # Len(records) => records[k + 1] \in Stored)
    BY <2>2
  <2> QED
    BY <2>1, <2>3 DEF Sdr!NextOf, Stored, SdrIds
<1> QED
  BY <1>1, <1>2

\* Every step of the repository walk keeps the types.
LEMMA SdrTypedStep == SdrTyped /\ SdrInv /\ Sdr!Next => SdrTyped'
<1> SUFFICES ASSUME SdrTyped, SdrInv, Sdr!Next PROVE SdrTyped'
  OBVIOUS
<1>1. Sdr!Ids' = Sdr!Ids /\ SdrIds' = SdrIds /\ Stored' = Stored
  BY DEF Sdr!Ids, SdrIds, Stored, Sdr!Versions
<1>2. ASSUME UNCHANGED <<records, edits, read_limit>>, attempt' \in 0..3, next_record' \in SdrIds, successor' \in SdrIds \union {Sdr!NoId},
             visited' \subseteq SdrIds \ {Sdr!LAST}, parts' \subseteq Sdr!Versions,
             at' \in {"source", "info", "reserve", "next", "read", "done"},
             result' \in {result, "end", "no_source", "failed", "read", "reservation_lost", "offset", "protocol", "parse"}
      PROVE  SdrTyped'
  BY <1>1, <1>2 DEF SdrTyped
<1>3. /\ attempt \in 0..3 /\ next_record \in SdrIds /\ successor \in SdrIds \union {Sdr!NoId} /\ read_limit \in 1..Chunk
      /\ visited \subseteq SdrIds \ {Sdr!LAST} /\ parts \subseteq Sdr!Versions /\ edits \in 0..Edits /\ records \in Seq(Stored)
      /\ at \in {"source", "info", "reserve", "next", "read", "done"}
  BY DEF SdrTyped
<1>4. CASE Sdr!Source \/ Sdr!Info \/ Sdr!CommandFails \/ Sdr!Absent \/ Sdr!OffsetOutOfRange
  <2>1. /\ UNCHANGED <<records, edits, read_limit, attempt, next_record, successor, visited, parts>>
        /\ at' \in {"info", "reserve", "next", "done"} /\ result' \in {result, "end", "no_source", "failed", "read", "offset"}
    BY <1>4 DEF Sdr!Source, Sdr!Info, Sdr!CommandFails, Sdr!Absent, Sdr!OffsetOutOfRange, Sdr!Fails, Sdr!Stop, Sdr!Quiet, Sdr!iterator, Sdr!reading
  <2> QED
    BY <1>2, <1>3, <2>1
<1>5. CASE Sdr!Reserve
  <2>1. /\ UNCHANGED <<records, edits, read_limit, attempt, next_record, visited, result>>
        /\ at' \in {"read", "next"} /\ successor' = Sdr!NoId /\ parts' = {}
    BY <1>5 DEF Sdr!Reserve, Sdr!Renew, Sdr!NothingRead, Sdr!Quiet
  <2> QED
    BY <1>2, <1>3, <2>1
<1>6. CASE Sdr!CallNext
  <2>1. CASE UNCHANGED <<attempt, next_record, successor, visited, parts, read_limit>> /\ at' = "done" /\ result' \in {"end", "protocol"}
    BY <1>2, <1>3, <1>6, <2>1 DEF Sdr!CallNext, Sdr!Quiet
  <2>2. CASE /\ next_record # Sdr!LAST /\ visited' = visited \union {next_record} /\ attempt' = 0 /\ successor' = Sdr!NoId
             /\ parts' = {} /\ at' = "read" /\ UNCHANGED <<next_record, read_limit, result>>
    <3>1. UNCHANGED <<records, edits>>
      BY <1>6 DEF Sdr!CallNext, Sdr!Quiet
    <3> QED
      BY <1>2, <1>3, <2>2, <3>1
  <2> QED
    BY <1>6, <2>1, <2>2 DEF Sdr!CallNext, Sdr!NothingRead, Sdr!Fails, Sdr!Stop, Sdr!iterator, Sdr!reading
<1>7. CASE Sdr!TooMany
  <2>1. /\ UNCHANGED <<records, edits, attempt, next_record, successor, visited, parts>>
        /\ at' \in {at, "done"} /\ result' \in {result, "read"}
        /\ UNCHANGED read_limit \/ (Sdr!Requested > 1 /\ read_limit' = Sdr!Halved)
    BY <1>7 DEF Sdr!TooMany, Sdr!Asks, Sdr!Fails, Sdr!Stop, Sdr!Quiet, Sdr!iterator, Sdr!reading
  <2>2. read_limit' \in 1..Chunk
    <3>1. Sdr!Wanted \in Int /\ Chunk \in Nat
      BY ReadingAssumption DEF Sdr!Wanted, SdrInv, SdrCounts
    <3>2. Sdr!Requested \in Int /\ Sdr!Requested <= read_limit
      BY <1>3, <3>1 DEF Sdr!Requested
    <3> QED
      BY <1>3, <2>1, <3>1, <3>2 DEF Sdr!Halved
  <2> QED
    BY <1>1, <1>3, <2>1, <2>2 DEF SdrTyped
<1>8. CASE Sdr!Cancelled
  <2>1. /\ UNCHANGED <<records, edits, read_limit, next_record, successor, visited, parts>>
        /\ \/ attempt < 3 /\ attempt' = attempt + 1 /\ at' = "reserve" /\ UNCHANGED result
           \/ attempt' = attempt /\ at' = "done" /\ result' = "reservation_lost"
    BY <1>8, Zenon DEF Sdr!Cancelled, Sdr!Asks, Sdr!Fails, Sdr!Stop, Sdr!Quiet, Sdr!iterator, Sdr!reading
  <2>2. attempt' \in 0..3
    BY <1>3, <2>1
  <2> QED
    BY <1>2, <1>3, <2>1, <2>2
<1>9. CASE Sdr!Read
  <2>1. UNCHANGED <<records, edits>> /\ at = "read"
    BY <1>9 DEF Sdr!Read, Sdr!Asks, Sdr!Quiet
  <2>2. PICK a \in Sdr!Answers(Sdr!Target, Sdr!Requested) :
          \/ Sdr!Fails("protocol")
          \/ /\ UNCHANGED <<visited, read_limit, attempt>> /\ Sdr!Accept(a)
             /\ \/ at' = "done" /\ result' \in {"protocol", "parse"} /\ UNCHANGED next_record
                \/ next_record' = successor' /\ at' = "next" /\ UNCHANGED result
                \/ UNCHANGED <<at, next_record, result>>
    BY <1>9 DEF Sdr!Read, Sdr!Stop
  <2>3. CASE Sdr!Fails("protocol")
    <3>1. UNCHANGED <<read_limit, attempt, next_record, successor, visited, parts>> /\ at' = "done" /\ result' = "protocol"
      BY <2>3 DEF Sdr!Fails, Sdr!Stop, Sdr!iterator, Sdr!reading
    <3> QED
      BY <1>2, <1>3, <2>1, <3>1
  <2>4. CASE /\ UNCHANGED <<visited, read_limit, attempt>> /\ Sdr!Accept(a)
             /\ \/ at' = "done" /\ result' \in {"protocol", "parse"} /\ UNCHANGED next_record
                \/ next_record' = successor' /\ at' = "next" /\ UNCHANGED result
                \/ UNCHANGED <<at, next_record, result>>
    <3>1. /\ parts' = parts \union {a.from.version}
          /\ successor' = IF successor = Sdr!NoId THEN a.next ELSE successor
      BY <2>4 DEF Sdr!Accept
    <3>2. a.next \in SdrIds /\ a.from.version \in Sdr!Versions
      BY SdrAnswers
    <3>3. successor' \in SdrIds /\ parts' \subseteq Sdr!Versions
      BY <1>3, <3>1, <3>2
    <3> QED
      BY <1>2, <1>3, <2>1, <2>4, <3>3
  <2> QED
    BY <2>2, <2>3, <2>4
<1>10. CASE Sdr!Change
  <2>1. /\ UNCHANGED <<read_limit, attempt, next_record, successor, visited, parts, at, result>>
        /\ edits < Edits /\ edits' = edits + 1
    BY <1>10 DEF Sdr!Change, Sdr!Changed, Sdr!iterator, Sdr!reading
  <2>2. edits' \in 0..Edits /\ edits + 1 \in Sdr!Versions
    BY <1>3, <2>1, ReadingAssumption DEF Sdr!Versions
  <2>3. records' \in Seq(Stored)
    <3>1. ASSUME NEW k \in DOMAIN records, NEW n \in Bodies,
                 records' = [records EXCEPT ![k].version = edits + 1, ![k].length = n]
          PROVE  records' \in Seq(Stored)
      <4>1. k \in 1..Len(records) /\ records[k] \in Stored
        BY <1>3, <3>1
      <4> DEFINE r == [[records[k] EXCEPT !.version = edits + 1] EXCEPT !.length = n]
      <4>2. r \in Stored
        BY <2>2, <4>1 DEF Stored
      <4>3. records' = [records EXCEPT ![k] = r]
        BY <1>3, <3>1, <4>1
      <4> HIDE DEF r
      <4> QED
        BY <1>3, <4>1, <4>2, <4>3
    <3>2. ASSUME NEW k \in DOMAIN records, records' = Sdr!Without(k) PROVE records' \in Seq(Stored)
      <4>1. k \in 1..Len(records)
        BY <1>3
      <4> QED
        BY <1>3, <3>2, <4>1, Removed DEF Sdr!Without
    <3>3. ASSUME NEW id \in Sdr!Ids, NEW n \in Bodies, records' = Append(records, [id |-> id, version |-> edits + 1, length |-> n])
          PROVE  records' \in Seq(Stored)
      <4>1. [id |-> id, version |-> edits + 1, length |-> n] \in Stored
        BY <2>2, <3>3 DEF Stored
      <4> QED
        BY <1>3, <3>3, <4>1
    <3> QED
      BY <1>10, <3>1, <3>2, <3>3 DEF Sdr!Change, Sdr!Changed
  <2> QED
    BY <1>1, <1>3, <2>1, <2>2, <2>3 DEF SdrTyped, Sdr!Versions
<1> QED
  BY <1>4, <1>5, <1>6, <1>7, <1>8, <1>9, <1>10 DEF Sdr!Next, Sdr!Step

\* The types of SdrWalk.
LEMMA SdrTypedMeans == SdrTyped => Sdr!TypeOK
  BY DEF SdrTyped, SdrIds, Sdr!TypeOK

-----------------------------------------------------------------------------
(* A reader takes no more from a BMC that answers anything than the total  *)
(* it was told, or than the most it takes.                                 *)
Bound == Pages!Largest(Most + 1, Longest)
Limited ==
    /\ page \in Nat /\ total \in 0..Bound /\ got \in Seq(PageItems) /\ version \in Nat
    /\ at = "first" => got = <<>>
    /\ reader \in {"fru", "spd", "string", "ids", "lcd"} => Len(got) <= total
    /\ reader = "lcd" /\ page = 0 => got = <<>>
    /\ reader \in {"nac", "file"} => Len(got) <= Most
    /\ reader = "value" => Len(got) <= length
PagesTyped ==
    /\ at \in {"first", "page", "done"}
    /\ result \in {"none", "ok", "absent", "protocol", "failed", "limit"}
    /\ reader \in Pages!Readers
    /\ unit \in {1, 2} /\ chunk_size \in 1..Page /\ length \in 0..Longest
    /\ broken => Limited

\* The largest count a BMC gives is above everything that is taken.
LEMMA PageBound == Bound \in Nat /\ Most + 1 <= Bound /\ Longest <= Bound /\ Most \in Nat /\ Longest \in Nat
  BY ReadingAssumption DEF Bound, Pages!Largest

\* The types hold before the first request.
LEMMA PagesTypedStart == Pages!Init => PagesTyped
<1> SUFFICES ASSUME Pages!Init PROVE PagesTyped
  OBVIOUS
<1>1. /\ at = "first" /\ result = "none" /\ unit \in {1, 2} /\ version = 0 /\ page = 0 /\ total = 0 /\ got = <<>>
  BY DEF Pages!Init
<1>2. Page \in Nat \ {0} /\ Longest \in Nat
  BY ReadingAssumption
<1>3. chunk_size \in 1..Page /\ length \in 0..Longest
  BY <1>2 DEF Pages!Init
<1> QED
  BY <1>1, <1>3, PageBound DEF PagesTyped, Limited, Pages!Init

\* What a BMC that answers anything sends.
LEMMA PagesJunk ==
  ASSUME NEW n \in Nat
  PROVE  Pages!Junk(n) \in Seq(PageItems) /\ Len(Pages!Junk(n)) = n
  BY DEF Pages!Junk, PageItems

\* As much of a page as the reader takes.
LEMMA PagesTakes ==
  ASSUME NEW t \in Seq(PageItems), NEW k \in 0..Len(t)
  PROVE  SubSeq(t, 1, k) \in Seq(PageItems) /\ Len(SubSeq(t, 1, k)) = k
  OBVIOUS

\* A page of such a BMC.
LEMMA PagesLimits ==
  ASSUME PagesTyped, broken, Pages!ReadPage
  PROVE  Limited' /\ at' \in {"page", "done"} /\ result' \in {result, "ok", "protocol"} /\ UNCHANGED chunk_size
<1>1. Limited /\ at = "page" /\ Pages!Paged /\ chunk_size \in 1..Page /\ UNCHANGED <<broken, reader, unit, length, version>>
  BY DEF PagesTyped, Pages!ReadPage, Pages!Quiet, Pages!call, Pages!target
<1>2. PICK a \in Pages!Answers(Pages!Want) :
        \/ /\ Pages!Acceptable(a)
           /\ got' = got \o SubSeq(a.items, 1, Pages!Taken(a))
           /\ total' = IF reader = "lcd" /\ page = 0 THEN a.total ELSE total
           /\ page' = IF Pages!Counted THEN page + 1 ELSE page
           /\ UNCHANGED chunk_size
           /\ IF reader \in {"nac", "file"} /\ a.last THEN at' = "done" /\ result' = "ok" ELSE UNCHANGED <<at, result>>
        \/ Pages!Refuse
  BY Zenon DEF Pages!ReadPage, Pages!Stop
<1>3. PICK t \in {0, 1, Most, Most + 1}, n \in {0, 1, Page, Page + 1}, e \in {page, page + 1}, l \in BOOLEAN :
       a = Pages!Answer(t, Pages!Junk(n), e, l)
  BY DEF Pages!Answers
<1>4. n \in Nat /\ t \in Nat /\ t <= Bound /\ Page \in Nat
  BY ReadingAssumption, PageBound
<1>5. a.items \in Seq(PageItems) /\ Len(a.items) = n /\ a.total = t
  BY <1>3, <1>4, PagesJunk DEF Pages!Answer
<1>6. CASE Pages!Refuse
  <2>1. at' = "done" /\ result' = "protocol" /\ UNCHANGED <<chunk_size, total, page, got>>
    BY <1>6 DEF Pages!Refuse, Pages!Stop, Pages!progress
  <2> QED
    BY <1>1, <2>1 DEF Limited, Bound
<1>7. CASE /\ Pages!Acceptable(a)
           /\ got' = got \o SubSeq(a.items, 1, Pages!Taken(a))
           /\ total' = IF reader = "lcd" /\ page = 0 THEN a.total ELSE total
           /\ page' = IF Pages!Counted THEN page + 1 ELSE page
           /\ UNCHANGED chunk_size
           /\ IF reader \in {"nac", "file"} /\ a.last THEN at' = "done" /\ result' = "ok" ELSE UNCHANGED <<at, result>>
  <2> DEFINE sum == IF reader = "lcd" /\ page = 0 THEN t ELSE total
  <2>1. /\ got \in Seq(PageItems) /\ Len(got) \in Nat /\ page \in Nat /\ total \in Nat /\ total <= Bound /\ Bound \in Nat
        /\ reader \in {"fru", "spd", "string", "ids", "lcd"} => Len(got) <= total
        /\ reader = "lcd" /\ page = 0 => Len(got) = 0
    BY <1>1, PageBound DEF Limited
  <2>2. sum \in 0..Bound /\ total' = sum
    BY <1>4, <1>5, <1>7, <2>1
  <2>3. /\ Pages!Taken(a) \in 0..n
        /\ reader # "lcd" => Pages!Taken(a) = n
        /\ reader = "lcd" => Pages!Taken(a) <= sum - Len(got)
    BY <1>4, <1>5, <2>1 DEF Pages!Taken, Pages!Least
  <2>4. got' \in Seq(PageItems) /\ Len(got') = Len(got) + Pages!Taken(a)
    <3>1. SubSeq(a.items, 1, Pages!Taken(a)) \in Seq(PageItems) /\ Len(SubSeq(a.items, 1, Pages!Taken(a))) = Pages!Taken(a)
      BY <1>5, <2>3, PagesTakes
    <3> QED
      BY <1>7, <2>1, <3>1, Joined
  <2>5. /\ reader \in {"fru", "spd", "string", "ids"} => Len(got) + n <= total
        /\ reader \in {"nac", "file"} => Len(got) + n <= Most
    <3>1. CASE reader \in {"fru", "spd", "string"}
      <4>1. Pages!Want <= total - Len(got) /\ n = Pages!Want
        BY <1>1, <1>4, <1>5, <1>7, <2>1, <3>1 DEF Pages!Acceptable, Pages!Want, Pages!Least
      <4> QED
        BY <1>4, <2>1, <3>1, <4>1
    <3>2. CASE reader = "ids"
      <4>1. n <= Pages!Least(Page, total - Len(got))
        BY <1>5, <1>7, <3>2 DEF Pages!Acceptable, Pages!Fits
      <4> QED
        BY <1>4, <2>1, <3>2, <4>1 DEF Pages!Least
    <3>3. CASE reader = "nac"
      BY <1>5, <1>7, <3>3 DEF Pages!Acceptable
    <3>4. CASE reader = "file"
      BY <1>5, <1>7, <3>4 DEF Pages!Acceptable
    <3> QED
      BY <3>1, <3>2, <3>3, <3>4
  <2>6. reader # "value"
    BY <1>1 DEF Pages!Paged
  <2>7. page' \in Nat /\ (reader = "lcd" => page' # 0) /\ UNCHANGED <<reader, length, version>> /\ version \in Nat
    BY <1>1, <1>7, <2>1 DEF Pages!Counted, Limited
  <2>8. /\ reader \in {"fru", "spd", "string", "ids", "lcd"} => Len(got') <= sum
        /\ reader \in {"nac", "file"} => Len(got') <= Most
    <3> HIDE DEF sum
    <3>1. reader \in {"fru", "spd", "string", "ids"} => sum = total
      BY DEF sum
    <3> QED
      BY <1>4, <2>1, <2>2, <2>3, <2>4, <2>5, <3>1
  <2>9. at' \in {"page", "done"} /\ result' \in {result, "ok"} /\ Bound' = Bound
    BY <1>1, <1>7 DEF Bound
  <2> HIDE DEF sum
  <2> QED
    BY <1>7, <2>2, <2>4, <2>6, <2>7, <2>8, <2>9 DEF Limited
<1> QED
  BY <1>2, <1>6, <1>7

\* Every step of the paged readers keeps the types.
LEMMA PagesTypedStep == PagesTyped /\ Pages!Next => PagesTyped'
<1> SUFFICES ASSUME PagesTyped, Pages!Next PROVE PagesTyped'
  OBVIOUS
<1>1. UNCHANGED <<broken, reader, unit, length>> /\ Pages!Readers' = Pages!Readers
  BY DEF Pages!Next, Pages!Step, Pages!FirstCommand, Pages!ReadPage, Pages!Shrink, Pages!PollValue, Pages!Finish, Pages!Fail,
     Pages!Rewrite, Pages!SelectElsewhere, Pages!Quiet, Pages!target, Pages!call, Pages!Readers
<1>2. /\ at \in {"first", "page", "done"} /\ unit \in {1, 2} /\ chunk_size \in 1..Page /\ length \in 0..Longest
      /\ result \in {"none", "ok", "absent", "protocol", "failed", "limit"} /\ Page \in Nat /\ (broken => Limited)
  BY ReadingAssumption DEF PagesTyped
<1>3. ASSUME UNCHANGED <<total, page, got, version>>, at' \in {"page", "done"} \/ UNCHANGED at, chunk_size' \in 1..Page,
             result' \in {result, "ok", "absent", "protocol", "failed", "limit"}
      PROVE  PagesTyped'
  <2>1. broken' => Limited'
    BY <1>1, <1>2, <1>3 DEF Limited, Bound
  <2> QED
    BY <1>1, <1>2, <1>3, <2>1 DEF PagesTyped
<1>4. CASE Pages!FirstCommand
  <2>1. at = "first" /\ UNCHANGED <<chunk_size, version>>
    BY <1>4 DEF Pages!FirstCommand, Pages!FirstAnswer, Pages!Refuse, Pages!progress, Pages!Quiet, Pages!target
  <2>2. CASE UNCHANGED <<total, page, got>> /\ at' \in {"page", "done"} /\ result' \in {result, "failed", "protocol"}
    BY <1>2, <1>3, <2>1, <2>2
  <2>3. CASE reader = "spd" /\ total' = Longest /\ at' = "page" /\ UNCHANGED <<page, got, result>>
    <3>1. broken => Limited'
      BY <1>1, <1>2, <2>1, <2>3, PageBound DEF Limited, Bound
    <3> QED
      BY <1>1, <1>2, <2>1, <2>3, <3>1 DEF PagesTyped
  <2>4. ASSUME reader \in {"fru", "string", "ids"}, NEW t \in Pages!Totals, Pages!FirstAnswer(t)
        PROVE  PagesTyped'
    <3>1. CASE Pages!Refuse
      BY <2>2, <3>1 DEF Pages!Refuse, Pages!Stop, Pages!progress
    <3>2. CASE /\ \E n \in Pages!Heads(t) : got' = (IF broken THEN Pages!Junk(n) ELSE Pages!Items(0, n))
               /\ total' = t /\ at' = "page" /\ UNCHANGED <<page, result>>
      <4>1. broken => Limited'
        <5> SUFFICES ASSUME broken PROVE Limited'
          OBVIOUS
        <5>1. t \in Nat /\ t <= Bound /\ Bound' = Bound
          BY PageBound DEF Pages!Totals, Bound
        <5>2. PICK n \in Pages!Heads(t) : got' = Pages!Junk(n)
          BY <3>2
        <5>3. n \in Nat /\ n <= t
          BY <5>1 DEF Pages!Heads, Pages!Least
        <5>4. got' \in Seq(PageItems) /\ Len(got') = n
          BY <5>2, <5>3, PagesJunk
        <5> QED
          BY <1>1, <1>2, <2>1, <2>4, <3>2, <5>1, <5>3, <5>4 DEF Limited
      <4> QED
        BY <1>1, <1>2, <2>1, <3>2, <4>1 DEF PagesTyped
    <3> QED
      BY <2>4, <3>1, <3>2 DEF Pages!FirstAnswer
  <2> QED
    <3>1. \/ \E t \in Pages!Totals : reader \in {"fru", "string", "ids"} /\ Pages!FirstAnswer(t)
          \/ reader = "spd" /\ total' = Longest /\ at' = "page" /\ UNCHANGED <<page, got, result>>
          \/ UNCHANGED <<total, page, got>> /\ at' \in {"page", "done"} /\ result' \in {result, "failed", "protocol"}
      BY <1>4 DEF Pages!FirstCommand, Pages!Stop, Pages!progress
    <3> QED
      BY <2>2, <2>3, <2>4, <3>1
<1>5. CASE Pages!ReadPage
  <2>1. broken => PagesTyped'
    BY <1>1, <1>2, <1>5, PagesLimits DEF PagesTyped
  <2>2. UNCHANGED chunk_size /\ at' \in {at, "done"} /\ result' \in {result, "ok", "protocol"}
    BY <1>5 DEF Pages!ReadPage, Pages!Refuse, Pages!Stop, Pages!progress
  <2>3. ~broken => PagesTyped'
    BY <1>1, <1>2, <2>2 DEF PagesTyped
  <2> QED
    BY <2>1, <2>3
<1>6. CASE Pages!Shrink
  <2>1. /\ UNCHANGED <<total, page, got, version>> /\ at' \in {at, "done"} /\ result' \in {result, "failed"}
        /\ UNCHANGED chunk_size \/ (chunk_size > unit /\ chunk_size' = Pages!Smaller)
    BY <1>6 DEF Pages!Shrink, Pages!Stop, Pages!progress, Pages!Quiet, Pages!target
  <2>2. chunk_size' \in 1..Page
    BY <1>2, <2>1 DEF Pages!Smaller, Pages!Largest
  <2> QED
    BY <1>2, <1>3, <2>1, <2>2
<1>7. CASE Pages!PollValue
  <2>1. reader = "value" /\ at = "page" /\ UNCHANGED <<chunk_size, version>>
    BY <1>7 DEF Pages!PollValue, Pages!progress, Pages!Quiet, Pages!target
  <2>2. \/ got' = Pages!Items(0, length) /\ at' = "done" /\ result' = "ok" /\ UNCHANGED <<total, page>>
        \/ UNCHANGED <<total, page, got>> /\ at' \in {at, "done"} /\ result' \in {"absent", "limit"}
        \/ page' = page + 1 /\ UNCHANGED <<at, total, got, result>>
    BY <1>7 DEF Pages!PollValue, Pages!Stop, Pages!progress
  <2>3. CASE got' = Pages!Items(0, length) /\ at' = "done" /\ result' = "ok" /\ UNCHANGED <<total, page>>
    <3>1. broken => Limited'
      <4> SUFFICES ASSUME broken PROVE Limited'
        OBVIOUS
      <4>1. length \in Nat /\ version \in Nat
        BY <1>2, PageBound DEF Limited
      <4>2. got' \in Seq(PageItems) /\ Len(got') = length
        BY <2>3, <4>1, PagesItem
      <4> QED
        BY <1>1, <1>2, <2>1, <2>3, <4>1, <4>2 DEF Limited, Bound
    <3> QED
      BY <1>1, <1>2, <2>1, <2>3, <3>1 DEF PagesTyped
  <2>4. CASE UNCHANGED <<total, page, got>> /\ at' \in {at, "done"} /\ result' \in {"absent", "limit"}
    BY <1>2, <1>3, <2>1, <2>4
  <2>5. CASE page' = page + 1 /\ UNCHANGED <<at, total, got, result>>
    <3>1. broken => Limited'
      BY <1>1, <1>2, <2>1, <2>5 DEF Limited, Bound
    <3> QED
      BY <1>1, <1>2, <2>1, <2>5, <3>1 DEF PagesTyped
  <2> QED
    BY <2>2, <2>3, <2>4, <2>5
<1>8. CASE Pages!Finish \/ Pages!Fail
  <2>1. UNCHANGED <<chunk_size, total, page, got, version>> /\ at' = "done" /\ result' \in {"ok", "limit", "failed"}
    BY <1>8 DEF Pages!Finish, Pages!Fail, Pages!Stop, Pages!progress, Pages!Quiet, Pages!target
  <2> QED
    BY <1>2, <1>3, <2>1
<1>9. CASE Pages!Rewrite \/ Pages!SelectElsewhere
  <2>1. ~broken /\ UNCHANGED <<at, chunk_size, result>>
    BY <1>9 DEF Pages!Rewrite, Pages!SelectElsewhere, Pages!progress
  <2> QED
    BY <1>1, <1>2, <2>1 DEF PagesTyped
<1> QED
  BY <1>4, <1>5, <1>6, <1>7, <1>8, <1>9 DEF Pages!Next, Pages!Step

\* The types of PagedReads.
LEMMA PagesTypedMeans == PagesTyped /\ PagesInv => Pages!TypeOK
<1> SUFFICES ASSUME PagesTyped, PagesInv PROVE Pages!TypeOK
  OBVIOUS
<1>1. Len(got) <= Bound
  <2>1. length \in Nat /\ length <= Longest
    BY PageBound DEF PagesTyped
  <2>2. CASE broken
    <3>1. /\ Limited /\ total \in Nat /\ total <= Bound /\ Len(got) \in Nat
      BY <2>2, PageBound DEF PagesTyped, Limited
    <3>2. Len(got) <= total \/ Len(got) <= Most \/ Len(got) <= length
      BY <3>1 DEF Limited, PagesTyped, Pages!Readers
    <3> QED
      BY <2>1, <3>1, <3>2, PageBound
  <2>3. CASE ~broken
    <3>1. Len(got) \in Nat /\ Len(got) <= length
      BY <2>3 DEF PagesInv, PageCounts, SoFar
    <3> QED
      BY <2>1, <3>1, PageBound
  <2> QED
    BY <2>2, <2>3
<1> QED
  BY <1>1 DEF PagesTyped, Pages!TypeOK, Bound

-----------------------------------------------------------------------------
(* The types of the reader that runs.                                      *)
ReadingTyped ==
    /\ SelTyped
    /\ program = "sdr" => SdrTyped
    /\ program = "pages" => PagesTyped

\* The types hold first, whichever reader runs.
LEMMA ReadingTypedStart == ReadingInit => ReadingTyped
  BY SelTypedStart, SdrTypedStart, PagesTypedStart DEF ReadingInit, ReadingTyped

\* Every step keeps the types.
LEMMA ReadingTypedStep == ReadingInv /\ ReadingTyped /\ [ReadingNext]_allVars => ReadingTyped'
<1> SUFFICES ASSUME ReadingInv, ReadingTyped, [ReadingNext]_allVars PROVE ReadingTyped'
  OBVIOUS
<1>1. SelTyped'
  <2>1. [Next]_vars
    BY DEF ReadingNext, RunSel, RunSdr, RunPages, allVars
  <2> QED
    BY <2>1, SelTypedStep DEF ReadingTyped
<1>2. CASE RunSel
  BY <1>1, <1>2 DEF ReadingTyped, RunSel
<1>3. CASE RunSdr
  <2>1. SdrTyped'
    BY <1>3, SdrTypedStep DEF ReadingInv, ReadingTyped, RunSdr
  <2> QED
    BY <1>1, <1>3, <2>1 DEF ReadingTyped, RunSdr
<1>4. CASE RunPages
  <2>1. PagesTyped'
    BY <1>4, PagesTypedStep DEF ReadingTyped, RunPages
  <2> QED
    BY <1>1, <1>4, <2>1 DEF ReadingTyped, RunPages
<1>5. CASE UNCHANGED allVars
  <2>1. UNCHANGED program /\ UNCHANGED <<shared, sdrOwn>> /\ UNCHANGED <<shared, pagesOwn>>
    BY <1>5 DEF allVars
  <2>2. UNCHANGED <<at, limit, broken, result, records, edits, next_record, visited, read_limit, successor, parts, attempt,
                    reader, chunk_size, unit, length, version, selected, total, page, got>>
    BY <2>1 DEF shared, sdrOwn, pagesOwn
  <2>3. SdrTyped => SdrTyped'
    BY <2>2 DEF SdrTyped, SdrIds, Stored, Sdr!Ids, Sdr!Versions
  <2>4. Limited => Limited'
    BY <2>2 DEF Limited, Bound
  <2>5. PagesTyped => PagesTyped'
    BY <2>2, <2>4 DEF PagesTyped, Pages!Readers
  <2> QED
    BY <1>1, <2>1, <2>3, <2>5 DEF ReadingTyped
<1> QED
  BY <1>2, <1>3, <1>4, <1>5 DEF ReadingNext

\* What they give.
LEMMA ReadingTypedMeans == ReadingInv /\ ReadingTyped => ReadingTypeOK
  BY SelTypedMeans, SdrTypedMeans, PagesTypedMeans DEF ReadingInv, ReadingTyped, ReadingTypeOK

-----------------------------------------------------------------------------
(***************************************************************************)
(* The readers of the log, of the sensor records and of paged values keep  *)
(* the invariant, whatever others change between their commands.           *)
(***************************************************************************)
THEOREM ReadingInvariant == ReadingSpec => []ReadingInv
BY ReadingStart, ReadingStep, PTL DEF ReadingSpec

(***************************************************************************)
(* Every variable of the readers keeps its type, whatever the BMC answers: *)
(* SelIter returns max_entries entries at most, repeats a read or a scan   *)
(* twice at most and reads within its budget; FallibleSdrIter renews a     *)
(* reservation three times at most and halves its reads to one byte at the *)
(* least; a paged reader keeps no more than its limit.                     *)
(***************************************************************************)
THEOREM ReadersAreTyped == ReadingSpec => []ReadingTypeOK
<1>1. ReadingSpec => []ReadingTyped
  BY ReadingTypedStart, ReadingTypedStep, ReadingInvariant, PTL DEF ReadingSpec
<1> QED
  BY <1>1, ReadingTypedMeans, ReadingInvariant, PTL

(***************************************************************************)
(* SelIter: a walk of the log that ends without an error returned every    *)
(* record that was in it from its beginning to its end, for a log of any   *)
(* size and any number of events, deletions, clears and rescans.           *)
(***************************************************************************)
THEOREM WalkIsComplete == ReadingSpec => []WalkComplete
<1>1. ReadingInv => WalkComplete
  BY SelMeans DEF ReadingInv
<1> QED
  BY <1>1, ReadingInvariant, PTL

(***************************************************************************)
(* SelPoller: an event logged between the baseline and the beginning of a  *)
(* poll that ended was reported, or a batch admitted a gap; and one that   *)
(* is still in the log was reported in any case, if its record is unlike   *)
(* the one that had its number before.                                     *)
(***************************************************************************)
THEOREM NothingIsMissed == ReadingSpec => []NothingMissed
<1>1. ReadingInv => NothingMissed
  BY SelMeans DEF ReadingInv
<1> QED
  BY <1>1, ReadingInvariant, PTL

(***************************************************************************)
(* FallibleSdrIter and the paged readers: what was read in several         *)
(* commands under a reservation is of one version, no record but the first *)
(* is returned twice, and a value is all there and in order, for pieces,   *)
(* pages and repositories of any size.                                     *)
(***************************************************************************)
THEOREM ValuesAreIntact == ReadingSpec => []ValuesIntact
  BY ReadingMeans, ReadingInvariant, PTL

(***************************************************************************)
(* What the readers' own limits and checks leave alone.  SelPoller::scan() *)
(* refuses no log that is not too long and that nobody changes; such a     *)
(* repository FallibleSdrIter returns whole and in order, or ends by what  *)
(* the BMC said; and no paged reader refuses a page of a value that it     *)
(* takes, or counts too many of them.                                      *)
(***************************************************************************)
THEOREM QuietReadsAlwaysSucceed == ReadingSpec => []QuietReadsSucceed
<1>1. ReadingSpec => []QuietInv
  BY QuietStart, QuietStep, ReadingInvariant, PTL DEF ReadingSpec
<1> QED
  BY <1>1, QuietMeans, ReadingInvariant, PTL

(***************************************************************************)
(* SelPoller::poll_once(): no event is reported twice and none of the      *)
(* baseline is reported.                                                   *)
(***************************************************************************)
THEOREM EventsReportedOnce == ReadingSpec => ReportedOnce
<1>1. ReadingInv /\ [ReadingNext]_allVars =>
        [pc = "end" /\ outcome' = "scanned" /\ info # NoInfo /\ ~faulty =>
           Serials(batch'.entries) \intersect known = {}]_vars
  <2> SUFFICES ASSUME ReadingInv, [ReadingNext]_allVars, ~UNCHANGED vars,
                      pc = "end", outcome' = "scanned", info # NoInfo, ~faulty
               PROVE  Serials(batch'.entries) \intersect known = {}
    OBVIOUS
  <2>1. Next
    BY DEF ReadingNext, RunSel, RunSdr, RunPages, allVars
  <2>2. SelInv
    BY DEF ReadingInv
  <2> QED
    BY <2>1, <2>2, SelReports
<1> QED
  BY <1>1, ReadingInvariant, PTL DEF ReadingSpec, ReportedOnce
================================================================================
