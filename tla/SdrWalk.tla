-------------------------------- MODULE SdrWalk --------------------------------
(***************************************************************************)
(* The traversal of a Sensor Data Record repository: FallibleSdrIter of    *)
(* ipmi-rs/src/lib.rs, over records that other consoles change between any *)
(* two of its commands.  A record is read in pieces, its header first; a   *)
(* piece may be too large for the BMC, and a lost reservation starts the   *)
(* record again.  One action is one command with the handling of its       *)
(* answer.                                                                 *)
(***************************************************************************)
EXTENDS Integers, Sequences, FiniteSets

CONSTANTS
    Header,     \* bytes of a record header (5)
    Chunk,      \* bytes of the first read (32)
    MaxOffset,  \* the last offset a read can ask for, one byte of it (255)
    Bodies,     \* what the length of a body may be
    Limits,     \* the most bytes a BMC may return at once
    Room,       \* records in the repository
    Edits       \* bound: changes of the repository

VARIABLES
    \* The BMC.
    records,                \* id, version and body length, in the order of the repository
    edits,                  \* changes so far: the version of the last one
    held,                   \* the reservation is still good
    limit, broken, reserves,    \* fixed: bytes per read, answers anything, offers Reserve
    \* The iterator.
    pc,
    next_id, visited,       \* next_id, seen
    read_limit,
    current,                \* the record being read
    filled,                 \* bytes of it, header included
    header,                 \* what the header said: id and body length
    successor,              \* the next id that came with it
    parts,                  \* versions the bytes came from
    attempt,                \* renewals for this record
    yielded,                \* records returned
    result,                 \* how the traversal ended
    start                   \* history: the records at the beginning

bmc == <<records, edits, held>>
fixed == <<limit, broken, reserves>>
reading == <<filled, header, successor, parts>>
iterator == <<next_id, visited, read_limit, current, reading, attempt, yielded>>
vars == <<bmc, fixed, pc, iterator, result, start>>

FIRST == 0
LAST == 65535
NoId == -1
NoHeader == [id |-> NoId, length |-> 0]
Ids == 1 .. Room
Versions == 0 .. Edits

Init ==
    /\ \E n \in 0 .. Room : \E body \in [1 .. n -> Bodies] :
         records = [k \in 1 .. n |-> [id |-> k, version |-> 0, length |-> body[k]]]
    /\ edits = 0 /\ held = FALSE
    /\ limit \in Limits /\ reserves \in BOOLEAN
    /\ broken \in (IF records = <<>> THEN BOOLEAN ELSE {FALSE})
    /\ pc = "source" /\ next_id = FIRST /\ visited = {} /\ read_limit = Chunk
    /\ current = FIRST /\ filled = 0 /\ header = NoHeader /\ successor = NoId /\ parts = {}
    /\ attempt = 0 /\ yielded = <<>> /\ result = "none"
    /\ start = records
-----------------------------------------------------------------------------
(* The repository, changed by others; any change cancels reservations.     *)
Changed(new) ==
    /\ ~broken /\ edits < Edits /\ pc # "done"
    /\ records' = new
    /\ edits' = edits + 1 /\ held' = FALSE

Without(k) == SubSeq(records, 1, k - 1) \o SubSeq(records, k + 1, Len(records))

(* A record is rewritten, deleted, or added at the end under a number that *)
(* is free.                                                                *)
Change ==
    /\ \/ \E k \in DOMAIN records, n \in Bodies :
            Changed([records EXCEPT ![k].version = edits + 1, ![k].length = n])
       \/ \E k \in DOMAIN records : Changed(Without(k))
       \/ \E id \in Ids \ {records[k].id : k \in DOMAIN records}, n \in Bodies :
            Changed(Append(records, [id |-> id, version |-> edits + 1, length |-> n]))
    /\ UNCHANGED <<fixed, pc, iterator, result, start>>

Quiet == UNCHANGED <<records, edits, fixed, start>>

Place(id) == {k \in DOMAIN records : IF id = FIRST THEN k = 1 ELSE records[k].id = id}
NextOf(k) == IF k = Len(records) THEN LAST ELSE records[k + 1].id

(* Answers to a read of n bytes: count, bytes of which record, next id.    *)
Answers(id, n) ==
    IF broken
    THEN [count : {n, n - 1}, from : [id : {FIRST, 1, LAST}, version : {0}, length : Bodies], next : {FIRST, 1, 2, LAST}]
    ELSE {[count |-> n, from |-> records[k], next |-> NextOf(k)] : k \in Place(id)}
-----------------------------------------------------------------------------
(* One error, then None. *)
Stop(how) == pc' = "done" /\ result' = how
Fails(how) == Stop(how) /\ UNCHANGED <<held, iterator>>

(* Get Device ID, unless the caller named the source. *)
Source ==
    /\ pc = "source"
    /\ \/ pc' = "info" /\ UNCHANGED <<held, iterator, result>>
       \/ Fails("no_source")
    /\ Quiet

Empty == IF broken THEN BOOLEAN ELSE {records = <<>>}

Info ==
    /\ pc = "info"
    /\ \E empty \in Empty :
         \/ empty /\ Stop("end") /\ UNCHANGED <<held, iterator>>
         \/ /\ ~empty
            /\ pc' = (IF reserves THEN "reserve" ELSE "next")
            /\ UNCHANGED <<held, iterator, result>>
    /\ Quiet

NothingRead ==
    filled' = 0 /\ header' = NoHeader /\ successor' = NoId /\ parts' = {}

(* A renewal in the middle of a record discards every byte of it. *)
Renew_KeepsHeader == UNCHANGED reading
Renew == NothingRead

Reserve ==
    /\ pc = "reserve"
    /\ held' = TRUE
    /\ pc' = (IF attempt > 0 THEN "read" ELSE "next")
    /\ Renew
    /\ UNCHANGED <<next_id, visited, read_limit, current, attempt, yielded, result>>
    /\ Quiet

CallNext ==
    /\ pc = "next"
    /\ \/ next_id = LAST /\ Stop("end") /\ UNCHANGED <<held, iterator>>
       \/ next_id # LAST /\ next_id \in visited /\ Fails("protocol")
       \/ /\ next_id # LAST /\ next_id \notin visited
          /\ visited' = visited \union {next_id}
          /\ current' = next_id /\ attempt' = 0
          /\ NothingRead
          /\ pc' = "read"
          /\ UNCHANGED <<held, next_id, read_limit, yielded, result>>
    /\ Quiet

(* read_bytes(): the rest of the header or of the body, as far as the      *)
(* limit lets it.                                                          *)
Wanted == IF filled < Header THEN Header - filled ELSE Header + header.length - filled
Requested == IF Wanted < read_limit THEN Wanted ELSE read_limit
Target == IF filled >= Header /\ current = FIRST THEN header.id ELSE current

(* Faulty variant: the last offset is refused too. *)
OffsetOutOfRange_Last ==
    /\ pc = "read" /\ filled >= MaxOffset
    /\ Fails("offset")
    /\ Quiet

(* No read of a byte past MaxOffset is sent.                               *)
OffsetOutOfRange ==
    /\ pc = "read" /\ filled > MaxOffset
    /\ Fails("offset")
    /\ Quiet

Asks == pc = "read" /\ filled <= MaxOffset

(* The BMC cannot return that many bytes. *)
Halved == IF Requested \div 2 > 1 THEN Requested \div 2 ELSE 1

TooMany ==
    /\ Asks /\ (broken \/ Requested > limit)
    /\ \/ /\ Requested > 1
          /\ read_limit' = Halved
          /\ UNCHANGED <<held, pc, next_id, visited, current, reading, attempt, yielded, result>>
       \/ Requested = 1 /\ Fails("read")
    /\ Quiet

(* read_record(): three renewals for one record. *)
Cancelled ==
    /\ Asks /\ (broken \/ (reserves /\ ~held))
    /\ \/ /\ reserves /\ attempt < 3
          /\ attempt' = attempt + 1 /\ pc' = "reserve"
          /\ UNCHANGED <<held, next_id, visited, read_limit, current, reading, yielded, result>>
       \/ ~(reserves /\ attempt < 3) /\ Fails("reservation_lost")
    /\ Quiet

(* What read_record_once() does not accept of a complete header. *)
BadHeader(id, next) ==
    \/ current = FIRST /\ id \in {FIRST, LAST}
    \/ next = FIRST \/ next = current \/ next \in visited

Accept(a) ==
    /\ filled' = filled + a.count
    /\ parts' = parts \union {a.from.version}
    /\ successor' = IF successor = NoId THEN a.next ELSE successor
    /\ header' = IF filled + a.count = Header THEN [id |-> a.from.id, length |-> a.from.length] ELSE header

Complete == filled' >= Header /\ filled' = Header + header'.length

(* The id of a record that is not the first is the one asked for. *)
Record == [id |-> IF current = FIRST THEN header'.id ELSE current,
           length |-> filled' - Header, versions |-> parts']

Read ==
    /\ Asks /\ (broken \/ (Requested <= limit /\ (reserves => held)))
    /\ \E a \in Answers(Target, Requested) :
         \/ (a.count # Requested \/ (successor # NoId /\ a.next # successor)) /\ Fails("protocol")
         \/ /\ a.count = Requested /\ (successor = NoId \/ a.next = successor)
            /\ Accept(a)
            /\ \/ filled' = Header /\ BadHeader(a.from.id, successor') /\ Stop("protocol")
                    /\ UNCHANGED <<next_id, yielded>>
               \/ /\ filled' = Header => ~BadHeader(a.from.id, successor')
                  /\ IF Complete
                     THEN \/ /\ yielded' = Append(yielded, Record)
                             /\ next_id' = successor' /\ pc' = "next" /\ UNCHANGED result
                          \/ Stop("parse") /\ UNCHANGED <<next_id, yielded>>
                     ELSE UNCHANGED <<pc, next_id, yielded, result>>
            /\ UNCHANGED <<held, visited, read_limit, current, attempt>>
    /\ Quiet

(* The record is gone. *)
Absent ==
    /\ Asks /\ (broken \/ Place(Target) = {})
    /\ Fails("read")
    /\ Quiet

(* No answer, or an unreadable one, to any of the commands. *)
CommandFails ==
    /\ pc \in {"source", "info", "reserve"} \/ Asks
    /\ Fails("failed")
    /\ Quiet

Step ==
    \/ Source \/ Info \/ Reserve \/ CallNext
    \/ OffsetOutOfRange \/ TooMany \/ Cancelled \/ Read \/ Absent \/ CommandFails

Next == Step \/ Change

Spec == Init /\ [][Next]_vars
-----------------------------------------------------------------------------
TypeOK ==
    /\ pc \in {"source", "info", "reserve", "next", "read", "done"}
    /\ read_limit \in 1 .. Chunk
    /\ attempt \in 0 .. 3
    /\ result \in {"none", "end", "no_source", "failed", "read", "reservation_lost", "offset", "protocol", "parse"}
    /\ visited \subseteq Ids \union {FIRST, 1, 2}
    /\ parts \subseteq Versions

(***************************************************************************)
(* A record that is returned is one record: under a reservation all of its *)
(* bytes are of one version, and there are as many as that version has     *)
(* (read_record(): "A cancelled reservation can invalidate a partial       *)
(* record").                                                               *)
(***************************************************************************)
RecordsWhole ==
    reserves /\ ~broken =>
        \A k \in DOMAIN yielded : \E v \in yielded[k].versions : yielded[k].versions = {v}

(***************************************************************************)
(* While nobody changes the repository the walk returns all of it, in      *)
(* order, whatever the BMC can return at once; it is refused only when a   *)
(* command fails, or at a record that goes on past MaxOffset, of which a   *)
(* BMC that returns a few bytes at a time has to be asked beyond it.       *)
(***************************************************************************)
QuietWalkComplete ==
    ~broken /\ edits = 0 =>
      /\ result \in {"none", "end", "no_source", "failed", "offset", "parse"}
      /\ result = "offset" =>
           /\ Len(yielded) < Len(records)
           /\ Header + records[Len(yielded) + 1].length > MaxOffset + 1
      /\ result = "end" =>
           yielded = [k \in DOMAIN records |->
                        [id |-> records[k].id, length |-> records[k].length, versions |-> {0}]]

(* No record is returned twice, even of a repository whose next ids lead   *)
(* in a circle, but for the first, which is read under the number FIRST.   *)
NoneTwice ==
    \A j, k \in DOMAIN yielded : 1 < j /\ j < k => yielded[j].id # yielded[k].id

(***************************************************************************)
(* FallibleSdrIter: "`None` without an error means completion".  A walk    *)
(* that ends without an error has returned, as it was, every record that   *)
(* was there unchanged from its beginning to its end.                      *)
(***************************************************************************)
Unchanged(r) == \E k \in DOMAIN records : records[k].id = r.id /\ records[k].version = r.version

EndMeansAll ==
    result = "end" /\ ~broken =>
        \A k \in DOMAIN start :
            Unchanged(start[k]) =>
                \E j \in DOMAIN yielded :
                    yielded[j].id = start[k].id /\ start[k].version \in yielded[j].versions
=============================================================================
