------------------------------ MODULE PagedReads ------------------------------
(***************************************************************************)
(* Values that take several commands to read: FRU images (fru.rs), SPD     *)
(* pages (spd.rs), DCMI strings, temperatures and sensor ids (dcmi.rs),    *)
(* Dell LCD text (dell.rs), Sun NAC names, LUAPI values and core-tunnel    *)
(* files (sun.rs).  Each reader asks for the next page until the value is  *)
(* complete, from a target that may answer anything, or answers truly      *)
(* while another console changes the value or the selected page.  One      *)
(* action is one command.                                                  *)
(***************************************************************************)
EXTENDS Integers, Sequences, FiniteSets

CONSTANTS
    Page,        \* items of one page (16, 8, 64 or 1024)
    First,       \* items of the first LCD block (14)
    Most,        \* the most items a reader accepts (64, 62, 256 or the caller's limit)
    Blocks,      \* the most pages of an LCD text (4), NAC name (5) or file (1025), polls (5)
    Longest      \* bound: items of a value

VARIABLES
    pc,
    reader, chunk_size, unit,   \* of this call; chunk_size changes for FRU only
    length, limit, broken,      \* the target: items, the most it returns at once, answers anything
    version, selected,          \* the target: changes of the value, the page selected
    total,                      \* items the first answer promised
    page,                       \* pages accepted, polls answered
    got,                        \* items so far: position and version each
    outcome

call == <<reader, unit>>
target == <<length, limit, broken, version, selected>>
progress == <<chunk_size, total, page, got>>
vars == <<pc, call, target, progress, outcome>>

Readers == {"fru", "spd", "string", "ids", "lcd", "nac", "value", "file"}
Least(a, b) == IF a < b THEN a ELSE b
Largest(a, b) == IF a > b THEN a ELSE b

Init ==
    /\ reader \in Readers
    /\ broken \in BOOLEAN
    /\ unit \in (IF reader = "fru" THEN {1, 2} ELSE {1})
    /\ length \in (IF reader = "spd" THEN {Longest} ELSE IF broken THEN {0} ELSE 0 .. Longest)
    /\ limit \in (IF reader = "fru" THEN 1 .. Page ELSE {Page})
    /\ chunk_size \in (IF reader = "spd" THEN 1 .. Page ELSE {Page})
    /\ version = 0 /\ selected = TRUE
    /\ pc = "first" /\ total = 0 /\ page = 0 /\ got = <<>> /\ outcome = "none"
-----------------------------------------------------------------------------
(* The target. *)
Items(from, n) == [k \in 1 .. n |-> [at |-> IF selected THEN from + k ELSE 0, version |-> version]]
Junk(n) == [k \in 1 .. n |-> [at |-> 0, version |-> 0]]

(* A page: the total it names, its items, the block it names, and whether  *)
(* it says it is the last.                                                 *)
Answer(t, items, echo, last) == [total |-> t, items |-> items, echo |-> echo, last |-> last]

Rest == length - Len(got)

(* What a target that answers truly returns; the page after the last item  *)
(* of a file or a NAC name is empty.                                       *)
Honest(want) ==
    LET n == Least(want, Rest)
    IN Answer(length, Items(Len(got), n), page, n = Rest /\ (reader = "nac" => n < Page))

Answers(want) ==
    IF broken
    THEN {Answer(t, Junk(n), e, l) :
            t \in {0, 1, Most, Most + 1}, n \in {0, 1, Page, Page + 1}, e \in {page, page + 1}, l \in BOOLEAN}
    ELSE {Honest(want)}

(* Another console rewrites the value, or selects another SPD page. *)
Rewrite ==
    /\ ~broken /\ pc # "done" /\ version = 0
    /\ version' = 1
    /\ UNCHANGED <<pc, call, length, limit, broken, selected, progress, outcome>>

SelectElsewhere ==
    /\ ~broken /\ pc = "page" /\ reader = "spd" /\ selected
    /\ selected' = FALSE
    /\ UNCHANGED <<pc, call, length, limit, broken, version, progress, outcome>>
-----------------------------------------------------------------------------
Stop(how) == pc' = "done" /\ outcome' = how
Refuse == Stop("protocol") /\ UNCHANGED progress
Quiet == UNCHANGED <<call, target>>

(* What comes before the pages: the FRU's size, the SPD page selection,    *)
(* the totals of DCMI, the LUAPI request; the others begin with a page.    *)
Totals == IF broken THEN {0, 1, Most, Most + 1} ELSE {length}
Unfit(t) == (reader = "fru" /\ t % unit # 0) \/ (reader = "string" /\ t > Most)

(* A DCMI controller id is asked for with one item of it. *)
Heads(t) == IF reader = "string" THEN {0, Least(1, t)} ELSE {0}

FirstAnswer(t) ==
    \/ (Unfit(t) \/ (broken /\ reader = "string")) /\ Refuse
    \/ /\ ~Unfit(t)
       /\ \E n \in Heads(t) : got' = (IF broken THEN Junk(n) ELSE Items(0, n))
       /\ total' = t
       /\ pc' = "page"
       /\ UNCHANGED <<chunk_size, page, outcome>>

FirstCommand ==
    /\ pc = "first"
    /\ \/ reader \in {"fru", "string", "ids"} /\ \E t \in Totals : FirstAnswer(t)
       \/ /\ reader = "spd"
          /\ total' = Longest /\ pc' = "page"
          /\ UNCHANGED <<chunk_size, page, got, outcome>>
       \/ reader = "value" /\ pc' = "page" /\ UNCHANGED <<progress, outcome>>
       \/ reader \in {"fru", "string", "ids", "spd", "value"} /\ Stop("failed") /\ UNCHANGED progress
       \/ reader \in {"lcd", "nac", "file"} /\ pc' = "page" /\ UNCHANGED <<progress, outcome>>
    /\ Quiet

(* The items asked for. *)
Want ==
    CASE reader \in {"fru", "spd"} -> Least(chunk_size, total - Len(got))
      [] reader = "string" -> Least(Page, total - Len(got))
      [] reader = "lcd" /\ page = 0 -> First
      [] OTHER -> Page

(* Is the page one that the reader accepts, and how many of its items?     *)
Fits(a) == a.total = total /\ a.items # <<>> /\ Len(a.items) <= Least(Page, total - Len(got))

Acceptable(a) ==
    CASE reader \in {"fru", "spd"} -> Len(a.items) = Want
      [] reader = "string" -> a.total = total /\ Len(a.items) = Want
      [] reader = "ids" -> Fits(a)
      [] reader = "lcd" ->
           /\ a.echo = page
           /\ page = 0 => a.total <= Most
           /\ Len(a.items) >= Least(Want, (IF page = 0 THEN a.total ELSE total) - Len(got))
      [] reader = "nac" ->
           /\ a.echo = page /\ Len(a.items) <= Page
           /\ a.last = (Len(a.items) < Page)
           /\ Len(got) + Len(a.items) <= Most
      [] reader = "file" ->
           /\ a.echo = page
           /\ Len(a.items) <= Page /\ (a.items # <<>> \/ a.last)
           /\ Len(got) + Len(a.items) <= Most
      [] OTHER -> FALSE

Taken(a) ==
    IF reader = "lcd" THEN Least(Len(a.items), (IF page = 0 THEN a.total ELSE total) - Len(got)) ELSE Len(a.items)

(* Readers without a total at the start stop after a number of pages. *)
Complete == Len(got) = total
Paged ==
    CASE reader \in {"fru", "spd", "string", "ids"} -> ~Complete
      [] reader = "lcd" -> page = 0 \/ ~Complete
      [] OTHER -> reader # "value"

Counted == reader \in {"lcd", "nac", "file", "value"}
TooMany == Counted /\ page = Blocks

ReadPage ==
    /\ pc = "page" /\ Paged /\ ~TooMany
    /\ broken \/ Want <= limit
    /\ \E a \in Answers(Want) :
         \/ /\ Acceptable(a)
            /\ got' = got \o SubSeq(a.items, 1, Taken(a))
            /\ total' = IF reader = "lcd" /\ page = 0 THEN a.total ELSE total
            /\ page' = IF Counted THEN page + 1 ELSE page
            /\ UNCHANGED chunk_size
            /\ IF reader \in {"nac", "file"} /\ a.last THEN Stop("ok") ELSE UNCHANGED <<pc, outcome>>
         \/ ~Acceptable(a) /\ Refuse
    /\ Quiet

(* The FRU cannot return that many bytes: only then is a read repeated,    *)
(* with fewer.                                                             *)
Smaller == Largest(chunk_size \div 2, unit)

Shrink ==
    /\ pc = "page" /\ reader = "fru" /\ Paged /\ (broken \/ Want > limit)
    /\ \/ /\ chunk_size > unit
          /\ chunk_size' = Smaller
          /\ UNCHANGED <<pc, total, page, got, outcome>>
       \/ chunk_size <= unit /\ Stop("failed") /\ UNCHANGED progress
    /\ Quiet

(* A LUAPI value is polled for: there, absent, or not yet. *)
PollValue ==
    /\ pc = "page" /\ reader = "value"
    /\ \/ got' = Items(0, length) /\ Stop("ok") /\ UNCHANGED <<chunk_size, total, page>>
       \/ Stop("absent") /\ UNCHANGED progress
       \/ /\ page < Blocks - 1 /\ page' = page + 1
          /\ UNCHANGED <<pc, chunk_size, total, got, outcome>>
       \/ page = Blocks - 1 /\ Stop("limit") /\ UNCHANGED progress
    /\ Quiet

(* The value is complete, or the pages are used up. *)
Finish ==
    /\ pc = "page" /\ reader # "value"
    /\ \/ ~Paged /\ Stop("ok")
       \/ Paged /\ TooMany /\ Stop("limit")
    /\ UNCHANGED progress
    /\ Quiet

(* Any other error ends the read; nothing is repeated. *)
Fail ==
    /\ pc = "page"
    /\ Stop("failed")
    /\ UNCHANGED progress
    /\ Quiet

Step == FirstCommand \/ ReadPage \/ Shrink \/ PollValue \/ Finish \/ Fail

Next == Step \/ Rewrite \/ SelectElsewhere

Spec == Init /\ [][Next]_vars
-----------------------------------------------------------------------------
TypeOK ==
    /\ pc \in {"first", "page", "done"}
    /\ outcome \in {"none", "ok", "absent", "protocol", "failed", "limit"}
    /\ chunk_size \in 1 .. Page
    /\ Len(got) <= Largest(Most + 1, Longest)

(* A value read from a target that answers truly is all of it, every item  *)
(* once and in order, and of one version unless it was rewritten meanwhile.*)
ValueWhole ==
    outcome = "ok" /\ ~broken /\ selected =>
      /\ [k \in DOMAIN got |-> got[k].at] = [k \in 1 .. length |-> k]
      /\ version = 0 => \A k \in DOMAIN got : got[k].version = 0

(* A read that nobody disturbs and no command fails succeeds, unless the   *)
(* value is longer than the reader accepts, or not aligned.                *)
QuietReadSucceeds ==
    ~broken /\ outcome \in {"protocol", "limit"} /\ reader # "value" =>
        length > Least(Most, Page * (Blocks - 1)) \/ length % unit # 0
=============================================================================
