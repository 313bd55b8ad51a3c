-------------------------------- MODULE Reading --------------------------------
(***************************************************************************)
(* What the library reads in several commands while others change it: the  *)
(* System Event Log (SelPoll), the sensor records (SdrWalk) and paged      *)
(* values (PagedReads).  A behaviour is one of these readers; the others'  *)
(* variables keep their first values.                                      *)
(***************************************************************************)
EXTENDS SelPoll

CONSTANTS
    Header, Chunk, MaxOffset, Bodies, Limits, Room, Edits,  \* of SdrWalk
    Page, First, Most, Blocks, Longest                      \* of PagedReads

VARIABLES
    program,
    at, limit, broken,
    \* SdrWalk.
    records, edits, held, reserves, next_record, visited, read_limit, current, filled,
    header, successor, parts, attempt, yielded, result, start,
    \* PagedReads.
    reader, chunk_size, unit, length, version, selected, total, page, got

shared == <<at, limit, broken, result>>
sdrOwn == <<records, edits, held, reserves, next_record, visited, read_limit, current, filled,
            header, successor, parts, attempt, yielded, start>>
pagesOwn == <<reader, chunk_size, unit, length, version, selected, total, page, got>>
allVars == <<program, vars, shared, sdrOwn, pagesOwn>>

(* What counts bytes, and the items of a page or a value: a header, a piece *)
(* and a page have some, a BMC returns at least one at a time, and record  *)
(* ids are 16 bits, of which 0xffff stands for the end.                    *)
ASSUME ReadingAssumption ==
    /\ Header \in Nat \ {0} /\ Chunk \in Nat \ {0} /\ MaxOffset \in Nat /\ Bodies \subseteq Nat
    /\ Limits \subseteq Nat \ {0} /\ Room \in Nat /\ Room < 65535 /\ Edits \in Nat
    /\ Page \in Nat \ {0} /\ First \in Nat /\ Most \in Nat /\ Blocks \in Nat \ {0} /\ Longest \in Nat

Sdr == INSTANCE SdrWalk WITH pc <- at, next_id <- next_record
Pages == INSTANCE PagedReads WITH pc <- at, outcome <- result

SelOff == log = <<>> /\ ~faulty /\ ~has_reservation
SdrOff ==
    /\ records = 0 /\ edits = 0 /\ held = 0 /\ reserves = 0 /\ next_record = 0 /\ visited = 0
    /\ read_limit = 0 /\ current = 0 /\ filled = 0 /\ header = 0 /\ successor = 0 /\ parts = 0
    /\ attempt = 0 /\ yielded = 0 /\ start = 0
PagesOff ==
    /\ reader = 0 /\ chunk_size = 0 /\ unit = 0 /\ length = 0 /\ version = 0 /\ selected = 0
    /\ total = 0 /\ page = 0 /\ got = 0

ReadingInit ==
    /\ Init
    /\ \/ program = "sel" /\ at = "off" /\ limit = 0 /\ broken = FALSE /\ result = "none" /\ SdrOff /\ PagesOff
       \/ program = "sdr" /\ SelOff /\ Sdr!Init /\ PagesOff
       \/ program = "pages" /\ SelOff /\ SdrOff /\ Pages!Init

RunSel == program = "sel" /\ Next /\ UNCHANGED <<program, shared, sdrOwn, pagesOwn>>
RunSdr == program = "sdr" /\ Sdr!Next /\ UNCHANGED <<program, vars, pagesOwn>>
RunPages == program = "pages" /\ Pages!Next /\ UNCHANGED <<program, vars, sdrOwn>>

ReadingNext == RunSel \/ RunSdr \/ RunPages

(* The thread that reads runs; nothing is asked of the BMC.                *)
ReadingSpec ==
    /\ ReadingInit /\ [][ReadingNext]_allVars
    /\ WF_vars(program = "sel" /\ Scan)
    /\ WF_<<shared, sdrOwn>>(program = "sdr" /\ Sdr!Step)
    /\ WF_<<shared, pagesOwn>>(program = "pages" /\ Pages!Step)
-----------------------------------------------------------------------------
ReadingTypeOK ==
    /\ program = "sel" => TypeOK
    /\ program = "sdr" => Sdr!TypeOK
    /\ program = "pages" => Pages!TypeOK

(* While nobody changes what is read, no limit, check or repetition of a   *)
(* reader's own refuses it or leaves part of it out: a traversal returns   *)
(* the whole log or repository, a paged read the whole value.  A record    *)
(* too long to be asked for in small pieces is refused (SdrWalk).          *)
QuietReadsSucceed ==
    /\ QuietWalkSucceeds
    /\ program = "sdr" => Sdr!QuietWalkComplete
    /\ program = "pages" => Pages!QuietReadSucceeds

(* What is returned is of one piece although it was read in several: the   *)
(* bytes of a sensor record are of one version, the items of a value all   *)
(* there and in order; no record is returned twice.                        *)
ValuesIntact ==
    /\ program = "sdr" => Sdr!RecordsWhole /\ Sdr!NoneTwice
    /\ program = "pages" => Pages!ValueWhole

(* Every read ends by its own limits, whatever the BMC answers and however *)
(* often the data change.                                                  *)
Busy == IF program = "sel" THEN pc # "idle" ELSE at # "done"
ReadsEnd == Busy ~> ~Busy
=============================================================================
