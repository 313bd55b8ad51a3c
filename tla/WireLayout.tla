------------------------------ MODULE WireLayout ------------------------------
(***************************************************************************)
(* Layouts of requests and responses: which bits of a message are which    *)
(* field.  Bytes count from 0, as in the code.  A field of up to 8 bits    *)
(* has a number for its value; a wider one its bytes, the least            *)
(* significant first.                                                      *)
(***************************************************************************)
EXTENDS Integers, Sequences, FiniteSets, FiniteSetsExt, SequencesExt

Byte == 0..255
Blank(n) == [i \in 1..n |-> 0]
Bits(at, bit, width) ==
    [at |-> at, bit |-> bit, width |-> width, wide |-> FALSE, big |-> FALSE, allowed |-> 0..(2^width - 1)]
Flag(at, bit) == Bits(at, bit, 1)
U8(at) == Bits(at, 0, 8)
Wide(at, bytes) == [at |-> at, bit |-> 0, width |-> 8 * bytes, wide |-> TRUE, big |-> FALSE, allowed |-> Byte]
(* What is left of a message.                                              *)
Rest(d, at) == Wide(at, Len(d) - at)
U16(at) == Wide(at, 2)
U32(at) == Wide(at, 4)
Big(at, bytes) == [Wide(at, bytes) EXCEPT !.big = TRUE]
(* A field of which only some values, or only some bytes, exist.           *)
Of(field, S) == [field EXCEPT !.allowed = S]

EndOf(f) == f.at + (f.bit + f.width - 1) \div 8

At(d, i) == d[i + 1]
Part(b, bit, width) == (b \div 2^bit) % 2^width
BitSet(b, bit) == Part(b, bit, 1) = 1
Zeros(d, I) == \A i \in I : At(d, i) = 0
(* Are all bits of byte i outside of these zero?                           *)
Only(d, i, bits) == \A b \in (0..7) \ bits : ~BitSet(At(d, i), b)

ValueOf(d, f) ==
    IF f.wide
    THEN LET s == SubSeq(d, f.at + 1, EndOf(f) + 1) IN IF f.big THEN Reverse(s) ELSE s
    ELSE Part(At(d, f.at), f.bit, f.width)
Values(d, fields) == [x \in DOMAIN fields |-> ValueOf(d, fields[x])]

(* What the parser of a response does with it: refuse it, or read these.   *)
Reply(accepts, fields) == [accepts |-> accepts, fields |-> IF accepts THEN fields ELSE <<>>]
WhenPresent(present, more, fields) == IF present THEN more @@ fields ELSE fields
(* The fields of a part of a message that begins n bytes into it.          *)
Shift(fields, n) == [x \in DOMAIN fields |-> [fields[x] EXCEPT !.at = @ + n]]
InBounds(d, r) == r.accepts => \A x \in DOMAIN r.fields : EndOf(r.fields[x]) < Len(d)

(* A request: its fixed bits, the fields in it, and how many bytes precede *)
(* the parameter that the target stores.                                   *)
Request(base, skip, fields) == [base |-> base, skip |-> skip, fields |-> fields]
InByte(fields, v, i) ==
    MapThenSumSet(LAMBDA x :
        LET f == fields[x] IN
        IF i < f.at \/ i > EndOf(f) THEN 0
        ELSE IF f.wide THEN v[x][IF f.big THEN EndOf(f) - i + 1 ELSE i - f.at + 1]
        ELSE v[x] * 2^f.bit, DOMAIN fields)
Encode(r, v) == [i \in 1..Len(r.base) |-> r.base[i] + InByte(r.fields, v, i - 1)]

(* Values of a field, and of all fields: all at one end of their ranges    *)
(* but one, which takes any sample.                                        *)
Every(f, Op(_)) == [i \in 1..(f.width \div 8) |-> Op(i)]
Lowest(f) == IF f.wide THEN Every(f, LAMBDA i : Min(f.allowed)) ELSE Min(f.allowed)
Highest(f) == IF f.wide THEN Every(f, LAMBDA i : Max(f.allowed)) ELSE Max(f.allowed)
Samples(f) ==
    IF f.wide THEN {Lowest(f), Highest(f), Every(f, LAMBDA i : Min(f.allowed) + i)}
    ELSE IF Cardinality(f.allowed) <= 16 THEN f.allowed ELSE {Lowest(f), Lowest(f) + 1, Highest(f)}
Valuations(fields) ==
    UNION {{[[y \in DOMAIN fields |-> IF high THEN Highest(fields[y]) ELSE Lowest(fields[y])] EXCEPT ![x] = s] :
               high \in BOOLEAN, s \in Samples(fields[x])} : x \in DOMAIN fields}
=============================================================================
