--------------------------- MODULE ConsoleStream ---------------------------
(***************************************************************************)
(* What Serial over LAN promises its reader (src/README.md, "Serial over   *)
(* LAN"): the console's characters arrive once, in order and without gaps, *)
(* through a bounded queue; whatever was queued stays readable, and a      *)
(* stream that lost characters is interrupted, never continued.            *)
(*                                                                         *)
(* A character is named by its position in what the console printed.       *)
(* SolFlow implements this specification.                                  *)
(***************************************************************************)
EXTENDS Naturals, Sequences

CONSTANT QueueLimit     \* MAX_OUTPUT_QUEUE, 4096 in the code

VARIABLES
    queue,              \* characters waiting to be read
    delivered,          \* history: characters handed to the caller
    open                \* the stream has not been interrupted

stream_vars == <<queue, delivered, open>>

\* The first n characters of the console.
FirstCharacters(n) == [i \in 1..n |-> i]

InOrder == delivered \o queue = FirstCharacters(Len(delivered) + Len(queue))

StreamTypeOK ==
    /\ queue \in Seq(Nat)
    /\ delivered \in Seq(Nat)
    /\ open \in BOOLEAN
    /\ Len(queue) <= QueueLimit

StreamInit ==
    /\ queue = <<>>
    /\ delivered = <<>>
    /\ open = TRUE

\* The next n characters arrive.
Arrive(n) ==
    /\ open
    /\ Len(queue) + n <= QueueLimit
    /\ LET next == Len(delivered) + Len(queue) IN
       queue' = queue \o [i \in 1..n |-> next + i]
    /\ UNCHANGED <<delivered, open>>

\* Characters were lost, or may be: later ones may still be queued, but the
\* stream ends.
Interrupt ==
    /\ open
    /\ open' = FALSE
    /\ queue' \in Seq(Nat)
    /\ Len(queue') \in Len(queue)..QueueLimit
    /\ SubSeq(queue', 1, Len(queue)) = queue
    /\ UNCHANGED delivered

\* Queued characters may be read before and after an interruption.
Deliver(n) ==
    /\ n <= Len(queue)
    /\ delivered' = delivered \o SubSeq(queue, 1, n)
    /\ queue' = SubSeq(queue, n + 1, Len(queue))
    /\ UNCHANGED open

StreamNext ==
    \/ \E n \in 1..QueueLimit : Arrive(n) \/ Deliver(n)
    \/ Interrupt

StreamSpec == StreamInit /\ [][StreamNext]_stream_vars
=============================================================================
