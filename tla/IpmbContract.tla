---------------------------- MODULE IpmbContract ----------------------------
(***************************************************************************)
(* What the session transports rely on in `IpmbState`                      *)
(* (src/ipmi-rs/src/rmcp/internal.rs): at most one request is pending, a   *)
(* poll is sent only while one is, every sequence number issued is taken   *)
(* from a budget that only shrinks, and without a budget polling stops.    *)
(* Replies, hops and acknowledgements are left out; IpmbState implements   *)
(* this specification and RmcpSession is built on its actions.             *)
(***************************************************************************)
EXTENDS Naturals

CONSTANT NSeq           \* size of the sequence ring (64 in the code)

ASSUME NSeqAssumption == NSeq \in Nat \ {0}

VARIABLES
    waiting,            \* pending.is_some()
    needs_poll,         \* needs_poll()
    queue_available,    \* queue_available()
    budget              \* remaining_sequences()

ipmb_vars == <<waiting, needs_poll, queue_available, budget>>

IpmbTypeOK ==
    /\ waiting \in BOOLEAN
    /\ needs_poll \in BOOLEAN
    /\ queue_available \in BOOLEAN
    /\ budget \in 0..NSeq
    /\ needs_poll => waiting
    /\ queue_available => waiting

IpmbInit ==
    /\ waiting = FALSE
    /\ needs_poll = FALSE
    /\ queue_available = FALSE
    /\ budget = NSeq

\* A request takes one number, and one more for each of at most two hops.
IpmbBegin ==
    /\ ~ waiting
    /\ waiting' = TRUE
    /\ \E n \in 1..3 : n <= budget /\ budget' = budget - n
    /\ UNCHANGED <<needs_poll, queue_available>>

\* The request is answered (receive() takes it) or given up.
IpmbRetire ==
    /\ waiting' = FALSE
    /\ needs_poll' = FALSE
    /\ queue_available' = FALSE
    /\ UNCHANGED budget

IpmbPoll ==
    /\ needs_poll
    /\ budget > 0
    /\ budget' = budget - 1
    /\ needs_poll' = FALSE
    /\ UNCHANGED <<waiting, queue_available>>

\* The budget is reserved for the caller, or there is none: no more polls.
IpmbPollRefused ==
    /\ needs_poll
    /\ needs_poll' = FALSE
    /\ UNCHANGED <<waiting, queue_available, budget>>

\* Whatever arrives, the request stays pending until it is answered or retired.
IpmbReceive ==
    /\ waiting
    /\ needs_poll' \in BOOLEAN
    /\ queue_available' \in BOOLEAN
    /\ UNCHANGED <<waiting, budget>>

IpmbNext ==
    \/ IpmbBegin
    \/ IpmbRetire
    \/ IpmbPoll
    \/ IpmbPollRefused
    \/ IpmbReceive

IpmbSpec == IpmbInit /\ [][IpmbNext]_ipmb_vars
=============================================================================
