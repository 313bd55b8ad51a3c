----------------------------- MODULE IpmbState -----------------------------
(***************************************************************************)
(* Correlation of IPMB requests and replies inside one RMCP session, from  *)
(* `IpmbState` in src/ipmi-rs/src/rmcp/internal.rs.                        *)
(*                                                                         *)
(* A session owns a ring of six-bit IPMB sequence numbers (NSeq of them,   *)
(* 64 in the code).  A request to the local BMC takes one number; a        *)
(* bridged request takes one per Send Message hop and one for the target's *)
(* reply; every read-only queue poll takes one more.  A number is retired  *)
(* when it is issued, for the life of the session.  At most one request is *)
(* pending.  Its acknowledgements, its final reply and the queue polls may *)
(* reach the client in any order, late, twice, nested in one another or    *)
(* not at all.                                                             *)
(*                                                                         *)
(* What the managed side may put on the wire is Datagrams: any nesting of  *)
(* replies to anything that was ever issued in the session, plus           *)
(* well-formed foreign messages, corrupt ones and short ones.  Nothing is  *)
(* ever removed from it, so loss, delay, duplication and reordering are    *)
(* all included.                                                           *)
(***************************************************************************)
EXTENDS Integers, FiniteSets, Sequences

CONSTANTS
    NSeq,           \* size of the sequence ring (64 in the code)
    Requests,       \* the requests the caller may make
    MaxOps,         \* bound on the requests begun (and so on the history)
    MaxLayers,      \* bound on the nesting of one datagram
    NoReply,        \* None for Option<ExpectedReply> and Option<Response>
    NoPending       \* None for Option<PendingRequest>

responder_addr == 32                 \* 0x20, the BMC
requestor_addr == 129                \* 0x81, the remote software ID

Current == 14                        \* Channel::Current
System  == 15                        \* Channel::System
Primary == 0                         \* Channel::Primary

QueueCommands == {"GetMessage", "GetMessageFlags"}
RequestCommands == {r.cmd : r \in Requests}
Commands == RequestCommands \cup QueueCommands \cup {"SendMessage"}

(***************************************************************************)
(* An expected reply.  netfn is folded into cmd and the LUNs into the      *)
(* addresses.  `op`, the number of the request it was issued for, is a     *)
(* history component: correlation never looks at it.                       *)
(***************************************************************************)
ExpectedReply ==
    [sequence : 0..(NSeq - 1), cmd : Commands, responder : Nat,
     requestor : Nat, op : Nat]

MaybeReply == ExpectedReply \cup {NoReply}

PendingRequest ==
    [final_reply     : ExpectedReply,
     send_acks       : [{0, 1} -> MaybeReply],
     acked           : [{0, 1} -> BOOLEAN],
     poll            : MaybeReply,
     deferred        : MaybeReply,
     queue_channel   : Nat,
     queue_available : BOOLEAN,
     poll_blocked    : BOOLEAN]

Hop == [address : 0..255, channel : 0..15]

(***************************************************************************)
(* A request: a Bmc target has no hop, BmcOrIpmb one, Bridged one or two   *)
(* (transit first).  `netfn` is the request value, `len` the data length.  *)
(***************************************************************************)
Request ==
    [kind : {"Bmc", "BmcOrIpmb", "Bridged"}, hops : Seq(Hop),
     cmd : STRING, netfn : Nat, len : Nat]

ASSUME ConstantsAssumption ==
    /\ NSeq \in Nat \ {0}
    /\ MaxOps \in Nat
    /\ MaxLayers \in Nat \ {0}
    /\ \A r \in Requests :
          /\ r \in Request
          /\ r.kind = "Bmc" => Len(r.hops) = 0
          /\ r.kind = "BmcOrIpmb" => Len(r.hops) = 1
          /\ r.kind = "Bridged" => Len(r.hops) \in {1, 2}
    /\ NoReply \notin ExpectedReply
    /\ NoPending \notin PendingRequest

VARIABLES
    ipmb_sequence,          \* next number to issue
    retired_sequences,      \* the numbers already issued
    pending,                \* Option<PendingRequest>
    get_message_supported,  \* queue commands not yet refused or exhausted
    reserved_sequences,     \* Option<usize>, NoReservation for None
    op,                     \* history: number of requests begun
    issued,                 \* history: every expected reply ever issued
    heard,                  \* history: successful acks received for `op`
    result                  \* what the last call returned

vars == <<ipmb_sequence, retired_sequences, pending, get_message_supported,
          reserved_sequences, op, issued, heard, result>>

NoReservation == -1

(***************************************************************************)
(* Result of a call.  "mismatch" stands for IpmbResponseMismatch, the only *)
(* receive error the session loop counts and survives; "fatal" for every   *)
(* other one.  `opened` is history: the expected replies that correlate()  *)
(* accepted in the call.                                                   *)
(***************************************************************************)
BeginErrors == {"RequestPending", "InvalidNetfn", "InvalidBridgeTarget",
                "BridgePayloadTooLarge", "IpmbSequenceExhausted"}
Outcomes == BeginErrors \cup
            {"ok", "sent", "none", "response", "mismatch", "fatal",
             "IpmbSequenceReserved"}

Result == [outcome : Outcomes, opened : SUBSET ExpectedReply,
           response : MaybeReply]

Return(outcome) ==
    [outcome |-> outcome, opened |-> {}, response |-> NoReply]

TypeOK ==
    /\ ipmb_sequence \in 0..(NSeq - 1)
    /\ retired_sequences \subseteq 0..(NSeq - 1)
    /\ pending \in PendingRequest \cup {NoPending}
    /\ get_message_supported \in BOOLEAN
    /\ reserved_sequences \in Nat \cup {NoReservation}
    /\ op \in Nat
    /\ issued \subseteq ExpectedReply
    /\ heard \subseteq ExpectedReply
    /\ result \in Result

Init ==
    /\ ipmb_sequence = 0
    /\ retired_sequences = {}
    /\ pending = NoPending
    /\ get_message_supported = TRUE
    /\ reserved_sequences = NoReservation
    /\ op = 0
    /\ issued = {}
    /\ heard = {}
    /\ result = Return("ok")

-----------------------------------------------------------------------------
(***************************************************************************)
(* Sequence numbers and the reservation.                                   *)
(***************************************************************************)

\* Faulty variant: the ring does not wrap.
Ahead_NoWrap(i) == ipmb_sequence + i

\* The i-th number from the next one to issue.
Ahead(i) == (ipmb_sequence + i) % NSeq

\* remaining_sequences() >= n: the next n numbers were never issued.
Unretired(n) == n <= NSeq /\ \A i \in 0..(n - 1) : Ahead(i) \notin retired_sequences

\* The expected reply next_reply() builds for the i-th number from here.
Reply(i, cmd, responder, requestor, owner) ==
    [sequence |-> Ahead(i), cmd |-> cmd, responder |-> responder,
     requestor |-> requestor, op |-> owner]

\* Faulty variant: next_reply() forgets to retire the numbers.
Issue_NotRetired(n, rs) ==
    /\ ipmb_sequence' = Ahead(n)
    /\ issued' = issued \cup rs
    /\ UNCHANGED retired_sequences

\* The effect of n calls of next_reply() that built the replies rs.
Issue(n, rs) ==
    /\ ipmb_sequence' = Ahead(n)
    /\ retired_sequences' = retired_sequences \cup {Ahead(i) : i \in 0..(n - 1)}
    /\ issued' = issued \cup rs

\* The caller may make a call: a fatal error ends the receive loop, whose
\* next step is to retire the request.
Ready == result.outcome # "fatal"

ReserveSequences(minimum) ==
    /\ Ready
    /\ pending = NoPending
    /\ reserved_sequences = NoReservation
    /\ Unretired(minimum)
    /\ reserved_sequences' = minimum
    /\ result' = Return("ok")
    /\ UNCHANGED <<ipmb_sequence, retired_sequences, pending,
                   get_message_supported, op, issued, heard>>

ReleaseSequences ==
    /\ Ready
    /\ reserved_sequences # NoReservation
    /\ reserved_sequences' = NoReservation
    /\ result' = Return("ok")
    /\ UNCHANGED <<ipmb_sequence, retired_sequences, pending,
                   get_message_supported, op, issued, heard>>

-----------------------------------------------------------------------------
(***************************************************************************)
(* Sending a request.                                                      *)
(***************************************************************************)

\* The Send Message hops of a request, BMC side first; none for the BMC.
Route(req) ==
    IF /\ req.kind = "BmcOrIpmb"
       /\ req.hops[1].address = responder_addr
       /\ req.hops[1].channel \in {Current, Primary}
    THEN <<>>
    ELSE req.hops

valid_hop(hop) ==
    /\ hop.address >= 2
    /\ hop.address % 2 = 0
    /\ hop.channel \notin {Current, System}

ValidRoute(route) ==
    /\ \A i \in DOMAIN route : valid_hop(route[i])
    /\ Len(route) = 2 => /\ route[1] # route[2]
                         /\ route[1].address # responder_addr

\* Sequence numbers a request takes, and the length of its wrapped payload.
Needed(req) == 1 + Len(Route(req))
WrappedLength(req) == 7 + req.len + 8 * Len(Route(req))

\* Faulty variant: a second request replaces the pending one.
Refusal_Replaces(req) ==
    IF req.netfn > 62 THEN "InvalidNetfn"
    ELSE IF ~ ValidRoute(Route(req)) THEN "InvalidBridgeTarget"
    ELSE IF Route(req) # <<>> /\ WrappedLength(req) > 255
         THEN "BridgePayloadTooLarge"
    ELSE IF \/ reserved_sequences \in 0..(Needed(req) - 1)
            \/ ~ Unretired(Needed(req))
         THEN "IpmbSequenceExhausted"
    ELSE "sent"

Refusal(req) ==
    IF pending # NoPending THEN "RequestPending"
    ELSE IF req.netfn > 62 THEN "InvalidNetfn"
    ELSE IF ~ ValidRoute(Route(req)) THEN "InvalidBridgeTarget"
    ELSE IF Route(req) # <<>> /\ WrappedLength(req) > 255
         THEN "BridgePayloadTooLarge"
    ELSE IF \/ reserved_sequences \in 0..(Needed(req) - 1)
            \/ ~ Unretired(Needed(req))
         THEN "IpmbSequenceExhausted"
    ELSE "sent"

\* The acknowledgement expected from hop h (0 is the BMC, 1 the transit).
SendAck(req, h) ==
    IF h < Len(Route(req))
    THEN Reply(h, "SendMessage",
               IF h = 0 THEN responder_addr ELSE Route(req)[1].address,
               requestor_addr, op + 1)
    ELSE NoReply

\* The target answers the last hop: the client, or the BMC for two hops.
FinalReply(req) ==
    LET route == Route(req) IN
    Reply(Len(route), req.cmd,
          IF route = <<>> THEN responder_addr ELSE route[Len(route)].address,
          IF Len(route) = 2 THEN responder_addr ELSE requestor_addr, op + 1)

NewPending(req) ==
    [final_reply     |-> FinalReply(req),
     send_acks       |-> [h \in {0, 1} |-> SendAck(req, h)],
     acked           |-> [h \in {0, 1} |-> FALSE],
     poll            |-> NoReply,
     deferred        |-> NoReply,
     queue_channel   |-> IF Route(req) = <<>> THEN 0 ELSE Route(req)[1].channel,
     queue_available |-> FALSE,
     poll_blocked    |-> FALSE]

BeginRefused(req) ==
    /\ Ready
    /\ Refusal(req) # "sent"
    /\ result' = Return(Refusal(req))
    /\ UNCHANGED <<ipmb_sequence, retired_sequences, pending,
                   get_message_supported, reserved_sequences, op, issued, heard>>

Begin(req) ==
    /\ Ready
    /\ op < MaxOps
    /\ Refusal(req) = "sent"
    /\ pending' = NewPending(req)
    /\ reserved_sequences' = IF reserved_sequences = NoReservation
                             THEN NoReservation
                             ELSE reserved_sequences - Needed(req)
    /\ Issue(Needed(req),
             {FinalReply(req)} \cup {SendAck(req, h) : h \in 0..(Len(Route(req)) - 1)})
    /\ op' = op + 1
    /\ heard' = {}
    /\ result' = Return("sent")
    /\ UNCHANGED get_message_supported

\* A failed send, a timeout, a fatal receive error, too many unrelated
\* datagrams: the request is forgotten, its numbers stay retired.
RetirePending ==
    /\ pending # NoPending
    /\ pending' = NoPending
    /\ result' = Return("ok")
    /\ UNCHANGED <<ipmb_sequence, retired_sequences, get_message_supported,
                   reserved_sequences, op, issued, heard>>

-----------------------------------------------------------------------------
(***************************************************************************)
(* Polling the BMC's receive queue.                                        *)
(***************************************************************************)

NeedsPoll ==
    /\ pending # NoPending
    /\ get_message_supported
    /\ ~ pending.poll_blocked
    /\ pending.send_acks[0] # NoReply
    /\ pending.acked[0]
    /\ pending.poll = NoReply

\* Faulty variant: a poll may take the last number in front of the reservation.
AtReservation_OffByOne == /\ reserved_sequences # NoReservation
                          /\ ~ Unretired(reserved_sequences)

\* remaining_sequences() <= minimum, when there is a reservation.
AtReservation == /\ reserved_sequences # NoReservation
                 /\ ~ Unretired(reserved_sequences + 1)

PollReply ==
    Reply(0, IF pending.queue_available THEN "GetMessage" ELSE "GetMessageFlags",
          responder_addr, requestor_addr, op)

PollMessage ==
    /\ Ready
    /\ NeedsPoll
    /\ ~ AtReservation
    /\ Unretired(1)
    /\ Issue(1, {PollReply})
    /\ pending' = [pending EXCEPT !.poll = PollReply]
    /\ result' = Return("sent")
    /\ UNCHANGED <<get_message_supported, reserved_sequences, op, heard>>

\* The poll would eat into the reservation: no more polls for this request.
PollBlocked ==
    /\ Ready
    /\ NeedsPoll
    /\ AtReservation
    /\ pending' = [pending EXCEPT !.poll_blocked = TRUE]
    /\ result' = Return("IpmbSequenceReserved")
    /\ UNCHANGED <<ipmb_sequence, retired_sequences, get_message_supported,
                   reserved_sequences, op, issued, heard>>

\* No number is left: poll_message() fails with IpmbSequenceExhausted and
\* the receive loop calls stop_polling(), for the rest of the session.
PollExhausted ==
    /\ Ready
    /\ NeedsPoll
    /\ ~ AtReservation
    /\ ~ Unretired(1)
    /\ get_message_supported' = FALSE
    /\ result' = Return("IpmbSequenceExhausted")
    /\ UNCHANGED <<ipmb_sequence, retired_sequences, pending,
                   reserved_sequences, op, issued, heard>>

-----------------------------------------------------------------------------
(***************************************************************************)
(* Datagrams.  A datagram is a sequence of layers, outermost first: a Send *)
(* Message acknowledgement or a Get Message reply may carry the next one.  *)
(*   kind  "reply"    a well-formed reply to `reply`, with a completion    *)
(*         "nocc"     the same without its completion code                 *)
(*         "foreign"  well-formed, correlates with nothing                 *)
(*         "corrupt"  wrong checksums                                      *)
(*         "short"    less than eight bytes                                *)
(*   cc    class of the completion code                                    *)
(*   first the first data byte (the flags, the queue's channel), -1 if     *)
(*         there is no data                                                *)
(***************************************************************************)
Completions == {"ok", "empty", "unsupported", "retry", "error"}

Layer == [kind : {"reply", "nocc", "foreign", "corrupt", "short"},
          reply : MaybeReply, cc : Completions, first : -1..255]

ReplyLayer(reply, cc, first) ==
    [kind |-> "reply", reply |-> reply, cc |-> cc, first |-> first]
Junk(kind) ==
    [kind |-> kind, reply |-> NoReply, cc |-> "ok", first |-> -1]

\* Channels that Get Message may report a queued message from.
QueueChannels == {Primary} \cup {r.hops[1].channel : r \in {q \in Requests : q.hops # <<>>}}

Carriers ==
    {ReplyLayer(r, "ok", c) : r \in {s \in issued : s.cmd = "GetMessage"},
                              c \in QueueChannels}
    \cup {ReplyLayer(r, "ok", -1) : r \in {s \in issued : s.cmd = "SendMessage"}}

Leaves ==
    {ReplyLayer(r, c, -1) : r \in issued, c \in {"ok", "error"}}
    \cup {ReplyLayer(r, c, f) : r \in {s \in issued : s.cmd \in QueueCommands},
                                c \in Completions, f \in {0, 1}}
    \cup {[Junk("nocc") EXCEPT !.reply = r] : r \in issued}
    \cup {Junk(k) : k \in {"foreign", "corrupt", "short"}}

Datagrams ==
    UNION {{Append(c, l) : c \in [1..n -> Carriers], l \in Leaves}
              : n \in 0..(MaxLayers - 1)}

-----------------------------------------------------------------------------
(***************************************************************************)
(* Receiving.  receive_nested() walks the layers of a datagram d.  A state *)
(* of the walk is a record s: the pending request p, `supported` (the flag *)
(* get_message_supported), the outcome so far ("descend" to open the next  *)
(* layer), the replies opened and the response.                            *)
(***************************************************************************)
Walk == [p : PendingRequest, supported : BOOLEAN,
         out : {"descend", "none", "response", "mismatch", "fatal"},
         opened : SUBSET ExpectedReply, response : MaybeReply]

\* Faulty variant: correlation by addresses and command only.
SameReply_NoSequence(r, e) ==
    /\ r.cmd = e.cmd
    /\ r.responder = e.responder
    /\ r.requestor = e.requestor

\* correlate(): every field of the reply but the history one.
SameReply(r, e) ==
    /\ r.sequence = e.sequence
    /\ r.cmd = e.cmd
    /\ r.responder = e.responder
    /\ r.requestor = e.requestor

Correlates(layer, e) ==
    /\ e # NoReply
    /\ layer.kind = "reply"
    /\ SameReply(layer.reply, e)

\* Faulty variant: the transit's acknowledgement is not waited for.
AllAcked_BmcOnly(p) == p.send_acks[0] = NoReply \/ p.acked[0]

AllAcked(p) == \A h \in {0, 1} : p.send_acks[h] = NoReply \/ p.acked[h]

Open(s, layer) == [s EXCEPT !.opened = @ \cup {layer.reply}]
Stop(s, out) == [s EXCEPT !.out = out]
Respond(s, reply) == [s EXCEPT !.out = "response", !.response = reply]

\* The next layer's body, seen as the queued message of a Get Message reply.
OpenQueued(s, layer, rest) ==
    IF rest = <<>> \/ rest[1].kind = "short" THEN Stop(s, "fatal")
    ELSE IF layer.first # s.p.queue_channel THEN Stop(s, "mismatch")
    ELSE IF rest[1].kind = "corrupt" THEN Stop(s, "fatal")
    ELSE Stop(s, "descend")

\* Faulty variant: a refused acknowledgement counts as one.
OpenAck_AnyCompletion(s, layer, rest, h) ==
    LET acked == Open([s EXCEPT !.p.acked[h] = TRUE], layer) IN
    CASE rest # <<>> -> Stop(acked, "descend")
      [] rest = <<>> /\ AllAcked(acked.p) /\ s.p.deferred # NoReply ->
           Respond([acked EXCEPT !.p.deferred = NoReply], s.p.deferred)
      [] OTHER -> Stop(acked, "none")

\* A reply to the outstanding poll.
OpenPoll(s, layer, rest) ==
    LET cmd   == s.p.poll.cmd
        taken == Open([s EXCEPT !.p.poll = NoReply], layer)
        empty == [taken EXCEPT !.p.queue_available = FALSE]
    IN  CASE layer.cc = "ok" /\ cmd = "GetMessageFlags" ->
                IF layer.first = -1 \/ rest # <<>> THEN Stop(taken, "fatal")
                ELSE Stop([taken EXCEPT !.p.queue_available = (layer.first % 2 = 1)],
                          "none")
          [] layer.cc = "ok" /\ cmd = "GetMessage" -> OpenQueued(empty, layer, rest)
          [] layer.cc = "empty" /\ cmd = "GetMessage" -> Stop(empty, "none")
          [] layer.cc = "unsupported" ->
                Stop([taken EXCEPT !.supported = FALSE], "none")
          [] layer.cc = "retry" -> Stop(empty, "none")
          [] OTHER -> Stop(taken, "fatal")

\* An acknowledgement of Send Message hop h.
OpenAck(s, layer, rest, h) ==
    IF s.p.acked[h] THEN Stop(s, "mismatch")
    ELSE IF layer.cc # "ok" THEN Stop(Open(s, layer), "fatal")
    ELSE LET acked == Open([s EXCEPT !.p.acked[h] = TRUE], layer) IN
         CASE rest # <<>> -> Stop(acked, "descend")
           [] rest = <<>> /\ AllAcked(acked.p) /\ s.p.deferred # NoReply ->
                Respond([acked EXCEPT !.p.deferred = NoReply], s.p.deferred)
           [] OTHER -> Stop(acked, "none")

\* Anything else must be the final reply; it waits for the missing acks.
OpenFinal(s, layer) ==
    CASE Correlates(layer, s.p.final_reply) ->
            IF AllAcked(s.p) THEN Respond(Open(s, layer), layer.reply)
            ELSE IF s.p.deferred # NoReply THEN Stop(s, "mismatch")
            ELSE Stop(Open([s EXCEPT !.p.deferred = layer.reply], layer), "none")
      [] layer.kind = "foreign" -> Stop(s, "mismatch")
      [] layer.kind = "reply" /\ ~ Correlates(layer, s.p.final_reply) ->
            Stop(s, "mismatch")
      [] layer.kind = "nocc" ->
            Stop(s, IF SameReply(layer.reply, s.p.final_reply) THEN "fatal"
                    ELSE "mismatch")
      [] OTHER -> Stop(s, "fatal")

OpenLayer(s, d, depth) ==
    LET layer == d[depth + 1]
        rest  == SubSeq(d, depth + 2, Len(d))
    IN  CASE depth > 2 -> Stop(s, "mismatch")
          [] depth <= 2 /\ Correlates(layer, s.p.poll) -> OpenPoll(s, layer, rest)
          [] /\ depth <= 2
             /\ ~ Correlates(layer, s.p.poll)
             /\ Correlates(layer, s.p.send_acks[0]) -> OpenAck(s, layer, rest, 0)
          [] /\ depth <= 2
             /\ ~ Correlates(layer, s.p.poll)
             /\ ~ Correlates(layer, s.p.send_acks[0])
             /\ Correlates(layer, s.p.send_acks[1]) -> OpenAck(s, layer, rest, 1)
          [] OTHER -> OpenFinal(s, layer)

Descend(s, d, depth) == IF s.out = "descend" THEN OpenLayer(s, d, depth) ELSE s

receive_nested(d) ==
    LET start == [p |-> pending, supported |-> get_message_supported,
                  out |-> "descend", opened |-> {}, response |-> NoReply]
    IN  Descend(Descend(Descend(Descend(start, d, 0), d, 1), d, 2), d, 3)

\* History: the acknowledgements with a good completion code in d.
AcksIn(d) == {d[i].reply : i \in {j \in DOMAIN d :
                 d[j].kind = "reply" /\ d[j].cc = "ok" /\ d[j].reply.cmd = "SendMessage"}}

Receive(d) ==
    /\ Ready
    /\ pending # NoPending
    /\ LET end == receive_nested(d) IN
          /\ pending' = IF end.out = "response" THEN NoPending ELSE end.p
          /\ get_message_supported' = end.supported
          /\ result' = [outcome |-> end.out, opened |-> end.opened,
                        response |-> end.response]
    /\ heard' = heard \cup AcksIn(d)
    /\ UNCHANGED <<ipmb_sequence, retired_sequences, reserved_sequences, op, issued>>

-----------------------------------------------------------------------------
Next ==
    \/ \E minimum \in 0..NSeq : ReserveSequences(minimum)
    \/ ReleaseSequences
    \/ \E req \in Requests : BeginRefused(req)
    \/ \E req \in Requests : Begin(req)
    \/ RetirePending
    \/ PollMessage
    \/ PollBlocked
    \/ PollExhausted
    \/ \E d \in Datagrams : Receive(d)

Spec == Init /\ [][Next]_vars

-----------------------------------------------------------------------------
(***************************************************************************)
(* Properties.                                                             *)
(***************************************************************************)

\* No IPMB sequence number is ever issued twice in a session, whatever is
\* begun, polled, abandoned or exhausted (retired_sequences, next_reply()).
SequencesNeverReused ==
    \A r, s \in issued : r.sequence = s.sequence => r = s

\* A request only ever consumes replies to itself: no acknowledgement, poll
\* reply or final reply of an earlier, abandoned request is taken for one of
\* the current request, although correlate() compares only what is on the
\* wire and the two requests may be identical.
OnlyCurrentReplies ==
    /\ \A r \in result.opened : r.op = op
    /\ result.response # NoReply => result.response.op = op

\* receive() reports the final response of a bridged request only after a
\* successful acknowledgement of every Send Message hop has arrived, in
\* whatever order and nesting (acked, deferred).  The response itself may
\* answer a Send Message command of the caller's.
DeliveredAfterAllAcks ==
    result.outcome = "response" =>
        \A r \in issued : r.op = op /\ r.cmd = "SendMessage" =>
            r \in heard \/ r = result.response

\* Numbers set aside by reserve_sequences() stay available until they are
\* used or released: queue polls of any request in between never eat them.
ReservationHonoured ==
    reserved_sequences # NoReservation => Unretired(reserved_sequences)

\* A final reply is held back only while an acknowledgement is missing: once
\* every hop has acknowledged, receive() has reported it (deferred).
DeferredWaitsForAck ==
    pending # NoPending /\ pending.deferred # NoReply => ~ AllAcked(pending)

-----------------------------------------------------------------------------
\* What the session transports see of this state.
Contract == INSTANCE IpmbContract WITH
    waiting         <- pending # NoPending,
    needs_poll      <- NeedsPoll,
    queue_available <- pending # NoPending /\ pending.queue_available,
    budget          <- NSeq - Cardinality(retired_sequences)

\* The IPMB state keeps to what the transports rely on: a pending request is
\* never replaced, a poll belongs to a pending request, and the budget loses
\* exactly the numbers a request or a poll takes.
ImplementsContract == Contract!IpmbSpec
=============================================================================
