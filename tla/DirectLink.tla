------------------------------ MODULE DirectLink ------------------------------
(***************************************************************************)
(* The connections without a session: the device file of the Linux driver  *)
(* (file.rs), a serial port (serial.rs) and the AMI virtual CD             *)
(* (ami_usb.rs).  One request is written and its answer read from a line   *)
(* on which late answers, events and foreign frames arrive too.  The file  *)
(* tells answers apart by an unbounded number, the serial port by six bits *)
(* (Ring), the virtual CD not at all: it holds the last answer.  Both of   *)
(* these refuse every request after one whose outcome is not known.        *)
(*                                                                         *)
(* `number' counts the requests over all openings; it is not in the code.  *)
(* Netfn, command and address of a frame are those of the request: the     *)
(* worst case for the correlation.                                         *)
(***************************************************************************)
EXTENDS Integers, Sequences, FiniteSets

CONSTANTS Ring, Requests, Frames, Foreign, Openings

VARIABLES
    pc, link, call, uncertain,
    pending,    \* the request an answer is expected for, or NoRequest
    sequence,   \* the last sequence number used on this opening
    number, cancelled,
    queue,      \* what has arrived, oldest first (virtual CD: the last answer)
    working,    \* requests at the BMC that it may still answer
    unrelated, status,
    openings,   \* how often it was opened; `opened': the number it began with
    opened,
    foreign,    \* events and frames of others so far
    listened    \* history: a receiver was open on this opening
own == <<link, call, pending, sequence, number, cancelled, queue, working,
         unrelated, status, openings, opened, foreign, listened>>
vars == <<pc, uncertain, own>>

NoRequest == [number |-> 0, sequence |-> -1, bridged |-> FALSE]
Outcome(k, n) == [kind |-> k, of |-> n]

(* What a frame is: the answer of the BMC itself; for a bridged request    *)
(* the refusal, the bare acknowledgement, one with the reply in it or one  *)
(* with something else, and the reply on its own; an event; noise.         *)
Frame(r, part) == [number |-> r.number, sequence |-> r.sequence, part |-> part]
Outer == {"answer", "refused", "ack", "nested", "garbled"}

Init ==
    /\ link \in {"file", "serial", "ami"}
    /\ pc = "idle" /\ call = "none" /\ pending = NoRequest /\ uncertain = FALSE
    /\ sequence = (IF link = "file" THEN -1 ELSE 0) /\ number = 0
    /\ cancelled = FALSE /\ queue = <<>> /\ working = {}
    /\ unrelated = 0 /\ status = Outcome("none", 0)
    /\ openings = 1 /\ opened = 0 /\ foreign = 0 /\ listened = FALSE

Return(kind, n) == pc' = "idle" /\ status' = Outcome(kind, n) /\ call' = "none"
-----------------------------------------------------------------------------
(* The calls: send(), recv() and send_recv(), and send_recv_deadline() with *)
(* a deadline and a token of its own.                                      *)
Begin(c) ==
    /\ pc = "idle" /\ number < Requests
    /\ pc' = "sending" /\ call' = c /\ status' = Outcome("none", 0)
    /\ UNCHANGED <<uncertain, link, pending, sequence, number, cancelled, queue, working,
                   unrelated, openings, opened, foreign, listened>>

(* What is refused before the request gets a number, apart from a netfn,   *)
(* target or length that the link cannot carry: an uncertain connection, a *)
(* pending request, the token; and with a deadline of the caller's, that.  *)
FileRefuses == call = "bounded" /\ cancelled
SerialRefuses == uncertain \/ pending # NoRequest \/ cancelled
AmiRefuses == uncertain \/ pending # NoRequest \/ cancelled
Refused ==
    CASE link = "file" -> FileRefuses [] link = "serial" -> SerialRefuses [] link = "ami" -> AmiRefuses
Refuse ==
    /\ pc = "sending"
    /\ Refused \/ call # "enables"
    /\ Return("refused", number)
    /\ UNCHANGED <<uncertain, link, pending, sequence, number, cancelled, queue, working,
                   unrelated, openings, opened, foreign, listened>>

(* The request gets its number and is pending from here on.  Only the      *)
(* serial port wraps a request for another controller itself.              *)
Accept(bridged) ==
    /\ pc = "sending" /\ ~Refused
    /\ bridged => link = "serial"
    /\ number' = number + 1
    /\ sequence' = IF link = "serial" THEN (sequence + 1) % Ring ELSE sequence + 1
    /\ pending' = [number |-> number + 1, sequence |-> sequence', bridged |-> bridged]
    /\ pc' = "writing"
    /\ UNCHANGED <<uncertain, link, call, cancelled, queue, working, unrelated, status,
                   openings, opened, foreign, listened>>

Waiting == IF call = "send" THEN Return("sent", number) ELSE pc' = "outer" /\ UNCHANGED <<status, call>>

(* The whole request is out.  The virtual CD is busy with it: the last     *)
(* answer is gone.                                                         *)
WriteDone ==
    /\ pc = "writing"
    /\ working' = working \union {Frame(pending, IF pending.bridged THEN "bridge" ELSE "answer")}
    /\ queue' = IF link = "ami" THEN <<>> ELSE queue
    /\ Waiting /\ unrelated' = 0
    /\ UNCHANGED <<uncertain, link, pending, sequence, number, cancelled, openings, opened, foreign, listened>>

(* The driver takes a request or refuses it.                               *)
FileWriteFails ==
    /\ link = "file" /\ pc = "writing"
    /\ pending' = NoRequest /\ Return("failed", number)
    /\ UNCHANGED <<uncertain, link, sequence, number, cancelled, queue, working, unrelated, openings, opened, foreign, listened>>
(* A failed write, or the token or the deadline noticed between two parts  *)
(* of it: only the complete frame has an effect.                           *)
Poison == pending' = NoRequest /\ uncertain' = TRUE /\ Return("unknown", number)
SerialWriteFails ==
    /\ link = "serial" /\ pc = "writing" /\ Poison
    /\ UNCHANGED <<link, sequence, number, cancelled, queue, working, unrelated, openings, opened, foreign, listened>>
(* The failed transfer may have been the last one, and done.               *)
AmiWriteFails ==
    /\ link = "ami" /\ pc = "writing" /\ Poison
    /\ working' \in {working, working \union {Frame(pending, "answer")}}
    /\ UNCHANGED <<link, sequence, number, cancelled, queue, unrelated, openings, opened, foreign, listened>>

(* recv() on its own.  The file knows no pending request and reads         *)
(* whatever is there.                                                      *)
Recv ==
    /\ pc = "idle" /\ number > 0
    /\ IF link # "file" /\ pending = NoRequest
       THEN Return("refused", number) /\ UNCHANGED unrelated
       ELSE pc' = "outer" /\ call' = "recv" /\ unrelated' = 0 /\ status' = Outcome("none", 0)
    /\ UNCHANGED <<uncertain, link, pending, sequence, number, cancelled, queue, working,
                   openings, opened, foreign, listened>>
-----------------------------------------------------------------------------
Oldest == Head(queue)
(* A variant of FileMatches: the file takes whatever response is there.    *)
FileMatches_AnyNumber == TRUE

(* Does the frame answer what is awaited?  The virtual CD cannot tell, and  *)
(* the file asks for a response with the number of its last request: that   *)
(* it is no event (recv_type) it does not ask.                             *)
FileMatches == Oldest.sequence = sequence
SerialMatches ==
    /\ Oldest.sequence = pending.sequence
    /\ Oldest.part \in (IF pc = "inner" THEN {"reply"} ELSE Outer)
Matches ==
    CASE link = "file" -> FileMatches [] link = "serial" -> SerialMatches [] link = "ami" -> TRUE

(* recv() takes the pending request; an error of any kind leaves the       *)
(* connection uncertain, except for the file.                              *)
RecvFails ==
    /\ pending' = NoRequest
    /\ uncertain' = (uncertain \/ link # "file")
    /\ Return(IF link = "file" THEN "failed" ELSE "unknown", number)

Deliver ==
    /\ pc \in {"outer", "inner"} /\ queue # <<>> /\ Matches
    /\ Oldest.part \in {"answer", "refused", "reply", "nested", "event"}
    /\ pending' = NoRequest
    /\ IF call \in {"enables", "buffer"}
       THEN /\ pc' \in (IF call = "enables" THEN {"enabling", "subscribing"} ELSE {"subscribing"})
            /\ status' = Outcome("answer", Oldest.number) /\ UNCHANGED call
       ELSE Return("answer", Oldest.number)
    /\ queue' = IF link = "ami" THEN queue ELSE Tail(queue)
    /\ UNCHANGED <<uncertain, link, sequence, number, cancelled, working, unrelated,
                   openings, opened, foreign, listened>>

(* A bare acknowledgement: the reply of the bridged controller follows,    *)
(* within the same deadline, and with a count of its own.                  *)
Acknowledged ==
    /\ pc = "outer" /\ queue # <<>> /\ Matches /\ Oldest.part = "ack"
    /\ pc' = "inner" /\ unrelated' = 0 /\ queue' = Tail(queue)
    /\ UNCHANGED <<uncertain, link, call, pending, sequence, number, cancelled, working, status,
                   openings, opened, foreign, listened>>

(* A frame that is not the one awaited.  The serial port counts and goes   *)
(* on; the file consumes it and reports an error, and so does the serial   *)
(* port with an acknowledgement that makes no sense.                       *)
Mismatch ==
    /\ pc \in {"outer", "inner"} /\ queue # <<>>
    /\ ~Matches \/ Oldest.part = "garbled"
    /\ queue' = Tail(queue)
    /\ IF link = "serial" /\ ~Matches /\ unrelated + 1 < Frames
       THEN unrelated' = unrelated + 1 /\ UNCHANGED <<pc, pending, uncertain, status, call>>
       ELSE RecvFails /\ UNCHANGED unrelated
    /\ UNCHANGED <<link, sequence, number, cancelled, working, openings, opened, foreign, listened>>

(* The token, the deadline, an error of the line or of the virtual CD's    *)
(* status.                                                                 *)
GiveUp ==
    /\ pc \in {"outer", "inner"}
    /\ RecvFails
    /\ UNCHANGED <<link, sequence, number, cancelled, queue, working, unrelated,
                   openings, opened, foreign, listened>>
-----------------------------------------------------------------------------
(* The local event receiver of file.rs.  Get BMC Global Enables, Set only  *)
(* if the event buffer is off, both through send_recv(); then the          *)
(* subscription, which may fail.  While it is open the file is borrowed.   *)
OpenReceiver ==
    /\ pc = "idle" /\ link = "file" /\ number + 1 < Requests
    /\ pc' = "sending" /\ call' = "enables" /\ status' = Outcome("none", 0)
    /\ UNCHANGED <<uncertain, link, pending, sequence, number, cancelled, queue, working,
                   unrelated, openings, opened, foreign, listened>>
Enable ==
    /\ pc = "enabling"
    /\ pc' = "sending" /\ call' = "buffer" /\ status' = Outcome("none", 0)
    /\ UNCHANGED <<uncertain, link, pending, sequence, number, cancelled, queue, working,
                   unrelated, openings, opened, foreign, listened>>
Subscribe ==
    /\ pc = "subscribing"
    /\ \/ pc' = "subscribed" /\ call' = "events" /\ listened' = TRUE /\ UNCHANGED status
       \/ Return("failed", number) /\ UNCHANGED listened
    /\ UNCHANGED <<uncertain, link, pending, sequence, number, cancelled, queue, working,
                   unrelated, openings, opened, foreign>>
(* recv_until() consumes the message before it looks at its type.          *)
ReceiveEvent ==
    /\ pc = "subscribed" /\ queue # <<>> /\ ~cancelled
    /\ queue' = Tail(queue)
    /\ status' = Outcome(IF Oldest.part = "event" THEN "event" ELSE "failed", Oldest.number)
    /\ UNCHANGED <<pc, call, uncertain, link, pending, sequence, number, cancelled, working,
                   unrelated, openings, opened, foreign, listened>>
(* close() and Drop; whether the driver agrees is only reported.           *)
Unsubscribe ==
    /\ pc = "subscribed"
    /\ pc' = "idle" /\ call' = "none"
    /\ UNCHANGED <<uncertain, link, pending, sequence, number, cancelled, queue, working,
                   unrelated, status, openings, opened, foreign, listened>>
-----------------------------------------------------------------------------
(* The BMC, the line and the caller.                                       *)
Arrive(f) == IF link = "ami" THEN <<f>> ELSE Append(queue, f)

Answer ==
    \E f \in working :
        /\ \E part \in (IF f.part = "answer" THEN {"answer"}
                        ELSE IF f.part = "reply" THEN {"reply"} ELSE {"refused", "ack", "nested", "garbled"}) :
              /\ queue' = Arrive([f EXCEPT !.part = part])
              /\ working' = (working \ {f}) \union (IF part = "ack" THEN {[f EXCEPT !.part = "reply"]} ELSE {})
        /\ UNCHANGED <<pc, uncertain, link, call, pending, sequence, number, cancelled,
                       unrelated, status, openings, opened, foreign, listened>>
(* An event for a subscriber, with a number that is the driver's: it may be *)
(* that of a request, and may stay queued after the last recv_until(); or   *)
(* noise on the serial line.                                               *)
Other ==
    /\ foreign < Foreign
    /\ \/ /\ link = "file" /\ pc = "subscribed"
          /\ \E msg_id \in -1..Requests : queue' = Append(queue, Frame([NoRequest EXCEPT !.sequence = msg_id], "event"))
       \/ link = "serial" /\ queue' = Append(queue, Frame(NoRequest, "noise"))
    /\ foreign' = foreign + 1
    /\ UNCHANGED <<pc, uncertain, link, call, pending, sequence, number, cancelled, working,
                   unrelated, status, openings, opened, listened>>
Cancel ==
    /\ cancelled' = ~cancelled /\ (cancelled => pc = "idle")
    /\ UNCHANGED <<pc, uncertain, link, call, pending, sequence, number, queue, working,
                   unrelated, status, openings, opened, foreign, listened>>
(* Closing and opening again, as the documentation asks after an uncertain *)
(* outcome.  The driver drops what it holds for the file; the BMC at the   *)
(* other end of a serial line goes on with what it was asked, and the      *)
(* numbers start again.                                                    *)
Reopen ==
    /\ pc = "idle" /\ openings < Openings
    /\ openings' = openings + 1 /\ opened' = number
    /\ sequence' = (IF link = "file" THEN -1 ELSE 0)
    /\ pending' = NoRequest /\ uncertain' = FALSE /\ cancelled' = FALSE /\ queue' = <<>>
    /\ working' = IF link = "file" THEN {} ELSE working
    /\ listened' = FALSE /\ status' = Outcome("none", 0)
    /\ UNCHANGED <<pc, link, call, number, unrelated, foreign>>

Next ==
    \/ \E c \in {"send", "both", "bounded"} : Begin(c)
    \/ Refuse \/ \E b \in BOOLEAN : Accept(b) \/ WriteDone \/ FileWriteFails \/ SerialWriteFails \/ AmiWriteFails \/ Recv
    \/ Deliver \/ Acknowledged \/ Mismatch \/ GiveUp
    \/ OpenReceiver \/ Enable \/ Subscribe \/ ReceiveEvent \/ Unsubscribe
    \/ Answer \/ Other \/ Cancel \/ Reopen

Spec == Init /\ [][Next]_vars
-----------------------------------------------------------------------------
TypeOK ==
    /\ link \in {"file", "serial", "ami"}
    /\ pc \in {"idle", "sending", "writing", "outer", "inner", "enabling", "subscribing", "subscribed"}
    /\ uncertain \in BOOLEAN /\ cancelled \in BOOLEAN
    /\ number \in 0..Requests /\ sequence \in -1..Requests
    /\ unrelated < Frames /\ Len(queue) <= 2 * Requests + Foreign
    /\ pending.number \in {0, number}

(* A response that a call returns answers the last request begun: no late  *)
(* answer, event or foreign frame is taken for it (file.rs, serial.rs,     *)
(* ami_usb.rs).  Excepted are the answers that an opening before left      *)
(* behind: see ReopenedIsFresh.  When a reopened serial port takes one,    *)
(* the answer it displaces stays on the line and may be taken in turn, but *)
(* no sooner than its number comes round again.  Answers of the virtual CD *)
(* have no number: all of a second opening are excepted.  And a file on    *)
(* which an event receiver was open may take one of its events             *)
(* (README.md:150-153), but never a late answer of its own.                *)
AnswersCurrent ==
    status.kind = "answer" =>
        \/ status.of = number
        \/ link = "file" /\ listened /\ status.of = 0
        \/ link # "file" /\ status.of \in 1..opened
        \/ link = "serial" /\ openings > 1 /\ number - status.of >= Ring
        \/ link = "ami" /\ openings > 1

(* README.md:820-824: after an ambiguous failure "reopen the serial        *)
(* connection before any later operation" -- so that, reopened, a response *)
(* answers a request of this opening.                                      *)
ReopenedIsFresh ==
    link = "serial" /\ status.kind = "answer" => status.of = number

(* The comment in recv() of file.rs (:614-618): "any data received here    *)
(* will be in response to command we have sent".                           *)
OnlyResponsesRead ==
    [][link = "file" /\ pc = "outer" /\ queue # <<>> /\ queue' = Tail(queue) => Oldest.part = "answer"]_vars
=============================================================================
