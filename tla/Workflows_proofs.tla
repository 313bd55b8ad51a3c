--------------------------- MODULE Workflows_proofs ---------------------------
(***************************************************************************)
(* The workflows and the links one by one, for any size of an image, an    *)
(* inventory or a ring, any budget and any number of attempts, requests,   *)
(* openings and strays.  Updates_proofs puts them together.                *)
(*                                                                         *)
(* The argument, program by program.  V15Inv: a number accepted is at most *)
(* the last one or among those taken, so none is accepted twice.           *)
(* ActivateInv: the session is settled when the version, the suite and the *)
(* authentication are.  LinkInv: on the file and the serial port a         *)
(* frame of this opening carries the number of its request, up to the ring;*)
(* a first opening that has refused to go on after an unknown outcome has  *)
(* one request under way and nothing else.  GuardedInv: a lock that is ours*)
(* is ours until Set Complete.  SettingsInv: what is written back was read,*)
(* and was there at first or is what the other put there.  FwumInv: the    *)
(* bank that runs is never the one written, and a buffer of another size is*)
(* still to be reset or named.  KontronInv: as much is reserved as the rest*)
(* of the workflow draws, step by step.                                    *)
(***************************************************************************)
EXTENDS Workflows, WellFoundedInduction, SequenceTheorems, FiniteSetTheorems, TLAPS

\* A non-empty set of naturals has a least element.
LEMMA LeastOf ==
  ASSUME NEW T \in SUBSET Nat, T # {}
  PROVE  \E x \in T : \A y \in T : x <= y
<1> DEFINE Less == {p \in Nat \X Nat : p[1] < p[2]}
<1>1. Less = OpToRel(<, Nat)
  BY Zenon DEF OpToRel
<1>2. IsWellFoundedOn(Less, Nat)
  BY <1>1, NatLessThanWellFounded, Zenon
<1>3. PICK x \in T : \A y \in T : <<y, x>> \notin Less
  BY <1>2, WFMin, Zenon
<1>4. \A y \in T : ~ (y < x)
  BY <1>3
<1> QED
  BY <1>4

\* What a call remembers is the largest number it let through.
LEMMA LargestOf ==
  ASSUME NEW b \in Nat, NEW S \in SUBSET (0..b), S # {}
  PROVE  V15!Max(S) \in S /\ \A s \in S : s <= V15!Max(S)
<1> DEFINE T == {b - s : s \in S}
<1>1. b \in Nat /\ \A s \in S : s \in Nat /\ s <= b
  OBVIOUS
<1>2. T \in SUBSET Nat
  BY <1>1
<1>3. T # {}
  OBVIOUS
<1>4. PICK x \in T : \A y \in T : x <= y
  BY <1>2, <1>3, LeastOf
<1>5. PICK top \in S : x = b - top
  BY <1>4
<1>6. \A s \in S : b - s \in T
  OBVIOUS
<1>7. ASSUME NEW s \in S PROVE top >= s
  <2>1. b - top <= b - s
    BY <1>4, <1>5, <1>6
  <2> QED
    BY <1>1, <2>1
<1>8. V15!Max(S) \in S /\ \A s \in S : V15!Max(S) >= s
  BY <1>7 DEF V15!Max
<1> QED
  BY <1>1, <1>8

V15Inv ==
    /\ bmc_sequence \in Nat /\ last_inbound_sequence \in 0..bmc_sequence
    /\ \A d \in air : d.number \in 0..bmc_sequence
    /\ taken \in SUBSET (0..bmc_sequence)
    /\ activated <=> stage = "active"
    /\ \A n \in taken : n > last_inbound_sequence
    /\ \A n \in accepted : n <= last_inbound_sequence \/ n \in taken
    /\ \A n \in accepted : n \in 0..bmc_sequence
    /\ ~activated => accepted = {} /\ taken = {}
    /\ stage \in {"challenge", "activate"} => result = "none"
    /\ V15!TrafficOnce

\* The session before the challenge.
LEMMA V15Start == V15!Init => V15Inv
  BY DEF V15!Init, V15Inv, V15!TrafficOnce

\* commit() of what was taken leaves no accepted number above the last one.
LEMMA CommitKeeps ==
  ASSUME V15Inv, V15!Commit, taken' = {}
  PROVE  /\ last_inbound_sequence' \in 0..bmc_sequence
         /\ \A n \in accepted : n <= last_inbound_sequence'
<1>1. CASE taken = {}
  BY <1>1 DEF V15Inv, V15!Commit
<1>2. CASE taken # {}
  <2> DEFINE top == V15!Max(taken)
  <2>1. bmc_sequence \in Nat /\ taken \in SUBSET (0..bmc_sequence)
    BY DEF V15Inv
  <2>2. top \in taken /\ \A s \in taken : s <= top
    BY <1>2, <2>1, LargestOf
  <2>3. last_inbound_sequence' = top
    BY <1>2 DEF V15!Commit
  <2> HIDE DEF top
  <2>4. top > last_inbound_sequence
    BY <2>2 DEF V15Inv
  <2>5. ASSUME NEW n \in accepted PROVE n <= top
    <3>1. n <= last_inbound_sequence \/ n \in taken
      BY DEF V15Inv
    <3>2. n \in Nat /\ last_inbound_sequence \in Nat /\ top \in Nat
      BY <2>1, <2>2 DEF V15Inv
    <3> QED
      BY <2>2, <2>4, <3>1, <3>2
  <2> QED
    BY <2>1, <2>2, <2>3, <2>5
<1> QED
  BY <1>1, <1>2

\* A call that fails commits what it took, and keeps the session.
LEMMA V15FailKeeps ==
  ASSUME V15Inv, V15!Fail,
         UNCHANGED <<activated, air, bmc_sequence, accepted, twice>>
  PROVE  V15Inv'
<1>1. /\ pc' = "ready" /\ result' = "unknown" /\ V15!Commit /\ taken' = {}
      /\ stage' = IF stage = "active" THEN stage ELSE "failed"
  BY DEF V15!Fail, V15!End
<1>2. /\ last_inbound_sequence' \in 0..bmc_sequence
      /\ \A n \in accepted : n <= last_inbound_sequence'
  BY <1>1, CommitKeeps
<1> QED
  BY <1>1, <1>2 DEF V15Inv, V15!TrafficOnce

\* What is sent and answered on the way.
LEMMA V15Sending ==
  ASSUME V15Inv, V15!SendRefused \/ V15!Send \/ V15!Poll \/ V15!Broken
  PROVE  V15Inv'
<1>1. CASE V15!SendRefused
  BY <1>1 DEF V15!SendRefused, V15!End, V15Inv, V15!TrafficOnce
<1>2. CASE V15!Send
  <2>1. /\ stage # "failed"
        /\ UNCHANGED <<last_inbound_sequence, activated, taken, air, bmc_sequence, accepted, twice>>
        /\ \/ pc' = "receiving" /\ UNCHANGED <<stage, result>>
           \/ V15!End("unknown")
           \/ V15!End("refused") /\ left' = FALSE
    BY <1>2 DEF V15!Send, V15!SendPayload
  <2> QED
    BY <2>1 DEF V15!End, V15Inv, V15!TrafficOnce
<1>3. CASE V15!Poll
  <2>1. CASE V15!SendPayload(TRUE) /\ UNCHANGED <<pc, stage, result, last_inbound_sequence, taken>>
    BY <1>3, <2>1 DEF V15!Poll, V15Inv, V15!TrafficOnce
  <2>2. CASE V15!Fail
    BY <1>3, <2>2, V15FailKeeps DEF V15!Poll
  <2> QED
    BY <1>3, <2>1, <2>2 DEF V15!Poll
<1>4. CASE V15!Broken
  BY <1>4, V15FailKeeps DEF V15!Broken
<1> QED
  BY <1>1, <1>2, <1>3, <1>4

\* A number that is accepted was not accepted before: it is above the last
\* one and not among those taken, or it is not accepted.
LEMMA V15Receiving ==
  ASSUME V15Inv, NEW d \in air, V15!Drop(d) \/ V15!Partial(d) \/ V15!Challenged(d) \/ V15!Activated(d) \/ V15!Answered(d)
  PROVE  V15Inv'
<1>1. d.number \in 0..bmc_sequence /\ bmc_sequence \in Nat
  BY DEF V15Inv
<1>2. CASE V15!Drop(d)
  <2>1. CASE V15!Fail
    BY <1>2, <2>1, V15FailKeeps DEF V15!Drop
  <2>2. CASE UNCHANGED <<pc, stage, result, last_inbound_sequence, taken>>
    BY <1>2, <2>2 DEF V15!Drop, V15Inv, V15!TrafficOnce
  <2> QED
    BY <1>2, <2>1, <2>2 DEF V15!Drop, V15!Unrelated
<1>3. ASSUME activated, V15!Through(d), V15!Consume(d)
      PROVE  /\ d.number > last_inbound_sequence /\ d.number \notin taken
             /\ ~twice' /\ accepted' = accepted \union {d.number}
  <2>1. d.number > last_inbound_sequence /\ d.number \notin taken
    BY <1>1, <1>3 DEF V15!Through, V15!Stale, V15Inv
  <2>2. d.number \notin accepted
    BY <1>1, <2>1 DEF V15Inv
  <2> QED
    BY <1>3, <2>1, <2>2 DEF V15!Consume, V15Inv, V15!TrafficOnce
<1>4. CASE V15!Partial(d)
  <2>1. V15!Through(d) /\ activated /\ V15!Consume(d) /\ taken' = taken \union {d.number} /\ pc = "receiving"
        /\ UNCHANGED <<pc, stage, last_inbound_sequence, activated, air, bmc_sequence, left, result>>
    BY <1>4 DEF V15!Partial, V15!Through
  <2> QED
    BY <1>1, <1>3, <2>1 DEF V15Inv, V15!TrafficOnce
<1>5. CASE V15!Challenged(d)
  BY <1>5 DEF V15!Challenged, V15Inv, V15!TrafficOnce
<1>6. CASE V15!Activated(d)
  BY <1>6 DEF V15!Activated, V15Inv, V15!TrafficOnce
<1>7. CASE V15!Answered(d)
  <2> DEFINE S == taken \union {d.number}
             top == V15!Max(S)
  <2>1. V15!Through(d) /\ V15!Consume(d) /\ last_inbound_sequence' = top /\ taken' = {}
        /\ pc' = "ready" /\ result' = "answer" /\ stage = "active"
        /\ UNCHANGED <<stage, activated, air, bmc_sequence>>
    BY <1>7 DEF V15!Answered
  <2>2. activated
    BY <2>1 DEF V15Inv
  <2>3. S \in SUBSET (0..bmc_sequence) /\ S # {}
    BY <1>1 DEF V15Inv
  <2>4. top \in S /\ \A s \in S : s <= top
    BY <1>1, <2>3, LargestOf
  <2> HIDE DEF top
  <2>5. d.number <= top /\ top \in 0..bmc_sequence /\ \A s \in taken : s <= top
    BY <2>3, <2>4
  <2>6. d.number > last_inbound_sequence /\ ~twice' /\ accepted' = accepted \union {d.number}
    BY <1>3, <2>1, <2>2
  <2>7. ASSUME NEW n \in accepted' PROVE n <= top /\ n \in 0..bmc_sequence
    <3>1. n \in accepted \/ n = d.number
      BY <2>6
    <3>2. CASE n \in accepted
      <4>1. (n <= last_inbound_sequence \/ n \in taken) /\ n \in 0..bmc_sequence /\ last_inbound_sequence \in 0..bmc_sequence
        BY <3>2 DEF V15Inv
      <4> QED
        BY <1>1, <2>5, <2>6, <4>1
    <3> QED
      BY <1>1, <2>5, <3>1, <3>2
  <2> QED
    BY <2>1, <2>2, <2>5, <2>6, <2>7 DEF V15Inv, V15!TrafficOnce
<1> QED
  BY <1>2, <1>4, <1>5, <1>6, <1>7

\* Each step of an IPMI 1.5 session.
LEMMA V15Step ==
  ASSUME V15Inv, V15!Next
  PROVE  V15Inv'
<1>1. CASE V15!Bmc
  <2>1. /\ UNCHANGED <<pc, stage, last_inbound_sequence, activated, taken, accepted, twice, left, result>>
        /\ bmc_sequence' \in Nat /\ bmc_sequence <= bmc_sequence'
        /\ \A d \in air' : d.number \in 0..bmc_sequence'
    <3>1. UNCHANGED <<pc, stage, last_inbound_sequence, activated, taken, accepted, twice, left, result>>
      BY <1>1 DEF V15!Bmc
    <3>2. bmc_sequence \in Nat /\ \A d \in air : d.number \in 0..bmc_sequence
      BY DEF V15Inv
    <3>3. CASE bmc_sequence' = bmc_sequence + 1 /\ air' = air \union {[session |-> session, number |-> bmc_sequence + 1]}
      BY <3>1, <3>2, <3>3
    <3>4. CASE UNCHANGED bmc_sequence /\ \E s \in {"none", session} : air' = air \union {[session |-> s, number |-> 0]}
      BY <3>1, <3>2, <3>4
    <3> QED
      BY <1>1, <3>3, <3>4 DEF V15!Bmc
  <2> QED
    BY <2>1 DEF V15Inv, V15!TrafficOnce
<1>2. CASE V15!Cancel
  BY <1>2 DEF V15!Cancel, V15Inv, V15!TrafficOnce
<1> QED
  BY <1>1, <1>2, V15Sending, V15Receiving DEF V15!Next
-----------------------------------------------------------------------------
(***************************************************************************)
(* The activation of a connection.  SessionAsRequired speaks of its end;   *)
(* ActivateInv adds what each step on the way has secured: which version   *)
(* was allowed, which suite was asked for, that the BMC opened just that   *)
(* one and that it knows the password.                                     *)
(***************************************************************************)
Plus == {"discover", "open", "rakp2", "rakp4"}

\* While an activation runs the old session is gone and the outcome is open.
Underway ==
    pc # "idle" => /\ active_state = Activation!NoSession
                   /\ activation = "none"
                   /\ policy # "exactweak"

\* The version is one that the caller allowed.
VersionAllowed ==
    /\ pc = "discover" => policy = "best"
    /\ pc = "v15" => policy = "none" /\ ~(rmcp_plus /\ require_rmcp_plus)
    /\ pc \in Plus => rmcp_plus

\* The suite that is asked for follows the policy.
Follows(s) ==
    /\ policy \in Activation!Exact => s = Activation!ExactSuite(policy)
    /\ policy = "best" => s \in peer.suites
    /\ policy = "best" /\ 17 \in peer.suites => s = 17
SuiteAsked == pc \in {"open", "rakp2", "rakp4"} => Follows(suite)

\* The BMC opened that suite, then proved that it has the password.
Proved ==
    /\ pc \in {"rakp2", "rakp4"} => agreed = suite
    /\ pc = "rakp4" => agreed \in {3, 17} /\ peer.password /\ authenticated

ActivateInv ==
    /\ pc \in {"idle", "ping", "capabilities", "v15"} \union Plus
    /\ policy \in Activation!Exact \union {"none", "best"}
    /\ peer \in Activation!Peers
    /\ Underway /\ VersionAllowed /\ SuiteAsked /\ Proved
    /\ Activation!SessionAsRequired

(* The initial state: no session, and no activation yet.                   *)
LEMMA ActivationStart == Activation!Init => ActivateInv
  BY DEF Activation!Init, ActivateInv, Plus, Activation!Exact, Underway, VersionAllowed,
         SuiteAsked, Proved, Activation!SessionAsRequired

(* A call either is refused with the old session in place or drops it.     *)
LEMMA ActivateKeeps ==
  ASSUME ActivateInv, NEW plus \in BOOLEAN, NEW p \in Activation!Exact \union {"none", "best"}, Activation!Activate(plus, p)
  PROVE  ActivateInv'
  BY DEF Activation!Activate, ActivateInv, Plus, Activation!Exact, Underway, VersionAllowed,
         SuiteAsked, Proved, Activation!SessionAsRequired

(* Every error ends the activation without a session.                      *)
LEMMA FailureKeeps ==
  ASSUME ActivateInv, pc # "idle", pc' = "idle", activation' = "failed",
         UNCHANGED <<policy, peer, active_state>>
  PROVE  ActivateInv'
  BY DEF ActivateInv, Plus, Underway, VersionAllowed, SuiteAsked, Proved,
         Activation!SessionAsRequired

(* The capabilities decide the version, by Version() of RmcpActivate.      *)
LEMMA CapabilitiesKeeps ==
  ASSUME ActivateInv, Activation!Capabilities
  PROVE  ActivateInv'
<1>1. CASE Activation!Version(peer) = "refuse"
  BY <1>1, FailureKeeps DEF Activation!Capabilities, Activation!Fails
<1>2. CASE Activation!Version(peer) # "refuse"
  <2>1. /\ pc' = Activation!Version(peer) /\ activation' = "none" /\ active_state' = Activation!NoSession
        /\ UNCHANGED <<rmcp_plus, policy, require_rmcp_plus, peer>>
        /\ policy # "exactweak"
    BY <1>2 DEF Activation!Capabilities, ActivateInv, Underway
  <2>2. /\ peer.ipmi2 \in BOOLEAN /\ peer.ipmi15 \in BOOLEAN
    BY DEF ActivateInv, Activation!Peers
  <2>3. \/ pc' = "discover" /\ rmcp_plus /\ policy = "best"
        \/ pc' = "open" /\ rmcp_plus /\ policy # "best"
        \/ pc' = "v15" /\ policy = "none" /\ ~(rmcp_plus /\ require_rmcp_plus)
    BY <1>2, <2>1, <2>2 DEF Activation!Version
  <2>4. policy \in Activation!Exact => suite' = Activation!ExactSuite(policy)
    BY DEF Activation!Capabilities
  <2>5. SuiteAsked'
    BY <2>1, <2>3, <2>4 DEF SuiteAsked, Follows, Activation!ExactSuite
  <2> QED
    BY <2>1, <2>3, <2>5 DEF ActivateInv, Plus, Underway, VersionAllowed, Proved,
           Activation!SessionAsRequired
<1> QED
  BY <1>1, <1>2

(* The best suite is one that the channel lists, 17 if it lists that.      *)
LEMMA DiscoverKeeps ==
  ASSUME ActivateInv, Activation!Discover
  PROVE  ActivateInv'
<1>1. CASE Activation!Best(peer.suites) = 0
  BY <1>1, FailureKeeps DEF Activation!Discover, Activation!Fails
<1>2. CASE Activation!Best(peer.suites) # 0
  <2>1. /\ pc' = "open" /\ suite' = Activation!Best(peer.suites) /\ policy = "best" /\ rmcp_plus
        /\ UNCHANGED <<activation, active_state, policy, peer, rmcp_plus, require_rmcp_plus>>
    BY <1>2 DEF Activation!Discover, ActivateInv, VersionAllowed, Plus
  <2>2. SuiteAsked'
    BY <1>2, <2>1 DEF SuiteAsked, Follows, Activation!Best, Activation!Exact
  <2> QED
    BY <2>1, <2>2 DEF ActivateInv, Plus, Underway, VersionAllowed, Proved,
           Activation!SessionAsRequired, Activation!Discover
<1> QED
  BY <1>1, <1>2

(* Open Session goes on only with the algorithms that were asked for.      *)
LEMMA OpenSessionKeeps ==
  ASSUME ActivateInv, Activation!OpenSession
  PROVE  ActivateInv'
<1>1. PICK h \in Activation!Headers, r \in Activation!OpenReplies :
         /\ agreed' = IF r.status = "ok" THEN r.algorithms ELSE 0
         /\ IF Activation!ValidHandshake(h) /\ Activation!ReadOpen(r) /\ Activation!ValidOpen(r)
            THEN pc' = "rakp2" /\ UNCHANGED activation ELSE Activation!Fails
  BY DEF Activation!OpenSession
<1>2. CASE Activation!ValidHandshake(h) /\ Activation!ReadOpen(r) /\ Activation!ValidOpen(r)
  <2>1. agreed' = suite' /\ pc' = "rakp2" /\ UNCHANGED activation
    BY <1>1, <1>2 DEF Activation!ReadOpen, Activation!ValidOpen, Activation!OpenSession
  <2> QED
    BY <2>1 DEF Activation!OpenSession, ActivateInv, Plus, Underway, VersionAllowed, SuiteAsked,
           Follows, Proved,
                Activation!SessionAsRequired
<1>3. CASE ~(Activation!ValidHandshake(h) /\ Activation!ReadOpen(r) /\ Activation!ValidOpen(r))
  BY <1>1, <1>3, FailureKeeps DEF Activation!Fails, Activation!OpenSession
<1> QED
  BY <1>2, <1>3

(* RAKP 3 is computed for suites 3 and 17 from a code that only a BMC with *)
(* the password can give.                                                  *)
LEMMA Rakp2Keeps ==
  ASSUME ActivateInv, Activation!Rakp2
  PROVE  ActivateInv'
<1>1. PICK h \in Activation!Headers, r \in Activation!Rakp2Replies :
         IF Activation!ValidHandshake(h) /\ Activation!ReadRakp2(r) /\ Activation!Repeats(r) /\ Activation!Rakp3Data(r)
         THEN pc' = "rakp4" /\ authenticated' = TRUE /\ UNCHANGED activation
         ELSE Activation!Fails /\ UNCHANGED authenticated
  BY DEF Activation!Rakp2
<1>2. CASE Activation!ValidHandshake(h) /\ Activation!ReadRakp2(r) /\ Activation!Repeats(r) /\ Activation!Rakp3Data(r)
  <2>1. pc' = "rakp4" /\ authenticated' = TRUE /\ UNCHANGED activation
    BY <1>1, <1>2
  <2>2. agreed \in {3, 17} /\ r.code = "fits" /\ r.code \in Activation!Codes(peer.password)
    BY <1>2 DEF Activation!Rakp3Data, Activation!Rakp2Replies
  <2>3. peer.password
    BY <2>2 DEF Activation!Codes
  <2> QED
    BY <2>1, <2>2, <2>3 DEF Activation!Rakp2, ActivateInv, Plus, Underway, VersionAllowed,
           SuiteAsked, Follows,
                           Proved, Activation!SessionAsRequired
<1>3. CASE ~(Activation!ValidHandshake(h) /\ Activation!ReadRakp2(r) /\ Activation!Repeats(r) /\ Activation!Rakp3Data(r))
  BY <1>1, <1>3, FailureKeeps DEF Activation!Fails, Activation!Rakp2
<1> QED
  BY <1>2, <1>3

(* The end of the handshake installs what Meets() asks for.                *)
LEMMA Rakp4Keeps ==
  ASSUME ActivateInv, Activation!Rakp4
  PROVE  ActivateInv'
<1>1. /\ active_state' = [version |-> 2, suite |-> agreed, attempt |-> attempt]
      /\ pc' = "idle" /\ activation' = "done"
      /\ UNCHANGED <<attempt, rmcp_plus, policy, require_rmcp_plus, peer, authenticated>>
  BY DEF Activation!Rakp4, Activation!Install
<1>2. rmcp_plus /\ agreed \in {3, 17} /\ peer.password /\ authenticated /\ Follows(agreed)
  BY DEF Activation!Rakp4, ActivateInv, VersionAllowed, SuiteAsked, Proved, Plus
<1>3. Activation!Meets(active_state)'
  BY <1>1, <1>2 DEF Activation!Meets, Follows, Activation!ExactSuite
<1>4. Activation!SessionAsRequired'
  BY <1>1, <1>3 DEF Activation!SessionAsRequired
<1> QED
  BY <1>1, <1>4 DEF ActivateInv, Plus, Underway, VersionAllowed, SuiteAsked, Proved

(* IPMI 1.5 is reached only where it was allowed.                          *)
LEMMA V15Keeps ==
  ASSUME ActivateInv, Activation!V15
  PROVE  ActivateInv'
<1>1. /\ active_state' = [version |-> 1, suite |-> 0, attempt |-> attempt]
      /\ pc' = "idle" /\ activation' = "done"
      /\ UNCHANGED <<attempt, rmcp_plus, policy, require_rmcp_plus, peer>>
  BY DEF Activation!V15, Activation!Install
<1>2. policy = "none" /\ ~(rmcp_plus /\ require_rmcp_plus)
  BY DEF Activation!V15, ActivateInv, VersionAllowed
<1>3. Activation!Meets(active_state)'
  BY <1>1, <1>2 DEF Activation!Meets
<1>4. Activation!SessionAsRequired'
  BY <1>1, <1>3 DEF Activation!SessionAsRequired
<1> QED
  BY <1>1, <1>4 DEF ActivateInv, Plus, Underway, VersionAllowed, SuiteAsked, Proved

(* Every step of an activation keeps the invariant.                        *)
LEMMA ActivationStep ==
  ASSUME ActivateInv, Activation!Next
  PROVE  ActivateInv'
<1>1. CASE \E plus \in BOOLEAN, p \in Activation!Exact \union {"none", "best"} : Activation!Activate(plus, p)
  BY <1>1, ActivateKeeps
<1>2. CASE Activation!StepFails
  BY <1>2, FailureKeeps DEF Activation!StepFails, Activation!Fails
<1>3. CASE Activation!Pong
  BY <1>3 DEF Activation!Pong, Activation!own, ActivateInv, Plus, Underway, VersionAllowed,
         SuiteAsked, Proved, Activation!SessionAsRequired, Activation!Meets
<1>4. CASE Activation!Capabilities
  BY <1>4, CapabilitiesKeeps
<1>5. CASE Activation!Discover
  BY <1>5, DiscoverKeeps
<1>6. CASE Activation!OpenSession
  BY <1>6, OpenSessionKeeps
<1>7. CASE Activation!Rakp2
  BY <1>7, Rakp2Keeps
<1>8. CASE Activation!Rakp4
  BY <1>8, Rakp4Keeps
<1>9. CASE Activation!V15
  BY <1>9, V15Keeps
<1>10. CASE Activation!PeerChanges
  BY <1>10 DEF Activation!PeerChanges, ActivateInv, Plus, Underway, VersionAllowed, SuiteAsked,
         Proved, Activation!SessionAsRequired
<1>11. CASE Activation!Require
  BY <1>11 DEF Activation!Require, ActivateInv, Plus, Underway, VersionAllowed, SuiteAsked, Proved,
         Activation!SessionAsRequired
<1> QED
  BY <1>1, <1>2, <1>3, <1>4, <1>5, <1>6, <1>7, <1>8, <1>9, <1>10, <1>11 DEF Activation!Next

\* Nothing moves in an activation.
LEMMA ActivationStutter == ASSUME ActivateInv, UNCHANGED <<pc, ActivateOwn>> PROVE ActivateInv'
BY DEF ActivateOwn, ActivateInv, Plus, Underway, VersionAllowed, SuiteAsked, Follows, Proved,
       Activation!SessionAsRequired, Activation!Meets

\* For every number of attempts and whatever the BMC answers, an activation
\* gives the session that was asked for, or none (Rmcp::activate(),
\* RmcpWithState::activate()).
THEOREM ActivationSafe == Activation!Spec => []Activation!SessionAsRequired
<1>1. Activation!Init => ActivateInv
  BY ActivationStart
<1>2. ActivateInv /\ [Activation!Next]_Activation!vars => ActivateInv'
  <2> SUFFICES ASSUME ActivateInv, [Activation!Next]_Activation!vars PROVE ActivateInv'
    OBVIOUS
  <2>1. CASE UNCHANGED Activation!vars
    BY <2>1, ActivationStutter DEF Activation!vars, Activation!own, ActivateOwn
  <2> QED
    BY <2>1, ActivationStep
<1>3. ActivateInv => Activation!SessionAsRequired
  BY DEF ActivateInv
<1> QED
  BY <1>1, <1>2, <1>3, PTL DEF Activation!Spec
-----------------------------------------------------------------------------
\* Division leaves a remainder below the divisor.
LEMMA Remainder ==
  ASSUME NEW R \in Nat \ {0}, NEW n \in Nat
  PROVE  n = R * (n \div R) + (n % R) /\ n % R \in 0..(R-1) /\ n \div R \in Int
  BY Z3T(30)

\* The remainder is the only one.
LEMMA RemainderIsOne ==
  ASSUME NEW R \in Nat \ {0}, NEW q \in Int, NEW k \in Int, NEW r \in 0..(R-1), NEW s \in 0..(R-1),
         R * q + r = R * k + s
  PROVE  r = s
  BY Z3T(30)

\* Two numbers that a ring does not tell apart are a whole ring apart.
LEMMA RingApart ==
  ASSUME NEW R \in Nat \ {0}, NEW a \in Nat, NEW b \in Nat, b < a, a % R = b % R
  PROVE  a - b >= R
  BY Z3T(30)

\* The next number on a ring.
LEMMA RingNext ==
  ASSUME NEW R \in Nat \ {0}, NEW a \in Nat
  PROVE  ((a % R) + 1) % R = (a + 1) % R
<1> DEFINE q == a \div R
           r == a % R
           k == (a + 1) \div R
           s == (a + 1) % R
<1>1. a = R * q + r /\ r \in 0..(R-1) /\ q \in Int
  BY Remainder
<1>2. a + 1 = R * k + s /\ s \in 0..(R-1) /\ k \in Int
  BY Remainder, a + 1 \in Nat
<1> HIDE DEF q, r, k, s
<1>3. CASE r + 1 < R
  <2>1. R * q + (r + 1) = R * k + s
    BY <1>1, <1>2
  <2>2. r + 1 = s
    BY <1>1, <1>2, <1>3, <2>1, RemainderIsOne
  <2>3. (r + 1) % R = r + 1
    BY <1>1, <1>3, Z3T(30)
  <2> QED
    BY <2>2, <2>3 DEF r, s
<1>4. CASE r + 1 = R
  <2>1. R * (q + 1) = R * q + R
    BY <1>1, Z3T(30)
  <2>2. R * (q + 1) + 0 = R * k + s
    BY <1>1, <1>2, <1>4, <2>1
  <2>3. s = 0
    BY <1>1, <1>2, <2>2, RemainderIsOne
  <2>4. R % R = 0
    BY Z3T(30)
  <2> QED
    BY <1>4, <2>3, <2>4 DEF r, s
<1> QED
  BY <1>1, <1>3, <1>4
(* The frames of this opening; what an opening before left has a number up *)
(* to `opened', an event and noise have 0.                                 *)
Live(f) == f.number > opened
Parts == {"answer", "bridge", "refused", "ack", "nested", "garbled", "reply", "event", "noise"}
LinkFrames == [number : Nat, sequence : Int, part : Parts]

(* What the variables hold, and when a request is pending.                 *)
LinkTypes ==
    /\ link \in {"file", "serial", "ami"}
    /\ number \in Nat /\ opened \in 0..number /\ sequence \in Int
    /\ openings \in Nat \ {0} /\ (openings = 1 => opened = 0)
    /\ queue \in Seq(LinkFrames) /\ working \in SUBSET LinkFrames
    /\ \A i \in 1..Len(queue) : queue[i].number <= number
    /\ \A f \in working : f.number <= number
PendingCurrent ==
    /\ pending # Link!NoRequest =>
          /\ pending.number = number /\ number > opened /\ pending.sequence = sequence
          /\ pending.bridged => link = "serial"
          /\ link # "file" => ~uncertain
    /\ pc = "writing" => pending # Link!NoRequest
    /\ pc \in {"outer", "inner"} /\ link # "file" => pending # Link!NoRequest
    /\ pc = "inner" => link = "serial"
    /\ pc = "subscribed" => listened
StatusKnown ==
    /\ status.kind = "answer" => status.of \in 0..number
    /\ pc \in {"sending", "writing"} => status.kind # "answer"

(* What is no answer to a request is noise, or for the file, where there   *)
(* is nothing else, an event of a receiver.                                *)
Foreigners ==
    /\ \A i \in 1..Len(queue) :
          \/ queue[i].number = 0 /\ queue[i].part = (IF link = "file" THEN "event" ELSE "noise") /\ (link = "file" => listened)
          \/ queue[i].number # 0 /\ queue[i].part \notin {"event", "noise"} /\ (link = "file" => queue[i].part = "answer")
    /\ \A f \in working : f.number # 0 /\ f.part \notin {"event", "noise"}

(* The file: the number of every answer is that of its request.            *)
FileNumbers ==
    link = "file" =>
        /\ sequence = number - opened - 1
        /\ \A i \in 1..Len(queue) : queue[i].number # 0 => queue[i].sequence = queue[i].number - opened - 1
        /\ \A f \in working : f.part = "answer" /\ f.sequence = f.number - opened - 1

(* The serial port: the same, up to the size of the ring.                  *)
SerialNumbers ==
    link = "serial" =>
        /\ sequence = (number - opened) % Ring
        /\ \A i \in 1..Len(queue) : Live(queue[i]) => queue[i].sequence = (queue[i].number - opened) % Ring
        /\ \A f \in working : Live(f) => f.sequence = (f.number - opened) % Ring

(* A first opening that refuses to go on after an unknown outcome has      *)
(* nothing under way but the pending request: on the serial port its       *)
(* answer, or its acknowledgement and then the reply;                      *)
Sole == openings = 1 /\ ~uncertain
NoneLive == working = {} /\ \A i \in 1..Len(queue) : queue[i].number = 0
SoleFrames ==
    link = "serial" /\ Sole =>
        /\ \A i \in 1..Len(queue) : \/ queue[i].number = 0 /\ queue[i].part = "noise"
                                    \/ queue[i].number = number /\ number # 0
        /\ \A f \in working : f.number = number
        /\ \A i, j \in 1..Len(queue) :
              i < j /\ queue[i].number # 0 /\ queue[j].number # 0 => queue[i].part = "ack" /\ queue[j].part = "reply"
        /\ \A i \in 1..Len(queue) : \A f \in working :
              queue[i].number # 0 => queue[i].part = "ack" /\ f.part = "reply"
        /\ \A f, g \in working : f = g
SoleIdle ==
    link = "serial" /\ Sole /\ (pending = Link!NoRequest \/ pc = "writing") => NoneLive
SoleInner ==
    link = "serial" /\ Sole /\ pc = "inner" =>
        /\ \A i \in 1..Len(queue) : queue[i].number # 0 => queue[i].part = "reply"
        /\ \A f \in working : f.part = "reply"
SerialSole == SoleFrames /\ SoleIdle /\ SoleInner

(* with the virtual CD, which carries only answers, the one answer, at the *)
(* BMC or held.                                                            *)
AmiAnswers ==
    link = "ami" =>
        /\ \A i \in 1..Len(queue) : queue[i].part = "answer"
        /\ \A f \in working : f.part = "answer"
AmiSole ==
    link = "ami" /\ Sole =>
        /\ pending = Link!NoRequest \/ pc = "writing" => working = {}
        /\ pending # Link!NoRequest /\ pc # "writing" =>
              /\ \A i \in 1..Len(queue) : queue[i].number = number
              /\ \A f \in working : f.number = number
              /\ \A f, g \in working : f = g
              /\ queue # <<>> => working = {}

LinkInv ==
    /\ LinkTypes /\ PendingCurrent /\ StatusKnown /\ Foreigners
    /\ FileNumbers /\ SerialNumbers /\ SerialSole /\ AmiAnswers /\ AmiSole
    /\ Link!AnswersCurrent

\* A frame is taken from the head of the queue.
LEMMA TailFacts ==
  ASSUME NEW S, NEW q \in Seq(S), q # <<>>
  PROVE  /\ Len(q) \in Nat \ {0} /\ Head(q) = q[1] /\ 1 \in 1..Len(q) /\ q[1] \in S
         /\ Tail(q) \in Seq(S) /\ Len(Tail(q)) = Len(q) - 1
         /\ \A i \in 1..Len(Tail(q)) : Tail(q)[i] = q[i + 1] /\ i + 1 \in 2..Len(q)
  OBVIOUS

\* And put at its end.
LEMMA AppendFacts ==
  ASSUME NEW S, NEW q \in Seq(S), NEW x \in S
  PROVE  /\ Append(q, x) \in Seq(S) /\ Len(Append(q, x)) = Len(q) + 1 /\ Len(q) \in Nat
         /\ Append(q, x)[Len(q) + 1] = x
         /\ \A i \in 1..Len(q) : Append(q, x)[i] = q[i]
  OBVIOUS

(* The frames are what LinkTypes says.                                     *)
LEMMA FramesTyped ==
  ASSUME LinkInv
  PROVE  /\ number \in Nat /\ opened \in 0..number /\ sequence \in Int /\ openings \in Nat \ {0}
         /\ \A i \in 1..Len(queue) : queue[i] \in LinkFrames /\ queue[i].number \in 0..number
         /\ \A f \in working : f \in LinkFrames /\ f.number \in 0..number
<1>1. \A i \in 1..Len(queue) : queue[i] \in LinkFrames
  BY DEF LinkInv, LinkTypes
<1>2. \A f \in LinkFrames : f.number \in Nat
  BY DEF LinkFrames
<1>3. number \in Nat
  BY DEF LinkInv, LinkTypes
<1>4. \A f \in working : f \in LinkFrames /\ f.number <= number
  BY DEF LinkInv, LinkTypes
<1>5. \A i \in 1..Len(queue) : queue[i].number <= number
  BY DEF LinkInv, LinkTypes
<1> QED
  BY <1>1, <1>2, <1>3, <1>4, <1>5 DEF LinkInv, LinkTypes

\* A link that was just opened.
LEMMA LinkStart ==
  ASSUME Link!Init
  PROVE  LinkInv
<1>1. LinkTypes
  BY DEF Link!Init, LinkTypes
<1>2. PendingCurrent /\ StatusKnown /\ Link!AnswersCurrent
  BY DEF Link!Init, PendingCurrent, StatusKnown, Link!AnswersCurrent, Link!Outcome
<1>3. FileNumbers
  BY DEF Link!Init, FileNumbers
<1>6. Foreigners
  BY DEF Link!Init, Foreigners
<1>4. SerialNumbers
  <2>1. 0 % Ring = 0
    BY LinkAssumption, Z3T(30)
  <2> QED
    BY <2>1 DEF Link!Init, SerialNumbers
<1>5. SerialSole /\ AmiAnswers /\ AmiSole
  BY DEF Link!Init, SerialSole, SoleFrames, SoleIdle, SoleInner, AmiAnswers, AmiSole, NoneLive
<1> QED
  BY <1>1, <1>2, <1>3, <1>4, <1>5, <1>6 DEF LinkInv

Line == <<link, sequence, number, opened, openings, queue, working>>
OnTheLine == LinkTypes /\ Foreigners /\ FileNumbers /\ SerialNumbers /\ SerialSole /\ AmiAnswers /\ AmiSole

\* What travels is as it was; a call may end, or be refused from now on.
LEMMA LineSame ==
  ASSUME LinkInv, UNCHANGED Line, pc' = "inner" => pc = "inner", listened => listened',
         \/ link = "file" \/ uncertain'
         \/ UNCHANGED <<uncertain, pending>> /\ (pc' = "writing" <=> pc = "writing")
  PROVE  OnTheLine'
<1>1. UNCHANGED <<link, sequence, number, opened, openings, queue, working>>
  BY DEF Line
<1>2. LinkTypes' /\ FileNumbers'
  BY <1>1 DEF LinkInv, LinkTypes, FileNumbers
<1>6. Foreigners'
  BY <1>1 DEF LinkInv, Foreigners
<1>3. SerialNumbers'
  BY <1>1 DEF LinkInv, SerialNumbers, Live
<1>4. SerialSole'
  BY <1>1 DEF LinkInv, SerialSole, SoleFrames, SoleIdle, SoleInner, Sole, NoneLive
<1>5. AmiAnswers' /\ AmiSole'
  BY <1>1 DEF LinkInv, AmiAnswers, AmiSole, Sole
<1> QED
  BY <1>2, <1>3, <1>4, <1>5, <1>6 DEF OnTheLine

(* The steps that leave the line as it is.                                 *)
LEMMA LinkCalls ==
  ASSUME LinkInv,
         \/ \E c \in {"send", "both", "bounded"} : Link!Begin(c)
         \/ Link!Refuse \/ Link!OpenReceiver \/ Link!Enable \/ Link!Subscribe \/ Link!Unsubscribe
         \/ Link!Recv \/ Link!Cancel \/ Link!FileWriteFails \/ Link!SerialWriteFails \/ Link!GiveUp
  PROVE  LinkInv'
<1> USE DEF Link!Return, Link!Outcome
<1>1. CASE \/ \E c \in {"send", "both", "bounded"} : Link!Begin(c)
           \/ Link!Refuse \/ Link!OpenReceiver \/ Link!Enable \/ Link!Subscribe \/ Link!Unsubscribe
           \/ Link!Recv \/ Link!Cancel
  <2>1. /\ UNCHANGED Line /\ UNCHANGED <<uncertain, pending>>
        /\ (pc' # "writing" /\ pc # "writing") \/ pc' = pc
        /\ pc' = "inner" => pc = "inner"
        /\ listened' = listened \/ listened' = TRUE
        /\ pc' = "subscribed" => listened' = TRUE \/ (pc = "subscribed" /\ listened' = listened)
    BY <1>1 DEF Line, Link!Begin, Link!Refuse, Link!OpenReceiver, Link!Enable, Link!Subscribe,
           Link!Unsubscribe,
       Link!Recv, Link!Cancel
  <2>2. listened => listened'
    BY <2>1, Zenon
  <2>3. pc = "subscribed" => listened
    BY Zenon DEF LinkInv, PendingCurrent
  <2>4. pc' = "subscribed" => listened'
    BY <2>1, <2>3, <2>2, Zenon
  <2>5. OnTheLine'
    BY <2>1, <2>2, LineSame
  <2>6. PendingCurrent'
    BY <1>1, <2>1, <2>4 DEF Line, LinkInv, PendingCurrent, Link!Begin, Link!Refuse, Link!OpenReceiver,
           Link!Enable,
       Link!Subscribe, Link!Unsubscribe, Link!Recv, Link!Cancel
  <2>7. \/ status' = status /\ (pc' \in {"sending", "writing"} => pc = pc')
        \/ status'.kind # "answer"
    BY <1>1 DEF Link!Begin, Link!Refuse, Link!OpenReceiver, Link!Enable, Link!Subscribe,
           Link!Unsubscribe,
       Link!Recv, Link!Cancel
  <2>8. StatusKnown' /\ Link!AnswersCurrent'
    BY <2>1, <2>7, <2>2 DEF Line, LinkInv, StatusKnown, Link!AnswersCurrent
  <2> QED
    BY <2>5, <2>6, <2>8 DEF LinkInv, OnTheLine
<1>2. CASE Link!FileWriteFails \/ Link!SerialWriteFails \/ Link!GiveUp
  <2>1. /\ UNCHANGED Line /\ pc' = "idle" /\ pending' = Link!NoRequest /\ status'.kind # "answer"
        /\ link = "file" \/ uncertain' = TRUE \/ uncertain' = (uncertain \/ link # "file")
        /\ listened' = listened
    BY <1>2 DEF Line, Link!FileWriteFails, Link!SerialWriteFails, Link!GiveUp, Link!Poison,
           Link!RecvFails
  <2>5. link = "file" \/ uncertain'
    BY <2>1, Zenon
  <2>2. OnTheLine'
    BY <2>1, <2>5, LineSame
  <2>3. PendingCurrent'
    BY <2>1 DEF PendingCurrent
  <2>4. StatusKnown' /\ Link!AnswersCurrent'
    BY <2>1 DEF StatusKnown, Link!AnswersCurrent
  <2> QED
    BY <2>2, <2>3, <2>4 DEF LinkInv, OnTheLine
<1> QED
  BY <1>1, <1>2

(* A request gets its number when there is nothing under way.              *)
LEMMA LinkAccepts ==
  ASSUME LinkInv, NEW b \in BOOLEAN, Link!Accept(b)
  PROVE  LinkInv'
<1>1. /\ pc = "sending" /\ pc' = "writing" /\ number' = number + 1
      /\ pending' = [number |-> number + 1, sequence |-> sequence', bridged |-> b]
      /\ b => link = "serial"
      /\ sequence' = IF link = "serial" THEN (sequence + 1) % Ring ELSE sequence + 1
      /\ UNCHANGED <<uncertain, link, queue, working, status, openings, opened, listened>>
  BY DEF Link!Accept
<1>2. link # "file" => ~uncertain /\ pending = Link!NoRequest
  BY DEF Link!Accept, Link!Refused, Link!SerialRefuses, Link!AmiRefuses, LinkInv, LinkTypes
<1>3. number \in Nat /\ opened \in 0..number /\ sequence \in Int /\ openings \in Nat \ {0}
  BY DEF LinkInv, LinkTypes
<1>4. sequence' \in Int /\ (link = "serial" => sequence' = (number' - opened') % Ring)
  <2>1. CASE link = "serial"
    <3>1. sequence = (number - opened) % Ring /\ number - opened \in Nat
      BY <1>3, <2>1 DEF LinkInv, SerialNumbers
    <3>2. sequence' = (number - opened + 1) % Ring
      BY <1>1, <2>1, <3>1, LinkAssumption, RingNext
    <3>3. (number - opened + 1) % Ring \in Int
      BY <3>1, LinkAssumption, Remainder, number - opened + 1 \in Nat
    <3>4. number - opened + 1 = number' - opened'
      BY <1>1, <1>3
    <3> QED
      BY <2>1, <3>2, <3>3, <3>4
  <2>2. CASE link # "serial"
    BY <1>1, <1>3, <2>2
  <2> QED
    BY <2>1, <2>2
<1>5. LinkTypes'
  <2>1. \A i \in 1..Len(queue) : queue[i].number <= number + 1
    BY <1>3, FramesTyped
  <2>2. \A f \in working : f.number <= number + 1
    BY <1>3, FramesTyped
  <2>3. number + 1 \in Nat /\ opened \in 0..(number + 1)
    BY <1>3
  <2> QED
    BY <1>1, <1>4, <2>1, <2>2, <2>3 DEF LinkInv, LinkTypes
<1>6. PendingCurrent'
  <2>1. pending'.number = number' /\ pending'.sequence = sequence' /\ pending'.bridged = b
    BY <1>1
  <2>2. number' > opened' /\ number' # 0
    BY <1>1, <1>3
  <2>3. pending' # Link!NoRequest
    BY <2>1, <2>2 DEF Link!NoRequest
  <2> QED
    BY <1>1, <1>2, <2>1, <2>2, <2>3 DEF PendingCurrent
<1>7. StatusKnown' /\ Link!AnswersCurrent'
  BY <1>1, <1>3 DEF LinkInv, StatusKnown, Link!AnswersCurrent
<1>8. FileNumbers' /\ Foreigners'
  BY <1>1, <1>3 DEF LinkInv, FileNumbers, Foreigners
<1>9. SerialNumbers'
  BY <1>1, <1>4 DEF LinkInv, SerialNumbers, Live
<1>10. SerialSole'
  <2> SUFFICES ASSUME link = "serial", Sole PROVE SerialSole'
    BY <1>1 DEF SerialSole, SoleFrames, SoleIdle, SoleInner, Sole
  <2>1. NoneLive
    BY <1>2 DEF LinkInv, SerialSole, SoleFrames, SoleIdle, SoleInner
  <2>2. \A i \in 1..Len(queue) : queue[i].number = 0 /\ queue[i].part = "noise"
    BY <2>1 DEF NoneLive, LinkInv, SerialSole, SoleFrames, SoleIdle, SoleInner
  <2> QED
    BY <1>1, <2>1, <2>2 DEF SerialSole, SoleFrames, SoleIdle, SoleInner, NoneLive
<1>11. AmiAnswers' /\ AmiSole'
  BY <1>1, <1>2 DEF LinkInv, AmiAnswers, AmiSole, Sole
<1> QED
  BY <1>5, <1>6, <1>7, <1>8, <1>9, <1>10, <1>11 DEF LinkInv

(* A frame leaves the queue, and nothing else of the line changes.         *)
LEMMA LineTail ==
  ASSUME LinkInv, queue # <<>>, queue' = Tail(queue),
         UNCHANGED <<link, sequence, number, opened, openings, working, listened>>
  PROVE  LinkTypes' /\ Foreigners' /\ FileNumbers' /\ SerialNumbers' /\ AmiAnswers' /\ (uncertain' = uncertain => SoleFrames')
<1>0. queue \in Seq(LinkFrames)
  BY DEF LinkInv, LinkTypes
<1>1. /\ Tail(queue) \in Seq(LinkFrames) /\ Len(queue') = Len(queue) - 1 /\ Len(queue) \in Nat
      /\ \A i \in 1..Len(queue') : queue'[i] = queue[i + 1] /\ i + 1 \in 1..Len(queue)
  BY <1>0, TailFacts
<1>2. LinkTypes'
  BY <1>1 DEF LinkInv, LinkTypes
<1>3. FileNumbers' /\ Foreigners'
  BY <1>1 DEF LinkInv, FileNumbers, Foreigners
<1>4. SerialNumbers'
  BY <1>1 DEF LinkInv, SerialNumbers, Live
<1>5. AmiAnswers'
  BY <1>1 DEF LinkInv, AmiAnswers
<1>6. ASSUME uncertain' = uncertain, link = "serial", Sole PROVE SoleFrames'
  <2>1. \A i, j \in 1..Len(queue') : i < j => i + 1 < j + 1
    BY <1>1
  <2> QED
    BY <1>1, <1>6, <2>1 DEF LinkInv, SerialSole, SoleFrames
<1>7. uncertain' = uncertain /\ ~(link = "serial" /\ Sole) => SoleFrames'
  BY DEF SoleFrames, Sole
<1> QED
  BY <1>2, <1>3, <1>4, <1>5, <1>6, <1>7

(* A whole request is out.                                                 *)
LEMMA LinkWrites ==
  ASSUME LinkInv, Link!WriteDone \/ Link!AmiWriteFails
  PROVE  LinkInv'
<1> DEFINE f == Link!Frame(pending, IF pending.bridged THEN "bridge" ELSE "answer")
<1>1. /\ pc = "writing" /\ pending # Link!NoRequest /\ pending.number = number /\ number > opened
      /\ pending.sequence = sequence /\ (pending.bridged => link = "serial")
  BY DEF Link!WriteDone, Link!AmiWriteFails, LinkInv, PendingCurrent
<1>2. number \in Nat /\ opened \in 0..number /\ sequence \in Int
  BY FramesTyped
<1>3. f = [number |-> number, sequence |-> sequence, part |-> IF pending.bridged THEN "bridge" ELSE "answer"]
  BY <1>1 DEF Link!Frame
<1>4. f \in LinkFrames /\ f.number = number /\ f.sequence = sequence /\ (link # "serial" => f.part = "answer")
      /\ f.number # 0 /\ f.part \notin {"event", "noise"}
  BY <1>1, <1>2, <1>3 DEF LinkFrames, Parts
<1> HIDE DEF f
<1>5. /\ working' \in {working, working \union {f}}
      /\ queue' \in {queue, <<>>} /\ (link = "serial" => queue' = queue)
      /\ UNCHANGED <<link, sequence, number, opened, openings, listened>>
      /\ pc' \in {"outer", "idle"}
  BY <1>1 DEF Link!WriteDone, Link!AmiWriteFails, Link!Waiting, Link!Return, Link!Poison, f
<1>6. LinkTypes'
  <2>1. working' \in SUBSET LinkFrames /\ \A g \in working' : g.number <= number
    BY <1>2, <1>4, <1>5, FramesTyped
  <2>2. queue' \in Seq(LinkFrames) /\ \A i \in 1..Len(queue') : queue'[i].number <= number
    <3>1. CASE queue' = queue
      BY <3>1 DEF LinkInv, LinkTypes
    <3>2. CASE queue' = <<>>
      BY <3>2
    <3> QED
      BY <1>5, <3>1, <3>2
  <2> QED
    BY <1>5, <2>1, <2>2 DEF LinkInv, LinkTypes
<1>7. FileNumbers' /\ Foreigners'
  <2>1. FileNumbers'
    BY <1>2, <1>4, <1>5 DEF LinkInv, FileNumbers
  <2>2. Foreigners'
    BY <1>4, <1>5 DEF LinkInv, Foreigners
  <2> QED
    BY <2>1, <2>2
<1>8. SerialNumbers'
  BY <1>2, <1>4, <1>5 DEF LinkInv, SerialNumbers, Live
<1>9. AmiAnswers'
  BY <1>4, <1>5 DEF LinkInv, AmiAnswers
<1>10. CASE Link!WriteDone
  <2>1. /\ working' = working \union {f} /\ UNCHANGED <<uncertain, pending>>
        /\ link = "ami" => queue' = <<>>
        /\ status' = status \/ status'.kind # "answer"
    BY <1>10 DEF Link!WriteDone, Link!Waiting, Link!Return, Link!Outcome, f
  <2>2. SerialSole'
    <3> SUFFICES ASSUME link = "serial", Sole PROVE SerialSole'
      BY <1>5, <2>1 DEF SerialSole, SoleFrames, SoleIdle, SoleInner, Sole
    <3>1. NoneLive
      BY <1>1 DEF LinkInv, SerialSole, SoleIdle
    <3>2. working' = {f} /\ queue' = queue /\ \A i \in 1..Len(queue) : queue[i].number = 0 /\ queue[i].part = "noise"
      BY <1>5, <2>1, <3>1 DEF NoneLive, LinkInv, SerialSole, SoleFrames
    <3> QED
      BY <1>1, <1>4, <1>5, <2>1, <3>2 DEF SerialSole, SoleFrames, SoleIdle, SoleInner
  <2>3. AmiSole'
    BY <1>1, <1>4, <1>5, <2>1 DEF LinkInv, AmiSole, Sole
  <2>4. PendingCurrent'
    BY <1>1, <1>5, <2>1 DEF LinkInv, PendingCurrent
  <2>5. StatusKnown' /\ Link!AnswersCurrent'
    BY <1>5, <2>1 DEF LinkInv, StatusKnown, Link!AnswersCurrent
  <2> QED
    BY <1>6, <1>7, <1>8, <1>9, <2>2, <2>3, <2>4, <2>5 DEF LinkInv
<1>11. CASE Link!AmiWriteFails
  <2>1. uncertain' = TRUE /\ pending' = Link!NoRequest /\ pc' = "idle" /\ link = "ami" /\ status'.kind # "answer"
    BY <1>11 DEF Link!AmiWriteFails, Link!Poison, Link!Return, Link!Outcome
  <2>2. SerialSole' /\ AmiSole'
    BY <1>5, <2>1 DEF SerialSole, SoleFrames, SoleIdle, SoleInner, AmiSole, Sole
  <2>3. PendingCurrent' /\ StatusKnown' /\ Link!AnswersCurrent'
    BY <1>5, <2>1 DEF PendingCurrent, StatusKnown, Link!AnswersCurrent
  <2> QED
    BY <1>6, <1>7, <1>8, <1>9, <2>2, <2>3 DEF LinkInv
<1> QED
  BY <1>10, <1>11

(* The frame at the head, when it matches, answers the pending request,    *)
(* was left by an opening before, is a whole ring late, or an event.       *)
LEMMA MatchIsCurrent ==
  ASSUME LinkInv, queue # <<>>, Link!Matches, pc \in {"outer", "inner"},
         Link!Oldest.part \in {"answer", "refused", "reply", "nested", "event"}
  PROVE  \/ Link!Oldest.number = number
         \/ link = "file" /\ listened /\ Link!Oldest.number = 0
         \/ link # "file" /\ Link!Oldest.number \in 1..opened
         \/ link = "serial" /\ openings > 1 /\ number - Link!Oldest.number >= Ring
         \/ link = "ami" /\ openings > 1
<1>0. queue \in Seq(LinkFrames)
  BY DEF LinkInv, LinkTypes
<1>1. Link!Oldest = queue[1] /\ 1 \in 1..Len(queue)
  BY <1>0, TailFacts DEF Link!Oldest
<1>2. /\ number \in Nat /\ opened \in 0..number /\ openings \in Nat \ {0}
      /\ queue[1] \in LinkFrames /\ queue[1].number \in 0..number
  BY <1>1, FramesTyped
<1>3. link \in {"file", "serial", "ami"}
  BY DEF LinkInv, LinkTypes
<1>4. CASE link = "file"
  <2>1. queue[1].sequence = sequence
    BY <1>1, <1>4 DEF Link!Matches, Link!FileMatches
  <2>2. CASE queue[1].number = 0
    BY <1>1, <1>4, <2>2 DEF LinkInv, Foreigners
  <2>3. CASE queue[1].number # 0
    <3>1. sequence = number - opened - 1 /\ queue[1].sequence = queue[1].number - opened - 1
      BY <1>1, <1>4, <2>3 DEF LinkInv, FileNumbers
    <3> QED
      BY <1>1, <1>2, <2>1, <3>1
  <2> QED
    BY <2>2, <2>3
<1>7. link # "file" => queue[1].number \in 1..number
  <2>1. queue[1].part # "noise"
    BY <1>1
  <2> QED
    BY <1>1, <1>2, <2>1 DEF LinkInv, Foreigners
<1>5. CASE link = "serial"
  <2>1. pending # Link!NoRequest /\ pending.sequence = sequence
    BY <1>5 DEF LinkInv, PendingCurrent
  <2>2. queue[1].sequence = sequence
    BY <1>1, <1>5, <2>1 DEF Link!Matches, Link!SerialMatches
  <2>3. CASE openings = 1
    <3>1. ~uncertain /\ opened = 0
      BY <1>5, <2>1, <2>3 DEF LinkInv, PendingCurrent, LinkTypes
    <3>2. queue[1].number = 0 \/ queue[1].number = number
      BY <1>1, <1>5, <2>3, <3>1 DEF LinkInv, SerialSole, SoleFrames, Sole
    <3> QED
      BY <1>1, <1>2, <1>5, <1>7, <3>1, <3>2
  <2>4. CASE openings > 1 /\ queue[1].number > opened /\ queue[1].number # number
    <3>1. (queue[1].number - opened) % Ring = (number - opened) % Ring
      BY <1>1, <1>5, <2>2, <2>4 DEF LinkInv, SerialNumbers, Live
    <3>2. /\ queue[1].number - opened \in Nat /\ number - opened \in Nat
          /\ queue[1].number - opened < number - opened
      BY <1>2, <2>4
    <3>3. (number - opened) - (queue[1].number - opened) >= Ring
      BY <3>1, <3>2, LinkAssumption, RingApart
    <3>4. number - queue[1].number >= Ring
      BY <1>2, <3>3, LinkAssumption
    <3> QED
      BY <1>1, <1>5, <2>4, <3>4
  <2> QED
    BY <1>1, <1>2, <1>5, <1>7, <2>3, <2>4
<1>6. CASE link = "ami"
  <2>1. CASE openings = 1
    <3>1. pending # Link!NoRequest /\ ~uncertain
      BY <1>6 DEF LinkInv, PendingCurrent
    <3>2. queue[1].number = number
      BY <1>1, <1>6, <2>1, <3>1 DEF LinkInv, AmiSole, Sole
    <3> QED
      BY <1>1, <3>2
  <2> QED
    BY <1>2, <1>6, <2>1
<1> QED
  BY <1>3, <1>4, <1>5, <1>6

(* An answer is handed to the caller.                                      *)
LEMMA LinkDelivers ==
  ASSUME LinkInv, Link!Deliver
  PROVE  LinkInv'
<1>0. queue \in Seq(LinkFrames) /\ queue # <<>>
  BY DEF LinkInv, LinkTypes, Link!Deliver
<1>1. /\ pc \in {"outer", "inner"} /\ Link!Matches
      /\ Link!Oldest.part \in {"answer", "refused", "reply", "nested", "event"}
      /\ pending' = Link!NoRequest
      /\ pc' \in {"idle", "enabling", "subscribing"}
      /\ status' = [kind |-> "answer", of |-> Link!Oldest.number]
      /\ queue' = IF link = "ami" THEN queue ELSE Tail(queue)
      /\ UNCHANGED <<uncertain, link, sequence, number, opened, openings, working, listened>>
  BY DEF Link!Deliver, Link!Return, Link!Outcome
<1>2. Link!Oldest = queue[1] /\ 1 \in 1..Len(queue) /\ Len(queue) \in Nat
  BY <1>0, TailFacts DEF Link!Oldest
<1>3. LinkTypes' /\ Foreigners' /\ FileNumbers' /\ SerialNumbers' /\ AmiAnswers' /\ SoleFrames'
  <2>1. CASE link = "ami"
    <3>1. queue' = queue
      BY <1>1, <2>1
    <3> QED
      BY <1>1, <2>1, <3>1 DEF LinkInv, LinkTypes, Foreigners, FileNumbers, SerialNumbers, AmiAnswers,
             SoleFrames, Sole
  <2>2. CASE link # "ami"
    BY <1>0, <1>1, <2>2, LineTail
  <2> QED
    BY <2>1, <2>2
<1>4. SoleIdle' /\ SoleInner'
  <2> SUFFICES ASSUME link = "serial", Sole PROVE NoneLive'
    BY <1>1 DEF SoleIdle, SoleInner, Sole
  <2>1. queue[1].part # "ack" /\ queue[1].number # 0
    <3>1. queue[1].part \in {"answer", "refused", "reply", "nested", "event"}
      BY <1>1, <1>2
    <3> QED
      BY <1>2, <3>1 DEF LinkInv, SerialSole, SoleFrames
  <2>2. working = {}
    BY <1>2, <2>1 DEF LinkInv, SerialSole, SoleFrames
  <2>3. queue' = Tail(queue) /\ Len(queue') = Len(queue) - 1
        /\ \A i \in 1..Len(queue') : queue'[i] = queue[i + 1] /\ i + 1 \in 2..Len(queue)
    BY <1>0, <1>1, TailFacts
  <2>4. \A i \in 2..Len(queue) : queue[i].number = 0
    BY <1>2, <2>1 DEF LinkInv, SerialSole, SoleFrames
  <2> QED
    BY <1>1, <2>2, <2>3, <2>4 DEF NoneLive
<1>5. AmiSole'
  <2> SUFFICES ASSUME link = "ami", Sole PROVE working = {}
    BY <1>1 DEF AmiSole, Sole
  <2>1. pending # Link!NoRequest /\ pc # "writing"
    BY <1>1 DEF LinkInv, PendingCurrent
  <2> QED
    BY <1>0, <2>1 DEF LinkInv, AmiSole
<1>6. PendingCurrent'
  BY <1>1 DEF PendingCurrent
<1>7. StatusKnown'
  BY <1>1, <1>2, FramesTyped DEF StatusKnown
<1>8. Link!AnswersCurrent'
  BY <1>0, <1>1, MatchIsCurrent DEF Link!AnswersCurrent
<1> QED
  BY <1>3, <1>4, <1>5, <1>6, <1>7, <1>8 DEF LinkInv, SerialSole

(* An acknowledgement, a frame that is not awaited or an event is read.    *)
LEMMA LinkReads ==
  ASSUME LinkInv, Link!Acknowledged \/ Link!Mismatch \/ Link!ReceiveEvent
  PROVE  LinkInv'
<1> USE DEF Link!Return, Link!Outcome
<1>0. /\ queue \in Seq(LinkFrames) /\ queue # <<>> /\ queue' = Tail(queue)
      /\ UNCHANGED <<link, sequence, number, opened, openings, working, listened>>
  BY DEF LinkInv, LinkTypes, Link!Acknowledged, Link!Mismatch, Link!ReceiveEvent
<1>1. LinkTypes' /\ Foreigners' /\ FileNumbers' /\ SerialNumbers' /\ AmiAnswers' /\ (uncertain' = uncertain => SoleFrames')
  BY <1>0, LineTail
<1>2. /\ Link!Oldest = queue[1] /\ 1 \in 1..Len(queue) /\ Len(queue') = Len(queue) - 1 /\ Len(queue) \in Nat
      /\ \A i \in 1..Len(queue') : queue'[i] = queue[i + 1] /\ i + 1 \in 2..Len(queue)
  BY <1>0, TailFacts DEF Link!Oldest
<1>3. CASE Link!Acknowledged
  <2>1. /\ pc = "outer" /\ pc' = "inner" /\ Link!Matches /\ Link!Oldest.part = "ack"
        /\ UNCHANGED <<uncertain, pending, status>>
    BY <1>3 DEF Link!Acknowledged
  <2>2. link = "serial"
    <3>1. link # "file"
      BY <1>2, <2>1 DEF LinkInv, Foreigners
    <3>2. link # "ami"
      BY <1>2, <2>1 DEF LinkInv, AmiAnswers
    <3> QED
      BY <3>1, <3>2 DEF LinkInv, LinkTypes
  <2>3. SoleIdle'
    BY <1>0, <2>1, <2>2 DEF LinkInv, PendingCurrent, SoleIdle
  <2>4. SoleInner'
    <3> SUFFICES ASSUME Sole
                 PROVE  /\ \A i \in 1..Len(queue') : queue'[i].number # 0 => queue'[i].part = "reply"
                        /\ \A f \in working : f.part = "reply"
      BY <1>0, <2>1 DEF SoleInner, Sole
    <3>1. queue[1].number # 0
      BY <1>2, <2>1, <2>2 DEF LinkInv, SerialSole, SoleFrames
    <3>2. \A i \in 2..Len(queue) : queue[i].number # 0 => queue[i].part = "reply"
      BY <1>2, <2>2, <3>1 DEF LinkInv, SerialSole, SoleFrames
    <3>3. \A f \in working : f.part = "reply"
      BY <1>2, <2>2, <3>1 DEF LinkInv, SerialSole, SoleFrames
    <3> QED
      BY <1>2, <3>2, <3>3
  <2>5. AmiSole'
    BY <1>0, <2>2 DEF AmiSole
  <2>6. PendingCurrent' /\ StatusKnown' /\ Link!AnswersCurrent'
    BY <1>0, <2>1, <2>2 DEF LinkInv, PendingCurrent, StatusKnown, Link!AnswersCurrent
  <2> QED
    BY <1>1, <2>1, <2>3, <2>4, <2>5, <2>6 DEF LinkInv, SerialSole
<1>4. CASE Link!Mismatch
  <2>1. CASE link = "serial" /\ ~Link!Matches /\ unrelated + 1 < Frames
    <3>1. UNCHANGED <<pc, pending, uncertain, status>> /\ pc \in {"outer", "inner"}
      BY <1>4, <2>1 DEF Link!Mismatch
    <3>2. SoleIdle' /\ SoleInner'
      BY <1>0, <1>2, <3>1 DEF LinkInv, SerialSole, SoleIdle, SoleInner, Sole, NoneLive
    <3>3. AmiSole'
      BY <1>0, <2>1 DEF AmiSole
    <3>4. PendingCurrent' /\ StatusKnown' /\ Link!AnswersCurrent'
      BY <1>0, <3>1 DEF LinkInv, PendingCurrent, StatusKnown, Link!AnswersCurrent
    <3> QED
      BY <1>1, <3>1, <3>2, <3>3, <3>4 DEF LinkInv, SerialSole
  <2>2. CASE ~(link = "serial" /\ ~Link!Matches /\ unrelated + 1 < Frames)
    <3>1. /\ pending' = Link!NoRequest /\ pc' = "idle" /\ status'.kind # "answer"
          /\ uncertain' = (uncertain \/ link # "file")
      BY <1>4, <2>2 DEF Link!Mismatch, Link!RecvFails
    <3>2. link # "file" => uncertain'
      BY <3>1, Zenon
    <3>3. SerialSole' /\ AmiSole'
      BY <1>0, <3>2 DEF SerialSole, SoleFrames, SoleIdle, SoleInner, AmiSole, Sole
    <3>4. PendingCurrent' /\ StatusKnown' /\ Link!AnswersCurrent'
      BY <3>1 DEF PendingCurrent, StatusKnown, Link!AnswersCurrent
    <3> QED
      BY <1>1, <3>3, <3>4 DEF LinkInv
  <2> QED
    BY <2>1, <2>2
<1>5. CASE Link!ReceiveEvent
  <2>1. UNCHANGED <<pc, uncertain, pending>> /\ pc = "subscribed" /\ status'.kind # "answer"
    BY <1>5 DEF Link!ReceiveEvent
  <2>2. SerialSole'
    BY <1>0, <1>1, <1>2, <2>1 DEF LinkInv, SerialSole, SoleIdle, SoleInner, Sole, NoneLive
  <2>3. AmiSole'
    <3> SUFFICES ASSUME link = "ami", Sole PROVE AmiSole'
      BY <1>0, <2>1 DEF AmiSole, Sole
    <3>1. pending = Link!NoRequest => working = {}
      BY DEF LinkInv, AmiSole
    <3>2. pending # Link!NoRequest => /\ \A i \in 1..Len(queue) : queue[i].number = number
                                      /\ \A f \in working : f.number = number
                                      /\ \A f, g \in working : f = g
                                      /\ working = {}
      BY <1>0, <2>1 DEF LinkInv, AmiSole
    <3> QED
      BY <1>0, <1>2, <2>1, <3>1, <3>2 DEF AmiSole
  <2>4. PendingCurrent' /\ StatusKnown' /\ Link!AnswersCurrent'
    BY <1>0, <2>1 DEF LinkInv, PendingCurrent, StatusKnown, Link!AnswersCurrent
  <2> QED
    BY <1>1, <2>2, <2>3, <2>4 DEF LinkInv
<1> QED
  BY <1>3, <1>4, <1>5

(* An event or noise comes in.                                             *)
LEMMA LinkOther ==
  ASSUME LinkInv, Link!Other
  PROVE  LinkInv'
<1>0. queue \in Seq(LinkFrames) /\ number \in Nat /\ opened \in 0..number
  BY FramesTyped DEF LinkInv, LinkTypes
<1>1. /\ \E n \in Int : queue' = Append(queue, [number |-> 0, sequence |-> n, part |-> IF link = "file" THEN "event" ELSE "noise"])
      /\ link # "ami" /\ (link = "file" => listened)
      /\ UNCHANGED <<pc, uncertain, link, pending, sequence, number, working, status, openings, opened, listened>>
  BY DEF Link!Other, Link!Frame, Link!NoRequest, LinkInv, PendingCurrent
<1>2. PICK x \in LinkFrames : /\ queue' = Append(queue, x) /\ x.number = 0
                              /\ x.part = IF link = "file" THEN "event" ELSE "noise"
  BY <1>1 DEF LinkFrames, Parts
<1>3. /\ queue' \in Seq(LinkFrames) /\ Len(queue') = Len(queue) + 1 /\ Len(queue) \in Nat
      /\ queue'[Len(queue) + 1] = x /\ \A i \in 1..Len(queue) : queue'[i] = queue[i]
  BY <1>0, <1>1, <1>2, AppendFacts
<1>4. \A i \in 1..Len(queue') : (i \in 1..Len(queue) /\ queue'[i] = queue[i]) \/ queue'[i] = x
  BY <1>3
<1>5. LinkTypes'
  BY <1>0, <1>1, <1>2, <1>3, <1>4 DEF LinkInv, LinkTypes
<1>10. Foreigners'
  BY <1>1, <1>2, <1>4 DEF LinkInv, Foreigners
<1>6. FileNumbers' /\ AmiAnswers' /\ AmiSole'
  BY <1>1, <1>2, <1>4 DEF LinkInv, FileNumbers, AmiAnswers, AmiSole
<1>7. SerialNumbers'
  BY <1>0, <1>1, <1>2, <1>4 DEF LinkInv, SerialNumbers, Live
<1>8. SerialSole'
  <2> SUFFICES ASSUME link = "serial", Sole PROVE SerialSole'
    BY <1>1 DEF SerialSole, SoleFrames, SoleIdle, SoleInner, Sole
  <2>1. SoleFrames'
    BY <1>1, <1>2, <1>4 DEF LinkInv, SerialSole, SoleFrames
  <2>2. SoleIdle' /\ SoleInner'
    BY <1>1, <1>2, <1>4 DEF LinkInv, SerialSole, SoleIdle, SoleInner, Sole, NoneLive
  <2> QED
    BY <2>1, <2>2 DEF SerialSole
<1>9. PendingCurrent' /\ StatusKnown' /\ Link!AnswersCurrent'
  BY <1>1 DEF LinkInv, PendingCurrent, StatusKnown, Link!AnswersCurrent
<1> QED
  BY <1>5, <1>6, <1>7, <1>8, <1>9, <1>10 DEF LinkInv

(* The BMC answers; what it acknowledged it still has to answer.           *)
LEMMA LinkAnswers ==
  ASSUME LinkInv, Link!Answer
  PROVE  LinkInv'
<1>1. PICK f \in working, part \in {"answer", "reply", "refused", "ack", "nested", "garbled"} :
         /\ f.part = "answer" <=> part = "answer"
         /\ f.part = "reply" <=> part = "reply"
         /\ queue' = Link!Arrive([f EXCEPT !.part = part])
         /\ working' = (working \ {f}) \union (IF part = "ack" THEN {[f EXCEPT !.part = "reply"]} ELSE {})
  BY DEF Link!Answer
<1> DEFINE x == [f EXCEPT !.part = part]
           y == [f EXCEPT !.part = "reply"]
<1>0. /\ queue \in Seq(LinkFrames) /\ number \in Nat /\ opened \in 0..number
      /\ f \in LinkFrames /\ f.number \in 0..number
  BY FramesTyped DEF LinkInv, LinkTypes
<1>2. /\ x \in LinkFrames /\ x.number = f.number /\ x.sequence = f.sequence /\ x.part = part
      /\ y \in LinkFrames /\ y.number = f.number /\ y.sequence = f.sequence /\ y.part = "reply"
  BY <1>0 DEF LinkFrames, Parts
<1> HIDE DEF x, y
<1>3. /\ queue' = IF link = "ami" THEN <<x>> ELSE Append(queue, x)
      /\ working' \in {working \ {f}, (working \ {f}) \union {y}}
      /\ part # "ack" => working' = working \ {f}
      /\ UNCHANGED <<pc, uncertain, link, pending, sequence, number, status, openings, opened, listened>>
  BY <1>1 DEF Link!Answer, Link!Arrive, x, y
<1>4. \A g \in working' : (g \in working /\ g # f) \/ (g = y /\ part = "ack")
  BY <1>3
<1>5. link # "ami" => /\ queue' \in Seq(LinkFrames) /\ Len(queue') = Len(queue) + 1 /\ Len(queue) \in Nat
                      /\ queue'[Len(queue) + 1] = x /\ \A i \in 1..Len(queue) : queue'[i] = queue[i]
  BY <1>0, <1>2, <1>3, AppendFacts
<1>6. link = "ami" => queue' \in Seq(LinkFrames) /\ queue' = <<x>> /\ Len(queue') = 1 /\ queue'[1] = x
  BY <1>2, <1>3
<1>7. \A i \in 1..Len(queue') : \/ link # "ami" /\ i \in 1..Len(queue) /\ queue'[i] = queue[i]
                                \/ queue'[i] = x /\ (link # "ami" => i = Len(queue) + 1)
  BY <1>5, <1>6
<1>8. LinkTypes'
  <2>1. queue' \in Seq(LinkFrames) /\ \A i \in 1..Len(queue') : queue'[i].number <= number
    BY <1>0, <1>2, <1>5, <1>6, <1>7, FramesTyped
  <2>2. working' \in SUBSET LinkFrames /\ \A g \in working' : g.number <= number
    BY <1>0, <1>2, <1>3, <1>4, FramesTyped
  <2> QED
    BY <1>3, <2>1, <2>2 DEF LinkInv, LinkTypes
<1>9. FileNumbers'
  <2> SUFFICES ASSUME link = "file" PROVE FileNumbers'
    BY <1>3 DEF FileNumbers
  <2>1. f.part = "answer" /\ f.sequence = f.number - opened - 1 /\ part # "ack"
    BY <1>1 DEF LinkInv, FileNumbers
  <2> QED
    BY <1>2, <1>3, <1>4, <1>7, <2>1 DEF LinkInv, FileNumbers
<1>14. Foreigners'
  <2>1. f.number # 0 /\ (link = "file" => f.part = "answer")
    BY DEF LinkInv, Foreigners, FileNumbers
  <2> QED
    BY <1>1, <1>2, <1>3, <1>4, <1>7, <2>1 DEF LinkInv, Foreigners
<1>10. SerialNumbers'
  BY <1>2, <1>3, <1>4, <1>7 DEF LinkInv, SerialNumbers, Live
<1>11. AmiAnswers' /\ AmiSole'
  <2> SUFFICES ASSUME link = "ami" PROVE AmiAnswers' /\ AmiSole'
    BY <1>3 DEF AmiAnswers, AmiSole
  <2>1. part = "answer" /\ working' = working \ {f} /\ queue' = <<x>>
    BY <1>1, <1>3 DEF LinkInv, AmiAnswers
  <2>2. AmiAnswers'
    BY <1>2, <1>3, <1>7, <2>1 DEF LinkInv, AmiAnswers
  <2>3. AmiSole'
    BY <1>2, <1>3, <1>7, <2>1 DEF LinkInv, AmiSole, Sole
  <2> QED
    BY <2>2, <2>3
<1>12. SerialSole'
  <2> SUFFICES ASSUME link = "serial", Sole PROVE SerialSole'
    BY <1>3 DEF SerialSole, SoleFrames, SoleIdle, SoleInner, Sole
  <2>1. /\ f.number = number /\ \A g \in working : g = f
        /\ pending # Link!NoRequest /\ pc # "writing"
        /\ number # 0
        /\ \A i \in 1..Len(queue) : queue[i].number # 0 => queue[i].part = "ack" /\ f.part = "reply"
        /\ \A i, j \in 1..Len(queue) : i < j => queue[i].number = 0 \/ queue[j].number = 0
    <3>1. f.number = number /\ \A g \in working : g = f
      BY DEF LinkInv, SerialSole, SoleFrames
    <3>2. pending # Link!NoRequest /\ pc # "writing"
      BY DEF LinkInv, SerialSole, SoleIdle, NoneLive
    <3>3. number # 0
      BY <1>0, <3>2 DEF LinkInv, PendingCurrent
    <3>4. \A i \in 1..Len(queue) : queue[i].number # 0 => queue[i].part = "ack" /\ f.part = "reply"
      BY DEF LinkInv, SerialSole, SoleFrames
    <3>5. \A i, j \in 1..Len(queue) : i < j => queue[i].number = 0 \/ queue[j].number = 0
      <4>1. ASSUME NEW i \in 1..Len(queue), NEW j \in 1..Len(queue), i < j, queue[i].number # 0, queue[j].number # 0
            PROVE  FALSE
        <5>1. queue[j].part = "reply"
          BY <4>1 DEF LinkInv, SerialSole, SoleFrames
        <5> QED
          BY <3>4, <4>1, <5>1
      <4> QED
        BY <4>1
    <3> QED
      BY <3>1, <3>2, <3>3, <3>4, <3>5
  <2>2. \A g \in working' : g = y /\ part = "ack" /\ f.part # "reply"
    BY <1>1, <1>4, <2>1
  <2>3. SoleFrames'
    <3>1. \A i \in 1..Len(queue') : \/ queue'[i].number = 0 /\ queue'[i].part = "noise"
                                    \/ queue'[i].number = number /\ number # 0
      BY <1>2, <1>7, <2>1 DEF LinkInv, SerialSole, SoleFrames
    <3>2. \A g \in working' : g.number = number
      BY <1>2, <2>1, <2>2
    <3>3. \A i, j \in 1..Len(queue') :
            i < j /\ queue'[i].number # 0 /\ queue'[j].number # 0 => queue'[i].part = "ack" /\ queue'[j].part = "reply"
      BY <1>1, <1>2, <1>5, <1>7, <2>1, SMTT(30)
    <3>4. \A i \in 1..Len(queue') : \A g \in working' :
              queue'[i].number # 0 => queue'[i].part = "ack" /\ g.part = "reply"
      BY <1>2, <1>7, <2>1, <2>2
    <3>5. \A g, h \in working' : g = h
      BY <2>2
    <3> QED
      BY <1>3, <3>1, <3>2, <3>3, <3>4, <3>5 DEF SoleFrames
  <2>4. SoleIdle'
    BY <1>3, <2>1 DEF SoleIdle
  <2>5. SoleInner'
    BY <1>1, <1>2, <1>3, <1>7, <2>2 DEF LinkInv, SerialSole, SoleInner, Sole
  <2> QED
    BY <2>3, <2>4, <2>5 DEF SerialSole
<1>13. PendingCurrent' /\ StatusKnown' /\ Link!AnswersCurrent'
  BY <1>3 DEF LinkInv, PendingCurrent, StatusKnown, Link!AnswersCurrent
<1> QED
  BY <1>8, <1>9, <1>10, <1>11, <1>12, <1>13, <1>14 DEF LinkInv

(* Closed and opened again: what was sent before is of an earlier opening. *)
LEMMA LinkReopens ==
  ASSUME LinkInv, Link!Reopen
  PROVE  LinkInv'
<1>1. /\ openings' = openings + 1 /\ opened' = number /\ pending' = Link!NoRequest /\ ~uncertain'
      /\ sequence' = (IF link = "file" THEN -1 ELSE 0) /\ queue' = <<>>
      /\ working' = IF link = "file" THEN {} ELSE working
      /\ status'.kind = "none"
      /\ UNCHANGED <<pc, link, number>> /\ pc = "idle"
  BY DEF Link!Reopen, Link!Outcome
<1>2. /\ number \in Nat /\ opened \in 0..number /\ openings \in Nat \ {0} /\ openings' # 1
      /\ \A f \in working : f.number \in 0..number
  BY <1>1, FramesTyped
<1>3. LinkTypes'
  <2>1. working' \in SUBSET LinkFrames /\ \A f \in working' : f.number <= number
    BY <1>1 DEF LinkInv, LinkTypes
  <2>2. queue' \in Seq(LinkFrames) /\ Len(queue') = 0
    BY <1>1
  <2> QED
    BY <1>1, <1>2, <2>1, <2>2 DEF LinkInv, LinkTypes
<1>4. FileNumbers' /\ Foreigners'
  BY <1>1, <1>2 DEF LinkInv, FileNumbers, Foreigners
<1>5. SerialNumbers'
  <2>1. 0 % Ring = 0
    BY LinkAssumption, Z3T(30)
  <2>2. number - number = 0
    BY <1>2
  <2>3. \A f \in working : ~(f.number > number)
    BY <1>2
  <2> QED
    BY <1>1, <2>1, <2>2, <2>3 DEF SerialNumbers, Live
<1>6. SerialSole' /\ AmiSole'
  BY <1>2 DEF SerialSole, SoleFrames, SoleIdle, SoleInner, AmiSole, Sole
<1>7. AmiAnswers'
  BY <1>1 DEF LinkInv, AmiAnswers
<1>8. PendingCurrent'
  BY <1>1 DEF PendingCurrent
<1>9. StatusKnown' /\ Link!AnswersCurrent'
  BY <1>1, <1>2 DEF LinkInv, StatusKnown, Link!AnswersCurrent
<1> QED
  BY <1>3, <1>4, <1>5, <1>6, <1>7, <1>8, <1>9 DEF LinkInv

\* Each step of a link.
LEMMA LinkStep ==
  ASSUME LinkInv, Link!Next
  PROVE  LinkInv'
<1>1. CASE \E b \in BOOLEAN : Link!Accept(b)
  BY <1>1, LinkAccepts
<1> QED
  BY <1>1, LinkCalls, LinkWrites, LinkDelivers, LinkReads, LinkOther, LinkAnswers, LinkReopens
     DEF Link!Next
-----------------------------------------------------------------------------
(* The guarded writes.  Until Begin is answered nothing is held or stolen, *)
(* while they run the lock is held, and Set Complete follows a Begin that  *)
(* was rejected in the SOL helper only.                                    *)
GuardedInv ==
    /\ pc \in {"begin", "write", "complete", "done"}
    /\ kind \in {"lan", "pef", "sol", "info"}
    /\ pc = "begin" => begin = "none" /\ lock # "ours"
    /\ pc = "write" => begin = "ok"
    /\ pc = "complete" => begin \in {"ok", "unknown"} \/ kind = "sol"
    /\ pc \in {"write", "complete"} /\ begin = "ok" => lock = "ours"
    /\ stolen => pc = "done"
    /\ Guarded!LockRespected /\ Guarded!LockAccounted

\* Before Begin.
LEMMA GuardedStart == Guarded!Init => GuardedInv
  BY DEF Guarded!Init, GuardedInv, Guarded!LockRespected, Guarded!LockAccounted

\* Set Complete frees the lock of another only after a Begin in doubt, or
\* in the SOL helper.
LEMMA GuardedStep ==
  ASSUME GuardedInv, Guarded!Next
  PROVE  GuardedInv'
<1>1. CASE Guarded!Begin
  <2>1. PICK o \in Guarded!Outcomes :
          /\ o.carried => lock = "free"
          /\ lock' = IF o.carried THEN "ours" ELSE lock
          /\ begin' = o.answer
          /\ pc' = IF o.answer = "ok" THEN "write" ELSE IF Guarded!CleansUp(o.answer) THEN "complete" ELSE "done"
    BY <1>1 DEF Guarded!Begin
  <2>2. /\ o.answer \in {"ok", "refused", "unknown"}
        /\ o.answer = "ok" => o.carried
        /\ o.answer = "refused" => ~o.carried
    BY DEF Guarded!Outcomes
  <2>3. pc = "begin" /\ lock # "ours" /\ ~stolen /\ UNCHANGED <<stolen, kind, completed>>
    BY <1>1 DEF Guarded!Begin, Guarded!call, GuardedInv
  <2>4. pc' = "complete" => begin' = "unknown" \/ kind = "sol"
    BY <2>1, <2>2 DEF Guarded!CleansUp
  <2>5. pc' = "done" /\ lock' = "ours" => kind = "info" /\ begin' = "unknown"
    BY <1>1, <2>1, <2>2, <2>3 DEF Guarded!CleansUp, Guarded!Begin, GuardedInv
  <2> QED
    BY <2>1, <2>2, <2>3, <2>4, <2>5 DEF GuardedInv, Guarded!LockRespected, Guarded!LockAccounted
<1>2. CASE Guarded!WriteBlock \/ Guarded!CommitWrite
  <2>1. /\ pc = "write" /\ pc' \in {"write", "complete"} /\ UNCHANGED <<begin, lock, stolen, kind, completed>>
    BY <1>2 DEF Guarded!WriteBlock, Guarded!CommitWrite, Guarded!call
  <2> QED
    BY <2>1 DEF GuardedInv, Guarded!LockRespected, Guarded!LockAccounted
<1>3. CASE Guarded!Complete
  <2>1. PICK o \in Guarded!Outcomes :
          /\ lock' = IF o.carried THEN "free" ELSE lock
          /\ stolen' = (stolen \/ (o.carried /\ lock = "other"))
          /\ completed' = IF o.answer = "ok" THEN "ok" ELSE "failed"
    BY <1>3 DEF Guarded!Complete
  <2>2. o.answer = "ok" => o.carried
    BY DEF Guarded!Outcomes
  <2>3. pc = "complete" /\ pc' = "done" /\ UNCHANGED <<begin, kind>> /\ ~stolen
    BY <1>3 DEF Guarded!Complete, Guarded!call, GuardedInv
  <2>4. stolen' => lock = "other"
    BY <2>1, <2>3, Zenon
  <2>5. stolen' => begin = "unknown" \/ kind = "sol"
    BY <2>3, <2>4 DEF GuardedInv
  <2> QED
    BY <2>1, <2>2, <2>3, <2>5 DEF GuardedInv, Guarded!LockRespected, Guarded!LockAccounted
<1>4. CASE Guarded!OtherBegins \/ Guarded!OtherCompletes
  <2>1. /\ lock # "ours" /\ lock' # "ours" /\ UNCHANGED <<pc, begin, kind, completed, stolen>>
    BY <1>4 DEF Guarded!OtherBegins, Guarded!OtherCompletes, Guarded!transfer, Guarded!call,
           Guarded!result
  <2> QED
    BY <2>1 DEF GuardedInv, Guarded!LockRespected, Guarded!LockAccounted
<1> QED
  BY <1>1, <1>2, <1>3, <1>4 DEF Guarded!Next

(* The checked settings.  A setting holds what it held at first or what    *)
(* the other console put there; so does the copy of it, and when the write *)
(* is sent everything that it carries has been read.                       *)
Held(f, value) == value = "old" \/ (f = theirs /\ value = "theirs")
SettingsInv ==
    /\ setter \in Settings!Setters /\ generation \in {"10G", "11G"}
    /\ pc \in {"start", "generation", "read1", "read2", "write", "done"}
    /\ theirs \in Settings!Fields \union {"none"}
    /\ settings = [f \in Settings!Fields |-> settings[f]]
    /\ copy = [f \in Settings!Fields |-> copy[f]]
    /\ outcome = "ok" => pc = "done"
    /\ pc # "done" => /\ \A f \in Settings!Fields : Held(f, settings[f])
                      /\ theirs # "none" => settings[theirs] = "theirs"
    /\ \A f \in Settings!Fields : copy[f] = "unread" \/ Held(f, copy[f])
    /\ theirs # "none" /\ ~late => copy[theirs] \in {"unread", "theirs"}
    /\ pc = "read2" => Settings!Reads = <<"permission", "settings">>
    /\ pc = "generation" => Settings!Supported
    /\ pc \in {"read1", "read2", "write"} => controller = generation /\ Settings!Supported
    /\ setter = "sun_led" => controller = generation
    /\ pc = "write" => \A f \in Settings!Carries : f = Settings!Changes \/ copy[f] # "unread"
    /\ Settings!OthersPreserved

\* Before a setter reads.
LEMMA SettingsStart == Settings!Init => SettingsInv
<1> SUFFICES ASSUME Settings!Init PROVE SettingsInv
  OBVIOUS
<1>1. /\ setter \in Settings!Setters /\ generation \in {"10G", "11G"}
      /\ pc = "start" /\ theirs = "none" /\ outcome = "none" /\ controller = generation
      /\ copy = [f \in Settings!Fields |-> "unread"] /\ settings = [f \in Settings!Fields |-> "old"]
  BY DEF Settings!Init
<1> QED
  BY <1>1 DEF SettingsInv, Held, Settings!OthersPreserved, Settings!Succeeded

\* What a setter changes is a setting, and so is what it carries.
LEMMA SettingsNamed == Settings!Changes \in Settings!Fields /\ Settings!Carries \subseteq Settings!Fields
  BY DEF Settings!Changes, Settings!Carries, Settings!Fields

\* What a setter reads and writes is fixed.
LEMMA SettingsSame ==
  ASSUME UNCHANGED <<setter, generation>>
  PROVE  /\ UNCHANGED <<Settings!Changes, Settings!Carries, Settings!Reads>>
         /\ Settings!Supported <=> Settings!Supported'
  BY DEF Settings!Changes, Settings!Carries, Settings!Reads, Settings!Supported

\* What is written of a setting that is not changed is what was read of it.
LEMMA SettingsSet ==
  ASSUME SettingsInv, Settings!Set
  PROVE  SettingsInv'
<1>1. PICK o \in Settings!Outcomes :
        /\ settings' = IF o.carried THEN [f \in Settings!Fields |-> Settings!Written(f)] ELSE settings
        /\ outcome' = o.answer
  BY DEF Settings!Set, Settings!Stop
<1>2. o.answer = "ok" => o.carried
  BY DEF Settings!Outcomes
<1>3. /\ pc = "write" /\ pc' = "done"
      /\ UNCHANGED <<setter, generation, copy, controller, theirs, late>>
  BY DEF Settings!Set, Settings!Stop, Settings!call, Settings!other
<1>4. /\ UNCHANGED <<Settings!Changes, Settings!Carries, Settings!Reads>>
      /\ Settings!Supported <=> Settings!Supported'
  BY <1>3, SettingsSame
<1>5. controller = generation /\ Settings!Supported
  BY <1>3 DEF SettingsInv
<1>6. settings' = [f \in Settings!Fields |-> settings'[f]]
  <2>1. CASE o.carried
    <3>1. settings' = [f \in Settings!Fields |-> Settings!Written(f)]
      BY <1>1, <2>1
    <3>2. \A f \in Settings!Fields : settings'[f] = Settings!Written(f)
      BY <3>1, Zenon
    <3> QED
      BY <3>1, <3>2, Zenon
  <2>2. CASE ~o.carried
    BY <1>1, <2>2, Zenon DEF SettingsInv
  <2> QED
    BY <2>1, <2>2
<1>7. Settings!OthersPreserved'
  <2> SUFFICES ASSUME o.answer = "ok"
               PROVE  /\ settings'[Settings!Changes] = "new"
                      /\ \A f \in Settings!Fields \ {Settings!Changes, theirs} : settings'[f] = "old"
                      /\ theirs \notin {"none", Settings!Changes} /\ ~late => settings'[theirs] = "theirs"
    BY <1>1, <1>3, <1>4, <1>5 DEF Settings!OthersPreserved, Settings!Succeeded
  <2>1. \A f \in Settings!Fields : settings'[f] = Settings!Written(f)
    <3>1. settings' = [f \in Settings!Fields |-> Settings!Written(f)]
      BY <1>1, <1>2
    <3> QED
      BY <3>1, Zenon
  <2>2. settings'[Settings!Changes] = "new"
    BY <2>1, SettingsNamed DEF Settings!Written
  <2>3. ASSUME NEW f \in Settings!Fields \ {Settings!Changes, theirs} PROVE settings'[f] = "old"
    <3>1. CASE f \in Settings!Carries
      BY <1>3, <2>1, <2>3, <3>1 DEF Settings!Written, SettingsInv, Held
    <3>2. CASE f \notin Settings!Carries
      BY <1>3, <2>1, <2>3, <3>2 DEF Settings!Written, SettingsInv, Held
    <3> QED
      BY <3>1, <3>2
  <2>4. ASSUME theirs \notin {"none", Settings!Changes}, ~late PROVE settings'[theirs] = "theirs"
    <3>1. theirs \in Settings!Fields
      BY <2>4 DEF SettingsInv
    <3>2. CASE theirs \in Settings!Carries
      BY <1>3, <2>1, <2>4, <3>1, <3>2 DEF Settings!Written, SettingsInv
    <3>3. CASE theirs \notin Settings!Carries
      BY <1>3, <2>1, <2>4, <3>1, <3>3 DEF Settings!Written, SettingsInv
    <3> QED
      BY <3>2, <3>3
  <2> QED
    BY <2>2, <2>3, <2>4
<1> QED
  BY <1>3, <1>4, <1>6, <1>7 DEF SettingsInv, Held

\* What is read is what is there.
LEMMA SettingsRead ==
  ASSUME SettingsInv, Settings!Read
  PROVE  SettingsInv'
<1> DEFINE k == IF pc = "read1" THEN 1 ELSE 2
<1>1. /\ pc \in {"read1", "read2"}
      /\ UNCHANGED <<setter, generation, controller, settings, permitted, theirs, late>>
      /\ \/ /\ copy' = IF Settings!Reads[k] \in {"settings", "both"} THEN Settings!Copied ELSE copy
            /\ pc' = (IF k < Len(Settings!Reads) THEN "read2" ELSE "write") /\ UNCHANGED outcome
         \/ pc' = "done" /\ outcome' # "ok" /\ UNCHANGED copy
  BY DEF Settings!Read, Settings!Stop, Settings!call, Settings!target, Settings!other
<1>2. /\ UNCHANGED <<Settings!Changes, Settings!Carries, Settings!Reads>>
      /\ Settings!Supported <=> Settings!Supported'
  BY <1>1, SettingsSame
<1>3. outcome # "ok"
  BY <1>1 DEF SettingsInv
<1>4. CASE pc' = "done" /\ outcome' # "ok" /\ UNCHANGED copy
  BY <1>1, <1>2, <1>4 DEF SettingsInv, Held, Settings!OthersPreserved, Settings!Succeeded
<1>5. CASE /\ copy' = IF Settings!Reads[k] \in {"settings", "both"} THEN Settings!Copied ELSE copy
           /\ pc' = (IF k < Len(Settings!Reads) THEN "read2" ELSE "write") /\ UNCHANGED outcome
  <2>1. Settings!Copied = [f \in Settings!Fields |-> IF f \in Settings!Carries THEN settings[f] ELSE copy[f]]
    BY Zenon DEF Settings!Copied
  <2>2. copy' = [f \in Settings!Fields |-> copy'[f]]
    <3>1. CASE copy' = copy
      BY <3>1, Zenon DEF SettingsInv
    <3>2. CASE copy' = Settings!Copied
      <4>1. \A f \in Settings!Fields : copy'[f] = IF f \in Settings!Carries THEN settings[f] ELSE copy[f]
        BY <2>1, <3>2, Zenon
      <4> QED
        BY <2>1, <3>2, <4>1, Zenon
    <3> QED
      BY <1>5, <3>1, <3>2
  <2>3. /\ \A f \in Settings!Fields : copy'[f] = copy[f] \/ copy'[f] = settings[f]
        /\ Settings!Reads[k] \in {"settings", "both"} => \A f \in Settings!Carries : copy'[f] = settings[f]
    BY <1>5, <2>1, SettingsNamed
  <2>4. pc' = "read2" => Settings!Reads = <<"permission", "settings">>
    BY <1>1, <1>5 DEF Settings!Reads
  <2>5. pc' = "write" => \A f \in Settings!Carries : f = Settings!Changes \/ copy'[f] # "unread"
    <3> SUFFICES ASSUME pc' = "write", NEW f \in Settings!Carries, f # Settings!Changes PROVE copy'[f] # "unread"
      OBVIOUS
    <3>1. settings[f] # "unread"
      BY <1>1, SettingsNamed DEF SettingsInv, Held
    <3>2. Settings!Reads[k] \in {"settings", "both"}
      <4>1. CASE Settings!Reads = <<"permission", "settings">>
        BY <1>1, <1>5, <4>1
      <4>2. CASE Settings!Reads # <<"permission", "settings">>
        <5>1. pc = "read1"
          BY <1>1, <4>2 DEF SettingsInv
        <5>2. Settings!Carries # {"other"} \/ Settings!Changes # "other"
          OBVIOUS
        <5>3. setter \in {"lcd_kvm", "lcd_lock"}
          BY <4>2, <5>2 DEF Settings!Reads, Settings!Carries, Settings!Changes, SettingsInv,
                 Settings!Setters
        <5> QED
          BY <5>1, <5>3 DEF Settings!Reads
      <4> QED
        BY <4>1, <4>2
    <3> QED
      BY <2>3, <3>1, <3>2
  <2>6. /\ \A f \in Settings!Fields : copy'[f] = "unread" \/ Held(f, copy'[f])
        /\ theirs # "none" /\ ~late => copy'[theirs] \in {"unread", "theirs"}
    BY <1>1, <2>3 DEF SettingsInv, Held
  <2>7. pc' \in {"read2", "write"}
    BY <1>5
  <2> QED
    BY <1>1, <1>2, <1>3, <1>5, <2>2, <2>4, <2>5, <2>6, <2>7 DEF SettingsInv, Held,
           Settings!OthersPreserved, Settings!Succeeded
<1> QED
  BY <1>1, <1>4, <1>5

\* The checks before, and the other console.
LEMMA SettingsOther ==
  ASSUME SettingsInv, Settings!Start \/ Settings!CheckGeneration \/ Settings!Meddle \/ Settings!Replace
  PROVE  SettingsInv'
<1>1. UNCHANGED <<setter, generation>>
  BY DEF Settings!Start, Settings!CheckGeneration, Settings!Meddle, Settings!Replace, Settings!call
<1>2. /\ UNCHANGED <<Settings!Changes, Settings!Carries, Settings!Reads>>
      /\ Settings!Supported <=> Settings!Supported'
  BY <1>1, SettingsSame
<1>3. CASE Settings!Start
  <2>1. /\ pc = "start" /\ UNCHANGED <<copy, controller, settings, theirs, late>>
        /\ \/ Settings!Supported /\ pc' = (IF setter = "sun_led" THEN "read1" ELSE "generation") /\ UNCHANGED outcome
           \/ pc' = "done" /\ outcome' = "unsupported"
    BY <1>3 DEF Settings!Start, Settings!Stop, Settings!target, Settings!other
  <2> QED
    BY <1>1, <1>2, <2>1 DEF SettingsInv, Held, Settings!OthersPreserved, Settings!Succeeded
<1>4. CASE Settings!CheckGeneration
  <2>1. /\ pc = "generation" /\ UNCHANGED <<copy, controller, settings, theirs, late>>
        /\ \/ controller = generation /\ pc' = "read1" /\ UNCHANGED outcome
           \/ pc' = "done" /\ outcome' # "ok"
    BY <1>4 DEF Settings!CheckGeneration, Settings!BeforeWrite, Settings!Stop, Settings!target,
           Settings!other
  <2> QED
    BY <1>1, <1>2, <2>1 DEF SettingsInv, Held, Settings!OthersPreserved, Settings!Succeeded
<1>5. CASE Settings!Meddle
  <2>1. PICK f \in Settings!Fields :
          theirs' = f /\ late' = (copy[f] # "unread") /\ settings' = [settings EXCEPT ![f] = "theirs"]
    BY <1>5 DEF Settings!Meddle
  <2>2. theirs = "none" /\ pc # "done" /\ UNCHANGED <<pc, copy, outcome, controller>>
    BY <1>5 DEF Settings!Meddle, Settings!transfer
  <2>3. ~late' => copy[f] = "unread"
    BY <2>1, Zenon
  <2>4. settings = [g \in Settings!Fields |-> settings[g]]
    BY Zenon DEF SettingsInv
  <2>5. settings' = [g \in Settings!Fields |-> IF g = f THEN "theirs" ELSE settings[g]]
    BY <2>1, <2>4
  <2>6. \A g \in Settings!Fields : settings'[g] = IF g = f THEN "theirs" ELSE settings[g]
    BY <2>5, Zenon
  <2>7. settings' = [g \in Settings!Fields |-> settings'[g]]
    BY <2>5, <2>6, Zenon
  <2>8. theirs' = f /\ f # "none"
    BY <2>1 DEF Settings!Fields
  <2>9. \A g \in Settings!Fields : (copy[g] = "unread" \/ copy[g] = "old") /\ settings[g] = "old"
    BY <2>2 DEF SettingsInv, Held, Settings!Fields
  <2> QED
    BY <1>1, <1>2, <2>2, <2>3, <2>6, <2>7, <2>8, <2>9 DEF SettingsInv, Held,
           Settings!OthersPreserved, Settings!Succeeded
<1>6. CASE Settings!Replace
  <2>1. /\ pc \in {"start", "generation"} /\ setter # "sun_led"
        /\ UNCHANGED <<pc, copy, outcome, settings, theirs, late>>
    BY <1>6 DEF Settings!Replace, Settings!transfer, Settings!other
  <2> QED
    BY <1>1, <1>2, <2>1 DEF SettingsInv, Held, Settings!OthersPreserved, Settings!Succeeded
<1> QED
  BY <1>3, <1>4, <1>5, <1>6

\* Each step of a setter, and of the other console.
LEMMA SettingsStep ==
  ASSUME SettingsInv, Settings!Next
  PROVE  SettingsInv'
  BY SettingsSet, SettingsRead, SettingsOther DEF Settings!Next
-----------------------------------------------------------------------------
(* What Get Status may tell of a bank.                                     *)
BankStatuses == [state : {"good", "previous", "other", "new"},
                 holds : {"baseline", "old", "partial", "image", "foreign"}]

Goals == {"prepare", "stage", "finish", "activate", "verify_activation", "rollback", "verify_rollback"}

(* The Kontron firmware update.  The bank that is written is never the one *)
(* that runs, and a buffer of another size is one to reset.                *)
FwumInv ==
    /\ old_good_bank \in Fwum!Banks
    /\ banks \in [Fwum!Banks -> BankStatuses]
    /\ banks[old_good_bank].holds = "baseline"
    /\ pc \in {"ready", "read", "refused", "buffers", "save", "cancelled", "clear", "activate", "rollback"}
    /\ goal \in Goals
    /\ pc \in {"save", "cancelled"} => open \in Fwum!Banks \ {old_good_bank}
    /\ armed \in Seq(Fwum!Channels) /\ large \in SUBSET Fwum!Channels
    /\ \A c \in large : c \in cleanup \/ \E k \in 1..Len(armed) : armed[k] = c
    /\ pc \in {"ready", "activate", "rollback"} => armed = <<>>
    /\ pc = "read" /\ goal # "finish" => armed = <<>>

\* The bank to write is not the one that runs.
LEMMA FwumSpare == old_good_bank \in Fwum!Banks => Fwum!Spare \in Fwum!Banks \ {old_good_bank}
  BY DEF Fwum!Spare, Fwum!Banks

\* Before the update is prepared.
LEMMA FwumStart == Fwum!Init => FwumInv
<1> SUFFICES ASSUME Fwum!Init PROVE FwumInv
  OBVIOUS
<1>1. /\ old_good_bank \in Fwum!Banks /\ pc = "read" /\ goal = "prepare" /\ large = {} /\ armed = <<>>
      /\ banks = [b \in Fwum!Banks |-> IF b = old_good_bank THEN [state |-> "good", holds |-> "baseline"]
                                       ELSE [state |-> "previous", holds |-> "old"]]
  BY DEF Fwum!Init, Fwum!Baseline, Fwum!OldGood, Fwum!Status
<1>2. banks \in [Fwum!Banks -> BankStatuses] /\ banks[old_good_bank].holds = "baseline"
  BY <1>1 DEF BankStatuses
<1> QED
  BY <1>1, <1>2 DEF FwumInv, Goals

\* The steps that touch neither a bank nor a buffer.
LEMMA FwumCalls ==
  ASSUME FwumInv, UNCHANGED <<old_good_bank, banks, open, large, armed, cleanup>>,
         pc' \in {"ready", "read", "refused", "buffers", "save", "cancelled", "clear", "activate", "rollback"},
         pc' \in {"save", "cancelled"} => pc \in {"save", "cancelled"},
         pc' \in {"ready", "activate", "rollback"} => armed = <<>>,
         pc' = "read" => armed = <<>> \/ goal' = "finish",
         goal' \in Goals
  PROVE  FwumInv'
  BY DEF FwumInv

\* The steps that read the banks and judge them.
LEMMA FwumReads ==
  ASSUME FwumInv,
         Fwum!Call \/ Fwum!ReadBank \/ Fwum!ReadFails \/ Fwum!Judge \/ Fwum!GatewayFails \/ Fwum!Cancel \/ Fwum!Cleared
  PROVE  FwumInv'
<1>1. UNCHANGED <<old_good_bank, banks, open, large, armed, cleanup>>
  BY DEF Fwum!Call, Fwum!ReadBank, Fwum!ReadFails, Fwum!Judge, Fwum!GatewayFails, Fwum!Cancel,
         Fwum!Cleared,
     Fwum!plans, Fwum!bmc, Fwum!transfer
<1>7. goal' \in Goals
  BY DEF FwumInv, Goals, Fwum!Call, Fwum!ReadBank, Fwum!ReadFails, Fwum!Judge, Fwum!GatewayFails,
         Fwum!Cancel, Fwum!Cleared
<1>2. CASE Fwum!Call \/ Fwum!ReadBank
  <2>1. pc' = "read" /\ (pc = "ready" \/ (pc = "read" /\ UNCHANGED goal))
    BY <1>2 DEF Fwum!Call, Fwum!ReadBank, Fwum!transfer
  <2> QED
    BY <1>1, <1>7, <2>1, FwumCalls DEF FwumInv
<1>3. CASE Fwum!ReadFails
  <2>1. pc = "read" /\ (pc' = "clear" \/ (pc' \in {"refused", "ready"} /\ goal # "finish"))
    BY <1>3 DEF Fwum!ReadFails, Fwum!Stop
  <2> QED
    BY <1>1, <1>7, <2>1, FwumCalls DEF FwumInv
<1>4. CASE Fwum!Judge
  <2>1. pc = "read" /\ UNCHANGED goal
    BY <1>4 DEF Fwum!Judge
  <2>2. /\ pc' \in {"ready", "refused", "buffers", "clear", "activate", "rollback"}
        /\ goal = "finish" => pc' = "clear"
    <3>1. CASE goal = "prepare"
      BY <1>4, <3>1 DEF Fwum!Judge, Fwum!Prepare
    <3>2. CASE goal = "stage"
      BY <1>4, <3>2 DEF Fwum!Judge, Fwum!StopOrElse, Fwum!Stop
    <3>3. CASE goal = "finish"
      BY <1>4, <3>3 DEF Fwum!Judge, Fwum!StopOrElse, Fwum!Stop
    <3>4. CASE goal = "activate"
      BY <1>4, <3>4 DEF Fwum!Judge, Fwum!StopOrElse, Fwum!Stop
    <3>5. CASE goal = "verify_activation"
      BY <1>4, <3>5 DEF Fwum!Judge, Fwum!VerifyActivation, Fwum!Stop
    <3>6. CASE goal = "rollback"
      BY <1>4, <3>6 DEF Fwum!Judge, Fwum!StopOrElse, Fwum!Stop
    <3>7. CASE goal = "verify_rollback"
      BY <1>4, <3>7 DEF Fwum!Judge, Fwum!VerifyRollback
    <3>8. goal \in Goals
      BY DEF FwumInv
    <3> QED
      BY <3>1, <3>2, <3>3, <3>4, <3>5, <3>6, <3>7, <3>8 DEF Goals
  <2> QED
    BY <1>1, <1>7, <2>1, <2>2, FwumCalls DEF FwumInv
<1>5. CASE Fwum!GatewayFails \/ Fwum!Cancel
  <2>1. pc' = "clear"
    BY <1>5 DEF Fwum!GatewayFails, Fwum!Cancel, Fwum!Stop
  <2> QED
    BY <1>1, <1>7, <2>1, FwumCalls
<1>6. CASE Fwum!Cleared
  <2>1. pc' = "ready" /\ armed = <<>>
    BY <1>6 DEF Fwum!Cleared
  <2> QED
    BY <1>1, <1>7, <2>1, FwumCalls
<1> QED
  BY <1>2, <1>3, <1>4, <1>5, <1>6

\* A buffer of another size is noted before the next step.
LEMMA FwumBuffer ==
  ASSUME FwumInv, Fwum!SetNextBuffer \/ Fwum!ClearBuffer
  PROVE  FwumInv'
<1>0. armed \in Seq(Fwum!Channels) /\ large \in SUBSET Fwum!Channels
      /\ \A c \in large : c \in cleanup \/ \E k \in 1..Len(armed) : armed[k] = c
  BY DEF FwumInv
<1>1. CASE Fwum!SetNextBuffer
  <2> DEFINE channel == Fwum!Buffers[Len(armed) + 1]
  <2>1. PICK o \in Fwum!Outcomes :
          /\ large' = IF o.carried THEN large \union {channel} ELSE large
          /\ armed' = IF o.answer # "refused" THEN Append(armed, channel) ELSE armed
          /\ Fwum!StopOrElse(o.answer = "ok", pc)
    BY <1>1 DEF Fwum!SetNextBuffer, Fwum!Arm
  <2>2. o.carried => o.answer # "refused"
    BY DEF Fwum!Outcomes
  <2>3. /\ pc = "buffers" /\ pc' \in {"buffers", "clear"} /\ UNCHANGED <<old_good_bank, banks, open, cleanup, goal>>
    BY <1>1, <2>1 DEF Fwum!SetNextBuffer, Fwum!StopOrElse, Fwum!Stop, Fwum!plans, Fwum!bmc
  <2>4. channel \in Fwum!Channels
    <3>1. Len(armed) + 1 \in 1..Len(Fwum!Buffers)
      BY <1>0, <1>1 DEF Fwum!SetNextBuffer, Fwum!Buffers
    <3>2. Fwum!Buffers \in Seq(Fwum!Channels)
      <4>1. CASE ~negotiated
        BY <4>1 DEF Fwum!Buffers
      <4>2. CASE negotiated /\ ~bridged
        BY <4>2 DEF Fwum!Buffers, Fwum!Channels
      <4>3. CASE negotiated /\ bridged
        BY <4>3 DEF Fwum!Buffers, Fwum!Channels
      <4> QED
        BY <4>1, <4>2, <4>3
    <3> QED
      BY <3>1, <3>2
  <2> HIDE DEF channel
  <2>5. armed' \in Seq(Fwum!Channels) /\ large' \in SUBSET Fwum!Channels
    BY <1>0, <2>1, <2>4
  <2>6. \A c \in large' : c \in cleanup \/ \E k \in 1..Len(armed') : armed'[k] = c
    <3>1. CASE o.answer # "refused"
      <4>1. /\ armed' = Append(armed, channel) /\ Len(armed') = Len(armed) + 1 /\ Len(armed) \in Nat
            /\ armed'[Len(armed) + 1] = channel /\ \A k \in 1..Len(armed) : armed'[k] = armed[k]
        BY <1>0, <2>1, <2>4, <3>1
      <4>2. \A c \in large' : c \in large \/ c = channel
        BY <2>1
      <4>3. Len(armed) + 1 \in 1..Len(armed') /\ \A k \in 1..Len(armed) : k \in 1..Len(armed')
        BY <4>1
      <4> QED
        BY <1>0, <4>1, <4>2, <4>3
    <3>2. CASE o.answer = "refused"
      BY <1>0, <2>1, <2>2, <3>2
    <3> QED
      BY <3>1, <3>2
  <2> QED
    BY <2>3, <2>5, <2>6 DEF FwumInv
<1>2. CASE Fwum!ClearBuffer
  <2> DEFINE n == Len(armed)
             channel == armed[n]
  <2>1. PICK o \in Fwum!Outcomes :
          /\ large' = IF o.carried THEN large \ {channel} ELSE large
          /\ cleanup' = IF o.answer = "ok" THEN cleanup ELSE cleanup \union {channel}
    BY <1>2 DEF Fwum!ClearBuffer
  <2>2. o.answer = "ok" => o.carried
    BY DEF Fwum!Outcomes
  <2>3. /\ pc = "clear" /\ UNCHANGED <<pc, old_good_bank, banks, open, goal>> /\ armed # <<>>
        /\ armed' = SubSeq(armed, 1, n - 1)
    BY <1>2 DEF Fwum!ClearBuffer, Fwum!plans, Fwum!bmc
  <2>4. /\ n \in Nat \ {0} /\ armed' \in Seq(Fwum!Channels) /\ Len(armed') = n - 1
        /\ \A k \in 1..(n - 1) : armed'[k] = armed[k]
    <3>1. n \in Nat \ {0} /\ 1 \in Int /\ n - 1 \in Int /\ \A k \in 1..(n - 1) : armed[k] \in Fwum!Channels
      BY <1>0, <2>3
    <3> HIDE DEF n
    <3>2. /\ SubSeq(armed, 1, n - 1) \in Seq(Fwum!Channels)
          /\ Len(SubSeq(armed, 1, n - 1)) = IF 1 <= n - 1 THEN (n - 1) - 1 + 1 ELSE 0
          /\ \A k \in 1..((n - 1) - 1 + 1) : SubSeq(armed, 1, n - 1)[k] = armed[1 + k - 1]
      BY <3>1, SubSeqProperties
    <3>3. \A k \in 1..(n - 1) : 1 + k - 1 = k
      BY <3>1
    <3> QED
      BY <2>3, <3>1, <3>2, <3>3
  <2>5. \A c \in large' : c \in cleanup' \/ \E k \in 1..Len(armed') : armed'[k] = c
    <3> SUFFICES ASSUME NEW c \in large' PROVE c \in cleanup' \/ \E k \in 1..Len(armed') : armed'[k] = c
      OBVIOUS
    <3>1. c \in large /\ (c = channel => c \in cleanup')
      BY <2>1, <2>2
    <3>2. CASE \E k \in 1..n : armed[k] = c
      <4>1. PICK k \in 1..n : armed[k] = c
        BY <3>2
      <4>2. CASE k = n
        BY <3>1, <4>1, <4>2
      <4>3. CASE k # n
        BY <2>4, <4>1, <4>3
      <4> QED
        BY <4>2, <4>3
    <3>3. CASE c \in cleanup
      BY <2>1, <3>3
    <3> QED
      BY <1>0, <3>1, <3>2, <3>3
  <2>6. large' \in SUBSET Fwum!Channels
    BY <1>0, <2>1
  <2> QED
    BY <2>3, <2>4, <2>5, <2>6 DEF FwumInv
<1> QED
  BY <1>1, <1>2

\* The bank that is written is one of the update, and another than the good one.
LEMMA FwumWrites ==
  ASSUME FwumInv, Fwum!StartImage \/ Fwum!SaveImage \/ Fwum!FinishImage \/ Fwum!StartUpdate \/ Fwum!ManualRollback
  PROVE  FwumInv'
<1>0. /\ UNCHANGED <<old_good_bank, large, armed, cleanup>>
  BY DEF Fwum!StartImage, Fwum!SaveImage, Fwum!FinishImage, Fwum!StartUpdate, Fwum!ManualRollback,
         Fwum!plans
<1>4. goal' \in Goals
  BY DEF FwumInv, Goals, Fwum!StartImage, Fwum!SaveImage, Fwum!FinishImage, Fwum!StartUpdate,
         Fwum!ManualRollback
<1>1. CASE Fwum!StartImage
  <2>1. PICK o \in Fwum!Outcomes, b \in Fwum!Banks \union {Fwum!NoBank} :
          /\ IF o.carried THEN open' = b ELSE b = Fwum!NoBank /\ UNCHANGED open
          /\ \/ o.answer = "ok" /\ ~Fwum!Unfit(b) /\ pc' \in {"save", "cancelled"}
             \/ Fwum!Stop
    BY <1>1 DEF Fwum!StartImage
  <2>2. o.answer = "ok" => o.carried
    BY DEF Fwum!Outcomes
  <2>3. pc' \in {"save", "cancelled"} => open' \in Fwum!Banks \ {old_good_bank}
    BY <2>1, <2>2 DEF Fwum!Unfit, Fwum!Stop
  <2>4. UNCHANGED banks /\ pc' \in {"save", "cancelled", "clear"}
    BY <1>1, <2>1 DEF Fwum!StartImage, Fwum!Stop
  <2> QED
    BY <1>0, <1>4, <2>3, <2>4 DEF FwumInv
<1>2. CASE Fwum!SaveImage \/ Fwum!FinishImage
  <2>1. open \in Fwum!Banks \ {old_good_bank} /\ pc = "save"
    BY <1>2 DEF Fwum!SaveImage, Fwum!FinishImage, FwumInv
  <2>2. \/ banks' = banks
        \/ \E s \in BankStatuses : banks' = [banks EXCEPT ![open] = s]
    BY <1>2 DEF Fwum!SaveImage, Fwum!FinishImage, Fwum!Status, Fwum!Image, BankStatuses
  <2>3. banks' \in [Fwum!Banks -> BankStatuses] /\ banks'[old_good_bank].holds = "baseline"
    BY <2>1, <2>2 DEF FwumInv
  <2>4. CASE Fwum!SaveImage
    <3>1. UNCHANGED open /\ pc' \in {"save", "cancelled", "clear"}
      BY <2>4 DEF Fwum!SaveImage, Fwum!Stop
    <3> QED
      BY <1>0, <1>4, <2>1, <2>3, <3>1 DEF FwumInv
  <2>5. CASE Fwum!FinishImage
    <3>1. goal' = "finish" /\ pc' \in {"read", "clear"}
      BY <2>5 DEF Fwum!FinishImage, Fwum!StopOrElse, Fwum!Stop
    <3> QED
      BY <1>0, <1>4, <2>1, <2>3, <3>1 DEF FwumInv
  <2> QED
    BY <1>2, <2>4, <2>5
<1>3. CASE Fwum!StartUpdate \/ Fwum!ManualRollback
  <2>1. /\ pc \in {"activate", "rollback"} /\ pc' \in {"ready", "clear"} /\ UNCHANGED <<banks, open>>
    BY <1>3 DEF Fwum!StartUpdate, Fwum!ManualRollback, Fwum!Stop
  <2>2. armed = <<>>
    BY <2>1 DEF FwumInv
  <2> QED
    BY <1>0, <1>4, <2>1, <2>2 DEF FwumInv
<1> QED
  BY <1>1, <1>2, <1>3

\* A boot changes what a bank is, not what it holds; another console stages
\* into the other bank.
LEMMA FwumOthers ==
  ASSUME FwumInv, Fwum!Boot \/ Fwum!Meddle
  PROVE  FwumInv'
<1>0. UNCHANGED <<pc, goal, old_good_bank, open, large, armed, cleanup>>
  BY DEF Fwum!Boot, Fwum!Meddle, Fwum!transfer, Fwum!session, Fwum!plans
<1>1. Fwum!Spare \in Fwum!Banks \ {old_good_bank} /\ old_good_bank \in Fwum!Banks
  BY FwumSpare DEF FwumInv
<1>2. banks \in [Fwum!Banks -> BankStatuses] /\ banks[old_good_bank].holds = "baseline"
  BY DEF FwumInv
<1>3. ASSUME NEW b \in Fwum!Banks, NEW st \in {"good", "previous", "other", "new"}
      PROVE  [banks[b] EXCEPT !.state = st] \in BankStatuses /\ [banks[b] EXCEPT !.state = st].holds = banks[b].holds
  BY <1>2 DEF BankStatuses
<1>4. banks' \in [Fwum!Banks -> BankStatuses] /\ banks'[old_good_bank].holds = "baseline"
  <2>1. CASE Fwum!Meddle
    <3>1. banks' = [banks EXCEPT ![Fwum!Spare] = [state |-> "new", holds |-> "foreign"]]
      BY <2>1 DEF Fwum!Meddle, Fwum!Status
    <3> QED
      BY <1>1, <1>2, <3>1 DEF BankStatuses
  <2>2. CASE Fwum!Boot
    <3>1. \/ banks' = [banks EXCEPT ![old_good_bank].state = "previous", ![Fwum!Spare].state = "good"]
          \/ banks' = [banks EXCEPT ![Fwum!Spare].state = "other"]
          \/ banks' = [banks EXCEPT ![old_good_bank].state = "good", ![Fwum!Spare].state = "previous"]
      BY <2>2 DEF Fwum!Boot
    <3>2. \/ \A b \in Fwum!Banks : banks'[b] = IF b = old_good_bank THEN [banks[b] EXCEPT !.state = "previous"]
                                              ELSE IF b = Fwum!Spare THEN [banks[b] EXCEPT !.state = "good"] ELSE banks[b]
          \/ \A b \in Fwum!Banks : banks'[b] = IF b = Fwum!Spare THEN [banks[b] EXCEPT !.state = "other"] ELSE banks[b]
          \/ \A b \in Fwum!Banks : banks'[b] = IF b = old_good_bank THEN [banks[b] EXCEPT !.state = "good"]
                                              ELSE IF b = Fwum!Spare THEN [banks[b] EXCEPT !.state = "previous"] ELSE banks[b]
      BY <1>1, <1>2, <3>1
    <3>3. \A b \in Fwum!Banks : banks'[b] \in BankStatuses /\ banks'[b].holds = banks[b].holds
      BY <1>2, <1>3, <3>2
    <3>4. banks' = [b \in Fwum!Banks |-> banks'[b]]
      BY <1>2, <3>1
    <3> QED
      BY <1>1, <1>2, <3>3, <3>4
  <2> QED
    BY <2>1, <2>2
<1> QED
  BY <1>0, <1>4 DEF FwumInv

\* Each step of a firmware update, and of another who writes a bank.
LEMMA FwumStep ==
  ASSUME FwumInv, Fwum!Next
  PROVE  FwumInv'
  BY FwumReads, FwumBuffer, FwumWrites, FwumOthers DEF Fwum!Next
-----------------------------------------------------------------------------
(* The Kontron maintenance workflows.  As much is still reserved as the rest of *)
(* one draws at most, apart from what the first read of a restoration did  *)
(* cost more than it should, and what is reserved is there.                *)
Pcs ==
    CASE workflow = "apply"   -> {"reserve", "identify", "info", "image", "reserve_again", "identify_again", "write", "release", "done"}
      [] workflow = "restore" -> {"reserve", "identify", "info", "image", "identify_again", "write", "release", "done"}
      [] workflow = "buffer"  -> {"reserve", "remote_identity", "buffer", "undo", "release", "done"}
      [] workflow = "boot"    -> {"reserve", "boot", "release", "done"}
KontronTypes ==
    /\ workflow \in {"apply", "restore", "buffer", "boot"} /\ pc \in Pcs
    /\ available \in Nat \union {-1} /\ reserved \in Nat
    /\ available # -1 => available >= reserved
    /\ cost \in Nat /\ cost >= Kontron!Readback
    /\ step \in Nat \ {0} /\ undo \in Nat
    /\ outcome # "none" => pc \in {"release", "done"}

(* The chunks to write, and the steps of a negotiation.                    *)
Writing == Kontron!Cardinality(Kontron!ChunksOf(Kontron!Differing))
Last == IF bridged THEN 3 ELSE 1
KontronPlace ==
    /\ pc \in {"reserve", "identify", "info", "image", "reserve_again", "identify_again", "remote_identity"} => step = 1
    /\ pc = "write" => step <= Writing + 1
    /\ pc = "remote_identity" => bridged
    /\ pc = "buffer" => step <= Last + 1
    /\ pc = "undo" => undo <= Last

SetDue ==
    IF bridged THEN IF step = 1 THEN 18 ELSE IF step = 2 THEN 16 ELSE IF step = 3 THEN 14 ELSE 0
    ELSE IF step = 1 THEN 4 ELSE 0
UndoDue == IF undo = 3 THEN 8 ELSE 2 * undo
AsExpected == workflow = "apply" \/ cost = Kontron!Readback
KontronReserve ==
    available # -1 =>
        /\ pc = "identify_again" /\ AsExpected => reserved >= (Writing + cost + 1) * Kontron!Hop
        /\ pc = "write" /\ AsExpected => reserved >= (Writing + 1 - step + cost) * Kontron!Hop
        /\ pc = "boot" => reserved >= 2 * Kontron!Hop
        /\ pc = "remote_identity" => reserved >= 20
        /\ pc = "buffer" => reserved >= SetDue
        /\ pc = "undo" => reserved >= UndoDue

(* A buffer that may be large is one to restore or named as left.          *)
KontronBuffers ==
    /\ pc \in {"reserve", "identify", "info", "image", "reserve_again", "identify_again", "write", "boot", "remote_identity"} => large = {}
    /\ pc = "buffer" => \A c \in large : \E k \in 1..Last : k < step /\ c = Kontron!Steps[k]
    /\ pc = "undo" => \A c \in large : c \in cleanup \/ \E k \in 1..Last : k <= undo /\ c = Kontron!Steps[k]
    /\ pc \in {"release", "done"} /\ outcome # "applied" => large \subseteq cleanup

KontronInv ==
    /\ KontronTypes /\ KontronPlace /\ KontronReserve /\ KontronBuffers
    /\ Kontron!ReservationEnough

\* The sizes are numbers.
LEMMA KontronSizes ==
  /\ Kontron!Readback \in Nat \ {0} /\ Kontron!Chunks \in Nat /\ Kontron!Readback = 1 + Kontron!Chunks
  /\ Kontron!Hop \in {1, 2}
  /\ \A S : Kontron!Cardinality(Kontron!ChunksOf(S)) \in Nat
<1>1. Kontron!Chunks \in Nat /\ Kontron!Readback = 1 + Kontron!Chunks
  BY KontronAssumption DEF Kontron!Chunks, Kontron!Readback
<1>2. Kontron!Hop \in {1, 2}
  BY DEF Kontron!Hop
<1>3. ASSUME NEW S PROVE Kontron!Cardinality(Kontron!ChunksOf(S)) \in Nat
  <2>1. Kontron!ChunksOf(S) \subseteq 1..(Board + Product)
    BY KontronAssumption DEF Kontron!ChunksOf, Kontron!Area
  <2>a. Board + Product \in Int /\ 1 \in Int
    BY KontronAssumption
  <2>b. IsFiniteSet(1..(Board + Product))
    BY <2>a, FS_Interval
  <2>2. IsFiniteSet(Kontron!ChunksOf(S))
    BY <2>1, <2>b, FS_Subset
  <2>3. Cardinality(Kontron!ChunksOf(S)) \in Nat
    BY <2>2, FS_CardinalityType
  <2>4. Kontron!Cardinality(Kontron!ChunksOf(S)) = Cardinality(Kontron!ChunksOf(S))
    BY Zenon DEF Kontron!Cardinality, Cardinality
  <2> QED
    BY <2>3, <2>4
<1> QED
  BY <1>1, <1>2, <1>3

\* The chunks to write are counted.
LEMMA WritingNat ==
  /\ Writing \in Nat /\ Len(Kontron!AreaWrites) = Writing
<1>1. Writing \in Nat
  BY KontronSizes DEF Writing
<1> DEFINE Chunk(k) == CHOOSE c \in Kontron!ChunksOf(Kontron!Differing) :
                         Kontron!Cardinality({d \in Kontron!ChunksOf(Kontron!Differing) : d < c}) = k - 1
<1>2. Kontron!AreaWrites = [k \in 1..Writing |-> Chunk(k)]
  BY Zenon DEF Kontron!AreaWrites, Writing
<1> HIDE DEF Chunk
<1> QED
  BY <1>1, <1>2

\* What is fixed, and what is while the image is not read again.
LEMMA KontronFixed ==
  ASSUME UNCHANGED <<workflow, changed, bridged>>
  PROVE  /\ UNCHANGED <<Pcs, Last, Kontron!Hop, Kontron!Steps>>
         /\ UNCHANGED before => UNCHANGED Writing
<1>1. UNCHANGED <<Pcs, Last, Kontron!Hop, Kontron!Steps>>
  BY DEF Pcs, Last, Kontron!Hop, Kontron!Steps
<1>2. ASSUME UNCHANGED before PROVE UNCHANGED Writing
  <2>1. Kontron!Desired' = Kontron!Desired
    BY DEF Kontron!Desired, Kontron!Proposed, Kontron!Backup
  <2>2. Kontron!Differing' = Kontron!Differing
    BY <1>2, <2>1 DEF Kontron!Differing
  <2> QED
    BY <2>2 DEF Writing
<1> QED
  BY <1>1, <1>2

\* What a command draws of what is reserved.
LEMMA Spending ==
  ASSUME KontronTypes, NEW n \in Nat, Kontron!Spend(n)
  PROVE  /\ available' \in Nat \union {-1} /\ reserved' \in Nat
         /\ available' = -1 <=> available = -1
         /\ available' # -1 => available' >= reserved' /\ reserved' >= reserved - n
<1>1. CASE available = -1
  BY <1>1 DEF KontronTypes, Kontron!Spend, Kontron!Unlimited, Kontron!transport
<1>2. CASE available # -1
  <2>1. PICK draws \in {0, 1} :
          /\ draws = 0 \/ available - n - draws >= reserved'
          /\ available - n - draws >= 0
          /\ available' = available - n - draws
    BY <1>2 DEF Kontron!Spend, Kontron!Unlimited
  <2>2. available >= n /\ reserved' = IF reserved > n THEN reserved - n ELSE 0
    BY <1>2 DEF Kontron!Spend, Kontron!Unlimited
  <2>3. available \in Nat /\ reserved \in Nat /\ available >= reserved
    BY <1>2 DEF KontronTypes
  <2> QED
    BY <1>2, <2>1, <2>2, <2>3
<1> QED
  BY <1>1, <1>2

\* Before anything is reserved.
LEMMA KontronStart == Kontron!Init => KontronInv
<1> SUFFICES ASSUME Kontron!Init PROVE KontronInv
  OBVIOUS
<1>1. /\ workflow \in {"apply", "restore", "buffer", "boot"}
      /\ pc = (IF workflow = "restore" THEN "identify" ELSE "reserve")
      /\ available \in Budgets \union {-1} /\ reserved = 0
      /\ cost = Kontron!Readback /\ step = 1 /\ undo = 0 /\ large = {} /\ outcome = "none"
  BY DEF Kontron!Init, Kontron!Unlimited
<1>2. KontronTypes
  BY <1>1, KontronSizes, KontronAssumption DEF KontronTypes, Pcs
<1> QED
  BY <1>1, <1>2 DEF KontronInv, KontronPlace, KontronReserve, KontronBuffers,
         Kontron!ReservationEnough

\* Multiples of the numbers that a command draws.
LEMMA HopTimes ==
  ASSUME NEW n \in Nat
  PROVE  /\ n * Kontron!Hop \in Nat /\ (n + 1) * Kontron!Hop = n * Kontron!Hop + Kontron!Hop
         /\ n >= 1 => n * Kontron!Hop >= Kontron!Hop
<1>1. CASE Kontron!Hop = 1
  BY <1>1
<1>2. CASE Kontron!Hop = 2
  BY <1>2
<1> QED
  BY <1>1, <1>2, KontronSizes

\* What the steps of a negotiation draw.
LEMMA BufferCosts ==
  /\ Len(Kontron!Steps) = Last
  /\ bridged => /\ Kontron!SetCost(1) = 2 /\ Kontron!SetCost(2) = 2 /\ Kontron!SetCost(3) = 6
                /\ Kontron!StepCost(1) = 2 /\ Kontron!StepCost(2) = 2 /\ Kontron!StepCost(3) = 4
  /\ ~bridged => Kontron!SetCost(1) = 2 /\ Kontron!StepCost(1) = 2
BY DEF Kontron!Steps, Last, Kontron!SetCost, Kontron!StepCost

\* A workflow that ends names what it leaves behind.
LEMMA KontronEnds ==
  ASSUME KontronInv, NEW verdict, Kontron!End(verdict), UNCHANGED <<workflow, changed, bridged, cost, step, undo>>,
         available' \in Nat \union {-1}, reserved' \in Nat, available' # -1 => available' >= reserved',
         verdict # "applied" => large' \subseteq cleanup',
         verdict = "exhausted" => workflow = "restore" /\ cost > Kontron!Readback
  PROVE  KontronInv'
<1>1. pc' = "release" /\ outcome' = verdict
  BY DEF Kontron!End
<1>2. Pcs' = Pcs /\ "release" \in Pcs
  BY KontronFixed DEF KontronInv, KontronTypes, Pcs
<1>3. KontronTypes'
  BY <1>1, <1>2 DEF KontronInv, KontronTypes
<1>4. KontronPlace' /\ KontronReserve' /\ KontronBuffers'
  BY <1>1 DEF KontronPlace, KontronReserve, KontronBuffers
<1>5. Kontron!ReservationEnough'
  BY <1>1 DEF Kontron!ReservationEnough
<1> QED
  BY <1>3, <1>4, <1>5 DEF KontronInv

\* reserve_kontron_fru_budget() sets aside what the rest may draw.
LEMMA KontronReserves ==
  ASSUME KontronInv, Kontron!Reserve
  PROVE  KontronInv'
<1>1. /\ pc = "reserve" /\ step = 1 /\ large = {}
      /\ UNCHANGED <<large, workflow, changed, bridged, available, before, cost, step, undo, cleanup>>
  BY DEF Kontron!Reserve, Kontron!plans, KontronInv, KontronPlace, KontronBuffers
<1>2. CASE /\ available # Kontron!Unlimited /\ available < Kontron!Needed
           /\ Kontron!End("budget") /\ UNCHANGED reserved
  BY <1>1, <1>2, KontronEnds DEF KontronInv, KontronTypes
<1>3. CASE /\ available = Kontron!Unlimited \/ available >= Kontron!Needed
           /\ reserved' = IF available = Kontron!Unlimited THEN 0 ELSE Kontron!Needed
           /\ outcome' = outcome
           /\ pc' = CASE workflow = "apply" -> "identify"
                      [] workflow = "restore" -> "identify_again"
                      [] workflow = "buffer" -> IF bridged THEN "remote_identity" ELSE "buffer"
                      [] workflow = "boot" -> "boot"
  <2>1. outcome = "none"
    BY <1>1 DEF KontronInv, KontronTypes
  <2>2. workflow \in {"apply", "restore", "buffer", "boot"}
    BY DEF KontronInv, KontronTypes
  <2>3. Pcs' = Pcs /\ Last' = Last /\ Writing' = Writing /\ Kontron!Hop' = Kontron!Hop
    BY <1>1, KontronFixed
  <2>4. Kontron!Needed \in Nat
    BY <2>2, KontronSizes DEF Kontron!Needed, Kontron!CostOf
  <2>5. available # -1 => reserved' = Kontron!Needed
    BY <1>3 DEF Kontron!Unlimited
  <2>6. KontronTypes'
    <3>1. pc' \in Pcs
      BY <1>3, <2>2 DEF Pcs
    <3>2. reserved' \in Nat /\ (available # -1 => available >= reserved')
      BY <1>3, <2>4 DEF Kontron!Unlimited
    <3> QED
      BY <1>1, <1>3, <2>1, <2>2, <2>3, <3>1, <3>2 DEF KontronInv, KontronTypes
  <2>7. KontronPlace'
    BY <1>1, <1>3, <2>2, <2>3, WritingNat DEF KontronPlace, Last
  <2>8. KontronBuffers'
    BY <1>1, <1>3, <2>2 DEF KontronBuffers
  <2>9. KontronReserve'
    <3>1. CASE workflow = "apply"
      BY <1>3, <3>1 DEF KontronReserve
    <3>2. CASE workflow = "restore"
      <4>1. pc' = "identify_again" /\ workflow' = "restore"
        BY <1>1, <1>3, <3>2
      <4>2. Kontron!Needed = (Writing + Kontron!Readback) * Kontron!Hop + Kontron!Hop
        BY <3>2, WritingNat, KontronSizes DEF Kontron!Needed, Kontron!CostOf, Writing
      <4>3. Writing + Kontron!Readback \in Nat
        BY WritingNat, KontronSizes
      <4>4. Kontron!Needed = (Writing + Kontron!Readback + 1) * Kontron!Hop
        BY <4>2, <4>3, HopTimes
      <4>5. AsExpected' => cost' = Kontron!Readback
        BY <4>1 DEF AsExpected, Kontron!Readback, Kontron!Chunks
      <4> QED
        BY <1>1, <2>3, <2>5, <4>1, <4>4, <4>5, KontronSizes, WritingNat DEF KontronReserve
    <3>3. CASE workflow = "buffer"
      <4>1. Kontron!Needed = IF bridged THEN 20 ELSE 4
        BY <3>3 DEF Kontron!Needed
      <4> QED
        BY <1>1, <1>3, <2>5, <3>3, <4>1 DEF KontronReserve, SetDue
    <3>4. CASE workflow = "boot"
      <4>1. Kontron!Needed = 2 * Kontron!Hop
        BY <3>4 DEF Kontron!Needed
      <4> QED
        BY <1>1, <1>3, <2>3, <2>5, <3>4, <4>1, KontronSizes DEF KontronReserve
    <3> QED
      BY <2>2, <3>1, <3>2, <3>3, <3>4
  <2>10. Kontron!ReservationEnough'
    BY <1>3, <2>1 DEF Kontron!ReservationEnough
  <2> QED
    BY <2>6, <2>7, <2>8, <2>9, <2>10 DEF KontronInv
<1> QED
  BY <1>2, <1>3 DEF Kontron!Reserve

\* A read that fails ends it: nothing was written.
LEMMA KontronRefuses ==
  ASSUME KontronInv, Kontron!Refuse
  PROVE  KontronInv'
<1>1. /\ large = {} /\ Kontron!End("refused")
      /\ UNCHANGED <<large, workflow, changed, bridged, available, reserved, before, cost, step, undo, cleanup>>
  BY DEF Kontron!Refuse, Kontron!plans, Kontron!transport, KontronInv, KontronBuffers
<1> QED
  BY <1>1, KontronEnds DEF KontronInv, KontronTypes

\* A workflow that goes on, having drawn what it needed.
LEMMA KontronGoesOn ==
  ASSUME KontronInv, NEW n \in Nat, Kontron!Spend(n), pc \notin {"release", "done"},
         UNCHANGED <<workflow, changed, bridged, outcome>>,
         pc' \in Pcs, cost' \in Nat, cost' >= Kontron!Readback, step' \in Nat \ {0}, undo' \in Nat
  PROVE  KontronTypes' /\ Kontron!ReservationEnough'
<1>1. outcome' = "none"
  BY DEF KontronInv, KontronTypes
<1>2. Pcs' = Pcs /\ Kontron!Readback' = Kontron!Readback
  BY KontronFixed DEF Kontron!Readback, Kontron!Chunks
<1>3. KontronTypes
  BY DEF KontronInv
<1>4. /\ available' \in Nat \union {-1} /\ reserved' \in Nat
      /\ available' # -1 => available' >= reserved'
  BY <1>3, Spending
<1>5. workflow' \in {"apply", "restore", "buffer", "boot"}
  BY <1>3 DEF KontronTypes
<1>6. KontronTypes'
  BY <1>1, <1>2, <1>4, <1>5 DEF KontronTypes
<1>7. Kontron!ReservationEnough'
  BY <1>1 DEF Kontron!ReservationEnough
<1> QED
  BY <1>6, <1>7

\* The target is identified.
LEMMA KontronIdentifies ==
  ASSUME KontronInv, Kontron!Identify
  PROVE  KontronInv'
<1>1. /\ pc \in {"identify", "info"} /\ Kontron!Spend(Kontron!Hop)
      /\ pc' = IF pc = "identify" THEN "info" ELSE "image"
      /\ UNCHANGED <<large, workflow, changed, bridged, before, cost, step, undo, cleanup, outcome>>
  BY DEF Kontron!Identify, Kontron!plans
<1>2. pc' \in Pcs
  BY <1>1 DEF KontronInv, KontronTypes, Pcs
<1>3. KontronTypes' /\ Kontron!ReservationEnough'
  <2>1. Kontron!Hop \in Nat
    BY KontronSizes
  <2>2. cost' \in Nat /\ cost' >= Kontron!Readback /\ step' \in Nat \ {0} /\ undo' \in Nat
    BY <1>1 DEF KontronInv, KontronTypes
  <2> QED
    BY <1>1, <1>2, <2>1, <2>2, KontronGoesOn
<1>4. KontronPlace' /\ KontronReserve' /\ KontronBuffers'
  BY <1>1 DEF KontronInv, KontronPlace, KontronReserve, KontronBuffers
<1> QED
  BY <1>3, <1>4 DEF KontronInv

\* The image is read, at the cost it takes.
LEMMA KontronReadsImage ==
  ASSUME KontronInv, Kontron!ReadImage
  PROVE  KontronInv'
<1>1. /\ pc = "image" /\ step = 1 /\ large = {}
      /\ UNCHANGED <<large, workflow, changed, bridged, step, undo, cleanup>>
  BY DEF Kontron!ReadImage, Kontron!plans, KontronInv, KontronPlace, KontronBuffers
<1>2. PICK more \in 0..Shrinks :
        /\ Kontron!Spend((Kontron!Readback + more) * Kontron!Hop)
        /\ \/ ~Kontron!Acceptable /\ Kontron!End("changed") /\ UNCHANGED <<before, cost>>
           \/ /\ Kontron!Acceptable
              /\ before' = fru /\ cost' = Kontron!Measured(more)
              /\ pc' = IF workflow = "restore" THEN "reserve" ELSE "reserve_again"
              /\ UNCHANGED outcome
  BY DEF Kontron!ReadImage
<1>3. more \in Nat /\ Kontron!Readback + more \in Nat
  BY KontronAssumption, KontronSizes
<1>4. (Kontron!Readback + more) * Kontron!Hop \in Nat
  BY <1>3, HopTimes
<1>5. CASE Kontron!End("changed") /\ UNCHANGED <<before, cost>>
  <2>1. /\ available' \in Nat \union {-1} /\ reserved' \in Nat
        /\ available' # -1 => available' >= reserved'
    BY <1>2, <1>4, Spending DEF KontronInv
  <2> QED
    BY <1>1, <1>5, <2>1, KontronEnds
<1>6. CASE /\ cost' = Kontron!Measured(more)
           /\ pc' = IF workflow = "restore" THEN "reserve" ELSE "reserve_again"
           /\ UNCHANGED outcome
  <2>1. cost' \in Nat /\ cost' >= Kontron!Readback
    BY <1>3, <1>6, KontronSizes DEF Kontron!Measured
  <2>2. pc' \in Pcs
    BY <1>1, <1>6 DEF KontronInv, KontronTypes, Pcs
  <2>3. step' \in Nat \ {0} /\ undo' \in Nat
    BY <1>1 DEF KontronInv, KontronTypes
  <2>4. KontronTypes' /\ Kontron!ReservationEnough'
    BY <1>1, <1>2, <1>4, <1>6, <2>1, <2>2, <2>3, KontronGoesOn
  <2>5. KontronPlace' /\ KontronReserve' /\ KontronBuffers'
    BY <1>1, <1>6 DEF KontronPlace, KontronReserve, KontronBuffers
  <2> QED
    BY <2>4, <2>5 DEF KontronInv
<1> QED
  BY <1>2, <1>5, <1>6

\* An apply reserves again, for what the read did cost.
LEMMA KontronReservesAgain ==
  ASSUME KontronInv, Kontron!ReserveAgain
  PROVE  KontronInv'
<1>1. /\ pc = "reserve_again" /\ step = 1 /\ large = {}
      /\ UNCHANGED <<large, workflow, changed, bridged, available, before, cost, step, undo, cleanup>>
  BY DEF Kontron!ReserveAgain, Kontron!plans, KontronInv, KontronPlace, KontronBuffers
<1>2. CASE Kontron!End("budget") /\ UNCHANGED reserved
  BY <1>1, <1>2, KontronEnds DEF KontronInv, KontronTypes
<1>3. CASE /\ available = Kontron!Unlimited \/ available >= Kontron!StillNeeded
           /\ reserved' = IF available = Kontron!Unlimited THEN 0 ELSE Kontron!StillNeeded
           /\ pc' = "identify_again" /\ UNCHANGED outcome
  <2>1. outcome = "none" /\ cost \in Nat
    BY <1>1 DEF KontronInv, KontronTypes
  <2>2. Pcs' = Pcs /\ Writing' = Writing /\ Kontron!Hop' = Kontron!Hop
    BY <1>1, KontronFixed
  <2>3. Kontron!StillNeeded = (Writing + cost + 1) * Kontron!Hop
    <3>1. Kontron!StillNeeded = (Writing + cost) * Kontron!Hop + Kontron!Hop
      BY <2>1, WritingNat, KontronSizes DEF Kontron!StillNeeded, Kontron!CostOf, Writing
    <3>2. Writing + cost \in Nat
      BY <2>1, WritingNat
    <3> QED
      BY <3>1, <3>2, HopTimes
  <2>4. Kontron!StillNeeded \in Nat
    BY <2>1, <2>3, WritingNat, HopTimes
  <2>5. pc' \in Pcs
    BY <1>1, <1>3 DEF KontronInv, KontronTypes, Pcs
  <2>6. reserved' \in Nat /\ (available # -1 => available >= reserved' /\ reserved' = Kontron!StillNeeded)
    BY <1>3, <2>4 DEF Kontron!Unlimited
  <2>7. KontronTypes'
    BY <1>1, <1>3, <2>1, <2>2, <2>5, <2>6 DEF KontronInv, KontronTypes, Kontron!Readback,
           Kontron!Chunks
  <2>8. KontronReserve'
    BY <1>1, <1>3, <2>2, <2>3, <2>6 DEF KontronReserve
  <2>9. KontronPlace' /\ KontronBuffers'
    BY <1>1, <1>3 DEF KontronPlace, KontronBuffers
  <2>10. Kontron!ReservationEnough'
    BY <1>3, <2>1 DEF Kontron!ReservationEnough
  <2> QED
    BY <2>7, <2>8, <2>9, <2>10 DEF KontronInv
<1> QED
  BY <1>2, <1>3 DEF Kontron!ReserveAgain

\* The target is identified again, just before it is written.
LEMMA KontronIdentifiesAgain ==
  ASSUME KontronInv, Kontron!IdentifyAgain
  PROVE  KontronInv'
<1>1. /\ pc = "identify_again" /\ Kontron!Spend(Kontron!Hop) /\ pc' = "write" /\ step = 1 /\ large = {}
      /\ UNCHANGED <<large, workflow, changed, bridged, before, cost, step, undo, cleanup, outcome>>
  BY DEF Kontron!IdentifyAgain, Kontron!plans, KontronInv, KontronPlace, KontronBuffers
<1>2. Kontron!Hop \in Nat /\ cost \in Nat
  BY KontronSizes DEF KontronInv, KontronTypes
<1>3. pc' \in Pcs
  BY <1>1 DEF KontronInv, KontronTypes, Pcs
<1>4. KontronTypes' /\ Kontron!ReservationEnough'
  <2>1. cost' \in Nat /\ cost' >= Kontron!Readback /\ step' \in Nat \ {0} /\ undo' \in Nat
    BY <1>1 DEF KontronInv, KontronTypes
  <2> QED
    BY <1>1, <1>2, <1>3, <2>1, KontronGoesOn
<1>5. Pcs' = Pcs /\ Writing' = Writing /\ Kontron!Hop' = Kontron!Hop /\ UNCHANGED AsExpected
  BY <1>1, KontronFixed DEF AsExpected, Kontron!Readback, Kontron!Chunks
<1>6. KontronPlace'
  BY <1>1, <1>5, WritingNat DEF KontronPlace
<1>7. KontronReserve'
  <2> SUFFICES ASSUME available' # -1, AsExpected'
               PROVE  reserved' >= (Writing' + 1 - step' + cost') * Kontron!Hop'
    BY <1>1 DEF KontronReserve
  <2>1. /\ available # -1 /\ reserved' >= reserved - Kontron!Hop /\ reserved' \in Nat /\ reserved \in Nat
    BY <1>1, <1>2, Spending DEF KontronInv, KontronTypes
  <2>2. reserved >= (Writing + cost + 1) * Kontron!Hop
    BY <1>1, <1>5, <2>1 DEF KontronInv, KontronReserve
  <2>3. (Writing + cost + 1) * Kontron!Hop = (Writing + cost) * Kontron!Hop + Kontron!Hop
    <3>1. Writing + cost \in Nat
      BY <1>2, WritingNat
    <3> QED
      BY <3>1, HopTimes
  <2>4. Writing + 1 - step + cost = Writing + cost
    BY <1>1, <1>2, WritingNat
  <2>5. (Writing + cost) * Kontron!Hop \in Nat
    BY <1>2, WritingNat, HopTimes
  <2> DEFINE N == (Writing + cost) * Kontron!Hop
  <2>6. reserved' >= N
    <3> HIDE DEF N
    <3> QED
      BY <1>2, <2>1, <2>2, <2>3, <2>5 DEF N
  <2> QED
    BY <1>1, <1>5, <2>4, <2>6
<1>8. KontronBuffers'
  BY <1>1 DEF KontronBuffers
<1> QED
  BY <1>4, <1>6, <1>7, <1>8 DEF KontronInv

\* What is drawn leaves the numbers as the ends of a workflow need them.
LEMMA KontronSpends ==
  ASSUME KontronInv, NEW n \in Nat, Kontron!Spend(n)
  PROVE  /\ available' \in Nat \union {-1} /\ reserved' \in Nat
         /\ available' # -1 => available' >= reserved' /\ available # -1 /\ reserved' >= reserved - n
  BY Spending DEF KontronInv

\* One chunk of an area is written.
LEMMA KontronWritesChunk ==
  ASSUME KontronInv, Kontron!WriteChunk
  PROVE  KontronInv'
<1>1. /\ pc = "write" /\ step <= Writing /\ Kontron!Spend(Kontron!Hop) /\ large = {}
      /\ UNCHANGED <<large, workflow, changed, bridged, before, cost, undo, cleanup>>
      /\ \/ step' = step + 1 /\ UNCHANGED <<pc, outcome>>
         \/ Kontron!End("write") /\ UNCHANGED step
  BY WritingNat DEF Kontron!WriteChunk, Kontron!plans, KontronInv, KontronBuffers
<1>2. Kontron!Hop \in Nat /\ cost \in Nat /\ step \in Nat \ {0}
  BY KontronSizes DEF KontronInv, KontronTypes
<1>3. CASE Kontron!End("write") /\ UNCHANGED step
  BY <1>1, <1>2, <1>3, KontronSpends, KontronEnds
<1>4. CASE step' = step + 1 /\ UNCHANGED <<pc, outcome>>
  <2>1. Pcs' = Pcs /\ Writing' = Writing /\ Kontron!Hop' = Kontron!Hop /\ UNCHANGED AsExpected
    BY <1>1, KontronFixed DEF AsExpected, Kontron!Readback, Kontron!Chunks
  <2>2. KontronTypes' /\ Kontron!ReservationEnough'
    <3>1. cost' \in Nat /\ cost' >= Kontron!Readback /\ step' \in Nat \ {0} /\ undo' \in Nat /\ pc' \in Pcs
      BY <1>1, <1>2, <1>4 DEF KontronInv, KontronTypes
    <3> QED
      BY <1>1, <1>2, <1>4, <3>1, KontronGoesOn
  <2>3. KontronPlace'
    BY <1>1, <1>2, <1>4, <2>1, WritingNat DEF KontronPlace
  <2>4. KontronReserve'
    <3> SUFFICES ASSUME available' # -1, AsExpected'
                 PROVE  reserved' >= (Writing' + 1 - step' + cost') * Kontron!Hop'
      BY <1>1, <1>4 DEF KontronReserve
    <3> DEFINE N == (Writing - step + cost) * Kontron!Hop
    <3>1. reserved' >= reserved - Kontron!Hop /\ reserved' \in Nat /\ reserved \in Nat /\ available # -1
      BY <1>1, <1>2, KontronSpends DEF KontronInv, KontronTypes
    <3>2. reserved >= (Writing + 1 - step + cost) * Kontron!Hop
      BY <1>1, <2>1, <3>1 DEF KontronInv, KontronReserve
    <3>3. Writing - step + cost \in Nat /\ Writing + 1 - step + cost = (Writing - step + cost) + 1
      BY <1>1, <1>2, WritingNat
    <3>4. N \in Nat /\ (Writing + 1 - step + cost) * Kontron!Hop = N + Kontron!Hop
      BY <3>3, HopTimes
    <3>5. reserved' >= N
      <4> HIDE DEF N
      <4> QED
        BY <1>2, <3>1, <3>2, <3>4
    <3>6. Writing' + 1 - step' + cost' = Writing - step + cost
      BY <1>1, <1>2, <1>4, <2>1, WritingNat
    <3> QED
      BY <2>1, <3>5, <3>6
  <2>5. KontronBuffers'
    BY <1>1, <1>4 DEF KontronBuffers
  <2> QED
    BY <2>2, <2>3, <2>4, <2>5 DEF KontronInv
<1> QED
  BY <1>1, <1>3, <1>4

\* The image is read back.
LEMMA KontronVerifies ==
  ASSUME KontronInv, Kontron!Verify
  PROVE  KontronInv'
<1>1. /\ pc = "write" /\ large = {}
      /\ UNCHANGED <<large, workflow, changed, bridged, before, cost, step, undo, cleanup>>
      /\ \/ Kontron!Spend(cost * Kontron!Hop) /\ \E verdict \in {"applied", "mismatch"} : Kontron!End(verdict)
         \/ Kontron!End("unread") /\ UNCHANGED <<available, reserved>>
  BY DEF Kontron!Verify, Kontron!ReadBack, Kontron!plans, Kontron!transport, KontronInv,
         KontronBuffers
<1>2. cost * Kontron!Hop \in Nat
  BY HopTimes DEF KontronInv, KontronTypes
<1>3. CASE Kontron!End("unread") /\ UNCHANGED <<available, reserved>>
  BY <1>1, <1>3, KontronEnds DEF KontronInv, KontronTypes
<1>4. CASE Kontron!Spend(cost * Kontron!Hop) /\ \E verdict \in {"applied", "mismatch"} : Kontron!End(verdict)
  <2>1. PICK verdict \in {"applied", "mismatch"} : Kontron!End(verdict)
    BY <1>4
  <2> QED
    BY <1>1, <1>2, <1>4, <2>1, KontronSpends, KontronEnds
<1> QED
  BY <1>1, <1>3, <1>4

\* The next boot is set.
LEMMA KontronSetsNextBoot ==
  ASSUME KontronInv, Kontron!SetNextBoot
  PROVE  KontronInv'
<1>1. /\ pc = "boot" /\ large = {} /\ Kontron!Spend(2 * Kontron!Hop)
      /\ UNCHANGED <<large, workflow, changed, bridged, before, cost, step, undo, cleanup>>
  BY DEF Kontron!SetNextBoot, Kontron!plans, KontronInv, KontronBuffers
<1>2. PICK verdict \in {"applied", "write"} : Kontron!End(verdict)
  BY DEF Kontron!SetNextBoot
<1>3. 2 * Kontron!Hop \in Nat
  BY KontronSizes
<1> QED
  BY <1>1, <1>2, <1>3, KontronSpends, KontronEnds

\* The target beyond the bridge is identified.
LEMMA KontronRemoteIdentity ==
  ASSUME KontronInv, Kontron!RemoteIdentity
  PROVE  KontronInv'
<1>1. /\ pc = "remote_identity" /\ Kontron!Spend(Kontron!Hop) /\ pc' = "buffer"
      /\ step = 1 /\ bridged /\ large = {}
      /\ UNCHANGED <<large, workflow, changed, bridged, before, cost, step, undo, cleanup, outcome>>
  BY DEF Kontron!RemoteIdentity, Kontron!plans, KontronInv, KontronPlace, KontronBuffers
<1>2. Kontron!Hop = 2
  BY <1>1 DEF Kontron!Hop
<1>3. pc' \in Pcs
  BY <1>1 DEF KontronInv, KontronTypes, Pcs
<1>4. KontronTypes' /\ Kontron!ReservationEnough'
  <2>1. cost' \in Nat /\ cost' >= Kontron!Readback /\ step' \in Nat \ {0} /\ undo' \in Nat
    BY <1>1 DEF KontronInv, KontronTypes
  <2> QED
    BY <1>1, <1>2, <1>3, <2>1, KontronGoesOn
<1>5. KontronPlace' /\ KontronBuffers'
  BY <1>1 DEF KontronPlace, KontronBuffers, Last
<1>6. KontronReserve'
  <2>1. available' # -1 => available # -1 /\ reserved' >= reserved - 2 /\ reserved' \in Nat /\ reserved \in Nat
    BY <1>1, <1>2, KontronSpends DEF KontronInv, KontronTypes
  <2>2. available # -1 => reserved >= 20
    BY <1>1 DEF KontronInv, KontronReserve
  <2> QED
    BY <1>1, <2>1, <2>2 DEF KontronReserve, SetDue
<1> QED
  BY <1>4, <1>5, <1>6 DEF KontronInv

\* The steps of a negotiation, one by one.
LEMMA BufferSteps ==
  ASSUME NEW k \in Nat \ {0}, k <= Last
  PROVE  /\ k \in 1..3 /\ (~bridged => k = 1)
         /\ Kontron!SetCost(k) \in Nat /\ Kontron!StepCost(k) \in Nat
<1>1. k \in 1..3 /\ (~bridged => k = 1)
  BY DEF Last
<1>2. CASE bridged
  <2>1. k = 1 \/ k = 2 \/ k = 3
    BY <1>1
  <2> QED
    BY <1>1, <1>2, <2>1, BufferCosts
<1>3. CASE ~bridged
  BY <1>1, <1>3, BufferCosts
<1> QED
  BY <1>2, <1>3

\* A channel is given its buffer.
LEMMA KontronSetsStep ==
  ASSUME KontronInv, Kontron!SetStep
  PROVE  KontronInv'
<1>1. /\ pc = "buffer" /\ step \in Nat \ {0} /\ step <= Last /\ Kontron!Spend(Kontron!SetCost(step))
      /\ UNCHANGED <<workflow, changed, bridged, before, cost, cleanup, outcome>>
  BY BufferCosts DEF Kontron!SetStep, Kontron!plans, KontronInv, KontronTypes
<1>2. PICK o \in Kontron!BufferOutcomes :
        /\ large' = IF o.carried THEN large \union {Kontron!Steps[step]} ELSE large
        /\ \/ o.answer = "ok" /\ step' = step + 1 /\ UNCHANGED <<pc, undo>>
           \/ o.answer # "ok" /\ undo' = Kontron!Attempted(o) /\ pc' = "undo" /\ UNCHANGED step
  BY DEF Kontron!SetStep
<1>3. /\ step \in 1..3 /\ (~bridged => step = 1)
      /\ Kontron!SetCost(step) \in Nat
  BY <1>1, BufferSteps
<1>4. /\ available' # -1 => available # -1 /\ reserved' >= reserved - Kontron!SetCost(step)
      /\ reserved' \in Nat /\ reserved \in Nat
      /\ available # -1 => reserved >= SetDue
  BY <1>1, <1>3, KontronSpends DEF KontronInv, KontronTypes, KontronReserve
<1>5. UNCHANGED <<Last, Kontron!Steps, Pcs>>
  BY <1>1, KontronFixed
<1>6. \A c \in large : \E k \in 1..Last : k < step /\ c = Kontron!Steps[k]
  BY <1>1 DEF KontronInv, KontronBuffers
<1>7. step \in 1..Last /\ Last \in Nat
  BY <1>1, <1>3 DEF Last
<1>8. CASE o.answer = "ok" /\ step' = step + 1 /\ UNCHANGED <<pc, undo>>
  <2>1. KontronTypes' /\ Kontron!ReservationEnough'
    <3>1. cost' \in Nat /\ cost' >= Kontron!Readback /\ step' \in Nat \ {0} /\ undo' \in Nat /\ pc' \in Pcs
      BY <1>1, <1>8 DEF KontronInv, KontronTypes
    <3> QED
      BY <1>1, <1>3, <3>1, KontronGoesOn
  <2>2. KontronPlace'
    BY <1>1, <1>5, <1>7, <1>8 DEF KontronPlace
  <2>3. KontronReserve'
    <3> SUFFICES ASSUME available' # -1 PROVE reserved' >= SetDue'
      BY <1>1, <1>8 DEF KontronReserve
    <3>1. CASE bridged
      <4>1. CASE step = 1
        BY <1>1, <1>4, <1>8, <3>1, <4>1, BufferCosts DEF SetDue
      <4>2. CASE step = 2
        BY <1>1, <1>4, <1>8, <3>1, <4>2, BufferCosts DEF SetDue
      <4>3. CASE step = 3
        BY <1>1, <1>4, <1>8, <3>1, <4>3, BufferCosts DEF SetDue
      <4> QED
        BY <1>3, <4>1, <4>2, <4>3
    <3>2. CASE ~bridged
      BY <1>1, <1>3, <1>4, <1>8, <3>2, BufferCosts DEF SetDue
    <3> QED
      BY <3>1, <3>2
  <2>4. KontronBuffers'
    <3>1. \A c \in large' : \E k \in 1..Last : k < step + 1 /\ c = Kontron!Steps[k]
      BY <1>2, <1>3, <1>6, <1>7
    <3> QED
      BY <1>1, <1>5, <1>8, <3>1 DEF KontronBuffers
  <2> QED
    BY <2>1, <2>2, <2>3, <2>4 DEF KontronInv
<1>9. CASE o.answer # "ok" /\ undo' = Kontron!Attempted(o) /\ pc' = "undo" /\ UNCHANGED step
  <2>1. /\ undo' \in {step - 1, step} /\ (o.carried => undo' = step)
    BY <1>9 DEF Kontron!Attempted, Kontron!BufferOutcomes
  <2>2. KontronTypes' /\ Kontron!ReservationEnough'
    <3>1. cost' \in Nat /\ cost' >= Kontron!Readback /\ step' \in Nat \ {0} /\ undo' \in Nat /\ pc' \in Pcs
      BY <1>1, <1>3, <1>9, <2>1 DEF KontronInv, KontronTypes, Pcs
    <3> QED
      BY <1>1, <1>3, <3>1, KontronGoesOn
  <2>3. KontronPlace'
    BY <1>1, <1>5, <1>7, <1>9, <2>1 DEF KontronPlace
  <2>4. KontronReserve'
    <3> SUFFICES ASSUME available' # -1 PROVE reserved' >= UndoDue'
      BY <1>1, <1>9 DEF KontronReserve
    <3>1. undo' = step - 1 \/ undo' = step
      BY <2>1
    <3>2. CASE bridged
      <4>1. CASE step = 1
        <5>1. reserved' >= 16 /\ reserved' \in Nat
          BY <1>4, <3>2, <4>1, BufferCosts DEF SetDue
        <5> QED
          BY <3>1, <4>1, <5>1 DEF UndoDue
      <4>2. CASE step = 2
        <5>1. reserved' >= 14 /\ reserved' \in Nat
          BY <1>4, <3>2, <4>2, BufferCosts DEF SetDue
        <5> QED
          BY <3>1, <4>2, <5>1 DEF UndoDue
      <4>3. CASE step = 3
        <5>1. reserved' >= 8 /\ reserved' \in Nat
          BY <1>4, <3>2, <4>3, BufferCosts DEF SetDue
        <5> QED
          BY <3>1, <4>3, <5>1 DEF UndoDue
      <4> QED
        BY <1>3, <4>1, <4>2, <4>3
    <3>3. CASE ~bridged
      <4>1. step = 1 /\ reserved' >= 2 /\ reserved' \in Nat
        BY <1>3, <1>4, <3>3, BufferCosts DEF SetDue
      <4> QED
        BY <3>1, <4>1 DEF UndoDue
    <3> QED
      BY <3>2, <3>3
  <2>5. KontronBuffers'
    <3>1. ASSUME NEW c \in large' PROVE \E k \in 1..Last : k <= undo' /\ c = Kontron!Steps[k]
      <4>1. CASE c \in large
        BY <1>3, <1>6, <1>7, <2>1, <4>1
      <4>2. CASE c \notin large
        <5>1. c = Kontron!Steps[step] /\ undo' = step
          BY <1>2, <2>1, <4>2
        <5> QED
          BY <1>3, <1>7, <5>1
      <4> QED
        BY <4>1, <4>2
    <3> QED
      BY <1>5, <1>9, <3>1 DEF KontronBuffers
  <2> QED
    BY <2>2, <2>3, <2>4, <2>5 DEF KontronInv
<1> QED
  BY <1>2, <1>8, <1>9

\* Every channel has its buffer.
LEMMA KontronBufferDone ==
  ASSUME KontronInv, Kontron!BufferDone
  PROVE  KontronInv'
<1>1. /\ Kontron!End("applied")
      /\ UNCHANGED <<large, workflow, changed, bridged, available, reserved, before, cost, step, undo, cleanup>>
  BY DEF Kontron!BufferDone, Kontron!plans, Kontron!transport
<1> QED
  BY <1>1, KontronEnds DEF KontronInv, KontronTypes

\* A channel is given its old buffer, or is named as left.
LEMMA KontronRestoresStep ==
  ASSUME KontronInv, Kontron!RestoreStep
  PROVE  KontronInv'
<1>1. /\ pc = "undo" /\ undo \in Nat \ {0} /\ undo <= Last /\ Kontron!Spend(Kontron!StepCost(undo))
      /\ undo' = undo - 1
      /\ UNCHANGED <<pc, workflow, changed, bridged, before, cost, step, outcome>>
  BY DEF Kontron!RestoreStep, Kontron!plans, KontronInv, KontronTypes, KontronPlace
<1>2. PICK o \in Kontron!Outcomes :
        /\ large' = IF o.carried THEN large \ {Kontron!Steps[undo]} ELSE large
        /\ cleanup' = IF o.answer = "ok" THEN cleanup ELSE cleanup \union {Kontron!Steps[undo]}
  BY DEF Kontron!RestoreStep
<1>3. /\ undo \in 1..3 /\ (~bridged => undo = 1)
      /\ Kontron!StepCost(undo) \in Nat
  BY <1>1, BufferSteps
<1>4. /\ available' # -1 => available # -1 /\ reserved' >= reserved - Kontron!StepCost(undo)
      /\ reserved' \in Nat /\ reserved \in Nat
      /\ available # -1 => reserved >= UndoDue
  BY <1>1, <1>3, KontronSpends DEF KontronInv, KontronTypes, KontronReserve
<1>5. UNCHANGED <<Last, Kontron!Steps, Pcs>>
  BY <1>1, KontronFixed
<1>6. KontronTypes' /\ Kontron!ReservationEnough'
  <2>1. cost' \in Nat /\ cost' >= Kontron!Readback /\ step' \in Nat \ {0} /\ undo' \in Nat /\ pc' \in Pcs
    BY <1>1 DEF KontronInv, KontronTypes
  <2> QED
    BY <1>1, <1>3, <2>1, KontronGoesOn
<1>7. KontronPlace'
  BY <1>1, <1>3, <1>5 DEF KontronPlace, Last
<1>8. KontronReserve'
  <2> SUFFICES ASSUME available' # -1 PROVE reserved' >= UndoDue'
    BY <1>1 DEF KontronReserve
  <2>1. CASE bridged
    <3>1. CASE undo = 1
      BY <1>1, <1>4, <2>1, <3>1, BufferCosts DEF UndoDue
    <3>2. CASE undo = 2
      BY <1>1, <1>4, <2>1, <3>2, BufferCosts DEF UndoDue
    <3>3. CASE undo = 3
      BY <1>1, <1>4, <2>1, <3>3, BufferCosts DEF UndoDue
    <3> QED
      BY <1>3, <3>1, <3>2, <3>3
  <2>2. CASE ~bridged
    BY <1>1, <1>3, <1>4, <2>2, BufferCosts DEF UndoDue
  <2> QED
    BY <2>1, <2>2
<1>9. KontronBuffers'
  <2>1. ASSUME NEW c \in large', c \notin cleanup' PROVE \E k \in 1..Last : k <= undo' /\ c = Kontron!Steps[k]
    <3>1. c # Kontron!Steps[undo] /\ c \in large /\ c \notin cleanup
      BY <1>2, <2>1 DEF Kontron!Outcomes
    <3>2. PICK k \in 1..Last : k <= undo /\ c = Kontron!Steps[k]
      BY <1>1, <3>1 DEF KontronInv, KontronBuffers
    <3>3. k # undo /\ k <= undo - 1
      BY <1>3, <3>1, <3>2 DEF Last
    <3> QED
      BY <1>1, <3>2, <3>3
  <2> QED
    BY <1>1, <1>5, <2>1 DEF KontronBuffers
<1> QED
  BY <1>6, <1>7, <1>8, <1>9 DEF KontronInv

\* Every channel attempted has its old buffer or is named.
LEMMA KontronRestoreDone ==
  ASSUME KontronInv, Kontron!RestoreDone
  PROVE  KontronInv'
<1>1. /\ pc = "undo" /\ undo = 0 /\ Kontron!End("write")
      /\ UNCHANGED <<large, workflow, changed, bridged, available, reserved, before, cost, step, undo, cleanup>>
  BY DEF Kontron!RestoreDone, Kontron!plans, Kontron!transport
<1>2. large \subseteq cleanup
  BY <1>1 DEF KontronInv, KontronBuffers
<1> QED
  BY <1>1, <1>2, KontronEnds DEF KontronInv, KontronTypes

\* Only a restoration whose first read did cost too much runs out of what
\* is reserved for a change that began.
LEMMA KontronRunsOut ==
  ASSUME KontronInv, Kontron!OutOfSequences
  PROVE  KontronInv'
<1>1. /\ available # -1 /\ available < Kontron!NextCost
      /\ Kontron!End(IF pc \in {"identify", "info", "image"} THEN "refused" ELSE "exhausted")
      /\ UNCHANGED <<large, workflow, changed, bridged, available, reserved, before, cost, step, undo, cleanup>>
  BY DEF Kontron!OutOfSequences, Kontron!plans, Kontron!transport, Kontron!Unlimited
<1>2. /\ available \in Nat /\ reserved \in Nat /\ available >= reserved
      /\ cost \in Nat /\ cost >= Kontron!Readback /\ step \in Nat \ {0} /\ undo \in Nat
      /\ workflow \in {"apply", "restore", "buffer", "boot"}
  BY <1>1 DEF KontronInv, KontronTypes
<1>3. /\ available' \in Nat \union {-1} /\ reserved' \in Nat
      /\ available' # -1 => available' >= reserved'
  BY <1>1, <1>2
<1>4. CASE pc \in {"identify", "info", "image"}
  <2>1. Kontron!End("refused") /\ large = {}
    BY <1>1, <1>4 DEF KontronInv, KontronBuffers
  <2> QED
    BY <1>1, <1>3, <2>1, KontronEnds
<1>5. CASE pc \in {"identify_again", "write"}
  <2>1. Kontron!End("exhausted") /\ large = {}
    BY <1>1, <1>5 DEF KontronInv, KontronBuffers
  <2>2. ASSUME AsExpected PROVE FALSE
    <3>1. CASE pc = "identify_again"
      <4>1. reserved >= (Writing + cost + 1) * Kontron!Hop /\ Writing + cost + 1 \in Nat /\ Writing + cost + 1 >= 1
        BY <1>1, <1>2, <2>2, <3>1, WritingNat DEF KontronInv, KontronReserve
      <4>2. (Writing + cost + 1) * Kontron!Hop >= Kontron!Hop /\ (Writing + cost + 1) * Kontron!Hop \in Nat
        BY <4>1, HopTimes
      <4>3. Kontron!NextCost = Kontron!Hop
        BY <3>1 DEF Kontron!NextCost
      <4> DEFINE N == (Writing + cost + 1) * Kontron!Hop
      <4>4. reserved >= N /\ N >= Kontron!Hop /\ N \in Nat
        BY <4>1, <4>2
      <4> HIDE DEF N
      <4> QED
        BY <1>1, <1>2, <4>3, <4>4, KontronSizes
    <3>2. CASE pc = "write"
      <4> DEFINE M == Writing + 1 - step + cost
                 N == M * Kontron!Hop
      <4>1. reserved >= N
        BY <1>1, <2>2, <3>2 DEF KontronInv, KontronReserve
      <4>2. step <= Writing + 1
        BY <3>2 DEF KontronInv, KontronPlace
      <4>3. M \in Nat /\ cost + 1 \in Nat
        BY <1>2, <4>2, WritingNat
      <4>4. N \in Nat /\ (M >= 1 => N >= Kontron!Hop)
        <5> HIDE DEF M
        <5> QED
          BY <4>3, HopTimes
      <4>5. CASE step <= Writing
        <5>1. M >= 1
          BY <1>2, <4>5, WritingNat
        <5>2. Kontron!NextCost = Kontron!Hop
          BY <3>2, <4>5, WritingNat DEF Kontron!NextCost
        <5>3. N >= Kontron!Hop
          BY <4>4, <5>1
        <5> HIDE DEF N
        <5> QED
          BY <1>1, <1>2, <4>1, <4>4, <5>2, <5>3, KontronSizes
      <4>6. CASE step = Writing + 1
        <5>1. M = cost
          BY <1>2, <4>6, WritingNat
        <5>2. Kontron!NextCost = cost * Kontron!Hop
          BY <1>2, <3>2, <4>6, WritingNat DEF Kontron!NextCost
        <5>3. Kontron!NextCost = N
          BY <5>1, <5>2
        <5> HIDE DEF N
        <5> QED
          BY <1>1, <1>2, <4>1, <4>4, <5>3
      <4> QED
        BY <1>2, <4>2, <4>5, <4>6, WritingNat
    <3> QED
      BY <1>5, <3>1, <3>2
  <2>3. workflow = "restore" /\ cost > Kontron!Readback
    <3>1. workflow # "apply" /\ cost # Kontron!Readback
      BY <2>2 DEF AsExpected
    <3>2. workflow = "restore"
      BY <1>2, <1>5, <3>1 DEF KontronInv, KontronTypes, Pcs
    <3> QED
      BY <1>2, <3>1, <3>2, KontronSizes
  <2> QED
    BY <1>1, <1>3, <2>1, <2>3, KontronEnds
<1>6. CASE pc = "boot"
  <2>1. Kontron!NextCost = 2 * Kontron!Hop /\ reserved >= 2 * Kontron!Hop
    BY <1>1, <1>6 DEF Kontron!NextCost, KontronInv, KontronReserve
  <2> QED
    BY <1>1, <1>2, <2>1, KontronSizes
<1>7. CASE pc = "remote_identity"
  <2>1. Kontron!NextCost = Kontron!Hop /\ reserved >= 20
    BY <1>1, <1>7 DEF Kontron!NextCost, KontronInv, KontronReserve
  <2> QED
    BY <1>1, <1>2, <2>1, KontronSizes
<1>8. CASE pc = "buffer"
  <2>1. reserved >= SetDue /\ step <= Last + 1
    BY <1>1, <1>8 DEF KontronInv, KontronReserve, KontronPlace
  <2>2. CASE step <= Last
    <3>1. Kontron!NextCost = Kontron!SetCost(step)
      BY <1>8, <2>2, BufferCosts DEF Kontron!NextCost
    <3>2. step \in 1..3 /\ (~bridged => step = 1)
      BY <1>2, <2>2, BufferSteps
    <3>3. Kontron!SetCost(step) <= SetDue /\ SetDue \in Nat
      <4>1. step = 1 \/ step = 2 \/ step = 3
        BY <3>2
      <4>2. CASE bridged
        BY <4>1, <4>2, BufferCosts DEF SetDue
      <4>3. CASE ~bridged
        BY <3>2, <4>3, BufferCosts DEF SetDue
      <4> QED
        BY <4>2, <4>3
    <3>4. Kontron!SetCost(step) \in Nat
      BY <1>2, <2>2, BufferSteps
    <3> QED
      BY <1>1, <1>2, <2>1, <3>1, <3>3, <3>4
  <2>3. CASE ~(step <= Last)
    <3>1. Kontron!NextCost = 0
      BY <1>8, <2>3, BufferCosts DEF Kontron!NextCost
    <3> QED
      BY <1>1, <1>2, <3>1
  <2> QED
    BY <2>2, <2>3
<1>9. CASE pc = "undo"
  <2>1. reserved >= UndoDue /\ undo <= Last
    BY <1>1, <1>9 DEF KontronInv, KontronReserve, KontronPlace
  <2>2. CASE undo > 0
    <3>1. Kontron!NextCost = Kontron!StepCost(undo)
      BY <1>9, <2>2 DEF Kontron!NextCost
    <3>2. undo \in 1..3 /\ (~bridged => undo = 1) /\ Kontron!StepCost(undo) \in Nat
      BY <1>2, <2>1, <2>2, BufferSteps
    <3>3. Kontron!StepCost(undo) <= UndoDue /\ UndoDue \in Nat
      <4>1. undo = 1 \/ undo = 2 \/ undo = 3
        BY <3>2
      <4>2. CASE bridged
        BY <4>1, <4>2, BufferCosts DEF UndoDue
      <4>3. CASE ~bridged
        BY <3>2, <4>3, BufferCosts DEF UndoDue
      <4> QED
        BY <4>2, <4>3
    <3> QED
      BY <1>1, <1>2, <2>1, <3>1, <3>2, <3>3
  <2>3. CASE undo = 0
    <3>1. Kontron!NextCost = 0
      BY <1>9, <2>3 DEF Kontron!NextCost
    <3> QED
      BY <1>1, <1>2, <3>1
  <2> QED
    BY <1>2, <2>2, <2>3
<1>10. CASE pc \in {"reserve", "reserve_again", "release", "done"}
  <2>1. Kontron!NextCost = 0
    BY <1>10 DEF Kontron!NextCost
  <2> QED
    BY <1>1, <1>2, <2>1
<1>11. pc \in {"reserve", "reserve_again", "release", "done", "identify", "info", "image", "identify_again", "write",
               "boot", "remote_identity", "buffer", "undo"}
  BY <1>2 DEF KontronInv, KontronTypes, Pcs
<1> QED
  BY <1>4, <1>5, <1>6, <1>7, <1>8, <1>9, <1>10, <1>11

\* The reservation is given back.
LEMMA KontronReleases ==
  ASSUME KontronInv, Kontron!Release
  PROVE  KontronInv'
<1>1. /\ pc = "release" /\ pc' = "done" /\ reserved' = 0
      /\ UNCHANGED <<large, workflow, changed, bridged, available, before, cost, step, undo, cleanup, outcome>>
  BY DEF Kontron!Release, Kontron!plans
<1>2. Pcs' = Pcs /\ pc' \in Pcs
  BY <1>1, KontronFixed DEF KontronInv, KontronTypes, Pcs
<1>3. KontronTypes'
  BY <1>1, <1>2 DEF KontronInv, KontronTypes, Kontron!Readback, Kontron!Chunks
<1>4. KontronPlace' /\ KontronReserve' /\ KontronBuffers'
  BY <1>1 DEF KontronInv, KontronPlace, KontronReserve, KontronBuffers
<1>5. Kontron!ReservationEnough'
  BY <1>1 DEF KontronInv, Kontron!ReservationEnough, Kontron!Readback, Kontron!Chunks
<1> QED
  BY <1>3, <1>4, <1>5 DEF KontronInv

\* What only changes the inventory, or nothing.
LEMMA KontronSame ==
  ASSUME KontronInv,
         UNCHANGED <<pc, large, workflow, changed, bridged, available, reserved, before, cost, step, undo, cleanup, outcome>>
  PROVE  KontronInv'
<1>1. UNCHANGED <<Pcs, Last, Kontron!Hop, Kontron!Steps, Writing>>
  BY KontronFixed
<1>2. UNCHANGED <<AsExpected, SetDue, UndoDue>>
  BY DEF AsExpected, SetDue, UndoDue, Kontron!Readback, Kontron!Chunks
<1>3. KontronTypes'
  BY <1>1 DEF KontronInv, KontronTypes, Kontron!Readback, Kontron!Chunks
<1>4. KontronPlace'
  BY <1>1 DEF KontronInv, KontronPlace
<1>5. KontronReserve'
  BY <1>1, <1>2 DEF KontronInv, KontronReserve
<1>6. KontronBuffers'
  BY <1>1 DEF KontronInv, KontronBuffers
<1>7. Kontron!ReservationEnough'
  BY DEF KontronInv, Kontron!ReservationEnough, Kontron!Readback, Kontron!Chunks
<1> QED
  BY <1>3, <1>4, <1>5, <1>6, <1>7 DEF KontronInv

\* Each step of a maintenance workflow, and of the other console.
LEMMA KontronStep ==
  ASSUME KontronInv, Kontron!Next
  PROVE  KontronInv'
<1>1. CASE Kontron!Tamper
  BY <1>1, KontronSame DEF Kontron!Tamper, Kontron!transfer, Kontron!plans, Kontron!transport
<1> QED
  BY <1>1, KontronReserves, KontronRefuses, KontronIdentifies, KontronReadsImage,
     KontronReservesAgain,
     KontronIdentifiesAgain, KontronWritesChunk, KontronVerifies, KontronRunsOut, KontronSetsNextBoot,
     KontronRemoteIdentity, KontronSetsStep, KontronBufferDone, KontronRestoresStep, KontronRestoreDone,
     KontronReleases DEF Kontron!Next

\* What the invariant says of a workflow that is over.
LEMMA KontronMeans == KontronInv => Kontron!BuffersAccounted /\ Kontron!ReservationEnough
BY DEF KontronInv, KontronBuffers, Kontron!BuffersAccounted
-----------------------------------------------------------------------------
\* Nothing moves in a session of IPMI 1.5,
LEMMA V15Stutter == ASSUME V15Inv, UNCHANGED <<pc, V15Own>> PROVE V15Inv'
BY DEF V15Inv, V15!TrafficOnce, V15Own

\* on a link,
LEMMA LinkStutter == ASSUME LinkInv, UNCHANGED <<pc, uncertain, LinkOwn>> PROVE LinkInv'
<1>1. OnTheLine'
  BY LineSame DEF LinkOwn, Line
<1>2. PendingCurrent' /\ StatusKnown' /\ Link!AnswersCurrent'
  BY DEF LinkInv, LinkOwn, PendingCurrent, StatusKnown, Link!AnswersCurrent, Link!NoRequest
<1> QED
  BY <1>1, <1>2 DEF LinkInv, OnTheLine

\* in a guarded write,
LEMMA GuardedStutter == ASSUME GuardedInv, UNCHANGED <<pc, GuardedOwn>> PROVE GuardedInv'
BY DEF GuardedInv, GuardedOwn, Guarded!LockRespected, Guarded!LockAccounted

\* in a setter,
LEMMA SettingsStutter == ASSUME SettingsInv, UNCHANGED <<pc, outcome, SettingsOwn>> PROVE SettingsInv'
<1>1. UNCHANGED <<pc, outcome, setter, generation, copy, controller, settings, theirs, late>>
  BY DEF SettingsOwn
<1>2. /\ UNCHANGED <<Settings!Changes, Settings!Carries, Settings!Reads>>
      /\ Settings!Supported <=> Settings!Supported'
  BY <1>1, SettingsSame
<1>3. Settings!OthersPreserved'
  BY <1>1, <1>2 DEF SettingsInv, Settings!OthersPreserved, Settings!Succeeded
<1>4. Settings!Setters' = Settings!Setters /\ Settings!Fields' = Settings!Fields
  BY DEF Settings!Setters, Settings!Fields
<1> HIDE DEF Settings!Setters, Settings!Fields
<1> QED
  BY <1>1, <1>2, <1>3, <1>4 DEF SettingsInv, Held

\* in a firmware update
LEMMA FwumStutter == ASSUME FwumInv, UNCHANGED <<pc, large, cleanup, goal, FwumOwn>> PROVE FwumInv'
BY DEF FwumInv, FwumOwn

\* or in a maintenance workflow.
LEMMA KontronStutter == ASSUME KontronInv, UNCHANGED <<pc, large, bridged, cleanup, outcome, KontronOwn>> PROVE KontronInv'
BY KontronSame DEF KontronOwn
=============================================================================
