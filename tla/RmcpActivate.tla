----------------------------- MODULE RmcpActivate -----------------------------
(***************************************************************************)
(* Activation of an RMCP connection (rmcp/mod.rs, internal.rs, v2_0): the  *)
(* ping, the capabilities of the channel, which version and cipher suite   *)
(* to ask for, the exchange of Open Session and the RAKP messages, and the *)
(* session that is installed at the end.  Every reply may be lost, be one  *)
(* of something else, or say what was not asked for.  An activation of a   *)
(* connection that has a session drops that session first.                 *)
(***************************************************************************)
EXTENDS Integers, FiniteSets

CONSTANTS
    Attempts,
    Weak            \* a suite other than 3 and 17

VARIABLES
    pc,
    attempt, rmcp_plus, policy,
    require_rmcp_plus,
    suite,          \* the suite that Open Session asks for
    peer,           \* what the BMC supports, and whether it has the password
    active_state,   \* the session of the connection, or NoSession
    previous,       \* the one it had when the attempt began
    agreed,         \* what the BMC opened; `authenticated': it checked RAKP 3
    authenticated, activation
own == <<attempt, rmcp_plus, policy, require_rmcp_plus, suite, peer, active_state, previous, agreed,
         authenticated, activation>>
vars == <<pc, own>>

Suites == {3, 17, Weak}
Exact == {"exact3", "exact17", "exactweak"}
NoSession == [version |-> 0, suite |-> 0, attempt |-> 0]
Peers == [ipmi2 : BOOLEAN, ipmi15 : BOOLEAN, suites : SUBSET Suites, password : BOOLEAN]

Init ==
    /\ pc = "idle" /\ attempt = 0 /\ rmcp_plus = FALSE /\ policy = "none"
    /\ require_rmcp_plus \in BOOLEAN /\ suite = 0 /\ peer \in Peers
    /\ active_state = NoSession /\ previous = NoSession /\ agreed = 0 /\ authenticated = FALSE
    /\ activation = "none"

ExactSuite(p) == CASE p = "exact3" -> 3 [] p = "exact17" -> 17 [] p = "exactweak" -> Weak
-----------------------------------------------------------------------------
(* activate() with or without RMCP+, with a suite or with the best one.  A *)
(* suite that is not implemented and a crypto backend that is missing are  *)
(* refused while the old session is still there; then it is dropped.       *)
Activate(plus, p) ==
    /\ pc = "idle" /\ attempt < Attempts
    /\ p # "none" => plus
    /\ attempt' = attempt + 1 /\ rmcp_plus' = plus /\ policy' = p
    /\ previous' = active_state /\ agreed' = 0 /\ authenticated' = FALSE /\ suite' = 0
    /\ \/ /\ p = "exactweak" \/ plus
          /\ activation' = "refused"
          /\ UNCHANGED <<pc, active_state>>
       \/ /\ p # "exactweak"
          /\ active_state' = NoSession
          /\ pc' = "ping" /\ activation' = "none"
    /\ UNCHANGED <<require_rmcp_plus, peer>>

(* Every error of the steps below: binding, the token, the deadline of the *)
(* whole activation, a reply that is not the one awaited.  There is no     *)
(* second try within an activation.                                        *)
Fails == pc' = "idle" /\ activation' = "failed"
StepFails ==
    /\ pc # "idle" /\ Fails
    /\ UNCHANGED <<attempt, rmcp_plus, policy, require_rmcp_plus, suite, peer, active_state, previous,
                   agreed, authenticated>>

(* A variant of Version: a BMC without RMCP+ gets IPMI 1.5 whatever suite  *)
(* was asked for.                                                          *)
Version_Downgrade(caps) ==
    CASE caps.ipmi2 /\ rmcp_plus           -> IF policy = "best" THEN "discover" ELSE "open"
      [] ~(caps.ipmi2 /\ rmcp_plus) /\ caps.ipmi15 ->
             IF rmcp_plus /\ require_rmcp_plus THEN "refuse" ELSE "v15"
      [] OTHER -> "refuse"

(* Presence ping and pong, then Get Channel Authentication Capabilities    *)
(* outside of any session: they decide the version.                        *)
Version(caps) ==
    CASE caps.ipmi2 /\ rmcp_plus           -> IF policy = "best" THEN "discover" ELSE "open"
      [] ~(caps.ipmi2 /\ rmcp_plus) /\ policy # "none" -> "refuse"
      [] ~(caps.ipmi2 /\ rmcp_plus) /\ policy = "none" /\ caps.ipmi15 ->
             IF rmcp_plus /\ require_rmcp_plus THEN "refuse" ELSE "v15"
      [] OTHER -> "refuse"

Pong == pc = "ping" /\ pc' = "capabilities" /\ UNCHANGED own
Capabilities ==
    /\ pc = "capabilities"
    /\ IF Version(peer) = "refuse" THEN Fails ELSE pc' = Version(peer) /\ UNCHANGED activation
    /\ suite' = IF policy \in Exact THEN ExactSuite(policy) ELSE 3
    /\ UNCHANGED <<attempt, rmcp_plus, policy, require_rmcp_plus, peer, active_state, previous, agreed,
                   authenticated>>

(* Get Channel Cipher Suites, all its pages; select_best() takes 17 before *)
(* 3 and nothing else.  A list that is incomplete or contradicts itself is *)
(* one of StepFails.                                                       *)
Best(S) == IF 17 \in S THEN 17 ELSE IF 3 \in S THEN 3 ELSE 0
Discover ==
    /\ pc = "discover"
    /\ IF Best(peer.suites) = 0
       THEN Fails /\ UNCHANGED suite
       ELSE pc' = "open" /\ suite' = Best(peer.suites) /\ UNCHANGED activation
    /\ UNCHANGED <<attempt, rmcp_plus, policy, require_rmcp_plus, peer, active_state, previous, agreed,
                   authenticated>>

(* The replies of the handshake.  Each comes outside of any session and as *)
(* the payload awaited; it repeats the tag and the console's session id.   *)
Headers == [payload : {"awaited", "other"}, session_id : {0, 1}, sequence : {0, 1}]
ValidHandshake(h) == h.payload = "awaited" /\ h.session_id = 0 /\ h.sequence = 0
Repeats(r) == r.message_tag /\ r.remote_console_session_id

(* Open Session: a status code ends it, and so does a reply that cannot be *)
(* read; the BMC may name other algorithms than it was asked for, and      *)
(* another privilege.                                                      *)
OpenReplies ==
    [status : {"ok", "error", "unreadable"}, message_tag : BOOLEAN, remote_console_session_id : BOOLEAN,
     privilege : BOOLEAN, algorithms : Suites]
ReadOpen(r) == r.status = "ok"
ValidOpen(r) == Repeats(r) /\ r.privilege /\ r.algorithms = suite
OpenSession ==
    /\ pc = "open"
    /\ \E h \in Headers, r \in OpenReplies :
          /\ agreed' = IF r.status = "ok" THEN r.algorithms ELSE 0
          /\ IF ValidHandshake(h) /\ ReadOpen(r) /\ ValidOpen(r)
             THEN pc' = "rakp2" /\ UNCHANGED activation ELSE Fails
    /\ UNCHANGED <<attempt, rmcp_plus, policy, require_rmcp_plus, suite, peer, active_state, previous,
                   authenticated>>

(* RAKP 1 and 2: the key exchange code proves that the BMC has the         *)
(* password.  If it does not fit, or the suite is not implemented, there   *)
(* are no keys: RAKP 3 says so and the activation fails.                   *)
Codes(honest) == IF honest THEN {"fits", "wrong", "short"} ELSE {"wrong", "short"}
Rakp2Replies ==
    [status : {"ok", "error", "unreadable"}, message_tag : BOOLEAN, remote_console_session_id : BOOLEAN,
     code : Codes(peer.password)]
ReadRakp2(r) == r.status = "ok"
Rakp3Data(r) == agreed \in {3, 17} /\ r.code = "fits"
Rakp2 ==
    /\ pc = "rakp2"
    /\ \E h \in Headers, r \in Rakp2Replies :
          IF ValidHandshake(h) /\ ReadRakp2(r) /\ Repeats(r) /\ Rakp3Data(r)
          THEN pc' = "rakp4" /\ authenticated' = TRUE /\ UNCHANGED activation
          ELSE Fails /\ UNCHANGED authenticated
    /\ UNCHANGED <<attempt, rmcp_plus, policy, require_rmcp_plus, suite, peer, active_state, previous,
                   agreed>>

Install(v, s) ==
    /\ active_state' = [version |-> v, suite |-> s, attempt |-> attempt]
    /\ pc' = "idle" /\ activation' = "done"
    /\ UNCHANGED <<attempt, rmcp_plus, policy, require_rmcp_plus, suite, peer, previous, agreed,
                   authenticated>>

(* RAKP 4, with the integrity check value over the whole exchange, of the  *)
(* length of the suite.                                                    *)
Rakp4Replies ==
    [status : {"ok", "error", "unreadable"}, message_tag : BOOLEAN, remote_console_session_id : BOOLEAN,
     check : Codes(peer.password)]
ReadRakp4(r) == r.status = "ok"
Verified(r) == r.check = "fits"
Rakp4 ==
    /\ pc = "rakp4"
    /\ \E h \in Headers, r \in Rakp4Replies :
          ValidHandshake(h) /\ ReadRakp4(r) /\ Repeats(r) /\ Verified(r)
    /\ Install(2, agreed)
(* The activation of RmcpV15; without RMCP+ there is no suite.             *)
V15 == pc = "v15" /\ Install(1, 0)

(* The BMC changes between two attempts: firmware, users, configuration.   *)
PeerChanges ==
    /\ pc = "idle" /\ attempt \in 1..(Attempts - 1)
    /\ \E p \in {q \in Peers : Cardinality({f \in DOMAIN q : q[f] # peer[f]}) = 1} : peer' = p
    /\ activation' = "none"
    /\ UNCHANGED <<pc, attempt, rmcp_plus, policy, require_rmcp_plus, suite, active_state, previous,
                   agreed, authenticated>>
Require ==
    /\ pc = "idle" /\ require_rmcp_plus' = ~require_rmcp_plus
    /\ attempt < Attempts /\ activation' = "none"
    /\ UNCHANGED <<pc, attempt, rmcp_plus, policy, suite, peer, active_state, previous, agreed,
                   authenticated>>

Next ==
    \/ \E plus \in BOOLEAN, p \in Exact \union {"none", "best"} : Activate(plus, p)
    \/ StepFails \/ Pong \/ Capabilities \/ Discover \/ OpenSession \/ Rakp2 \/ Rakp4 \/ V15
    \/ PeerChanges \/ Require

Spec == Init /\ [][Next]_vars
-----------------------------------------------------------------------------
TypeOK ==
    /\ pc \in {"idle", "ping", "capabilities", "discover", "open", "rakp2", "rakp4", "v15"}
    /\ attempt \in 0..Attempts /\ suite \in {0} \union Suites
    /\ active_state.version \in 0..2 /\ activation \in {"none", "refused", "failed", "done"}

(* An activation that succeeds gives the session that was asked for: no    *)
(* IPMI 1.5 where a suite was named or RMCP+ required, suite 3 or 17 and   *)
(* with a policy just the one it means, from a BMC that proved the         *)
(* password and took RAKP 3 for it.  One that fails leaves no session, not *)
(* the one before either; one that is refused leaves that as it was        *)
(* (activate_with_selection() of rmcp/mod.rs, RmcpWithState::activate()).  *)
Meets(s) ==
    /\ policy # "none" \/ (rmcp_plus /\ require_rmcp_plus) => s.version = 2
    /\ s.version = 2 =>
          /\ rmcp_plus /\ s.suite \in {3, 17} /\ peer.password /\ authenticated
          /\ policy \in Exact => s.suite = ExactSuite(policy)
          /\ policy = "best" => s.suite \in peer.suites
          /\ policy = "best" /\ 17 \in peer.suites => s.suite = 17
SessionAsRequired ==
    /\ activation = "done" => active_state.attempt = attempt /\ Meets(active_state)
    /\ activation = "failed" => active_state = NoSession
    /\ activation = "refused" => active_state = previous
=============================================================================
