---------------------------- MODULE MCIpmbState ----------------------------
(***************************************************************************)
(* A small session: a ring of a few numbers, one request of each routing   *)
(* class and the requests begin() refuses.                                 *)
(***************************************************************************)
EXTENDS IpmbState

HopAt(address, channel) == [address |-> address, channel |-> channel]

To(kind, hops) ==
    [kind |-> kind, hops |-> hops, cmd |-> "Command", netfn |-> 0, len |-> 0]

Local    == To("BmcOrIpmb", <<HopAt(32, Current)>>)
OneHop   == To("BmcOrIpmb", <<HopAt(82, 0)>>)
TwoHops  == To("Bridged", <<HopAt(48, 1), HopAt(82, 0)>>)
SameHop  == To("Bridged", <<HopAt(82, 0), HopAt(82, 0)>>)
ViaBmc   == To("Bridged", <<HopAt(32, 0), HopAt(82, 0)>>)
OddHop   == To("BmcOrIpmb", <<HopAt(83, 0)>>)
TooLong  == [OneHop EXCEPT !.len = 241]
BadNetfn == [To("Bmc", <<>>) EXCEPT !.netfn = 63]

Routed  == {Local, OneHop, TwoHops}
Refused == {SameHop, ViaBmc, OddHop, TooLong, BadNetfn}
AllRequests == Routed \cup Refused
Bridged == {TwoHops}
=============================================================================
