---------------------------- MODULE TransportCodecs ----------------------------
(***************************************************************************)
(* Transport commands: LAN configuration (get_lan_configuration_parameters,*)
(* set_lan_configuration_parameters, lan_types), where a request is        *)
(* <<channel, parameter>> and a response <<revision>> and the parameter;   *)
(* LAN statistics; SOL configuration (transport/sol.rs).                   *)
(***************************************************************************)
EXTENDS WireLayout

Revision == 17
LanParameters == (0..24) \union {26} \union (50..80)

(* Parameters that come in blocks of up to 16 bytes behind two selectors.  *)
DuidParameters == {58, 61}
Blocked == DuidParameters \union {63, 80}

(* Lengths; 0 for the parameters whose length varies.                      *)
LanLength(p) ==
    CASE p \in {8, 9, 20, 76} -> 2
      [] p \in {7, 54, 55} -> 3
      [] p \in {3, 6, 12, 14, 18} -> 4
      [] p = 2 -> 5
      [] p \in {5, 13, 15, 26, 66, 70} -> 6
      [] p = 75 -> 7
      [] p = 24 -> 9
      [] p \in {65, 68, 69, 72} -> 16
      [] p \in {74, 77} -> 17
      [] p = 16 -> 18
      [] p \in {56, 59} -> 20
      [] p \in Blocked \union {19, 23} -> 0
      [] OTHER -> 1

(* Is this a VLAN identifier, which is required when the tag is enabled?   *)
VlanReads(e) ==
    LET id == At(e, 0) + 256 * Part(At(e, 1), 0, 4) IN
    id <= 4094 /\ (BitSet(At(e, 1), 7) => id # 0)

(* A destination in a format that is kept as it is.                        *)
OtherAddress(e) == Part(At(e, 1), 4, 4) # 0

PrefixLength == 0..128

LanAccepts(p, e) ==
    /\ LanLength(p) # 0 => Len(e) = LanLength(p)
    /\ p = 0 => Part(At(e, 0), 0, 2) # 3
    /\ p \in {4, 54} => Part(At(e, 0), 4, 4) = 0
    /\ p = 18 => At(e, 0) <= 15
    /\ p = 19 => Len(e) >= 2 /\ (~OtherAddress(e) => Len(e) = 13 /\ At(e, 0) <= 15)
    /\ p = 20 => VlanReads(e)
    /\ p = 23 => Len(e) \in 1..17
    /\ p \in {56, 59} => At(e, 18) \in PrefixLength
    /\ p \in Blocked => Len(e) \in 2..18
    /\ p \in {62, 79} => At(e, 0) \in 0..2
    /\ p = 64 => Only(e, 0, {0, 1})
    /\ p \in {67, 71} => At(e, 0) \in PrefixLength
    /\ p = 76 => At(e, 1) \in PrefixLength

Ipv6AddressFields(enabled) ==
    WhenPresent(enabled, [enabled |-> Flag(1, 7)],
        [set_selector |-> U8(0), source_type |-> Bits(1, 0, 4), address |-> Wide(2, 16),
         prefix_length |-> U8(18), status |-> U8(19)])

LanFields(p, e) ==
    CASE p = 0 -> [value |-> Bits(0, 0, 2)]
      [] p \in {4, 51, 62, 67, 71, 79} -> [value |-> U8(0)]
      [] p \in {8, 9} -> [port |-> Big(0, 2)]
      [] p = 10 -> [arp_responses |-> Flag(0, 1), gratuitous_arp |-> Flag(0, 0)]
      [] p = 17 -> [value |-> Bits(0, 0, 4)]
      [] p = 18 -> [set_selector |-> U8(0), acknowledged |-> Flag(1, 7), destination_type |-> Bits(1, 0, 3),
                    timeout |-> U8(2), retries |-> Bits(3, 0, 3)]
      [] p = 19 /\ ~OtherAddress(e) -> [set_selector |-> U8(0), backup_gateway |-> Flag(2, 0), address |-> Wide(3, 4), mac |-> Wide(7, 6)]
      [] p = 20 -> [enabled |-> Flag(1, 7), low |-> U8(0), high |-> Bits(1, 0, 4)]
      [] p = 21 -> [value |-> Bits(0, 0, 3)]
      [] p = 26 -> [generate_audit_event |-> Flag(0, 0), threshold |-> U8(1), reset_interval |-> U16(2), lockout_interval |-> U16(4)]
      [] p = 50 -> [ipv6_alerting |-> Flag(0, 2), dual_stack |-> Flag(0, 1), ipv6_only |-> Flag(0, 0)]
      [] p = 54 -> [flow_label |-> Big(0, 3)]
      [] p = 55 -> [static_address_max |-> U8(0), dynamic_address_max |-> U8(1), slaac |-> Flag(2, 1), dhcpv6 |-> Flag(2, 0)]
      [] p \in {56, 59} -> Ipv6AddressFields(p = 56)
      [] p \in Blocked -> [set_selector |-> U8(0), block_selector |-> U8(1), bytes |-> Rest(e, 2)]
      [] p = 64 -> [static_routers |-> Flag(0, 0), dynamic_routers |-> Flag(0, 1)]
      [] p \in {74, 75, 76, 77} -> [set_selector |-> U8(0), value |-> Rest(e, 1)]
      [] OTHER -> [value |-> Rest(e, 0)]

LanReply(d, p) ==
    LET e == SubSeq(d, 2, Len(d)) IN
    Reply(Len(d) >= 1 /\ At(d, 0) = Revision /\ LanAccepts(p, e), Shift(LanFields(p, e), 1))

(* The parameters that can be written, and their values; the routers that  *)
(* were discovered, counts and capabilities cannot.                        *)
LanWrites == LanParameters \ {1, 17, 22, 23, 50, 55, 57, 59, 60, 62, 73, 74, 75, 76, 77, 78, 79}
LanWritten(p) ==
    LET request(length, fields) == Request(<<0, p>> \o Blank(length), 2, Shift(fields, 2))
        read == LanFields(p, Blank(IF p = 19 THEN 13 ELSE IF p \in Blocked THEN 18 ELSE LanLength(p))) IN
    CASE p \in {0, 51} -> request(1, [value |-> Of(U8(0), 0..2)])
      [] p = 4 -> request(1, [value |-> Of(U8(0), 0..4)])
      [] p = 18 -> request(4, [read EXCEPT !.set_selector = Of(@, 0..15)])
      [] p = 19 -> request(13, [read EXCEPT !.set_selector = Of(@, 0..15)])
      [] p = 56 -> request(20, [read EXCEPT !.prefix_length = Of(@, PrefixLength), !.status = Of(@, {0})])
      [] p \in DuidParameters -> request(18, [read EXCEPT !.block_selector = Of(@, 0..15)])
      [] p \in {63, 80} -> request(18, [read EXCEPT !.block_selector = Of(@, IF p = 63 THEN {0, 1} ELSE {0})])
      [] p \in {67, 71} -> request(1, [value |-> Of(U8(0), PrefixLength)])
      [] OTHER -> request(LanLength(p), read)
LanWriteAllowed(p, v) ==
    /\ p = 20 => v.low + 256 * v.high <= 4094 /\ (v.enabled = 1 => v.low + v.high # 0)
    /\ p = 54 => v.flow_label[3] <= 15

(* A DUID in blocks: its length, its bytes, and what pads the last block.  *)
DuidBlocks(bytes) ==
    LET payload == <<Len(bytes)>> \o bytes
        count == (Len(payload) + 15) \div 16 IN
    [i \in 1..count |-> SubSeq(payload, 16 * i - 15, IF i = count THEN Len(payload) ELSE 16 * i)]
DuidReads(blocks) ==
    /\ blocks # <<>> /\ blocks[1] # <<>> /\ Len(blocks) <= 16
    /\ \A i \in 1..(Len(blocks) - 1) : Len(blocks[i]) = 16
    /\ \A i \in DOMAIN blocks : i > 1 => Len(blocks[i]) <= 16
    /\ Len(FlattenSeq(blocks)) - 1 \in blocks[1][1]..(blocks[1][1] + 15)
Duid(blocks) == SubSeq(FlattenSeq(blocks), 2, 1 + blocks[1][1])

(* The timing of DHCPv6: 22 values in two full blocks.                     *)
TimingBlocks(values) == <<SubSeq(values, 1, 16), SubSeq(values, 17, 22) \o Blank(10)>>
TimingReads(blocks) == Len(blocks) = 2 /\ Len(blocks[1]) = 16 /\ Len(blocks[2]) \in {6, 16}
Timing(blocks) == blocks[1] \o SubSeq(blocks[2], 1, 6)

LanStatisticsReply(d) ==
    Reply(Len(d) = 18,
        [ip_rx_packets |-> Big(0, 2), ip_rx_header_errors |-> Big(2, 2), ip_rx_address_errors |-> Big(4, 2),
         ip_rx_fragmented_packets |-> Big(6, 2), ip_tx_packets |-> Big(8, 2), udp_rx_packets |-> Big(10, 2),
         rmcp_rx_valid_packets |-> Big(12, 2), udp_proxy_rx_packets |-> Big(14, 2), udp_proxy_dropped_packets |-> Big(16, 2)])
(* Some controllers answer with the counters as they were.                 *)
LanClearedReply(d) == IF d = <<>> THEN Reply(TRUE, <<>>) ELSE LanStatisticsReply(d)

ChannelNumber == (0..11) \union {14, 15}
SolPrivileges == 1..5
SolLength(p) == IF p \in {3, 4, 8} THEN 2 ELSE 1
SolFields(p) ==
    CASE p = 0 -> [value |-> Of(U8(0), 0..2)]
      [] p = 1 -> [value |-> Of(U8(0), {0, 1})]
      [] p = 2 -> [force_encryption |-> Flag(0, 7), force_authentication |-> Flag(0, 6), privilege |-> Of(Bits(0, 0, 4), SolPrivileges)]
      [] p = 3 -> [accumulate |-> U8(0), threshold |-> U8(1)]
      [] p = 4 -> [count |-> Of(U8(0), 0..7), interval |-> U8(1)]
      [] p \in {5, 6} -> [bit_rate |-> Bits(0, 0, 4)]
      [] p = 7 -> [channel |-> Of(Bits(0, 0, 4), ChannelNumber)]
      [] p = 8 -> [port |-> U16(0)]
SolReply(d, p) ==
    LET fields == Shift(SolFields(p), 1) IN
    Reply(/\ Len(d) = 1 + SolLength(p) /\ At(d, 0) = Revision
          /\ \A x \in DOMAIN fields : ~fields[x].wide => ValueOf(d, fields[x]) \in fields[x].allowed,
        fields)
SolWritten(p) == Request(<<0, p>> \o Blank(SolLength(p)), 2, Shift(SolFields(p), 2))
================================================================================
