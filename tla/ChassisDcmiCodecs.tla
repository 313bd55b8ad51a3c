--------------------------- MODULE ChassisDcmiCodecs ---------------------------
(***************************************************************************)
(* Chassis commands: system boot options (chassis/boot_options.rs), where  *)
(* a request is <<selector, parameter>> and a response <<revision,         *)
(* selector, parameter>>; status, restart cause, power-on hours.           *)
(***************************************************************************)
EXTENDS WireLayout

BootOption(d, selector, length) ==
    Len(d) = 2 + length /\ At(d, 0) = 1 /\ Part(At(d, 1), 0, 7) = selector /\ ~BitSet(At(d, 1), 7)

SetInProgressWritten == Request(<<0, 0>>, 1, [value |-> Of(U8(1), 0..2)])
SetInProgressReply(d) == Reply(BootOption(d, 0, 1) /\ At(d, 2) \in 0..2, [value |-> U8(2)])

ServicePartitionWritten == Request(<<1, 0>>, 1, [value |-> U8(1)])
ServicePartitionReply(d) == Reply(BootOption(d, 1, 1), [value |-> U8(2)])

(* Only a scan can be asked for; what was found is the BIOS's.             *)
PartitionScanWritten == Request(<<2, 0>>, 1, [scan |-> Of(U8(1), {0, 1})])
PartitionScanReply(d) == Reply(BootOption(d, 2, 1), [scan |-> U8(2)])

ValidBitClearingWritten == Request(<<3, 0>>, 1, [bits |-> Bits(1, 0, 5)])
ValidBitClearingReply(d) == Reply(BootOption(d, 3, 1) /\ At(d, 2) < 32, [bits |-> U8(2)])

BootInfoWritten == Request(<<4, 0, 0>>, 1, [write_mask |-> Bits(1, 0, 5), flags |-> Bits(2, 0, 5)])
BootInfoReply(d) ==
    Reply(BootOption(d, 4, 2) /\ At(d, 2) < 32 /\ At(d, 3) < 32, [write_mask |-> U8(2), flags |-> U8(3)])

(* Flags with bits that BootOverride does not know, or for a device that   *)
(* it does not know, are neither written nor read as an override.          *)
BootDevice == (0..9) \union {11, 15}
BootFlagsWritten ==
    Request(<<5, 128, 0, 0, 0, 0>>, 1,
        [persistent |-> Flag(1, 6), efi |-> Flag(1, 5), device |-> Of(Bits(2, 2, 4), BootDevice),
         clear_cmos |-> Flag(2, 7)])
BootFlagsReply(d) ==
    Reply(/\ BootOption(d, 5, 5) /\ Zeros(d, {4, 5, 6})
          /\ Only(d, 2, {5, 6, 7}) /\ Only(d, 3, {2, 3, 4, 5, 7})
          /\ Part(At(d, 3), 2, 4) \in BootDevice /\ BitSet(At(d, 2), 7),
        [persistent |-> Flag(2, 6), efi |-> Flag(2, 5), device |-> Bits(3, 2, 4), clear_cmos |-> Flag(3, 7)])

InitiatorInfoWritten ==
    Request(<<6, 0, 0, 0, 0, 0, 0, 0, 0, 0>>, 1, [channel |-> Of(U8(1), 0..15), session_id |-> U32(2), timestamp |-> U32(6)])
InitiatorInfoReply(d) ==
    Reply(BootOption(d, 6, 9), [channel |-> U8(2), session_id |-> U32(3), timestamp |-> U32(7)])

(* A block of the mailbox, 0 with an IANA number before the data.          *)
MailboxWritten(block) ==
    IF block = 0
    THEN Request(<<7, 0, 0, 0, 0, 0, 0>>, 1, [iana |-> Wide(2, 3), data |-> U16(5)])
    ELSE Request(<<7, block, 0, 0>>, 1, [data |-> U16(2)])
MailboxReply(d, block) ==
    LET minimum == IF block = 0 THEN 6 ELSE 3 IN
    Reply(/\ Len(d) \in minimum..19 /\ At(d, 0) = 1 /\ Part(At(d, 1), 0, 7) = 7 /\ ~BitSet(At(d, 1), 7)
          /\ At(d, 2) = block,
        IF block = 0 THEN [iana |-> Wide(3, 3), data |-> Rest(d, 6)] ELSE [data |-> Rest(d, 3)])

RawOptionReply(d) ==
    Reply(Len(d) \in 2..255, [revision |-> U8(0), selector |-> Bits(1, 0, 7), invalid |-> Flag(1, 7), data |-> Rest(d, 2)])

ChassisStatusReply(d) ==
    Reply(Len(d) >= 3,
        WhenPresent(Len(d) >= 4, [buttons |-> U8(3)],
            [power |-> Bits(0, 0, 5), power_restore_policy |-> Bits(0, 5, 2), last_power_event |-> Bits(1, 0, 5),
             intrusion |-> Flag(2, 0), lockout |-> Flag(2, 1), drive_fault |-> Flag(2, 2), fan_fault |-> Flag(2, 3)]))
RestartCauseReply(d) == Reply(Len(d) = 2, [reason |-> Bits(0, 0, 4), raw_cause |-> U8(0), channel |-> U8(1)])
PowerOnHoursReply(d) == Reply(Len(d) = 5, [minutes_per_count |-> U8(0), count |-> U32(1)])
RestorePoliciesReply(d) == Reply(Len(d) = 1, [raw |-> U8(0)])
(* Acknowledgements carry no data.                                         *)
IdentifyReply(d) == Reply(Len(d) = 0, <<>>)

-----------------------------------------------------------------------------
(* DCMI (dcmi.rs): every message begins with the group, 0xdc.  Strings are *)
(* modelled in PagedReads and BlockWrites.                                 *)
Dcmi == 220
Checked(d, length) == Len(d) >= length /\ At(d, 0) = Dcmi
Exactly(d, length) == Checked(d, length) /\ Len(d) = length

(* Capabilities: what a page says depends on the selector asked for; a     *)
(* page may be longer than its standard part.                              *)
CapabilityFields(selector) ==
    CASE selector = 1 -> [mandatory |-> U8(4), power |-> Flag(5, 0), optional |-> Bits(5, 1, 7), access |-> U8(6)]
      [] selector = 2 -> [sel_entries |-> U8(4), sel_more |-> Bits(5, 0, 4), rollover |-> Flag(5, 7),
                          identification |-> U8(6), temperature |-> U8(7)]
      [] selector = 3 -> [address |-> U8(4), channel |-> Bits(5, 4, 4), device_revision |-> Bits(5, 0, 4)]
      [] selector = 4 -> [primary |-> U8(4), secondary |-> U8(5), serial |-> U8(6)]
CapabilityLength(selector) == CASE selector \in {1, 4} -> 3 [] selector = 2 -> 4 [] selector = 3 -> 2
CapabilityPage(d) ==
    /\ Checked(d, 4) /\ Len(d) <= 40
    /\ <<At(d, 1), At(d, 2)>> \in {<<1, 0>>, <<1, 1>>, <<1, 5>>} /\ At(d, 3) \in {1, 2}
CapabilityReply(d, selector) ==
    Reply(CapabilityPage(d) /\ Len(d) - 4 >= CapabilityLength(selector),
        WhenPresent(TRUE, CapabilityFields(selector), [extension |-> Rest(d, 4 + CapabilityLength(selector))]))

PowerReadingReply(d) ==
    Reply(Exactly(d, 18),
        [current |-> U16(1), minimum |-> U16(3), maximum |-> U16(5), average |-> U16(7), timestamp |-> U32(9),
         sample |-> U32(13), state |-> U8(17)])

(* The limit comes with a success, or with the code that says it is not    *)
(* active.                                                                 *)
LimitAction == {0, 1, 17}
PowerLimitWritten ==
    Request(<<Dcmi, 0, 0, 0, 0, 0, 0, 0, 0, 0, 0, 0, 0, 0, 0>>, 4,
        [action |-> Of(U8(4), LimitAction), watts |-> U16(5), correction |-> U32(7), sample |-> U16(13)])
PowerLimitReply(d) ==
    Reply(Exactly(d, 14) /\ Zeros(d, {1, 2, 10, 11}),
        [action |-> U8(3), watts |-> U16(4), correction |-> U32(6), sample |-> U16(12)])

ThermalPolicyWritten ==
    Request(<<Dcmi, 64, 0, 0, 0, 0, 0>>, 3,
        [persistent |-> Flag(3, 7), power_off |-> Flag(3, 6), log_to_sel |-> Flag(3, 5), limit |-> U8(4), exception |-> U16(5)])
ThermalPolicyReply(d) ==
    Reply(Exactly(d, 5),
        [persistent |-> Flag(1, 7), power_off |-> Flag(1, 6), log_to_sel |-> Flag(1, 5), reserved |-> Bits(1, 0, 5),
         limit |-> U8(2), exception |-> U16(3)])

(* Temperatures and the records of sensors: pages of pairs of bytes.       *)
PairsReply(d) ==
    Reply(/\ Checked(d, 3) /\ At(d, 2) <= 8 /\ At(d, 2) <= At(d, 1) /\ Len(d) = 3 + 2 * At(d, 2),
        [total |-> U8(1), pairs |-> Wide(3, 2 * At(d, 2))])
StringReply(d) == Reply(Checked(d, 2) /\ At(d, 1) <= 64 /\ Len(d) <= 18, [total |-> U8(1), bytes |-> Rest(d, 2)])

(* Configuration: the value is one byte or two, by the selector.           *)
ConfigLength(selector) == IF selector \in {4, 5} THEN 2 ELSE 1
ConfigWritten(selector) ==
    IF selector \in {4, 5} THEN Request(<<Dcmi, selector, 0, 0, 0>>, 3, [value |-> U16(3)])
    ELSE Request(<<Dcmi, selector, 0, 0>>, 3,
             [value |-> CASE selector = 1 -> Of(U8(3), {0, 1}) [] selector = 2 -> Of(U8(3), 0..3) [] selector = 3 -> U8(3)])
ConfigReply(d, selector) ==
    Reply(/\ Checked(d, 4) /\ Len(d) <= 6 /\ At(d, 1) = 17
          /\ Len(d) - 4 = ConfigLength(selector) /\ (selector = 1 => At(d, 4) \in {0, 1}),
        [value |-> IF selector \in {4, 5} THEN U16(4) ELSE U8(4)])
AckReply(d) == Reply(Exactly(d, 1), <<>>)
=============================================================================
