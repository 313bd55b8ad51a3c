------------------------------- MODULE AppCodecs -------------------------------
(***************************************************************************)
(* Application commands (app/): the device, its users, channels, sessions, *)
(* watchdog, names, and what it reads over I2C.                            *)
(***************************************************************************)
EXTENDS WireLayout

AuthTypes == {0, 1, 2, 4}
Privileges == 1..5
UserPrivileges == (1..5) \union {15}
Channels == (0..11) \union {14, 15}
Nonzero(d, at, bytes) == ~Zeros(d, at..(at + bytes - 1))

-----------------------------------------------------------------------------
(* The device.                                                             *)
DeviceIdReply(d) ==
    Reply(Len(d) >= 11,
        WhenPresent(Len(d) >= 15, [aux_revision |-> Wide(11, 4)],
            [device_id |-> U8(0), device_revision |-> Bits(1, 0, 4), provides_device_sdrs |-> Flag(1, 7),
             unavailable |-> Flag(2, 7), major_fw |-> Bits(2, 0, 7), minor_fw_low |-> Bits(3, 0, 4),
             minor_fw_high |-> Bits(3, 4, 4), major_version |-> Bits(4, 0, 4), minor_version |-> Bits(4, 4, 4),
             support |-> U8(5), manufacturer_id |-> Wide(6, 3), product_id |-> U16(9)]))
GuidReply(d) == Reply(Len(d) = 16, [raw |-> Wide(0, 16)])
SelfTestReply(d) == Reply(Len(d) = 2, [status |-> U8(0), detail |-> U8(1)])

GlobalEnablesWritten ==
    Request(<<0>>, 0, [low |-> Bits(0, 0, 4), oem |-> Bits(0, 5, 3)])
GlobalEnablesReply(d) ==
    Reply(Len(d) = 1 /\ ~BitSet(At(d, 0), 4), [low |-> Bits(0, 0, 4), oem |-> Bits(0, 5, 3)])

-----------------------------------------------------------------------------
(* Users.  A shorter name is padded with zeros; a password is never read.  *)
Printable == 32..126
UserNameWritten(user) == Request(<<user>> \o Blank(16), 1, [name |-> Of(Wide(1, 16), Printable)])
UserNameReply(d) == Reply(Len(d) = 16, [name |-> Wide(0, 16)])
UserAccessWritten(channel, user) ==
    Request(<<128 + channel, user, 0, 0>>, 0,
        [callback_only |-> Flag(0, 6), link_auth |-> Flag(0, 5), ipmi_messaging |-> Flag(0, 4),
         privilege_limit |-> Of(U8(2), UserPrivileges), session_limit |-> Bits(3, 0, 4)])
UserAccessReply(d) ==
    Reply(Len(d) = 4,
        [max_user_ids |-> Bits(0, 0, 6), enabled_user_ids |-> Bits(1, 0, 6), enable_status |-> Bits(1, 6, 2),
         fixed_user_ids |-> Bits(2, 0, 6), callback_only |-> Flag(3, 6), link_auth |-> Flag(3, 5),
         ipmi_messaging |-> Flag(3, 4), privilege_limit |-> Bits(3, 0, 4)])
UserPrivilegeWritten(channel, user) ==
    Request(<<channel, user, 0, 0>>, 0, [privilege_limit |-> Of(U8(2), UserPrivileges)])
(* A user's number shares its byte with the length of the password.        *)
PasswordWritten(user, bytes, operation) ==
    Request(<<user + (IF bytes = 20 THEN 128 ELSE 0), operation>> \o Blank(bytes), 2,
        IF operation \in {2, 3} THEN [password |-> Of(Wide(2, bytes), Printable)] ELSE <<>>)

-----------------------------------------------------------------------------
(* Channels: each part of the access is written to the scope it names.     *)
ChannelAccessWritten(channel, scope) ==
    Request(<<channel, scope, scope>>, 1,
        [access_mode |-> Of(Bits(1, 0, 3), 0..3), user_level_auth_disabled |-> Flag(1, 3),
         per_msg_auth_disabled |-> Flag(1, 4), alerting_disabled |-> Flag(1, 5),
         privilege_level_limit |-> Of(Bits(2, 0, 4), UserPrivileges)])
ChannelAccessReply(d) ==
    Reply(Len(d) >= 2,
        [access_mode |-> Bits(0, 0, 3), user_level_auth_disabled |-> Flag(0, 3), per_msg_auth_disabled |-> Flag(0, 4),
         alerting_disabled |-> Flag(0, 5), privilege_level_limit |-> Bits(1, 0, 4)])
ChannelInfoReply(d) ==
    Reply(Len(d) >= 9 /\ Part(At(d, 0), 0, 4) \in Channels,
        [channel |-> Bits(0, 0, 4), medium_type |-> Bits(1, 0, 7), protocol_type |-> Bits(2, 0, 5),
         session_support |-> Bits(3, 6, 2), active_sessions |-> Bits(3, 0, 6), vendor_id |-> Wide(4, 3),
         aux_1 |-> U8(7), aux_2 |-> U8(8)])
(* With extended capabilities the answer is one byte longer.  Mutant: the  *)
(* length is checked once, for the shorter form.                           *)
AuthCapabilitiesReply_Short(d) ==
    LET oem_at == IF BitSet(At(d, 1), 7) THEN 4 ELSE 3 IN
    Reply(Len(d) >= 7, [channel_number |-> U8(0), oem_id |-> Wide(oem_at, 3), oem_auxiliary_data |-> U8(oem_at + 3)])
AuthCapabilitiesReply(d) ==
    LET extended == BitSet(At(d, 1), 7)
        oem_at == IF extended THEN 4 ELSE 3 IN
    Reply(Len(d) >= 7 /\ (extended => Len(d) >= 8),
        WhenPresent(extended, [kg_status |-> Flag(2, 5), ipmi2 |-> Flag(3, 1), ipmi15 |-> Flag(3, 0)],
            [channel_number |-> U8(0), oem_proprietary |-> Flag(1, 5), key |-> Flag(1, 4), md5 |-> Flag(1, 2),
             md2 |-> Flag(1, 1), none |-> Flag(1, 0), login |-> Bits(2, 0, 5), oem_id |-> Wide(oem_at, 3),
             oem_auxiliary_data |-> U8(oem_at + 3)]))

-----------------------------------------------------------------------------
(* Sessions: an identifier of zero is not one.                             *)
ChallengeReply(d) ==
    Reply(Len(d) = 20 /\ Nonzero(d, 0, 4), [temporary_session_id |-> U32(0), challenge_string |-> Wide(4, 16)])
ActivateSessionReply(d) ==
    Reply(Len(d) >= 10 /\ At(d, 0) \in AuthTypes /\ Nonzero(d, 1, 4) /\ At(d, 9) \in Privileges,
        [auth_type |-> U8(0), session_id |-> U32(1), initial_sequence_number |-> U32(5), privilege |-> U8(9)])
PrivilegeLevelReply(d) == Reply(Len(d) = 1 /\ At(d, 0) \in Privileges, [privilege |-> U8(0)])

(* The cipher suites of a channel: records <<0xc0, id, 3 algorithms>>, in  *)
(* pages of up to 16 bytes; the list ends at the first that is unknown.    *)
CipherPageReply(d) == Reply(Len(d) \in 1..17, [record_data |-> Rest(d, 1)])
CipherSuites(data) ==
    LET read[i \in 0..Len(data)] ==
            IF i + 5 > Len(data) \/ data[i + 1] # 192 \/ data[i + 2] > 19 THEN <<>>
            ELSE <<data[i + 2]>> \o read[i + 5] IN
    read[0]

SolActivationReply(d) ==
    LET over4(at) == At(d, at) > 4 \/ At(d, at + 1) > 0 IN
    Reply(Len(d) = 12 /\ over4(4) /\ over4(6) /\ Nonzero(d, 8, 2),
        [auxiliary |-> U32(0), max_input |-> U16(4), max_output |-> U16(6), port |-> U16(8), vlan |-> U16(10)])
TsolEndpointWritten == Request(<<0, 0, 0, 0, 0, 0>>, 0, [address |-> Wide(0, 4), port |-> Big(4, 2)])
KeystrokeWritten(length) ==
    Request(<<length + 1>> \o Blank(length + 1), 0, [bytes |-> Wide(1, length), sequence |-> U8(length + 1)])

-----------------------------------------------------------------------------
(* Watchdog.  A pretimeout must end before the countdown.                  *)
WatchdogPart == [do_not_log |-> Flag(0, 7), timer_use |-> Bits(0, 0, 3), interrupt |-> Bits(1, 4, 3),
                 action |-> Bits(1, 0, 3), pretimeout |-> U8(2), countdown |-> U16(4)]
WatchdogWritten ==
    Request(<<0, 0, 0, 0, 0, 0>>, 0,
        [do_not_stop |-> Flag(0, 6), clear |-> Bits(3, 1, 5)] @@
        [WatchdogPart EXCEPT !.timer_use = Of(@, 1..5), !.interrupt = Of(@, 0..3), !.action = Of(@, 0..3)])
WatchdogAllowed(v) == v.pretimeout # 0 => v.countdown[1] + 256 * v.countdown[2] > 10 * v.pretimeout
WatchdogReply(d) ==
    Reply(/\ Len(d) = 8 /\ Only(d, 0, {0, 1, 2, 6, 7}) /\ Only(d, 1, {0, 1, 2, 4, 5, 6}) /\ Only(d, 3, 1..5)
          /\ Part(At(d, 0), 0, 3) \in 0..5 /\ Part(At(d, 1), 0, 3) \in 0..3 /\ Part(At(d, 1), 4, 3) \in 0..3,
        [running |-> Flag(0, 6), expired |-> Bits(3, 1, 5), present |-> U16(6)] @@ WatchdogPart)

-----------------------------------------------------------------------------
(* Names (app/system_info.rs): a string of up to 255 bytes in blocks, the  *)
(* first of 14 bytes with the encoding and the length, the others of 16.   *)
(* Unused bytes of a block are zero.                                       *)
Padded(block) == [i \in 1..17 |-> IF i <= Len(block) THEN block[i] ELSE 0]
BlockCount_Short(total) == 1 + total \div 16     \* mutant: the first block holds 14
BlockCount(total) == 1 + (total + 1) \div 16
ToWrites(encoding, bytes) ==
    [i \in 1..BlockCount(Len(bytes)) |->
        IF i = 1 THEN Padded(<<0, encoding, Len(bytes)>> \o SubSeq(bytes, 1, Min({14, Len(bytes)})))
        ELSE Padded(<<i - 1>> \o SubSeq(bytes, 16 * i - 17, Min({16 * i - 2, Len(bytes)})))]
NameProgressWritten == Request(<<0, 0>>, 1, [state |-> Of(U8(1), 0..2)])
NameProgressReply(d) == Reply(Len(d) = 2 /\ At(d, 0) = 17 /\ At(d, 1) \in 0..2, [state |-> U8(1)])
NameBlockReply(d, set) ==
    Reply(/\ Len(d) >= 2 /\ At(d, 0) = 17 /\ At(d, 1) = set
          /\ IF set = 0
             THEN Len(d) \in 4..18 /\ At(d, 2) \in 0..2 /\ Len(d) - 4 >= Min({14, At(d, 3)})
             ELSE Len(d) \in 3..18,
        IF set = 0 THEN [encoding |-> U8(2), total_length |-> U8(3), bytes |-> Rest(d, 4)]
        ELSE [bytes |-> Rest(d, 2)])
(* The string of these blocks, none missing.                               *)
Assembles(blocks) ==
    /\ Len(blocks) = BlockCount(blocks[1].total_length)
    /\ \A i \in DOMAIN blocks :
         Len(blocks[i].bytes) >= IF i = 1 THEN Min({14, blocks[1].total_length})
                                 ELSE Min({16, blocks[1].total_length - 16 * i + 18})
Assemble(blocks) ==
    FoldLeft(LAMBDA s, b : s \o SubSeq(b.bytes, 1, Min({Len(b.bytes), blocks[1].total_length - Len(s)})), <<>>, blocks)

-----------------------------------------------------------------------------
(* A read over I2C returns what was asked for (request byte 2).            *)
I2cWritten(length) ==
    Request(<<0, 0, 0>> \o Blank(length), 0,
        [channel |-> Bits(0, 4, 4), private |-> Of(Flag(0, 0), {1}), bus |-> Bits(0, 1, 3), address |-> Of(Bits(1, 1, 7), 1..127),
         read_len |-> Of(U8(2), 0..64), data |-> Wide(3, length)])
I2cReply(d, read_len) == Reply(Len(d) = read_len /\ Len(d) <= 64, [data |-> Rest(d, 0)])

(* The memory module's own description; DDR4 with 512 bytes needs both of  *)
(* its pages, older ones have only the first.                              *)
SpdReply(d) ==
    LET ddr4 == At(d, 2) = 12
        ddr3 == At(d, 2) = 11 IN
    Reply(/\ Len(d) \in {256, 512}
          /\ ddr4 /\ Part(At(d, 0), 4, 3) = 2 => Len(d) = 512
          /\ At(d, 2) \in {7, 8, 11} => Len(d) = 256,
        CASE ddr3 -> [module_type |-> Bits(3, 0, 4), density |-> Bits(4, 0, 4), width |-> Bits(7, 0, 3),
                      ranks |-> Bits(7, 3, 3), bus |-> Bits(8, 0, 3), ecc |-> Bits(8, 3, 2),
                      manufacturer |-> U16(117), serial |-> U32(122), part |-> Wide(128, 18)]
          [] ddr4 -> WhenPresent(Len(d) = 512,
                      [manufacturer |-> U16(320), serial |-> U32(325), part |-> Wide(329, 20)],
                      [module_type |-> Bits(3, 0, 4), density |-> Bits(4, 0, 4), stacked |-> Bits(6, 0, 2),
                       dies |-> Bits(6, 4, 3), width |-> Bits(12, 0, 3), ranks |-> Bits(12, 3, 3),
                       bus |-> Bits(13, 0, 3), ecc |-> Bits(13, 3, 2)])
          [] OTHER -> [memory_type |-> U8(2)])
=============================================================================
