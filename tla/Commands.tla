-------------------------------- MODULE Commands --------------------------------
(***************************************************************************)
(* A typed command (connection/mod.rs) sent with Ipmi::send_recv (lib.rs): *)
(* a setting is written and read back, or an answer to a query is read     *)
(* that may be cut short, too long or wrong in a byte.  A command is       *)
(* <<name, parameter, ...>>; its layout is in the codec modules.  The      *)
(* target is honest about what it did; its answer may still be lost, or be *)
(* the answer to something else.                                           *)
(***************************************************************************)
EXTENDS WireLayout

App == INSTANCE AppCodecs
Chassis == INSTANCE ChassisDcmiCodecs
Dcmi == INSTANCE ChassisDcmiCodecs
Sensor == INSTANCE SensorCodecs
Storage == INSTANCE StorageCodecs
Transport == INSTANCE TransportCodecs

VARIABLES
    command,
    asked,      \* what is to be set, <<>> before
    stored,     \* what the target has of it: messages
    replies,    \* what was read: messages
    reported,   \* what send_recv() said of the write
    pc

vars == <<command, asked, stored, replies, reported, pc>>

-----------------------------------------------------------------------------
(* Settings: what is written and can be read back.                         *)
FruSpans == {span \in {1, 2} \X {0, 6, 9, 256} \X {0, 2, 3, 4} :
                Storage!FruAllowed(259, span[1], span[2], span[3])}
Settings ==
    ({"boot"} \X (0..6)) \union ({"mailbox", "global_enables"} \X {0, 1})
        \union {<<"power_limit">>, <<"thermal">>, <<"pef_progress">>, <<"user_access">>, <<"watchdog">>,
                <<"sel_time">>, <<"sel_entry">>, <<"thresholds">>, <<"name_progress">>}
        \union ({"config"} \X (1..5)) \union ({"filter", "policy", "user_name"} \X {1, 3}) \union ({"access"} \X {64, 128})
        \union ({"lan"} \X Transport!LanWrites) \union ({"sol"} \X (0..8))
        \union {<<"fru">> \o span : span \in FruSpans}
(* WriteOnly whose effect is not read back.                                 *)
WriteOnly ==
    ({"password"} \X {<<16, 0>>, <<16, 2>>, <<20, 2>>, <<20, 3>>}) \union ({"keystroke", "i2c"} \X {0, 1, 3})
        \union ({"event", "clear"} \X BOOLEAN)
        \union {<<"user_privilege">>, <<"endpoint">>, <<"delete_entry">>, <<"get_entry">>}
(* Values of several messages: strings, identifiers, timing; and a         *)
(* threshold, which is converted to a raw value.                           *)
Composed == ({"name", "duid"} \X {0}) \union {<<"timing">>} \union ({"conversion"} \X Sensor!Formats \X {-2, 1, 3} \X {-5, 0})

Layout(c) ==
    CASE c[1] = "boot" ->
           (CASE c[2] = 0 -> Chassis!SetInProgressWritten     [] c[2] = 1 -> Chassis!ServicePartitionWritten
              [] c[2] = 2 -> Chassis!PartitionScanWritten     [] c[2] = 3 -> Chassis!ValidBitClearingWritten
              [] c[2] = 4 -> Chassis!BootInfoWritten          [] c[2] = 5 -> Chassis!BootFlagsWritten
              [] c[2] = 6 -> Chassis!InitiatorInfoWritten)
      [] c[1] = "mailbox" -> Chassis!MailboxWritten(c[2])     [] c[1] = "power_limit" -> Dcmi!PowerLimitWritten
      [] c[1] = "thermal" -> Dcmi!ThermalPolicyWritten        [] c[1] = "config" -> Dcmi!ConfigWritten(c[2])
      [] c[1] = "pef_progress" -> Sensor!PefProgressWritten      [] c[1] = "filter" -> Sensor!FilterStateWritten(c[2])
      [] c[1] = "policy" -> Sensor!PolicyWritten(c[2])           [] c[1] = "global_enables" -> App!GlobalEnablesWritten
      [] c[1] = "user_name" -> App!UserNameWritten(c[2])      [] c[1] = "user_access" -> App!UserAccessWritten(1, 2)
      [] c[1] = "access" -> App!ChannelAccessWritten(1, c[2]) [] c[1] = "watchdog" -> App!WatchdogWritten
      [] c[1] = "name_progress" -> App!NameProgressWritten    [] c[1] = "lan" -> Transport!LanWritten(c[2])
      [] c[1] = "sol" -> Transport!SolWritten(c[2])           [] c[1] = "sel_time" -> Storage!SelTimeWritten
      [] c[1] = "sel_entry" -> Storage!AddEntryWritten        [] c[1] = "thresholds" -> Sensor!ThresholdsWritten(9)
      [] c[1] = "fru" -> Storage!FruWritten(1, c[2], c[3], c[4])
      [] c[1] = "password" -> App!PasswordWritten(2, c[2][1], c[2][2])
      [] c[1] = "keystroke" -> App!KeystrokeWritten(c[2])     [] c[1] = "i2c" -> App!I2cWritten(c[2])
      [] c[1] = "event" -> Sensor!EventWritten(c[2])          [] c[1] = "clear" -> Storage!ClearSelWritten(c[2])
      [] c[1] = "user_privilege" -> App!UserPrivilegeWritten(1, 2)
      [] c[1] = "endpoint" -> App!TsolEndpointWritten         [] c[1] = "delete_entry" -> Storage!DeleteEntryWritten
      [] c[1] = "get_entry" -> Storage!GetEntryWritten

(* The values that the constructors take.  Thresholds are <<kind, value>>  *)
(* in the order of their kinds; the others are written as 0.               *)
ThresholdsAsked(v) == SetToSortSeq({<<k, v.values[k + 1]>> : k \in {k \in 0..5 : BitSet(v.mask, k)}}, LAMBDA x, y : x[1] < y[1])
Allowed(c, v) ==
    CASE c[1] = "watchdog" -> App!WatchdogAllowed(v)
      [] c[1] = "lan" -> Transport!LanWriteAllowed(c[2], v)
      [] c[1] = "sel_entry" -> Storage!EntryAllowed(Encode(Layout(c), v))
      [] c[1] = "delete_entry" -> Storage!DeleteEntryAllowed(Encode(Layout(c), v))
      [] c[1] = "thresholds" -> Sensor!SettingsAllowed(ThresholdsAsked(v), {0, 2, 3, 5})
      [] OTHER -> TRUE
Bytes(n) == [i \in 1..n |-> i % 200]
Wanted(c) ==
    CASE c[1] = "name" -> {[bytes |-> Bytes(n), encoding |-> e] : n \in {0, 1, 13, 14, 15, 30, 31, 254, 255}, e \in 0..2}
      [] c[1] = "duid" -> {[bytes |-> Bytes(n)] : n \in {0, 1, 14, 15, 16, 31, 32, 255}}
      [] c[1] = "timing" -> {[bytes |-> Bytes(22)]}
      [] c[1] = "conversion" -> {[value |-> Sensor!Convert(c[2], c[3], c[4], raw)] : raw \in Byte}
      [] c[1] = "thresholds" ->
           {v \in {[mask |-> m, values |-> [i \in 1..6 |-> IF BitSet(m, i - 1) THEN s[i] ELSE 0]] :
                      m \in 1..63, s \in {<<30, 20, 10, 40, 50, 60>>, <<5, 5, 5, 5, 5, 5>>, <<10, 20, 30, 40, 50, 60>>}} : Allowed(c, v)}
      [] Layout(c).fields = <<>> -> {<<>>}
      [] OTHER -> {v \in Valuations(Layout(c).fields) : Allowed(c, v)}

(* What is sent for a value.                                               *)
Messages(c, v) ==
    CASE c[1] = "name" -> App!ToWrites(v.encoding, v.bytes)
      [] c[1] = "duid" -> Transport!DuidBlocks(v.bytes)
      [] c[1] = "timing" -> Transport!TimingBlocks(v.bytes)
      [] c[1] = "conversion" -> SetToSeq({<<raw>> : raw \in Sensor!ThresholdRaw(c[2], c[3], c[4], v.value)})
      [] OTHER -> <<Encode(Layout(c), v)>>

-----------------------------------------------------------------------------
(* What the target answers with when it is asked for what it stored.       *)
Answers(c, s) ==
    LET sent == s[1]
        parameter == SubSeq(sent, Layout(c).skip + 1, Len(sent)) IN
    CASE c[1] = "conversion" -> s
      [] c[1] \in {"name", "ciphers"} -> [i \in DOMAIN s |-> <<17>> \o s[i]]
      [] c[1] \in {"duid", "timing"} -> [i \in DOMAIN s |-> <<17, 0, i - 1>> \o s[i]]
      [] c[1] = "boot" -> <<<<1, c[2]>> \o parameter>>
      [] c[1] = "mailbox" -> <<<<1, 7>> \o parameter>>
      [] c[1] = "power_limit" -> <<<<220, 0, 0>> \o parameter>>
      [] c[1] = "thermal" -> <<<<220>> \o parameter>>
      [] c[1] = "config" -> <<<<220, 17, 0, 0>> \o parameter>>
      [] c[1] \in {"pef_progress", "filter", "policy", "name_progress", "lan", "sol"} -> <<<<17>> \o parameter>>
      [] c[1] = "user_access" -> <<<<10, 65, 1, 16 * Part(sent[1], 4, 3) + sent[3]>>>>
      [] c[1] = "access" -> <<<<sent[2] % 64, sent[3] % 16>>>>
      [] c[1] = "watchdog" -> <<<<sent[1], sent[2], sent[3], 0, sent[5], sent[6], sent[5], sent[6]>>>>
      [] c[1] = "sel_entry" -> <<<<255, 255, 1, 0>> \o parameter>>
      [] c[1] = "fru" -> <<<<c[4] \div c[2]>> \o parameter>>
      [] OTHER -> <<parameter>>

(* Queries of what nothing here sets, with answers that a target may give. *)
Queries ==
    {<<"chassis_status">>, <<"restart_cause">>, <<"power_on_hours">>, <<"restore_policies">>, <<"identify">>,
     <<"raw_option">>, <<"power_reading">>, <<"pairs">>, <<"string">>, <<"ack">>, <<"pef_capabilities">>,
     <<"last_processed">>, <<"control">>, <<"enabled_actions">>, <<"table_size">>, <<"filter_entry">>,
     <<"pef_guid">>, <<"device_id">>, <<"guid">>, <<"self_test">>, <<"channel_info">>, <<"auth_capabilities">>,
     <<"challenge">>, <<"activate">>, <<"session_privilege">>, <<"sol_activation">>, <<"i2c_read">>, <<"spd">>,
     <<"sel_info">>, <<"entry">>, <<"record_id">>, <<"progress">>, <<"reservation">>, <<"fru_info">>, <<"fru_write">>,
     <<"sdr">>, <<"sdr_chunk">>, <<"repository">>, <<"allocation">>, <<"device_sdrs">>, <<"inventory">>, <<"statistics">>, <<"cleared">>,
     <<"reading">>, <<"status">>}
        \union ({"capability"} \X (1..4)) \union ({"name_block"} \X {0, 1}) \union ({"discrete"} \X {{0, 3}, {2, 9}})
        \union ({"lan"} \X (Transport!LanParameters \ Transport!LanWrites))

(* An image of an inventory: two areas whose first fields have any length, *)
(* and a record; with the checksums right.                                 *)
Summed(s) == LET sum == FoldLeft(LAMBDA x, y : (x + y) % 256, 0, s) IN Append(s, (256 - sum) % 256)
Image(length, product) ==
    Summed(<<1, 0, 1, 2, product, 6, 0>>)
        \o Summed(<<1, 1, 23, 192, 192, 193, 0>>)
        \o Summed(<<1, 2, 25, 0, 0, 0, length, 65, 66, 192, 192, 192, 192, 193, 0>>)
        \o Summed(<<1, 2, 0, length, 192, 192, 192, 192, 192, 192, 193, 0, 0, 0, 0>>)
        \o <<192, 130, 3, 250, 193, 1, 2, 3>>
(* Records with a body of this type and length, and a name of two bytes.   *)
Body(n) == <<32, 0, 9, 7, 1, 127, 104, 1, 1>> \o Blank(n - 12) \o <<0, 194, 65>>
Record(ty, body) == <<1, 0, 81, ty, Len(body)>> \o body
SpdImage(ty, n) == <<35, 17, ty, 2>> \o Blank(n - 4)
Sample(c) ==
    CASE c[1] = "lan" -> {<<17>> \o Blank(IF c[2] \in Transport!Blocked THEN 6 ELSE IF c[2] = 19 THEN 13 ELSE Transport!LanLength(c[2]))}
      [] c[1] = "chassis_status" -> {<<33, 1, 15>>, <<33, 1, 15, 255>>}
      [] c[1] = "restart_cause" -> {<<2, 1>>}
      [] c[1] = "power_on_hours" -> {<<60, 1, 0, 0, 0>>}
      [] c[1] = "restore_policies" -> {<<7>>}
      [] c[1] \in {"identify", "cleared"} -> {<<>>}
      [] c[1] = "raw_option" -> {<<1, 5, 1, 2>>}
      [] c[1] = "capability" -> {<<220, 1, 5, 2>> \o Blank(Dcmi!CapabilityLength(c[2])), <<220, 1, 5, 2>> \o Blank(36)}
      [] c[1] = "power_reading" -> {<<220>> \o Blank(17)}
      [] c[1] = "pairs" -> {<<220, 2, 2, 1, 2, 3, 4>>, <<220, 9, 8>> \o Blank(16), <<220, 0, 0>>}
      [] c[1] = "string" -> {<<220, 3, 65, 66, 67>>, <<220, 64>> \o Blank(16)}
      [] c[1] = "ack" -> {<<220>>}
      [] c[1] = "pef_capabilities" -> {<<81, 63, 40>>}
      [] c[1] = "last_processed" -> {Blank(10)}
      [] c[1] \in {"control", "enabled_actions", "table_size"} -> {<<17, 5>>}
      [] c[1] = "filter_entry" -> {<<17, 3, 192, 1>> \o Blank(18)}
      [] c[1] = "pef_guid" -> {<<17, 1>> \o Blank(16)}
      [] c[1] = "device_id" -> {<<32, 129, 2, 21, 2, 191, 87, 1, 0, 1, 2>>, <<32, 129, 2, 21, 2, 191, 87, 1, 0, 1, 2, 0, 0, 0, 0>>}
      [] c[1] = "guid" -> {Blank(16)}
      [] c[1] = "self_test" -> {<<85, 0>>}
      [] c[1] = "channel_info" -> {<<1, 4, 1, 128, 242, 27, 0, 0, 0>>}
      [] c[1] = "auth_capabilities" -> {<<1, 22, 4, 0, 0, 0, 0>>, <<1, 150, 4, 3, 0, 0, 0, 0>>}
      [] c[1] = "challenge" -> {<<1>> \o Blank(19)}
      [] c[1] = "activate" -> {<<2, 1, 2, 3, 4, 5, 0, 0, 0, 4>>}
      [] c[1] = "session_privilege" -> {<<4>>}
      [] c[1] = "sol_activation" -> {<<0, 0, 0, 0, 200, 0, 200, 0, 111, 2, 255, 255>>}
      [] c[1] = "name_block" -> {IF c[2] = 0 THEN <<17, 0, 1, 3, 65, 66, 67>> ELSE <<17, 1, 65, 66, 67>>}
      [] c[1] = "i2c_read" -> {<<1, 2, 3>>}
      [] c[1] = "spd" -> {SpdImage(7, 256), SpdImage(11, 256), SpdImage(12, 512)}
      [] c[1] = "sel_info" -> {<<81>> \o Blank(13)}
      [] c[1] = "entry" -> {<<2, 0, 1, 0, ty, 0, 0, 0, 0, gen, 0, 4, 1, 48, 111, 162, 15, 255>> : ty \in {2, 192, 224}, gen \in {32, 65}}
      [] c[1] \in {"record_id", "reservation"} -> {<<1, 0>>}
      [] c[1] = "progress" -> {<<1>>, <<1, 2>>}
      [] c[1] = "fru_info" -> {<<0, 1, 0>>, <<0, 1, 1>>}
      [] c[1] = "fru_write" -> {<<4>>}
      [] c[1] = "sdr" ->
           {<<2, 0>> \o Record(1, Body(45)), <<2, 0>> \o Record(2, Body(29)), <<2, 0>> \o Record(3, Body(14)),
            <<2, 0>> \o Record(9, <<1, 2>>)}
               \union {<<2, 0>> \o Record(ty, Body(13)) : ty \in {16, 17, 18}}
      [] c[1] = "sdr_chunk" -> {<<2, 0>>, <<2, 0, 1, 2, 3>>}
      [] c[1] = "repository" -> {<<81>> \o Blank(13)}
      [] c[1] = "allocation" -> {Blank(9)}
      [] c[1] = "device_sdrs" -> {<<5, 1>>, <<5, 129, 1, 2, 3>>}
      [] c[1] = "inventory" -> {Image(length, product) : length \in {0, 65, 192, 193, 194, 195, 200, 205, 207, 255}, product \in 0..6}
      [] c[1] = "statistics" -> {Blank(18)}
      [] c[1] \in {"reading", "status", "discrete"} -> {<<100, 192>>, <<100, 192, 9>>, <<100, 224, 9>>, <<100, 192, 9, 130>>}
(* An answer as it is, cut, with more, or with another value in a byte.    *)
Places(d) == {i \in DOMAIN d : i <= 60 \/ i >= Len(d) - 1}
Disturbed(d) ==
    {d, Append(d, 1)} \union {SubSeq(d, 1, i - 1) : i \in Places(d)}
        \union {[d EXCEPT ![i] = b] : i \in Places(d), b \in {0, 1, 127, 128, 255}}

(* What the parser of the command makes of an answer.                      *)
ReplyOf(c, i, d) ==
    CASE c[1] = "boot" ->
           (CASE c[2] = 0 -> Chassis!SetInProgressReply(d)      [] c[2] = 1 -> Chassis!ServicePartitionReply(d)
              [] c[2] = 2 -> Chassis!PartitionScanReply(d)      [] c[2] = 3 -> Chassis!ValidBitClearingReply(d)
              [] c[2] = 4 -> Chassis!BootInfoReply(d)           [] c[2] = 5 -> Chassis!BootFlagsReply(d)
              [] c[2] = 6 -> Chassis!InitiatorInfoReply(d))
      [] c[1] = "mailbox" -> Chassis!MailboxReply(d, c[2])      [] c[1] = "raw_option" -> Chassis!RawOptionReply(d)
      [] c[1] = "chassis_status" -> Chassis!ChassisStatusReply(d)
      [] c[1] = "restart_cause" -> Chassis!RestartCauseReply(d) [] c[1] = "power_on_hours" -> Chassis!PowerOnHoursReply(d)
      [] c[1] = "restore_policies" -> Chassis!RestorePoliciesReply(d)
      [] c[1] = "identify" -> Chassis!IdentifyReply(d)          [] c[1] = "power_limit" -> Dcmi!PowerLimitReply(d)
      [] c[1] = "thermal" -> Dcmi!ThermalPolicyReply(d)         [] c[1] = "config" -> Dcmi!ConfigReply(d, c[2])
      [] c[1] = "capability" -> Dcmi!CapabilityReply(d, c[2])   [] c[1] = "power_reading" -> Dcmi!PowerReadingReply(d)
      [] c[1] = "pairs" -> Dcmi!PairsReply(d)                   [] c[1] = "string" -> Dcmi!StringReply(d)
      [] c[1] = "ack" -> Dcmi!AckReply(d)                       [] c[1] = "pef_progress" -> Sensor!PefProgressReply(d)
      [] c[1] = "filter" -> Sensor!FilterStateReply(d, c[2])       [] c[1] = "policy" -> Sensor!PolicyReply(d, c[2])
      [] c[1] = "pef_capabilities" -> Sensor!PefCapabilitiesReply(d)
      [] c[1] = "last_processed" -> Sensor!LastProcessedReply(d)   [] c[1] = "control" -> Sensor!ControlReply(d)
      [] c[1] = "enabled_actions" -> Sensor!EnabledActionsReply(d) [] c[1] = "table_size" -> Sensor!TableSizeReply(d)
      [] c[1] = "filter_entry" -> Sensor!FilterEntryReply(d, 3)    [] c[1] = "pef_guid" -> Sensor!SystemGuidReply(d)
      [] c[1] = "global_enables" -> App!GlobalEnablesReply(d)   [] c[1] = "user_name" -> App!UserNameReply(d)
      [] c[1] = "user_access" -> App!UserAccessReply(d)         [] c[1] = "access" -> App!ChannelAccessReply(d)
      [] c[1] = "watchdog" -> App!WatchdogReply(d)              [] c[1] = "name_progress" -> App!NameProgressReply(d)
      [] c[1] = "name" -> App!NameBlockReply(d, i - 1)          [] c[1] = "name_block" -> App!NameBlockReply(d, c[2])
      [] c[1] = "ciphers" -> App!CipherPageReply(d)             [] c[1] = "device_id" -> App!DeviceIdReply(d)
      [] c[1] = "guid" -> App!GuidReply(d)                      [] c[1] = "self_test" -> App!SelfTestReply(d)
      [] c[1] = "channel_info" -> App!ChannelInfoReply(d)       [] c[1] = "challenge" -> App!ChallengeReply(d)
      [] c[1] = "auth_capabilities" -> App!AuthCapabilitiesReply(d)
      [] c[1] = "activate" -> App!ActivateSessionReply(d)       [] c[1] = "session_privilege" -> App!PrivilegeLevelReply(d)
      [] c[1] = "sol_activation" -> App!SolActivationReply(d)   [] c[1] = "i2c_read" -> App!I2cReply(d, 3)
      [] c[1] = "spd" -> App!SpdReply(d)
      [] c[1] \in {"lan", "duid", "timing"} ->
           Transport!LanReply(d, CASE c[1] = "lan" -> c[2] [] c[1] = "duid" -> 58 [] c[1] = "timing" -> 63)
      [] c[1] = "sol" -> Transport!SolReply(d, c[2])            [] c[1] = "statistics" -> Transport!LanStatisticsReply(d)
      [] c[1] = "cleared" -> Transport!LanClearedReply(d)       [] c[1] = "sel_info" -> Storage!SelInfoReply(d)
      [] c[1] = "sel_time" -> Storage!SelTimeReply(d)           [] c[1] \in {"sel_entry", "entry"} -> Storage!GetSelEntryReply(d)
      [] c[1] = "record_id" -> Storage!RecordIdReply(d)         [] c[1] = "progress" -> Storage!ClearSelReply(d)
      [] c[1] = "reservation" -> Storage!ReserveReply(d)        [] c[1] = "fru_info" -> Storage!FruInfoReply(d)
      [] c[1] = "fru" -> Storage!FruReadReply(d)                [] c[1] = "fru_write" -> Storage!FruWriteReply(d)
      [] c[1] = "inventory" -> Storage!InventoryReply(d)        [] c[1] = "sdr" -> Sensor!GetSdrReply(d)
      [] c[1] = "sdr_chunk" -> Sensor!SdrChunkReply(d)          [] c[1] = "repository" -> Sensor!RepositoryInfoReply(d)
      [] c[1] = "allocation" -> Sensor!AllocInfoReply(d)
      [] c[1] = "device_sdrs" -> Sensor!DeviceSdrInfoReply(d)   [] c[1] = "thresholds" -> Sensor!ThresholdsReply(d)
      [] c[1] = "reading" -> Sensor!SensorReadingReply(d)
      [] c[1] = "status" ->
           Reply(Sensor!SensorReadingReply(d).accepts, IF Sensor!ThresholdStatus(d) = <<>> THEN <<>> ELSE [states |-> U8(2)])
      [] c[1] = "discrete" ->
           Reply(Sensor!DiscreteReads(d, c[2]),
               [o \in {s.offset : s \in Sensor!DiscreteStates(d, c[2])} |-> Flag(2 + o \div 8, o % 8)])
      [] OTHER -> Reply(TRUE, <<>>)

-----------------------------------------------------------------------------
(* send_recv() and sel_mutation().                                         *)
Commanded == Settings \union WriteOnly \union Composed \union Queries
Suites == {<<3>>, <<1, 2, 3, 17>>, <<3, 20, 17>>}
SuiteRecords(ids) == FlattenSeq([i \in DOMAIN ids |-> <<192, ids[i], 1, 65, 129>>])

Init ==
    /\ replies = <<>> /\ reported = "nothing"
    /\ \/ command \in Commanded /\ asked = <<>> /\ stored = <<>> /\ pc = "ready"
       \* The suites of a channel are the target's own.
       \/ /\ command = <<"ciphers">> /\ pc = "written"
          /\ \E ids \in Suites :
               /\ asked = [ids |-> ids]
               /\ LET data == SuiteRecords(ids) IN
                  stored = [i \in 1..((Len(data) + 16) \div 16) |-> SubSeq(data, 16 * i - 15, Min({16 * i, Len(data)}))]

(* The answer is another's, or says no, or says yes and can be read or not;*)
(* or none came.                                                           *)
Outcome(response) ==
    CASE ~response.came -> "no_answer"
      [] response.came /\ ~response.matches -> "unexpected"
      [] response.came /\ response.matches /\ response.code # 0 -> "failed"
      [] response.came /\ response.matches /\ response.code = 0 /\ ~response.reads -> "unreadable"
      [] OTHER -> "done"
SelMutation(result) ==
    CASE result = "done" -> "done" [] result = "failed" -> "rejected" [] OTHER -> "unknown"
Responses == [came : BOOLEAN, matches : BOOLEAN, code : {0, 128}, reads : BOOLEAN]

(* The target's own answer says what it did.                               *)
Honest(response, executed) == response.came /\ response.matches => (response.code = 0) = executed

Write ==
    /\ pc = "ready" /\ command \in Settings \union WriteOnly \union Composed
    /\ \E v \in Wanted(command), response \in Responses, executed \in BOOLEAN :
         /\ Honest(response, executed)
         /\ asked' = v
         /\ stored' = IF executed THEN Messages(command, v) ELSE <<>>
         /\ reported' = SelMutation(Outcome(response))
    /\ pc' = "written"
    /\ UNCHANGED <<command, replies>>

ReadBack ==
    /\ pc = "written" /\ stored # <<>> /\ command \notin WriteOnly
    /\ replies' = Answers(command, stored)
    /\ pc' = "answered"
    /\ UNCHANGED <<command, asked, stored, reported>>

(* Also of a setting that nobody wrote here.                               *)
Query ==
    /\ pc = "ready"
    /\ \/ command \in Queries /\ \E d \in Sample(command) : \E a \in Disturbed(d) : replies' = <<a>>
       \/ /\ command \in Settings
          /\ \E v \in Wanted(command) :
               /\ \A x \in DOMAIN v : v[x] = Highest(Layout(command).fields[x])
               /\ \E a \in Disturbed(Answers(command, Messages(command, v))[1]) : replies' = <<a>>
    /\ pc' = "answered"
    /\ UNCHANGED <<command, asked, stored, reported>>

Next == Write \/ ReadBack \/ Query
Spec == Init /\ [][Next]_vars
-----------------------------------------------------------------------------
TypeOK ==
    /\ command \in Commanded \union {<<"ciphers">>}
    /\ reported \in {"nothing", "done", "rejected", "unknown"}
    /\ pc \in {"ready", "written", "answered"}
    /\ \A s \in {stored, replies} : \A i \in DOMAIN s : \A j \in DOMAIN s[i] : s[i][j] \in Byte

Parsed(i) == ReplyOf(command, i, replies[i])
Disjoint(f, g) == EndOf(f) < g.at \/ EndOf(g) < f.at

(* An answer that is accepted has every byte that is read of it, and the   *)
(* areas of a FRU image do not reach into each other: no parser reads past *)
(* what came, whatever came (the length checks of parse_success_response). *)
(* The allocation info's is known to read one byte past an answer of 8.    *)
RepliesInBounds ==
    \A i \in DOMAIN replies :
        LET r == Parsed(i) IN
        /\ command # <<"allocation">> \/ Len(replies[i]) > 8 => InBounds(replies[i], r)
        /\ command = <<"inventory">> => \A x, y \in DOMAIN r.fields : x # y => Disjoint(r.fields[x], r.fields[y])

(* What was asked for is in the request as the target reads it, and in     *)
(* what is read back.                                                      *)
Shared(i) == DOMAIN asked \intersect DOMAIN Parsed(i).fields
SameValue ==
    LET read(i, x) == ValueOf(replies[i], Parsed(i).fields[x])
        blocks == [i \in DOMAIN replies |-> Values(replies[i], Parsed(i).fields)] IN
    CASE command[1] = "name" -> App!Assembles(blocks) /\ App!Assemble(blocks) = asked.bytes /\ blocks[1].encoding = asked.encoding
      [] command[1] = "duid" ->
           LET bytes == [i \in DOMAIN replies |-> read(i, "bytes")] IN
           Transport!DuidReads(bytes) /\ Transport!Duid(bytes) = asked.bytes
      [] command[1] = "timing" ->
           LET bytes == [i \in DOMAIN replies |-> read(i, "bytes")] IN
           Transport!TimingReads(bytes) /\ Transport!Timing(bytes) = asked.bytes
      [] command[1] = "ciphers" ->
           IsPrefix(App!CipherSuites(FlattenSeq([i \in DOMAIN replies |-> read(i, "record_data")])), asked.ids)
      [] command[1] = "conversion" -> Sensor!Convert(command[2], command[3], command[4], replies[1][1]) = asked.value
      [] command[1] = "thresholds" ->
           \A kind \in 0..5 :
               Sensor!ThresholdValue(Values(replies[1], Parsed(1).fields), kind)
                   = {setting[2] : setting \in {s \in Range(ThresholdsAsked(asked)) : s[1] = kind}}
      [] command[1] = "fru" -> Storage!FruVerified(replies[1], command[2], command[4]) /\ read(1, "data") = asked.data
      [] OTHER -> Shared(1) # {} /\ \A x \in Shared(1) : read(1, x) = asked[x]

(* A write that is reported as done was done, one reported as rejected was *)
(* not; the request says what was asked for, no field over another; and    *)
(* what the target then has is read back as it was asked for, whatever is  *)
(* between: blocks, units, encodings, conversions (the From<..> for        *)
(* Message and the parsers of the same settings).                          *)
SettingsReadBack ==
    /\ reported = "done" => stored = Messages(command, asked)
    /\ reported = "rejected" => stored = <<>>
    /\ pc = "written" /\ stored # <<>> /\ command \in Settings \union WriteOnly =>
         Values(stored[1], Layout(command).fields) = asked
    /\ pc = "answered" /\ stored # <<>> => (\A i \in DOMAIN replies : Parsed(i).accepts) /\ SameValue
=============================================================================
