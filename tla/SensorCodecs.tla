------------------------------ MODULE SensorCodecs ------------------------------
(***************************************************************************)
(* Sensor commands (sensor_event/): a reading and its states, thresholds,  *)
(* platform events and their filters.  A threshold has a place 0..5 in the *)
(* messages and in the masks: lower non-critical, critical, non-           *)
(* recoverable, then upper.                                                *)
(***************************************************************************)
EXTENDS WireLayout, SdrCodecs

SensorReadingReply(d) ==
    Reply(Len(d) >= 2,
        WhenPresent(Len(d) >= 3, [states_low |-> U8(2)],
            WhenPresent(Len(d) >= 4, [states_high |-> U8(3)],
                [reading |-> U8(0), events_enabled |-> Flag(1, 7), scanning_enabled |-> Flag(1, 6), unavailable |-> Flag(1, 5)])))
(* The states of a discrete sensor with this mask of states: none while    *)
(* the reading is unavailable, refused when a byte of them is missing.     *)
Offsets == 0..14
DiscreteReads(d, mask) ==
    /\ SensorReadingReply(d).accepts
    /\ ~BitSet(At(d, 1), 5) => Len(d) >= 3 /\ ((\E o \in 8..14 : o \in mask) => Len(d) >= 4)
DiscreteStates(d, mask) ==
    IF BitSet(At(d, 1), 5) THEN {}
    ELSE {[offset |-> o, advertised |-> o \in mask] :
             o \in {o \in Offsets : IF o < 8 THEN BitSet(At(d, 2), o) ELSE Len(d) >= 4 /\ BitSet(At(d, 3), o - 8)}}
ThresholdStatus(d) == IF BitSet(At(d, 1), 5) \/ Len(d) < 3 THEN <<>> ELSE [kind \in 0..5 |-> BitSet(At(d, 2), kind)]

ThresholdsReply(d) == Reply(Len(d) = 7 /\ At(d, 0) < 64, [mask |-> U8(0), values |-> Wide(1, 6)])
(* A value is there only when its bit of the mask is.                      *)
ThresholdValue(v, kind) == IF BitSet(v.mask, kind) THEN {v.values[kind + 1]} ELSE {}
ThresholdsWritten(sensor) ==
    Request(<<sensor>> \o Blank(7), 1, [mask |-> Of(U8(1), 1..63), values |-> Wide(2, 6)])

(* The settings <<kind, value>> in the order given: each once, settable,   *)
(* and the values in ascending order from the lowest threshold.            *)
Ascending == <<2, 1, 0, 3, 4, 5>>
SettingsAllowed(settings, settable) ==
    /\ settings # <<>>
    /\ \A i \in DOMAIN settings : settings[i][1] \in settable
    /\ \A i, j \in DOMAIN settings : i # j => settings[i][1] # settings[j][1]
    /\ LET ordered == [i \in 1..6 |-> {settings[j][2] : j \in {j \in DOMAIN settings : settings[j][1] = Ascending[i]}}] IN
       \A i, j \in 1..6 : i < j => \A low \in ordered[i], high \in ordered[j] : low <= high

(* An event: one from system software also says who sends it.              *)
EventTypes == (1..12) \union (111..127)
SensorTypes == (1..44) \union (192..255)
EventWritten(system) ==
    LET at == IF system THEN 1 ELSE 0 IN
    Request((IF system THEN <<65>> ELSE <<>>) \o <<4, 0, 0, 0, 0, 0, 0>>, 0,
        Shift([sensor_type |-> Of(U8(1), SensorTypes), sensor_number |-> Of(U8(2), 0..254), event_type |-> Of(Bits(3, 0, 7), EventTypes), deassert |-> Flag(3, 7),
               data |-> Wide(4, 3)], at))
-----------------------------------------------------------------------------
(* Platform event filtering (pef.rs): a configuration response is          *)
(* <<revision, parameter>>; an entry of a table begins with its index,     *)
(* which must be the one asked for.                                        *)
Actions == 0..63
ChannelNumbers == (0..11) \union {14, 15}
PefConfig(d, length) == Len(d) = 1 + length /\ At(d, 0) = 17

PefCapabilitiesReply(d) ==
    Reply(Len(d) = 3 /\ At(d, 1) \in Actions /\ At(d, 2) < 128, [version |-> U8(0), actions |-> U8(1), filters |-> U8(2)])
LastProcessedReply(d) ==
    Reply(Len(d) = 10, [last_sel_addition |-> U32(0), record |-> U16(4), software |-> U16(6), bmc |-> U16(8)])

PefProgressWritten == Request(<<0, 0>>, 1, [value |-> Of(U8(1), 0..2)])
PefProgressReply(d) == Reply(PefConfig(d, 1) /\ At(d, 1) \in 0..2, [value |-> U8(1)])
ControlReply(d) == Reply(PefConfig(d, 1) /\ At(d, 1) < 16, [control |-> U8(1)])
EnabledActionsReply(d) == Reply(PefConfig(d, 1) /\ At(d, 1) \in Actions, [actions |-> U8(1)])
TableSizeReply(d) == Reply(PefConfig(d, 1) /\ At(d, 1) < 128, [size |-> U8(1)])

(* The state of a filter is written alone, and read alone or in its entry. *)
FilterStateWritten(id) == Request(<<7, id, 0>>, 1, [enabled |-> Flag(2, 7)])
FilterStateReply(d, id) ==
    Reply(PefConfig(d, 2) /\ At(d, 1) = id /\ Only(d, 2, {7}), [enabled |-> Flag(2, 7)])
FilterEntryReply(d, id) ==
    Reply(/\ PefConfig(d, 21) /\ At(d, 1) = id /\ Only(d, 2, {6, 7})
          /\ At(d, 3) \in Actions /\ At(d, 4) < 16 /\ At(d, 5) < 64,
        [enabled |-> Flag(2, 7), preconfigured |-> Flag(2, 6), actions |-> U8(3), policy_set |-> U8(4),
         severity |-> U8(5), address |-> U8(6), lun |-> U8(7), sensor_type |-> U8(8), sensor_number |-> U8(9),
         trigger |-> U8(10), offsets |-> U16(11), event_data_1 |-> Wide(13, 3), event_data_2 |-> Wide(16, 3),
         event_data_3 |-> Wide(19, 3)])

PolicyWritten(id) ==
    Request(<<9, id, 0, 0, 0>>, 1,
        [policy_set |-> Bits(2, 4, 4), enabled |-> Flag(2, 3), rule |-> Of(Bits(2, 0, 3), 0..4),
         channel |-> Of(Bits(3, 4, 4), ChannelNumbers), destination |-> Bits(3, 0, 4), key |-> Bits(4, 0, 7),
         event_specific |-> Flag(4, 7)])
PolicyReply(d, id) ==
    Reply(/\ PefConfig(d, 4) /\ At(d, 1) = id
          /\ Part(At(d, 2), 0, 3) <= 4 /\ Part(At(d, 3), 4, 4) \in ChannelNumbers,
        [policy_set |-> Bits(2, 4, 4), enabled |-> Flag(2, 3), rule |-> Bits(2, 0, 3), channel |-> Bits(3, 4, 4),
         destination |-> Bits(3, 0, 4), key |-> Bits(4, 0, 7), event_specific |-> Flag(4, 7)])
SystemGuidReply(d) == Reply(PefConfig(d, 17) /\ At(d, 1) \in {0, 1}, [used |-> U8(1), guid |-> Wide(2, 16)])
=============================================================================
