------------------------------- MODULE SdrCodecs -------------------------------
(***************************************************************************)
(* Sensor data records (storage/sdr/record): what of a record is read, and *)
(* the conversion of a threshold to and from its raw value.  A record is a *)
(* header of 5 bytes, the last its length, and a body that depends on the  *)
(* type; `e' is the body.                                                  *)
(***************************************************************************)
EXTENDS WireLayout

Channels == (0..11) \union {14, 15}
OneByteText == 0..127

(* A name: 2 bits of encoding and 5 of length, then its bytes.  In the     *)
(* encoding 0 they must be UTF-8, of which only one-byte characters occur  *)
(* here.                                                                   *)
NameLength(e, at) == Part(At(e, at), 0, 5)
SensorId(e, at) ==
    /\ Len(e) > at /\ Len(e) - at - 1 >= NameLength(e, at)
    /\ Part(At(e, at), 6, 2) = 0 => \A i \in (at + 1)..(at + NameLength(e, at)) : At(e, i) \in OneByteText
NameFields(e, at) == [encoding |-> Bits(at, 6, 2), name |-> Wide(at + 1, NameLength(e, at))]

SensorKey(e) == Part(At(e, 1), 4, 4) \in Channels /\ At(e, 2) # 255
KeyFields ==
    [owner |-> Bits(0, 1, 7), system |-> Flag(0, 0), owner_channel |-> Bits(1, 4, 4), fru_lun |-> Bits(1, 2, 2),
     owner_lun |-> Bits(1, 0, 2), sensor_number |-> U8(2), entity_id |-> U8(3), logical |-> Flag(4, 7),
     instance |-> Bits(4, 0, 7)]

(* Initialization and capabilities.  What is read as `hysteresis' of the   *)
(* initialization is the bit of the thresholds.                            *)
InitializationFields ==
    [settable |-> Flag(5, 7), scanning |-> Flag(5, 6), events |-> Flag(5, 5), thresholds |-> Flag(5, 4),
     hysteresis |-> Flag(5, 4), set_type |-> Flag(5, 2), events_on_startup |-> Flag(5, 1), scanning_on_startup |-> Flag(5, 0)]
CapabilityFields ==
    [ignore |-> Flag(6, 7), auto_rearm |-> Flag(6, 6), hysteresis_access |-> Bits(6, 4, 2), threshold_access |-> Bits(6, 2, 2),
     event_message_control |-> Bits(6, 0, 2), assertions |-> U16(9), deassertions |-> U16(11),
     lower_values |-> Bits(10, 4, 3), upper_values |-> Bits(12, 4, 3),
     readable |-> Bits(13, 0, 6), settable_thresholds |-> Bits(14, 0, 6)]
UnitFields ==
    [percentage |-> Flag(15, 0), modifier |-> Bits(15, 1, 2), rate |-> Bits(15, 3, 3), base_unit |-> U8(16), modifier_unit |-> U8(17)]
CommonFields ==
    [sensor_type |-> U8(7), event_reading_type |-> U8(8), discrete_reading_low |-> U8(13), discrete_reading_high |-> Bits(14, 0, 7)]
        @@ KeyFields @@ InitializationFields @@ CapabilityFields @@ UnitFields
Common(e) == Len(e) >= 18 /\ SensorKey(e)

(* Low and high parts of one number are fields of their own.               *)
FullSensor(e) ==
    Reply(Len(e) >= 43 /\ Common(e) /\ Part(At(e, 23), 0, 2) # 3 /\ SensorId(e, 42),
        [format |-> Bits(15, 6, 2), linearization |-> Bits(18, 0, 7), m_low |-> U8(19), m_high |-> Bits(20, 6, 2),
         tolerance |-> Bits(20, 0, 6), b_low |-> U8(21), b_high |-> Bits(22, 6, 2), accuracy_low |-> Bits(22, 0, 6),
         accuracy_high |-> Bits(23, 4, 4), accuracy_exponent |-> Bits(23, 2, 2), direction |-> Bits(23, 0, 2),
         result_exponent |-> Bits(24, 4, 4), b_exponent |-> Bits(24, 0, 4), has_nominal |-> Flag(25, 0),
         has_maximum |-> Flag(25, 1), has_minimum |-> Flag(25, 2), nominal |-> U8(26), normal_maximum |-> U8(27),
         normal_minimum |-> U8(28), max_reading |-> U8(29), min_reading |-> U8(30), upper |-> Wide(31, 3),
         lower |-> Wide(34, 3), positive_hysteresis |-> U8(37), negative_hysteresis |-> U8(38), oem |-> U8(41)]
            @@ CommonFields @@ NameFields(e, 42))

(* Records that several sensors share.                                     *)
Shared(e, at) == Part(At(e, at), 6, 2) # 3 /\ Part(At(e, at), 4, 2) \in {0, 1}
SharingFields(at) ==
    [direction |-> Bits(at, 6, 2), id_modifier |-> Bits(at, 4, 2), share_count |-> Bits(at, 0, 4),
     instance_increments |-> Flag(at + 1, 7), modifier_offset |-> Bits(at + 1, 0, 6)]
CompactSensor(e) ==
    Reply(Len(e) >= 27 /\ Common(e) /\ Shared(e, 18) /\ SensorId(e, 26),
        [positive_hysteresis |-> U8(20), negative_hysteresis |-> U8(21), oem |-> U8(25)]
            @@ CommonFields @@ SharingFields(18) @@ NameFields(e, 26))
EventOnlySensor(e) ==
    Reply(Len(e) >= 12 /\ SensorKey(e) /\ Shared(e, 7) /\ SensorId(e, 11),
        [sensor_type |-> U8(5), event_reading_type |-> U8(6), oem |-> U8(10)]
            @@ KeyFields @@ SharingFields(7) @@ NameFields(e, 11))

DeviceFields ==
    [device_type |-> U8(5), device_type_modifier |-> U8(6), entity_id |-> U8(7), entity_instance |-> U8(8), oem |-> U8(9)]
GenericDevice(e) ==
    Reply(Len(e) >= 11 /\ SensorId(e, 10),
        [access_address |-> Bits(0, 1, 7), slave_address |-> Bits(1, 1, 7), access_lun |-> Bits(2, 3, 2),
         bus |-> Bits(2, 0, 3), channel_high |-> Flag(1, 0), channel_low |-> Bits(2, 5, 3), address_span |-> Bits(3, 0, 3)]
            @@ DeviceFields @@ NameFields(e, 10))
FruDevice(e) ==
    Reply(Len(e) >= 11 /\ SensorId(e, 10),
        [access_address |-> Bits(0, 1, 7), device |-> U8(1), lun |-> Bits(2, 3, 2), bus |-> Bits(2, 0, 3), channel |-> U8(3)]
            @@ DeviceFields @@ NameFields(e, 10))
McDevice(e) ==
    Reply(Len(e) >= 11 /\ SensorId(e, 10),
        [i2c_address |-> Bits(0, 1, 7), channel |-> Bits(1, 0, 4), notifications |-> Bits(2, 5, 3), logs_errors |-> Bits(2, 2, 2),
         global_initialization |-> Bits(2, 0, 2), capabilities |-> U8(3), entity_id |-> U8(7), entity_instance |-> U8(8),
         oem |-> U8(9)] @@ NameFields(e, 10))

RecordReply(d) ==
    LET e == SubSeq(d, 6, Len(d))
        body == CASE At(d, 3) = 1 -> FullSensor(e)        [] At(d, 3) = 2 -> CompactSensor(e)
                  [] At(d, 3) = 3 -> EventOnlySensor(e)   [] At(d, 3) = 16 -> GenericDevice(e)
                  [] At(d, 3) = 17 -> FruDevice(e)        [] At(d, 3) = 18 -> McDevice(e)
                  [] OTHER -> Reply(TRUE, [data |-> Rest(e, 0)]) IN
    Reply(Len(d) >= 5 /\ Len(d) - 5 = At(d, 4) /\ body.accepts,
        [record_id |-> U16(0), version |-> U8(2), record_type |-> U8(3)] @@ Shift(body.fields, 5))
(* With the id of the next record before it, or only a piece of it.        *)
GetSdrReply(d) ==
    LET record == RecordReply(SubSeq(d, 3, Len(d))) IN
    Reply(Len(d) >= 2 /\ record.accepts, [next_entry |-> U16(0)] @@ Shift(record.fields, 2))
SdrChunkReply(d) == Reply(Len(d) >= 2, [next_entry |-> U16(0), data |-> Rest(d, 2)])
RepositoryInfoReply(d) ==
    Reply(Len(d) >= 14,
        [version |-> U8(0), record_count |-> U16(1), free_space |-> U16(3), addition |-> U32(5), erase |-> U32(9),
         overflow |-> Flag(13, 7), modality |-> Bits(13, 5, 2), operations |-> Bits(13, 0, 4)])
DeviceSdrInfoReply(d) ==
    LET dynamic == BitSet(At(d, 1), 7) IN
    Reply(Len(d) >= 2 /\ (dynamic => Len(d) >= 5),
        WhenPresent(dynamic, [epoch |-> Wide(2, 3)], [operation_value |-> U8(0), luns |-> Bits(1, 0, 4)]))
(* Read as checked: a ninth byte is read of an answer of eight.            *)
AllocInfoReply(d) ==
    Reply(Len(d) >= 8,
        [num_alloc_units |-> U16(0), alloc_unit_size |-> U16(2), num_free_units |-> U16(4), largest_free_blk |-> U16(6),
         max_record_size |-> U8(8)])

-----------------------------------------------------------------------------
(* A reading of a linear sensor is m * raw + b (b_exponent and             *)
(* result_exponent 0); the thresholds are written the other way round.     *)
Formats == {"unsigned", "ones_complement", "twos_complement"}
Signed(format, raw) ==
    CASE format = "unsigned" \/ raw < 128 -> raw
      [] format = "ones_complement" -> raw - 255
      [] format = "twos_complement" -> raw - 256
Convert(format, m, b, raw) == m * Signed(format, raw) + b
RawRange(format) ==
    CASE format = "unsigned" -> 0..255 [] format = "ones_complement" -> -127..127 [] format = "twos_complement" -> -128..127
(* Of a value that is a reading: there is nothing to round.                *)
ThresholdRaw(format, m, b, value) ==
    {IF n >= 0 THEN n ELSE IF format = "ones_complement" THEN 255 + n ELSE 256 + n :
        n \in {n \in RawRange(format) : m # 0 /\ m * n + b = value}}
=============================================================================
