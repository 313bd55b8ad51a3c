----------------------------- MODULE StorageCodecs -----------------------------
(***************************************************************************)
(* The event log (storage/sel), the commands on FRU inventories and the    *)
(* image of an inventory (storage/fru).                                    *)
(***************************************************************************)
EXTENDS WireLayout

ChannelNumber == (0..11) \union {14, 15}
(* Identifiers that ask for the first and for the last record.             *)
IsEnd(d, at) == <<At(d, at), At(d, at + 1)>> \in {<<0, 0>>, <<255, 255>>}

-----------------------------------------------------------------------------
(* The event log.                                                          *)
SelInfoReply(d) ==
    Reply(Len(d) = 14,
        [version_maj |-> Bits(0, 0, 4), version_min |-> Bits(0, 4, 4), entries |-> U16(1), bytes_free |-> U16(3),
         last_add_time |-> U32(5), last_del_time |-> U32(9), overflow |-> Flag(13, 7), supported_cmds |-> Bits(13, 0, 4)])

(* Which of the two further bytes of an event mean something, and what, is *)
(* in the first; 255 is no value.                                          *)
EventFields(at) == [offset |-> Bits(at, 0, 4), data2_type |-> Bits(at, 6, 2), data3_type |-> Bits(at, 4, 2),
                    data2 |-> U8(at + 1), data3 |-> U8(at + 2)]
GeneratorFields(d) ==
    IF BitSet(At(d, 7), 0)
    THEN [software_id |-> Bits(7, 1, 7), generator_channel |-> Bits(8, 4, 4)]
    ELSE [i2c_addr |-> Bits(7, 1, 7), generator_channel |-> Bits(8, 4, 4), lun |-> Bits(8, 0, 2)]
EntryReply(d) ==
    LET ty == At(d, 2) IN
    Reply(Len(d) = 16 /\ (ty = 2 => Part(At(d, 8), 4, 4) \in ChannelNumber),
        [record_id |-> U16(0), ty |-> U8(2)] @@
        CASE ty = 2 -> [timestamp |-> U32(3), event_message_format |-> U8(9), sensor_type |-> U8(10),
                        sensor_number |-> U8(11), deassert |-> Flag(12, 7), event_type |-> Bits(12, 0, 7)]
                           @@ GeneratorFields(d) @@ EventFields(13)
          [] ty \in 192..223 -> [timestamp |-> U32(3), manufacturer_id |-> Wide(7, 3), data |-> Wide(10, 6)]
          [] OTHER -> [data |-> Wide(3, 13)])
GetSelEntryReply(d) ==
    LET entry == EntryReply(SubSeq(d, 3, Len(d))) IN
    Reply(Len(d) >= 2 /\ entry.accepts, [next_entry |-> U16(0)] @@ Shift(entry.fields, 2))

(* An entry to add is one that would be read, with no identifier yet.      *)
AddEntryWritten ==
    Request(Blank(16), 2,
        [ty |-> Of(U8(2), {2}), timestamp |-> U32(3), software |-> Of(Flag(7, 0), {1}), software_id |-> Bits(7, 1, 7),
         generator_channel |-> Of(Bits(8, 4, 4), ChannelNumber), event_message_format |-> U8(9), sensor_type |-> U8(10),
         sensor_number |-> U8(11), deassert |-> Flag(12, 7), event_type |-> Bits(12, 0, 7)] @@ EventFields(13))
EntryAllowed(d) == Zeros(d, {0, 1}) /\ EntryReply(d).accepts
RecordIdReply(d) == Reply(Len(d) = 2 /\ ~IsEnd(d, 0), [record_id |-> U16(0)])
DeleteEntryWritten == Request(<<0, 0, 0, 0>>, 0, [reservation |-> U16(0), record_id |-> U16(2)])
DeleteEntryAllowed(d) == ~IsEnd(d, 2)
GetEntryWritten == Request(<<0, 0, 0, 0, 0, 255>>, 0, [reservation_id |-> U16(0), record_id |-> U16(2)])

(* Erasing names the log, and starts (0xaa) or asks how far it is.         *)
ClearSelWritten(initiate) ==
    Request(<<0, 0, 67, 76, 82, IF initiate THEN 170 ELSE 0>>, 0, [reservation_id |-> U16(0)])
ClearSelReply(d) == Reply(Len(d) >= 1, [progress |-> Bits(0, 0, 4)])
ReserveReply(d) == Reply(Len(d) >= 2 /\ ~Zeros(d, {0, 1}), [reservation |-> U16(0)])
SelTimeWritten == Request(Blank(4), 0, [timestamp |-> U32(0)])
SelTimeReply(d) == Reply(Len(d) = 4, [timestamp |-> U32(0)])

-----------------------------------------------------------------------------
(* FRU commands.  A device counts in bytes or in words: so do offsets and  *)
(* the counts of its answers, and a request must be a whole number.        *)
FruInfoReply(d) == Reply(Len(d) = 3 /\ ~Zeros(d, {0, 1}), [size |-> U16(0), word |-> Flag(2, 0)])
FruReadReply(d) == Reply(Len(d) >= 2 /\ At(d, 0) # 0, [count |-> U8(0), data |-> Rest(d, 1)])
FruWriteReply(d) == Reply(Len(d) = 1, [count |-> U8(0)])
FruAllowed(size, unit, offset, len) ==
    len \in 1..255 /\ offset + len <= size /\ offset % unit = 0 /\ len % unit = 0
FruWritten(id, unit, offset, len) ==
    Request(<<id, (offset \div unit) % 256, (offset \div unit) \div 256>> \o Blank(len), 3, [data |-> Wide(3, len)])
(* What the read answers must fit the request that it answers.             *)
FruVerified(d, unit, count) ==
    /\ FruReadReply(d).accepts
    /\ At(d, 0) * unit = count /\ Len(d) - 1 = count

-----------------------------------------------------------------------------
(* The image: a header of eight bytes with where each area begins, in      *)
(* units of eight bytes, 0 for none; an area ends before the next begins.  *)
Sums(bytes) == FoldLeft(LAMBDA s, b : (s + b) % 256, 0, bytes) = 0
Start(d, i) == 8 * At(d, i)
Present(d) == {i \in 1..5 : At(d, i) # 0}
FruHeader(d) ==
    /\ Len(d) >= 8 /\ At(d, 0) = 1 /\ At(d, 6) = 0 /\ Sums(SubSeq(d, 1, 8))
    /\ \A i \in Present(d) : Start(d, i) < Len(d)
    /\ \A i, j \in Present(d) : i # j => Start(d, i) # Start(d, j)
Limit(d, i) == Min({Len(d)} \union {Start(d, j) : j \in {j \in Present(d) : Start(d, j) > Start(d, i)}})

Area(d, start, limit) ==
    /\ start + 2 <= Len(d)
    /\ LET size == 8 * At(d, start + 1) IN
       /\ At(d, start) = 1 /\ size >= 8 /\ start + size <= limit
       /\ Sums(SubSeq(d, start + 1, start + size))

(* The fields of an area from byte pos: <<where, how long>>, up to the     *)
(* mark that ends them (0xc1); NotFields when they run into the checksum   *)
(* or a text has a character that its language cannot have.                *)
NotFields == [ok |-> FALSE, list |-> <<>>, next |-> 0]
Latin == (32..126) \union (160..255)
AreaFields(a, start, latin) ==
    LET end == Len(a) - 1
        from[pos \in 0..end] ==
            IF pos = end THEN NotFields
            ELSE IF At(a, pos) = 193 THEN [ok |-> TRUE, list |-> <<>>, next |-> pos + 1]
            ELSE LET len == At(a, pos) % 64
                     unreadable == Part(At(a, pos), 6, 2) = 3 /\ latin
                                     /\ \E i \in (pos + 1)..(pos + len) : At(a, i) \notin Latin IN
                 IF pos + 1 + len > end \/ unreadable THEN NotFields
                 ELSE LET more == from[pos + 1 + len] IN
                      IF more.ok THEN [more EXCEPT !.list = <<[at |-> pos + 1, len |-> len]>> \o @] ELSE NotFields IN
    from[start]
(* Where the fields begin and how many there must be.                      *)
InfoStart(i) == IF i = 3 THEN 6 ELSE 3
InfoFields(i) == CASE i = 2 -> 2 [] i = 3 -> 5 [] i = 4 -> 7
Info(d, i) ==
    LET size == 8 * At(d, Start(d, i) + 1)
        a == SubSeq(d, Start(d, i) + 1, Start(d, i) + size)
        fields == AreaFields(a, InfoStart(i), i = 2 \/ At(a, 2) \in {0, 25}) IN
    IF fields.ok /\ Len(fields.list) >= InfoFields(i) /\ Zeros(a, fields.next..(size - 2)) THEN fields.list ELSE <<>>

(* Records of several kinds: 5 bytes of header, with the payload's length  *)
(* and checksum and a mark in the last.  <<where, how long>> of each       *)
(* payload, or none when one is malformed.                                 *)
PayloadFits(ty, length) == (ty \in {1, 2} => length = 13) /\ (ty = 3 => length >= 1)
MultiRecords(a) ==
    LET from[pos \in 0..Len(a)] ==
            IF pos + 5 > Len(a) THEN <<>>
            ELSE LET length == At(a, pos + 2)
                     next == pos + 5 + length IN
                 IF \/ At(a, pos + 1) % 128 # 2 \/ ~Sums(SubSeq(a, pos + 1, pos + 5)) \/ next > Len(a)
                    \/ ~Sums(<<At(a, pos + 3)>> \o SubSeq(a, pos + 6, next)) \/ ~PayloadFits(At(a, pos), length)
                 THEN <<>>
                 ELSE IF BitSet(At(a, pos + 1), 7) THEN <<[at |-> pos + 5, len |-> length]>>
                 ELSE LET more == from[next] IN IF more = <<>> THEN <<>> ELSE <<[at |-> pos + 5, len |-> length]>> \o more IN
    from[0]

Parts(d, i) == IF i = 5 THEN MultiRecords(SubSeq(d, Start(d, 5) + 1, Limit(d, 5))) ELSE Info(d, i)
Inventory(d) ==
    /\ FruHeader(d)
    /\ \A i \in Present(d) \ {1} : (i < 5 => Area(d, Start(d, i), Limit(d, i))) /\ Parts(d, i) # <<>>
(* Everything that is read of an image, by area and place.                 *)
InventoryReply(d) ==
    LET read == [x \in UNION {{i} \X DOMAIN Parts(d, i) : i \in Present(d) \ {1}} |->
                    LET p == Parts(d, x[1])[x[2]] IN Wide(Start(d, x[1]) + p.at, p.len)] IN
    Reply(Inventory(d), read)
=============================================================================
