------------------------------- MODULE Decode --------------------------------
(***************************************************************************)
(* What the session learns from the earbuds (internal/spp, wire.go and     *)
(* parse_dispatch.go): packets are cut out of the stream of bytes, and the *)
(* command of one chooses the parser of its payload.                       *)
(***************************************************************************)
EXTENDS Spp

-----------------------------------------------------------------------------
(* The stream.                                                             *)

Bytes == 0 .. 255

SOF == 85

Low(n) == n % 256
High(n) == n \div 256

\* With the flag for a checksum, which two bytes stand for: the session looks at
\* CRCValid of no packet.
MarshalBinary(pkt) ==
  <<SOF, 96, 1, Low(pkt.cmd), High(pkt.cmd), Low(Len(pkt.payload)), High(Len(pkt.payload)), 0>>
    \o pkt.payload \o <<0, 0>>

HasCRC(control) == (control \div 32) % 2 = 1

Waiting == [status |-> "waiting"]
Failed == [status |-> "failed"]

\* DecodePacket takes whatever readPacketFromSOF returns.
DecodePacket(raw, rest) ==
  [status |-> "packet", rest |-> rest,
   pkt |-> Packet(raw[4] + 256 * raw[5], SubSeq(raw, 9, 8 + raw[6] + 256 * raw[7]))]

readPacketFromSOF(s) ==
  LET length == s[6] + 256 * s[7]
      size == 8 + length + (IF HasCRC(s[2]) THEN 2 ELSE 0)
  IN CASE Len(s) < 8 -> Waiting
       [] Len(s) >= 8 /\ length > MaxPayload -> Failed
       [] Len(s) >= 8 /\ length <= MaxPayload /\ Len(s) < size -> Waiting
       [] OTHER -> DecodePacket(SubSeq(s, 1, size), SubSeq(s, size + 1, Len(s)))

ReadPacket(stream) ==
  LET starts == {i \in 1 .. Len(stream) : stream[i] = SOF}
      skipped == IF starts = {} THEN Len(stream) ELSE Min(starts) - 1
  IN CASE skipped > MaxNoise -> Failed
       [] skipped <= MaxNoise /\ starts = {} -> Waiting
       [] OTHER -> readPacketFromSOF(SubSeq(stream, skipped + 1, Len(stream)))

-----------------------------------------------------------------------------
(* What a packet tells: a value for the configuration, batteries, the state of *)
(* the earbuds, and the set of the one list of peers or of none.               *)

NoMap == <<>>

Told(kind) == [Kind |-> kind, Value |-> <<>>, Batteries |-> NoMap, Earbuds |-> NoMap, DualList |-> {}]

Value(kind, labels) == [Told(kind) EXCEPT !.Value = labels]

\* The summary of a payload that a parser does not know is taken for a value.
Unreadable == <<"unreadable">>

partNames == <<"watch", "left", "right", "case", "tws", "stereo">>

\* One name stands for those of the unknown parts.
PartName(id) == IF id \in 1 .. 6 THEN partNames[id] ELSE "id"

Battery(byte) == <<byte % 128, IF byte >= 128 THEN "charging" ELSE "idle">>

\* The later of two pairs for a part counts.
PairsMap(pairs) ==
  LET last(part) == Max({i \in DOMAIN pairs : PartName(pairs[i][1]) = part})
  IN [part \in {PartName(pairs[i][1]) : i \in DOMAIN pairs} |-> pairs[last(part)][2]]

Batteries(bytes) == [part \in DOMAIN bytes |-> Battery(bytes[part])]

\* The pairs of [count][id,value]*, in the set of the one sequence of them.
parseCountedPairs(p) ==
  IF p = <<>> \/ Len(p) < 1 + 2 * p[1] THEN {}
  ELSE {[i \in 1 .. p[1] |-> <<p[2 * i], p[2 * i + 1]>>]}

NormalizeBatteryForModel(data, model) ==
  IF model.BatteryCaseSource = "stereo" /\ "stereo" \in DOMAIN data /\ "case" \notin DOMAIN data
    THEN [p \in (DOMAIN data \ {"stereo"}) \cup {"case"} |->
            IF p = "case" THEN data["stereo"] ELSE data[p]]
    ELSE data

parseBatteryPacket(kind, p, model) ==
  IF parseCountedPairs(p) = {} THEN Told(kind)
  ELSE LET pairs == CHOOSE x \in parseCountedPairs(p) : TRUE
       IN [Told(kind) EXCEPT
             !.Batteries = NormalizeBatteryForModel(Batteries(PairsMap(pairs)), model)]

EarbudStatus(byte) ==
  [InEar |-> (byte \div 4) % 2 = 1, InCase |-> byte % 2 = 1, Connected |-> byte >= 128]

EarbudStatuses(bytes) == [part \in DOMAIN bytes |-> EarbudStatus(bytes[part])]

parseStatusPacketMutant(kind, p) ==
  IF parseCountedPairs(p) = {} THEN Told(kind)
  ELSE LET pairs == CHOOSE x \in parseCountedPairs(p) : TRUE
       IN [Told(kind) EXCEPT !.Earbuds = EarbudStatuses(PairsMap(pairs))]

parseStatusPacket(kind, p) ==
  IF parseCountedPairs(p) = {} THEN Told(kind)
  ELSE LET pairs == CHOOSE x \in parseCountedPairs(p) : TRUE
           bytes == PairsMap(pairs)
       IN [Told(kind) EXCEPT
             !.Earbuds = EarbudStatuses(Restrict(bytes, DOMAIN bytes \cap {"left", "right"}))]

\* Values that have no name in the code are one here.
ancModeLabel(v) ==
  CASE v \in {0, 5} -> "off" [] v = 1 -> "high" [] v = 2 -> "mid" [] v = 3 -> "low"
    [] v = 4 -> "adaptive" [] v \in {7, 254} -> "transparency" [] OTHER -> "other"

ancLevelLabel(v) == IF v \in 1 .. 4 THEN ancModeLabel(v) ELSE "other"

summarizeANCTriples(p) ==
  LET of(type) == {i \in 0 .. (Len(p) \div 3) - 1 : p[3 * i + 1] = type}
      last(type) == p[3 * Max(of(type)) + 2]
  IN <<IF of(1) = {} THEN "" ELSE ancModeLabel(last(1)),
       IF of(2) = {} THEN "" ELSE ancLevelLabel(last(2))>>

parseANCPacket(kind, p) ==
  Value(kind, IF Len(p) < 3 \/ Len(p) % 3 # 0 THEN Unreadable ELSE summarizeANCTriples(p))

eqPresetLabel(v) ==
  IF v \in 0 .. 4 THEN <<"balanced", "voice", "more_treble", "more_bass", "custom">>[v + 1] ELSE "other"

parseEQPacket(kind, p) == Value(kind, IF p = <<>> THEN Unreadable ELSE <<eqPresetLabel(p[1])>>)

OnOff(flag) == IF flag THEN "on" ELSE "off"

parseSpatialPacket(kind, p) ==
  Value(kind, IF Len(p) < 2 THEN Unreadable ELSE <<OnOff(p[1] # 0), OnOff(p[2] # 0)>>)

parseLagPacketMutant(kind, p) ==
  Value(kind, IF p = <<>> THEN Unreadable ELSE <<OnOff(p[1] # 2)>>)

\* A leading zero precedes the mode in an event.
parseLagPacket(kind, p) ==
  Value(kind, IF p = <<>> THEN Unreadable
              ELSE <<OnOff((IF Len(p) >= 2 /\ p[1] = 0 THEN p[2] ELSE p[1]) # 2)>>)

parseDualPacket(kind, p) == Value(kind, IF p = <<>> THEN Unreadable ELSE <<OnOff(p[1] = 1)>>)

parseMicFlag(kind, p) == IF p \in {<<0>>, <<1>>} THEN Value(kind, <<OnOff(p[1] = 1)>>) ELSE Told(kind)

SupportedFeatureDualList(p) == Len(p) > 1 /\ (p[2] \div 64) % 2 = 1

-----------------------------------------------------------------------------
(* The list of peers.  A record is a state, an address and perhaps a name, and *)
(* firmwares differ in how a name is put.                                      *)

cleanDualDeviceName(bytes) ==
  LET visible == {i \in 1 .. Len(bytes) : bytes[i] \notin {0, 32}}
  IN IF visible = {} THEN <<>> ELSE SubSeq(bytes, Min({i \in 1 .. Len(bytes) : bytes[i] # 32}), Max(visible))

\* Room for the n bytes of a name at off and for the records behind it.
NameFits(p, off, n, behind) == off + n <= Len(p) + 1 /\ Len(p) + 1 - (off + n) >= 7 * behind

\* A name and where the next record starts.
parseDualDeviceNameField(p, off, behind) ==
  LET long == IF off > Len(p) THEN 0 ELSE p[off] % 128
      cut(first, n) == [name |-> cleanDualDeviceName(SubSeq(p, first, first + n - 1)), next |-> first + n]
  IN CASE off <= Len(p) /\ long <= 31 /\ NameFits(p, off + 1, long, behind) -> cut(off + 1, long)
       [] off <= Len(p) /\ ~(long <= 31 /\ NameFits(p, off + 1, long, behind))
            /\ NameFits(p, off, 31, behind) -> cut(off, 31)
       [] OTHER -> [name |-> <<>>, next |-> off]

parseDualDeviceRecord(p, off, behind) ==
  LET field == parseDualDeviceNameField(p, off + 7, behind)
  IN [device |-> [MAC |-> SubSeq(p, off + 1, off + 6), Name |-> field.name,
                  Connected |-> p[off] % 16 # 0, Owner |-> p[off] >= 16],
      next |-> field.next]

\* Each record starts where the last one ended; a list that is cut off is refused.
parseDualDeviceRecords(p, count) ==
  LET more(l, behind) ==
        LET rec == parseDualDeviceRecord(p, l.next, behind)
        IN [devices |-> Append(l.devices, rec.device), next |-> rec.next]
      read[n \in 0 .. count] ==
        IF n = 0 THEN {[devices |-> <<>>, next |-> 1]}
        ELSE {more(l, count - n) : l \in {x \in read[n - 1] : x.next + 6 <= Len(p)}}
  IN {l.devices : l \in read[count]}

ParseDualDeviceListPayload(p) ==
  IF Len(p) < 3 THEN {} ELSE parseDualDeviceRecords(SubSeq(p, 4, Len(p)), p[3])

parseDualDeviceListPacket(kind, p) == [Told(kind) EXCEPT !.DualList = ParseDualDeviceListPayload(p)]

-----------------------------------------------------------------------------
(* The choice of the parser.                                               *)

ParserKey(cmd) == IF Kind(cmd) \in {14, 4} THEN cmd ELSE ResponseCmd(cmd)

\* The parsers whose result the session does not keep are "plain".
parserTable == {
  <<\h405E, "mic", "super_mic_response">>, <<\h4060, "mic", "walkie_talkie_response">>,
  <<\hE01A, "mic", "walkie_talkie_changed">>, <<\hE001, "battery", "battery_changed">>,
  <<\hE007, "battery", "battery_full">>, <<\hE005, "battery", "battery_buds">>,
  <<\hE002, "status", "status_changed">>, <<\hE003, "anc", "anc_changed">>,
  <<\hE006, "dual", "dual_switch_changed">>, <<\hE00E, "dual", "dual_connect_changed">>,
  <<\hE019, "lag", "lag_changed">>, <<\hE008, "plain", "identity_raw">>,
  <<\h4007, "battery", "battery_response">>, <<\h400A, "status", "status_response">>,
  <<\h4005, "plain", "identity_response">>, <<\h4006, "plain", "config_response">>,
  <<\h400D, "plain", "supported_features">>, <<\h4042, "plain", "firmware/version">>,
  <<\h4001, "plain", "protocol/version">>, <<\h401E, "anc", "anc_response">>,
  <<\h401F, "eq", "eq_response">>, <<\h4027, "dual", "dual_response">>,
  <<\h4028, "list", "dual_device_list">>, <<\h4041, "lag", "lag_response">>,
  <<\h404F, "spatial", "spatial_response">>}
    \cup {<<ack, "plain", "set_ack">> : ack \in {\h7040, \h700F, \h7010, \h7052, \h701A, \h701B}}

packetParsers ==
  [cmd \in {e[1] : e \in parserTable} |-> CHOOSE e \in parserTable : e[1] = cmd]

Parse(parser, kind, p, model) ==
  CASE parser = "mic" -> parseMicFlag(kind, p)
    [] parser = "battery" -> parseBatteryPacket(kind, p, model)
    [] parser = "status" -> parseStatusPacket(kind, p)
    [] parser = "anc" -> parseANCPacket(kind, p)
    [] parser = "eq" -> parseEQPacket(kind, p)
    [] parser = "lag" -> parseLagPacket(kind, p)
    [] parser = "dual" -> parseDualPacket(kind, p)
    [] parser = "spatial" -> parseSpatialPacket(kind, p)
    [] parser = "list" -> parseDualDeviceListPacket(kind, p)
    [] OTHER -> Told(kind)

\* Text of more than ASCII is left out.
isPrintable(p) == p # <<>> /\ \A i \in DOMAIN p : p[i] \in {9, 10, 13} \cup (32 .. 126)

\* A payload that looks like [id,value]* is taken for batteries.
ParsePairs(p) ==
  IF p = <<>> \/ Len(p) % 2 # 0 \/ \E i \in 1 .. Len(p) \div 2 : p[2 * i - 1] \notin 1 .. 6 THEN NoMap
  ELSE Batteries(PairsMap([i \in 1 .. Len(p) \div 2 |-> <<p[2 * i - 1], p[2 * i]>>]))

parseUnknownPacket(p, model) ==
  IF isPrintable(p) \/ ParsePairs(p) = NoMap THEN Told("unknown")
  ELSE [Told("unknown_battery_pairs") EXCEPT
          !.Batteries = NormalizeBatteryForModel(ParsePairs(p), model)]

ParserKeys(cmd) == <<ParserKey(cmd), cmd, ResponseCmd(cmd)>>

\* Which of its keys have a parser.
Parsers(cmd) == {i \in 1 .. 3 : ParserKeys(cmd)[i] \in DOMAIN packetParsers}

ParsePacket(pkt, model) ==
  IF Parsers(pkt.cmd) = {} THEN parseUnknownPacket(pkt.payload, model)
  ELSE LET e == packetParsers[ParserKeys(pkt.cmd)[Min(Parsers(pkt.cmd))]]
       IN Parse(e[2], e[3], pkt.payload, model)

=============================================================================
