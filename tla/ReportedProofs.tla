--------------------------- MODULE ReportedProofs ---------------------------
(* What TLAPS proves about Requests and Decode together: whatever the      *)
(* window shows of the earbuds was so with them since they are connected,  *)
(* and is so when nothing is under way; and each variable has its type.    *)
EXTENDS RequestsProofs, DecodeProofs

-----------------------------------------------------------------------------
(* What a packet tells, as facts that Facts has too.                       *)

ToldFacts(told) ==
  {<<f, told.Value>> : f \in IF told.Value = <<>> THEN {} ELSE configKeyForParsedKind(told.Kind)}
    \cup {<<p, told.Batteries[p]>> :
            p \in IF told.Kind = "unknown_battery_pairs" THEN {} ELSE DOMAIN told.Batteries}
    \cup {<<"ear", s, told.Earbuds[s]>> : s \in DOMAIN told.Earbuds}
    \cup {<<"peers", l>> : l \in told.DualList \ {<<>>}}

\* Whatever model the session takes the earbuds for, it learns only facts.
Truthful(pkt, facts) == \A model : ToldFacts(ParsePacket(pkt, model)) \subseteq facts

\* The two names of the case are one topic.
NameOf(part) == IF part = "stereo" THEN "case" ELSE part

\* Of which topics it replaces what was shown.
Renews(told, topic) ==
  \/ topic \in configKeyForParsedKind(told.Kind)
  \/ topic = "peers" /\ told.DualList # {}
  \/ told.Kind # "unknown_battery_pairs" /\ \E p \in DOMAIN told.Batteries : NameOf(p) = topic

Renewing(pkt, topic) == \A model : Renews(ParsePacket(pkt, model), topic)

\* For a model whose case has the plain name, it tells nothing of a case.
PlainCase(pkt) ==
  \A model : model.BatteryCaseSource # "stereo" => \A fact \in ToldFacts(ParsePacket(pkt, model)) : fact[1] # "case"

Keeps(told, kind, value, batteries, earbuds, list) ==
  told = [Kind |-> kind, Value |-> value, Batteries |-> batteries, Earbuds |-> earbuds, DualList |-> list]

LEMMA Replaced ==
  ASSUME NEW told, NEW kind, NEW v, NEW b, NEW e, NEW l, Keeps(told, kind, v, b, e, l), NEW x
  PROVE  /\ Keeps([told EXCEPT !.Value = x], kind, x, b, e, l)
         /\ Keeps([told EXCEPT !.Batteries = x], kind, v, x, e, l)
         /\ Keeps([told EXCEPT !.Earbuds = x], kind, v, b, x, l)
         /\ Keeps([told EXCEPT !.DualList = x], kind, v, b, e, x)
<1>0. told = [Kind |-> kind, Value |-> v, Batteries |-> b, Earbuds |-> e, DualList |-> l]
  BY DEF Keeps
<1>1. [told EXCEPT !.Value = x]
        = [Kind |-> kind, Value |-> x, Batteries |-> b, Earbuds |-> e, DualList |-> l]
  BY <1>0
<1>2. [told EXCEPT !.Batteries = x]
        = [Kind |-> kind, Value |-> v, Batteries |-> x, Earbuds |-> e, DualList |-> l]
  BY <1>0
<1>3. [told EXCEPT !.Earbuds = x]
        = [Kind |-> kind, Value |-> v, Batteries |-> b, Earbuds |-> x, DualList |-> l]
  BY <1>0
<1>4. [told EXCEPT !.DualList = x]
        = [Kind |-> kind, Value |-> v, Batteries |-> b, Earbuds |-> e, DualList |-> x]
  BY <1>0
<1> QED
  BY <1>1, <1>2, <1>3, <1>4, Zenon DEF Keeps

LEMMA ToldAre ==
  ASSUME NEW kind
  PROVE  /\ Keeps(Told(kind), kind, <<>>, NoMap, NoMap, {})
         /\ \A v : Keeps(Value(kind, v), kind, v, NoMap, NoMap, {})
         /\ \A m : Keeps([Told(kind) EXCEPT !.Batteries = m], kind, <<>>, m, NoMap, {})
         /\ \A m : Keeps([Told(kind) EXCEPT !.Earbuds = m], kind, <<>>, NoMap, m, {})
         /\ \A l : Keeps([Told(kind) EXCEPT !.DualList = l], kind, <<>>, NoMap, NoMap, l)
<1>1. Keeps(Told(kind), kind, <<>>, NoMap, NoMap, {})
  BY Zenon DEF Keeps, Told
<1> QED
  BY <1>1, Replaced, Zenon DEF Value

LEMMA KeepsFacts ==
  ASSUME NEW told, NEW kind, NEW value, NEW batteries, NEW earbuds, NEW list,
         Keeps(told, kind, value, batteries, earbuds, list), NEW facts,
         value # <<>> => \A f \in configKeyForParsedKind(kind) : <<f, value>> \in facts,
         kind # "unknown_battery_pairs" => \A p \in DOMAIN batteries : <<p, batteries[p]>> \in facts,
         \A s \in DOMAIN earbuds : <<"ear", s, earbuds[s]>> \in facts,
         \A l \in list : l # <<>> => <<"peers", l>> \in facts
  PROVE  ToldFacts(told) \subseteq facts
<1>1. /\ told.Kind = kind /\ told.Value = value /\ told.Batteries = batteries
      /\ told.Earbuds = earbuds /\ told.DualList = list
  BY DEF Keeps
<1>2. \A f \in IF value = <<>> THEN {} ELSE configKeyForParsedKind(kind) : <<f, value>> \in facts
  OBVIOUS
<1>3. \A p \in IF kind = "unknown_battery_pairs" THEN {} ELSE DOMAIN batteries :
        <<p, batteries[p]>> \in facts
  OBVIOUS
<1>4. \A l \in list \ {<<>>} : <<"peers", l>> \in facts
  OBVIOUS
<1> QED
  BY <1>1, <1>2, <1>3, <1>4, Zenon DEF ToldFacts

LEMMA KeepsRenews ==
  ASSUME NEW told, NEW kind, NEW value, NEW batteries, NEW earbuds, NEW list,
         Keeps(told, kind, value, batteries, earbuds, list)
  PROVE  /\ \A f \in configKeyForParsedKind(kind) : Renews(told, f)
         /\ list # {} => Renews(told, "peers")
         /\ kind # "unknown_battery_pairs" =>
              \A topic : (\E p \in DOMAIN batteries : NameOf(p) = topic) => Renews(told, topic)
<1>1. told.Kind = kind /\ told.Batteries = batteries /\ told.DualList = list
  BY DEF Keeps
<1> QED
  BY <1>1, Zenon DEF Renews

LEMMA NothingInNone == DOMAIN NoMap = {}
BY DEF NoMap

LEMMA TellsNothing ==
  ASSUME NEW kind, NEW facts
  PROVE  ToldFacts(Told(kind)) \subseteq facts
<1>1. Keeps(Told(kind), kind, <<>>, NoMap, NoMap, {})
  BY ToldAre
<1> QED
  BY <1>1, KeepsFacts, NothingInNone, Zenon

LEMMA TellsValue ==
  ASSUME NEW kind, NEW v, NEW facts, \A f \in configKeyForParsedKind(kind) : <<f, v>> \in facts
  PROVE  ToldFacts(Value(kind, v)) \subseteq facts
<1>1. Keeps(Value(kind, v), kind, v, NoMap, NoMap, {})
  BY ToldAre, Zenon
<1> QED
  BY <1>1, KeepsFacts, NothingInNone, Zenon

LEMMA TellsBatteries ==
  ASSUME NEW kind, NEW m, NEW facts,
         kind # "unknown_battery_pairs" => \A p \in DOMAIN m : <<p, m[p]>> \in facts
  PROVE  ToldFacts([Told(kind) EXCEPT !.Batteries = m]) \subseteq facts
<1> DEFINE told == [Told(kind) EXCEPT !.Batteries = m]
<1>1. Keeps(told, kind, <<>>, m, NoMap, {})
  BY ToldAre, Zenon
<1> HIDE DEF told
<1>2. ToldFacts(told) \subseteq facts
  BY <1>1, KeepsFacts, NothingInNone
<1> QED
  BY <1>2 DEF told

LEMMA TellsEarbuds ==
  ASSUME NEW kind, NEW m, NEW facts, \A s \in DOMAIN m : <<"ear", s, m[s]>> \in facts
  PROVE  ToldFacts([Told(kind) EXCEPT !.Earbuds = m]) \subseteq facts
<1>1. Keeps([Told(kind) EXCEPT !.Earbuds = m], kind, <<>>, NoMap, m, {})
  BY ToldAre, Zenon
<1> QED
  BY <1>1, KeepsFacts, NothingInNone, Zenon

LEMMA TellsList ==
  ASSUME NEW kind, NEW l, NEW facts, l # <<>> => <<"peers", l>> \in facts
  PROVE  ToldFacts([Told(kind) EXCEPT !.DualList = {l}]) \subseteq facts
<1> DEFINE told == [Told(kind) EXCEPT !.DualList = {l}]
<1>1. Keeps(told, kind, <<>>, NoMap, NoMap, {l})
  BY ToldAre, Zenon
<1>2. \A x \in {l} : x # <<>> => <<"peers", x>> \in facts
  OBVIOUS
<1> HIDE DEF told
<1>3. ToldFacts(told) \subseteq facts
  BY <1>1, <1>2, KeepsFacts, NothingInNone
<1> QED
  BY <1>3 DEF told

\* What the case is called depends on the model; it is its battery all the same.
LEMMA NormalizedFacts ==
  ASSUME NEW b, NEW data, DOMAIN data \subseteq DOMAIN b.battery,
         \A part \in DOMAIN data : data[part] = b.battery[part], NEW model,
         NEW m, m = NormalizeBatteryForModel(data, model)
  PROVE  \A part \in DOMAIN m : <<part, m[part]>> \in BatteryFacts(b)
<1>1. \A part \in DOMAIN b.battery : <<part, b.battery[part]>> \in BatteryFacts(b)
  BY Zenon DEF BatteryFacts
<1>2. "stereo" \in DOMAIN b.battery => <<"case", b.battery["stereo"]>> \in BatteryFacts(b)
  BY DEF BatteryFacts
<1>3. CASE m = data
  BY <1>1, <1>3
<1>4. CASE m # data
  <2> DEFINE D == (DOMAIN data \ {"stereo"}) \cup {"case"}
  <2>1. /\ "stereo" \in DOMAIN data
        /\ m = [part \in D |-> IF part = "case" THEN data["stereo"] ELSE data[part]]
    BY <1>4, Zenon DEF NormalizeBatteryForModel
  <2>2. DOMAIN m = D /\ m["case"] = data["stereo"] /\ \A part \in D : part # "case" => m[part] = data[part]
    BY <2>1
  <2>3. \A part \in D : part # "case" => part \in DOMAIN data
    OBVIOUS
  <2> HIDE DEF D
  <2> QED
    BY <1>1, <1>2, <2>1, <2>2, <2>3
<1> QED
  BY <1>3, <1>4

LEMMA NormalizedNames ==
  ASSUME NEW data, NEW model, NEW m, m = NormalizeBatteryForModel(data, model)
  PROVE  /\ \A part \in DOMAIN data : \E q \in DOMAIN m : NameOf(q) = NameOf(part)
         /\ model.BatteryCaseSource # "stereo" => m = data
         /\ model.BatteryCaseSource = "stereo" /\ "stereo" \in DOMAIN m => "case" \in DOMAIN m
         /\ DOMAIN m \subseteq DOMAIN data \cup {"case"}
<1> DEFINE D == (DOMAIN data \ {"stereo"}) \cup {"case"}
<1>1. CASE model.BatteryCaseSource = "stereo" /\ "stereo" \in DOMAIN data /\ "case" \notin DOMAIN data
  <2>1. DOMAIN m = D
    BY <1>1, Zenon DEF NormalizeBatteryForModel
  <2>2. NameOf("case") = "case" /\ NameOf("stereo") = "case"
    BY DEF NameOf
  <2>3. \A part \in DOMAIN data : \E q \in D : NameOf(q) = NameOf(part)
    BY <2>2
  <2>4. "stereo" \notin D /\ "case" \in D /\ D \subseteq DOMAIN data \cup {"case"}
    OBVIOUS
  <2> HIDE DEF D
  <2> QED
    BY <1>1, <2>1, <2>3, <2>4
<1>2. CASE ~(model.BatteryCaseSource = "stereo" /\ "stereo" \in DOMAIN data /\ "case" \notin DOMAIN data)
  <2>1. m = data
    BY <1>2, Zenon DEF NormalizeBatteryForModel
  <2> QED
    BY <1>2, <2>1
<1> QED
  BY <1>1, <1>2

-----------------------------------------------------------------------------
(* Who reads a packet.                                                     *)

ReadBy(c, parser, kind) ==
  c \in DOMAIN packetParsers /\ packetParsers[c][2] = parser /\ packetParsers[c][3] = kind

LEMMA Lookup ==
  ASSUME NEW c, NEW parser, NEW kind, <<c, parser, kind>> \in parserTable,
         \A e \in parserTable : e[1] = c => e[2] = parser /\ e[3] = kind
  PROVE  ReadBy(c, parser, kind)
<1>1. c \in {e[1] : e \in parserTable}
  <2>1. <<c, parser, kind>>[1] = c
    OBVIOUS
  <2> QED
    BY <2>1
<1>2. packetParsers[c] = CHOOSE e \in parserTable : e[1] = c
  BY <1>1, Zenon DEF packetParsers
<1>3. packetParsers[c] \in parserTable /\ packetParsers[c][1] = c
  BY <1>1, <1>2, Zenon
<1>4. DOMAIN packetParsers = {e[1] : e \in parserTable}
  BY Zenon DEF packetParsers
<1> QED
  BY <1>1, <1>3, <1>4, Zenon DEF ReadBy

LEMMA AnswersRead ==
  /\ ReadBy(\h401E, "anc", "anc_response") /\ ReadBy(\h401F, "eq", "eq_response")
  /\ ReadBy(\h404F, "spatial", "spatial_response") /\ ReadBy(\h4041, "lag", "lag_response")
  /\ ReadBy(\h4027, "dual", "dual_response") /\ ReadBy(\h405E, "mic", "super_mic_response")
  /\ ReadBy(\h4060, "mic", "walkie_talkie_response")
<1>1. ReadBy(\h401E, "anc", "anc_response")
  BY Lookup, SMT DEF parserTable
<1>2. ReadBy(\h401F, "eq", "eq_response")
  BY Lookup, SMT DEF parserTable
<1>3. ReadBy(\h404F, "spatial", "spatial_response")
  BY Lookup, SMT DEF parserTable
<1>4. ReadBy(\h4041, "lag", "lag_response")
  BY Lookup, SMT DEF parserTable
<1>5. ReadBy(\h4027, "dual", "dual_response")
  BY Lookup, SMT DEF parserTable
<1>6. ReadBy(\h405E, "mic", "super_mic_response")
  BY Lookup, SMT DEF parserTable
<1>7. ReadBy(\h4060, "mic", "walkie_talkie_response")
  BY Lookup, SMT DEF parserTable
<1> QED
  BY <1>1, <1>2, <1>3, <1>4, <1>5, <1>6, <1>7

LEMMA OthersRead ==
  /\ ReadBy(\h4007, "battery", "battery_response") /\ ReadBy(\h400A, "status", "status_response")
  /\ ReadBy(\h4028, "list", "dual_device_list")
  /\ ReadBy(\hE001, "battery", "battery_changed") /\ ReadBy(\hE003, "anc", "anc_changed")
  /\ ReadBy(\hE006, "dual", "dual_switch_changed") /\ ReadBy(\hE00E, "dual", "dual_connect_changed")
  /\ ReadBy(\hE019, "lag", "lag_changed") /\ ReadBy(\hE01A, "mic", "walkie_talkie_changed")
<1>1. ReadBy(\h4007, "battery", "battery_response")
  BY Lookup, SMT DEF parserTable
<1>2. ReadBy(\h400A, "status", "status_response")
  BY Lookup, SMT DEF parserTable
<1>3. ReadBy(\h4028, "list", "dual_device_list")
  BY Lookup, SMT DEF parserTable
<1>4. ReadBy(\hE001, "battery", "battery_changed")
  BY Lookup, SMT DEF parserTable
<1>5. ReadBy(\hE003, "anc", "anc_changed")
  BY Lookup, SMT DEF parserTable
<1>6. ReadBy(\hE006, "dual", "dual_switch_changed")
  BY Lookup, SMT DEF parserTable
<1>7. ReadBy(\hE00E, "dual", "dual_connect_changed")
  BY Lookup, SMT DEF parserTable
<1>8. ReadBy(\hE019, "lag", "lag_changed")
  BY Lookup, SMT DEF parserTable
<1>9. ReadBy(\hE01A, "mic", "walkie_talkie_changed")
  BY Lookup, SMT DEF parserTable
<1> QED
  BY <1>1, <1>2, <1>3, <1>4, <1>5, <1>6, <1>7, <1>8, <1>9

\* The command of an event, and of an answer to a query, is its first key.
LEMMA OwnKey ==
  \A cmd \in (\h4000 .. \h4FFF) \cup (\h7000 .. \h7FFF) \cup (\hE000 .. \hEFFF) : ParserKey(cmd) = cmd
BY DEF ParserKey, Kind, ResponseCmd

LEMMA ReadByFirst ==
  ASSUME NEW cmd, ParserKey(cmd) = cmd, NEW parser, NEW kind, ReadBy(cmd, parser, kind),
         NEW p, NEW model
  PROVE  ParsePacket(Packet(cmd, p), model) = Parse(parser, kind, p, model)
<1>1. ParserKeys(cmd)[1] = cmd
  BY DEF ParserKeys
<1>2. 1 \in Parsers(cmd) /\ Parsers(cmd) \in SUBSET Nat /\ \A i \in Parsers(cmd) : 1 <= i
  BY <1>1 DEF Parsers, ReadBy
<1>3. Min(Parsers(cmd)) = 1 /\ Parsers(cmd) # {}
  BY <1>2, MinOf
<1>4. Packet(cmd, p).cmd = cmd /\ Packet(cmd, p).payload = p
  BY DEF Packet
<1> QED
  BY <1>1, <1>3, <1>4, Zenon DEF ParsePacket, ReadBy

\* A packet of no known command tells at most batteries, and those are excepted.
LEMMA UnknownTellsNothing ==
  ASSUME NEW cmd, Parsers(cmd) = {}, NEW p, NEW facts
  PROVE  Truthful(Packet(cmd, p), facts)
<1> SUFFICES ASSUME NEW model
             PROVE  ToldFacts(ParsePacket(Packet(cmd, p), model)) \subseteq facts
  BY Zenon DEF Truthful
<1>1. Packet(cmd, p).cmd = cmd /\ Packet(cmd, p).payload = p
  BY DEF Packet
<1>2. ParsePacket(Packet(cmd, p), model) = parseUnknownPacket(p, model)
  BY <1>1, Zenon DEF ParsePacket
<1>3. ToldFacts(Told("unknown")) \subseteq facts
  BY TellsNothing
<1>4. \A m : ToldFacts([Told("unknown_battery_pairs") EXCEPT !.Batteries = m]) \subseteq facts
  BY TellsBatteries
<1> QED
  BY <1>2, <1>3, <1>4, Zenon DEF parseUnknownPacket

LEMMA PlainTellsNothing ==
  ASSUME NEW cmd, ParserKey(cmd) = cmd, NEW kind, ReadBy(cmd, "plain", kind), NEW p, NEW facts
  PROVE  Truthful(Packet(cmd, p), facts)
<1>1. \A model : ParsePacket(Packet(cmd, p), model) = Parse("plain", kind, p, model)
  BY ReadByFirst
<1>2. \A model : Parse("plain", kind, p, model) = Told(kind)
  BY Zenon DEF Parse
<1>3. ToldFacts(Told(kind)) \subseteq facts
  BY TellsNothing
<1> QED
  BY <1>1, <1>2, <1>3, Zenon DEF Truthful

\* What answers a SET tells nothing, nor does what answers a query that no parser of
\* values reads.
ValueAnswers == {\h401E, \h401F, \h404F, \h4041, \h4027, \h405E, \h4060, \h4007, \h400A, \h4028}

LEMMA ValuesRead ==
  \A e \in parserTable : e[1] < 32768 => e[1] \in ValueAnswers \/ e[2] = "plain"
BY SMT DEF parserTable, ValueAnswers

Acks == (\h4000 .. \h4FFF) \cup (\h7000 .. \h7FFF)

LEMMA AckKeys ==
  \A cmd \in Acks :
    /\ ParserKey(cmd) = cmd /\ ResponseCmd(cmd) = cmd
    /\ cmd \in ValueAnswers \/ \A e \in parserTable : e[1] = cmd => e[2] = "plain"
<1>1. \A cmd \in Acks : ParserKey(cmd) = cmd
  BY DEF Acks, ParserKey, Kind, ResponseCmd
<1>2. \A cmd \in Acks : ResponseCmd(cmd) = cmd
  BY DEF Acks, ResponseCmd
<1>3. \A cmd \in Acks : cmd < 32768
  BY DEF Acks
<1>4. \A cmd \in Acks : cmd \in ValueAnswers \/ \A e \in parserTable : e[1] = cmd => e[2] = "plain"
  BY <1>3, ValuesRead
<1> QED
  BY <1>1, <1>2, <1>4

LEMMA AcksTellNothing ==
  ASSUME NEW cmd, ParserKey(cmd) = cmd, ResponseCmd(cmd) = cmd,
         \A e \in parserTable : e[1] = cmd => e[2] = "plain",
         NEW p, NEW facts
  PROVE  Truthful(Packet(cmd, p), facts)
<1>1. DOMAIN packetParsers = {e[1] : e \in parserTable}
  BY Zenon DEF packetParsers
<1>2. CASE cmd \in DOMAIN packetParsers
  <2>1. \E e \in parserTable : e[1] = cmd
    BY <1>1, <1>2, Zenon
  <2>3. packetParsers[cmd] = CHOOSE e \in parserTable : e[1] = cmd
    BY <1>1, <1>2, Zenon DEF packetParsers
  <2>4. packetParsers[cmd][2] = "plain"
    BY <2>1, <2>3, Zenon
  <2>5. ReadBy(cmd, "plain", packetParsers[cmd][3])
    BY <1>2, <2>4, Zenon DEF ReadBy
  <2> QED
    BY <2>5, PlainTellsNothing, Zenon
<1>3. CASE cmd \notin DOMAIN packetParsers
  <2>1. ParserKeys(cmd)[1] = cmd /\ ParserKeys(cmd)[2] = cmd /\ ParserKeys(cmd)[3] = cmd
    BY Zenon DEF ParserKeys
  <2>2. 1 .. 3 = {1, 2, 3}
    BY SMT
  <2>3. Parsers(cmd) = {}
    BY <1>3, <2>1, <2>2, Zenon DEF Parsers
  <2> QED
    BY <2>3, UnknownTellsNothing, Zenon
<1> QED
  BY <1>2, <1>3, Zenon

-----------------------------------------------------------------------------
(* The answers and the events of the earbuds are truthful.                 *)

AnswerKind(f) ==
  CASE f = "anc" -> "anc_response" [] f = "eq" -> "eq_response" [] f = "spatial" -> "spatial_response"
    [] f = "lag" -> "lag_response" [] f = "dual" -> "dual_response"
    [] f = "super-mic" -> "super_mic_response" [] OTHER -> "walkie_talkie_response"

EventKind(f) ==
  CASE f = "anc" -> "anc_changed" [] f = "lag" -> "lag_changed" [] f = "dual" -> "dual_switch_changed"
    [] OTHER -> "walkie_talkie_changed"

LEMMA KindsAre ==
  /\ \A f \in Features : configKeyForParsedKind(AnswerKind(f)) = {f}
  /\ \A f \in {"anc", "lag", "dual", "walkie-talkie"} : configKeyForParsedKind(EventKind(f)) = {f}
  /\ configKeyForParsedKind("dual_connect_changed") = {}
<1>1. ASSUME NEW f \in Features PROVE configKeyForParsedKind(AnswerKind(f)) = {f}
  <2>1. f \in {"anc", "eq", "spatial", "lag", "dual", "super-mic", "walkie-talkie"}
    BY FeaturesAre
  <2> QED
    BY <2>1, SMT DEF configKeyForParsedKind, AnswerKind
<1>2. ASSUME NEW f \in {"anc", "lag", "dual", "walkie-talkie"}
      PROVE  configKeyForParsedKind(EventKind(f)) = {f}
  BY SMT DEF configKeyForParsedKind, EventKind
<1>3. configKeyForParsedKind("dual_connect_changed") = {}
  BY Zenon DEF configKeyForParsedKind
<1> QED
  BY <1>1, <1>2, <1>3

GetOf(f) == featureCommands[f].get.cmd

LEMMA CommandsAre ==
  /\ featureCommands["anc"] = FeatureCommand(\hC01E, <<3>>, \hF00F)
  /\ featureCommands["eq"] = FeatureCommand(\hC01F, <<>>, \hF010)
  /\ featureCommands["spatial"] = FeatureCommand(\hC04F, <<>>, \hF052)
  /\ featureCommands["lag"] = FeatureCommand(\hC041, <<>>, \hF040)
  /\ featureCommands["dual"] = FeatureCommand(\hC027, <<>>, \hF01A)
  /\ featureCommands["super-mic"] = FeatureCommand(\hC05E, <<>>, \hF05F)
  /\ featureCommands["walkie-talkie"] = FeatureCommand(\hC060, <<>>, \hF061)
<1>1. featureCommands["anc"] = FeatureCommand(\hC01E, <<3>>, \hF00F)
  BY DEF featureCommands, micFeatures
<1>2. featureCommands["eq"] = FeatureCommand(\hC01F, <<>>, \hF010)
  BY DEF featureCommands, micFeatures
<1>3. featureCommands["spatial"] = FeatureCommand(\hC04F, <<>>, \hF052)
  BY DEF featureCommands, micFeatures
<1>4. featureCommands["lag"] = FeatureCommand(\hC041, <<>>, \hF040)
  BY DEF featureCommands, micFeatures
<1>5. featureCommands["dual"] = FeatureCommand(\hC027, <<>>, \hF01A)
  BY DEF featureCommands, micFeatures
<1>6. featureCommands["super-mic"] = FeatureCommand(\hC05E, <<>>, \hF05F)
  BY DEF featureCommands, micFeatures
<1>7. featureCommands["walkie-talkie"] = FeatureCommand(\hC060, <<>>, \hF061)
  BY DEF featureCommands, micFeatures
<1> QED
  BY <1>1, <1>2, <1>3, <1>4, <1>5, <1>6, <1>7

LEMMA GetsAre ==
  /\ GetOf("anc") = \hC01E /\ GetOf("eq") = \hC01F /\ GetOf("spatial") = \hC04F /\ GetOf("lag") = \hC041
  /\ GetOf("dual") = \hC027 /\ GetOf("super-mic") = \hC05E /\ GetOf("walkie-talkie") = \hC060
<1>1. \A c, p, set : FeatureCommand(c, p, set).get.cmd = c
  BY DEF FeatureCommand, Packet
<1> QED
  BY <1>1, CommandsAre DEF GetOf

LEMMA AnswerOf ==
  \A f \in Features :
    /\ GetOf(f) \in \hC000 .. \hCFFF
    /\ ReadBy(ResponseCmd(GetOf(f)), ParserOf(f), AnswerKind(f))
    /\ \A x \in Features : GetOf(x) = GetOf(f) => x = f
<1> SUFFICES ASSUME NEW f \in Features
             PROVE  /\ GetOf(f) \in \hC000 .. \hCFFF
                    /\ ReadBy(ResponseCmd(GetOf(f)), ParserOf(f), AnswerKind(f))
                    /\ \A x \in Features : GetOf(x) = GetOf(f) => x = f
  OBVIOUS
<1>1. f \in {"anc", "eq", "spatial", "lag", "dual", "super-mic", "walkie-talkie"}
  BY FeaturesAre
<1>2. GetOf(f) \in \hC000 .. \hCFFF
  BY <1>1, GetsAre
<1>3. \A x \in Features : GetOf(x) = GetOf(f) => x = f
  BY <1>1, GetsAre, FeaturesAre
<1>4. /\ ResponseCmd(\hC01E) = \h401E /\ ResponseCmd(\hC01F) = \h401F /\ ResponseCmd(\hC04F) = \h404F
      /\ ResponseCmd(\hC041) = \h4041 /\ ResponseCmd(\hC027) = \h4027 /\ ResponseCmd(\hC05E) = \h405E
      /\ ResponseCmd(\hC060) = \h4060
  BY DEF ResponseCmd
<1>5. /\ ParserOf("anc") = "anc" /\ ParserOf("eq") = "eq" /\ ParserOf("spatial") = "spatial"
      /\ ParserOf("lag") = "lag" /\ ParserOf("dual") = "dual" /\ ParserOf("super-mic") = "mic"
      /\ ParserOf("walkie-talkie") = "mic"
  BY DEF ParserOf, micFeatures
<1>6. /\ AnswerKind("anc") = "anc_response" /\ AnswerKind("eq") = "eq_response"
      /\ AnswerKind("spatial") = "spatial_response" /\ AnswerKind("lag") = "lag_response"
      /\ AnswerKind("dual") = "dual_response" /\ AnswerKind("super-mic") = "super_mic_response"
      /\ AnswerKind("walkie-talkie") = "walkie_talkie_response"
  BY DEF AnswerKind
<1>7. ReadBy(ResponseCmd(GetOf(f)), ParserOf(f), AnswerKind(f))
  <2>1. CASE f = "anc"
    BY <2>1, <1>4, <1>5, <1>6, GetsAre, AnswersRead
  <2>2. CASE f = "eq"
    BY <2>2, <1>4, <1>5, <1>6, GetsAre, AnswersRead
  <2>3. CASE f = "spatial"
    BY <2>3, <1>4, <1>5, <1>6, GetsAre, AnswersRead
  <2>4. CASE f = "lag"
    BY <2>4, <1>4, <1>5, <1>6, GetsAre, AnswersRead
  <2>5. CASE f = "dual"
    BY <2>5, <1>4, <1>5, <1>6, GetsAre, AnswersRead
  <2>6. CASE f = "super-mic"
    BY <2>6, <1>4, <1>5, <1>6, GetsAre, AnswersRead
  <2>7. CASE f = "walkie-talkie"
    BY <2>7, <1>4, <1>5, <1>6, GetsAre, AnswersRead
  <2> QED
    BY <1>1, <2>1, <2>2, <2>3, <2>4, <2>5, <2>6, <2>7
<1> QED
  BY <1>2, <1>3, <1>7

\* A value that is put into an answer or an event is what is told.
LEMMA ValueIsTruthful ==
  ASSUME NEW cmd, ParserKey(cmd) = cmd, NEW f, NEW kind, ReadBy(cmd, ParserOf(f), kind),
         NEW p, NEW v, Tells(p, f, v), NEW facts,
         \A x \in configKeyForParsedKind(kind) : <<x, v>> \in facts
  PROVE  /\ Truthful(Packet(cmd, p), facts)
         /\ \A x \in configKeyForParsedKind(kind) : Renewing(Packet(cmd, p), x)
<1>1. \A model : ParsePacket(Packet(cmd, p), model) = Parse(ParserOf(f), kind, p, model)
  BY ReadByFirst
<1>2. \A model : Parse(ParserOf(f), kind, p, model) = Value(kind, v)
  BY Zenon DEF Tells
<1>3. ToldFacts(Value(kind, v)) \subseteq facts
  BY TellsValue
<1>4. Keeps(Value(kind, v), kind, v, NoMap, NoMap, {})
  BY ToldAre, Zenon
<1>5. \A x \in configKeyForParsedKind(kind) : Renews(Value(kind, v), x)
  BY <1>4, KeepsRenews
<1>6. Truthful(Packet(cmd, p), facts)
  BY <1>1, <1>2, <1>3, Zenon DEF Truthful
<1>7. \A x \in configKeyForParsedKind(kind) : Renewing(Packet(cmd, p), x)
  BY <1>1, <1>2, <1>5, Zenon DEF Renewing
<1> QED
  BY <1>6, <1>7

Says(cmd, p, facts) == cmd \in Nat /\ p \in Seq(Nat) /\ Truthful(Packet(cmd, p), facts)

LEMMA QueryAnswers ==
  \A cmd : IsQuery(cmd) => cmd \in Nat /\ ResponseCmd(cmd) \in Acks /\ Kind(cmd) # 15
BY DEF IsQuery, ResponseCmd, Acks, Kind

LEMMA AcksAreNumbers == Acks \subseteq Nat
BY DEF Acks

LEMMA ValueQueries ==
  \A cmd : IsQuery(cmd) /\ ResponseCmd(cmd) \in ValueAnswers =>
    \/ cmd \in {GetOf("anc"), GetOf("eq"), GetOf("spatial"), GetOf("lag"), GetOf("dual"),
                GetOf("super-mic"), GetOf("walkie-talkie")}
    \/ cmd \in {\hC007, \hC00A, \hC028}
<1>1. \A cmd : IsQuery(cmd) => ResponseCmd(cmd) = cmd - 32768 /\ cmd \in Nat
  BY DEF IsQuery, ResponseCmd
<1>2. \A cmd : IsQuery(cmd) /\ ResponseCmd(cmd) \in ValueAnswers =>
        cmd \in {\hC01E, \hC01F, \hC04F, \hC041, \hC027, \hC05E, \hC060, \hC007, \hC00A, \hC028}
  BY <1>1 DEF ValueAnswers
<1> QED
  BY <1>2, GetsAre

SetCmds == \hF000 .. \hFFFF

LEMMA SetAcks ==
  \A cmd \in SafeSets \cup OtherSets :
    cmd \in Nat /\ ResponseCmd(cmd) \in Acks /\ ResponseCmd(cmd) \notin ValueAnswers
<1>1. SafeSets \cup OtherSets \subseteq SetCmds
  BY DEF SafeSets, OtherSets, SetCmds
<1>2. \A cmd \in SetCmds : cmd \in Nat /\ ResponseCmd(cmd) \in Nat
  BY DEF ResponseCmd, SetCmds
<1>3. \A cmd \in SetCmds : ResponseCmd(cmd) >= \h7000 /\ ResponseCmd(cmd) <= \h7FFF
  BY DEF ResponseCmd, SetCmds
<1>4. \A cmd \in Nat : cmd >= \h7000 => cmd \notin ValueAnswers
  BY DEF ValueAnswers
<1>5. \A cmd \in Nat : cmd >= \h7000 /\ cmd <= \h7FFF => cmd \in Acks
  BY DEF Acks
<1>6. \A cmd \in SetCmds : ResponseCmd(cmd) \in Acks /\ ResponseCmd(cmd) \notin ValueAnswers
  BY <1>2, <1>3, <1>4, <1>5
<1> QED
  BY <1>1, <1>2, <1>6, Zenon

\* The answer to a SET, and any answer that no parser of values reads.
LEMMA AckSays ==
  ASSUME NEW cmd, cmd \in Acks, cmd \notin ValueAnswers, NEW p, p \in Seq(Nat), NEW facts
  PROVE  Says(cmd, p, facts)
<1>1. Truthful(Packet(cmd, p), facts)
  BY AckKeys, AcksTellNothing, Zenon
<1> QED
  BY <1>1, AcksAreNumbers, Zenon DEF Says

LEMMA SettingFacts ==
  ASSUME NEW b, NEW f, f \in DOMAIN b.set
  PROVE  <<f, b.set[f]>> \in Facts(b) /\ <<f, EventValue(f, b.set[f])>> \in Facts(b)
BY Zenon DEF Facts

LEMMA OnlySettings == \A f \in Features : GetOf(f) \notin {\hC007, \hC00A, \hC028, \hC00D, \hC005}
<1>1. \A f \in {"anc", "eq", "spatial", "lag", "dual", "super-mic", "walkie-talkie"} :
        GetOf(f) \notin {\hC007, \hC00A, \hC028, \hC00D, \hC005}
  BY GetsAre
<1> QED
  BY <1>1, FeaturesAre

LEMMA SettingAnswered ==
  ASSUME NEW b, NEW d, IsState(b, d), NEW cmd, IsQuery(cmd), FeaturesOfGet(cmd) # {},
         FeaturesOfGet(cmd) \subseteq DOMAIN b.set
  PROVE  /\ Says(ResponseCmd(cmd), Answer(b, cmd), Facts(b))
         /\ \A x \in FeaturesOfGet(cmd) : Renewing(Packet(ResponseCmd(cmd), Answer(b, cmd)), x)
<1> DEFINE f == CHOOSE x \in FeaturesOfGet(cmd) : TRUE
           kind == AnswerKind(f)
           ack == ResponseCmd(cmd)
           v == b.set[f]
<1>1. f \in FeaturesOfGet(cmd)
  BY Zenon
<1>2. f \in Features /\ GetOf(f) = cmd /\ f \in DOMAIN b.set
  BY <1>1 DEF FeaturesOfGet, GetOf
<1>3. Answer(b, cmd) = Encode(f, b.set[f])
  <2>1. cmd \notin {\hC007, \hC00A, \hC028, \hC00D, \hC005}
    BY <1>2, OnlySettings
  <2> HIDE DEF f
  <2> QED
    BY <2>1 DEF Answer, f
<1> HIDE DEF f
<1>4. Tells(Encode(f, v), f, v)
  BY <1>2, SettingIsRead, Zenon DEF IsState
<1>5. <<f, v>> \in Facts(b)
  BY <1>2, SettingFacts
<1>6. ReadBy(ack, ParserOf(f), kind)
  BY <1>2, AnswerOf
<1>7. configKeyForParsedKind(kind) = {f}
  BY <1>2, KindsAre
<1>8. ack \in Acks
  BY QueryAnswers
<1>9. ParserKey(ack) = ack /\ ack \in Nat
  BY <1>8, AckKeys, AcksAreNumbers
<1> HIDE DEF kind, ack, v
<1>10. \A x \in configKeyForParsedKind(kind) : <<x, v>> \in Facts(b)
  BY <1>5, <1>7
<1>11. /\ Truthful(Packet(ack, Encode(f, v)), Facts(b))
       /\ \A x \in configKeyForParsedKind(kind) : Renewing(Packet(ack, Encode(f, v)), x)
  BY <1>4, <1>6, <1>9, <1>10, ValueIsTruthful, Zenon
<1>12. Says(ack, Encode(f, v), Facts(b))
  BY <1>4, <1>9, <1>11, Zenon DEF Says, Tells
<1>13. \A x \in FeaturesOfGet(cmd) : x = f
  <2>1. f \in Features /\ GetOf(f) = cmd
    BY <1>2
  <2>2. \A x \in Features : GetOf(x) = GetOf(f) => x = f
    BY <2>1, AnswerOf
  <2>3. \A x \in FeaturesOfGet(cmd) : x \in Features /\ GetOf(x) = cmd
    BY Zenon DEF FeaturesOfGet, GetOf
  <2> QED
    BY <2>1, <2>2, <2>3, Zenon
<1>14. \A x \in FeaturesOfGet(cmd) : Renewing(Packet(ack, Encode(f, v)), x)
  BY <1>7, <1>11, <1>13
<1> QED
  BY <1>3, <1>12, <1>14, Zenon DEF ack, v

\* Batteries in an answer or in an event.
LEMMA BatterySays ==
  ASSUME NEW cmd, cmd \in Nat, ParserKey(cmd) = cmd, NEW kind, ReadBy(cmd, "battery", kind),
         kind # "unknown_battery_pairs",
         NEW b, NEW battery, IsPartMap(battery, BatteryValues), DOMAIN battery \subseteq DOMAIN b.battery,
         \A part \in DOMAIN battery : battery[part] = b.battery[part]
  PROVE  /\ Says(cmd, BatteryPairs(battery), Facts(b))
         /\ \A part \in DOMAIN battery : Renewing(Packet(cmd, BatteryPairs(battery)), NameOf(part))
         /\ "case" \notin DOMAIN battery => PlainCase(Packet(cmd, BatteryPairs(battery)))
<1> DEFINE p == BatteryPairs(battery)
           data == Copy(battery)
           m(model) == NormalizeBatteryForModel(data, model)
<1>1. \A k, model : /\ p \in Seq(Nat)
                    /\ parseBatteryPacket(k, p, model) = WithBatteries(k, m(model))
  BY BatteriesAreRead
<1>2. DOMAIN data \subseteq DOMAIN b.battery /\ \A part \in DOMAIN data : data[part] = b.battery[part]
  BY DEF Copy
<1>3. BatteryFacts(b) \subseteq Facts(b)
  BY Zenon DEF Facts
<1>4. \A model, part : part \in DOMAIN m(model) => <<part, m(model)[part]>> \in Facts(b)
  <2> SUFFICES ASSUME NEW model PROVE \A part \in DOMAIN m(model) : <<part, m(model)[part]>> \in Facts(b)
    OBVIOUS
  <2> HIDE DEF data
  <2>1. \A part \in DOMAIN m(model) : <<part, m(model)[part]>> \in BatteryFacts(b)
    BY <1>2, NormalizedFacts
  <2> QED
    BY <1>3, <2>1, Zenon
<1>8. \A model : /\ \A part \in DOMAIN battery : \E q \in DOMAIN m(model) : NameOf(q) = NameOf(part)
                 /\ model.BatteryCaseSource # "stereo" => DOMAIN m(model) = DOMAIN battery
  <2>1. DOMAIN data = DOMAIN battery
    BY DEF Copy
  <2> HIDE DEF data
  <2> QED
    BY <2>1, NormalizedNames
<1> HIDE DEF p, m
<1>5. \A model : ParsePacket(Packet(cmd, p), model) = WithBatteries(kind, m(model))
  <2>1. \A model : ParsePacket(Packet(cmd, p), model) = Parse("battery", kind, p, model)
    BY ReadByFirst
  <2>2. \A model : Parse("battery", kind, p, model) = parseBatteryPacket(kind, p, model)
    BY Zenon DEF Parse
  <2> QED
    BY <1>1, <2>1, <2>2, Zenon
<1>6. Truthful(Packet(cmd, p), Facts(b))
  BY <1>4, <1>5, TellsBatteries, Zenon DEF Truthful, WithBatteries
<1>7. Says(cmd, p, Facts(b))
  BY <1>1, <1>6, Zenon DEF Says
<1>9. \A model, part : part \in DOMAIN battery => Renews(WithBatteries(kind, m(model)), NameOf(part))
  <2> SUFFICES ASSUME NEW model, NEW part \in DOMAIN battery
               PROVE  Renews(WithBatteries(kind, m(model)), NameOf(part))
    OBVIOUS
  <2>1. Keeps(WithBatteries(kind, m(model)), kind, <<>>, m(model), NoMap, {})
    BY ToldAre, Zenon DEF WithBatteries
  <2> QED
    BY <1>8, <2>1, KeepsRenews
<1>10. \A part \in DOMAIN battery : Renewing(Packet(cmd, p), NameOf(part))
  BY <1>5, <1>9, Zenon DEF Renewing
<1>11. ASSUME "case" \notin DOMAIN battery PROVE PlainCase(Packet(cmd, p))
  <2> SUFFICES ASSUME NEW model, model.BatteryCaseSource # "stereo",
                      NEW fact \in ToldFacts(WithBatteries(kind, m(model)))
               PROVE  fact[1] # "case"
    BY <1>5, Zenon DEF PlainCase
  <2> DEFINE facts == {<<part, m(model)[part]>> : part \in DOMAIN m(model)}
  <2>1. ToldFacts(WithBatteries(kind, m(model))) \subseteq facts
    <3>1. \A part \in DOMAIN m(model) : <<part, m(model)[part]>> \in facts
      OBVIOUS
    <3> HIDE DEF facts
    <3> QED
      BY <3>1, TellsBatteries, Zenon DEF WithBatteries
  <2>2. PICK part \in DOMAIN m(model) : fact = <<part, m(model)[part]>>
    BY <2>1
  <2>3. part # "case"
    BY <1>8, <1>11
  <2> QED
    BY <2>2, <2>3
<1> QED
  BY <1>7, <1>10, <1>11 DEF p

LEMMA WearSays ==
  ASSUME NEW cmd, cmd \in Nat, ParserKey(cmd) = cmd, NEW kind, ReadBy(cmd, "status", kind),
         NEW b, IsPartMap(b.wear, Wears)
  PROVE  Says(cmd, EncodePairs([part \in DOMAIN b.wear |-> WearByte(b.wear[part])]), Facts(b))
<1> DEFINE p == EncodePairs([part \in DOMAIN b.wear |-> WearByte(b.wear[part])])
           m == [part \in DOMAIN b.wear \cap {"left", "right"} |-> b.wear[part]]
<1>1. \A k : p \in Seq(Nat) /\ parseStatusPacket(k, p) = [Told(k) EXCEPT !.Earbuds = m]
  BY WearIsRead, Zenon
<1>2. \A s \in DOMAIN m : <<"ear", s, m[s]>> \in Facts(b)
  <2>1. \A s \in DOMAIN b.wear : <<"ear", s, b.wear[s]>> \in Facts(b)
    BY Zenon DEF Facts
  <2>2. \A s \in DOMAIN m : s \in DOMAIN b.wear /\ m[s] = b.wear[s]
    OBVIOUS
  <2> QED
    BY <2>1, <2>2, Zenon
<1> HIDE DEF p, m
<1>3. \A model : ParsePacket(Packet(cmd, p), model) = [Told(kind) EXCEPT !.Earbuds = m]
  <2>1. \A model : ParsePacket(Packet(cmd, p), model) = Parse("status", kind, p, model)
    BY ReadByFirst
  <2>2. \A model : Parse("status", kind, p, model) = parseStatusPacket(kind, p)
    BY Zenon DEF Parse
  <2>3. parseStatusPacket(kind, p) = [Told(kind) EXCEPT !.Earbuds = m]
    BY <1>1
  <2> QED
    BY <2>1, <2>2, <2>3
<1>4. Truthful(Packet(cmd, p), Facts(b))
  BY <1>2, <1>3, TellsEarbuds, Zenon DEF Truthful
<1>5. Says(cmd, p, Facts(b))
  BY <1>1, <1>4, Zenon DEF Says
<1> QED
  BY <1>5 DEF p

LEMMA PeersSay ==
  ASSUME NEW cmd, cmd \in Nat, ParserKey(cmd) = cmd, NEW kind, ReadBy(cmd, "list", kind),
         NEW b, b.peers \in PeerLists
  PROVE  Says(cmd, EncodePeers(b.peers), Facts(b)) /\ Renewing(Packet(cmd, EncodePeers(b.peers)), "peers")
<1> DEFINE p == EncodePeers(b.peers)
           l == AsShown(b.peers)
<1>1. p \in Seq(Nat) /\ ParseDualDeviceListPayload(p) = {l}
  BY PeersAreRead, Zenon
<1>2. <<"peers", l>> \in Facts(b)
  BY Zenon DEF Facts
<1> HIDE DEF p, l
<1>3. \A model : ParsePacket(Packet(cmd, p), model) = [Told(kind) EXCEPT !.DualList = {l}]
  <2>1. \A model : ParsePacket(Packet(cmd, p), model) = Parse("list", kind, p, model)
    BY ReadByFirst
  <2>2. \A model : Parse("list", kind, p, model) = parseDualDeviceListPacket(kind, p)
    BY Zenon DEF Parse
  <2>3. parseDualDeviceListPacket(kind, p) = [Told(kind) EXCEPT !.DualList = {l}]
    BY <1>1 DEF parseDualDeviceListPacket
  <2> QED
    BY <2>1, <2>2, <2>3, Zenon
<1>4. Truthful(Packet(cmd, p), Facts(b))
  BY <1>2, <1>3, TellsList, Zenon DEF Truthful
<1>5. Says(cmd, p, Facts(b))
  BY <1>1, <1>4, Zenon DEF Says
<1>6. Keeps([Told(kind) EXCEPT !.DualList = {l}], kind, <<>>, NoMap, NoMap, {l})
  BY ToldAre, Zenon
<1>7. Renews([Told(kind) EXCEPT !.DualList = {l}], "peers")
  <2>1. {l} # {}
    OBVIOUS
  <2> QED
    BY <1>6, <2>1, KeepsRenews
<1>8. Renewing(Packet(cmd, p), "peers")
  BY <1>3, <1>7 DEF Renewing
<1> QED
  BY <1>5, <1>8 DEF p

LEMMA OwnKeys ==
  /\ ParserKey(\h4007) = \h4007 /\ ParserKey(\h400A) = \h400A /\ ParserKey(\h4028) = \h4028
  /\ ParserKey(\hE001) = \hE001 /\ ParserKey(\hE003) = \hE003 /\ ParserKey(\hE006) = \hE006
  /\ ParserKey(\hE00E) = \hE00E /\ ParserKey(\hE019) = \hE019 /\ ParserKey(\hE01A) = \hE01A
BY DEF ParserKey, Kind

LEMMA ListsAnswered ==
  /\ ResponseCmd(\hC007) = \h4007 /\ ResponseCmd(\hC00A) = \h400A /\ ResponseCmd(\hC028) = \h4028
BY DEF ResponseCmd

\* An answer to a query has facts of the earbuds, or nothing that is kept.
LEMMA AnswerSays ==
  ASSUME NEW b, NEW d, IsState(b, d), NEW cmd, IsQuery(cmd), FeaturesOfGet(cmd) \subseteq DOMAIN b.set
  PROVE  Says(ResponseCmd(cmd), Answer(b, cmd), Facts(b))
<1>1. CASE FeaturesOfGet(cmd) # {}
  BY <1>1, SettingAnswered
<1>2. CASE FeaturesOfGet(cmd) = {} /\ cmd = \hC007
  <2>1. Answer(b, cmd) = BatteryPairs(b.battery)
    BY <1>2 DEF Answer, BatteryPairs
  <2>2. IsPartMap(b.battery, BatteryValues)
    BY DEF IsState
  <2>3. Says(\h4007, BatteryPairs(b.battery), Facts(b))
    BY <2>2, BatterySays, OthersRead, OwnKeys
  <2> QED
    BY <1>2, <2>1, <2>3, ListsAnswered
<1>3. CASE FeaturesOfGet(cmd) = {} /\ cmd = \hC00A
  <2> DEFINE p == EncodePairs([part \in DOMAIN b.wear |-> WearByte(b.wear[part])])
  <2>1. Answer(b, cmd) = p
    BY <1>3 DEF Answer
  <2>2. IsPartMap(b.wear, Wears)
    BY DEF IsState
  <2>3. Says(\h400A, p, Facts(b))
    BY <2>2, WearSays, OthersRead, OwnKeys
  <2> HIDE DEF p
  <2> QED
    BY <1>3, <2>1, <2>3, ListsAnswered
<1>4. CASE FeaturesOfGet(cmd) = {} /\ cmd = \hC028
  <2>1. Answer(b, cmd) = EncodePeers(b.peers)
    BY <1>4 DEF Answer
  <2>2. b.peers \in PeerLists
    BY DEF IsState
  <2>3. Says(\h4028, EncodePeers(b.peers), Facts(b))
    BY <2>2, PeersSay, OthersRead, OwnKeys
  <2> QED
    BY <1>4, <2>1, <2>3, ListsAnswered
<1>5. CASE FeaturesOfGet(cmd) = {} /\ cmd \notin {\hC007, \hC00A, \hC028}
  <2>1. ResponseCmd(cmd) \notin ValueAnswers
    <3>1. \A f \in Features : GetOf(f) # cmd
      BY <1>5 DEF FeaturesOfGet, GetOf
    <3>2. cmd \notin {GetOf("anc"), GetOf("eq"), GetOf("spatial"), GetOf("lag"), GetOf("dual"),
                      GetOf("super-mic"), GetOf("walkie-talkie")}
      BY <3>1, FeaturesAre
    <3> QED
      BY <1>5, <3>2, ValueQueries
  <2>2. Answer(b, cmd) \in {<<0, 64>>, <<250>>, <<0>>}
    BY <1>5 DEF Answer, Identity
  <2>3. <<0, 64>> \in Seq(Nat) /\ <<250>> \in Seq(Nat) /\ <<0>> \in Seq(Nat)
    OBVIOUS
  <2>4. Answer(b, cmd) \in Seq(Nat)
    BY <2>2, <2>3
  <2> QED
    BY <2>1, <2>4, QueryAnswers, AckSays
<1> QED
  BY <1>1, <1>2, <1>3, <1>4, <1>5

\* The acknowledgement of a SET that may be sent.
LEMMA AckOfSetSays ==
  ASSUME NEW cmd, cmd \in SafeSets \cup OtherSets, NEW result, result \in Nat, NEW facts
  PROVE  Says(ResponseCmd(cmd), <<result>>, facts)
<1>1. <<result>> \in Seq(Nat)
  OBVIOUS
<1>2. ResponseCmd(cmd) \in Acks /\ ResponseCmd(cmd) \notin ValueAnswers
  BY SetAcks
<1> QED
  BY <1>1, <1>2, AckSays

\* What earbuds tell of a setting that changes.
LEMMA SettingEventSays ==
  ASSUME NEW f, f \in Features, EventOf(f) # 0, NEW v, v \in ValuesOf(f), NEW facts,
         <<f, EventValue(f, v)>> \in facts
  PROVE  /\ Says(EventOf(f), EncodeEvent(f, v), facts)
         /\ Renewing(Packet(EventOf(f), EncodeEvent(f, v)), f)
<1> DEFINE told == EventValue(f, v)
           p == EncodeEvent(f, v)
           cmd == EventOf(f)
           kind == EventKind(f)
<1>1. Tells(p, f, told)
  BY SettingIsRead
<1>2. f \in {"anc", "lag", "dual", "walkie-talkie"}
  BY FeaturesAre DEF EventOf
<1>3. /\ EventOf("anc") = \hE003 /\ EventOf("lag") = \hE019 /\ EventOf("dual") = \hE006
      /\ EventOf("walkie-talkie") = \hE01A
  BY DEF EventOf
<1>4. /\ ParserOf("anc") = "anc" /\ ParserOf("lag") = "lag" /\ ParserOf("dual") = "dual"
      /\ ParserOf("walkie-talkie") = "mic"
  BY DEF ParserOf, micFeatures
<1>5. /\ EventKind("anc") = "anc_changed" /\ EventKind("lag") = "lag_changed"
      /\ EventKind("dual") = "dual_switch_changed" /\ EventKind("walkie-talkie") = "walkie_talkie_changed"
  BY DEF EventKind
<1>6. ReadBy(cmd, ParserOf(f), kind) /\ ParserKey(cmd) = cmd /\ cmd \in Nat
  <2>1. CASE f = "anc"
    BY <2>1, <1>3, <1>4, <1>5, OthersRead, OwnKeys
  <2>2. CASE f = "lag"
    BY <2>2, <1>3, <1>4, <1>5, OthersRead, OwnKeys
  <2>3. CASE f = "dual"
    BY <2>3, <1>3, <1>4, <1>5, OthersRead, OwnKeys
  <2>4. CASE f = "walkie-talkie"
    BY <2>4, <1>3, <1>4, <1>5, OthersRead, OwnKeys
  <2> QED
    BY <1>2, <2>1, <2>2, <2>3, <2>4
<1>7. configKeyForParsedKind(kind) = {f}
  BY <1>2, KindsAre
<1> HIDE DEF told, p, cmd, kind
<1>8. \A x \in configKeyForParsedKind(kind) : <<x, told>> \in facts
  BY <1>7 DEF told
<1>9. /\ Truthful(Packet(cmd, p), facts)
      /\ \A x \in configKeyForParsedKind(kind) : Renewing(Packet(cmd, p), x)
  BY <1>1, <1>6, <1>8, ValueIsTruthful, Zenon
<1>10. Says(cmd, p, facts)
  BY <1>1, <1>6, <1>9, Zenon DEF Says, Tells
<1>11. Renewing(Packet(cmd, p), f)
  BY <1>7, <1>9
<1> QED
  BY <1>10, <1>11, Zenon DEF cmd, p

LEMMA BatteryEventSays ==
  ASSUME NEW b, NEW part, part \in DOMAIN b.battery, part \in PartNames, b.battery[part] \in BatteryValues
  PROVE  LET p == EncodePairs([x \in {part} |-> BatteryByte(b.battery[part])])
         IN /\ Says(\hE001, p, Facts(b)) /\ Renewing(Packet(\hE001, p), NameOf(part))
            /\ part # "case" => PlainCase(Packet(\hE001, p))
<1> DEFINE battery == [x \in {part} |-> b.battery[part]]
<1>1. DOMAIN battery = {part} /\ battery[part] = b.battery[part]
  OBVIOUS
<1>2. [x \in {part} |-> BatteryByte(b.battery[part])] = [x \in DOMAIN battery |-> BatteryByte(battery[x])]
  BY <1>1
<1>3. IsPartMap(battery, BatteryValues)
  BY <1>1 DEF IsPartMap
<1>4. DOMAIN battery \subseteq DOMAIN b.battery /\ \A x \in DOMAIN battery : battery[x] = b.battery[x]
  BY <1>1
<1> HIDE DEF battery
<1>5. /\ Says(\hE001, BatteryPairs(battery), Facts(b))
      /\ \A x \in DOMAIN battery : Renewing(Packet(\hE001, BatteryPairs(battery)), NameOf(x))
      /\ "case" \notin DOMAIN battery => PlainCase(Packet(\hE001, BatteryPairs(battery)))
  <2> DEFINE cmd == \hE001
             kind == "battery_changed"
  <2>1. cmd \in Nat /\ ParserKey(cmd) = cmd /\ ReadBy(cmd, "battery", kind)
    BY OthersRead, OwnKeys
  <2>2. kind # "unknown_battery_pairs"
    OBVIOUS
  <2> HIDE DEF cmd, kind
  <2>3. /\ Says(cmd, BatteryPairs(battery), Facts(b))
        /\ \A x \in DOMAIN battery : Renewing(Packet(cmd, BatteryPairs(battery)), NameOf(x))
        /\ "case" \notin DOMAIN battery => PlainCase(Packet(cmd, BatteryPairs(battery)))
    BY <1>3, <1>4, <2>1, <2>2, BatterySays, Zenon
  <2> QED
    BY <2>3 DEF cmd
<1>6. BatteryPairs(battery) = EncodePairs([x \in {part} |-> BatteryByte(b.battery[part])])
  BY <1>2 DEF BatteryPairs
<1>7. part \in DOMAIN battery /\ (part # "case" => "case" \notin DOMAIN battery)
  BY DEF battery
<1> QED
  BY <1>5, <1>6, <1>7

\* The event of a list that changed has no list.
LEMMA PeersEventSays ==
  ASSUME NEW facts
  PROVE  Says(\hE00E, <<1>>, facts)
<1> DEFINE kind == "dual_connect_changed"
<1>1. \A model : ParsePacket(Packet(\hE00E, <<1>>), model) = Parse("dual", kind, <<1>>, model)
  BY ReadByFirst, OthersRead, OwnKeys
<1>2. \A model : Parse("dual", kind, <<1>>, model) = parseDualPacket(kind, <<1>>)
  BY Zenon DEF Parse
<1>3. \E v : parseDualPacket(kind, <<1>>) = Value(kind, v)
  BY Zenon DEF parseDualPacket
<1>4. \A v : ToldFacts(Value(kind, v)) \subseteq facts
  BY KindsAre, TellsValue
<1>5. <<1>> \in Seq(Nat) /\ \hE00E \in Nat
  OBVIOUS
<1>6. \A model : ToldFacts(ParsePacket(Packet(\hE00E, <<1>>), model)) \subseteq facts
  BY <1>1, <1>2, <1>3, <1>4
<1> QED
  BY <1>5, <1>6 DEF Says, Truthful

-----------------------------------------------------------------------------
(* What is under way from the earbuds, and what is left of it.             *)

Sound(w, facts) ==
  \/ IsNoise(w) \/ IsHopeless(w)
  \/ \E cmd, payload, n :
       cmd \in Nat /\ n \in Nat /\ IsFrame(w, cmd, payload, n) /\ Truthful(Packet(cmd, payload), facts)

SoundWrites(writes, facts) == writes \in Chunks(Nat) /\ \A i \in DOMAIN writes : Sound(writes[i], facts)

LEMMA SoundGrows ==
  ASSUME NEW facts, NEW more, facts \subseteq more, NEW writes, SoundWrites(writes, facts)
  PROVE  SoundWrites(writes, more)
<1>1. \A pkt : Truthful(pkt, facts) => Truthful(pkt, more)
  BY DEF Truthful
<1>2. \A w : Sound(w, facts) => Sound(w, more)
  BY <1>1, Zenon DEF Sound
<1> QED
  BY <1>2, Zenon DEF SoundWrites

LEMMA NoWrites == \A facts : SoundWrites(<<>>, facts)
BY DEF SoundWrites, Chunks

LEMMA AppendTo ==
  ASSUME NEW T, NEW s, s \in Seq(T), NEW x, x \in T
  PROVE  /\ Append(s, x) \in Seq(T)
         /\ \A i \in DOMAIN Append(s, x) : Append(s, x)[i] = x \/ (i \in DOMAIN s /\ Append(s, x)[i] = s[i])
OBVIOUS

LEMMA SoundAppend ==
  ASSUME NEW writes, NEW facts, SoundWrites(writes, facts), NEW w, w \in Seq(Nat), Sound(w, facts)
  PROVE  SoundWrites(Append(writes, w), facts)
<1> DEFINE S == Seq(Nat)
<1> HIDE DEF S
<1>1. writes \in Seq(S) /\ w \in S
  BY DEF SoundWrites, Chunks, S
<1> DEFINE new == Append(writes, w)
<1>2. /\ new \in Seq(S)
      /\ \A i \in DOMAIN new : new[i] = w \/ (i \in DOMAIN writes /\ new[i] = writes[i])
  BY <1>1, AppendTo
<1>3. \A i \in DOMAIN writes : Sound(writes[i], facts)
  BY Zenon DEF SoundWrites
<1> HIDE DEF new
<1>4. new \in Chunks(Nat)
  BY <1>2 DEF Chunks, S
<1>5. \A i \in DOMAIN new : Sound(new[i], facts)
  BY <1>2, <1>3, Zenon
<1> QED
  BY <1>4, <1>5, Zenon DEF SoundWrites, new

LEMMA FrameIsSound ==
  ASSUME NEW w, NEW cmd, NEW p, NEW n, NEW facts, IsFrame(w, cmd, p, n),
         cmd \in Nat /\ n \in Nat /\ Truthful(Packet(cmd, p), facts)
  PROVE  Sound(w, facts)
BY Zenon DEF Sound

LEMMA SaysSound ==
  ASSUME NEW cmd, NEW p, NEW facts, Says(cmd, p, facts), NEW writes, SoundWrites(writes, facts)
  PROVE  SoundWrites(Append(writes, MarshalBinary(Packet(cmd, p))), facts)
<1> DEFINE w == MarshalBinary(Packet(cmd, p))
           n == Len(p)
<1>1. cmd \in Nat /\ p \in Seq(Nat) /\ Truthful(Packet(cmd, p), facts)
  BY DEF Says
<1>2. n \in Nat /\ IsSeq(Nat, p, n)
  BY <1>1 DEF IsSeq
<1> HIDE DEF n
<1>3. IsFrame(w, cmd, p, n)
  BY <1>1, <1>2, PacketIsFrame, Zenon
<1> HIDE DEF w
<1>4. w \in Seq(Nat)
  BY <1>3 DEF IsFrame, IsSeq
<1>5. Sound(w, facts)
  <2>1. cmd \in Nat /\ n \in Nat /\ Truthful(Packet(cmd, p), facts)
    BY <1>1, <1>2
  <2> QED
    BY <1>3, <2>1, FrameIsSound
<1>6. SoundWrites(Append(writes, w), facts)
  BY <1>4, <1>5, SoundAppend
<1> QED
  BY <1>6 DEF w

\* The writes up to one, up to a later one, and after that.
LEMMA PartsOfSeq ==
  ASSUME NEW T, NEW s, s \in Seq(T), NEW i \in 0 .. Len(s), NEW j \in i .. Len(s)
  PROVE  /\ SubSeq(s, 1, j) = SubSeq(s, 1, i) \o SubSeq(s, i + 1, j)
         /\ SubSeq(s, 1, i) \in Seq(T) /\ SubSeq(s, i + 1, j) \in Seq(T)
         /\ SubSeq(s, j + 1, Len(s)) \in Seq(T)
         /\ \A k \in DOMAIN SubSeq(s, j + 1, Len(s)) :
              j + k \in DOMAIN s /\ SubSeq(s, j + 1, Len(s))[k] = s[j + k]
<1>1. Len(s) \in Nat /\ i \in Nat /\ j \in Nat /\ i <= j /\ j <= Len(s)
  OBVIOUS
<1>2. SubSeq(s, 1, j) = SubSeq(s, 1, i) \o SubSeq(s, i + 1, j)
  BY <1>1
<1>3. SubSeq(s, 1, i) \in Seq(T) /\ SubSeq(s, i + 1, j) \in Seq(T) /\ SubSeq(s, j + 1, Len(s)) \in Seq(T)
  BY <1>1
<1>4. \A k \in DOMAIN SubSeq(s, j + 1, Len(s)) :
        j + k \in DOMAIN s /\ SubSeq(s, j + 1, Len(s))[k] = s[j + k]
  BY <1>1
<1> QED
  BY <1>2, <1>3, <1>4

LEMMA FirstWhole ==
  ASSUME NEW T, NEW left, left \in Seq(Seq(T)), left # <<>>
  PROVE  <<SubSeq(left[1], 1, Len(left[1]))>> \o Tail(left) = left
<1> DEFINE S == Seq(T)
           x == left[1]
<1>1. x \in Seq(T)
  OBVIOUS
<1>2. SubSeq(x, 1, Len(x)) = x
  BY <1>1
<1> HIDE DEF S
<1>3. left \in Seq(S)
  BY DEF S
<1>4. <<x>> \o Tail(left) = left
  BY <1>3
<1> HIDE DEF x
<1>5. <<SubSeq(x, 1, Len(x))>> \o Tail(left) = left
  BY <1>2, <1>4
<1> QED
  BY <1>5 DEF x

\* The end of one of the writes is not after that of a later one.
LEMMA EndsGrow ==
  ASSUME NEW writes, writes \in Chunks(Nat), NEW i \in 0 .. Len(writes), NEW j \in i .. Len(writes)
  PROVE  /\ Len(FlattenSeq(SubSeq(writes, 1, i))) \in Nat /\ Len(FlattenSeq(SubSeq(writes, 1, j))) \in Nat
         /\ Len(FlattenSeq(SubSeq(writes, 1, i))) <= Len(FlattenSeq(SubSeq(writes, 1, j)))
<1> DEFINE S == Seq(Nat)
           a == SubSeq(writes, 1, i)
           b == SubSeq(writes, i + 1, j)
<1> HIDE DEF S
<1>1. writes \in Seq(S)
  BY DEF Chunks, S
<1>2. SubSeq(writes, 1, j) = a \o b /\ a \in Seq(S) /\ b \in Seq(S)
  BY <1>1, PartsOfSeq
<1> HIDE DEF a, b
<1>3. a \in Chunks(Nat) /\ b \in Chunks(Nat)
  BY <1>2 DEF Chunks, S
<1>4. FlattenSeq(a) \in Seq(Nat) /\ FlattenSeq(b) \in Seq(Nat)
      /\ FlattenSeq(a \o b) = FlattenSeq(a) \o FlattenSeq(b)
  <2>1. FlattenSeq(a) \in Seq(Nat) /\ FlattenSeq(b) \in Seq(Nat) /\ FlattenApart(a, b)
    BY <1>3, FlattenChunks, Zenon
  <2> QED
    BY <2>1 DEF FlattenApart
<1>5. Len(FlattenSeq(a)) \in Nat /\ Len(FlattenSeq(a)) <= Len(FlattenSeq(a \o b))
      /\ Len(FlattenSeq(a \o b)) \in Nat
  <2> DEFINE x == FlattenSeq(a)
             y == FlattenSeq(b)
  <2>1. x \in Seq(Nat) /\ y \in Seq(Nat) /\ FlattenSeq(a \o b) = x \o y
    BY <1>4
  <2> HIDE DEF x, y
  <2>2. Len(x) \in Nat /\ Len(y) \in Nat /\ Len(x \o y) = Len(x) + Len(y)
    BY <2>1
  <2>3. Len(x) <= Len(x \o y) /\ Len(x \o y) \in Nat
    BY <2>2
  <2> QED
    BY <2>1, <2>2, <2>3 DEF x
<1> QED
  BY <1>2, <1>5 DEF a

LEMMA EndOfWrite ==
  ASSUME NEW writes, writes \in Chunks(Nat), NEW k \in DOMAIN writes
  PROVE  /\ Len(FlattenSeq(SubSeq(writes, 1, k))) = Len(FlattenSeq(SubSeq(writes, 1, k - 1))) + Len(writes[k])
         /\ Len(FlattenSeq(SubSeq(writes, 1, k - 1))) \in Nat
<1> DEFINE a == SubSeq(writes, 1, k - 1)
           w == writes[k]
<1>1. a \in Chunks(Nat) /\ w \in Seq(Nat) /\ SubSeq(writes, 1, k) = a \o <<w>>
  <2>1. CutAt(writes, k) /\ a \in Chunks(Nat) /\ w \in Seq(Nat)
    BY Around, Zenon
  <2> QED
    BY <2>1 DEF CutAt
<1> HIDE DEF a, w
<1>2. <<w>> \in Chunks(Nat) /\ FlattenSeq(<<w>>) = w
  BY <1>1, FlattenWrite, Zenon
<1>3. FlattenSeq(a) \in Seq(Nat) /\ FlattenSeq(a \o <<w>>) = FlattenSeq(a) \o w
  <2>1. FlattenSeq(a) \in Seq(Nat) /\ FlattenApart(a, <<w>>)
    BY <1>1, <1>2, FlattenChunks, Zenon
  <2> QED
    BY <1>2, <2>1 DEF FlattenApart
<1>4. \A x : x \in Seq(Nat) => Len(x \o w) = Len(x) + Len(w) /\ Len(x) \in Nat
  BY <1>1
<1> QED
  BY <1>1, <1>3, <1>4 DEF a, w

\* After a write that was read whole, whole writes are left: all but empty ones.
LEMMA Skipped ==
  ASSUME NEW writes, writes \in Chunks(Nat), NEW i \in 1 .. Len(writes),
         NEW n, n = Len(FlattenSeq(SubSeq(writes, 1, i)))
  PROVE  \E j \in i .. Len(writes) :
           /\ SkipBytes(writes, n) = SubSeq(writes, j + 1, Len(writes))
           /\ \A k \in i + 1 .. j : Len(writes[k]) = 0
<1> DEFINE end(k) == Len(FlattenSeq(SubSeq(writes, 1, k)))
           T == {k \in 0 .. Len(writes) : end(k) <= n}
           done == Max(T)
           left == SubSeq(writes, done + 1, Len(writes))
<1>1. Len(writes) \in Nat
  BY DEF Chunks
<1>2. n \in Nat /\ i \in T
  <2>1. i \in 0 .. Len(writes) /\ i \in i .. Len(writes)
    BY <1>1
  <2>2. end(i) \in Nat
    BY <2>1, EndsGrow
  <2> QED
    BY <2>1, <2>2
<1>3. T \subseteq 0 .. Len(writes)
  OBVIOUS
<1> HIDE DEF T
<1>4. done \in T /\ i <= done
  BY <1>1, <1>2, <1>3, LastOf
<1>5. done \in 0 .. Len(writes) /\ end(done) <= n /\ done \in i .. Len(writes)
  BY <1>1, <1>4 DEF T
<1>6. end(done) = n
  <2>1. i \in 0 .. Len(writes) /\ done \in i .. Len(writes)
    BY <1>1, <1>4, <1>5
  <2>2. n <= end(done) /\ end(done) \in Nat
    BY <2>1, EndsGrow
  <2> QED
    BY <1>2, <1>5, <2>2
<1>11. ASSUME NEW k \in i + 1 .. done PROVE Len(writes[k]) = 0
  <2>1. DOMAIN writes = 1 .. Len(writes)
    BY DEF Chunks
  <2>2. /\ k \in DOMAIN writes /\ k - 1 \in 0 .. Len(writes) /\ k - 1 \in i .. Len(writes)
        /\ i \in 0 .. Len(writes) /\ k \in 0 .. Len(writes) /\ done \in k .. Len(writes)
    BY <1>1, <1>5, <1>11, <2>1
  <2>3. end(i) <= end(k - 1) /\ end(k - 1) \in Nat
    BY <2>2, EndsGrow
  <2>4. end(k) <= end(done) /\ end(k) \in Nat
    BY <2>2, EndsGrow
  <2>5. end(k) = end(k - 1) + Len(writes[k])
    BY <2>2, EndOfWrite
  <2>6. writes[k] \in Seq(Nat)
    BY <2>2, Around, Zenon
  <2>7. Len(writes[k]) \in Nat
    BY <2>6
  <2>8. end(i) = n
    OBVIOUS
  <2> HIDE DEF end, done
  <2> QED
    BY <1>6, <2>3, <2>4, <2>5, <2>7, <2>8
<1>7. SkipBytes(writes, n) = IF left = <<>> THEN <<>>
                             ELSE <<SubSeq(left[1], n - end(done) + 1, Len(left[1]))>> \o Tail(left)
  BY Zenon DEF SkipBytes, T
<1> HIDE DEF end, done
<1>8. n - end(done) + 1 = 1
  BY <1>2, <1>6
<1>9. left \in Seq(Seq(Nat))
  <2> DEFINE S == Seq(Nat)
  <2> HIDE DEF S
  <2>1. writes \in Seq(S)
    BY DEF Chunks, S
  <2>2. left \in Seq(S)
    BY <1>1, <1>5, <2>1
  <2> QED
    BY <2>2 DEF S
<1> HIDE DEF left
<1>10. SkipBytes(writes, n) = left
  <2>1. CASE left = <<>>
    BY <1>7, <2>1
  <2>2. CASE left # <<>>
    <3>1. <<SubSeq(left[1], 1, Len(left[1]))>> \o Tail(left) = left
      BY <1>9, <2>2, FirstWhole
    <3> QED
      BY <1>7, <1>8, <2>2, <3>1, Zenon
  <2> QED
    BY <2>1, <2>2
<1> QED
  BY <1>5, <1>10, <1>11, Zenon DEF left

LEMMA FrameNoNoise ==
  ASSUME NEW w, IsPacket(w)
  PROVE  ~IsNoise(w)
<1>1. PICK cmd, payload, n : cmd \in Nat /\ n \in Nat /\ IsFrame(w, cmd, payload, n)
  BY Zenon DEF IsPacket
<1>2. w[1] = SOF /\ 1 \in DOMAIN w
  BY <1>1 DEF IsFrame, IsSeq
<1> QED
  BY <1>2 DEF IsNoise

LEMMA SoundIsWritten ==
  ASSUME NEW w, NEW facts, Sound(w, facts)
  PROVE  Written(w)
<1> SUFFICES ASSUME ~IsNoise(w), ~IsHopeless(w) PROVE IsPacket(w)
  BY Zenon DEF Written
<1>1. PICK cmd, payload, n : cmd \in Nat /\ n \in Nat /\ IsFrame(w, cmd, payload, n)
  BY Zenon DEF Sound
<1> QED
  BY <1>1, SMT DEF IsPacket

\* The packet in the i-th of the writes is read; up to the j-th there is no other, and
\* what is behind is left.
ReadAt(writes, read, left, i, j) ==
  /\ i \in DOMAIN writes /\ j \in i .. Len(writes)
  /\ IsPacket(writes[i]) /\ ~IsHopeless(writes[i])
  /\ \A cmd, payload, n :
       cmd \in Nat /\ n \in Nat /\ IsFrame(writes[i], cmd, payload, n) => read.pkt = Packet(cmd, payload)
  /\ \A k \in DOMAIN writes : k <= j => k = i \/ IsNoise(writes[k])
  /\ left \in Chunks(Nat)
  /\ \A k \in DOMAIN left : j + k \in DOMAIN writes /\ left[k] = writes[j + k]
  /\ \A k \in DOMAIN writes : k > j => k - j \in DOMAIN left /\ left[k - j] = writes[k]

LEMMA WhatIsRead ==
  ASSUME NEW writes, NEW facts, SoundWrites(writes, facts), NEW read, read = ReadPacket(FlattenSeq(writes)),
         read.status = "packet"
  PROVE  \E i, j :
           ReadAt(writes, read, SkipBytes(writes, Len(FlattenSeq(writes)) - Len(read.rest)), i, j)
<1>1. writes \in Chunks(Nat) /\ \A i \in DOMAIN writes : Sound(writes[i], facts)
  BY DEF SoundWrites
<1>2. \A i \in DOMAIN writes : Written(writes[i])
  BY <1>1, SoundIsWritten
<1>3. PICK i \in DOMAIN writes :
        /\ IsPacket(writes[i]) /\ ~IsHopeless(writes[i])
        /\ \A cmd, payload, n :
             cmd \in Nat /\ n \in Nat /\ IsFrame(writes[i], cmd, payload, n) => read.pkt = Packet(cmd, payload)
        /\ Len(FlattenSeq(writes)) - Len(read.rest) = Len(FlattenSeq(SubSeq(writes, 1, i)))
        /\ \A k \in DOMAIN writes : k < i => IsNoise(writes[k])
  BY <1>1, <1>2, PacketOfStream, Zenon
<1> DEFINE m == Len(FlattenSeq(writes)) - Len(read.rest)
           left == SkipBytes(writes, m)
           S == Seq(Nat)
<1>4. DOMAIN writes = 1 .. Len(writes) /\ Len(writes) \in Nat
  BY <1>1 DEF Chunks
<1>5. PICK j \in i .. Len(writes) :
        left = SubSeq(writes, j + 1, Len(writes)) /\ \A k \in i + 1 .. j : Len(writes[k]) = 0
  <2>1. i \in 1 .. Len(writes)
    BY <1>3, <1>4
  <2>2. m = Len(FlattenSeq(SubSeq(writes, 1, i)))
    BY <1>3
  <2> HIDE DEF m
  <2> QED
    BY <1>1, <2>1, <2>2, Skipped, Zenon
<1> HIDE DEF S, left
<1>6. writes \in Seq(S)
  BY <1>1 DEF Chunks, S
<1>7. j \in 0 .. Len(writes) /\ j \in j .. Len(writes)
  BY <1>4
<1>8. left \in Seq(S) /\ \A k \in DOMAIN left : j + k \in DOMAIN writes /\ left[k] = writes[j + k]
  BY <1>5, <1>6, <1>7, PartsOfSeq
<1>9. left \in Chunks(Nat)
  BY <1>8 DEF Chunks, S
<1>10. ASSUME NEW k \in DOMAIN writes, k > j PROVE k - j \in DOMAIN left /\ left[k - j] = writes[k]
  <2>1. k \in 1 .. Len(writes) /\ j \in Nat
    BY <1>4, <1>7
  <2>2. Len(left) = Len(writes) - j /\ DOMAIN left = 1 .. Len(left)
    <3>1. Len(writes) \in Nat /\ j \in Nat /\ j <= Len(writes)
      BY <1>4, <1>7
    <3>2. \A t \in Seq(S), x \in Nat : x <= Len(t) => Len(SubSeq(t, x + 1, Len(t))) = Len(t) - x
      OBVIOUS
    <3>3. Len(left) = Len(writes) - j
      BY <1>5, <1>6, <3>1, <3>2
    <3> QED
      BY <1>8, <3>3
  <2>3. k - j \in DOMAIN left /\ j + (k - j) = k
    BY <1>10, <2>1, <2>2
  <2> QED
    BY <1>8, <2>3
<1>11. ASSUME NEW k \in DOMAIN writes, k <= j, k # i PROVE IsNoise(writes[k])
  <2>1. k < i \/ k \in i + 1 .. j
    BY <1>4, <1>11
  <2>2. CASE k < i
    BY <1>3, <2>2
  <2>3. CASE k \in i + 1 .. j
    <3>1. writes[k] \in Seq(Nat) /\ Len(writes[k]) = 0
      BY <1>1, <1>5, <2>3, Around, Zenon
    <3>2. DOMAIN writes[k] = {}
      BY <3>1
    <3> QED
      BY <3>2 DEF IsNoise
  <2> QED
    BY <2>1, <2>2, <2>3
<1>12. ReadAt(writes, read, left, i, j)
  BY <1>3, <1>5, <1>8, <1>9, <1>10, <1>11 DEF ReadAt
<1> QED
  BY <1>12 DEF left

\* What is read is truthful, and so is what is left.
LEMMA SoundRead ==
  ASSUME NEW writes, NEW facts, SoundWrites(writes, facts), NEW read, NEW left, NEW i, NEW j,
         ReadAt(writes, read, left, i, j)
  PROVE  Truthful(read.pkt, facts) /\ SoundWrites(left, facts)
<1>1. Truthful(read.pkt, facts)
  <2>1. Sound(writes[i], facts) /\ ~IsHopeless(writes[i]) /\ ~IsNoise(writes[i])
    BY FrameNoNoise, Zenon DEF ReadAt, SoundWrites
  <2>2. PICK cmd, payload, n :
          /\ cmd \in Nat /\ n \in Nat /\ IsFrame(writes[i], cmd, payload, n)
          /\ Truthful(Packet(cmd, payload), facts)
    BY <2>1, Zenon DEF Sound
  <2>3. read.pkt = Packet(cmd, payload)
    BY <2>2, Zenon DEF ReadAt
  <2> QED
    BY <2>2, <2>3
<1>2. \A k \in DOMAIN left : Sound(left[k], facts)
  BY Zenon DEF ReadAt, SoundWrites
<1> QED
  BY <1>1, <1>2, Zenon DEF SoundWrites, ReadAt

-----------------------------------------------------------------------------
(* The earbuds stay what earbuds may be.                                   *)

LEMMA EqLabels == \A x : <<eqPresetLabel(x)>> \in ValuesOf("eq")
<1> SUFFICES ASSUME NEW x PROVE \E n \in Bytes : eqPresetLabel(n) = eqPresetLabel(x)
  BY DEF ValuesOf
<1>1. 0 .. 4 \subseteq Bytes /\ 5 \in Bytes /\ 5 \notin 0 .. 4
  BY DEF Bytes
<1>2. CASE x \in 0 .. 4
  BY <1>1, <1>2
<1>3. CASE x \notin 0 .. 4
  BY <1>1, <1>3, Zenon DEF eqPresetLabel
<1> QED
  BY <1>2, <1>3

LEMMA LabelValues ==
  /\ \A flag : <<OnOff(flag)>> \in ValuesOf("lag") /\ OnOff(flag) \in {"on", "off"}
  /\ ValuesOf("anc") = AncLabels \X LevelLabels
<1>1. \A flag : <<OnOff(flag)>> \in ValuesOf("lag") /\ OnOff(flag) \in {"on", "off"}
  BY DEF OnOff, ValuesOf
<1>2. ValuesOf("anc") = {ancModeLabel(n) : n \in Bytes} \X {ancLevelLabel(n) : n \in Bytes}
  BY DEF ValuesOf
<1> QED
  BY <1>1, <1>2, AncLabelsAre, Zenon

LEMMA SetValueFits ==
  ASSUME NEW cmd, FeatureOfSet(cmd) \in Features, NEW old, old \in ValuesOf(FeatureOfSet(cmd)), NEW p
  PROVE  SetValue(old, cmd, p) \in ValuesOf(FeatureOfSet(cmd))
<1> DEFINE f == FeatureOfSet(cmd)
           v == SetValue(old, cmd, p)
<1>1. f \in {"anc", "eq", "spatial", "lag", "dual", "super-mic", "walkie-talkie"}
  BY FeaturesAre
<1>2. v = CASE f = "anc" -> <<ancModeLabel(p[2]), IF p[2] \in 1 .. 4 THEN ancModeLabel(p[2]) ELSE old[2]>>
            [] f = "eq" -> <<eqPresetLabel(p[1])>>
            [] f = "lag" -> <<OnOff(p[1] = 1)>>
            [] f = "spatial" -> <<OnOff(p[1] = 1), IF Len(p) > 1 THEN OnOff(p[2] = 1) ELSE old[2]>>
            [] OTHER -> <<OnOff(p[1] = 1)>>
  BY Zenon DEF SetValue
<1> HIDE DEF f, v
<1>3. CASE f = "anc"
  <2>1. old \in AncLabels \X LevelLabels
    BY <1>3, LabelValues DEF f
  <2>2. old[2] \in LevelLabels
    BY <2>1
  <2> DEFINE mode == ancModeLabel(p[2])
             level == IF p[2] \in 1 .. 4 THEN ancModeLabel(p[2]) ELSE old[2]
  <2>3. mode \in AncLabels /\ level \in LevelLabels
    BY <2>2, AncLabelsAre, Zenon
  <2>4. v = <<mode, level>>
    BY <1>2, <1>3
  <2> HIDE DEF mode, level
  <2>5. v \in AncLabels \X LevelLabels
    BY <2>3, <2>4
  <2> QED
    BY <1>3, <2>5, LabelValues DEF f, v
<1>4. CASE f = "eq"
  BY <1>2, <1>4, EqLabels DEF f, v
<1>5. CASE f = "spatial"
  <2>1. old \in {"on", "off"} \X {"on", "off"}
    BY <1>5, SwitchesAre DEF f
  <2>2. old[2] \in {"on", "off"}
    BY <2>1
  <2> DEFINE first == OnOff(p[1] = 1)
             second == IF Len(p) > 1 THEN OnOff(p[2] = 1) ELSE old[2]
  <2>3. first \in {"on", "off"} /\ second \in {"on", "off"}
    BY <2>2, LabelValues, Zenon
  <2>4. v = <<first, second>>
    BY <1>2, <1>5
  <2> HIDE DEF first, second
  <2>5. v \in {"on", "off"} \X {"on", "off"}
    BY <2>3, <2>4
  <2> QED
    BY <1>5, <2>5, SwitchesAre DEF f, v
<1>6. CASE f \in {"lag", "dual", "super-mic", "walkie-talkie"}
  <2>1. v = <<OnOff(p[1] = 1)>>
    BY <1>2, <1>6
  <2>2. v \in ValuesOf("lag") /\ ValuesOf(f) = ValuesOf("lag")
    BY <1>6, <2>1, LabelValues, SwitchesAre
  <2> QED
    BY <2>2 DEF f, v
<1> QED
  BY <1>1, <1>3, <1>4, <1>5, <1>6 DEF f

LEMMA SetsOfFeatures == \A f \in Features : featureCommands[f].set # \hF01B
<1>1. \A c, p, set : FeatureCommand(c, p, set).set = set
  BY DEF FeatureCommand
<1>2. \A f \in {"anc", "eq", "spatial", "lag", "dual", "super-mic", "walkie-talkie"} :
        featureCommands[f].set # \hF01B
  BY <1>1, CommandsAre
<1> QED
  BY <1>2, FeaturesAre

LEMMA PeersStay ==
  ASSUME NEW list, list \in PeerLists, NEW new, NEW S,
         new = [i \in DOMAIN list |-> IF list[i].MAC \in S.macs THEN [list[i] EXCEPT !.Connected = S.up]
                                      ELSE list[i]],
         S.up \in BOOLEAN
  PROVE  new \in PeerLists
<1>1. list \in Seq(Peers) /\ Len(list) <= 255 /\ Len(list) \in Nat /\ DOMAIN list = 1 .. Len(list)
  BY DEF PeerLists
<1>2. \A i \in DOMAIN list : list[i] \in Peers
  BY <1>1
<1>3. \A d \in Peers : [d EXCEPT !.Connected = S.up] \in Peers
  BY DEF Peers
<1>4. new \in [1 .. Len(list) -> Peers]
  BY <1>1, <1>2, <1>3
<1>5. new \in Seq(Peers) /\ Len(new) = Len(list)
  BY <1>1, <1>4, FunctionIsSeq
<1> QED
  BY <1>1, <1>5 DEF PeerLists

LEMMA StateParts ==
  ASSUME NEW b, NEW d, IsState(b, d)
  PROVE  /\ \A peers \in PeerLists : IsState([b EXCEPT !.peers = peers], d)
         /\ \A f \in Own(d) : \A v \in ValuesOf(f) : IsState([b EXCEPT !.set[f] = v], d)
         /\ \A f : f \notin Own(d) => \A v : IsState([b EXCEPT !.set[f] = v], d)
         /\ \A part \in DOMAIN b.battery : \A v \in BatteryValues : IsState([b EXCEPT !.battery[part] = v], d)
<1>1. ASSUME NEW peers \in PeerLists PROVE IsState([b EXCEPT !.peers = peers], d)
  BY DEF IsState
<1>2. ASSUME NEW f, NEW v, f \in Own(d) => v \in ValuesOf(f) PROVE IsState([b EXCEPT !.set[f] = v], d)
  <2> DEFINE set == [b.set EXCEPT ![f] = v]
             new == [b EXCEPT !.set = set]
  <2>1. DOMAIN set = Own(d) /\ \A x \in Own(d) : set[x] \in ValuesOf(x)
    BY <1>2 DEF IsState
  <2> HIDE DEF set
  <2>2. IsState(new, d)
    BY <2>1 DEF IsState
  <2> QED
    BY <2>2 DEF set
<1>3. ASSUME NEW part \in DOMAIN b.battery, NEW v \in BatteryValues
      PROVE  IsState([b EXCEPT !.battery[part] = v], d)
  <2> DEFINE battery == [b.battery EXCEPT ![part] = v]
             new == [b EXCEPT !.battery = battery]
  <2>1. IsPartMap(battery, BatteryValues)
    BY DEF IsState, IsPartMap
  <2> HIDE DEF battery
  <2>2. IsState(new, d)
    BY <2>1 DEF IsState
  <2> QED
    BY <2>2 DEF battery
<1> QED
  BY <1>1, <1>2, <1>3

LEMMA ObeyStays ==
  ASSUME NEW b, NEW d, IsState(b, d), NEW pkt
  PROVE  IsState(Obey(b, pkt), d)
<1> DEFINE isSet == \E f \in Features : featureCommands[f].set = pkt.cmd
           f == FeatureOfSet(pkt.cmd)
<1>1. CASE pkt.cmd = \hF01B
  <2> DEFINE list == b.peers
             S == [macs |-> {Tail(pkt.payload)}, up |-> pkt.payload[1] = 1]
             new == [i \in DOMAIN list |-> IF list[i].MAC = Tail(pkt.payload)
                                           THEN [list[i] EXCEPT !.Connected = pkt.payload[1] = 1] ELSE list[i]]
  <2>1. ~isSet
    BY <1>1, SetsOfFeatures
  <2>2. Obey(b, pkt) = [b EXCEPT !.peers = new]
    BY <1>1, <2>1 DEF Obey
  <2>3. list \in PeerLists
    BY DEF IsState
  <2>4. S.up \in BOOLEAN /\ S.up = (pkt.payload[1] = 1) /\ \A x : x \in S.macs <=> x = Tail(pkt.payload)
    BY Zenon
  <2> HIDE DEF S, list
  <2>5. new = [i \in DOMAIN list |-> IF list[i].MAC \in S.macs THEN [list[i] EXCEPT !.Connected = S.up]
                                     ELSE list[i]]
    BY <2>4
  <2> HIDE DEF new
  <2>6. new \in PeerLists
    BY <2>3, <2>4, <2>5, PeersStay
  <2> QED
    BY <2>2, <2>6, StateParts
<1>2. CASE isSet /\ pkt.cmd # \hF01B
  <2> DEFINE v == SetValue(b.set[f], pkt.cmd, pkt.payload)
  <2>1. f \in Features
    <3>1. isSet
      BY <1>2
    <3> QED
      BY <3>1, Zenon DEF FeatureOfSet
  <2>2. Obey(b, pkt) = [b EXCEPT !.set[f] = v]
    BY <1>2 DEF Obey
  <2>3. CASE f \in Own(d)
    <3>1. b.set[f] \in ValuesOf(f)
      BY <2>3 DEF IsState
    <3>2. v \in ValuesOf(f)
      BY <2>1, <3>1, SetValueFits
    <3> HIDE DEF v, f
    <3> QED
      BY <2>2, <2>3, <3>2, StateParts
  <2>4. CASE f \notin Own(d)
    <3> HIDE DEF v, f
    <3> QED
      BY <2>2, <2>4, StateParts
  <2> QED
    BY <2>3, <2>4
<1>3. CASE ~isSet /\ pkt.cmd # \hF01B
  BY <1>3 DEF Obey
<1> QED
  BY <1>1, <1>2, <1>3

-----------------------------------------------------------------------------
(* The inductive invariant.                                                *)

BudsAre == DOMAIN buds = Earbuds /\ \A d \in Earbuds : IsState(buds[d], d)

HasParts(held) ==
  /\ {"config", "batteries", "earbuds", "dualList"} \subseteq DOMAIN held
  /\ DOMAIN held.config = Features

\* What is held of the earbuds are facts, up to what was guessed.
Within(held, guesses, facts) ==
  /\ \A f \in Features : held.config[f] # <<>> => <<f, held.config[f]>> \in facts
  /\ \A p \in DOMAIN held.batteries : p \in guesses \/ <<p, held.batteries[p]>> \in facts
  /\ \A s \in DOMAIN held.earbuds : <<"ear", s, held.earbuds[s]>> \in facts
  /\ held.dualList # <<>> => <<"peers", held.dualList>> \in facts

\* Each write that is under way, so that the packet in it, if there is one, tells only
\* what was so since the earbuds are connected.
WritesAreTrue == SoundWrites(rx, Was) /\ (link = 0 => rx = <<>>)

ShownIsTrue == HasParts(shown) /\ (link # 0 => Within(shown, guessed, Was))

RInv == BudsAre /\ WritesAreTrue /\ ShownIsTrue

LEMMA WithinShows ==
  ASSUME NEW held, NEW guesses, NEW facts
  PROVE  Within(held, guesses, facts) <=>
           {<<f, held.config[f]>> : f \in {x \in Features : held.config[x] # <<>>}}
             \cup {<<p, held.batteries[p]>> : p \in DOMAIN held.batteries \ guesses}
             \cup {<<"ear", s, held.earbuds[s]>> : s \in DOMAIN held.earbuds}
             \cup (IF held.dualList = <<>> THEN {} ELSE {<<"peers", held.dualList>>})
             \subseteq facts
<1>1. (\A f \in Features : held.config[f] # <<>> => <<f, held.config[f]>> \in facts)
        <=> {<<f, held.config[f]>> : f \in {x \in Features : held.config[x] # <<>>}} \subseteq facts
  BY Zenon
<1>2. (\A p \in DOMAIN held.batteries : p \in guesses \/ <<p, held.batteries[p]>> \in facts)
        <=> {<<p, held.batteries[p]>> : p \in DOMAIN held.batteries \ guesses} \subseteq facts
  BY Zenon
<1>3. (\A s \in DOMAIN held.earbuds : <<"ear", s, held.earbuds[s]>> \in facts)
        <=> {<<"ear", s, held.earbuds[s]>> : s \in DOMAIN held.earbuds} \subseteq facts
  BY Zenon
<1>4. (held.dualList # <<>> => <<"peers", held.dualList>> \in facts)
        <=> (IF held.dualList = <<>> THEN {} ELSE {<<"peers", held.dualList>>}) \subseteq facts
  BY Zenon
<1>5. \A A, B, C, D : A \subseteq facts /\ B \subseteq facts /\ C \subseteq facts /\ D \subseteq facts
                        <=> A \cup B \cup C \cup D \subseteq facts
  BY Zenon
<1> QED
  BY <1>1, <1>2, <1>3, <1>4, <1>5, Zenon DEF Within

LEMMA InvImpliesReported == RInv => ShownWasReported
BY WithinShows, Zenon DEF RInv, ShownIsTrue, ShownWasReported, ShownFacts

LEMMA ClearedIs ==
  ASSUME NEW model, NEW facts, NEW guesses
  PROVE  HasParts(Cleared(model)) /\ Within(Cleared(model), guesses, facts)
<1> DEFINE held == Cleared(model)
<1>1. /\ held.config = [f \in Features |-> <<>>] /\ held.batteries = NoMap /\ held.earbuds = NoMap
      /\ held.dualList = <<>> /\ {"config", "batteries", "earbuds", "dualList"} \subseteq DOMAIN held
  BY DEF Cleared
<1> HIDE DEF held
<1>2. DOMAIN held.config = Features /\ \A f \in Features : held.config[f] = <<>>
  BY <1>1
<1>3. HasParts(held) /\ Within(held, guesses, facts)
  BY <1>1, <1>2, NothingInNone, Zenon DEF HasParts, Within
<1> QED
  BY <1>3 DEF held

LEMMA InitReported == Init => RInv
<1> SUFFICES ASSUME Init PROVE RInv
  OBVIOUS
<1>1. BudsAre
  BY SettingsAssumption, Zenon DEF Init, BudsAre
<1>2. WritesAreTrue
  BY NoWrites, Zenon DEF Init, WritesAreTrue
<1>3. ShownIsTrue
  BY ClearedIs, Zenon DEF Init, ShownIsTrue
<1> QED
  BY <1>1, <1>2, <1>3 DEF RInv

-----------------------------------------------------------------------------
(* The steps.                                                              *)

LEMMA DeviceIs ==
  ASSUME IInv, link # 0
  PROVE  Device \in Earbuds
<1>1. peer \in Seq(Earbuds) /\ Len(peer) # 0
  BY DEF IInv, Types
<1>2. peer # <<>> /\ peer[Len(peer)] \in Earbuds
  BY <1>1
<1> QED
  BY <1>2 DEF Device

LEMMA WasStays ==
  ASSUME UNCHANGED <<linkVars, buds, past>>
  PROVE  Was' = Was
BY DeviceStays, Zenon DEF Was, linkVars

LEMMA WithinGrows ==
  ASSUME NEW held, NEW guesses, NEW facts, NEW more, facts \subseteq more, Within(held, guesses, facts)
  PROVE  Within(held, guesses, more)
BY Zenon DEF Within

\* What is sent makes the session forget at most.
LEMMA Forgets ==
  ASSUME NEW held, HasParts(held), NEW cmd, NEW guesses, NEW facts, NEW new,
         new = [held EXCEPT !.config = ForgetMicMode(@, cmd)]
  PROVE  HasParts(new) /\ (Within(held, guesses, facts) => Within(new, guesses, facts))
<1> DEFINE config == ForgetMicMode(held.config, cmd)
<1>1. DOMAIN config = Features /\ \A f \in Features : config[f] \in {<<>>, held.config[f]}
  BY DEF HasParts, ForgetMicMode
<1>2. /\ new.config = config /\ new.batteries = held.batteries /\ new.earbuds = held.earbuds
      /\ new.dualList = held.dualList /\ DOMAIN new = DOMAIN held
  BY DEF HasParts
<1> HIDE DEF config
<1>3. HasParts(new)
  BY <1>1, <1>2 DEF HasParts
<1>4. ASSUME Within(held, guesses, facts) PROVE Within(new, guesses, facts)
  <2>1. \A f \in Features : new.config[f] # <<>> => <<f, new.config[f]>> \in facts
    BY <1>1, <1>2, <1>4, Zenon DEF Within
  <2> QED
    BY <1>2, <1>4, <2>1, Zenon DEF Within
<1> QED
  BY <1>3, <1>4

\* A step that at most sends.
LEMMA KeepSends ==
  ASSUME RInv, UNCHANGED <<linkVars, buds, past, rx, guessed>>,
         UNCHANGED shown \/ \E pkt : Send(pkt)
  PROVE  RInv'
<1>1. Was' = Was /\ link' = link
  BY WasStays DEF linkVars
<1>2. BudsAre'
  BY DEF RInv, BudsAre
<1>3. WritesAreTrue'
  BY <1>1, Zenon DEF RInv, WritesAreTrue
<1>4. HasParts(shown) /\ (link # 0 => Within(shown, guessed, Was))
  BY DEF RInv, ShownIsTrue
<1>5. HasParts(shown') /\ (link # 0 => Within(shown', guessed, Was))
  <2>1. CASE UNCHANGED shown
    BY <1>4, <2>1
  <2>2. CASE ~UNCHANGED shown
    <3>1. PICK pkt : Send(pkt)
      BY <2>2, Zenon
    <3>2. shown' = [shown EXCEPT !.config = ForgetMicMode(@, pkt.cmd)]
      BY <2>2, <3>1, Zenon DEF Send
    <3> QED
      BY <1>4, <3>2, Forgets
  <2> QED
    BY <2>1, <2>2
<1>6. ShownIsTrue'
  BY <1>1, <1>5, Zenon DEF ShownIsTrue
<1> QED
  BY <1>2, <1>3, <1>6 DEF RInv

\* A step that keeps what is shown, and after which what was so includes what was.
LEMMA KeepShown ==
  ASSUME RInv, link # 0, UNCHANGED <<linkVars, shown, guessed>>, BudsAre', Was \subseteq Was',
         SoundWrites(rx', Was')
  PROVE  RInv'
<1>1. link' # 0
  BY DEF linkVars
<1>2. WritesAreTrue'
  BY <1>1, Zenon DEF WritesAreTrue
<1>3. HasParts(shown') /\ Within(shown', guessed', Was')
  <2>1. HasParts(shown) /\ Within(shown, guessed, Was)
    BY Zenon DEF RInv, ShownIsTrue
  <2>2. Within(shown, guessed, Was')
    BY <2>1, WithinGrows
  <2> QED
    BY <2>1, <2>2, Zenon
<1> QED
  BY <1>2, <1>3, Zenon DEF RInv, ShownIsTrue

LEMMA SaysGrows ==
  ASSUME NEW cmd, NEW p, NEW facts, Says(cmd, p, facts), NEW more, facts \subseteq more
  PROVE  Says(cmd, p, more)
BY DEF Says, Truthful

LEMMA Emits ==
  ASSUME NEW cmd, NEW p, Emit(cmd, p), NEW facts, NEW more, facts \subseteq more, SoundWrites(rx, facts),
         Says(cmd, p, more)
  PROVE  SoundWrites(rx', more)
<1>1. SoundWrites(rx, more)
  BY SoundGrows
<1>2. SoundWrites(Append(rx, MarshalBinary(Packet(cmd, p))), more)
  BY <1>1, SaysSound
<1> QED
  BY <1>2, Zenon DEF Emit

LEMMA Becomes ==
  ASSUME BudsAre, Device \in Earbuds, UNCHANGED linkVars, NEW b, IsState(b, Device), Become(b)
  PROVE  BudsAre' /\ Was \subseteq Was' /\ Facts(b) \subseteq Was'
<1> DEFINE d == Device
<1>1. d' = d
  BY DeviceStays
<1>2. buds' = [buds EXCEPT ![d] = b] /\ past' = past \cup (Facts(buds[d]) \ Facts(b))
  BY Zenon DEF Become
<1> HIDE DEF d
<1>3. DOMAIN buds = Earbuds /\ d \in Earbuds /\ \A x \in Earbuds : IsState(buds[x], x)
  BY Zenon DEF BudsAre, d
<1>4. DOMAIN buds' = Earbuds /\ buds'[d] = b /\ \A x \in Earbuds : x # d => buds'[x] = buds[x]
  BY <1>2, <1>3
<1>5. IsState(b, d)
  BY DEF d
<1>6. \A x \in Earbuds : IsState(buds'[x], x)
  BY <1>3, <1>4, <1>5, Zenon
<1>7. BudsAre'
  BY <1>4, <1>6, Zenon DEF BudsAre
<1>8. Was = past \cup Facts(buds[d]) /\ Was' = past' \cup Facts(buds'[d])
  BY <1>1, Zenon DEF Was, d
<1>9. Was' = past' \cup Facts(b)
  BY <1>4, <1>8, Zenon
<1> QED
  BY <1>2, <1>7, <1>8, <1>9, Zenon

LEMMA HeadMayGo ==
  ASSUME NEW packets, NEW d, IsTraffic(packets, d), packets # <<>>
  PROVE  MayGo(Head(packets), d)
<1>1. PICK S : packets \in Seq(S) /\ \A pkt \in S : MayGo(pkt, d)
  BY Zenon DEF IsTraffic
<1>2. Head(packets) \in S
  BY <1>1
<1> QED
  BY <1>1, <1>2

LEMMA KindsOfSets == \A cmd \in SafeSets \cup OtherSets : Kind(cmd) = 15
<1>1. SafeSets \cup OtherSets \subseteq SetCmds
  BY DEF SafeSets, OtherSets, SetCmds
<1>2. \A cmd \in SetCmds : Kind(cmd) = 15
  BY DEF SetCmds, Kind
<1> QED
  BY <1>1, <1>2

\* What the earbuds are asked, when they are asked something.
LEMMA Asked ==
  ASSUME IInv, RInv, tx # <<>>
  PROVE  /\ link # 0 /\ Device \in Earbuds /\ IsState(buds[Device], Device)
         /\ Facts(buds[Device]) \subseteq Was /\ SoundWrites(rx, Was)
         /\ IF Kind(Head(tx).cmd) = 15 THEN Head(tx).cmd \in SafeSets \cup OtherSets ELSE IsQuery(Head(tx).cmd)
<1>1. link # 0 /\ IsTraffic(tx, Device)
  BY Zenon DEF IInv, TrafficFits
<1>2. Device \in Earbuds
  BY <1>1, DeviceIs
<1>3. IsState(buds[Device], Device)
  BY <1>2, Zenon DEF RInv, BudsAre
<1>4. Facts(buds[Device]) \subseteq Was /\ SoundWrites(rx, Was)
  BY Zenon DEF Was, RInv, WritesAreTrue
<1>5. Allowed(Head(tx).cmd)
  BY <1>1, HeadMayGo, Zenon DEF MayGo
<1>6. IsQuery(Head(tx).cmd) \/ Head(tx).cmd \in SafeSets \cup OtherSets
  BY <1>5, Zenon DEF Allowed
<1>7. IF Kind(Head(tx).cmd) = 15 THEN Head(tx).cmd \in SafeSets \cup OtherSets ELSE IsQuery(Head(tx).cmd)
  BY <1>6, KindsOfSets, QueryAnswers
<1> QED
  BY <1>1, <1>2, <1>3, <1>4, <1>7

LEMMA ReportServeQuery ==
  ASSUME IInv, RInv, ServeQuery
  PROVE  RInv'
<1> DEFINE b == buds[Device]
           cmd == Head(tx).cmd
<1>1. tx # <<>> /\ Kind(cmd) # 15 /\ UNCHANGED <<linkVars, buds, past, shown, guessed>>
  BY DEF ServeQuery, ServeVars, sessionVars
<1>2. /\ link # 0 /\ IsState(b, Device) /\ Facts(b) \subseteq Was /\ SoundWrites(rx, Was)
      /\ IsQuery(cmd)
  BY <1>1, Asked, Zenon
<1>3. Was' = Was /\ BudsAre'
  BY <1>1, WasStays DEF RInv, BudsAre
<1>4. SoundWrites(rx', Was)
  <2>1. CASE FeaturesOfGet(cmd) \subseteq DOMAIN b.set
    <3>1. Emit(ResponseCmd(cmd), Answer(b, cmd))
      BY <2>1, Zenon DEF ServeQuery
    <3>2. Says(ResponseCmd(cmd), Answer(b, cmd), Was)
      BY <1>2, <2>1, AnswerSays, SaysGrows, Zenon
    <3> QED
      BY <1>2, <3>1, <3>2, Emits, Zenon
  <2>2. CASE ~(FeaturesOfGet(cmd) \subseteq DOMAIN b.set)
    BY <1>2, <2>2, Zenon DEF ServeQuery
  <2> QED
    BY <2>1, <2>2
<1> QED
  BY <1>1, <1>2, <1>3, <1>4, KeepShown

LEMMA ReportObeySet ==
  ASSUME IInv, RInv, ObeySet
  PROVE  RInv'
<1> DEFINE b == buds[Device]
           cmd == Head(tx).cmd
           new == Obey(b, Head(tx))
<1>1. /\ tx # <<>> /\ Kind(cmd) = 15 /\ UNCHANGED <<linkVars, shown, guessed>>
      /\ Become(new) /\ Emit(ResponseCmd(cmd), <<0>>)
  BY DEF ObeySet, ServeVars, sessionVars
<1>2. /\ link # 0 /\ Device \in Earbuds /\ IsState(b, Device) /\ SoundWrites(rx, Was)
      /\ cmd \in SafeSets \cup OtherSets
  BY <1>1, Asked, Zenon
<1>3. IsState(new, Device)
  BY <1>2, ObeyStays
<1> HIDE DEF new
<1>4. BudsAre' /\ Was \subseteq Was'
  BY <1>1, <1>2, <1>3, Becomes, Zenon DEF RInv
<1>5. Says(ResponseCmd(cmd), <<0>>, Was')
  BY <1>2, AckOfSetSays
<1>6. SoundWrites(rx', Was')
  BY <1>1, <1>2, <1>4, <1>5, Emits, Zenon
<1> QED
  BY <1>1, <1>2, <1>4, <1>6, KeepShown

LEMMA ReportRefuseSet ==
  ASSUME IInv, RInv, RefuseSet
  PROVE  RInv'
<1> DEFINE cmd == Head(tx).cmd
<1>1. /\ tx # <<>> /\ Kind(cmd) = 15 /\ UNCHANGED <<linkVars, buds, past, shown, guessed>>
      /\ Emit(ResponseCmd(cmd), <<1>>)
  BY DEF RefuseSet, ServeVars, sessionVars
<1>2. link # 0 /\ SoundWrites(rx, Was) /\ cmd \in SafeSets \cup OtherSets
  BY <1>1, Asked, Zenon
<1>3. Was' = Was /\ BudsAre'
  BY <1>1, WasStays DEF RInv, BudsAre
<1>4. Says(ResponseCmd(cmd), <<1>>, Was)
  BY <1>2, AckOfSetSays
<1>5. SoundWrites(rx', Was)
  BY <1>1, <1>2, <1>4, Emits, Zenon
<1> QED
  BY <1>1, <1>2, <1>3, <1>5, KeepShown

\* News of the earbuds that are connected.
LEMMA Happened ==
  ASSUME IInv, RInv, link # 0
  PROVE  /\ Device \in Earbuds /\ IsState(buds[Device], Device) /\ SoundWrites(rx, Was)
         /\ BudsAre
<1>1. Device \in Earbuds
  BY DeviceIs
<1>2. IsState(buds[Device], Device)
  BY <1>1, Zenon DEF RInv, BudsAre
<1> QED
  BY <1>1, <1>2, Zenon DEF RInv, WritesAreTrue

\* What the earbuds may change by themselves or send: the assumption, in parts.
LEMMA NewsAre ==
  ASSUME NEW n, n \in News
  PROVE  /\ n.what \in Features => n.value \in ValuesOf(n.what)
         /\ n.what \in PartNames => n.value \in BatteryValues
         /\ n.what = "peers" => n.value \in PeerLists
         /\ n.what = "packet" => n.value \in Packets /\ Parsers(n.value.cmd) = {}
         /\ n.what = "bytes" => n.value \in Seq(Bytes) /\ NoPacket(n.value)
<1>1. n.what \in Features => n.value \in ValuesOf(n.what)
  BY NewsAssumption
<1>2. n.what \in PartNames => n.value \in BatteryValues
  BY NewsAssumption
<1>3. n.what = "peers" => n.value \in PeerLists
  BY NewsAssumption
<1>4. n.what = "packet" => n.value \in Packets /\ Parsers(n.value.cmd) = {}
  BY NewsAssumption
<1>5. n.what = "bytes" => n.value \in Seq(Bytes) /\ NoPacket(n.value)
  BY NewsAssumption
<1> QED
  BY <1>1, <1>2, <1>3, <1>4, <1>5, Zenon

LEMMA ReportChanges ==
  ASSUME IInv, RInv, NEW n, Changes(n)
  PROVE  RInv'
<1> DEFINE b == buds[Device]
           f == n.what
           v == n.value
           new == [b EXCEPT !.set[f] = v]
<1>1. /\ n \in News /\ link # 0 /\ UNCHANGED <<linkVars, shown, guessed>>
      /\ f \in Features /\ ModelSupportsFeature(Codename(ModelOf[Device]), f) /\ Become(new)
  BY DEF Changes, Happens, NewsVars, sessionVars
<1>2. Device \in Earbuds /\ IsState(b, Device) /\ SoundWrites(rx, Was) /\ BudsAre
  BY <1>1, Happened, Zenon
<1>3. f \in Own(Device) /\ v \in ValuesOf(f)
  BY <1>1, NewsAre, Zenon DEF Own
<1>4. IsState(new, Device)
  BY <1>2, <1>3, StateParts
<1>5. <<f, EventValue(f, v)>> \in Facts(new)
  <2>1. DOMAIN new.set = Own(Device)
    BY <1>4, Zenon DEF IsState
  <2>2. new.set[f] = v
    BY <1>2, <1>3 DEF IsState
  <2> HIDE DEF new
  <2>3. <<f, EventValue(f, new.set[f])>> \in Facts(new)
    BY <1>3, <2>1, SettingFacts, Zenon
  <2> QED
    BY <2>2, <2>3
<1> HIDE DEF new
<1>6. BudsAre' /\ Was \subseteq Was' /\ Facts(new) \subseteq Was'
  BY <1>1, <1>2, <1>4, Becomes, Zenon
<1>7. SoundWrites(rx', Was')
  <2>1. CASE EventOf(f) = 0
    <3>1. rx' = rx
      BY <2>1, Zenon DEF Changes
    <3> QED
      BY <1>2, <1>6, <3>1, SoundGrows, Zenon
  <2>2. CASE EventOf(f) # 0
    <3> DEFINE p == EncodeEvent(f, v)
    <3>1. Emit(EventOf(f), p)
      BY <2>2, Zenon DEF Changes
    <3>2. Says(EventOf(f), p, Was')
      BY <1>1, <1>3, <1>5, <1>6, <2>2, SettingEventSays
    <3> HIDE DEF p
    <3> QED
      BY <1>2, <1>6, <3>1, <3>2, Emits, Zenon
  <2> QED
    BY <2>1, <2>2
<1> QED
  BY <1>1, <1>6, <1>7, KeepShown

LEMMA ReportBatteryChanges ==
  ASSUME IInv, RInv, NEW n, BatteryChanges(n)
  PROVE  RInv'
<1> DEFINE b == buds[Device]
           part == n.what
           v == n.value
           new == [b EXCEPT !.battery[part] = v]
           p == EncodePairs([x \in {part} |-> BatteryByte(v)])
<1>1. /\ n \in News /\ link # 0 /\ UNCHANGED <<linkVars, shown, guessed>>
      /\ part \in DOMAIN b.battery /\ Become(new) /\ Emit(\hE001, p)
  BY DEF BatteryChanges, Happens, NewsVars, sessionVars
<1>2. Device \in Earbuds /\ IsState(b, Device) /\ SoundWrites(rx, Was) /\ BudsAre
  <2>1. link # 0
    BY <1>1
  <2> QED
    BY <2>1, Happened
<1>3. part \in PartNames
  <2>1. part \in DOMAIN b.battery
    BY <1>1
  <2> QED
    BY <1>2, <2>1, Zenon DEF IsState, IsPartMap
<1>4. v \in BatteryValues
  <2>1. n \in News
    BY <1>1
  <2> QED
    BY <1>3, <2>1, NewsAre, Zenon
<1>5. IsState(new, Device)
  BY <1>1, <1>2, <1>4, StateParts
<1>6. part \in DOMAIN new.battery /\ new.battery[part] = v
  BY <1>1, <1>2 DEF IsState
<1> HIDE DEF new
<1>7. BudsAre' /\ Was \subseteq Was' /\ Facts(new) \subseteq Was'
  BY <1>1, <1>2, <1>5, Becomes
<1>8. Says(\hE001, p, Facts(new))
  <2>1. Says(\hE001, EncodePairs([x \in {part} |-> BatteryByte(new.battery[part])]), Facts(new))
    BY <1>3, <1>4, <1>6, BatteryEventSays
  <2> QED
    BY <1>6, <2>1
<1>9. Says(\hE001, p, Was')
  BY <1>7, <1>8, SaysGrows
<1> HIDE DEF p
<1>10. SoundWrites(rx', Was')
  BY <1>1, <1>2, <1>7, <1>9, Emits
<1> QED
  BY <1>1, <1>7, <1>10, KeepShown

LEMMA ReportPeersChange ==
  ASSUME IInv, RInv, NEW n, PeersChange(n)
  PROVE  RInv'
<1> DEFINE b == buds[Device]
           new == [b EXCEPT !.peers = n.value]
<1>1. /\ n \in News /\ link # 0 /\ UNCHANGED <<linkVars, shown, guessed>>
      /\ n.what = "peers" /\ Become(new) /\ Emit(\hE00E, <<1>>)
  BY DEF PeersChange, Happens, NewsVars, sessionVars
<1>2. Device \in Earbuds /\ IsState(b, Device) /\ SoundWrites(rx, Was) /\ BudsAre
  <2>1. link # 0
    BY <1>1
  <2> QED
    BY <2>1, Happened
<1>3. n.value \in PeerLists
  <2>1. n \in News /\ n.what = "peers"
    BY <1>1
  <2> QED
    BY <2>1, NewsAre, Zenon
<1>4. IsState(new, Device)
  BY <1>2, <1>3, StateParts
<1> HIDE DEF new
<1>5. BudsAre' /\ Was \subseteq Was'
  BY <1>1, <1>2, <1>4, Becomes
<1>6. Says(\hE00E, <<1>>, Was')
  BY PeersEventSays
<1>7. SoundWrites(rx', Was')
  BY <1>1, <1>2, <1>5, <1>6, Emits
<1> QED
  BY <1>1, <1>5, <1>7, KeepShown

LEMMA PacketParts ==
  ASSUME NEW pkt, pkt \in Packets
  PROVE  pkt.cmd \in Nat /\ pkt.payload \in Seq(Bytes)
<1>1. pkt \in [cmd : Codes, payload : Seq(Bytes)]
  BY Zenon DEF Packets
<1>2. \A x \in Codes : x \in Nat
  BY DEF Codes
<1> QED
  BY <1>1, <1>2, Zenon

LEMMA ReportSendsPacket ==
  ASSUME IInv, RInv, NEW n, SendsPacket(n)
  PROVE  RInv'
<1> DEFINE cmd == n.value.cmd
           p == n.value.payload
<1>1. /\ n \in News /\ link # 0 /\ UNCHANGED <<linkVars, shown, guessed, buds, past>>
      /\ n.what = "packet" /\ Emit(cmd, p)
  BY DEF SendsPacket, Happens, NewsVars, sessionVars, historyVars
<1>2. SoundWrites(rx, Was)
  BY <1>1, Happened, Zenon
<1>3. n.value \in Packets /\ Parsers(cmd) = {}
  BY <1>1, NewsAre, Zenon
<1>4. cmd \in Nat /\ p \in Seq(Bytes)
  BY <1>3, PacketParts, Zenon
<1> HIDE DEF cmd, p
<1>5. Says(cmd, p, Was)
  <2>1. p \in Seq(Nat)
    BY <1>4, ByteSeqs DEF IsSeq
  <2>2. Truthful(Packet(cmd, p), Was)
    BY <1>3, UnknownTellsNothing
  <2> QED
    BY <1>4, <2>1, <2>2 DEF Says
<1>6. SoundWrites(rx', Was)
  BY <1>1, <1>2, <1>5, Emits
<1>7. Was' = Was /\ BudsAre'
  BY <1>1, WasStays DEF RInv, BudsAre
<1> QED
  BY <1>1, <1>6, <1>7, KeepShown

LEMMA ReportSendsBytes ==
  ASSUME IInv, RInv, NEW n, SendsBytes(n)
  PROVE  RInv'
<1> DEFINE w == n.value
<1>1. /\ n \in News /\ link # 0 /\ UNCHANGED <<linkVars, shown, guessed, buds, past>>
      /\ n.what = "bytes" /\ rx' = Append(rx, w)
  BY DEF SendsBytes, Happens, NewsVars, sessionVars, historyVars
<1>2. SoundWrites(rx, Was)
  BY <1>1, Happened, Zenon
<1>3. w \in Seq(Bytes) /\ NoPacket(w)
  BY <1>1, NewsAre, Zenon
<1> HIDE DEF w
<1>4. w \in Seq(Nat)
  BY <1>3, ByteSeqs DEF IsSeq
<1>5. IsNoise(w) \/ IsHopeless(w)
  BY <1>3, <1>4 DEF NoPacket, IsNoise, IsHopeless
<1>6. Sound(w, Was)
  BY <1>5, Zenon DEF Sound
<1>7. SoundWrites(rx', Was)
  BY <1>1, <1>2, <1>4, <1>6, SoundAppend
<1>8. Was' = Was /\ BudsAre'
  BY <1>1, WasStays DEF RInv, BudsAre
<1> QED
  BY <1>1, <1>7, <1>8, KeepShown

-----------------------------------------------------------------------------
(* A packet is read.                                                       *)

LEMMA Learnt ==
  ASSUME NEW told, NEW facts, ToldFacts(told) \subseteq facts
  PROVE  /\ told.Value # <<>> => \A f \in configKeyForParsedKind(told.Kind) : <<f, told.Value>> \in facts
         /\ told.Kind # "unknown_battery_pairs" =>
              \A p \in DOMAIN told.Batteries : <<p, told.Batteries[p]>> \in facts
         /\ \A s \in DOMAIN told.Earbuds : <<"ear", s, told.Earbuds[s]>> \in facts
         /\ \A l \in told.DualList : l # <<>> => <<"peers", l>> \in facts
<1>1. told.Value # <<>> => \A f \in configKeyForParsedKind(told.Kind) : <<f, told.Value>> \in facts
  BY Zenon DEF ToldFacts
<1>2. told.Kind # "unknown_battery_pairs" =>
        \A p \in DOMAIN told.Batteries : <<p, told.Batteries[p]>> \in facts
  BY Zenon DEF ToldFacts
<1>3. \A s \in DOMAIN told.Earbuds : <<"ear", s, told.Earbuds[s]>> \in facts
  BY Zenon DEF ToldFacts
<1>4. \A l \in told.DualList : l # <<>> => <<"peers", l>> \in facts
  BY Zenon DEF ToldFacts
<1> QED
  BY <1>1, <1>2, <1>3, <1>4, Zenon

LEMMA UpdatedIs ==
  ASSUME NEW current, NEW update, NEW new, new = Updated(current, update)
  PROVE  /\ DOMAIN new = DOMAIN current \cup DOMAIN update
         /\ \A k \in DOMAIN update : new[k] = update[k]
         /\ \A k \in DOMAIN current \ DOMAIN update : new[k] = current[k]
BY Zenon DEF Updated

LEMMA MergedIs ==
  ASSUME NEW current, NEW update, NEW new, new = mergeBatteries(current, update)
  PROVE  /\ DOMAIN new \subseteq DOMAIN current \cup DOMAIN update
         /\ \A p \in DOMAIN new :
              new[p] = IF p \in DOMAIN update THEN update[p] ELSE current[p]
<1> DEFINE out == Updated(current, update)
<1>1. /\ DOMAIN out = DOMAIN current \cup DOMAIN update
      /\ \A p \in DOMAIN out : out[p] = IF p \in DOMAIN update THEN update[p] ELSE current[p]
  BY Zenon DEF Updated
<1>2. new = out \/ new = Restrict(out, DOMAIN out \ {"stereo"})
  BY Zenon DEF mergeBatteries
<1> HIDE DEF out
<1>3. DOMAIN new \subseteq DOMAIN out /\ \A p \in DOMAIN new : new[p] = out[p]
  BY <1>2, Zenon DEF Restrict
<1> QED
  BY <1>1, <1>3, Zenon

\* What a packet that tells only facts leaves behind.
LEMMA LearnsFacts ==
  ASSUME NEW held, NEW guesses, NEW facts, Within(held, guesses, facts),
         NEW told, ToldFacts(told) \subseteq facts, NEW new,
         {"config", "batteries", "earbuds", "dualList"} \subseteq DOMAIN new,
         new.config = recordConfig(held.config, told),
         new.batteries = mergeBatteries(held.batteries, told.Batteries),
         new.earbuds = Updated(held.earbuds, told.Earbuds),
         new.dualList = updateDualList(held.dualList, told),
         NEW more, more = IF told.Kind = "unknown_battery_pairs" THEN guesses \cup DOMAIN told.Batteries
                          ELSE guesses \ DOMAIN told.Batteries
  PROVE  HasParts(new) /\ Within(new, more, facts)
<1>1. /\ DOMAIN new.config = Features
      /\ \A f \in Features :
           new.config[f] = IF f \in configKeyForParsedKind(told.Kind) THEN told.Value ELSE held.config[f]
  BY Zenon DEF recordConfig
<1>2. HasParts(new)
  BY <1>1, Zenon DEF HasParts
<1>3. \A f \in Features : new.config[f] # <<>> => <<f, new.config[f]>> \in facts
  BY <1>1, Learnt, Zenon DEF Within
<1>4. ASSUME NEW p, p \in DOMAIN new.batteries PROVE p \in more \/ <<p, new.batteries[p]>> \in facts
  <2> DEFINE current == held.batteries
             update == told.Batteries
             m == new.batteries
  <2>0. /\ DOMAIN m \subseteq DOMAIN current \cup DOMAIN update
        /\ \A x \in DOMAIN m : m[x] = IF x \in DOMAIN update THEN update[x] ELSE current[x]
    <3>1. m = mergeBatteries(current, update)
      OBVIOUS
    <3> HIDE DEF m, current, update
    <3> QED
      BY <3>1, MergedIs
  <2>1. p \in DOMAIN held.batteries \cup DOMAIN told.Batteries
    BY <1>4, <2>0, Zenon
  <2>2. new.batteries[p] = IF p \in DOMAIN told.Batteries THEN told.Batteries[p] ELSE held.batteries[p]
    BY <1>4, <2>0, Zenon
  <2>3. CASE p \in DOMAIN told.Batteries
    BY <2>2, <2>3, Learnt, Zenon
  <2>4. CASE p \notin DOMAIN told.Batteries
    BY <2>1, <2>2, <2>4, Zenon DEF Within
  <2> QED
    BY <2>3, <2>4
<1>5. \A s \in DOMAIN new.earbuds : <<"ear", s, new.earbuds[s]>> \in facts
  <2> DEFINE current == held.earbuds
             update == told.Earbuds
             m == new.earbuds
  <2>1. m = Updated(current, update)
    OBVIOUS
  <2>2. /\ \A s \in DOMAIN current : <<"ear", s, current[s]>> \in facts
        /\ \A s \in DOMAIN update : <<"ear", s, update[s]>> \in facts
    BY Learnt, Zenon DEF Within
  <2> HIDE DEF m, current, update
  <2>3. /\ DOMAIN m = DOMAIN current \cup DOMAIN update
        /\ \A s \in DOMAIN update : m[s] = update[s]
        /\ \A s \in DOMAIN current \ DOMAIN update : m[s] = current[s]
    BY <2>1, Zenon DEF Updated
  <2>4. \A s \in DOMAIN m : <<"ear", s, m[s]>> \in facts
    BY <2>2, <2>3, Zenon
  <2> QED
    BY <2>4 DEF m
<1>6. new.dualList # <<>> => <<"peers", new.dualList>> \in facts
  <2>1. CASE told.DualList = {}
    BY <2>1, Zenon DEF updateDualList, Within
  <2>2. CASE told.DualList # {}
    <3>1. new.dualList = CHOOSE l \in told.DualList : TRUE
      BY <2>2, Zenon DEF updateDualList
    <3>2. new.dualList \in told.DualList
      BY <2>2, <3>1, Zenon
    <3> QED
      BY <3>2, Learnt, Zenon
  <2> QED
    BY <2>1, <2>2
<1> QED
  BY <1>2, <1>3, <1>4, <1>5, <1>6, Zenon DEF Within

LEMMA ReportHandle ==
  ASSUME IInv, RInv, link # 0, NEW read, read = ReadPacket(Received), read.status = "packet",
         Handle(read)
  PROVE  RInv'
<1> DEFINE told == ParsePacket(read.pkt, Codename(shown.model))
<1>1. /\ UNCHANGED linkVars /\ UNCHANGED buds /\ UNCHANGED past
      /\ rx' = SkipBytes(rx, Len(Received) - Len(read.rest)) /\ handleRaw(read.pkt)
  BY Zenon DEF Handle
<1>2. SoundWrites(rx, Was) /\ BudsAre
  BY Happened, Zenon
<1>3. Truthful(read.pkt, Was) /\ SoundWrites(rx', Was)
  <2>1. \E i, j : ReadAt(rx, read, rx', i, j)
    BY <1>1, <1>2, WhatIsRead, Zenon DEF Received
  <2> QED
    BY <1>2, <2>1, SoundRead
<1>4. ToldFacts(told) \subseteq Was
  BY <1>3, Zenon DEF Truthful
<1>5. Within(shown, guessed, Was)
  BY Zenon DEF RInv, ShownIsTrue
<1>6. /\ shown' = [model |-> autoDetect(shown.model, read.pkt),
                   config |-> recordConfig(shown.config, told),
                   batteries |-> mergeBatteries(shown.batteries, told.Batteries),
                   earbuds |-> Updated(shown.earbuds, told.Earbuds),
                   dualList |-> updateDualList(shown.dualList, told)]
      /\ guessed' = IF told.Kind = "unknown_battery_pairs" THEN guessed \cup DOMAIN told.Batteries
                    ELSE guessed \ DOMAIN told.Batteries
  BY <1>1, Zenon DEF handleRaw
<1> HIDE DEF told
<1>7. /\ {"config", "batteries", "earbuds", "dualList"} \subseteq DOMAIN shown'
      /\ shown'.config = recordConfig(shown.config, told)
      /\ shown'.batteries = mergeBatteries(shown.batteries, told.Batteries)
      /\ shown'.earbuds = Updated(shown.earbuds, told.Earbuds)
      /\ shown'.dualList = updateDualList(shown.dualList, told)
  BY <1>6
<1>8. HasParts(shown') /\ Within(shown', guessed', Was)
  BY <1>4, <1>5, <1>6, <1>7, LearnsFacts
<1>9. Was' = Was /\ link' # 0
  BY <1>1, WasStays DEF linkVars
<1>10. BudsAre'
  BY <1>1, <1>2, Zenon DEF BudsAre
<1>11. WritesAreTrue'
  BY <1>3, <1>9, Zenon DEF WritesAreTrue
<1>12. ShownIsTrue'
  BY <1>8, <1>9, Zenon DEF ShownIsTrue
<1> QED
  BY <1>10, <1>11, <1>12 DEF RInv

-----------------------------------------------------------------------------
(* The link.                                                               *)

\* Nothing is shown, nothing is under way.
LEMMA ReportCleared ==
  ASSUME RInv, NEW model, shown' = Cleared(model), rx' = <<>>, UNCHANGED buds
  PROVE  RInv'
<1>1. BudsAre'
  BY Zenon DEF RInv, BudsAre
<1>2. WritesAreTrue'
  BY NoWrites, Zenon DEF WritesAreTrue
<1>3. ShownIsTrue'
  BY ClearedIs, Zenon DEF ShownIsTrue
<1> QED
  BY <1>1, <1>2, <1>3 DEF RInv

LEMMA ReportDisconnected ==
  ASSUME RInv, Disconnected
  PROVE  RInv'
<1>1. shown' = Cleared("") /\ rx' = <<>> /\ UNCHANGED buds
  BY DEF Disconnected, NoLink, LostVars
<1> QED
  BY <1>1, ReportCleared

LEMMA ReportConnect ==
  ASSUME RInv, NEW d, Connect(d)
  PROVE  RInv'
<1> DEFINE model == IF d \in Named THEN ModelOf[d] ELSE ""
<1>1. shown' = Cleared(model) /\ rx' = <<>> /\ UNCHANGED buds
  BY DEF Connect, NoLink, ClearedAtConnect
<1> HIDE DEF model
<1> QED
  BY <1>1, ReportCleared

LEMMA ReportRead ==
  ASSUME IInv, RInv, Read
  PROVE  RInv'
<1>1. PICK read : /\ read = ReadPacket(Received) /\ link # 0
                  /\ (read.status = "packet" /\ Handle(read)) \/ Disconnected
  BY Zenon DEF Read
<1> QED
  BY <1>1, ReportHandle, ReportDisconnected

-----------------------------------------------------------------------------
(* What asks.                                                              *)

LEMMA ReportProbeStep ==
  ASSUME RInv, NEW l, ProbeStep(l)
  PROVE  RInv'
<1>1. CASE ProbeSends(l)
  <2>1. UNCHANGED <<linkVars, buds, past, rx, guessed>> /\ \E pkt : Send(pkt)
    BY <1>1, Zenon DEF ProbeSends, SendVars
  <2> QED
    BY <2>1, KeepSends
<1>2. CASE ProbeSkips(l) \/ ProbeStops(l)
  <2>1. UNCHANGED <<linkVars, buds, past, rx, guessed>> /\ UNCHANGED shown
    BY <1>2, Zenon DEF ProbeSkips, ProbeStops, sessionVars, historyVars
  <2> QED
    BY <2>1, KeepSends
<1> QED
  BY <1>1, <1>2, Zenon DEF ProbeStep

LEMMA ReportPoll ==
  ASSUME RInv, Poll
  PROVE  RInv'
<1> DEFINE pkt == Packet(\hC007, <<>>)
<1>1. UNCHANGED <<linkVars, buds, past, rx, guessed>> /\ Send(pkt)
  BY DEF Poll, SendVars
<1> HIDE DEF pkt
<1> QED
  BY <1>1, KeepSends

LEMMA ReportLater ==
  ASSUME RInv, NEW kind, Later(kind)
  PROVE  RInv'
<1> DEFINE pkt == IF kind = "features" THEN Packet(\hC00D, <<>>) ELSE listPacket
<1>1. /\ UNCHANGED <<linkVars, buds, past, rx, guessed>>
      /\ Send(pkt) \/ UNCHANGED shown
  BY DEF Later
<1> HIDE DEF pkt
<1> QED
  BY <1>1, KeepSends

LEMMA ReportAsk ==
  ASSUME RInv, NEW a, Ask(a)
  PROVE  RInv'
<1>1. UNCHANGED <<linkVars, buds, past, rx, guessed>> /\ UNCHANGED shown
  BY Zenon DEF Ask, sessionVars, historyVars
<1> QED
  BY <1>1, KeepSends

LEMMA ReportJobStep ==
  ASSUME RInv, JobStep
  PROVE  RInv'
<1>1. CASE SameConnection \/ DeviceCheck \/ Capture \/ Readback \/ Confirm \/ Get \/ Build
  <2>1. Quietly
    BY <1>1, Zenon DEF SameConnection, DeviceCheck, Capture, Readback, Confirm, Get, Build
  <2>2. UNCHANGED <<linkVars, buds, past, rx, guessed>> /\ UNCHANGED shown
    BY <2>1, Zenon DEF Quietly, JobVars
  <2> QED
    BY <2>2, KeepSends
<1>2. CASE JobSends
  <2>1. UNCHANGED <<linkVars, buds, past, rx, guessed>> /\ \E pkt : Send(pkt)
    BY <1>2, Zenon DEF JobSends, JobVars
  <2> QED
    BY <2>1, KeepSends
<1> QED
  BY <1>1, <1>2, Zenon DEF JobStep

LEMMA ReportServe ==
  ASSUME IInv, RInv, Serve
  PROVE  RInv'
BY ReportServeQuery, ReportObeySet, ReportRefuseSet, Zenon DEF Serve

LEMMA ReportNews ==
  ASSUME IInv, RInv, NEW n,
         Changes(n) \/ BatteryChanges(n) \/ PeersChange(n) \/ SendsPacket(n) \/ SendsBytes(n)
  PROVE  RInv'
BY ReportChanges, ReportBatteryChanges, ReportPeersChange, ReportSendsPacket, ReportSendsBytes, Zenon

LEMMA StepReported == IInv /\ RInv /\ [Next]_vars => RInv'
<1> SUFFICES ASSUME IInv, RInv, [Next]_vars PROVE RInv'
  OBVIOUS
<1>1. ASSUME NEW d \in Earbuds, Connect(d) PROVE RInv'
  BY <1>1, ReportConnect, Zenon
<1>2. CASE Lose
  BY <1>2, ReportDisconnected, Zenon DEF Lose
<1>3. CASE Poll
  BY <1>3, ReportPoll
<1>4. CASE Read
  BY <1>4, ReportRead
<1>5. CASE Serve
  BY <1>5, ReportServe
<1>6. CASE JobStep
  BY <1>6, ReportJobStep
<1>7. ASSUME NEW l, ProbeStep(l) PROVE RInv'
  BY <1>7, ReportProbeStep
<1>8. ASSUME NEW kind, Later(kind) PROVE RInv'
  BY <1>8, ReportLater
<1>9. ASSUME NEW n,
             Changes(n) \/ BatteryChanges(n) \/ PeersChange(n) \/ SendsPacket(n) \/ SendsBytes(n)
      PROVE  RInv'
  BY <1>9, ReportNews, Zenon
<1>10. ASSUME NEW a, Ask(a) PROVE RInv'
  BY <1>10, ReportAsk
<1>11. CASE UNCHANGED vars
  <2>1. UNCHANGED <<linkVars, buds, past, rx, guessed>> /\ UNCHANGED shown
    BY <1>11, Zenon DEF vars, sessionVars, historyVars
  <2> QED
    BY <2>1, KeepSends
<1> QED
  BY <1>1, <1>2, <1>3, <1>4, <1>5, <1>6, <1>7, <1>8, <1>9, <1>10, <1>11, Zenon DEF Next

\* Whatever the window shows of the earbuds that are connected (the settings, the batteries,
\* the state of each of them, the list of peers) was so with them since they are connected:
\* through the encoding of the firmware, the stream of bytes, the choice of the parser and
\* the merging of what was known, for any number of earbuds, connections and requests
\* (handleRaw, parse_dispatch.go, livestate.go).
THEOREM Reported == Spec => []ShownWasReported
<1>1. Spec => []IInv
  BY Invariant
<1>2. Spec => []RInv
  BY <1>1, InitReported, StepReported, PTL DEF Spec
<1> QED
  BY <1>2, InvImpliesReported, PTL

-----------------------------------------------------------------------------
(* Walkie Talkie is switched on with care.                                 *)

WalkieOn == Packet(\hF061, <<1>>)

\* A step that does not switch Walkie Talkie on, whatever the model is by then.
Harmless(step) ==
  /\ step.do = "send" => step.pkt # WalkieOn
  /\ step.do \in {"execute", "readback", "get"} =>
       \A model : WalkieOn \notin FeatureCommandPacket(step.words, model)

\* The step that ends the job unless Super Mic is seen to be on.
IsConfirm(step) == step.do = "confirm" /\ step.words = <<"super-mic", "on">>

IsList(todo) == \E S : todo \in Seq(S)

Confirms(todo) == \E k \in 1 .. Len(todo) : IsConfirm(todo[k])

\* Whatever switches Walkie Talkie on comes behind such a step.
Guarded(todo) ==
  /\ IsList(todo)
  /\ \A n \in 1 .. Len(todo) : Harmless(todo[n]) \/ \E k \in 1 .. n - 1 : IsConfirm(todo[k])

MicSeen == <<"super-mic", <<"on">>>> \in Was

\* A job that belongs to the connection that is up is guarded, or what its guard looks
\* for has been seen.
Careful ==
  /\ \E todo, l : job = [todo |-> todo, link |-> l] /\ IsList(todo)
  /\ job.link \in 0 .. Len(peer)
  /\ job.link = link /\ link # 0 => MicSeen \/ Guarded(job.todo)

LEMMA JoinedGuarded ==
  ASSUME NEW a, NEW b, Guarded(a), IsList(b), Guarded(b) \/ Confirms(a)
  PROVE  Guarded(a \o b) /\ (Confirms(a) \/ Confirms(b) => Confirms(a \o b))
<1>1. PICK S : a \in Seq(S)
  BY Zenon DEF Guarded, IsList
<1>2. PICK T : b \in Seq(T)
  BY Zenon DEF IsList
<1> DEFINE c == a \o b
<1>3. /\ c \in Seq(S \cup T) /\ Len(c) = Len(a) + Len(b) /\ Len(a) \in Nat /\ Len(b) \in Nat
      /\ \A n \in 1 .. Len(a) : c[n] = a[n]
      /\ \A n \in Len(a) + 1 .. Len(a) + Len(b) : c[n] = b[n - Len(a)]
  BY <1>1, <1>2
<1>4. IsList(c)
  BY <1>3, Zenon DEF IsList
<1> HIDE DEF c
<1>5. Confirms(a) => \A n \in Len(a) + 1 .. Len(c) : \E k \in 1 .. n - 1 : IsConfirm(c[k])
  <2>1. SUFFICES ASSUME Confirms(a), NEW n \in Len(a) + 1 .. Len(c) PROVE \E k \in 1 .. n - 1 : IsConfirm(c[k])
    OBVIOUS
  <2>2. PICK k \in 1 .. Len(a) : IsConfirm(a[k])
    BY <2>1, Zenon DEF Confirms
  <2>3. k \in 1 .. n - 1
    BY <1>3, <2>1
  <2> QED
    BY <1>3, <2>2, <2>3, Zenon
<1>6. ASSUME NEW n \in 1 .. Len(c) PROVE Harmless(c[n]) \/ \E k \in 1 .. n - 1 : IsConfirm(c[k])
  <2>1. CASE n <= Len(a)
    <3>1. n \in 1 .. Len(a)
      BY <1>3, <2>1
    <3>2. Harmless(a[n]) \/ \E k \in 1 .. n - 1 : IsConfirm(a[k])
      BY <3>1, Zenon DEF Guarded
    <3> QED
      BY <1>3, <3>1, <3>2
  <2>2. CASE n > Len(a) /\ Confirms(a)
    <3>1. n \in Len(a) + 1 .. Len(c)
      BY <1>3, <2>2
    <3> QED
      BY <1>5, <2>2, <3>1, Zenon
  <2>3. CASE n > Len(a) /\ Guarded(b)
    <3> DEFINE m == n - Len(a)
    <3>1. m \in 1 .. Len(b) /\ c[n] = b[m]
      BY <1>3, <2>3
    <3>2. Harmless(b[m]) \/ \E k \in 1 .. m - 1 : IsConfirm(b[k])
      BY <2>3, <3>1 DEF Guarded
    <3>3. ASSUME NEW k \in 1 .. m - 1, IsConfirm(b[k]) PROVE \E j \in 1 .. n - 1 : IsConfirm(c[j])
      <4> DEFINE j == k + Len(a)
      <4>1. j \in Len(a) + 1 .. Len(a) + Len(b) /\ j \in 1 .. n - 1 /\ j - Len(a) = k
        BY <1>3, <3>1
      <4> HIDE DEF j
      <4>2. c[j] = b[k]
        BY <1>3, <4>1
      <4> QED
        BY <3>3, <4>1, <4>2
    <3> QED
      BY <3>1, <3>2, <3>3
  <2> QED
    BY <1>3, <2>1, <2>2, <2>3
<1>7. Guarded(c)
  BY <1>4, <1>6, Zenon DEF Guarded
<1>8. ASSUME Confirms(a) \/ Confirms(b) PROVE Confirms(c)
  <2>1. CASE Confirms(a)
    BY <1>3, <2>1 DEF Confirms
  <2>2. CASE Confirms(b)
    <3>1. PICK k \in 1 .. Len(b) : IsConfirm(b[k])
      BY <2>2, Zenon DEF Confirms
    <3>2. k + Len(a) \in 1 .. Len(c) /\ c[k + Len(a)] = b[k]
      BY <1>3
    <3> QED
      BY <3>1, <3>2 DEF Confirms
  <2> QED
    BY <1>8, <2>1, <2>2
<1> QED
  BY <1>7, <1>8 DEF c

LEMMA HarmlessList ==
  ASSUME NEW S, NEW todo \in Seq(S), \A step \in S : Harmless(step)
  PROVE  Guarded(todo)
<1>1. IsList(todo)
  BY Zenon DEF IsList
<1>2. \A n \in 1 .. Len(todo) : Harmless(todo[n])
  OBVIOUS
<1> QED
  BY <1>1, <1>2, Zenon DEF Guarded

LEMMA ListsAre ==
  /\ \A todo : Guarded(todo) => IsList(todo)
  /\ \A todo : IsProgram(todo) => IsList(todo)
BY Zenon DEF Guarded, IsProgram, IsList

LEMMA OneHarmless ==
  ASSUME NEW step, Harmless(step)
  PROVE  Guarded(<<step>>)
<1> DEFINE S == {step}
<1>1. <<step>> \in Seq(S) /\ \A x \in S : Harmless(x)
  OBVIOUS
<1> HIDE DEF S
<1> QED
  BY <1>1, HarmlessList

LEMMA NothingToDo == Guarded(<<>>)
<1> DEFINE S == {}
<1>1. <<>> \in Seq(S) /\ \A x \in S : Harmless(x)
  OBVIOUS
<1> HIDE DEF S
<1> QED
  BY <1>1, HarmlessList

LEMMA OneConfirm ==
  ASSUME NEW step, IsConfirm(step)
  PROVE  Confirms(<<step>>)
BY DEF Confirms

\* The first step is harmless, and no other step is less guarded once it is done, unless
\* it is the guard.
LEMMA GuardedGoesOn ==
  ASSUME NEW todo, Guarded(todo), todo # <<>>
  PROVE  /\ Harmless(Head(todo))
         /\ ~IsConfirm(Head(todo)) => Guarded(Tail(todo))
         /\ \A step : Harmless(step) /\ ~IsConfirm(Head(todo)) => Guarded([todo EXCEPT ![1] = step])
<1>1. PICK S : todo \in Seq(S)
  BY Zenon DEF Guarded, IsList
<1>2. \A n \in 1 .. Len(todo) : Harmless(todo[n]) \/ \E k \in 1 .. n - 1 : IsConfirm(todo[k])
  BY Zenon DEF Guarded
<1>3. Len(todo) \in Nat \ {0} /\ Head(todo) = todo[1]
  BY <1>1
<1>4. Harmless(Head(todo))
  BY <1>2, <1>3
<1>5. ASSUME ~IsConfirm(Head(todo)) PROVE Guarded(Tail(todo))
  <2> DEFINE t == Tail(todo)
  <2>1. t \in Seq(S) /\ Len(t) = Len(todo) - 1 /\ \A n \in 1 .. Len(t) : t[n] = todo[n + 1]
    BY <1>1, <1>3
  <2> HIDE DEF t
  <2>2. ASSUME NEW n \in 1 .. Len(t) PROVE Harmless(t[n]) \/ \E k \in 1 .. n - 1 : IsConfirm(t[k])
    <3>1. n + 1 \in 1 .. Len(todo) /\ t[n] = todo[n + 1] /\ (n + 1) - 1 = n
      BY <1>3, <2>1
    <3>2. Harmless(todo[n + 1]) \/ \E k \in 1 .. n : IsConfirm(todo[k])
      BY <1>2, <3>1
    <3>3. ASSUME NEW k \in 1 .. n, IsConfirm(todo[k]) PROVE \E j \in 1 .. n - 1 : IsConfirm(t[j])
      <4>1. k # 1
        BY <1>3, <1>5, <3>3
      <4>2. k - 1 \in 1 .. n - 1 /\ t[k - 1] = todo[k]
        BY <2>1, <4>1
      <4> QED
        BY <3>3, <4>2
    <3> QED
      BY <3>1, <3>2, <3>3
  <2>3. IsList(t)
    BY <2>1, Zenon DEF IsList
  <2> QED
    BY <2>2, <2>3 DEF Guarded, t
<1>6. ASSUME NEW step, Harmless(step), ~IsConfirm(Head(todo))
      PROVE  Guarded([todo EXCEPT ![1] = step])
  <2> DEFINE t == [todo EXCEPT ![1] = step]
  <2>0. t \in [1 .. Len(todo) -> S \cup {step}]
    BY <1>1
  <2>1. Len(t) = Len(todo) /\ t[1] = step /\ \A n \in 2 .. Len(todo) : t[n] = todo[n]
    BY <1>1, <1>3, <2>0
  <2>2. t \in Seq(S \cup {step})
    <3> DEFINE T == S \cup {step}
    <3>1. t \in [1 .. Len(todo) -> T]
      BY <2>0
    <3> HIDE DEF t, T
    <3>2. t \in Seq(T)
      BY <1>3, <3>1
    <3> QED
      BY <3>2 DEF T
  <2>3. IsList(t)
    BY <2>2, Zenon DEF IsList
  <2> HIDE DEF t
  <2>4. ASSUME NEW n \in 1 .. Len(t) PROVE Harmless(t[n]) \/ \E k \in 1 .. n - 1 : IsConfirm(t[k])
    <3>1. CASE n = 1
      BY <1>6, <2>1, <3>1
    <3>2. CASE n # 1
      <4>1. n \in 2 .. Len(todo) /\ t[n] = todo[n]
        BY <1>3, <2>1, <3>2
      <4>2. Harmless(todo[n]) \/ \E k \in 1 .. n - 1 : IsConfirm(todo[k])
        BY <1>2, <4>1
      <4>3. ASSUME NEW k \in 1 .. n - 1, IsConfirm(todo[k]) PROVE \E j \in 1 .. n - 1 : IsConfirm(t[j])
        <5>1. k \in 2 .. Len(todo)
          BY <1>3, <1>6, <4>1, <4>3
        <5> QED
          BY <2>1, <4>3, <5>1
      <4> QED
        BY <4>1, <4>2, <4>3
    <3> QED
      BY <3>1, <3>2
  <2> QED
    BY <2>3, <2>4 DEF Guarded, t
<1> QED
  BY <1>4, <1>5, <1>6

LEMMA FeatureSets == \A f \in DOMAIN featureCommands : f # "walkie-talkie" => featureCommands[f].set # \hF061
<1>1. ASSUME NEW f \in DOMAIN featureCommands, f # "walkie-talkie"
      PROVE  f \in {"anc", "eq", "spatial", "lag", "dual", "super-mic"}
  BY <1>1 DEF featureCommands, micFeatures
<1>2. \A c, p, set : FeatureCommand(c, p, set).set = set
  BY DEF FeatureCommand
<1>3. \A f \in {"anc", "eq", "spatial", "lag", "dual", "super-mic"} : featureCommands[f].set # \hF061
  BY <1>2, CommandsAre
<1> QED
  BY <1>1, <1>3

\* Only the words that set Walkie Talkie may switch it on.
LEMMA WordsHarmless ==
  ASSUME NEW words, words[1] # "walkie-talkie" \/ Len(words) = 1 \/ words[2] # "set", NEW model
  PROVE  WalkieOn \notin FeatureCommandPacket(words, model)
<1> DEFINE f == words[1]
<1> SUFFICES ASSUME WalkieOn \in FeatureCommandPacket(words, model) PROVE FALSE
  OBVIOUS
<1>1. /\ f \in DOMAIN featureCommands
      /\ \/ WalkieOn = featureCommands[f].get
         \/ WalkieOn = listPacket
         \/ \E connect, word : WalkieOn \in buildFeatureDualConnectPacket(connect, word)
         \/ f # "walkie-talkie" /\ \E args : WalkieOn \in buildFeatureSetPacket(f, model, args)
  BY Zenon DEF FeatureCommandPacket
<1>2. WalkieOn.cmd = \hF061
  BY DEF WalkieOn, Packet
<1>3. ~IsQuery(\hF061)
  BY DEF IsQuery
<1>4. IsQuery(featureCommands[f].get.cmd)
  <2>1. f \in {"anc", "eq", "spatial", "lag", "dual", "super-mic", "walkie-talkie"}
    BY <1>1 DEF featureCommands, micFeatures
  <2>2. GetOf(f) \in {\hC01E, \hC01F, \hC04F, \hC041, \hC027, \hC05E, \hC060}
    BY <2>1, GetsAre
  <2> QED
    BY <2>2, QueriesAreOffered DEF GetOf
<1>5. WalkieOn # listPacket
  BY <1>2 DEF listPacket, Packet
<1>6. ASSUME NEW connect, NEW word, WalkieOn \in buildFeatureDualConnectPacket(connect, word) PROVE FALSE
  BY <1>2, <1>6 DEF buildFeatureDualConnectPacket, Packet
<1>7. ASSUME f # "walkie-talkie", NEW args, WalkieOn \in buildFeatureSetPacket(f, model, args) PROVE FALSE
  <2>1. WalkieOn.cmd = featureCommands[f].set
    BY <1>7 DEF buildFeatureSetPacket, Packet
  <2> QED
    BY <1>1, <1>2, <1>7, <2>1, FeatureSets
<1> HIDE DEF f
<1>8. WalkieOn # featureCommands[f].get
  BY <1>2, <1>3, <1>4
<1> QED
  BY <1>1, <1>5, <1>6, <1>7, <1>8, Zenon

LEMMA LastAlone ==
  ASSUME NEW a, NEW b, NEW c
  PROVE  SubSeq(<<a, b, c>>, 3, 3) = <<c>>
<1> DEFINE S == {a, b, c}
           front == <<a, b>>
           last == <<c>>
<1>1. IsSeq(S, front, 2) /\ IsSeq(S, last, 1)
  BY DEF IsSeq
<1>2. <<a, b, c>> = front \o last
  OBVIOUS
<1> HIDE DEF S, front, last
<1>3. SubSeq(front \o last, 2 + 1, 2 + 1) = last
  <2> DEFINE s == front \o last
  <2>1. Two(S, s, front, 2, last, 1)
    BY <1>1, TwoConcat
  <2> HIDE DEF s
  <2>2. SubSeq(s, 2 + 1, 2 + 1) = last
    BY <2>1 DEF Two
  <2> QED
    BY <2>2 DEF s
<1>4. 2 + 1 = 3
  OBVIOUS
<1> QED
  BY <1>2, <1>3, <1>4, Zenon DEF last

LEMMA OffHarmless ==
  ASSUME NEW model
  PROVE  WalkieOn \notin FeatureCommandPacket(<<"walkie-talkie", "set", "off">>, model)
<1> DEFINE words == <<"walkie-talkie", "set", "off">>
<1> SUFFICES ASSUME WalkieOn \in FeatureCommandPacket(words, model) PROVE FALSE
  OBVIOUS
<1>0. SubSeq(words, 3, 3) = <<"off">>
  BY LastAlone, Zenon
<1>1. /\ words[1] = "walkie-talkie" /\ words[2] = "set" /\ Len(words) = 3 /\ Len(words) # 1
  OBVIOUS
<1> HIDE DEF words
<1> DEFINE args == SubSeq(words, 3, Len(words))
<1>2. args = <<"off">>
  BY <1>0, <1>1, Zenon DEF args
<1> HIDE DEF args
<1>3. WalkieOn \in buildFeatureSetPacket("walkie-talkie", model, args)
  BY <1>1, Zenon DEF FeatureCommandPacket, args
<1>4. PICK p \in BuildSetPayload("walkie-talkie", model, args) :
        WalkieOn = Packet(featureCommands["walkie-talkie"].set, p)
  BY <1>3, Zenon DEF buildFeatureSetPacket
<1>5. p = <<1>>
  <2>1. \A c, x : Packet(c, x).payload = x
    BY DEF Packet
  <2> QED
    BY <1>4, <2>1 DEF WalkieOn
<1>6. p \in buildMicPayload(model, <<"off">>)
  BY <1>2, <1>4, Zenon DEF BuildSetPayload
<1>7. Len(<<"off">>) = 1 /\ <<"off">>[1] = "off"
  OBVIOUS
<1>8. PICK c : c \in parseBoolByte("off") /\ p = <<c>>
  <2> DEFINE ok(c) == ValidateMicCommand(Packet(\hF061, <<c>>), model)
             word == <<"off">>
  <2>1. Len(word) = 1 /\ word[1] = "off"
    BY <1>7
  <2>2. p \in buildMicPayload(model, word)
    BY <1>6
  <2> HIDE DEF word
  <2>3. p \in {<<b>> : b \in {c \in parseBoolByte(word[1]) : ok(c)}}
    BY <2>1, <2>2, SMT DEF buildMicPayload
  <2> HIDE DEF ok
  <2> QED
    BY <2>1, <2>3, Zenon
<1>9. c = 1
  BY <1>5, <1>8
<1>10. 1 \in parseBoolByte("off")
  BY <1>8, <1>9
<1> QED
  BY <1>10 DEF parseBoolByte

LEMMA StepsHarmless ==
  /\ \A do \in {"same", "capture", "device", "confirm"} : \A words, pkt : Harmless(Step(do, words, pkt))
  /\ \A words : (\A model : WalkieOn \notin FeatureCommandPacket(words, model)) =>
       \A do \in {"execute", "readback", "get"} : \A pkt : Harmless(Step(do, words, pkt))
  /\ \A pkt : pkt # WalkieOn => Harmless(Step("send", <<>>, pkt))
<1>1. \A do, words, pkt : LET s == Step(do, words, pkt) IN s.do = do /\ s.words = words /\ s.pkt = pkt
  BY DEF Step
<1>2. \A do \in {"same", "capture", "device", "confirm"} : \A words, pkt : Harmless(Step(do, words, pkt))
  BY <1>1 DEF Harmless
<1>3. \A words : (\A model : WalkieOn \notin FeatureCommandPacket(words, model)) =>
        \A do \in {"execute", "readback", "get"} : \A pkt : Harmless(Step(do, words, pkt))
  BY <1>1 DEF Harmless
<1>4. \A pkt : pkt # WalkieOn => Harmless(Step("send", <<>>, pkt))
  BY <1>1 DEF Harmless
<1> QED
  BY <1>2, <1>3, <1>4

LEMMA CommandsHarmless == \A cmd : Harmless(SendCommand(cmd))
<1>1. \A cmd : Packet(cmd, <<>>) # WalkieOn
  BY DEF Packet, WalkieOn
<1> QED
  BY <1>1, StepsHarmless DEF SendCommand

LEMMA ChecksGuarded == Guarded(<<Check("same")>>) /\ Guarded(requireCapture)
<1>1. Harmless(Check("same")) /\ Harmless(Check("capture"))
  BY StepsHarmless DEF Check
<1>2. Guarded(<<Check("same")>>) /\ Guarded(<<Check("capture")>>)
  BY <1>1, OneHarmless
<1>3. requireCapture = <<Check("same")>> \o <<Check("capture")>>
  BY DEF requireCapture
<1> QED
  BY <1>2, <1>3, ListsAre, JoinedGuarded

LEMMA ReadbackGuarded ==
  ASSUME NEW write, NEW read, \A model : WalkieOn \notin FeatureCommandPacket(write, model),
         \A model : WalkieOn \notin FeatureCommandPacket(read, model)
  PROVE  Guarded(executeAndReadback(write, read))
<1> DEFINE a == Execute(write)
           b == Step("readback", read, Packet(0, <<>>))
<1>1. Harmless(a) /\ Harmless(b)
  BY StepsHarmless, Zenon DEF Execute
<1>2. executeAndReadback(write, read) = <<a>> \o <<b>>
  BY DEF executeAndReadback
<1> HIDE DEF a, b
<1> QED
  BY <1>1, <1>2, OneHarmless, ListsAre, JoinedGuarded

LEMMA SetGuarded ==
  ASSUME NEW f, NEW value, \A model : WalkieOn \notin FeatureCommandPacket(<<f, "set", value>>, model)
  PROVE  Guarded(<<Check("same")>> \o executeAndReadback(<<f, "set", value>>, <<f, "get">>))
<1> DEFINE read == <<f, "get">>
<1>1. read[2] # "set"
  OBVIOUS
<1> HIDE DEF read
<1>2. Guarded(executeAndReadback(<<f, "set", value>>, read))
  BY <1>1, WordsHarmless, ReadbackGuarded
<1> QED
  BY <1>2, ChecksGuarded, ListsAre, JoinedGuarded DEF read

LEMMA MicGuarded ==
  ASSUME NEW f, NEW value, \A model : WalkieOn \notin FeatureCommandPacket(<<f, "set", value>>, model)
  PROVE  /\ Guarded(writeMicMode(f, value))
         /\ f = "super-mic" /\ value = "on" => Confirms(writeMicMode(f, value))
<1> DEFINE before == <<Check("same")>> \o executeAndReadback(<<f, "set", value>>, <<f, "get">>)
           confirm == Step("confirm", <<f, value>>, Packet(0, <<>>))
<1>1. Guarded(before)
  BY SetGuarded
<1>2. Guarded(<<confirm>>)
  BY StepsHarmless, OneHarmless
<1>3. f = "super-mic" /\ value = "on" => Confirms(<<confirm>>)
  BY OneConfirm DEF IsConfirm, Step
<1>4. writeMicMode(f, value) = before \o <<confirm>>
  BY Zenon DEF writeMicMode
<1> HIDE DEF before, confirm
<1> QED
  BY <1>1, <1>2, <1>3, <1>4, ListsAre, JoinedGuarded

LEMMA FeatureGuarded ==
  ASSUME NEW f, NEW value, f = "walkie-talkie" => value \in {"on", "off"}
  PROVE  Guarded(Feature(f, value))
<1>1. CASE f # "walkie-talkie"
  <2> DEFINE write == <<f, "set", value>>
  <2>1. write[1] # "walkie-talkie"
    BY <1>1
  <2> HIDE DEF write
  <2>2. \A model : WalkieOn \notin FeatureCommandPacket(write, model)
    BY <2>1, WordsHarmless, Zenon
  <2> QED
    BY <1>1, <2>2, SetGuarded, Zenon DEF Feature, write
<1>2. CASE f = "walkie-talkie" /\ value = "off"
  <2>1. Guarded(writeMicMode("walkie-talkie", "off"))
    BY OffHarmless, MicGuarded
  <2>2. Guarded(<<>> \o writeMicMode("walkie-talkie", "off"))
    BY <2>1, NothingToDo, ListsAre, JoinedGuarded, Zenon
  <2>3. Feature(f, value) = <<>> \o writeMicMode("walkie-talkie", "off")
    BY <1>2 DEF Feature, WalkieTalkie
  <2> QED
    BY <2>2, <2>3
<1>3. CASE f = "walkie-talkie" /\ value = "on"
  <2> DEFINE mic == writeMicMode("super-mic", "on")
             walkie == writeMicMode("walkie-talkie", "on")
  <2>1. Guarded(mic) /\ Confirms(mic)
    <3> DEFINE write == <<"super-mic", "set", "on">>
    <3>1. write[1] # "walkie-talkie"
      OBVIOUS
    <3> HIDE DEF write
    <3>2. \A model : WalkieOn \notin FeatureCommandPacket(write, model)
      BY <3>1, WordsHarmless, Zenon
    <3> QED
      BY <3>2, MicGuarded DEF write
  <2>2. IsList(walkie)
    BY MicPrograms, ListsAre, Zenon
  <2>3. Feature(f, value) = ((requireCapture \o mic) \o requireCapture) \o walkie
    BY <1>3 DEF Feature, WalkieTalkie
  <2> HIDE DEF mic, walkie
  <2>4. Guarded(requireCapture \o mic) /\ Confirms(requireCapture \o mic)
    BY <2>1, ChecksGuarded, ListsAre, JoinedGuarded, Zenon
  <2>5. /\ Guarded((requireCapture \o mic) \o requireCapture)
        /\ Confirms((requireCapture \o mic) \o requireCapture)
    BY <2>4, ChecksGuarded, ListsAre, JoinedGuarded, Zenon
  <2>6. Guarded(((requireCapture \o mic) \o requireCapture) \o walkie)
    BY <2>2, <2>5, JoinedGuarded, Zenon
  <2> QED
    BY <2>3, <2>6
<1> QED
  BY <1>1, <1>2, <1>3

LEMMA RefreshGuarded == Guarded(Refresh)
<1> DEFINE name(i) == <<"anc", "eq", "lag", "spatial", "dual", "super-mic", "walkie-talkie">>[i]
           words(i) == <<name(i), "get">>
           get(i) == Step("get", words(i), Packet(0, <<>>))
           gets == [i \in 1 .. 7 |-> get(i)]
           wear == SendCommand(\hC00A)
           battery == SendCommand(\hC007)
           same == Check("same")
<1>1. Guarded(<<same, wear, battery>>)
  <2>1. Harmless(wear) /\ Harmless(battery) /\ Harmless(same)
    BY StepsHarmless, CommandsHarmless DEF Check
  <2> HIDE DEF wear, battery, same
  <2> DEFINE S == {same, wear, battery}
  <2>2. <<same, wear, battery>> \in Seq(S) /\ \A x \in S : Harmless(x)
    BY <2>1
  <2> HIDE DEF S
  <2> QED
    BY <2>2, HarmlessList
<1>2. Guarded(gets)
  <2> HIDE DEF name
  <2>1. \A i : words(i)[2] # "set"
    OBVIOUS
  <2> HIDE DEF words
  <2>2. \A i : \A model : WalkieOn \notin FeatureCommandPacket(words(i), model)
    BY <2>1, WordsHarmless, Zenon
  <2>3. \A i : Harmless(get(i))
    BY <2>2, StepsHarmless
  <2> HIDE DEF get
  <2> DEFINE S == {get(i) : i \in 1 .. 7}
  <2>4. gets \in Seq(S)
    OBVIOUS
  <2>5. \A x \in S : Harmless(x)
    BY <2>3, Zenon
  <2> HIDE DEF gets, S
  <2> QED
    BY <2>4, <2>5, HarmlessList
<1>3. Refresh = <<same, wear, battery>> \o gets
  BY DEF Refresh
<1> HIDE DEF same, wear, battery, gets
<1> QED
  BY <1>1, <1>2, <1>3, ListsAre, JoinedGuarded

LEMMA PeersGuarded == Guarded(RefreshPeers)
<1> DEFINE words == <<"dual", "list">>
           list == Execute(words)
<1>1. words[2] # "set"
  OBVIOUS
<1> HIDE DEF words
<1>2. Harmless(list)
  BY <1>1, WordsHarmless, StepsHarmless DEF Execute
<1>3. RefreshPeers = <<Check("same")>> \o <<list>>
  BY DEF RefreshPeers, words
<1> HIDE DEF list
<1> QED
  BY <1>2, <1>3, OneHarmless, ChecksGuarded, ListsAre, JoinedGuarded

LEMMA PeerGuarded ==
  ASSUME NEW d
  PROVE  Guarded(DualPeer(d))
<1> DEFINE write == <<"dual", IF d.Connected THEN "disconnect" ELSE "connect", MACWord(d.MAC)>>
           read == <<"dual", "list">>
<1>1. write[1] # "walkie-talkie" /\ read[1] # "walkie-talkie"
  OBVIOUS
<1>2. DualPeer(d) = <<Check("same")>> \o executeAndReadback(write, read)
  BY Zenon DEF DualPeer
<1> HIDE DEF write, read
<1>3. Guarded(executeAndReadback(write, read))
  BY <1>1, WordsHarmless, ReadbackGuarded
<1> QED
  BY <1>2, <1>3, ChecksGuarded, ListsAre, JoinedGuarded

LEMMA ScanGuarded ==
  ASSUME NEW first \in Nat, NEW last \in Nat
  PROVE  Guarded(RunQueryScan(first, last))
<1>1. CASE ~ValidateScanRange(first, last)
  BY <1>1, NothingToDo DEF RunQueryScan
<1>2. CASE ValidateScanRange(first, last)
  <2> DEFINE step(i) == IF i % 2 = 1 THEN Check("device") ELSE SendCommand(first + i \div 2 - 1)
             n == 2 * (last - first + 1)
             steps == [i \in 1 .. n |-> step(i)]
             S == {step(i) : i \in 1 .. n}
  <2>1. first <= last
    BY <1>2 DEF ValidateScanRange
  <2>2. \A i : Harmless(step(i))
    BY StepsHarmless, CommandsHarmless DEF Check
  <2>3. RunQueryScan(first, last) = steps
    BY <1>2 DEF RunQueryScan
  <2>4. n \in Nat
    BY <2>1
  <2> HIDE DEF step, n
  <2>5. steps \in Seq(S)
    BY <2>4
  <2>6. \A x \in S : Harmless(x)
    BY <2>2, Zenon
  <2> HIDE DEF steps, S
  <2> QED
    BY <2>3, <2>5, <2>6, HarmlessList
<1> QED
  BY <1>1, <1>2

LEMMA AskedGuarded ==
  ASSUME NEW a \in Asks, NEW todo \in Programs(a)
  PROVE  Guarded(todo)
<1>1. a.what \in {"feature", "refresh", "peers", "peer", "scan", "command"}
  BY AsksAssumption
<1>2. CASE a.what = "feature"
  <2>1. /\ todo = Feature(a.words[1], a.words[2])
        /\ a.words[1] = "walkie-talkie" => a.words[2] \in {"on", "off"}
    BY <1>2 DEF Programs
  <2> QED
    BY <2>1, FeatureGuarded
<1>3. CASE a.what = "refresh"
  BY <1>3, RefreshGuarded DEF Programs
<1>4. CASE a.what = "peers"
  BY <1>4, PeersGuarded DEF Programs
<1>5. CASE a.what = "peer"
  BY <1>5, PeerGuarded DEF Programs
<1>6. CASE a.what = "scan"
  <2>1. a.cmds[1] \in Nat /\ a.cmds[2] \in Nat
    BY <1>6, AsksAssumption
  <2> QED
    BY <1>6, <2>1, ScanGuarded DEF Programs
<1>7. CASE a.what = "command"
  <2>1. Guarded(executeCatalogCommand(a.cmds[1]))
    BY CommandsHarmless, OneHarmless DEF executeCatalogCommand
  <2> QED
    BY <1>7, <2>1 DEF Programs
<1> QED
  BY <1>1, <1>2, <1>3, <1>4, <1>5, <1>6, <1>7

-----------------------------------------------------------------------------
(* Careful is inductive.                                                   *)

LEMMA InitCareful == Init => Careful
<1> SUFFICES ASSUME Init PROVE Careful
  OBVIOUS
<1>1. job = [todo |-> <<>>, link |-> 0] /\ IsList(<<>>)
  BY NothingToDo, ListsAre, Zenon DEF Init, Idle
<1>2. job.link = 0
  BY <1>1
<1>3. peer = <<>> /\ link = 0
  BY Zenon DEF Init
<1>4. job.link \in 0 .. Len(peer)
  BY <1>2, <1>3
<1> QED
  BY <1>1, <1>3, <1>4, Zenon DEF Careful

\* Nothing that was so is forgotten while the earbuds are connected.
LEMMA BecomeGrows ==
  ASSUME IInv, RInv, link # 0, UNCHANGED linkVars, NEW b, Become(b)
  PROVE  Was \subseteq Was'
<1> DEFINE d == Device
<1>1. d' = d /\ d \in Earbuds
  BY DeviceStays, DeviceIs
<1>2. buds' = [buds EXCEPT ![d] = b] /\ past' = past \cup (Facts(buds[d]) \ Facts(b))
  BY Zenon DEF Become
<1>3. DOMAIN buds = Earbuds
  BY Zenon DEF RInv, BudsAre
<1>4. Was = past \cup Facts(buds[d]) /\ Was' = past' \cup Facts(buds'[d])
  BY <1>1, Zenon DEF Was
<1> HIDE DEF d
<1>5. buds'[d] = b
  BY <1>1, <1>2, <1>3
<1> QED
  BY <1>2, <1>4, <1>5, Zenon

LEMMA CarefulStays ==
  ASSUME Careful, UNCHANGED <<linkVars, job>>, link # 0 => Was \subseteq Was'
  PROVE  Careful'
<1>1. link' = link /\ peer' = peer /\ job' = job
  BY DEF linkVars
<1>2. link # 0 /\ MicSeen => MicSeen'
  BY Zenon DEF MicSeen
<1> QED
  BY <1>1, <1>2, Zenon DEF Careful

LEMMA CarefulQuiet ==
  ASSUME Careful, UNCHANGED <<linkVars, job, buds, past>>
  PROVE  Careful'
<1>1. Was' = Was
  BY WasStays
<1> QED
  BY <1>1, CarefulStays

\* What is left of a job, when its first step is done or is replaced by what it sends.
LEMMA JobCareful ==
  ASSUME Careful, job.todo # <<>>, UNCHANGED <<linkVars, buds, past>>
  PROVE  /\ EndJob => Careful'
         /\ Go /\ (IsConfirm(Head(job.todo)) /\ link # 0 /\ job.link = link => MicSeen) => Careful'
         /\ \A step :
              /\ Harmless(Head(job.todo)) => Harmless(step)
              /\ ~IsConfirm(Head(job.todo))
              /\ job' = [job EXCEPT !.todo[1] = step]
              => Careful'
<1>1. PICK todo, l : job = [todo |-> todo, link |-> l] /\ IsList(todo)
  BY Zenon DEF Careful
<1>2. job.todo = todo /\ job.link = l
  BY <1>1
<1>3. PICK S : todo \in Seq(S)
  BY <1>1, Zenon DEF IsList
<1>4. l \in 0 .. Len(peer) /\ (l = link /\ link # 0 => MicSeen \/ Guarded(todo))
  BY <1>2, Zenon DEF Careful
<1>5. MicSeen' <=> MicSeen
  <2>1. Was' = Was
    BY WasStays
  <2> QED
    BY <2>1, Zenon DEF MicSeen
<1>6. link' = link /\ peer' = peer
  BY DEF linkVars
<1>7. ASSUME NEW t, IsList(t), l = link /\ link # 0 => MicSeen \/ Guarded(t), job' = [todo |-> t, link |-> l]
      PROVE  Careful'
  <2>1. job'.todo = t /\ job'.link = l
    BY <1>7
  <2> QED
    BY <1>4, <1>5, <1>6, <1>7, <2>1, Zenon DEF Careful
<1>8. ASSUME EndJob PROVE Careful'
  <2>1. job' = [todo |-> <<>>, link |-> 0] /\ IsList(<<>>)
    BY <1>8, NothingToDo, ListsAre, Zenon DEF EndJob, Idle
  <2>2. job'.link = 0
    BY <2>1
  <2>3. 0 \in 0 .. Len(peer)
    BY <1>4
  <2> QED
    BY <1>6, <2>1, <2>2, <2>3, Zenon DEF Careful
<1>9. ASSUME Go, IsConfirm(Head(todo)) /\ link # 0 /\ l = link => MicSeen PROVE Careful'
  <2>1. CASE job' = [job EXCEPT !.todo = Tail(@)]
    <3>1. job' = [todo |-> Tail(todo), link |-> l]
      BY <1>1, <2>1
    <3>2. Tail(todo) \in Seq(S)
      BY <1>2, <1>3
    <3>3. Guarded(todo) /\ ~IsConfirm(Head(todo)) => Guarded(Tail(todo))
      BY <1>2, GuardedGoesOn
    <3>4. IsList(Tail(todo))
      BY <3>2, Zenon DEF IsList
    <3> QED
      BY <1>4, <1>7, <1>9, <3>1, <3>3, <3>4, Zenon
  <2> QED
    BY <1>8, <1>9, <2>1, Zenon DEF Go
<1>10. ASSUME NEW step, Harmless(Head(todo)) => Harmless(step), ~IsConfirm(Head(todo)),
              job' = [job EXCEPT !.todo[1] = step]
       PROVE  Careful'
  <2> DEFINE t == [todo EXCEPT ![1] = step]
             T == S \cup {step}
  <2>1. job' = [todo |-> t, link |-> l]
    BY <1>1, <1>10
  <2>2. t \in [1 .. Len(todo) -> T] /\ Len(todo) \in Nat
    <3>1. todo \in [1 .. Len(todo) -> S] /\ Len(todo) \in Nat
      BY <1>3
    <3> QED
      BY <3>1
  <2>3. Guarded(todo) => Guarded(t)
    BY <1>2, <1>10, GuardedGoesOn
  <2> HIDE DEF t, T
  <2>4. t \in Seq(T)
    BY <2>2
  <2>5. IsList(t)
    BY <2>4, Zenon DEF IsList
  <2> QED
    BY <1>4, <1>7, <2>1, <2>3, <2>5, Zenon
<1> QED
  BY <1>2, <1>8, <1>9, <1>10, Zenon

LEMMA CarefulJobStep ==
  ASSUME RInv, Careful, JobStep
  PROVE  Careful'
<1> DEFINE head == Head(job.todo)
<1>1. job.todo # <<>> /\ UNCHANGED <<linkVars, buds, past>>
  BY Zenon DEF JobStep, SameConnection, DeviceCheck, Capture, Readback, Confirm, Get, Build, JobSends,
     Do, Quietly, JobVars
<1>2. EndJob => Careful'
  BY <1>1, JobCareful
<1>3. Go /\ head.do # "confirm" => Careful'
  BY <1>1, JobCareful, Zenon DEF IsConfirm
<1>4. ASSUME head.do \in {"execute", "readback", "get"}, NEW model,
             NEW pkt \in FeatureCommandPacket(head.words, model),
             job' = [job EXCEPT !.todo[1] = Step("send", <<>>, pkt)]
      PROVE  Careful'
  <2> DEFINE step == Step("send", <<>>, pkt)
  <2>1. Harmless(head) => pkt # WalkieOn
    BY <1>4, Zenon DEF Harmless
  <2>2. Harmless(head) => Harmless(step)
    BY <2>1, StepsHarmless, Zenon
  <2>3. ~IsConfirm(head)
    BY <1>4 DEF IsConfirm
  <2> QED
    BY <1>1, <1>4, <2>2, <2>3, JobCareful, Zenon
<1>5. CASE SameConnection \/ DeviceCheck \/ Capture
  <2>1. head.do # "confirm" /\ (Go \/ EndJob)
    BY <1>5 DEF SameConnection, DeviceCheck, Capture, Do
  <2> QED
    BY <1>2, <1>3, <2>1
<1>6. CASE Readback \/ Get
  <2>1. head.do \in {"readback", "get"} /\ (Go \/ EndJob \/ Sending(head))
    BY <1>6, Zenon DEF Readback, Get, Do
  <2>2. ASSUME Sending(head) PROVE Careful'
    <3>1. PICK pkt \in FeatureCommandPacket(head.words, DefaultModel) :
            job' = [job EXCEPT !.todo[1] = Step("send", <<>>, pkt)]
      BY <2>2, Zenon DEF Sending
    <3>2. head.do \in {"execute", "readback", "get"}
      BY <2>1
    <3> QED
      BY <1>4, <3>1, <3>2, Zenon
  <2>3. head.do # "confirm"
    BY <2>1
  <2> QED
    BY <1>2, <1>3, <2>1, <2>2, <2>3
<1>7. CASE Build
  <2>1. /\ head.do = "execute"
        /\ \/ EndJob
           \/ \E pkt \in FeatureCommandPacket(head.words, Codename(shown.model)) :
                job' = [job EXCEPT !.todo[1] = Step("send", <<>>, pkt)]
    BY <1>7, Zenon DEF Build, Do
  <2>2. head.do \in {"execute", "readback", "get"}
    BY <2>1
  <2> QED
    BY <1>2, <1>4, <2>1, <2>2, Zenon
<1>8. CASE JobSends
  <2>1. head.do # "confirm" /\ (Go \/ EndJob)
    BY <1>8, Zenon DEF JobSends, Do
  <2> QED
    BY <1>2, <1>3, <2>1
<1>9. CASE Confirm
  <2>1. \/ EndJob
        \/ Go /\ link # 0 /\ shown.config[head.words[1]] = <<head.words[2]>>
    BY <1>9, Zenon DEF Confirm
  <2>2. ASSUME link # 0, shown.config[head.words[1]] = <<head.words[2]>>, IsConfirm(head) PROVE MicSeen
    <3>1. head.words[1] = "super-mic" /\ head.words[2] = "on"
      BY <2>2 DEF IsConfirm
    <3>2. shown.config["super-mic"] = <<"on">>
      BY <2>2, <3>1
    <3>3. "super-mic" \in Features /\ <<"on">> # <<>>
      BY DEF Features, micFeatures
    <3>4. Within(shown, guessed, Was)
      BY <2>2, Zenon DEF RInv, ShownIsTrue
    <3>5. <<"super-mic", shown.config["super-mic"]>> \in Was
      BY <3>2, <3>3, <3>4, Zenon DEF Within
    <3> QED
      BY <3>2, <3>5, Zenon DEF MicSeen
  <2> HIDE DEF head
  <2>3. Go /\ (IsConfirm(head) => MicSeen) => Careful'
    BY <1>1, JobCareful, Zenon DEF head
  <2> QED
    BY <1>2, <2>1, <2>2, <2>3, Zenon
<1> QED
  BY <1>5, <1>6, <1>7, <1>8, <1>9, Zenon DEF JobStep

LEMMA CarefulAsk ==
  ASSUME Careful, IInv, NEW a, Ask(a)
  PROVE  Careful'
<1>1. PICK todo \in Programs(a) : job' = [todo |-> todo, link |-> Len(peer)]
  BY Zenon DEF Ask
<1>2. a \in Asks /\ UNCHANGED linkVars
  BY Zenon DEF Ask
<1>3. Guarded(todo) /\ IsList(todo)
  BY <1>2, AskedGuarded, ListsAre, Zenon
<1>4. job'.todo = todo /\ job'.link = Len(peer)
  BY <1>1
<1>5. Len(peer) \in 0 .. Len(peer') /\ link' = link
  BY <1>2 DEF IInv, Types, linkVars
<1> QED
  BY <1>1, <1>3, <1>4, <1>5, Zenon DEF Careful

LEMMA CarefulConnect ==
  ASSUME Careful, IInv, NEW d, Connect(d)
  PROVE  Careful'
<1>1. peer' = Append(peer, d) /\ link' = Len(peer') /\ job' = job
  BY Zenon DEF Connect
<1>2. peer \in Seq(Earbuds) /\ job.link \in 0 .. Len(peer)
  BY DEF IInv, Types, Careful
<1>3. Len(peer') = Len(peer) + 1
  BY <1>1, <1>2
<1>4. job'.link \in 0 .. Len(peer') /\ job'.link # link'
  BY <1>1, <1>2, <1>3
<1> QED
  BY <1>1, <1>4, Zenon DEF Careful

LEMMA CarefulDisconnected ==
  ASSUME Careful, Disconnected
  PROVE  Careful'
<1>1. link' = 0 /\ peer' = peer /\ job' = job
  BY DEF Disconnected, LostVars
<1> QED
  BY <1>1, Zenon DEF Careful

LEMMA CarefulServe ==
  ASSUME Careful, IInv, RInv, Serve
  PROVE  Careful'
<1>1. CASE ServeQuery \/ RefuseSet
  <2>1. UNCHANGED <<linkVars, job, buds, past>>
    BY <1>1 DEF ServeQuery, RefuseSet, ServeVars
  <2> QED
    BY <2>1, CarefulQuiet
<1>2. CASE ObeySet
  <2>1. UNCHANGED <<linkVars, job>> /\ \E b : Become(b)
    BY <1>2, Zenon DEF ObeySet, ServeVars
  <2> QED
    BY <2>1, BecomeGrows, CarefulStays
<1> QED
  BY <1>1, <1>2 DEF Serve

LEMMA CarefulNews ==
  ASSUME Careful, IInv, RInv, NEW n,
         Changes(n) \/ BatteryChanges(n) \/ PeersChange(n) \/ SendsPacket(n) \/ SendsBytes(n)
  PROVE  Careful'
<1>1. CASE Changes(n) \/ BatteryChanges(n) \/ PeersChange(n)
  <2>1. UNCHANGED <<linkVars, job>> /\ \E b : Become(b)
    <3>1. Changes(n) => UNCHANGED <<linkVars, job>> /\ \E b : Become(b)
      BY SMT DEF Changes, NewsVars
    <3>2. BatteryChanges(n) => UNCHANGED <<linkVars, job>> /\ \E b : Become(b)
      BY SMT DEF BatteryChanges, NewsVars
    <3>3. PeersChange(n) => UNCHANGED <<linkVars, job>> /\ \E b : Become(b)
      BY SMT DEF PeersChange, NewsVars
    <3> QED
      BY <1>1, <3>1, <3>2, <3>3
  <2> QED
    BY <2>1, BecomeGrows, CarefulStays
<1>2. CASE SendsPacket(n) \/ SendsBytes(n)
  <2>1. UNCHANGED <<linkVars, job, buds, past>>
    BY <1>2 DEF SendsPacket, SendsBytes, NewsVars, historyVars
  <2> QED
    BY <2>1, CarefulQuiet
<1> QED
  BY <1>1, <1>2

LEMMA StepCareful == IInv /\ RInv /\ Careful /\ [Next]_vars => Careful'
<1> SUFFICES ASSUME IInv, RInv, Careful, [Next]_vars PROVE Careful'
  OBVIOUS
<1>1. ASSUME NEW d \in Earbuds, Connect(d) PROVE Careful'
  BY <1>1, CarefulConnect, Zenon
<1>2. CASE Lose \/ Read
  <2>1. Disconnected \/ \E read : Handle(read)
    BY <1>2, Zenon DEF Lose, Read
  <2>2. ASSUME NEW read, Handle(read) PROVE Careful'
    <3>1. UNCHANGED <<linkVars, job, buds, past>>
      BY <2>2 DEF Handle
    <3> QED
      BY <3>1, CarefulQuiet
  <2> QED
    BY <2>1, <2>2, CarefulDisconnected
<1>3. CASE Poll
  <2>1. UNCHANGED <<linkVars, job, buds, past>>
    BY <1>3 DEF Poll, SendVars
  <2> QED
    BY <2>1, CarefulQuiet
<1>4. CASE Serve
  BY <1>4, CarefulServe
<1>5. CASE JobStep
  BY <1>5, CarefulJobStep
<1>6. ASSUME NEW l, ProbeStep(l) PROVE Careful'
  <2>1. UNCHANGED <<linkVars, job, buds, past>>
    BY <1>6 DEF ProbeStep, ProbeSends, ProbeSkips, ProbeStops, SendVars, historyVars
  <2> QED
    BY <2>1, CarefulQuiet
<1>7. ASSUME NEW kind, Later(kind) PROVE Careful'
  <2>1. UNCHANGED <<linkVars, job, buds, past>>
    BY <1>7 DEF Later
  <2> QED
    BY <2>1, CarefulQuiet
<1>8. ASSUME NEW n,
             Changes(n) \/ BatteryChanges(n) \/ PeersChange(n) \/ SendsPacket(n) \/ SendsBytes(n)
      PROVE  Careful'
  BY <1>8, CarefulNews, Zenon
<1>9. ASSUME NEW a, Ask(a) PROVE Careful'
  BY <1>9, CarefulAsk
<1>10. CASE UNCHANGED vars
  <2>1. UNCHANGED <<linkVars, job, buds, past>>
    BY <1>10 DEF vars, historyVars
  <2> QED
    BY <2>1, CarefulQuiet
<1> QED
  BY <1>1, <1>2, <1>3, <1>4, <1>5, <1>6, <1>7, <1>8, <1>9, <1>10, Zenon DEF Next

\* The packet that switches Walkie Talkie on leaves a job only when Super Mic was seen to be
\* on with the earbuds since they are connected, if the connection is that of the request,
\* whatever the earbuds, the users and the network do in between (writeMicMode, requireCapture).
THEOREM WalkieIsCareful == Spec => WalkieNeedsSuperMic
<1>1. ASSUME Careful, [Next]_vars
      PROVE  JobSends /\ tx' # tx /\ Head(job.todo).pkt = Packet(\hF061, <<1>>) /\ job.link = link => MicSeen
  <2> SUFFICES ASSUME JobSends, tx' # tx, Head(job.todo).pkt = WalkieOn, job.link = link, ~MicSeen
               PROVE  FALSE
    BY DEF WalkieOn
  <2>1. job.todo # <<>> /\ Head(job.todo).do = "send" /\ link # 0
    BY Zenon DEF JobSends, Do, Send, Sendable
  <2>2. Guarded(job.todo)
    BY <1>1, <2>1, Zenon DEF Careful
  <2>3. Harmless(Head(job.todo))
    BY <2>1, <2>2, GuardedGoesOn, Zenon
  <2> QED
    BY <2>1, <2>3, Zenon DEF Harmless
<1>2. Careful /\ [Next]_vars =>
        [JobSends /\ tx' # tx /\ Head(job.todo).pkt = Packet(\hF061, <<1>>) /\ job.link = link
           => <<"super-mic", <<"on">>>> \in Was]_vars
  BY <1>1, SMT DEF MicSeen
<1>3. Spec => []IInv
  BY Invariant
<1>4. Spec => []RInv
  BY <1>3, InitReported, StepReported, PTL DEF Spec
<1>5. Spec => []Careful
  BY <1>3, <1>4, InitCareful, StepCareful, PTL DEF Spec
<1> QED
  BY <1>2, <1>5, PTL DEF Spec, WalkieNeedsSuperMic

-----------------------------------------------------------------------------
(* When every answer is in, what is shown is what the earbuds are.         *)

\* What may be shown when the answers about a topic are in.
Known(topic) == Facts(buds[Device]) \cup {fact \in Was : NameOf(fact[1]) # topic}

RenewsAt(w, topic) ==
  \E cmd, payload, n :
    cmd \in Nat /\ n \in Nat /\ IsFrame(w, cmd, payload, n) /\ Renewing(Packet(cmd, payload), topic)

\* A write under way brings a topic up to date, and none after it spoils that.
Fresh(writes, topic, facts) ==
  /\ writes \in Chunks(Nat)
  /\ \E i \in DOMAIN writes :
       RenewsAt(writes[i], topic) /\ \A j \in DOMAIN writes : j >= i => Sound(writes[j], facts)

Settled(topic) ==
  \/ Within(shown, guessed, Known(topic)) /\ SoundWrites(rx, Known(topic))
  \/ Fresh(rx, topic, Known(topic))

Wants(cmd, topic) == topic \in FeaturesOfGet(cmd) \/ (topic = "peers" /\ cmd = \hC028)

Alters(cmd, topic) ==
  (topic = "peers" /\ cmd = \hF01B) \/ (topic \in Features /\ featureCommands[topic].set = cmd)

Wanted(packets, topic) == \E i \in DOMAIN packets : Wants(packets[i].cmd, topic)

\* A SET under way is owed, or what it alters is asked for after it.
Followed(packets, owing, topic) ==
  \A i \in DOMAIN packets :
    Alters(packets[i].cmd, topic) =>
      topic \in owing \/ \E j \in DOMAIN packets : j > i /\ Wants(packets[j].cmd, topic)

IsListNews(w) == \E payload, n : n \in Nat /\ IsFrame(w, \hE00E, payload, n)

Announced == later["list"] > 0 \/ \E i \in DOMAIN rx : IsListNews(rx[i])

\* A topic is owed, asked for, announced, or what is shown of it is as it is, at the
\* latest when what is under way was read.
Agrees(topic) ==
  \/ topic \in owed /\ topic # "case"
  \/ Wanted(tx, topic)
  \/ topic = "peers" /\ Announced
  \/ Settled(topic)

AllAgree == link # 0 => \A topic : Agrees(topic) /\ Followed(tx, owed, topic)

\* Earbuds keep their parts, and with them what facts are about.
PartsOf(d) == DOMAIN Settings[d].battery

PartsStay == \A d \in Earbuds : DOMAIN buds[d].battery = PartsOf(d)

FactOf(fact, d) ==
  (fact[1] \in Features => fact[1] \in Own(d)) /\ (fact[1] = "stereo" => "stereo" \in PartsOf(d))

FactsStay == link # 0 => \A fact \in Was : FactOf(fact, Device)

\* The case is told by its plain name only of earbuds with such a case, except to who
\* knows that their model gives its case the other name.
PlainWrite(w) ==
  \/ IsNoise(w) \/ IsHopeless(w)
  \/ \E cmd, payload, n :
       cmd \in Nat /\ n \in Nat /\ IsFrame(w, cmd, payload, n) /\ PlainCase(Packet(cmd, payload))

Sure == DOMAIN shown.batteries \ guessed

CaseIs ==
  link # 0 =>
    /\ "case" \in PartsOf(Device) \/ \A i \in DOMAIN rx : PlainWrite(rx[i])
    /\ "case" \in Sure => "case" \in PartsOf(Device) \/ Codename(shown.model).BatteryCaseSource = "stereo"
    /\ ~({"case", "stereo"} \subseteq Sure)

AllParts == PartNames \cup {"id"}

Kinds == {"features", "list"}

Counted ==
  /\ later \in [Kinds -> Nat] /\ DOMAIN shown.batteries \subseteq AllParts
  /\ owed \subseteq Features \cup {"peers"}

QInv == PartsStay /\ FactsStay /\ Counted /\ CaseIs /\ AllAgree

LEMMA TopicNames ==
  /\ \A f \in Features : NameOf(f) = f /\ f # "case" /\ f # "peers" /\ f # "ear" /\ f \notin AllParts
  /\ NameOf("peers") = "peers" /\ NameOf("ear") = "ear" /\ NameOf("case") = "case" /\ NameOf("stereo") = "case"
  /\ "peers" \notin AllParts /\ "ear" \notin AllParts /\ "peers" # "case" /\ "peers" \notin Features
  /\ \A p, q \in AllParts : NameOf(p) = NameOf(q) => p = q \/ {p, q} = {"case", "stereo"}
  /\ \A p \in AllParts : NameOf(p) \in AllParts
<1>1. AllParts = {"watch", "left", "right", "case", "tws", "stereo", "id"}
  BY PartsNamed DEF AllParts
<1>2. /\ \A p, q \in AllParts : NameOf(p) = NameOf(q) => p = q \/ {p, q} = {"case", "stereo"}
      /\ \A p \in AllParts : NameOf(p) \in AllParts
      /\ "peers" \notin AllParts /\ "ear" \notin AllParts
  BY <1>1 DEF NameOf
<1>3. ASSUME NEW f \in Features
      PROVE  NameOf(f) = f /\ f # "case" /\ f # "peers" /\ f # "ear" /\ f \notin AllParts
  <2>1. f \in {"anc", "eq", "spatial", "lag", "dual", "super-mic", "walkie-talkie"}
    BY FeaturesAre
  <2> QED
    BY <1>1, <2>1 DEF NameOf
<1>4. "peers" \notin Features
  BY <1>3
<1> QED
  BY <1>2, <1>3, <1>4 DEF NameOf

\* What QuietAgrees says follows when nothing is under way.
LEMMA InvImpliesQuiet == RInv /\ QInv => QuietAgrees
<1> SUFFICES ASSUME RInv, QInv, link # 0, tx = <<>>, rx = <<>>, later["list"] = 0
             PROVE  /\ {fact \in ShownFacts : fact[1] \notin owed} \subseteq Facts(buds[Device])
                    /\ ~({"case", "stereo"} \subseteq DOMAIN shown.batteries \ guessed)
  BY Zenon DEF QuietAgrees
<1>1. ASSUME NEW fact \in ShownFacts, fact[1] \notin owed PROVE fact \in Facts(buds[Device])
  <2> DEFINE topic == NameOf(fact[1])
  <2>1. Agrees(topic)
    BY Zenon DEF QInv, AllAgree
  <2>2. DOMAIN tx = {} /\ DOMAIN rx = {}
    OBVIOUS
  <2>3. ~Wanted(tx, topic)
    BY <2>2, Zenon DEF Wanted
  <2>4. ~Announced
    <3>1. ~(later["list"] > 0)
      OBVIOUS
    <3> QED
      BY <2>2, <3>1, Zenon DEF Announced
  <2>5. ~(topic \in owed /\ topic # "case")
    <3>1. topic = fact[1] \/ topic = "case"
      BY DEF NameOf
    <3> QED
      BY <1>1, <3>1
  <2>6. ~Fresh(rx, topic, Known(topic))
    BY <2>2, Zenon DEF Fresh
  <2>7. Within(shown, guessed, Known(topic))
    BY <2>1, <2>3, <2>4, <2>5, <2>6, Zenon DEF Agrees, Settled
  <2>8. fact \in Known(topic)
    BY <2>7, WithinShows, Zenon DEF ShownFacts
  <2> QED
    BY <2>8 DEF Known
<1>2. ~({"case", "stereo"} \subseteq Sure)
  BY Zenon DEF QInv, CaseIs
<1> QED
  BY <1>1, <1>2, Zenon DEF Sure

LEMMA InitQuiet == Init => QInv
<1> SUFFICES ASSUME Init PROVE QInv
  OBVIOUS
<1>1. link = 0 /\ buds = Settings /\ shown = Cleared("") /\ later = [k \in Kinds |-> 0]
  BY Zenon DEF Init, Kinds
<1>2. PartsStay
  BY <1>1, Zenon DEF PartsStay, PartsOf
<1>3. Counted
  <2>1. shown.batteries = NoMap
    BY <1>1 DEF Cleared
  <2>2. later \in [Kinds -> Nat]
    BY <1>1
  <2>3. owed = {}
    BY DEF Init
  <2> QED
    BY <2>1, <2>2, <2>3, NothingInNone DEF Counted
<1> QED
  BY <1>1, <1>2, <1>3, Zenon DEF QInv, FactsStay, CaseIs, AllAgree

-----------------------------------------------------------------------------
(* What is sent is owed until it is asked for.                             *)

LEMMA SetsApart ==
  \A f \in Features :
    /\ featureCommands[f].set \in SetCmds
    /\ \A g \in Features : featureCommands[g].set = featureCommands[f].set => g = f
<1>1. /\ featureCommands["anc"].set = \hF00F /\ featureCommands["eq"].set = \hF010
      /\ featureCommands["spatial"].set = \hF052 /\ featureCommands["lag"].set = \hF040
      /\ featureCommands["dual"].set = \hF01A /\ featureCommands["super-mic"].set = \hF05F
      /\ featureCommands["walkie-talkie"].set = \hF061
  BY CommandsAre DEF FeatureCommand
<1>2. /\ {\hF00F, \hF010, \hF052, \hF040, \hF01A, \hF05F, \hF061} \subseteq SetCmds
      /\ \hF00F # \hF010 /\ \hF00F # \hF052 /\ \hF00F # \hF040 /\ \hF00F # \hF01A /\ \hF00F # \hF05F
      /\ \hF00F # \hF061 /\ \hF010 # \hF052 /\ \hF010 # \hF040 /\ \hF010 # \hF01A /\ \hF010 # \hF05F
      /\ \hF010 # \hF061 /\ \hF052 # \hF040 /\ \hF052 # \hF01A /\ \hF052 # \hF05F /\ \hF052 # \hF061
      /\ \hF040 # \hF01A /\ \hF040 # \hF05F /\ \hF040 # \hF061 /\ \hF01A # \hF05F /\ \hF01A # \hF061
      /\ \hF05F # \hF061
  BY SMT DEF SetCmds
<1>3. ASSUME NEW f \in Features, NEW g \in Features
      PROVE  featureCommands[f].set \in SetCmds /\ (featureCommands[g].set = featureCommands[f].set => g = f)
  <2>1. f \in {"anc", "eq", "spatial", "lag", "dual", "super-mic", "walkie-talkie"}
    BY FeaturesAre
  <2>2. g \in {"anc", "eq", "spatial", "lag", "dual", "super-mic", "walkie-talkie"}
    BY FeaturesAre
  <2> QED
    BY <1>1, <1>2, <2>1, <2>2, SMT
<1> QED
  BY <1>3

LEMMA OwesIs ==
  ASSUME NEW cmd
  PROVE  /\ \A topic \in owed : topic \in Owes(cmd) \/ Wants(cmd, topic)
         /\ \A topic : Alters(cmd, topic) => topic \in Owes(cmd)
         /\ Owes(cmd) \subseteq owed \cup Features \cup {"peers"}
<1> DEFINE sets == \E f \in Features : featureCommands[f].set = cmd
           feature == FeatureOfSet(cmd)
<1>1. sets => feature \in Features /\ featureCommands[feature].set = cmd
  BY Zenon DEF FeatureOfSet
<1>2. \A f \in Features : featureCommands[f].set = cmd => f = feature
  BY <1>1, SetsApart, Zenon
<1>3. cmd = \hF01B => ~sets
  BY SetsOfFeatures
<1>4. cmd = \hC028 => cmd # \hF01B /\ ~sets
  <2>1. \hC028 \notin SetCmds /\ \hC028 # \hF01B
    BY SMT DEF SetCmds
  <2> QED
    BY <2>1, SetsApart
<1>5. CASE cmd = \hF01B
  <2>1. Owes(cmd) = owed \cup {"peers"}
    BY <1>3, <1>4, <1>5, SMT DEF Owes
  <2>2. \A topic : Alters(cmd, topic) => topic = "peers"
    BY <1>3, <1>5, SMT DEF Alters
  <2> QED
    BY <2>1, <2>2
<1>6. CASE cmd = \hC028
  <2>1. Owes(cmd) = owed \ {"peers"}
    BY <1>4, <1>6 DEF Owes
  <2>2. \A topic : ~Alters(cmd, topic)
    BY <1>4, <1>6 DEF Alters
  <2> QED
    BY <1>6, <2>1, <2>2 DEF Wants
<1>7. CASE cmd # \hF01B /\ cmd # \hC028 /\ sets
  <2>1. Owes(cmd) = owed \cup {feature}
    BY <1>7, SMT DEF Owes
  <2>2. \A topic : Alters(cmd, topic) => topic = feature
    BY <1>2, <1>7, SMT DEF Alters
  <2> HIDE DEF feature
  <2> QED
    BY <1>1, <1>7, <2>1, <2>2
<1>8. CASE cmd # \hF01B /\ cmd # \hC028 /\ ~sets
  <2>1. Owes(cmd) = owed \ FeaturesOfGet(cmd)
    BY <1>8, SMT DEF Owes
  <2>2. \A topic : ~Alters(cmd, topic)
    BY <1>8, SMT DEF Alters
  <2> QED
    BY <2>1, <2>2 DEF Wants
<1> QED
  BY <1>5, <1>6, <1>7, <1>8

LEMMA AppendWants ==
  ASSUME NEW S, NEW packets, packets \in Seq(S), NEW pkt, NEW topic
  PROVE  /\ Wanted(packets, topic) => Wanted(Append(packets, pkt), topic)
         /\ Wants(pkt.cmd, topic) => Wanted(Append(packets, pkt), topic)
<1> DEFINE new == Append(packets, pkt)
           k == Len(packets) + 1
<1>1. /\ \A i \in DOMAIN packets : i \in DOMAIN new /\ new[i] = packets[i]
      /\ k \in DOMAIN new /\ new[k] = pkt
  OBVIOUS
<1> HIDE DEF new, k
<1>2. Wanted(packets, topic) => Wanted(new, topic)
  BY <1>1, Zenon DEF Wanted
<1>3. Wants(pkt.cmd, topic) => Wanted(new, topic)
  BY <1>1, Zenon DEF Wanted
<1> QED
  BY <1>2, <1>3 DEF new

LEMMA AppendFollowed ==
  ASSUME NEW S, NEW packets, packets \in Seq(S), NEW pkt, NEW topic, NEW owing, NEW more,
         Followed(packets, owing, topic), topic \in owing => topic \in more \/ Wants(pkt.cmd, topic),
         Alters(pkt.cmd, topic) => topic \in more
  PROVE  Followed(Append(packets, pkt), more, topic)
<1> DEFINE new == Append(packets, pkt)
           k == Len(packets) + 1
<1>1. /\ \A i \in DOMAIN packets : i \in DOMAIN new /\ new[i] = packets[i] /\ k > i
      /\ k \in DOMAIN new /\ new[k] = pkt
      /\ \A i \in DOMAIN new : i = k \/ i \in DOMAIN packets
  OBVIOUS
<1> HIDE DEF new, k
<1>2. ASSUME NEW i \in DOMAIN new, Alters(new[i].cmd, topic)
      PROVE  topic \in more \/ \E j \in DOMAIN new : j > i /\ Wants(new[j].cmd, topic)
  <2>1. CASE i = k
    BY <1>1, <1>2, <2>1
  <2>2. CASE i \in DOMAIN packets
    <3>1. topic \in owing \/ \E j \in DOMAIN packets : j > i /\ Wants(packets[j].cmd, topic)
      BY <1>1, <1>2, <2>2, Zenon DEF Followed
    <3>2. CASE topic \in owing
      BY <1>1, <2>2, <3>2, Zenon
    <3>3. CASE \E j \in DOMAIN packets : j > i /\ Wants(packets[j].cmd, topic)
      BY <1>1, <3>3, Zenon
    <3> QED
      BY <3>1, <3>2, <3>3
  <2> QED
    BY <1>1, <2>1, <2>2, Zenon
<1>3. Followed(new, more, topic)
  BY <1>2, Zenon DEF Followed
<1> QED
  BY <1>3 DEF new

LEMMA TailKeeps ==
  ASSUME NEW S, NEW packets, packets \in Seq(S), packets # <<>>, NEW topic
  PROVE  /\ Wanted(packets, topic) => Wants(Head(packets).cmd, topic) \/ Wanted(Tail(packets), topic)
         /\ \A owing : Followed(packets, owing, topic) =>
              /\ Followed(Tail(packets), owing, topic)
              /\ Alters(Head(packets).cmd, topic) => topic \in owing \/ Wanted(Tail(packets), topic)
<1> DEFINE new == Tail(packets)
           head == Head(packets)
<1>1. /\ 1 \in DOMAIN packets /\ head = packets[1]
      /\ \A i \in DOMAIN packets : i > 1 => i - 1 \in DOMAIN new /\ new[i - 1] = packets[i]
      /\ \A i \in DOMAIN new : i \in Nat /\ i + 1 \in DOMAIN packets /\ new[i] = packets[i + 1] /\ i > 0
      /\ \A i \in DOMAIN packets : i \in Nat /\ i >= 1
  OBVIOUS
<1> HIDE DEF new, head
<1>2. ASSUME NEW i, i \in DOMAIN packets, Wants(packets[i].cmd, topic)
      PROVE  i > 1 => Wanted(new, topic)
  BY <1>1, <1>2, Zenon DEF Wanted
<1>3. Wanted(packets, topic) => Wants(head.cmd, topic) \/ Wanted(new, topic)
  <2>1. \A i \in DOMAIN packets : i = 1 \/ i > 1
    BY <1>1
  <2> QED
    BY <1>1, <1>2, <2>1, Zenon DEF Wanted
<1>4. ASSUME NEW owing, Followed(packets, owing, topic)
      PROVE  Followed(new, owing, topic) /\ (Alters(head.cmd, topic) => topic \in owing \/ Wanted(new, topic))
  <2>1. ASSUME NEW i, i \in DOMAIN new, Alters(new[i].cmd, topic), topic \notin owing
        PROVE  \E j \in DOMAIN new : j > i /\ Wants(new[j].cmd, topic)
    <3>1. i \in Nat /\ i + 1 \in DOMAIN packets /\ Alters(packets[i + 1].cmd, topic)
      BY <1>1, <2>1
    <3>2. PICK j \in DOMAIN packets : j > i + 1 /\ Wants(packets[j].cmd, topic)
      BY <1>4, <2>1, <3>1, Zenon DEF Followed
    <3>3. j \in Nat /\ j > 1 /\ j - 1 > i
      BY <1>1, <3>1, <3>2
    <3>4. j - 1 \in DOMAIN new /\ new[j - 1] = packets[j]
      BY <1>1, <3>3
    <3> QED
      BY <3>2, <3>3, <3>4
  <2>2. Followed(new, owing, topic)
    BY <2>1, Zenon DEF Followed
  <2>3. ASSUME Alters(head.cmd, topic), topic \notin owing PROVE Wanted(new, topic)
    <3>1. PICK j \in DOMAIN packets : j > 1 /\ Wants(packets[j].cmd, topic)
      BY <1>1, <1>4, <2>3, Zenon DEF Followed
    <3> QED
      BY <1>2, <3>1
  <2> QED
    BY <2>2, <2>3
<1> QED
  BY <1>3, <1>4 DEF new, head

-----------------------------------------------------------------------------
(* A topic that is settled stays so while nothing about it is lost.        *)

LEMMA FreshGrows ==
  ASSUME NEW writes, NEW topic, NEW facts, NEW more, facts \subseteq more, Fresh(writes, topic, facts)
  PROVE  Fresh(writes, topic, more)
<1>1. PICK i \in DOMAIN writes :
        RenewsAt(writes[i], topic) /\ \A j \in DOMAIN writes : j >= i => Sound(writes[j], facts)
  BY Zenon DEF Fresh
<1>2. \A w : Sound(w, facts) => Sound(w, more)
  BY Zenon DEF Sound, Truthful
<1> QED
  BY <1>1, <1>2, Zenon DEF Fresh

\* One write more.
LEMMA Longer ==
  ASSUME NEW writes, writes \in Chunks(Nat), NEW w, w \in Seq(Nat)
  PROVE  /\ Append(writes, w) \in Chunks(Nat)
         /\ Len(writes) + 1 \in DOMAIN Append(writes, w) /\ Append(writes, w)[Len(writes) + 1] = w
         /\ \A i \in DOMAIN writes : i \in DOMAIN Append(writes, w) /\ Append(writes, w)[i] = writes[i]
         /\ \A i \in DOMAIN Append(writes, w) : i \in DOMAIN writes \/ i = Len(writes) + 1
         /\ \A i \in DOMAIN Append(writes, w) : i >= Len(writes) + 1 => i = Len(writes) + 1
<1> DEFINE S == Seq(Nat)
<1> HIDE DEF S
<1>1. writes \in Seq(S) /\ w \in S
  BY DEF Chunks, S
<1>2. Append(writes, w) \in Seq(S)
  BY <1>1
<1>3. Append(writes, w) \in Chunks(Nat)
  BY <1>2 DEF Chunks, S
<1> QED
  BY <1>1, <1>3

LEMMA FreshAppend ==
  ASSUME NEW writes, NEW topic, NEW facts, Fresh(writes, topic, facts),
         NEW w, w \in Seq(Nat), Sound(w, facts)
  PROVE  Fresh(Append(writes, w), topic, facts)
<1> DEFINE new == Append(writes, w)
           n == Len(writes) + 1
<1>1. writes \in Chunks(Nat)
  BY Zenon DEF Fresh
<1>2. /\ new \in Chunks(Nat) /\ n \in DOMAIN new /\ new[n] = w
      /\ \A i \in DOMAIN writes : i \in DOMAIN new /\ new[i] = writes[i]
      /\ \A i \in DOMAIN new : i \in DOMAIN writes \/ i = n
  BY <1>1, Longer, Zenon
<1>3. PICK i \in DOMAIN writes :
        RenewsAt(writes[i], topic) /\ \A j \in DOMAIN writes : j >= i => Sound(writes[j], facts)
  BY Zenon DEF Fresh
<1> HIDE DEF new, n
<1>4. i \in DOMAIN new /\ RenewsAt(new[i], topic)
  BY <1>2, <1>3, Zenon
<1>5. \A j \in DOMAIN new : j >= i => Sound(new[j], facts)
  BY <1>2, <1>3, Zenon
<1>6. Fresh(new, topic, facts)
  BY <1>2, <1>4, <1>5, Zenon DEF Fresh
<1> QED
  BY <1>6 DEF new

LEMMA FreshAnew ==
  ASSUME NEW writes, writes \in Chunks(Nat), NEW topic, NEW facts,
         NEW w, w \in Seq(Nat), Sound(w, facts), RenewsAt(w, topic)
  PROVE  Fresh(Append(writes, w), topic, facts)
<1> DEFINE new == Append(writes, w)
           n == Len(writes) + 1
<1>1. /\ new \in Chunks(Nat) /\ n \in DOMAIN new /\ new[n] = w
      /\ \A i \in DOMAIN new : i >= n => i = n
  BY Longer, Zenon
<1> HIDE DEF new, n
<1>2. Fresh(new, topic, facts)
  BY <1>1, Zenon DEF Fresh
<1> QED
  BY <1>2 DEF new

\* What the earbuds write about nothing that is shown spoils no topic.
LEMMA SettledKeeps ==
  ASSUME NEW topic, Settled(topic), UNCHANGED <<shown, guessed>>, Known(topic) \subseteq Known(topic)',
         rx' = rx \/ \E w \in Seq(Nat) : rx' = Append(rx, w) /\ Sound(w, Known(topic)')
  PROVE  Settled(topic)'
<1> DEFINE facts == Known(topic)
           more == Known(topic)'
<1> HIDE DEF facts, more
<1>0. facts \subseteq more
  BY DEF facts, more
<1>1. CASE Within(shown, guessed, facts) /\ SoundWrites(rx, facts)
  <2>1. Within(shown', guessed', more)
    BY <1>0, <1>1, WithinGrows
  <2>2. SoundWrites(rx, more)
    BY <1>0, <1>1, SoundGrows
  <2>3. SoundWrites(rx', more)
    BY <2>2, SoundAppend, Zenon DEF more
  <2> QED
    BY <2>1, <2>3, Zenon DEF Settled, more
<1>2. CASE Fresh(rx, topic, facts)
  <2>1. Fresh(rx, topic, more)
    BY <1>0, <1>2, FreshGrows
  <2>2. Fresh(rx', topic, more)
    BY <2>1, FreshAppend, Zenon DEF more
  <2> QED
    BY <2>2, Zenon DEF Settled, more
<1> QED
  BY <1>1, <1>2, Zenon DEF Settled, facts

LEMMA SettledAnew ==
  ASSUME NEW topic, rx \in Chunks(Nat), NEW w, w \in Seq(Nat), rx' = Append(rx, w), RenewsAt(w, topic),
         Sound(w, Known(topic)')
  PROVE  Settled(topic)'
<1> DEFINE more == Known(topic)'
<1>1. Fresh(rx', topic, more)
  <2>1. Sound(w, more)
    OBVIOUS
  <2> HIDE DEF more
  <2> QED
    BY <2>1, FreshAnew, Zenon
<1> QED
  BY <1>1, Zenon DEF Settled

\* The packet of an answer or an event, as it is written.
LEMMA SaysWrites ==
  ASSUME NEW cmd, NEW p, NEW facts, Says(cmd, p, facts), NEW w, w = MarshalBinary(Packet(cmd, p))
  PROVE  /\ w \in Seq(Nat) /\ Sound(w, facts)
         /\ \A topic : Renewing(Packet(cmd, p), topic) => RenewsAt(w, topic)
         /\ cmd = \hE00E => IsListNews(w)
         /\ PlainCase(Packet(cmd, p)) => PlainWrite(w)
<1> DEFINE n == Len(p)
<1>1. cmd \in Nat /\ p \in Seq(Nat) /\ Truthful(Packet(cmd, p), facts)
  BY DEF Says
<1>2. n \in Nat /\ IsSeq(Nat, p, n)
  BY <1>1 DEF IsSeq
<1> HIDE DEF n
<1>3. IsFrame(w, cmd, p, n)
  BY <1>1, <1>2, PacketIsFrame, Zenon
<1>4. w \in Seq(Nat)
  BY <1>3 DEF IsFrame, IsSeq
<1>5. Sound(w, facts)
  BY <1>1, <1>2, <1>3, FrameIsSound
<1>6. ASSUME NEW topic, Renewing(Packet(cmd, p), topic) PROVE RenewsAt(w, topic)
  BY <1>1, <1>2, <1>3, <1>6, Zenon DEF RenewsAt
<1>7. ASSUME cmd = \hE00E PROVE IsListNews(w)
  <2>1. IsFrame(w, \hE00E, p, n)
    BY <1>3, <1>7
  <2> QED
    BY <1>2, <2>1 DEF IsListNews
<1>8. ASSUME PlainCase(Packet(cmd, p)) PROVE PlainWrite(w)
  BY <1>1, <1>2, <1>3, <1>8, Zenon DEF PlainWrite
<1> QED
  BY <1>4, <1>5, <1>6, <1>7, <1>8

\* A packet that tells nothing of a case by its plain name.
LEMMA SaysNoCase ==
  ASSUME NEW cmd, NEW p, NEW facts, Says(cmd, p, facts), \A fact \in facts : fact[1] # "case"
  PROVE  PlainCase(Packet(cmd, p))
BY Zenon DEF Says, Truthful, PlainCase

-----------------------------------------------------------------------------
(* What is sent.                                                           *)

LEMMA KnownStays ==
  ASSUME UNCHANGED <<linkVars, buds, past>>
  PROVE  /\ link' = link /\ Device' = Device /\ Was' = Was /\ buds' = buds
         /\ \A topic : Known(topic)' = Known(topic)
<1>1. link' = link /\ Device' = Device /\ Was' = Was /\ buds' = buds
  BY DeviceStays, WasStays DEF linkVars
<1> QED
  BY <1>1, Zenon DEF Known

\* What is sent disturbs nothing that is shown, and is asked for or owed.
LEMMA SentIs ==
  ASSUME IInv, RInv, UNCHANGED <<tx, shown, owed>> \/ \E pkt : Send(pkt)
  PROVE  /\ shown'.batteries = shown.batteries /\ shown'.model = shown.model
         /\ \A guesses, facts : Within(shown, guesses, facts) => Within(shown', guesses, facts)
         /\ \A topic :
              /\ Wanted(tx, topic) => Wanted(tx', topic)
              /\ topic \in owed => topic \in owed' \/ Wanted(tx', topic)
              /\ Followed(tx, owed, topic) => Followed(tx', owed', topic)
         /\ owed' \subseteq owed \cup Features \cup {"peers"}
<1>1. CASE UNCHANGED <<tx, shown, owed>>
  BY <1>1
<1>2. CASE ~UNCHANGED <<tx, shown, owed>>
  <2>1. PICK pkt : /\ tx' = Append(tx, pkt) /\ shown' = [shown EXCEPT !.config = ForgetMicMode(@, pkt.cmd)]
                   /\ owed' = Owes(pkt.cmd)
    BY <1>2, Zenon DEF Send
  <2>2. HasParts(shown) /\ "model" \in DOMAIN shown
    BY DEF RInv, ShownIsTrue, IInv, Types
  <2>3. shown'.batteries = shown.batteries /\ shown'.model = shown.model
    BY <2>1, <2>2 DEF HasParts
  <2>4. ASSUME NEW guesses, NEW facts, Within(shown, guesses, facts) PROVE Within(shown', guesses, facts)
    BY <2>1, <2>2, <2>4, Forgets
  <2>5. PICK S : tx \in Seq(S)
    BY Zenon DEF IInv, TrafficFits, IsTraffic
  <2>6. ASSUME NEW topic
        PROVE  /\ Wanted(tx, topic) => Wanted(tx', topic)
               /\ topic \in owed => topic \in owed' \/ Wanted(tx', topic)
               /\ Followed(tx, owed, topic) => Followed(tx', owed', topic)
    <3>1. /\ topic \in owed => topic \in owed' \/ Wants(pkt.cmd, topic)
          /\ Alters(pkt.cmd, topic) => topic \in owed'
      BY <2>1, OwesIs, Zenon
    <3>2. /\ Wanted(tx, topic) => Wanted(tx', topic)
          /\ Wants(pkt.cmd, topic) => Wanted(tx', topic)
      BY <2>1, <2>5, AppendWants
    <3>3. Followed(tx, owed, topic) => Followed(tx', owed', topic)
      BY <2>1, <2>5, <3>1, AppendFollowed
    <3> QED
      BY <3>1, <3>2, <3>3
  <2>7. owed' \subseteq owed \cup Features \cup {"peers"}
    BY <2>1, OwesIs
  <2> QED
    BY <2>3, <2>4, <2>6, <2>7
<1> QED
  BY <1>1, <1>2

\* A step that at most sends; the list that was announced is still to be asked for, or
\* is asked for.
LEMMA QuietSends ==
  ASSUME IInv, RInv, QInv, UNCHANGED <<linkVars, buds, past, rx, guessed>>,
         UNCHANGED <<tx, shown, owed>> \/ \E pkt : Send(pkt),
         later' \in [Kinds -> Nat],
         link # 0 /\ later["list"] > 0 => later'["list"] > 0 \/ Wanted(tx', "peers")
  PROVE  QInv'
<1>1. /\ link' = link /\ Device' = Device /\ Was' = Was /\ buds' = buds
      /\ \A topic : Known(topic)' = Known(topic)
  BY KnownStays
<1>2. /\ shown'.batteries = shown.batteries /\ shown'.model = shown.model
      /\ \A guesses, facts : Within(shown, guesses, facts) => Within(shown', guesses, facts)
      /\ \A topic :
           /\ Wanted(tx, topic) => Wanted(tx', topic)
           /\ topic \in owed => topic \in owed' \/ Wanted(tx', topic)
           /\ Followed(tx, owed, topic) => Followed(tx', owed', topic)
      /\ owed' \subseteq owed \cup Features \cup {"peers"}
  BY SentIs
<1>3. PartsStay'
  BY <1>1, Zenon DEF QInv, PartsStay
<1>4. FactsStay'
  BY <1>1, Zenon DEF QInv, FactsStay
<1>5. Counted'
  <2>1. DOMAIN shown.batteries \subseteq AllParts /\ owed \subseteq Features \cup {"peers"}
    BY Zenon DEF QInv, Counted
  <2> QED
    BY <1>2, <2>1 DEF Counted
<1>6. CaseIs'
  <2>1. Sure' = Sure
    BY <1>2, Zenon DEF Sure
  <2> QED
    BY <1>1, <1>2, <2>1, Zenon DEF QInv, CaseIs
<1>7. ASSUME link # 0, NEW topic PROVE Agrees(topic)'
  <2>1. Agrees(topic)
    BY <1>7, Zenon DEF QInv, AllAgree
  <2>2. CASE topic \in owed /\ topic # "case"
    BY <1>2, <2>2, Zenon DEF Agrees
  <2>3. CASE Wanted(tx, topic)
    BY <1>2, <2>3, Zenon DEF Agrees
  <2>4. CASE topic = "peers" /\ Announced
    <3>1. CASE later["list"] > 0
      BY <1>7, <2>4, <3>1, Zenon DEF Agrees, Announced
    <3>2. CASE \E i \in DOMAIN rx : IsListNews(rx[i])
      BY <2>4, <3>2, Zenon DEF Agrees, Announced
    <3> QED
      BY <2>4, <3>1, <3>2, Zenon DEF Announced
  <2>5. CASE Settled(topic)
    <3>1. Settled(topic)'
      BY <1>1, <1>2, <2>5, Zenon DEF Settled
    <3> QED
      BY <3>1, Zenon DEF Agrees
  <2> QED
    BY <2>1, <2>2, <2>3, <2>4, <2>5, Zenon DEF Agrees
<1>9. ASSUME link # 0, NEW topic PROVE Followed(tx, owed, topic)'
  BY <1>2, <1>9, Zenon DEF QInv, AllAgree
<1>8. AllAgree'
  BY <1>1, <1>7, <1>9, Zenon DEF AllAgree
<1> QED
  BY <1>3, <1>4, <1>5, <1>6, <1>8, Zenon DEF QInv

LEMMA QuietProbeStep ==
  ASSUME IInv, RInv, QInv, NEW l, ProbeStep(l)
  PROVE  QInv'
<1>1. later \in [Kinds -> Nat]
  BY Zenon DEF QInv, Counted
<1>2. CASE ProbeSends(l)
  <2>1. UNCHANGED <<linkVars, buds, past, rx, guessed>> /\ later' = later /\ \E pkt : Send(pkt)
    BY <1>2, Zenon DEF ProbeSends, SendVars
  <2> QED
    BY <1>1, <2>1, QuietSends, Zenon
<1>3. CASE ProbeSkips(l) \/ ProbeStops(l)
  <2>1. /\ UNCHANGED <<linkVars, buds, past, rx, guessed>> /\ UNCHANGED <<tx, shown, owed>>
        /\ later' = later
    BY <1>3, Zenon DEF ProbeSkips, ProbeStops, sessionVars, historyVars
  <2> QED
    BY <1>1, <2>1, QuietSends, Zenon
<1> QED
  BY <1>2, <1>3, Zenon DEF ProbeStep

LEMMA QuietPoll ==
  ASSUME IInv, RInv, QInv, Poll
  PROVE  QInv'
<1> DEFINE pkt == Packet(\hC007, <<>>)
<1>1. UNCHANGED <<linkVars, buds, past, rx, guessed>> /\ later' = later /\ Send(pkt)
  BY DEF Poll, SendVars
<1>2. later \in [Kinds -> Nat]
  BY Zenon DEF QInv, Counted
<1> HIDE DEF pkt
<1> QED
  BY <1>1, <1>2, QuietSends, Zenon

LEMMA ListIsSent ==
  ASSUME link # 0
  PROVE  Sendable(listPacket) /\ listPacket.cmd = \hC028
<1> DEFINE cmd == listPacket.cmd
<1>1. cmd = \hC028
  BY DEF listPacket, Packet
<1>2. cmd \notin UnsafeCommands /\ cmd \notin CatalogSets /\ cmd \notin micCommands
  BY <1>1, SMT DEF UnsafeCommands, CatalogSets, SafeSets, OtherSets, micCommands, micQueries
<1>3. authorizeCommand(cmd)
  <2>1. ~CommandInfoFor(cmd).unsafe /\ ~CommandInfoFor(cmd).set
    <3> HIDE DEF cmd
    <3> QED
      BY <1>2, InfoFields, Zenon
  <2> HIDE DEF cmd
  <2> QED
    BY <2>1, Zenon DEF authorizeCommand
<1>4. Sendable(listPacket)
  BY <1>2, <1>3, Zenon DEF Sendable
<1> QED
  BY <1>1, <1>4

LEMMA QuietLater ==
  ASSUME IInv, RInv, QInv, NEW kind \in Kinds, Later(kind)
  PROVE  QInv'
<1> DEFINE pkt == IF kind = "features" THEN Packet(\hC00D, <<>>) ELSE listPacket
<1>1. /\ UNCHANGED <<linkVars, buds, past, rx, guessed>>
      /\ IF link = 0 THEN UNCHANGED <<tx, shown, owed>> ELSE Send(pkt)
      /\ later[kind] > 0 /\ later' = [later EXCEPT ![kind] = @ - 1]
  BY DEF Later
<1>2. later \in [Kinds -> Nat]
  BY Zenon DEF QInv, Counted
<1>3. later' \in [Kinds -> Nat] /\ \A k \in Kinds : k # kind => later'[k] = later[k]
  BY <1>1, <1>2
<1>4. ASSUME link # 0, later["list"] > 0 PROVE later'["list"] > 0 \/ Wanted(tx', "peers")
  <2>1. CASE kind = "list"
    <3>1. pkt = listPacket
      BY <2>1
    <3>2. tx' = Append(tx, listPacket)
      <4>1. Send(listPacket) /\ Sendable(listPacket)
        BY <1>1, <1>4, <3>1, ListIsSent
      <4> QED
        BY <4>1, Zenon DEF Send
    <3>3. PICK S : tx \in Seq(S)
      BY Zenon DEF IInv, TrafficFits, IsTraffic
    <3>4. Wants(listPacket.cmd, "peers")
      BY <1>4, ListIsSent DEF Wants
    <3> QED
      BY <3>2, <3>3, <3>4, AppendWants
  <2>2. CASE kind # "list"
    <3>1. "list" \in Kinds
      BY DEF Kinds
    <3> QED
      BY <1>3, <1>4, <2>2, <3>1
  <2> QED
    BY <2>1, <2>2
<1> HIDE DEF pkt
<1>5. UNCHANGED <<tx, shown, owed>> \/ \E x : Send(x)
  BY <1>1, Zenon
<1> QED
  BY <1>1, <1>3, <1>4, <1>5, QuietSends

LEMMA QuietAsk ==
  ASSUME IInv, RInv, QInv, NEW a, Ask(a)
  PROVE  QInv'
<1>1. /\ UNCHANGED <<linkVars, buds, past, rx, guessed>> /\ UNCHANGED <<tx, shown, owed>>
      /\ later' = later
  BY Zenon DEF Ask, sessionVars, historyVars
<1>2. later \in [Kinds -> Nat]
  BY Zenon DEF QInv, Counted
<1> QED
  BY <1>1, <1>2, QuietSends, Zenon

LEMMA QuietJobStep ==
  ASSUME IInv, RInv, QInv, JobStep
  PROVE  QInv'
<1>1. later \in [Kinds -> Nat]
  BY Zenon DEF QInv, Counted
<1>2. CASE SameConnection \/ DeviceCheck \/ Capture \/ Readback \/ Confirm \/ Get \/ Build
  <2>1. Quietly
    BY <1>2, Zenon DEF SameConnection, DeviceCheck, Capture, Readback, Confirm, Get, Build
  <2>2. /\ UNCHANGED <<linkVars, buds, past, rx, guessed>> /\ UNCHANGED <<tx, shown, owed>>
        /\ later' = later
    BY <2>1, Zenon DEF Quietly, JobVars
  <2> QED
    BY <1>1, <2>2, QuietSends, Zenon
<1>3. CASE JobSends
  <2>1. UNCHANGED <<linkVars, buds, past, rx, guessed>> /\ later' = later /\ \E pkt : Send(pkt)
    BY <1>3, Zenon DEF JobSends, JobVars
  <2> QED
    BY <1>1, <2>1, QuietSends, Zenon
<1> QED
  BY <1>2, <1>3, Zenon DEF JobStep

-----------------------------------------------------------------------------
(* What earbuds change, and what they say of it.                           *)

\* A fact about the setting f with value v.
Shows(fact, f, v) == fact = <<f, v>> \/ fact = <<f, EventValue(f, v)>>

LEMMA FactsAre ==
  ASSUME NEW b, NEW fact
  PROVE  fact \in Facts(b) <=>
           \/ \E f \in DOMAIN b.set : Shows(fact, f, b.set[f])
           \/ \E p \in DOMAIN b.battery : fact = <<p, b.battery[p]>>
           \/ "stereo" \in DOMAIN b.battery /\ fact = <<"case", b.battery["stereo"]>>
           \/ \E s \in DOMAIN b.wear : fact = <<"ear", s, b.wear[s]>>
           \/ fact = <<"peers", AsShown(b.peers)>>
<1>1. fact \in BatteryFacts(b) <=>
        \/ \E p \in DOMAIN b.battery : fact = <<p, b.battery[p]>>
        \/ "stereo" \in DOMAIN b.battery /\ fact = <<"case", b.battery["stereo"]>>
  <2>1. CASE "stereo" \in DOMAIN b.battery
    BY <2>1, Zenon DEF BatteryFacts
  <2>2. CASE "stereo" \notin DOMAIN b.battery
    BY <2>2, Zenon DEF BatteryFacts
  <2> QED
    BY <2>1, <2>2
<1> QED
  BY <1>1, Zenon DEF Facts, Shows

\* What a fact is about, as far as it matters here.
LEMMA FactOfState ==
  ASSUME NEW b, NEW d, IsState(b, d), DOMAIN b.battery = PartsOf(d), NEW fact \in Facts(b)
  PROVE  FactOf(fact, d)
<1>1. /\ DOMAIN b.set = Own(d) /\ Own(d) \subseteq Features /\ DOMAIN b.battery \subseteq AllParts
  BY DEF IsState, IsPartMap, Own, AllParts
<1>2. /\ \A f \in Features : f \notin AllParts /\ f # "stereo" /\ f # "case" /\ f # "ear" /\ f # "peers"
  <2>1. "stereo" \in AllParts
    BY PartsNamed DEF AllParts
  <2> QED
    BY <2>1, TopicNames
<1>3. CASE \E f \in DOMAIN b.set : Shows(fact, f, b.set[f])
  BY <1>1, <1>2, <1>3 DEF FactOf, Shows
<1>4. CASE \E p \in DOMAIN b.battery : fact = <<p, b.battery[p]>>
  BY <1>1, <1>2, <1>4 DEF FactOf
<1>5. CASE fact[1] \in {"case", "ear", "peers"}
  BY <1>2, <1>5 DEF FactOf
<1>6. /\ fact = <<"case", b.battery["stereo"]>> => fact[1] = "case"
      /\ \A s : fact = <<"ear", s, b.wear[s]>> => fact[1] = "ear"
      /\ fact = <<"peers", AsShown(b.peers)>> => fact[1] = "peers"
  OBVIOUS
<1> QED
  BY <1>3, <1>4, <1>5, <1>6, FactsAre

\* Which facts are lost with a change.
LEMMA LostFacts ==
  ASSUME NEW b, NEW new, NEW fact \in Facts(b), fact \notin Facts(new)
  PROVE  /\ new.set = b.set /\ new.battery = b.battery /\ new.wear = b.wear => fact = <<"peers", AsShown(b.peers)>>
         /\ new.battery = b.battery /\ new.wear = b.wear /\ new.peers = b.peers =>
              \E f \in DOMAIN b.set : Shows(fact, f, b.set[f]) /\ ~(f \in DOMAIN new.set /\ new.set[f] = b.set[f])
         /\ new.set = b.set /\ new.wear = b.wear /\ new.peers = b.peers =>
              \/ \E p \in DOMAIN b.battery :
                   fact = <<p, b.battery[p]>> /\ ~(p \in DOMAIN new.battery /\ new.battery[p] = b.battery[p])
              \/ /\ "stereo" \in DOMAIN b.battery /\ fact = <<"case", b.battery["stereo"]>>
                 /\ ~("stereo" \in DOMAIN new.battery /\ new.battery["stereo"] = b.battery["stereo"])
<1>1. \/ \E f \in DOMAIN b.set : Shows(fact, f, b.set[f])
      \/ \E p \in DOMAIN b.battery : fact = <<p, b.battery[p]>>
      \/ "stereo" \in DOMAIN b.battery /\ fact = <<"case", b.battery["stereo"]>>
      \/ \E s \in DOMAIN b.wear : fact = <<"ear", s, b.wear[s]>>
      \/ fact = <<"peers", AsShown(b.peers)>>
  BY FactsAre
<1>2. /\ \A f \in DOMAIN new.set : ~Shows(fact, f, new.set[f])
      /\ \A p \in DOMAIN new.battery : fact # <<p, new.battery[p]>>
      /\ "stereo" \in DOMAIN new.battery => fact # <<"case", new.battery["stereo"]>>
      /\ \A s \in DOMAIN new.wear : fact # <<"ear", s, new.wear[s]>>
      /\ fact # <<"peers", AsShown(new.peers)>>
  BY FactsAre, Zenon
<1>3. \A s \in DOMAIN b.wear : new.wear = b.wear => fact # <<"ear", s, b.wear[s]>>
  BY <1>2
<1>4. \A f \in DOMAIN b.set : new.set = b.set => ~Shows(fact, f, b.set[f])
  BY <1>2
<1>5. /\ \A p \in DOMAIN b.battery : new.battery = b.battery => fact # <<p, b.battery[p]>>
      /\ new.battery = b.battery /\ "stereo" \in DOMAIN b.battery => fact # <<"case", b.battery["stereo"]>>
  BY <1>2
<1>6. new.peers = b.peers => fact # <<"peers", AsShown(b.peers)>>
  BY <1>2
<1>7. \A f \in DOMAIN b.set : Shows(fact, f, b.set[f]) => ~(f \in DOMAIN new.set /\ new.set[f] = b.set[f])
  BY <1>2
<1>8. /\ \A p \in DOMAIN b.battery :
           fact = <<p, b.battery[p]>> => ~(p \in DOMAIN new.battery /\ new.battery[p] = b.battery[p])
      /\ fact = <<"case", b.battery["stereo"]>> =>
           ~("stereo" \in DOMAIN new.battery /\ new.battery["stereo"] = b.battery["stereo"])
  BY <1>2
<1> QED
  BY <1>1, <1>3, <1>4, <1>5, <1>6, <1>7, <1>8, Zenon

\* Of which topic a fact is that is lost.
LEMMA SettingLoses ==
  ASSUME NEW b, NEW f, NEW v, NEW d, IsState(b, d), NEW fact \in Facts(b),
         fact \notin Facts([b EXCEPT !.set[f] = v])
  PROVE  fact[1] = f
<1> DEFINE new == [b EXCEPT !.set[f] = v]
<1>1. /\ DOMAIN new.set = DOMAIN b.set /\ \A g \in DOMAIN b.set : g # f => new.set[g] = b.set[g]
      /\ new.battery = b.battery /\ new.wear = b.wear /\ new.peers = b.peers
  BY DEF IsState
<1>2. fact \notin Facts(new)
  OBVIOUS
<1> HIDE DEF new
<1>3. PICK g \in DOMAIN b.set : Shows(fact, g, b.set[g]) /\ ~(g \in DOMAIN new.set /\ new.set[g] = b.set[g])
  BY <1>1, <1>2, LostFacts
<1> QED
  BY <1>1, <1>3 DEF Shows

LEMMA BatteryLoses ==
  ASSUME NEW b, NEW part, NEW v, NEW d, IsState(b, d), NEW fact \in Facts(b),
         fact \notin Facts([b EXCEPT !.battery[part] = v])
  PROVE  NameOf(fact[1]) = NameOf(part)
<1> DEFINE new == [b EXCEPT !.battery[part] = v]
<1>1. /\ DOMAIN new.battery = DOMAIN b.battery
      /\ \A p \in DOMAIN b.battery : p # part => new.battery[p] = b.battery[p]
      /\ new.set = b.set /\ new.wear = b.wear /\ new.peers = b.peers
  BY DEF IsState
<1>2. fact \notin Facts(new)
  OBVIOUS
<1> HIDE DEF new
<1>3. \/ \E p \in DOMAIN b.battery :
           fact = <<p, b.battery[p]>> /\ ~(p \in DOMAIN new.battery /\ new.battery[p] = b.battery[p])
      \/ /\ "stereo" \in DOMAIN b.battery /\ fact = <<"case", b.battery["stereo"]>>
         /\ ~("stereo" \in DOMAIN new.battery /\ new.battery["stereo"] = b.battery["stereo"])
  BY <1>1, <1>2, LostFacts
<1>4. fact[1] = part \/ (fact[1] = "case" /\ part = "stereo")
  BY <1>1, <1>3
<1> QED
  BY <1>4 DEF NameOf

LEMMA PeersLose ==
  ASSUME NEW b, NEW list, NEW d, IsState(b, d), NEW fact \in Facts(b),
         fact \notin Facts([b EXCEPT !.peers = list])
  PROVE  fact[1] = "peers"
<1> DEFINE new == [b EXCEPT !.peers = list]
<1>1. new.battery = b.battery /\ new.set = b.set /\ new.wear = b.wear
  BY DEF IsState
<1>2. fact \notin Facts(new)
  OBVIOUS
<1> HIDE DEF new
<1>3. fact = <<"peers", AsShown(b.peers)>>
  BY <1>1, <1>2, LostFacts
<1> QED
  BY <1>3

\* What a SET may do with the earbuds.
LEMMA ObeyIs ==
  ASSUME NEW b, NEW pkt
  PROVE  \/ pkt.cmd = \hF01B /\ \E list : Obey(b, pkt) = [b EXCEPT !.peers = list]
         \/ \E f \in Features : featureCommands[f].set = pkt.cmd /\ \E v : Obey(b, pkt) = [b EXCEPT !.set[f] = v]
         \/ Obey(b, pkt) = b
<1> DEFINE list == [i \in DOMAIN b.peers |->
             IF b.peers[i].MAC = Tail(pkt.payload)
               THEN [b.peers[i] EXCEPT !.Connected = pkt.payload[1] = 1] ELSE b.peers[i]]
           f == FeatureOfSet(pkt.cmd)
           v == SetValue(b.set[f], pkt.cmd, pkt.payload)
           sets == \E x \in Features : featureCommands[x].set = pkt.cmd
<1>1. sets => f \in Features /\ featureCommands[f].set = pkt.cmd
  BY DEF FeatureOfSet
<1>2. pkt.cmd = \hF01B => ~sets
  BY SetsOfFeatures
<1>3. pkt.cmd = \hF01B /\ ~sets => Obey(b, pkt) = [b EXCEPT !.peers = list]
  BY DEF Obey
<1>4. pkt.cmd # \hF01B /\ sets => Obey(b, pkt) = [b EXCEPT !.set[f] = v]
  BY DEF Obey
<1>5. pkt.cmd # \hF01B /\ ~sets => Obey(b, pkt) = b
  BY DEF Obey
<1> HIDE DEF list, f, v, sets
<1> QED
  BY <1>1, <1>2, <1>3, <1>4, <1>5

LEMMA ObeyLoses ==
  ASSUME NEW b, NEW d, IsState(b, d), NEW pkt, NEW fact \in Facts(b), fact \notin Facts(Obey(b, pkt))
  PROVE  Alters(pkt.cmd, NameOf(fact[1]))
<1>1. ASSUME NEW list, Obey(b, pkt) = [b EXCEPT !.peers = list]
      PROVE  NameOf(fact[1]) = "peers"
  <2>1. fact \notin Facts([b EXCEPT !.peers = list])
    BY <1>1, Zenon
  <2>2. fact[1] = "peers"
    BY <2>1, PeersLose, Zenon
  <2> QED
    BY <2>2, TopicNames
<1>2. ASSUME NEW f \in Features, featureCommands[f].set = pkt.cmd, NEW v, Obey(b, pkt) = [b EXCEPT !.set[f] = v]
      PROVE  Alters(pkt.cmd, NameOf(fact[1]))
  <2>1. fact \notin Facts([b EXCEPT !.set[f] = v])
    BY <1>2, Zenon
  <2>2. fact[1] = f
    BY <2>1, SettingLoses, Zenon
  <2>3. NameOf(fact[1]) = f
    BY <2>2, TopicNames
  <2> QED
    BY <1>2, <2>3 DEF Alters
<1>3. pkt.cmd = \hF01B => Alters(pkt.cmd, "peers")
  BY DEF Alters
<1> QED
  BY <1>1, <1>2, <1>3, ObeyIs

LEMMA ObeyKeepsParts ==
  ASSUME NEW b, NEW d, IsState(b, d), NEW pkt
  PROVE  DOMAIN Obey(b, pkt).battery = DOMAIN b.battery
<1>1. \A x : [b EXCEPT !.peers = x].battery = b.battery
  BY DEF IsState
<1>2. \A f, v : [b EXCEPT !.set[f] = v].battery = b.battery
  BY DEF IsState
<1>3. \/ \E x : Obey(b, pkt) = [b EXCEPT !.peers = x]
      \/ \E f, v : Obey(b, pkt) = [b EXCEPT !.set[f] = v]
      \/ Obey(b, pkt) = b
  BY ObeyIs
<1> QED
  BY <1>1, <1>2, <1>3, Zenon

-----------------------------------------------------------------------------
(* The steps of the earbuds.                                               *)

LEMMA OwnParts ==
  ASSUME IInv, RInv, QInv, link # 0
  PROVE  /\ Device \in Earbuds /\ IsState(buds[Device], Device) /\ DOMAIN buds[Device].battery = PartsOf(Device)
         /\ BudsAre /\ SoundWrites(rx, Was) /\ rx \in Chunks(Nat)
         /\ Within(shown, guessed, Was)
<1>1. Device \in Earbuds /\ IsState(buds[Device], Device) /\ SoundWrites(rx, Was) /\ BudsAre
  BY Happened, Zenon
<1>2. DOMAIN buds[Device].battery = PartsOf(Device)
  BY <1>1, Zenon DEF QInv, PartsStay
<1>3. rx \in Chunks(Nat)
  BY <1>1, Zenon DEF SoundWrites
<1> QED
  BY <1>1, <1>2, <1>3, Zenon DEF RInv, ShownIsTrue

LEMMA QuietBecomes ==
  ASSUME IInv, RInv, QInv, link # 0, UNCHANGED linkVars, NEW b, IsState(b, Device),
         DOMAIN b.battery = PartsOf(Device), Become(b)
  PROVE  /\ PartsStay' /\ FactsStay'
         /\ \A topic : Facts(b) \subseteq Known(topic)'
         /\ \A topic : (\A fact \in Facts(buds[Device]) : fact \notin Facts(b) => NameOf(fact[1]) # topic)
              => Known(topic) \subseteq Known(topic)'
<1> DEFINE d == Device
<1>1. d' = d /\ link' = link
  BY DeviceStays DEF linkVars
<1>2. buds' = [buds EXCEPT ![d] = b] /\ past' = past \cup (Facts(buds[d]) \ Facts(b))
  BY Zenon DEF Become
<1>3. d \in Earbuds /\ DOMAIN buds = Earbuds /\ BudsAre
  BY OwnParts, Zenon DEF BudsAre
<1>4. IsState(b, d) /\ DOMAIN b.battery = PartsOf(d)
  OBVIOUS
<1>5. Was' = past' \cup Facts(buds'[d']) /\ Was = past \cup Facts(buds[d])
  BY Zenon DEF Was
<1>6. \A topic : /\ Known(topic)' = Facts(buds'[d']) \cup {fact \in Was' : NameOf(fact[1]) # topic}
                 /\ Known(topic) = Facts(buds[d]) \cup {fact \in Was : NameOf(fact[1]) # topic}
  BY Zenon DEF Known
<1>7. FactsStay <=> (link # 0 => \A fact \in Was : FactOf(fact, d))
  BY Zenon DEF FactsStay
<1>8. FactsStay' <=> (link' # 0 => \A fact \in Was' : FactOf(fact, d'))
  BY Zenon DEF FactsStay
<1> HIDE DEF d
<1>9. buds'[d] = b /\ \A x \in Earbuds : x # d => buds'[x] = buds[x]
  BY <1>2, <1>3
<1>10. PartsStay'
  <2>1. \A x \in Earbuds : DOMAIN buds[x].battery = PartsOf(x)
    BY Zenon DEF QInv, PartsStay
  <2>2. \A x \in Earbuds : DOMAIN buds'[x].battery = PartsOf(x)
    BY <1>4, <1>9, <2>1, Zenon
  <2> QED
    BY <2>2, Zenon DEF PartsStay
<1>11. Was' = past \cup Facts(buds[d]) \cup Facts(b)
  BY <1>1, <1>2, <1>5, <1>9
<1>12. FactsStay'
  <2>1. \A fact \in Was : FactOf(fact, d)
    BY <1>7, Zenon DEF QInv
  <2>2. \A fact \in Facts(b) : FactOf(fact, d)
    BY <1>4, FactOfState
  <2> QED
    BY <1>1, <1>5, <1>8, <1>11, <2>1, <2>2
<1>13. \A topic : Known(topic)' = Facts(b) \cup {fact \in Was' : NameOf(fact[1]) # topic}
  BY <1>1, <1>6, <1>9, Zenon
<1>14. Was \subseteq Was'
  BY <1>5, <1>11
<1>15. ASSUME NEW topic,
              \A fact \in Facts(buds[d]) : fact \notin Facts(b) => NameOf(fact[1]) # topic
       PROVE  Known(topic) \subseteq Known(topic)'
  <2>1. SUFFICES ASSUME NEW fact \in Known(topic) PROVE fact \in Facts(b) \cup {x \in Was' : NameOf(x[1]) # topic}
    BY <1>13
  <2>2. fact \in Facts(buds[d]) \/ (fact \in Was /\ NameOf(fact[1]) # topic)
    BY <1>6, <2>1, Zenon
  <2>3. fact \in Was
    BY <1>5, <2>2, Zenon
  <2>4. fact \in Facts(b) \/ NameOf(fact[1]) # topic
    BY <1>15, <2>2, Zenon
  <2> QED
    BY <1>14, <2>3, <2>4, Zenon
<1>16. \A topic : Facts(b) \subseteq Known(topic)'
  BY <1>13, Zenon
<1> QED
  BY <1>10, <1>12, <1>15, <1>16, Zenon DEF d

\* What was announced stays so, and what is settled may.
LEMMA AgreesStays ==
  ASSUME NEW topic, Agrees(topic), topic \in owed => topic \in owed' \/ topic = "case",
         Wanted(tx, topic) => Wanted(tx', topic) \/ Settled(topic)',
         later' = later, rx \in Chunks(Nat), rx' = rx \/ \E w \in Seq(Nat) : rx' = Append(rx, w),
         Settled(topic) => Agrees(topic)'
  PROVE  Agrees(topic)'
<1>1. Announced => Announced'
  <2>1. CASE rx' = rx
    BY <2>1, Zenon DEF Announced
  <2>2. CASE \E w \in Seq(Nat) : rx' = Append(rx, w)
    <3>1. PICK w \in Seq(Nat) : rx' = Append(rx, w)
      BY <2>2
    <3>2. \A i \in DOMAIN rx : i \in DOMAIN rx' /\ rx'[i] = rx[i]
      BY <3>1, Longer, Zenon
    <3> QED
      BY <3>2, Zenon DEF Announced
  <2> QED
    BY <2>1, <2>2
<1>2. CASE topic \in owed /\ topic # "case"
  BY <1>2, Zenon DEF Agrees
<1>3. CASE Wanted(tx, topic)
  BY <1>3, Zenon DEF Agrees
<1>4. CASE topic = "peers" /\ Announced
  BY <1>1, <1>4, Zenon DEF Agrees
<1> QED
  BY <1>2, <1>3, <1>4, Zenon DEF Agrees

\* A step of the earbuds, which write at most once.
LEMMA QuietWrites ==
  ASSUME IInv, RInv, QInv, link # 0, UNCHANGED <<linkVars, shown, guessed, later>>, PartsStay', FactsStay',
         owed' \subseteq owed \cup Features,
         rx' = rx \/ \E w \in Seq(Nat) : rx' = Append(rx, w) /\ ("case" \in PartsOf(Device) \/ PlainWrite(w)),
         \A topic : Agrees(topic)' /\ Followed(tx, owed, topic)'
  PROVE  QInv'
<1>1. Device' = Device /\ link' = link
  BY DeviceStays DEF linkVars
<1>2. Counted'
  BY Zenon DEF QInv, Counted
<1>3. "case" \in PartsOf(Device) \/ \A i \in DOMAIN rx' : PlainWrite(rx'[i])
  <2>1. SUFFICES ASSUME "case" \notin PartsOf(Device), NEW i \in DOMAIN rx' PROVE PlainWrite(rx'[i])
    OBVIOUS
  <2>2. \A k \in DOMAIN rx : PlainWrite(rx[k])
    BY <2>1, Zenon DEF QInv, CaseIs
  <2>3. CASE rx' = rx
    BY <2>1, <2>2, <2>3
  <2>4. CASE rx' # rx
    <3>1. PICK w \in Seq(Nat) : rx' = Append(rx, w) /\ PlainWrite(w)
      BY <2>1, <2>4
    <3>2. rx \in Chunks(Nat)
      BY OwnParts
    <3>3. \A k \in DOMAIN rx' : rx'[k] = w \/ (k \in DOMAIN rx /\ rx'[k] = rx[k])
      BY <3>1, <3>2, Longer, Zenon
    <3> QED
      BY <2>1, <2>2, <3>1, <3>3, Zenon
  <2> QED
    BY <2>3, <2>4
<1>4. CaseIs'
  <2>1. /\ "case" \in Sure => "case" \in PartsOf(Device) \/ Codename(shown.model).BatteryCaseSource = "stereo"
        /\ ~({"case", "stereo"} \subseteq Sure)
    BY Zenon DEF QInv, CaseIs
  <2>2. Sure' = Sure /\ shown' = shown
    BY Zenon DEF Sure
  <2> QED
    BY <1>1, <1>3, <2>1, <2>2, Zenon DEF CaseIs
<1>5. AllAgree'
  BY Zenon DEF AllAgree
<1> QED
  BY <1>2, <1>4, <1>5, Zenon DEF QInv

-----------------------------------------------------------------------------
(* What is asked is answered.                                              *)

\* The answer of earbuds whose case has the other name.
LEMMA AnswerPlain ==
  ASSUME NEW b, NEW d, IsState(b, d), NEW cmd, IsQuery(cmd), FeaturesOfGet(cmd) \subseteq DOMAIN b.set,
         "case" \notin DOMAIN b.battery
  PROVE  PlainCase(Packet(ResponseCmd(cmd), Answer(b, cmd)))
<1>1. CASE cmd = \hC007
  <2>1. FeaturesOfGet(cmd) = {}
    BY <1>1, OnlySettings DEF FeaturesOfGet, GetOf
  <2>2. Answer(b, cmd) = BatteryPairs(b.battery)
    BY <1>1, <2>1 DEF Answer, BatteryPairs
  <2>3. IsPartMap(b.battery, BatteryValues)
    BY DEF IsState
  <2>4. PlainCase(Packet(\h4007, BatteryPairs(b.battery)))
    BY <2>3, BatterySays, OthersRead, OwnKeys
  <2> QED
    BY <1>1, <2>2, <2>4, ListsAnswered
<1>2. CASE cmd # \hC007
  <2> DEFINE new == [b EXCEPT !.battery = NoMap]
  <2>1. new.set = b.set /\ new.wear = b.wear /\ new.peers = b.peers /\ new.battery = NoMap /\ DOMAIN new = DOMAIN b
    BY DEF IsState
  <2> HIDE DEF new
  <2>2. IsPartMap(NoMap, BatteryValues)
    BY NothingInNone, Zenon DEF IsPartMap
  <2>3. IsState(new, d)
    BY <2>1, <2>2 DEF IsState
  <2>4. Answer(new, cmd) = Answer(b, cmd)
    BY <1>2, <2>1 DEF Answer
  <2>5. Says(ResponseCmd(cmd), Answer(b, cmd), Facts(new))
    BY <2>1, <2>3, <2>4, AnswerSays
  <2>6. \A fact \in Facts(new) : fact[1] # "case"
    <3>1. SUFFICES ASSUME NEW fact \in Facts(new), fact[1] = "case" PROVE FALSE
      OBVIOUS
    <3>2. \A f \in DOMAIN b.set : f # "case"
      BY TopicNames, Zenon DEF IsState, Own
    <3>3. \/ \E f \in DOMAIN b.set : Shows(fact, f, new.set[f])
          \/ \E s \in DOMAIN b.wear : fact = <<"ear", s, new.wear[s]>>
          \/ fact = <<"peers", AsShown(new.peers)>>
      BY <2>1, NothingInNone, FactsAre
    <3> QED
      BY <3>1, <3>2, <3>3 DEF Shows
  <2> QED
    BY <2>5, <2>6, SaysNoCase
<1> QED
  BY <1>1, <1>2

LEMMA SetsAreHigh == \A x \in SetCmds : x \notin \hC000 .. \hCFFF /\ x # \hC028
<1>1. \A x \in \hC000 .. \hCFFF : x < \hF000
  BY SMT
<1>2. \A x \in SetCmds : x \in Int /\ x >= \hF000
  BY SMT DEF SetCmds
<1>3. \A x \in Int : x >= \hF000 => ~(x < \hF000) /\ x # \hC028
  BY SMT
<1> QED
  BY <1>1, <1>2, <1>3

LEMMA NothingWanted ==
  ASSUME NEW cmd, cmd \in SafeSets \cup OtherSets, NEW topic
  PROVE  ~Wants(cmd, topic)
<1>1. cmd \in SetCmds
  BY DEF SafeSets, OtherSets, SetCmds
<1>2. cmd \notin \hC000 .. \hCFFF /\ cmd # \hC028
  BY <1>1, SetsAreHigh
<1>3. \A f \in Features : GetOf(f) # cmd
  BY <1>1, <1>2, AnswerOf
<1> QED
  BY <1>1, <1>2, <1>3 DEF Wants, FeaturesOfGet, GetOf

\* What was asked for is on its way, or they do not have it.
LEMMA Served ==
  ASSUME IInv, RInv, QInv, tx # <<>>, IsQuery(Head(tx).cmd), UNCHANGED <<linkVars, buds, past, shown, guessed>>,
         IF FeaturesOfGet(Head(tx).cmd) \subseteq DOMAIN buds[Device].set
           THEN Emit(ResponseCmd(Head(tx).cmd), Answer(buds[Device], Head(tx).cmd))
           ELSE UNCHANGED rx
  PROVE  /\ rx' = rx \/ \E w \in Seq(Nat) : /\ rx' = Append(rx, w) /\ Sound(w, Facts(buds[Device]))
                                            /\ "case" \in PartsOf(Device) \/ PlainWrite(w)
         /\ \A topic : Wants(Head(tx).cmd, topic) => Settled(topic)'
<1> DEFINE b == buds[Device]
           cmd == Head(tx).cmd
           p == Answer(b, cmd)
           w == MarshalBinary(Packet(ResponseCmd(cmd), p))
<1>1. link # 0
  BY Asked, Zenon
<1>2. /\ IsState(b, Device) /\ DOMAIN b.battery = PartsOf(Device) /\ rx \in Chunks(Nat)
      /\ SoundWrites(rx, Was) /\ Within(shown, guessed, Was) /\ IsQuery(cmd)
  BY <1>1, OwnParts, Zenon
<1>3. /\ Was' = Was /\ Device' = Device /\ \A topic : Known(topic)' = Known(topic)
      /\ UNCHANGED shown /\ UNCHANGED guessed
  BY KnownStays
<1>4. CASE FeaturesOfGet(cmd) \subseteq DOMAIN b.set
  <2>1. rx' = Append(rx, w)
    BY <1>4, Zenon DEF Emit
  <2>2. Says(ResponseCmd(cmd), p, Facts(b))
    BY <1>2, <1>4, AnswerSays
  <2>3. "case" \in PartsOf(Device) \/ PlainCase(Packet(ResponseCmd(cmd), p))
    BY <1>2, <1>4, AnswerPlain
  <2>4. ASSUME NEW topic, Wants(cmd, topic) PROVE Renewing(Packet(ResponseCmd(cmd), p), topic)
    <3>1. CASE topic \in FeaturesOfGet(cmd)
      BY <1>2, <1>4, <3>1, SettingAnswered
    <3>2. CASE topic = "peers" /\ cmd = \hC028
      <4>1. FeaturesOfGet(cmd) = {}
        BY <3>2, OnlySettings DEF FeaturesOfGet, GetOf
      <4>2. p = EncodePeers(b.peers)
        BY <3>2, <4>1 DEF Answer
      <4>3. b.peers \in PeerLists
        BY <1>2, Zenon DEF IsState
      <4> HIDE DEF p, b, cmd
      <4>4. Renewing(Packet(\h4028, EncodePeers(b.peers)), "peers")
        BY <4>3, PeersSay, OthersRead, OwnKeys
      <4> QED
        BY <3>2, <4>2, <4>4, ListsAnswered
    <3> QED
      BY <2>4, <3>1, <3>2 DEF Wants
  <2> HIDE DEF p, b, cmd
  <2>5. /\ w \in Seq(Nat) /\ Sound(w, Facts(b))
        /\ \A topic : Renewing(Packet(ResponseCmd(cmd), p), topic) => RenewsAt(w, topic)
        /\ "case" \in PartsOf(Device) \/ PlainWrite(w)
    <3>1. w = MarshalBinary(Packet(ResponseCmd(cmd), p))
      OBVIOUS
    <3> HIDE DEF w
    <3>2. /\ w \in Seq(Nat) /\ Sound(w, Facts(b))
          /\ \A topic : Renewing(Packet(ResponseCmd(cmd), p), topic) => RenewsAt(w, topic)
          /\ PlainCase(Packet(ResponseCmd(cmd), p)) => PlainWrite(w)
      BY <2>2, <3>1, SaysWrites
    <3> QED
      BY <2>3, <3>2
  <2> HIDE DEF w
  <2>6. ASSUME NEW topic, Wants(cmd, topic) PROVE Settled(topic)'
    <3>1. Facts(b) \subseteq Known(topic)
      BY Zenon DEF Known, b
    <3>2. Facts(b) \subseteq Known(topic)'
      BY <1>3, <3>1, Zenon
    <3>3. Sound(w, Known(topic)')
      BY <2>5, <3>2, Zenon DEF Sound, Truthful
    <3>4. RenewsAt(w, topic)
      BY <2>4, <2>5, <2>6
    <3> QED
      BY <1>2, <2>1, <2>5, <3>3, <3>4, SettledAnew
  <2> QED
    BY <2>1, <2>5, <2>6 DEF b, cmd
<1>5. CASE ~(FeaturesOfGet(cmd) \subseteq DOMAIN b.set)
  <2>1. rx' = rx
    BY <1>5, Zenon
  <2>2. PICK f \in FeaturesOfGet(cmd) : f \notin DOMAIN b.set
    BY <1>5
  <2>3. f \in Features /\ GetOf(f) = cmd /\ f \notin Own(Device) /\ \A x \in FeaturesOfGet(cmd) : x = f
    <3>1. f \in Features /\ GetOf(f) = cmd
      BY <2>2, Zenon DEF FeaturesOfGet, GetOf
    <3>2. \A x \in FeaturesOfGet(cmd) : x = f
      <4>1. \A x \in Features : GetOf(x) = GetOf(f) => x = f
        BY <3>1, AnswerOf
      <4>2. \A x \in FeaturesOfGet(cmd) : x \in Features /\ GetOf(x) = cmd
        BY Zenon DEF FeaturesOfGet, GetOf
      <4> QED
        BY <3>1, <4>1, <4>2, Zenon
    <3> QED
      BY <1>2, <2>2, <3>1, <3>2, Zenon DEF IsState
  <2>4. ASSUME NEW topic, Wants(cmd, topic) PROVE topic = f
    <3>1. cmd # \hC028
      BY <2>3, OnlySettings
    <3> QED
      BY <2>3, <2>4, <3>1 DEF Wants
  <2> HIDE DEF b, cmd
  <2>5. Was \subseteq Known(f)
    <3>1. ASSUME NEW fact \in Was PROVE NameOf(fact[1]) # f
      <4>1. fact[1] \in Features => fact[1] \in Own(Device)
        BY <1>1, <3>1, Zenon DEF QInv, FactsStay, FactOf
      <4>2. fact[1] # f
        BY <2>3, <4>1
      <4> QED
        BY <2>3, <4>2, TopicNames DEF NameOf
    <3> QED
      BY <3>1 DEF Known
  <2>6. Settled(f)'
    <3>1. Within(shown, guessed, Known(f)) /\ SoundWrites(rx, Known(f))
      BY <1>2, <2>5, WithinGrows, SoundGrows
    <3>2. Settled(f)
      BY <3>1, Zenon DEF Settled
    <3>3. Known(f) \subseteq Known(f)'
      BY <1>3, Zenon
    <3> QED
      BY <1>3, <2>1, <3>2, <3>3, SettledKeeps
  <2> QED
    BY <2>1, <2>4, <2>6 DEF b, cmd
<1> QED
  BY <1>4, <1>5

-----------------------------------------------------------------------------
(* The steps of the earbuds: what they are asked, and their news.          *)

LEMMA QuietServeQuery ==
  ASSUME IInv, RInv, QInv, ServeQuery
  PROVE  QInv'
<1> DEFINE b == buds[Device]
           cmd == Head(tx).cmd
<1>1. /\ tx # <<>> /\ Kind(cmd) # 15 /\ UNCHANGED <<linkVars, buds, past, shown, guessed>>
      /\ tx' = Tail(tx) /\ UNCHANGED <<later, owed>>
      /\ IF FeaturesOfGet(cmd) \subseteq DOMAIN b.set THEN Emit(ResponseCmd(cmd), Answer(b, cmd)) ELSE UNCHANGED rx
  BY DEF ServeQuery, ServeVars, sessionVars
<1>2. link # 0 /\ IsQuery(cmd) /\ rx \in Chunks(Nat)
  BY <1>1, Asked, OwnParts, Zenon
<1>3. /\ rx' = rx \/ \E w \in Seq(Nat) : /\ rx' = Append(rx, w) /\ Sound(w, Facts(b))
                                         /\ "case" \in PartsOf(Device) \/ PlainWrite(w)
      /\ \A topic : Wants(cmd, topic) => Settled(topic)'
  BY <1>1, <1>2, Served
<1> HIDE DEF cmd, b
<1>4. /\ Was' = Was /\ Device' = Device /\ link' = link /\ buds' = buds
      /\ \A topic : Known(topic)' = Known(topic)
  BY <1>1, KnownStays
<1>5. PartsStay' /\ FactsStay'
  BY <1>4, Zenon DEF QInv, PartsStay, FactsStay
<1>6. PICK S : tx \in Seq(S)
  BY Zenon DEF IInv, TrafficFits, IsTraffic
<1>7. ASSUME NEW topic PROVE Settled(topic) => Settled(topic)'
  <2>1. Facts(b) \subseteq Known(topic)
    BY Zenon DEF Known, b
  <2>2. Known(topic) \subseteq Known(topic)' /\ \A w : Sound(w, Facts(b)) => Sound(w, Known(topic)')
    BY <1>4, <2>1, Zenon DEF Sound, Truthful
  <2>3. rx' = rx \/ \E w \in Seq(Nat) : rx' = Append(rx, w) /\ Sound(w, Known(topic)')
    BY <1>3, <2>2, Zenon
  <2> QED
    BY <1>1, <2>2, <2>3, SettledKeeps, Zenon
<1>8. ASSUME NEW topic PROVE Agrees(topic)'
  <2>1. Agrees(topic)
    BY <1>2, Zenon DEF QInv, AllAgree
  <2>2. Wanted(tx, topic) => Wanted(tx', topic) \/ Settled(topic)'
    <3>1. Wanted(tx, topic) => Wants(Head(tx).cmd, topic) \/ Wanted(Tail(tx), topic)
      BY <1>1, <1>6, TailKeeps
    <3> QED
      BY <1>1, <1>3, <3>1, Zenon DEF cmd
  <2>3. Settled(topic) => Agrees(topic)'
    BY <1>7, Zenon DEF Agrees
  <2>4. rx' = rx \/ \E w \in Seq(Nat) : rx' = Append(rx, w)
    BY <1>3, Zenon
  <2> QED
    BY <1>1, <1>2, <2>1, <2>2, <2>3, <2>4, AgreesStays
<1>9. ASSUME NEW topic PROVE Followed(tx, owed, topic)'
  <2>1. Followed(tx, owed, topic)
    BY <1>2, Zenon DEF QInv, AllAgree
  <2>2. Followed(Tail(tx), owed, topic)
    BY <1>1, <1>6, <2>1, TailKeeps
  <2> QED
    BY <1>1, <2>2, Zenon
<1>10. rx' = rx \/ \E w \in Seq(Nat) : rx' = Append(rx, w) /\ ("case" \in PartsOf(Device) \/ PlainWrite(w))
  BY <1>3, Zenon
<1>11. owed' \subseteq owed \cup Features
  BY <1>1
<1> QED
  BY <1>1, <1>2, <1>5, <1>8, <1>9, <1>10, <1>11, QuietWrites, Zenon

\* The acknowledgement of a SET, obeyed or not: nothing about what it does not alter is
\* lost.
LEMMA QuietAcked ==
  ASSUME IInv, RInv, QInv, tx # <<>>, link # 0, Head(tx).cmd \in SafeSets \cup OtherSets,
         UNCHANGED <<linkVars, shown, guessed, later, owed>>, tx' = Tail(tx),
         NEW result, result \in Nat, Emit(ResponseCmd(Head(tx).cmd), <<result>>), PartsStay', FactsStay',
         \A topic : Alters(Head(tx).cmd, topic) \/ Known(topic) \subseteq Known(topic)'
  PROVE  QInv'
<1> DEFINE cmd == Head(tx).cmd
           w == MarshalBinary(Packet(ResponseCmd(cmd), <<result>>))
<1>1. \A facts : Says(ResponseCmd(cmd), <<result>>, facts)
  BY AckOfSetSays
<1>2. rx' = Append(rx, w)
  BY Zenon DEF Emit
<1>3. w \in Seq(Nat) /\ PlainWrite(w) /\ \A facts : Sound(w, facts)
  <2> DEFINE none == {}
             c == ResponseCmd(cmd)
  <2>1. \A fact \in none : fact[1] # "case"
    OBVIOUS
  <2> HIDE DEF none
  <2>2. PlainCase(Packet(c, <<result>>))
    BY <1>1, <2>1, SaysNoCase
  <2>3. w = MarshalBinary(Packet(c, <<result>>))
    OBVIOUS
  <2> HIDE DEF w, c
  <2>4. \A facts : Says(c, <<result>>, facts)
    BY <1>1 DEF c
  <2>5. ASSUME NEW facts
        PROVE  w \in Seq(Nat) /\ Sound(w, facts) /\ (PlainCase(Packet(c, <<result>>)) => PlainWrite(w))
    BY <2>3, <2>4, SaysWrites
  <2> QED
    BY <2>2, <2>5, Zenon
<1> HIDE DEF w, cmd
<1>4. PICK S : tx \in Seq(S)
  BY Zenon DEF IInv, TrafficFits, IsTraffic
<1>5. rx \in Chunks(Nat)
  BY OwnParts
<1>6. rx' = rx \/ \E x \in Seq(Nat) : rx' = Append(rx, x)
  BY <1>2, <1>3
<1>7. ASSUME NEW topic PROVE Agrees(topic)' /\ Followed(tx, owed, topic)'
  <2>1. Agrees(topic) /\ Followed(tx, owed, topic)
    BY Zenon DEF QInv, AllAgree
  <2>2. /\ Wanted(tx, topic) => Wants(cmd, topic) \/ Wanted(Tail(tx), topic)
        /\ Followed(Tail(tx), owed, topic)
        /\ Alters(cmd, topic) => topic \in owed \/ Wanted(Tail(tx), topic)
    BY <1>4, <2>1, TailKeeps DEF cmd
  <2>3. ~Wants(cmd, topic)
    BY NothingWanted DEF cmd
  <2>4. Followed(tx, owed, topic)'
    BY <2>2, Zenon
  <2>5. Settled(topic) => Agrees(topic)'
    <3>1. CASE Alters(cmd, topic)
      <4>1. topic # "case"
        BY <3>1, TopicNames DEF Alters
      <4>2. topic \in owed' \/ Wanted(tx', topic)
        BY <2>2, <3>1, Zenon
      <4> QED
        BY <4>1, <4>2, Zenon DEF Agrees
    <3>2. CASE ~Alters(cmd, topic)
      <4>1. Known(topic) \subseteq Known(topic)'
        BY <3>2 DEF cmd
      <4>2. rx' = rx \/ \E x \in Seq(Nat) : rx' = Append(rx, x) /\ Sound(x, Known(topic)')
        BY <1>2, <1>3, Zenon
      <4> QED
        BY <4>1, <4>2, SettledKeeps, Zenon DEF Agrees
    <3> QED
      BY <3>1, <3>2
  <2>6. Wanted(tx, topic) => Wanted(tx', topic)
    BY <2>2, <2>3, Zenon
  <2> QED
    BY <1>5, <1>6, <2>1, <2>4, <2>5, <2>6, AgreesStays, Zenon
<1>8. rx' = rx \/ \E x \in Seq(Nat) : rx' = Append(rx, x) /\ ("case" \in PartsOf(Device) \/ PlainWrite(x))
  BY <1>2, <1>3, Zenon
<1>9. owed' \subseteq owed \cup Features
  OBVIOUS
<1> QED
  BY <1>7, <1>8, <1>9, QuietWrites, Zenon

LEMMA QuietObeySet ==
  ASSUME IInv, RInv, QInv, ObeySet
  PROVE  QInv'
<1> DEFINE b == buds[Device]
           new == Obey(b, Head(tx))
<1>1. /\ tx # <<>> /\ Kind(Head(tx).cmd) = 15 /\ UNCHANGED <<linkVars, shown, guessed, later, owed>>
      /\ tx' = Tail(tx) /\ Become(new) /\ Emit(ResponseCmd(Head(tx).cmd), <<0>>)
  BY DEF ObeySet, ServeVars, sessionVars
<1>2. link # 0 /\ Head(tx).cmd \in SafeSets \cup OtherSets
  BY <1>1, Asked, Zenon
<1>3. IsState(b, Device) /\ DOMAIN b.battery = PartsOf(Device)
  BY <1>2, OwnParts, Zenon
<1>4. IsState(new, Device) /\ DOMAIN new.battery = PartsOf(Device)
  BY <1>3, ObeyStays, ObeyKeepsParts, Zenon
<1>5. \A fact \in Facts(b) : fact \notin Facts(new) => Alters(Head(tx).cmd, NameOf(fact[1]))
  BY <1>3, ObeyLoses, Zenon
<1> HIDE DEF new
<1>6. /\ PartsStay' /\ FactsStay'
      /\ \A topic : (\A fact \in Facts(b) : fact \notin Facts(new) => NameOf(fact[1]) # topic)
           => Known(topic) \subseteq Known(topic)'
  BY <1>1, <1>2, <1>4, QuietBecomes, Zenon
<1>7. \A topic : Alters(Head(tx).cmd, topic) \/ Known(topic) \subseteq Known(topic)'
  BY <1>5, <1>6, Zenon
<1>8. 0 \in Nat
  OBVIOUS
<1> HIDE DEF b
<1> QED
  BY <1>1, <1>2, <1>6, <1>7, <1>8, QuietAcked

LEMMA QuietRefuseSet ==
  ASSUME IInv, RInv, QInv, RefuseSet
  PROVE  QInv'
<1>1. /\ tx # <<>> /\ Kind(Head(tx).cmd) = 15 /\ UNCHANGED <<linkVars, buds, past, shown, guessed, later, owed>>
      /\ tx' = Tail(tx) /\ Emit(ResponseCmd(Head(tx).cmd), <<1>>)
  BY DEF RefuseSet, ServeVars, sessionVars
<1>2. link # 0 /\ Head(tx).cmd \in SafeSets \cup OtherSets
  BY <1>1, Asked, Zenon
<1>3. /\ Was' = Was /\ Device' = Device /\ link' = link /\ buds' = buds
      /\ \A topic : Known(topic)' = Known(topic)
  BY <1>1, KnownStays
<1>4. PartsStay' /\ FactsStay'
  BY <1>3, Zenon DEF QInv, PartsStay, FactsStay
<1>5. 1 \in Nat
  OBVIOUS
<1> QED
  BY <1>1, <1>2, <1>3, <1>4, <1>5, QuietAcked

-----------------------------------------------------------------------------
(* News.                                                                   *)

LEMMA QuietNews ==
  ASSUME IInv, RInv, QInv, link # 0, UNCHANGED <<linkVars, tx, shown, guessed, later>>, PartsStay', FactsStay',
         owed \subseteq owed', owed' \subseteq owed \cup Features,
         rx' = rx \/ \E w \in Seq(Nat) : rx' = Append(rx, w) /\ ("case" \in PartsOf(Device) \/ PlainWrite(w)),
         \A topic : Settled(topic) => Agrees(topic)'
  PROVE  QInv'
<1>1. rx \in Chunks(Nat)
  BY OwnParts
<1>2. ASSUME NEW topic PROVE Agrees(topic)' /\ Followed(tx, owed, topic)'
  <2>1. Agrees(topic) /\ Followed(tx, owed, topic)
    BY Zenon DEF QInv, AllAgree
  <2>2. Followed(tx, owed, topic)'
    BY <2>1, Zenon DEF Followed
  <2>3. rx' = rx \/ \E w \in Seq(Nat) : rx' = Append(rx, w)
    BY Zenon
  <2>4. Wanted(tx, topic) => Wanted(tx', topic)
    BY Zenon
  <2>5. topic \in owed => topic \in owed'
    OBVIOUS
  <2>6. later' = later
    OBVIOUS
  <2> QED
    BY <1>1, <2>1, <2>2, <2>3, <2>4, <2>5, <2>6, AgreesStays
<1> QED
  BY <1>2, QuietWrites

\* A packet or bytes that tell nothing.
LEMMA QuietNoise ==
  ASSUME IInv, RInv, QInv, link # 0,
         UNCHANGED <<linkVars, tx, shown, guessed, later, buds, past, owed>>,
         NEW w, w \in Seq(Nat), PlainWrite(w), \A facts : Sound(w, facts), rx' = Append(rx, w)
  PROVE  QInv'
<1>1. /\ Was' = Was /\ Device' = Device /\ link' = link /\ buds' = buds
      /\ \A topic : Known(topic)' = Known(topic)
  BY KnownStays
<1>2. PartsStay' /\ FactsStay'
  BY <1>1, Zenon DEF QInv, PartsStay, FactsStay
<1>3. ASSUME NEW topic, Settled(topic) PROVE Agrees(topic)'
  <2>1. Known(topic) \subseteq Known(topic)'
    BY <1>1, Zenon
  <2>2. \E x \in Seq(Nat) : rx' = Append(rx, x) /\ Sound(x, Known(topic)')
    BY Zenon
  <2> QED
    BY <1>3, <2>1, <2>2, SettledKeeps, Zenon DEF Agrees
<1>4. \E x \in Seq(Nat) : rx' = Append(rx, x) /\ ("case" \in PartsOf(Device) \/ PlainWrite(x))
  BY Zenon
<1>5. owed \subseteq owed' /\ owed' \subseteq owed \cup Features
  OBVIOUS
<1> QED
  BY <1>2, <1>3, <1>4, <1>5, QuietNews, Zenon

LEMMA QuietSendsPacket ==
  ASSUME IInv, RInv, QInv, NEW n, SendsPacket(n)
  PROVE  QInv'
<1> DEFINE cmd == n.value.cmd
           p == n.value.payload
           w == MarshalBinary(Packet(cmd, p))
<1>1. /\ n \in News /\ link # 0 /\ UNCHANGED <<linkVars, tx, shown, guessed, later, buds, past, owed>>
      /\ n.what = "packet" /\ rx' = Append(rx, w)
  BY DEF SendsPacket, Happens, NewsVars, sessionVars, historyVars, Emit
<1>2. n.value \in Packets /\ Parsers(cmd) = {}
  BY <1>1, NewsAre, Zenon
<1>3. cmd \in Nat /\ p \in Seq(Bytes)
  BY <1>2, PacketParts, Zenon
<1> HIDE DEF cmd, p
<1>4. \A facts : Says(cmd, p, facts)
  <2>1. p \in Seq(Nat)
    BY <1>3, ByteSeqs DEF IsSeq
  <2>2. \A facts : Truthful(Packet(cmd, p), facts)
    BY <1>2, UnknownTellsNothing
  <2> QED
    BY <1>3, <2>1, <2>2 DEF Says
<1>5. PlainCase(Packet(cmd, p))
  <2> DEFINE none == {}
  <2>1. \A fact \in none : fact[1] # "case"
    OBVIOUS
  <2> HIDE DEF none
  <2> QED
    BY <1>4, <2>1, SaysNoCase
<1>6. w = MarshalBinary(Packet(cmd, p))
  OBVIOUS
<1> HIDE DEF w
<1>7. w \in Seq(Nat) /\ PlainWrite(w) /\ \A facts : Sound(w, facts)
  <2>1. ASSUME NEW facts
        PROVE  w \in Seq(Nat) /\ Sound(w, facts) /\ (PlainCase(Packet(cmd, p)) => PlainWrite(w))
    BY <1>4, <1>6, SaysWrites
  <2> QED
    BY <1>5, <2>1, Zenon
<1> QED
  BY <1>1, <1>7, QuietNoise

LEMMA QuietSendsBytes ==
  ASSUME IInv, RInv, QInv, NEW n, SendsBytes(n)
  PROVE  QInv'
<1> DEFINE w == n.value
<1>1. /\ n \in News /\ link # 0 /\ UNCHANGED <<linkVars, tx, shown, guessed, later, buds, past, owed>>
      /\ n.what = "bytes" /\ rx' = Append(rx, w)
  BY DEF SendsBytes, Happens, NewsVars, sessionVars, historyVars
<1>2. w \in Seq(Bytes) /\ NoPacket(w)
  BY <1>1, NewsAre, Zenon
<1> HIDE DEF w
<1>3. w \in Seq(Nat)
  BY <1>2, ByteSeqs DEF IsSeq
<1>4. IsNoise(w) \/ IsHopeless(w)
  BY <1>2, <1>3 DEF NoPacket, IsNoise, IsHopeless
<1>5. PlainWrite(w) /\ \A facts : Sound(w, facts)
  BY <1>4, Zenon DEF Sound, PlainWrite
<1> QED
  BY <1>1, <1>3, <1>5, QuietNoise

\* The list that changed is announced.
LEMMA QuietPeersChange ==
  ASSUME IInv, RInv, QInv, NEW n, PeersChange(n)
  PROVE  QInv'
<1> DEFINE b == buds[Device]
           new == [b EXCEPT !.peers = n.value]
           cmd == \hE00E
           w == MarshalBinary(Packet(cmd, <<1>>))
<1>1. /\ n \in News /\ link # 0 /\ UNCHANGED <<linkVars, tx, shown, guessed, later, owed>>
      /\ n.what = "peers" /\ Become(new) /\ rx' = Append(rx, w)
  BY DEF PeersChange, Happens, NewsVars, sessionVars, Emit
<1>2. /\ Device \in Earbuds /\ IsState(b, Device) /\ DOMAIN b.battery = PartsOf(Device) /\ rx \in Chunks(Nat)
  <2>1. link # 0
    BY <1>1
  <2> QED
    BY <2>1, OwnParts
<1>3. n.value \in PeerLists
  <2>1. n \in News /\ n.what = "peers"
    BY <1>1
  <2> QED
    BY <2>1, NewsAre, Zenon
<1>4. IsState(new, Device)
  BY <1>2, <1>3, StateParts
<1>5. new.battery = b.battery
  BY <1>2 DEF IsState
<1>6. \A fact \in Facts(b) : fact \notin Facts(new) => fact[1] = "peers"
  BY <1>2, PeersLose, Zenon
<1>7. \A facts : Says(cmd, <<1>>, facts)
  BY PeersEventSays
<1>8. w \in Seq(Nat) /\ PlainWrite(w) /\ IsListNews(w) /\ \A facts : Sound(w, facts)
  <2> DEFINE none == {}
  <2>1. \A fact \in none : fact[1] # "case"
    OBVIOUS
  <2> HIDE DEF none
  <2>2. PlainCase(Packet(cmd, <<1>>))
    BY <1>7, <2>1, SaysNoCase
  <2>3. w = MarshalBinary(Packet(cmd, <<1>>))
    OBVIOUS
  <2> HIDE DEF w
  <2>4. ASSUME NEW facts
        PROVE  /\ w \in Seq(Nat) /\ Sound(w, facts) /\ (PlainCase(Packet(cmd, <<1>>)) => PlainWrite(w))
               /\ IsListNews(w)
    BY <1>7, <2>3, SaysWrites
  <2> QED
    BY <2>2, <2>4
<1> HIDE DEF cmd, w, new
<1>9. /\ PartsStay' /\ FactsStay'
      /\ \A topic : (\A fact \in Facts(b) : fact \notin Facts(new) => NameOf(fact[1]) # topic)
           => Known(topic) \subseteq Known(topic)'
  BY <1>1, <1>2, <1>4, <1>5, QuietBecomes, Zenon
<1> HIDE DEF b
<1>10. ASSUME NEW topic, Settled(topic) PROVE Agrees(topic)'
  <2>1. CASE topic = "peers"
    <3>1. Len(rx) + 1 \in DOMAIN rx' /\ rx'[Len(rx) + 1] = w
      BY <1>1, <1>2, <1>8, Longer
    <3>2. Announced'
      BY <1>8, <3>1, Zenon DEF Announced
    <3> QED
      BY <2>1, <3>2, Zenon DEF Agrees
  <2>2. CASE topic # "peers"
    <3>1. \A fact \in Facts(b) : fact \notin Facts(new) => NameOf(fact[1]) # topic
      BY <1>6, <2>2, TopicNames
    <3>2. Known(topic) \subseteq Known(topic)'
      BY <1>9, <3>1, Zenon
    <3>3. \E x \in Seq(Nat) : rx' = Append(rx, x) /\ Sound(x, Known(topic)')
      BY <1>1, <1>8, Zenon
    <3>4. UNCHANGED <<shown, guessed>>
      BY <1>1
    <3> QED
      BY <1>10, <3>2, <3>3, <3>4, SettledKeeps, Zenon DEF Agrees
  <2> QED
    BY <2>1, <2>2
<1>11. \E x \in Seq(Nat) : rx' = Append(rx, x) /\ ("case" \in PartsOf(Device) \/ PlainWrite(x))
  BY <1>1, <1>8, Zenon
<1>12. owed \subseteq owed' /\ owed' \subseteq owed \cup Features
  BY <1>1
<1> QED
  BY <1>1, <1>9, <1>10, <1>11, <1>12, QuietNews, Zenon

-----------------------------------------------------------------------------
(* A setting or a battery changes.                                         *)

\* The change is told or owed.
LEMMA QuietTold ==
  ASSUME IInv, RInv, QInv, link # 0, UNCHANGED <<linkVars, tx, shown, guessed, later, owed>>, NEW new,
         Become(new), IsState(new, Device), DOMAIN new.battery = PartsOf(Device), NEW about,
         \A fact \in Facts(buds[Device]) : fact \notin Facts(new) => NameOf(fact[1]) = about,
         NEW w, w \in Seq(Nat), rx' = Append(rx, w), RenewsAt(w, about), Sound(w, Facts(new)),
         "case" \in PartsOf(Device) \/ PlainWrite(w)
  PROVE  QInv'
<1>1. /\ PartsStay' /\ FactsStay'
      /\ \A topic : Facts(new) \subseteq Known(topic)'
      /\ \A topic : (\A fact \in Facts(buds[Device]) : fact \notin Facts(new) => NameOf(fact[1]) # topic)
           => Known(topic) \subseteq Known(topic)'
  BY QuietBecomes
<1>2. rx \in Chunks(Nat)
  BY OwnParts
<1>3. \A topic : Sound(w, Known(topic)')
  BY <1>1, Zenon DEF Sound, Truthful
<1>4. ASSUME NEW topic, Settled(topic) PROVE Settled(topic)'
  <2>1. Sound(w, Known(topic)')
    BY <1>3
  <2>2. CASE topic = about
    BY <1>2, <2>1, <2>2, SettledAnew
  <2>3. CASE topic # about
    <3>1. Known(topic) \subseteq Known(topic)'
      BY <1>1, <2>3, Zenon
    <3>2. \E x \in Seq(Nat) : rx' = Append(rx, x) /\ Sound(x, Known(topic)')
      BY <2>1, Zenon
    <3>3. UNCHANGED <<shown, guessed>>
      OBVIOUS
    <3> QED
      BY <1>4, <3>1, <3>2, <3>3, SettledKeeps, Zenon
  <2> QED
    BY <2>2, <2>3
<1>5. \A topic : Settled(topic) => Agrees(topic)'
  BY <1>4, Zenon DEF Agrees
<1>6. \E x \in Seq(Nat) : rx' = Append(rx, x) /\ ("case" \in PartsOf(Device) \/ PlainWrite(x))
  BY Zenon
<1>7. owed \subseteq owed' /\ owed' \subseteq owed \cup Features
  OBVIOUS
<1> QED
  BY <1>1, <1>5, <1>6, <1>7, QuietNews, Zenon

LEMMA QuietChanges ==
  ASSUME IInv, RInv, QInv, NEW n, Changes(n)
  PROVE  QInv'
<1> DEFINE b == buds[Device]
           f == n.what
           v == n.value
           new == [b EXCEPT !.set[f] = v]
<1>1. /\ n \in News /\ link # 0 /\ UNCHANGED <<linkVars, tx, shown, guessed, later>>
      /\ f \in Features /\ ModelSupportsFeature(Codename(ModelOf[Device]), f) /\ Become(new)
  BY DEF Changes, Happens, NewsVars, sessionVars
<1>2. Device \in Earbuds /\ IsState(b, Device) /\ DOMAIN b.battery = PartsOf(Device)
  <2>1. link # 0
    BY <1>1
  <2> QED
    BY <2>1, OwnParts
<1>3. f \in Own(Device) /\ v \in ValuesOf(f)
  BY <1>1, NewsAre, Zenon DEF Own
<1>4. IsState(new, Device)
  BY <1>2, <1>3, StateParts
<1>5. \A fact \in Facts(b) : fact \notin Facts(new) => fact[1] = f
  BY <1>2, SettingLoses, Zenon
<1>6. new.battery = b.battery /\ DOMAIN new.set = Own(Device) /\ new.set[f] = v
  BY <1>2, <1>3 DEF IsState
<1> HIDE DEF new, b
<1>7. \A fact \in Facts(b) : fact \notin Facts(new) => NameOf(fact[1]) = f
  BY <1>1, <1>5, TopicNames
<1>8. CASE EventOf(f) = 0
  <2>1. rx' = rx /\ owed' = owed \cup {f}
    BY <1>8, Zenon DEF Changes
  <2>2. /\ PartsStay' /\ FactsStay'
        /\ \A topic : (\A fact \in Facts(b) : fact \notin Facts(new) => NameOf(fact[1]) # topic)
             => Known(topic) \subseteq Known(topic)'
    BY <1>1, <1>2, <1>4, <1>6, QuietBecomes, Zenon DEF b
  <2>3. ASSUME NEW topic, Settled(topic) PROVE Agrees(topic)'
    <3>1. CASE topic = f
      BY <1>1, <2>1, <3>1, TopicNames DEF Agrees
    <3>2. CASE topic # f
      <4>1. Known(topic) \subseteq Known(topic)'
        BY <1>7, <2>2, <3>2, Zenon
      <4>2. UNCHANGED <<shown, guessed>>
        BY <1>1
      <4> QED
        BY <2>1, <2>3, <4>1, <4>2, SettledKeeps, Zenon DEF Agrees
    <3> QED
      BY <3>1, <3>2
  <2>4. owed \subseteq owed' /\ owed' \subseteq owed \cup Features
    BY <1>1, <2>1
  <2> QED
    BY <1>1, <2>1, <2>2, <2>3, <2>4, QuietNews, Zenon
<1>9. CASE EventOf(f) # 0
  <2> DEFINE p == EncodeEvent(f, v)
             cmd == EventOf(f)
             w == MarshalBinary(Packet(cmd, p))
             told == {<<f, EventValue(f, v)>>}
  <2>1. rx' = Append(rx, w) /\ owed' = owed
    BY <1>9, Zenon DEF Changes, Emit
  <2>2. Says(cmd, p, told) /\ Renewing(Packet(cmd, p), f)
    BY <1>1, <1>3, <1>9, SettingEventSays
  <2>3. \A fact \in told : fact[1] = f
    OBVIOUS
  <2>4. told \subseteq Facts(new)
    <3>1. <<f, EventValue(f, new.set[f])>> \in Facts(new)
      BY <1>3, <1>6, SettingFacts, Zenon
    <3> QED
      BY <1>6, <3>1
  <2>5. w = MarshalBinary(Packet(cmd, p))
    OBVIOUS
  <2> HIDE DEF p, cmd, w, told
  <2>6. \A fact \in told : fact[1] # "case"
    BY <1>1, <2>3, TopicNames
  <2>7. PlainCase(Packet(cmd, p))
    BY <2>2, <2>6, SaysNoCase
  <2>8. Says(cmd, p, Facts(new))
    BY <2>2, <2>4, SaysGrows
  <2>9. w \in Seq(Nat) /\ Sound(w, Facts(new)) /\ RenewsAt(w, f) /\ PlainWrite(w)
    BY <2>2, <2>5, <2>7, <2>8, SaysWrites
  <2>10. UNCHANGED <<linkVars, tx, shown, guessed, later, owed>>
    BY <1>1, <2>1
  <2> HIDE DEF f
  <2> QED
    BY <1>1, <1>2, <1>4, <1>6, <1>7, <2>1, <2>9, <2>10, QuietTold DEF b
<1> QED
  BY <1>8, <1>9

LEMMA QuietBatteryChanges ==
  ASSUME IInv, RInv, QInv, NEW n, BatteryChanges(n)
  PROVE  QInv'
<1> DEFINE b == buds[Device]
           part == n.what
           v == n.value
           new == [b EXCEPT !.battery[part] = v]
           p == EncodePairs([x \in {part} |-> BatteryByte(v)])
           cmd == \hE001
           w == MarshalBinary(Packet(cmd, p))
<1>1. /\ n \in News /\ link # 0 /\ UNCHANGED <<linkVars, tx, shown, guessed, later, owed>>
      /\ part \in DOMAIN b.battery /\ Become(new) /\ rx' = Append(rx, w)
  BY DEF BatteryChanges, Happens, NewsVars, sessionVars, Emit
<1>2. Device \in Earbuds /\ IsState(b, Device) /\ DOMAIN b.battery = PartsOf(Device)
  <2>1. link # 0
    BY <1>1
  <2> QED
    BY <2>1, OwnParts
<1>3. part \in PartNames
  <2>1. part \in DOMAIN b.battery
    BY <1>1
  <2> QED
    BY <1>2, <2>1, Zenon DEF IsState, IsPartMap
<1>4. v \in BatteryValues
  <2>1. n \in News
    BY <1>1
  <2> QED
    BY <1>3, <2>1, NewsAre, Zenon
<1>5. IsState(new, Device)
  BY <1>1, <1>2, <1>4, StateParts
<1>6. part \in DOMAIN new.battery /\ new.battery[part] = v /\ DOMAIN new.battery = DOMAIN b.battery
  BY <1>1, <1>2 DEF IsState
<1>7. \A fact \in Facts(b) : fact \notin Facts(new) => NameOf(fact[1]) = NameOf(part)
  BY <1>2, BatteryLoses, Zenon
<1> HIDE DEF new
<1>8. /\ Says(cmd, p, Facts(new)) /\ Renewing(Packet(cmd, p), NameOf(part))
      /\ part # "case" => PlainCase(Packet(cmd, p))
  <2> DEFINE q == EncodePairs([x \in {part} |-> BatteryByte(new.battery[part])])
  <2>1. /\ Says(cmd, q, Facts(new)) /\ Renewing(Packet(cmd, q), NameOf(part))
        /\ part # "case" => PlainCase(Packet(cmd, q))
    BY <1>3, <1>4, <1>6, BatteryEventSays
  <2>2. p = q
    BY <1>6
  <2> HIDE DEF p, q, cmd
  <2> QED
    BY <2>1, <2>2, Zenon
<1>9. w = MarshalBinary(Packet(cmd, p))
  OBVIOUS
<1> HIDE DEF b, p, cmd, w
<1>10. /\ w \in Seq(Nat) /\ Sound(w, Facts(new)) /\ RenewsAt(w, NameOf(part))
       /\ part # "case" => PlainWrite(w)
  BY <1>8, <1>9, SaysWrites
<1>11. "case" \in PartsOf(Device) \/ PlainWrite(w)
  BY <1>1, <1>2, <1>10
<1> HIDE DEF part
<1> QED
  BY <1>1, <1>2, <1>5, <1>6, <1>7, <1>10, <1>11, QuietTold DEF b
-----------------------------------------------------------------------------
(* What a packet that is read makes of what is shown.                      *)

LEMMA PairParts ==
  ASSUME NEW pairs
  PROVE  DOMAIN Batteries(PairsMap(pairs)) \subseteq AllParts
<1>1. \A id : PartName(id) \in AllParts
  BY Zenon DEF PartName, AllParts, PartNames
<1>2. DOMAIN PairsMap(pairs) = {PartName(pairs[i][1]) : i \in DOMAIN pairs}
  BY Zenon DEF PairsMap
<1>3. DOMAIN Batteries(PairsMap(pairs)) = DOMAIN PairsMap(pairs)
  BY Zenon DEF Batteries
<1> QED
  BY <1>1, <1>2, <1>3, Zenon

\* Which batteries a packet may tell of, and what it makes of the name of the case.
PartsTold(m, model) == m = NoMap \/ \E data : DOMAIN data \subseteq AllParts /\ m = NormalizeBatteryForModel(data, model)

LEMMA NoneTold ==
  ASSUME NEW kind, NEW model
  PROVE  /\ PartsTold(Told(kind).Batteries, model)
         /\ \A v : PartsTold(Value(kind, v).Batteries, model)
         /\ \A m : PartsTold([Told(kind) EXCEPT !.Earbuds = m].Batteries, model)
         /\ \A l : PartsTold([Told(kind) EXCEPT !.DualList = l].Batteries, model)
         /\ \A m : [Told(kind) EXCEPT !.Batteries = m].Batteries = m
<1>1. \A told, k, v, b, e, l : Keeps(told, k, v, b, e, l) => told.Batteries = b
  BY DEF Keeps
<1>2. /\ Told(kind).Batteries = NoMap
      /\ \A v : Value(kind, v).Batteries = NoMap
      /\ \A m : [Told(kind) EXCEPT !.Earbuds = m].Batteries = NoMap
      /\ \A l : [Told(kind) EXCEPT !.DualList = l].Batteries = NoMap
      /\ \A m : [Told(kind) EXCEPT !.Batteries = m].Batteries = m
  <2> DEFINE b(told) == told.Batteries
  <2>1. \A told, k, v, m, e, l : Keeps(told, k, v, m, e, l) => b(told) = m
    BY <1>1
  <2> HIDE DEF b
  <2>2. b(Told(kind)) = NoMap
    BY <2>1, ToldAre
  <2>3. \A v : b(Value(kind, v)) = NoMap
    BY <2>1, ToldAre
  <2>4. ASSUME NEW m PROVE b([Told(kind) EXCEPT !.Earbuds = m]) = NoMap
    <3>1. Keeps([Told(kind) EXCEPT !.Earbuds = m], kind, <<>>, NoMap, m, {})
      BY ToldAre, Zenon
    <3> QED
      BY <2>1, <3>1, Zenon
  <2>5. ASSUME NEW l PROVE b([Told(kind) EXCEPT !.DualList = l]) = NoMap
    <3>1. Keeps([Told(kind) EXCEPT !.DualList = l], kind, <<>>, NoMap, NoMap, l)
      BY ToldAre, Zenon
    <3> QED
      BY <2>1, <3>1, Zenon
  <2>6. ASSUME NEW m PROVE b([Told(kind) EXCEPT !.Batteries = m]) = m
    <3>1. Keeps([Told(kind) EXCEPT !.Batteries = m], kind, <<>>, m, NoMap, {})
      BY ToldAre, Zenon
    <3> QED
      BY <2>1, <3>1, Zenon
  <2> QED
    BY <2>2, <2>3, <2>4, <2>5, <2>6 DEF b
<1> QED
  BY <1>2, Zenon DEF PartsTold

LEMMA BatteriesTold ==
  ASSUME NEW pkt, NEW model
  PROVE  PartsTold(ParsePacket(pkt, model).Batteries, model)
<1>1. ASSUME NEW kind, NEW p PROVE PartsTold(parseBatteryPacket(kind, p, model).Batteries, model)
  <2>1. CASE parseCountedPairs(p) = {}
    BY <2>1, NoneTold, Zenon DEF parseBatteryPacket
  <2>2. CASE parseCountedPairs(p) # {}
    <3>1. PICK pairs : parseBatteryPacket(kind, p, model)
                         = [Told(kind) EXCEPT !.Batteries = NormalizeBatteryForModel(Batteries(PairsMap(pairs)), model)]
      BY <2>2, Zenon DEF parseBatteryPacket
    <3> DEFINE data == Batteries(PairsMap(pairs))
               m == NormalizeBatteryForModel(data, model)
    <3>2. DOMAIN data \subseteq AllParts
      BY PairParts
    <3>3. PartsTold(m, model)
      BY <3>2, Zenon DEF PartsTold
    <3> HIDE DEF m
    <3>4. parseBatteryPacket(kind, p, model).Batteries = m
      BY <3>1, NoneTold, Zenon DEF m
    <3> QED
      BY <3>3, <3>4
  <2> QED
    BY <2>1, <2>2
<1>2. ASSUME NEW kind, NEW p PROVE PartsTold(parseStatusPacket(kind, p).Batteries, model)
  <2>1. \/ parseStatusPacket(kind, p) = Told(kind)
        \/ \E m : parseStatusPacket(kind, p) = [Told(kind) EXCEPT !.Earbuds = m]
    BY Zenon DEF parseStatusPacket
  <2> QED
    BY <2>1, NoneTold, Zenon
<1>3. ASSUME NEW kind, NEW p
      PROVE  /\ PartsTold(parseMicFlag(kind, p).Batteries, model)
             /\ PartsTold(parseANCPacket(kind, p).Batteries, model)
             /\ PartsTold(parseEQPacket(kind, p).Batteries, model)
             /\ PartsTold(parseLagPacket(kind, p).Batteries, model)
             /\ PartsTold(parseDualPacket(kind, p).Batteries, model)
             /\ PartsTold(parseSpatialPacket(kind, p).Batteries, model)
             /\ PartsTold(parseDualDeviceListPacket(kind, p).Batteries, model)
  <2>1. parseMicFlag(kind, p) = Told(kind) \/ \E v : parseMicFlag(kind, p) = Value(kind, v)
    BY Zenon DEF parseMicFlag
  <2>2. \E v : parseANCPacket(kind, p) = Value(kind, v)
    BY Zenon DEF parseANCPacket
  <2>3. \E v : parseEQPacket(kind, p) = Value(kind, v)
    BY Zenon DEF parseEQPacket
  <2>4. \E v : parseLagPacket(kind, p) = Value(kind, v)
    BY Zenon DEF parseLagPacket
  <2>5. \E v : parseDualPacket(kind, p) = Value(kind, v)
    BY Zenon DEF parseDualPacket
  <2>6. \E v : parseSpatialPacket(kind, p) = Value(kind, v)
    BY Zenon DEF parseSpatialPacket
  <2>7. \E l : parseDualDeviceListPacket(kind, p) = [Told(kind) EXCEPT !.DualList = l]
    BY Zenon DEF parseDualDeviceListPacket
  <2> QED
    BY <2>1, <2>2, <2>3, <2>4, <2>5, <2>6, <2>7, NoneTold, Zenon
<1>4. ASSUME NEW parser, NEW kind, NEW p PROVE PartsTold(Parse(parser, kind, p, model).Batteries, model)
  <2>1. Parse(parser, kind, p, model) \in
          {parseMicFlag(kind, p), parseBatteryPacket(kind, p, model), parseStatusPacket(kind, p),
           parseANCPacket(kind, p), parseEQPacket(kind, p), parseLagPacket(kind, p),
           parseDualPacket(kind, p), parseSpatialPacket(kind, p), parseDualDeviceListPacket(kind, p),
           Told(kind)}
    BY Zenon DEF Parse
  <2> QED
    BY <1>1, <1>2, <1>3, <2>1, NoneTold, Zenon
<1>5. ASSUME NEW p PROVE PartsTold(parseUnknownPacket(p, model).Batteries, model)
  <2>1. CASE isPrintable(p) \/ ParsePairs(p) = NoMap
    BY <2>1, NoneTold, Zenon DEF parseUnknownPacket
  <2>2. CASE ~(isPrintable(p) \/ ParsePairs(p) = NoMap)
    <3>1. parseUnknownPacket(p, model).Batteries = NormalizeBatteryForModel(ParsePairs(p), model)
      BY <2>2, NoneTold, Zenon DEF parseUnknownPacket
    <3>2. \E pairs : ParsePairs(p) = Batteries(PairsMap(pairs))
      BY <2>2, Zenon DEF ParsePairs
    <3> QED
      BY <3>1, <3>2, PairParts, Zenon DEF PartsTold
  <2> QED
    BY <2>1, <2>2
<1>6. CASE Parsers(pkt.cmd) = {}
  BY <1>5, <1>6, Zenon DEF ParsePacket
<1>7. CASE Parsers(pkt.cmd) # {}
  <2>1. \E parser, kind : ParsePacket(pkt, model) = Parse(parser, kind, pkt.payload, model)
    BY <1>7, Zenon DEF ParsePacket
  <2> QED
    BY <1>4, <2>1, Zenon
<1> QED
  BY <1>6, <1>7

LEMMA CaseTold ==
  ASSUME NEW m, NEW model, PartsTold(m, model)
  PROVE  /\ DOMAIN m \subseteq AllParts
         /\ model.BatteryCaseSource = "stereo" /\ "stereo" \in DOMAIN m => "case" \in DOMAIN m
<1>1. CASE m = NoMap
  BY <1>1, NothingInNone
<1>2. CASE m # NoMap
  <2>1. PICK data : DOMAIN data \subseteq AllParts /\ m = NormalizeBatteryForModel(data, model)
    BY <1>2, Zenon DEF PartsTold
  <2>2. "case" \in AllParts
    BY PartsNamed DEF AllParts
  <2> QED
    BY <2>1, <2>2, NormalizedNames
<1> QED
  BY <1>1, <1>2

LEMMA KeysAreFeatures == \A kind : configKeyForParsedKind(kind) \subseteq Features
BY FeaturesAre DEF configKeyForParsedKind
-----------------------------------------------------------------------------
(* Reading brings a topic up to date.                                      *)

\* The batteries that are shown afterwards.
LEMMA MergedParts ==
  ASSUME NEW current, NEW update, NEW new, new = mergeBatteries(current, update)
  PROVE  /\ DOMAIN new = IF "case" \in DOMAIN update THEN (DOMAIN current \cup DOMAIN update) \ {"stereo"}
                         ELSE DOMAIN current \cup DOMAIN update
<1> DEFINE out == Updated(current, update)
<1>1. DOMAIN out = DOMAIN current \cup DOMAIN update
  BY Zenon DEF Updated
<1>2. new = IF "case" \in DOMAIN update THEN Restrict(out, DOMAIN out \ {"stereo"}) ELSE out
  BY Zenon DEF mergeBatteries
<1> HIDE DEF out
<1>3. DOMAIN Restrict(out, DOMAIN out \ {"stereo"}) = DOMAIN out \ {"stereo"}
  BY DEF Restrict
<1>4. CASE "case" \in DOMAIN update
  BY <1>1, <1>2, <1>3, <1>4, Zenon
<1>5. CASE "case" \notin DOMAIN update
  BY <1>1, <1>2, <1>5, Zenon
<1> QED
  BY <1>4, <1>5

\* A packet that renews a topic leaves nothing of it behind.
LEMMA RenewLearns ==
  ASSUME NEW held, NEW guesses, NEW was, Within(held, guesses, was), DOMAIN held.batteries \subseteq AllParts,
         NEW told, DOMAIN told.Batteries \subseteq AllParts,
         NEW topic, NEW facts, \A fact \in was : NameOf(fact[1]) # topic => fact \in facts,
         ToldFacts(told) \subseteq facts, Renews(told, topic),
         "stereo" \in DOMAIN told.Batteries /\ "case" \notin DOMAIN told.Batteries
           /\ told.Kind # "unknown_battery_pairs" => "case" \notin DOMAIN held.batteries \ guesses,
         NEW new,
         new.config = recordConfig(held.config, told),
         new.batteries = mergeBatteries(held.batteries, told.Batteries),
         new.earbuds = Updated(held.earbuds, told.Earbuds),
         new.dualList = updateDualList(held.dualList, told),
         NEW more, more = IF told.Kind = "unknown_battery_pairs" THEN guesses \cup DOMAIN told.Batteries
                          ELSE guesses \ DOMAIN told.Batteries
  PROVE  Within(new, more, facts)
<1> DEFINE keys == configKeyForParsedKind(told.Kind)
           guess == told.Kind = "unknown_battery_pairs"
           update == told.Batteries
           current == held.batteries
           m == new.batteries
<1>1. /\ topic \in Features => topic \in keys
      /\ topic = "peers" => told.DualList # {}
      /\ topic \in Features \/ topic = "peers" \/ (~guess /\ \E q \in DOMAIN update : NameOf(q) = topic)
  <2>1. keys \subseteq Features
    BY KeysAreFeatures
  <2>2. topic \in keys \/ (topic = "peers" /\ told.DualList # {})
          \/ (~guess /\ \E q \in DOMAIN update : NameOf(q) = topic)
    BY Zenon DEF Renews
  <2>3. (\E q \in DOMAIN update : NameOf(q) = topic) => topic \in AllParts
    BY TopicNames, Zenon
  <2>4. "peers" \notin Features /\ "peers" \notin AllParts /\ \A f \in Features : f \notin AllParts
    BY TopicNames
  <2> HIDE DEF keys, guess, update
  <2> QED
    BY <2>1, <2>2, <2>3, <2>4
<1>2. /\ told.Value # <<>> => \A f \in keys : <<f, told.Value>> \in facts
      /\ ~guess => \A p \in DOMAIN update : <<p, update[p]>> \in facts
      /\ \A s \in DOMAIN told.Earbuds : <<"ear", s, told.Earbuds[s]>> \in facts
      /\ \A l \in told.DualList : l # <<>> => <<"peers", l>> \in facts
  BY Learnt, Zenon
<1>3. /\ \A f \in Features : held.config[f] # <<>> => <<f, held.config[f]>> \in was
      /\ \A p \in DOMAIN current : p \in guesses \/ <<p, current[p]>> \in was
      /\ \A s \in DOMAIN held.earbuds : <<"ear", s, held.earbuds[s]>> \in was
      /\ held.dualList # <<>> => <<"peers", held.dualList>> \in was
  BY Zenon DEF Within
<1>4. \A name, value : <<name, value>> \in was /\ NameOf(name) # topic => <<name, value>> \in facts
  <2>1. ASSUME NEW name, NEW value, <<name, value>> \in was, NameOf(name) # topic PROVE <<name, value>> \in facts
    <3>1. <<name, value>>[1] = name
      OBVIOUS
    <3> QED
      BY <2>1, <3>1
  <2> QED
    BY <2>1
<1>5. ASSUME NEW f \in Features, new.config[f] # <<>> PROVE <<f, new.config[f]>> \in facts
  <2>1. new.config[f] = IF f \in keys THEN told.Value ELSE held.config[f]
    BY Zenon DEF recordConfig
  <2>2. CASE f \in keys
    BY <1>2, <1>5, <2>1, <2>2, Zenon
  <2>3. CASE f \notin keys
    <3>1. NameOf(f) # topic
      BY <1>1, <2>3, TopicNames
    <3> QED
      BY <1>3, <1>4, <1>5, <2>1, <2>3, <3>1, Zenon
  <2> QED
    BY <2>2, <2>3
<1>6. ASSUME NEW p \in DOMAIN m, p \notin more PROVE <<p, m[p]>> \in facts
  <2>0. m = mergeBatteries(current, update) /\ p \in DOMAIN m
    BY <1>6
  <2>1. more = IF guess THEN guesses \cup DOMAIN update ELSE guesses \ DOMAIN update
    OBVIOUS
  <2>2. DOMAIN current \subseteq AllParts /\ DOMAIN update \subseteq AllParts
    OBVIOUS
  <2>3. "stereo" \in DOMAIN update /\ "case" \notin DOMAIN update /\ ~guess => "case" \notin DOMAIN current \ guesses
    OBVIOUS
  <2> HIDE DEF m, current, update, guess
  <2>4. /\ p \in DOMAIN current \cup DOMAIN update
        /\ m[p] = IF p \in DOMAIN update THEN update[p] ELSE current[p]
    <3>1. /\ DOMAIN m \subseteq DOMAIN current \cup DOMAIN update
          /\ \A x \in DOMAIN m : m[x] = IF x \in DOMAIN update THEN update[x] ELSE current[x]
      BY <2>0, MergedIs
    <3> QED
      BY <2>0, <3>1, Zenon
  <2>5. p = "stereo" => "case" \notin DOMAIN update
    <3>1. DOMAIN m = IF "case" \in DOMAIN update THEN (DOMAIN current \cup DOMAIN update) \ {"stereo"}
                     ELSE DOMAIN current \cup DOMAIN update
      BY <2>0, MergedParts
    <3> QED
      BY <2>0, <3>1
  <2>6. CASE p \in DOMAIN update
    <3>1. ~guess
      BY <1>6, <2>1, <2>6
    <3> QED
      BY <1>2, <2>4, <2>6, <3>1
  <2>7. CASE p \notin DOMAIN update
    <3>1. p \in DOMAIN current /\ p \notin guesses /\ p \in AllParts
      BY <1>6, <2>1, <2>2, <2>4, <2>7
    <3>2. <<p, current[p]>> \in was
      BY <1>3, <3>1
    <3>3. NameOf(p) # topic
      <4>1. SUFFICES ASSUME NameOf(p) = topic PROVE FALSE
        OBVIOUS
      <4>2. topic \notin Features /\ topic # "peers"
        BY <3>1, <4>1, TopicNames
      <4>3. PICK q \in DOMAIN update : NameOf(q) = topic /\ ~guess
        BY <1>1, <4>2
      <4>4. {p, q} = {"case", "stereo"}
        BY <2>2, <2>7, <3>1, <4>1, <4>3, TopicNames
      <4>5. p = "stereo" => q = "case"
        BY <2>7, <4>3, <4>4
      <4>6. p = "case" /\ q = "stereo"
        BY <2>5, <4>3, <4>4, <4>5
      <4> QED
        BY <2>3, <2>7, <3>1, <4>3, <4>6
    <3>4. m[p] = current[p]
      BY <2>4, <2>7
    <3> QED
      BY <1>4, <3>2, <3>3, <3>4
  <2> QED
    BY <2>6, <2>7
<1>7. ASSUME NEW s \in DOMAIN new.earbuds PROVE <<"ear", s, new.earbuds[s]>> \in facts
  <2> DEFINE e == new.earbuds
             was1 == held.earbuds
             now1 == told.Earbuds
  <2>1. e = Updated(was1, now1) /\ s \in DOMAIN e
    BY <1>7
  <2>2. /\ \A x \in DOMAIN was1 : <<"ear", x, was1[x]>> \in was
        /\ \A x \in DOMAIN now1 : <<"ear", x, now1[x]>> \in facts
    BY <1>2, <1>3
  <2> HIDE DEF e, was1, now1
  <2>3. /\ DOMAIN e = DOMAIN was1 \cup DOMAIN now1
        /\ \A x \in DOMAIN now1 : e[x] = now1[x]
        /\ \A x \in DOMAIN was1 \ DOMAIN now1 : e[x] = was1[x]
    BY <2>1, Zenon DEF Updated
  <2>4. NameOf("ear") # topic
    <3>1. "ear" \notin Features /\ "ear" \notin AllParts /\ "ear" # "peers" /\ NameOf("ear") = "ear"
      BY TopicNames
    <3>2. \A q \in DOMAIN update : NameOf(q) # "ear"
      BY <3>1, TopicNames
    <3> HIDE DEF update, guess
    <3> QED
      BY <1>1, <3>1, <3>2
  <2>5. ASSUME NEW v, <<"ear", s, v>> \in was PROVE <<"ear", s, v>> \in facts
    <3> DEFINE fact == <<"ear", s, v>>
    <3>1. fact[1] = "ear" /\ fact \in was
      BY <2>5
    <3> HIDE DEF fact
    <3>2. fact \in facts
      BY <2>4, <3>1
    <3> QED
      BY <3>2 DEF fact
  <2>6. CASE s \in DOMAIN now1
    BY <2>2, <2>3, <2>6, Zenon DEF e
  <2>7. CASE s \notin DOMAIN now1
    <3>1. s \in DOMAIN was1 /\ e[s] = was1[s]
      BY <2>1, <2>3, <2>7
    <3>2. <<"ear", s, e[s]>> \in facts
      BY <2>2, <2>5, <3>1, Zenon
    <3> QED
      BY <3>2 DEF e
  <2> QED
    BY <2>6, <2>7
<1>8. new.dualList # <<>> => <<"peers", new.dualList>> \in facts
  <2>1. CASE told.DualList = {}
    <3>1. new.dualList = held.dualList
      BY <2>1, Zenon DEF updateDualList
    <3>2. NameOf("peers") # topic
      BY <1>1, <2>1, TopicNames
    <3> QED
      BY <1>3, <1>4, <3>1, <3>2, Zenon
  <2>2. CASE told.DualList # {}
    <3>1. new.dualList = CHOOSE l \in told.DualList : TRUE
      BY <2>2, Zenon DEF updateDualList
    <3>2. new.dualList \in told.DualList
      BY <2>2, <3>1, Zenon
    <3> QED
      BY <1>2, <3>2, Zenon
  <2> QED
    BY <2>1, <2>2
<1> QED
  BY <1>5, <1>6, <1>7, <1>8, Zenon DEF Within
-----------------------------------------------------------------------------
(* A packet is read, and nothing that agreed is spoiled.                   *)

Handled(read, told, i, j) ==
  /\ link # 0 /\ UNCHANGED linkVars /\ UNCHANGED <<tx, buds, past, owed>>
  /\ ReadAt(rx, read, rx', i, j)
  /\ told = ParsePacket(read.pkt, Codename(shown.model))
  /\ {"config", "batteries", "earbuds", "dualList"} \subseteq DOMAIN shown'
  /\ shown'.model = autoDetect(shown.model, read.pkt)
  /\ shown'.config = recordConfig(shown.config, told)
  /\ shown'.batteries = mergeBatteries(shown.batteries, told.Batteries)
  /\ shown'.earbuds = Updated(shown.earbuds, told.Earbuds)
  /\ shown'.dualList = updateDualList(shown.dualList, told)
  /\ guessed' = IF told.Kind = "unknown_battery_pairs" THEN guessed \cup DOMAIN told.Batteries
                ELSE guessed \ DOMAIN told.Batteries
  /\ later' = scheduleDualFollowups(told, read.pkt)

LEMMA IsHandled ==
  ASSUME IInv, RInv, link # 0, NEW read, read = ReadPacket(Received), read.status = "packet", Handle(read)
  PROVE  \E told, i, j : Handled(read, told, i, j)
<1> DEFINE told == ParsePacket(read.pkt, Codename(shown.model))
<1>1. /\ UNCHANGED linkVars /\ UNCHANGED <<tx, buds, past, owed>>
      /\ rx' = SkipBytes(rx, Len(Received) - Len(read.rest)) /\ handleRaw(read.pkt)
  BY Zenon DEF Handle
<1>2. SoundWrites(rx, Was)
  BY Happened, Zenon
<1>3. PICK i, j : ReadAt(rx, read, rx', i, j)
  BY <1>1, <1>2, WhatIsRead, Zenon DEF Received
<1>4. /\ shown' = [model |-> autoDetect(shown.model, read.pkt),
                   config |-> recordConfig(shown.config, told),
                   batteries |-> mergeBatteries(shown.batteries, told.Batteries),
                   earbuds |-> Updated(shown.earbuds, told.Earbuds),
                   dualList |-> updateDualList(shown.dualList, told)]
      /\ guessed' = IF told.Kind = "unknown_battery_pairs" THEN guessed \cup DOMAIN told.Batteries
                    ELSE guessed \ DOMAIN told.Batteries
      /\ later' = scheduleDualFollowups(told, read.pkt)
  BY <1>1, Zenon DEF handleRaw
<1>5. told = ParsePacket(read.pkt, Codename(shown.model))
  OBVIOUS
<1> HIDE DEF told
<1>6. /\ {"config", "batteries", "earbuds", "dualList"} \subseteq DOMAIN shown'
      /\ shown'.model = autoDetect(shown.model, read.pkt)
      /\ shown'.config = recordConfig(shown.config, told)
      /\ shown'.batteries = mergeBatteries(shown.batteries, told.Batteries)
      /\ shown'.earbuds = Updated(shown.earbuds, told.Earbuds)
      /\ shown'.dualList = updateDualList(shown.dualList, told)
  BY <1>4
<1> QED
  BY <1>1, <1>3, <1>4, <1>5, <1>6, Zenon DEF Handled

\* A packet is in what is left, or is the one that was read.
LEMMA FrameTaken ==
  ASSUME NEW writes, NEW read, NEW left, NEW i, NEW j, ReadAt(writes, read, left, i, j),
         NEW k \in DOMAIN writes, NEW cmd, NEW payload, NEW n, cmd \in Nat, n \in Nat,
         IsFrame(writes[k], cmd, payload, n)
  PROVE  (k > j /\ k - j \in DOMAIN left /\ left[k - j] = writes[k]) \/ (k = i /\ read.pkt = Packet(cmd, payload))
<1>1. ~IsNoise(writes[k])
  <2>1. IsPacket(writes[k])
    BY SMT DEF IsPacket
  <2> QED
    BY <2>1, FrameNoNoise
<1>2. DOMAIN writes = 1 .. Len(writes) /\ j \in Int /\ k \in Int
  BY DEF ReadAt, IsFrame, IsSeq, IsPacket
<1>3. k <= j => k = i
  BY <1>1, Zenon DEF ReadAt
<1>4. k > j => k - j \in DOMAIN left /\ left[k - j] = writes[k]
  BY Zenon DEF ReadAt
<1>5. k = i => read.pkt = Packet(cmd, payload)
  BY Zenon DEF ReadAt
<1>6. k <= j \/ k > j
  BY <1>2
<1> QED
  BY <1>3, <1>4, <1>5, <1>6, Zenon

\* Nobody is told the other name of the case of earbuds whose case has the plain one.
LEMMA OnlyStereo ==
  ASSUME IInv, RInv, QInv, link # 0, NEW pkt, Truthful(pkt, Was),
         NEW told, told = ParsePacket(pkt, Codename(shown.model)), told.Kind # "unknown_battery_pairs",
         "stereo" \in DOMAIN told.Batteries, "case" \notin DOMAIN told.Batteries
  PROVE  "case" \notin Sure
<1>1. Codename(shown.model).BatteryCaseSource # "stereo"
  BY BatteriesTold, CaseTold
<1>2. "stereo" \in PartsOf(Device)
  <2> DEFINE fact == <<"stereo", told.Batteries["stereo"]>>
  <2>1. ToldFacts(told) \subseteq Was
    BY Zenon DEF Truthful
  <2>2. fact \in Was /\ fact[1] = "stereo"
    BY <2>1, Learnt
  <2> HIDE DEF fact
  <2>3. FactOf(fact, Device)
    BY <2>2, Zenon DEF QInv, FactsStay
  <2> QED
    BY <2>2, <2>3, Zenon DEF FactOf
<1>3. "case" \notin PartsOf(Device)
  <2>1. Device \in Earbuds
    BY OwnParts
  <2>2. OneCase(Settings[Device])
    BY <2>1, CaseAssumption
  <2> QED
    BY <1>2, <2>2 DEF OneCase, PartsOf
<1> QED
  BY <1>1, <1>3, Zenon DEF QInv, CaseIs

LEMMA KnowsTheCase ==
  ASSUME IInv, NEW pkt, Codename(shown.model).BatteryCaseSource = "stereo"
  PROVE  autoDetect(shown.model, pkt) = shown.model
<1>1. shown.model # ""
  <2>1. Codename("").BatteryCaseSource # "stereo"
    BY DEF Codename, DefaultModel, Model
  <2> QED
    BY <2>1
<1> QED
  BY <1>1, Zenon DEF autoDetect

LEMMA CaseHandled ==
  ASSUME IInv, RInv, QInv, NEW read, NEW told, NEW i, NEW j, Handled(read, told, i, j), Truthful(read.pkt, Was)
  PROVE  CaseIs'
<1> DEFINE tb == DOMAIN told.Batteries
           cur == DOMAIN shown.batteries
           guess == told.Kind = "unknown_battery_pairs"
           plain == "case" \in PartsOf(Device)
           source == Codename(shown.model).BatteryCaseSource
           seen == Sure
           sees == DOMAIN shown'.batteries \ guessed'
<1>1. /\ link # 0 /\ link' = link /\ Device' = Device /\ ReadAt(rx, read, rx', i, j)
      /\ told = ParsePacket(read.pkt, Codename(shown.model))
  BY DeviceStays DEF Handled, linkVars
<1>2. /\ plain \/ \A k \in DOMAIN rx : PlainWrite(rx[k])
      /\ "case" \in seen => plain \/ source = "stereo"
      /\ ~({"case", "stereo"} \subseteq seen)
  BY <1>1, Zenon DEF QInv, CaseIs
<1>3. plain \/ \A k \in DOMAIN rx' : PlainWrite(rx'[k])
  BY <1>1, <1>2, Zenon DEF ReadAt
<1>4. /\ DOMAIN shown'.batteries = IF "case" \in tb THEN (cur \cup tb) \ {"stereo"} ELSE cur \cup tb
      /\ guessed' = IF guess THEN guessed \cup tb ELSE guessed \ tb
  <2> DEFINE new == shown'.batteries
             update == told.Batteries
             current == shown.batteries
  <2>1. new = mergeBatteries(current, update)
    BY DEF Handled
  <2>2. guessed' = IF guess THEN guessed \cup tb ELSE guessed \ tb
    BY DEF Handled
  <2> HIDE DEF new, update, current
  <2>3. DOMAIN new = IF "case" \in DOMAIN update THEN (DOMAIN current \cup DOMAIN update) \ {"stereo"}
                     ELSE DOMAIN current \cup DOMAIN update
    BY <2>1, MergedParts
  <2> QED
    BY <2>2, <2>3 DEF new, update, current
<1>5. "stereo" \in tb /\ "case" \notin tb /\ ~guess => "case" \notin seen
  BY <1>1, OnlyStereo
<1>6. "case" \in tb /\ ~guess /\ ~plain => source = "stereo"
  <2>1. SUFFICES ASSUME "case" \in tb, ~guess, ~plain, source # "stereo" PROVE FALSE
    OBVIOUS
  <2>2. i \in DOMAIN rx /\ IsPacket(rx[i]) /\ ~IsHopeless(rx[i])
    BY <1>1, Zenon DEF ReadAt
  <2>3. PlainWrite(rx[i]) /\ ~IsNoise(rx[i])
    BY <1>2, <2>1, <2>2, FrameNoNoise
  <2>4. PICK cmd, payload, n :
          cmd \in Nat /\ n \in Nat /\ IsFrame(rx[i], cmd, payload, n) /\ PlainCase(Packet(cmd, payload))
    BY <2>2, <2>3, Zenon DEF PlainWrite
  <2>5. read.pkt = Packet(cmd, payload)
    BY <1>1, <2>4, Zenon DEF ReadAt
  <2>6. PlainCase(read.pkt)
    BY <2>4, <2>5, Zenon
  <2>7. \A fact \in ToldFacts(told) : fact[1] # "case"
    BY <1>1, <2>1, <2>6, Zenon DEF PlainCase
  <2>8. <<"case", told.Batteries["case"]>> \in ToldFacts(told)
    BY <2>1, Learnt
  <2> QED
    BY <2>7, <2>8
<1>7. source = "stereo" => shown'.model = shown.model
  BY KnowsTheCase DEF Handled
<1>8. seen = cur \ guessed
  BY DEF Sure
<1>9. Sure' = sees
  BY DEF Sure
<1>10. plain' = plain
  BY <1>1 DEF PartsOf
<1>11. CaseIs' <=> /\ plain' \/ \A k \in DOMAIN rx' : PlainWrite(rx'[k])
                   /\ "case" \in Sure' => plain' \/ Codename(shown'.model).BatteryCaseSource = "stereo"
                   /\ ~({"case", "stereo"} \subseteq Sure')
  BY <1>1, Zenon DEF CaseIs
<1>12. source = "stereo" => Codename(shown'.model).BatteryCaseSource = "stereo"
  BY <1>7
<1> HIDE DEF plain, source, seen, cur, tb, guess
<1>13. "case" \in sees => plain \/ source = "stereo"
  BY <1>2, <1>4, <1>6, <1>8
<1>14. ~({"case", "stereo"} \subseteq sees)
  BY <1>2, <1>4, <1>5, <1>8
<1> HIDE DEF sees
<1> QED
  BY <1>3, <1>9, <1>10, <1>11, <1>12, <1>13, <1>14
-----------------------------------------------------------------------------
(* A topic that is settled stays so when a packet is read.                 *)

\* What is left of the writes after a packet was read.
LEMMA WhatIsLeft ==
  ASSUME NEW writes, writes \in Chunks(Nat), NEW read, NEW left, NEW i, NEW j, ReadAt(writes, read, left, i, j)
  PROVE  /\ left \in Chunks(Nat) /\ i \in DOMAIN writes /\ i \in Nat /\ j \in Nat /\ i <= j
         /\ \A k \in DOMAIN writes : k \in Nat
         /\ \A m \in DOMAIN left :
              m \in Nat /\ m > 0 /\ j + m \in DOMAIN writes /\ left[m] = writes[j + m] /\ j + m >= i
<1>1. i \in DOMAIN writes /\ j \in i .. Len(writes) /\ left \in Chunks(Nat)
  BY Zenon DEF ReadAt
<1>2. DOMAIN writes = 1 .. Len(writes) /\ Len(writes) \in Nat /\ DOMAIN left = 1 .. Len(left) /\ Len(left) \in Nat
  BY <1>1 DEF Chunks
<1>3. \A m \in DOMAIN left : j + m \in DOMAIN writes /\ left[m] = writes[j + m]
  BY Zenon DEF ReadAt
<1>4. i \in Nat /\ j \in Nat /\ i <= j
  BY <1>1, <1>2
<1>5. \A m \in DOMAIN left : m \in Nat /\ m > 0 /\ j + m >= i
  BY <1>2, <1>4
<1>6. \A k \in DOMAIN writes : k \in Nat
  BY <1>2
<1> QED
  BY <1>1, <1>3, <1>4, <1>5, <1>6

\* Nothing spoils what is left when nothing from the packet on spoils anything.
LEMMA SoundLeft ==
  ASSUME NEW writes, writes \in Chunks(Nat), NEW read, NEW left, NEW i, NEW j, ReadAt(writes, read, left, i, j),
         NEW k, k \in Nat, k <= i, NEW facts, \A m \in DOMAIN writes : m >= k => Sound(writes[m], facts)
  PROVE  Truthful(read.pkt, facts) /\ SoundWrites(left, facts)
<1>1. /\ left \in Chunks(Nat) /\ i \in DOMAIN writes /\ i \in Nat
      /\ \A m \in DOMAIN left : m \in Nat /\ j + m \in DOMAIN writes /\ left[m] = writes[j + m] /\ j + m >= i
      /\ j \in Nat
  BY WhatIsLeft
<1>2. \A m \in DOMAIN left : Sound(left[m], facts)
  <2>1. ASSUME NEW m, m \in DOMAIN left PROVE Sound(left[m], facts)
    <3>1. j + m \in DOMAIN writes /\ left[m] = writes[j + m] /\ j + m >= k
      BY <1>1, <2>1
    <3> QED
      BY <3>1
  <2> QED
    BY <2>1
<1>3. Sound(writes[i], facts)
  BY <1>1
<1>4. Truthful(read.pkt, facts)
  <2>1. IsPacket(writes[i]) /\ ~IsHopeless(writes[i])
    BY Zenon DEF ReadAt
  <2>2. ~IsNoise(writes[i])
    BY <2>1, FrameNoNoise
  <2>3. PICK cmd, payload, n : /\ cmd \in Nat /\ n \in Nat /\ IsFrame(writes[i], cmd, payload, n)
                               /\ Truthful(Packet(cmd, payload), facts)
    BY <1>3, <2>1, <2>2, Zenon DEF Sound
  <2>4. read.pkt = Packet(cmd, payload)
    BY <2>3, Zenon DEF ReadAt
  <2> QED
    BY <2>3, <2>4, Zenon
<1> QED
  BY <1>1, <1>2, <1>4, Zenon DEF SoundWrites

LEMMA FreshLeft ==
  ASSUME NEW writes, writes \in Chunks(Nat), NEW read, NEW left, NEW i, NEW j, ReadAt(writes, read, left, i, j),
         NEW k, k \in DOMAIN writes, k > j, k - j \in DOMAIN left, left[k - j] = writes[k],
         NEW facts, \A m \in DOMAIN writes : m >= k => Sound(writes[m], facts),
         NEW topic, RenewsAt(writes[k], topic)
  PROVE  Fresh(left, topic, facts)
<1>1. /\ left \in Chunks(Nat) /\ j \in Nat /\ k \in Nat
      /\ \A m \in DOMAIN left : m \in Nat /\ j + m \in DOMAIN writes /\ left[m] = writes[j + m]
  BY WhatIsLeft
<1>2. ASSUME NEW m, m \in DOMAIN left, m >= k - j PROVE Sound(left[m], facts)
  <2>1. j + m \in DOMAIN writes /\ left[m] = writes[j + m] /\ j + m >= k
    BY <1>1, <1>2
  <2> QED
    BY <2>1
<1>3. RenewsAt(left[k - j], topic)
  BY Zenon
<1> QED
  BY <1>1, <1>2, <1>3, Zenon DEF Fresh

LEMMA SettledHandled ==
  ASSUME IInv, RInv, QInv, NEW read, NEW told, NEW i, NEW j, Handled(read, told, i, j), Truthful(read.pkt, Was),
         NEW topic, Settled(topic)
  PROVE  Settled(topic)'
<1> DEFINE facts == Known(topic)
<1>1. /\ link # 0 /\ UNCHANGED <<linkVars, buds, past>> /\ ReadAt(rx, read, rx', i, j)
      /\ told = ParsePacket(read.pkt, Codename(shown.model))
  BY DEF Handled
<1>2. Known(topic)' = facts
  BY <1>1, KnownStays
<1>3. /\ {"config", "batteries", "earbuds", "dualList"} \subseteq DOMAIN shown'
      /\ shown'.config = recordConfig(shown.config, told)
      /\ shown'.batteries = mergeBatteries(shown.batteries, told.Batteries)
      /\ shown'.earbuds = Updated(shown.earbuds, told.Earbuds)
      /\ shown'.dualList = updateDualList(shown.dualList, told)
      /\ guessed' = IF told.Kind = "unknown_battery_pairs" THEN guessed \cup DOMAIN told.Batteries
                    ELSE guessed \ DOMAIN told.Batteries
  BY Zenon DEF Handled
<1>4. rx \in Chunks(Nat) /\ Within(shown, guessed, Was)
  BY <1>1, OwnParts
<1>5. \A fact \in Was : NameOf(fact[1]) # topic => fact \in facts
  BY DEF Known
<1> HIDE DEF facts
<1>6. Within(shown', guessed', facts) /\ SoundWrites(rx', facts) => Settled(topic)'
  BY <1>2, Zenon DEF Settled
<1>7. CASE Within(shown, guessed, facts) /\ SoundWrites(rx, facts)
  <2>1. Truthful(read.pkt, facts) /\ SoundWrites(rx', facts)
    BY <1>1, <1>7, SoundRead
  <2>2. ToldFacts(told) \subseteq facts
    BY <1>1, <2>1, Zenon DEF Truthful
  <2>3. Within(shown', guessed', facts)
    BY <1>3, <1>7, <2>2, LearnsFacts
  <2> QED
    BY <1>6, <2>1, <2>3
<1>8. CASE Fresh(rx, topic, facts)
  <2>1. PICK k : /\ k \in DOMAIN rx /\ RenewsAt(rx[k], topic)
                 /\ \A m \in DOMAIN rx : m >= k => Sound(rx[m], facts)
    BY <1>8, Zenon DEF Fresh
  <2>2. PICK cmd, payload, n :
          cmd \in Nat /\ n \in Nat /\ IsFrame(rx[k], cmd, payload, n) /\ Renewing(Packet(cmd, payload), topic)
    BY <2>1, Zenon DEF RenewsAt
  <2>3. (k > j /\ k - j \in DOMAIN rx' /\ rx'[k - j] = rx[k]) \/ (k = i /\ read.pkt = Packet(cmd, payload))
    BY <1>1, <2>1, <2>2, FrameTaken
  <2>4. CASE k > j /\ k - j \in DOMAIN rx' /\ rx'[k - j] = rx[k]
    <3>1. Fresh(rx', topic, facts)
      BY <1>1, <1>4, <2>1, <2>4, FreshLeft
    <3> QED
      BY <1>2, <3>1, Zenon DEF Settled
  <2>5. CASE k = i /\ read.pkt = Packet(cmd, payload)
    <3>1. i \in Nat /\ i <= i
      <4>1. i \in Nat
        BY <1>1, <1>4, WhatIsLeft, Zenon
      <4> QED
        BY <4>1
    <3>2. Truthful(read.pkt, facts) /\ SoundWrites(rx', facts)
      BY <1>1, <1>4, <2>1, <2>5, <3>1, SoundLeft
    <3>3. Renews(told, topic) /\ ToldFacts(told) \subseteq facts
      BY <1>1, <2>2, <2>5, <3>2, Zenon DEF Renewing, Truthful
    <3>4. DOMAIN told.Batteries \subseteq AllParts /\ DOMAIN shown.batteries \subseteq AllParts
      <4>1. DOMAIN shown.batteries \subseteq AllParts
        BY Zenon DEF QInv, Counted
      <4>2. PartsTold(told.Batteries, Codename(shown.model))
        BY <1>1, BatteriesTold
      <4> QED
        BY <4>1, <4>2, CaseTold
    <3>5. told.Kind # "unknown_battery_pairs" /\ "stereo" \in DOMAIN told.Batteries /\ "case" \notin DOMAIN told.Batteries
            => "case" \notin DOMAIN shown.batteries \ guessed
      BY <1>1, OnlyStereo DEF Sure
    <3>6. Within(shown', guessed', facts)
      BY <1>3, <1>4, <1>5, <3>3, <3>4, <3>5, RenewLearns
    <3> QED
      BY <1>6, <3>2, <3>6
  <2> QED
    BY <2>3, <2>4, <2>5
<1> QED
  BY <1>7, <1>8, Zenon DEF Settled, facts

-----------------------------------------------------------------------------
(* The list that is announced is asked for; what is read keeps QInv.       *)

LEMMA DualTold ==
  ASSUME NEW kind, NEW payload, NEW model
  PROVE  Parse("dual", kind, payload, model).Kind = kind
<1>1. Parse("dual", kind, payload, model) = parseDualPacket(kind, payload)
  BY Zenon DEF Parse
<1>2. PICK v : parseDualPacket(kind, payload) = Value(kind, v)
  BY Zenon DEF parseDualPacket
<1>3. Keeps(Value(kind, v), kind, v, NoMap, NoMap, {})
  BY ToldAre, Zenon
<1>4. Value(kind, v).Kind = kind
  BY <1>3 DEF Keeps
<1> QED
  BY <1>1, <1>2, <1>4

LEMMA ListNewsTold ==
  ASSUME NEW payload, NEW model, NEW told, told = ParsePacket(Packet(\hE00E, payload), model)
  PROVE  told.Kind = "dual_connect_changed"
<1>1. told = Parse("dual", "dual_connect_changed", payload, model)
  BY ReadByFirst, OthersRead, OwnKeys
<1> QED
  BY <1>1, DualTold

LEMMA LaterGrows ==
  ASSUME later \in [Kinds -> Nat], NEW told, NEW pkt, NEW new, new = scheduleDualFollowups(told, pkt)
  PROVE  /\ new \in [Kinds -> Nat]
         /\ later["list"] > 0 => new["list"] > 0
         /\ told.Kind = "dual_connect_changed" => new["list"] > 0
<1> DEFINE due(k) ==
             \/ k = "features" /\ told.Kind = "dual_response" /\ pkt.payload # <<>> /\ pkt.payload[1] = 1
             \/ k = "list" /\ told.Kind = "supported_features" /\ SupportedFeatureDualList(pkt.payload)
             \/ k = "list" /\ told.Kind = "dual_connect_changed"
<1>1. new = [k \in Kinds |-> later[k] + IF due(k) THEN 1 ELSE 0]
  BY Zenon DEF scheduleDualFollowups, Kinds
<1>2. told.Kind = "dual_connect_changed" => due("list")
  BY Zenon
<1>3. "list" \in Kinds
  BY DEF Kinds
<1> HIDE DEF due
<1>4. new \in [Kinds -> Nat]
  BY <1>1
<1>5. new["list"] = later["list"] + IF due("list") THEN 1 ELSE 0
  BY <1>1, <1>3
<1>6. later["list"] \in Nat
  BY <1>3
<1> QED
  BY <1>2, <1>4, <1>5, <1>6

\* What was announced and is read now is to be asked for.
LEMMA AnnouncedHandled ==
  ASSUME QInv, NEW read, NEW told, NEW i, NEW j, Handled(read, told, i, j), Announced
  PROVE  Announced'
<1>1. /\ ReadAt(rx, read, rx', i, j) /\ told = ParsePacket(read.pkt, Codename(shown.model))
      /\ later' = scheduleDualFollowups(told, read.pkt)
  BY Zenon DEF Handled
<1>2. /\ later["list"] > 0 => later'["list"] > 0
      /\ told.Kind = "dual_connect_changed" => later'["list"] > 0
  <2>1. later \in [Kinds -> Nat]
    BY Zenon DEF QInv, Counted
  <2> QED
    BY <1>1, <2>1, LaterGrows
<1>3. later'["list"] > 0 => Announced'
  BY Zenon DEF Announced
<1>4. CASE later["list"] > 0
  BY <1>2, <1>3, <1>4
<1>5. CASE \E k \in DOMAIN rx : IsListNews(rx[k])
  <2>1. PICK k : k \in DOMAIN rx /\ IsListNews(rx[k])
    BY <1>5
  <2> DEFINE cmd == \hE00E
  <2>2. PICK payload, n : n \in Nat /\ IsFrame(rx[k], cmd, payload, n)
    BY <2>1, SMT DEF IsListNews
  <2>3. cmd \in Nat
    OBVIOUS
  <2>4. told = ParsePacket(Packet(cmd, payload), Codename(shown.model)) => told.Kind = "dual_connect_changed"
    BY ListNewsTold
  <2> HIDE DEF cmd
  <2>5. (k > j /\ k - j \in DOMAIN rx' /\ rx'[k - j] = rx[k]) \/ (k = i /\ read.pkt = Packet(cmd, payload))
    BY <1>1, <2>1, <2>2, <2>3, FrameTaken
  <2>6. CASE k - j \in DOMAIN rx' /\ rx'[k - j] = rx[k]
    BY <2>1, <2>6, Zenon DEF Announced
  <2>7. CASE read.pkt = Packet(cmd, payload)
    BY <1>1, <1>2, <1>3, <2>4, <2>7
  <2> QED
    BY <2>5, <2>6, <2>7
<1> QED
  BY <1>4, <1>5, Zenon DEF Announced

LEMMA CountedHandled ==
  ASSUME QInv, NEW read, NEW told, NEW i, NEW j, Handled(read, told, i, j)
  PROVE  Counted'
<1>1. /\ told = ParsePacket(read.pkt, Codename(shown.model)) /\ owed' = owed
      /\ later' = scheduleDualFollowups(told, read.pkt)
      /\ shown'.batteries = mergeBatteries(shown.batteries, told.Batteries)
  BY DEF Handled
<1>2. later \in [Kinds -> Nat] /\ DOMAIN shown.batteries \subseteq AllParts /\ owed \subseteq Features \cup {"peers"}
  BY Zenon DEF QInv, Counted
<1>3. later' \in [Kinds -> Nat]
  BY <1>1, <1>2, LaterGrows
<1>4. DOMAIN told.Batteries \subseteq AllParts
  <2>1. PartsTold(told.Batteries, Codename(shown.model))
    BY <1>1, BatteriesTold
  <2> QED
    BY <2>1, CaseTold
<1>5. DOMAIN shown'.batteries \subseteq AllParts
  <2> DEFINE new == shown'.batteries
             update == told.Batteries
             current == shown.batteries
  <2>1. new = mergeBatteries(current, update)
    BY <1>1
  <2>2. DOMAIN current \subseteq AllParts /\ DOMAIN update \subseteq AllParts
    BY <1>2, <1>4
  <2> HIDE DEF new, update, current
  <2>3. DOMAIN new \subseteq DOMAIN current \cup DOMAIN update
    BY <2>1, MergedIs
  <2>4. DOMAIN new \subseteq AllParts
    BY <2>2, <2>3
  <2> QED
    BY <2>4 DEF new
<1> QED
  BY <1>1, <1>2, <1>3, <1>5 DEF Counted

LEMMA QuietHandle ==
  ASSUME IInv, RInv, QInv, link # 0, NEW read, read = ReadPacket(Received), read.status = "packet", Handle(read)
  PROVE  QInv'
<1>1. PICK told, i, j : Handled(read, told, i, j)
  BY IsHandled
<1>2. /\ UNCHANGED linkVars /\ UNCHANGED <<tx, buds, past, owed>> /\ ReadAt(rx, read, rx', i, j)
  BY <1>1, Zenon DEF Handled
<1>3. Truthful(read.pkt, Was)
  <2>1. SoundWrites(rx, Was)
    BY OwnParts
  <2> QED
    BY <1>2, <2>1, SoundRead
<1>4. link' = link /\ Device' = Device /\ Was' = Was /\ buds' = buds
  BY <1>2, KnownStays
<1>5. PartsStay'
  BY <1>4, Zenon DEF QInv, PartsStay
<1>6. FactsStay'
  BY <1>4, Zenon DEF QInv, FactsStay
<1>7. CaseIs'
  BY <1>1, <1>3, CaseHandled
<1>8. ASSUME NEW topic PROVE Agrees(topic)'
  <2>1. Agrees(topic)
    BY Zenon DEF QInv, AllAgree
  <2>2. CASE topic \in owed /\ topic # "case"
    BY <1>2, <2>2, Zenon DEF Agrees
  <2>3. CASE Wanted(tx, topic)
    BY <1>2, <2>3, Zenon DEF Agrees
  <2>4. CASE topic = "peers" /\ Announced
    BY <1>1, <2>4, AnnouncedHandled, Zenon DEF Agrees
  <2>5. CASE Settled(topic)
    <3>1. Settled(topic)'
      BY <1>1, <1>3, <2>5, SettledHandled
    <3> QED
      BY <3>1, Zenon DEF Agrees
  <2> QED
    BY <2>1, <2>2, <2>3, <2>4, <2>5, Zenon DEF Agrees
<1>9. ASSUME NEW topic PROVE Followed(tx, owed, topic)'
  <2>1. Followed(tx, owed, topic)
    BY Zenon DEF QInv, AllAgree
  <2> QED
    BY <1>2, <2>1, Zenon
<1>10. AllAgree'
  BY <1>8, <1>9, Zenon DEF AllAgree
<1>11. Counted'
  BY <1>1, CountedHandled
<1> QED
  BY <1>5, <1>6, <1>7, <1>10, <1>11, Zenon DEF QInv

-----------------------------------------------------------------------------
(* Links come and go; QInv is inductive.                                   *)

LEMMA CountedCleared ==
  ASSUME QInv, NEW model, shown' = Cleared(model), owed' = {}, UNCHANGED later
  PROVE  Counted'
<1>1. shown'.batteries = NoMap
  BY DEF Cleared
<1>2. later \in [Kinds -> Nat]
  BY Zenon DEF QInv, Counted
<1> QED
  BY <1>1, <1>2, NothingInNone DEF Counted

LEMMA QuietDisconnected ==
  ASSUME QInv, Disconnected
  PROVE  QInv'
<1>1. link' = 0 /\ UNCHANGED buds /\ UNCHANGED later /\ shown' = Cleared("") /\ owed' = {}
  BY Zenon DEF Disconnected, NoLink, LostVars
<1>2. Counted'
  BY <1>1, CountedCleared
<1>3. PartsStay'
  BY <1>1, Zenon DEF QInv, PartsStay
<1> QED
  BY <1>1, <1>2, <1>3, Zenon DEF QInv, FactsStay, CaseIs, AllAgree

LEMMA QuietConnect ==
  ASSUME IInv, RInv, QInv, NEW d, d \in Earbuds, Connect(d)
  PROVE  QInv'
<1> DEFINE model == IF d \in Named THEN ModelOf[d] ELSE ""
<1>1. /\ peer' = Append(peer, d) /\ shown' = Cleared(model) /\ tx' = <<>> /\ rx' = <<>>
      /\ owed' = {} /\ guessed' = {} /\ past' = {} /\ UNCHANGED buds /\ UNCHANGED later
  BY Zenon DEF Connect, NoLink, ClearedAtConnect
<1> HIDE DEF model
<1>2. Device' = d
  <2>1. peer \in Seq(Earbuds)
    BY DEF IInv, Types
  <2>2. peer' # <<>> /\ peer'[Len(peer')] = d
    BY <1>1, <2>1
  <2> QED
    BY <2>2 DEF Device
<1>3. Was' = Facts(buds[d])
  BY <1>1, <1>2 DEF Was
<1>4. IsState(buds[d], d) /\ DOMAIN buds[d].battery = PartsOf(d)
  BY Zenon DEF RInv, BudsAre, QInv, PartsStay
<1>5. DOMAIN tx' = {} /\ DOMAIN rx' = {} /\ shown'.batteries = NoMap
  BY <1>1 DEF Cleared
<1>6. PartsStay'
  BY <1>1, Zenon DEF QInv, PartsStay
<1>7. FactsStay'
  <2>1. \A fact \in Was' : FactOf(fact, d)
    BY <1>3, <1>4, FactOfState
  <2> QED
    BY <1>2, <2>1, Zenon DEF FactsStay
<1>8. Counted'
  BY <1>1, CountedCleared
<1>9. CaseIs'
  <2>1. Sure' = {}
    BY <1>5, NothingInNone DEF Sure
  <2> QED
    BY <1>5, <2>1 DEF CaseIs
<1>10. ASSUME NEW topic PROVE Agrees(topic)' /\ Followed(tx, owed, topic)'
  <2>1. Within(shown', guessed', Known(topic)')
    BY <1>1, ClearedIs
  <2>2. SoundWrites(rx', Known(topic)')
    BY <1>1, NoWrites
  <2>3. Settled(topic)'
    BY <2>1, <2>2, Zenon DEF Settled
  <2>4. Followed(tx', owed', topic)
    BY <1>5, Zenon DEF Followed
  <2> QED
    BY <2>3, <2>4, Zenon DEF Agrees
<1>11. AllAgree'
  BY <1>10, Zenon DEF AllAgree
<1> QED
  BY <1>6, <1>7, <1>8, <1>9, <1>11, Zenon DEF QInv

LEMMA QuietRead ==
  ASSUME IInv, RInv, QInv, Read
  PROVE  QInv'
<1>1. PICK read : /\ read = ReadPacket(Received) /\ link # 0
                  /\ (read.status = "packet" /\ Handle(read)) \/ Disconnected
  BY Zenon DEF Read
<1> QED
  BY <1>1, QuietHandle, QuietDisconnected

LEMMA QuietServe ==
  ASSUME IInv, RInv, QInv, Serve
  PROVE  QInv'
BY QuietServeQuery, QuietObeySet, QuietRefuseSet, Zenon DEF Serve

LEMMA QuietHappens ==
  ASSUME IInv, RInv, QInv, NEW n,
         Changes(n) \/ BatteryChanges(n) \/ PeersChange(n) \/ SendsPacket(n) \/ SendsBytes(n)
  PROVE  QInv'
BY QuietChanges, QuietBatteryChanges, QuietPeersChange, QuietSendsPacket, QuietSendsBytes, Zenon

LEMMA StepQuiet == IInv /\ RInv /\ QInv /\ [Next]_vars => QInv'
<1> SUFFICES ASSUME IInv, RInv, QInv, [Next]_vars PROVE QInv'
  OBVIOUS
<1>1. ASSUME NEW d \in Earbuds, Connect(d) PROVE QInv'
  BY <1>1, QuietConnect, Zenon
<1>2. CASE Lose
  BY <1>2, QuietDisconnected, Zenon DEF Lose
<1>3. CASE Poll
  BY <1>3, QuietPoll
<1>4. CASE Read
  BY <1>4, QuietRead
<1>5. CASE Serve
  BY <1>5, QuietServe
<1>6. CASE JobStep
  BY <1>6, QuietJobStep
<1>7. ASSUME NEW l, ProbeStep(l) PROVE QInv'
  BY <1>7, QuietProbeStep
<1>8. ASSUME NEW kind, kind \in Kinds, Later(kind) PROVE QInv'
  BY <1>8, QuietLater
<1>9. ASSUME NEW n,
             Changes(n) \/ BatteryChanges(n) \/ PeersChange(n) \/ SendsPacket(n) \/ SendsBytes(n)
      PROVE  QInv'
  BY <1>9, QuietHappens, Zenon
<1>10. ASSUME NEW a, Ask(a) PROVE QInv'
  BY <1>10, QuietAsk
<1>11. CASE UNCHANGED vars
  <2>1. UNCHANGED <<linkVars, buds, past, rx, guessed>> /\ UNCHANGED <<tx, shown, owed>> /\ later' = later
    BY <1>11, Zenon DEF vars, sessionVars, historyVars
  <2>2. later \in [Kinds -> Nat]
    BY Zenon DEF QInv, Counted
  <2> QED
    BY <2>1, <2>2, QuietSends, Zenon
<1> QED
  BY <1>1, <1>2, <1>3, <1>4, <1>5, <1>6, <1>7, <1>8, <1>9, <1>10, <1>11, Zenon DEF Next, Kinds

\* When every answer is in and the list that was announced was asked for, what the window
\* shows of the earbuds is what they are now, for any number of earbuds, requests, changes,
\* lost links and packets under way: no event is undone by an answer written before it, what
\* a SET altered is asked for after it or is owed, and the case has one name (handleRaw,
\* mergeBatteries, scheduleDualFollowups).
THEOREM QuietIsTrue == Spec => []QuietAgrees
<1>1. Spec => []IInv
  BY Invariant
<1>2. Spec => []RInv
  BY <1>1, InitReported, StepReported, PTL DEF Spec
<1>3. Spec => []QInv
  BY <1>1, <1>2, InitQuiet, StepQuiet, PTL DEF Spec
<1> QED
  BY <1>2, <1>3, InvImpliesQuiet, PTL

-----------------------------------------------------------------------------
(* The types: what is written are bytes.                                   *)

\* A payload whose length two bytes hold.
IsPayload(p) == p \in Seq(Bytes) /\ Len(p) <= 65535

LEMMA IsShort ==
  ASSUME NEW p, p \in Seq(Bytes), Len(p) <= 10000
  PROVE  IsPayload(p)
<1> DEFINE m == 10000
           n == 65535
<1>1. m \in Nat /\ n \in Nat /\ m <= n /\ Len(p) <= m
  OBVIOUS
<1>2. IsPayload(p) <=> p \in Seq(Bytes) /\ Len(p) <= n
  BY DEF IsPayload
<1> HIDE DEF m, n
<1>3. Len(p) \in Nat
  OBVIOUS
<1> QED
  BY <1>1, <1>2, <1>3

LEMMA BytesAre ==
  /\ \A n \in 0 .. 255 : n \in Bytes
  /\ \A c \in Codes : Low(c) \in Bytes /\ High(c) \in Bytes
<1>1. \A n \in 0 .. 255 : n \in Bytes
  BY DEF Bytes
<1>2. ASSUME NEW c \in Codes PROVE Low(c) \in Bytes /\ High(c) \in Bytes
  <2> DEFINE low == Low(c)
             high == High(c)
  <2>1. c \in Nat
    BY DEF Codes
  <2>2. c <= 65535
    BY DEF Codes
  <2>3. low \in Bytes /\ high \in Nat /\ low + 256 * high = c
    BY <2>1, LowAndHigh, Zenon
  <2>4. low \in Nat /\ low <= 255
    BY <2>3 DEF Bytes
  <2> HIDE DEF low, high
  <2>5. high <= 255
    BY <2>1, <2>2, <2>3, <2>4
  <2> QED
    BY <2>3, <2>5 DEF low, high, Bytes
<1> QED
  BY <1>1, <1>2

LEMMA IsCode ==
  ASSUME NEW n \in Nat, n <= 65535
  PROVE  n \in Codes
<1> DEFINE m == 65535
<1>1. m \in Nat /\ n <= m
  OBVIOUS
<1>2. Codes = 0 .. m
  BY DEF Codes
<1> HIDE DEF m
<1> QED
  BY <1>1, <1>2

LEMMA FrameBytes ==
  ASSUME NEW cmd, cmd \in Codes, NEW p, IsPayload(p)
  PROVE  MarshalBinary(Packet(cmd, p)) \in Seq(Bytes)
<1> DEFINE n == Len(p)
           a == Low(cmd)
           b == High(cmd)
           c == Low(n)
           d == High(n)
           head == <<SOF, 96, 1, a, b, c, d, 0>>
           crc == <<0, 0>>
<1>1. n \in Codes
  <2>1. n \in Nat /\ n <= 65535
    BY DEF IsPayload
  <2> HIDE DEF n
  <2> QED
    BY <2>1, IsCode
<1>2. a \in Bytes /\ b \in Bytes /\ c \in Bytes /\ d \in Bytes
  BY <1>1, BytesAre, Zenon
<1>3. SOF \in Bytes /\ 96 \in Bytes /\ 1 \in Bytes /\ 0 \in Bytes
  BY DEF SOF, Bytes
<1>4. MarshalBinary(Packet(cmd, p)) = head \o p \o crc
  BY DEF MarshalBinary, Packet
<1> HIDE DEF a, b, c, d
<1>5. head \in Seq(Bytes) /\ crc \in Seq(Bytes)
  BY <1>2, <1>3
<1> HIDE DEF head, crc
<1>6. head \o p \o crc \in Seq(Bytes)
  BY <1>5 DEF IsPayload
<1> QED
  BY <1>4, <1>6

LEMMA ShortPayload ==
  /\ \A a \in Bytes : IsPayload(<<a>>)
  /\ \A a, b \in Bytes : IsPayload(<<a, b>>)
  /\ \A a, b, c \in Bytes : IsPayload(<<a, b, c>>)
  /\ \A a, b, c, d, e, f \in Bytes : IsPayload(<<a, b, c, d, e, f>>)
BY DEF IsPayload

LEMMA AncBytes ==
  ASSUME NEW v, v \in ValuesOf("anc")
  PROVE  AncCode(v[1]) \in Bytes /\ AncCode(v[2]) \in Bytes
<1>1. v[1] \in AncLabels /\ v[2] \in LevelLabels
  <2>1. ValuesOf("anc") = AncLabels \X LevelLabels
    BY AncLabelsAre, Zenon DEF ValuesOf
  <2> QED
    BY <2>1
<1>2. LevelLabels \subseteq AncLabels
  BY DEF LevelLabels, AncLabels
<1>3. \A label \in AncLabels : \E n \in Bytes : ancModeLabel(n) = label
  BY AncLabelsAre
<1> QED
  BY <1>1, <1>2, <1>3, Zenon DEF AncCode

\* A setting takes six bytes at most.
LEMMA SettingBytes ==
  ASSUME NEW f, f \in Features, NEW v, v \in ValuesOf(f)
  PROVE  IsPayload(Encode(f, v)) /\ IsPayload(<<0>> \o Encode("lag", v))
<1>1. 0 \in Bytes /\ 1 \in Bytes /\ 2 \in Bytes
  BY BytesAre
<1>2. ASSUME f = "anc" PROVE IsPayload(Encode(f, v))
  <2>1. AncCode(v[1]) \in Bytes /\ AncCode(v[2]) \in Bytes
    BY <1>2, AncBytes
  <2>2. Encode(f, v) = <<1, AncCode(v[1]), 0, 2, AncCode(v[2]), 0>>
    BY <1>2, Zenon DEF Encode
  <2> QED
    BY <1>1, <2>1, <2>2, ShortPayload
<1>3. ASSUME f = "eq" PROVE IsPayload(Encode(f, v))
  <2> DEFINE x == CHOOSE n \in Bytes : eqPresetLabel(n) = v[1]
  <2>1. \E n \in Bytes : eqPresetLabel(n) = v[1]
    <3>1. ValuesOf("eq") = {<<eqPresetLabel(n)>> : n \in Bytes}
      BY Zenon DEF ValuesOf
    <3> QED
      BY <1>3, <3>1
  <2>2. x \in Bytes
    BY <2>1, Zenon
  <2>3. Encode(f, v) = <<x>>
    BY <1>3, Zenon DEF Encode
  <2> HIDE DEF x
  <2> QED
    BY <2>2, <2>3, ShortPayload, Zenon
<1>4. ASSUME f \notin {"anc", "eq"} PROVE IsPayload(Encode(f, v))
  <2>1. \E a \in Bytes, b \in Bytes : Encode(f, v) = <<a>> \/ Encode(f, v) = <<a, b>>
    BY <1>1, <1>4 DEF Encode, MicByte
  <2> QED
    BY <2>1, ShortPayload, Zenon
<1>5. IsPayload(<<0>> \o Encode("lag", v))
  <2> DEFINE x == IF v = <<"on">> THEN 1 ELSE 2
  <2>1. x \in Bytes /\ Encode("lag", v) = <<x>>
    BY <1>1, Zenon DEF Encode
  <2> HIDE DEF x
  <2> DEFINE zero == <<0>>
             rest == <<x>>
  <2>2. zero \in Seq(Bytes) /\ Len(zero) = 1 /\ rest \in Seq(Bytes) /\ Len(rest) = 1
    BY <1>1, <2>1
  <2> HIDE DEF zero, rest
  <2>3. zero \o rest \in Seq(Bytes) /\ Len(zero \o rest) = 2
    BY <2>2
  <2> QED
    <3> DEFINE q == zero \o rest
    <3>1. q \in Seq(Bytes) /\ Len(q) <= 10000
      BY <2>3
    <3> HIDE DEF q
    <3>2. IsPayload(q)
      BY <3>1, IsShort
    <3> QED
      BY <2>1, <3>2, Zenon DEF q, zero, rest
<1> QED
  BY <1>2, <1>3, <1>4, <1>5

\* The pairs of six parts at most.
LEMMA PairsBytes ==
  ASSUME NEW bytes, DOMAIN bytes \subseteq PartNames, \A part \in DOMAIN bytes : bytes[part] \in Bytes
  PROVE  IsPayload(EncodePairs(bytes))
<1> DEFINE D == DOMAIN bytes
           n == Cardinality(D)
           parts == SetToSeq(D)
           byte(i) == IF i % 2 = 1 THEN PartId(parts[(i + 1) \div 2]) ELSE bytes[parts[(i + 1) \div 2]]
           tail == [i \in 1 .. 2 * n |-> byte(i)]
<1>1. n \in Nat /\ n <= 6 /\ parts \in [1 .. n -> D]
  BY SetAsSeq
<1> HIDE DEF n, parts
<1>2. Len(parts) = n
  BY <1>1
<1>3. EncodePairs(bytes) = <<n>> \o tail
  BY <1>2 DEF EncodePairs, parts
<1>4. \A i \in 1 .. 2 * n : (i + 1) \div 2 \in 1 .. n
  BY <1>1
<1>5. \A part \in PartNames : PartId(part) \in Bytes
  BY PartsNamed DEF Bytes
<1>6. \A i \in 1 .. n : PartId(parts[i]) \in Bytes /\ bytes[parts[i]] \in Bytes
  BY <1>1, <1>5
<1>7. \A i \in 1 .. 2 * n : byte(i) \in Bytes
  BY <1>4, <1>6, Zenon
<1> HIDE DEF byte
<1>8. tail \in Seq(Bytes) /\ Len(tail) = 2 * n
  BY <1>1, <1>7
<1> HIDE DEF tail
<1>9. n \in Bytes
  BY <1>1 DEF Bytes
<1>10. <<n>> \o tail \in Seq(Bytes) /\ Len(<<n>> \o tail) = 1 + 2 * n
  BY <1>1, <1>8, <1>9
<1> QED
  <2> DEFINE q == <<n>> \o tail
  <2>1. q \in Seq(Bytes) /\ Len(q) <= 10000
    BY <1>1, <1>10
  <2> HIDE DEF q
  <2>2. IsPayload(q)
    BY <2>1, IsShort
  <2> QED
    BY <1>3, <2>2, Zenon DEF q

\* Two sequences of bytes make one.
LEMMA BytesJoin ==
  ASSUME NEW a, NEW b, a \in Seq(Bytes), b \in Seq(Bytes)
  PROVE  a \o b \in Seq(Bytes) /\ Len(a \o b) = Len(a) + Len(b)
OBVIOUS

LEMMA PeerBytes ==
  ASSUME NEW d, d \in Peers
  PROVE  EncodePeer(d) \in Seq(Bytes)
<1> DEFINE state == <<StateByte(d)>>
           mac == d.MAC
           name == d.Name
           n == Len(name)
           length == <<n>>
           zeros == [i \in 1 .. 31 - n |-> 0]
<1>1. /\ mac \in [1 .. 6 -> Bytes] /\ name \in Seq(Bytes)
      /\ d.Connected \in BOOLEAN /\ d.Owner \in BOOLEAN
  BY DEF Peers
<1>2. n \in Nat /\ n <= 31
  <2>1. n \in Nat
    BY <1>1
  <2>2. n <= 31
    BY DEF Peers, IsName
  <2> QED
    BY <2>1, <2>2
<1>3. state \in Seq(Bytes)
  <2> DEFINE x == StateByte(d)
  <2>1. x \in Bytes
    BY DEF StateByte, Bytes
  <2> HIDE DEF x
  <2> QED
    BY <2>1 DEF x
<1>4. EncodePeer(d) = state \o mac \o CASE Layout = "length" -> length \o name
                                        [] Layout = "fixed" -> name \o zeros
                                        [] OTHER -> <<>>
  BY Zenon DEF EncodePeer, StateByte
<1>5. mac \in Seq(Bytes)
  BY <1>1, FunctionIsSeq
<1>6. <<>> \in Seq(Bytes) /\ 0 \in Bytes
  BY DEF Bytes
<1> HIDE DEF state, mac, name, n
<1>7. length \in Seq(Bytes)
  <2>1. n \in Bytes
    BY <1>2 DEF Bytes
  <2> QED
    BY <2>1
<1>8. zeros \in Seq(Bytes)
  BY <1>2, <1>6
<1> HIDE DEF length, zeros
<1>9. name \in Seq(Bytes)
  BY <1>1 DEF name
<1>10. state \o mac \in Seq(Bytes)
  BY <1>3, <1>5, BytesJoin
<1>11. length \o name \in Seq(Bytes) /\ name \o zeros \in Seq(Bytes)
  BY <1>7, <1>8, <1>9, BytesJoin
<1>12. CASE Layout = "length"
  BY <1>4, <1>10, <1>11, <1>12, BytesJoin
<1>13. CASE Layout = "fixed"
  BY <1>4, <1>10, <1>11, <1>13, BytesJoin
<1>14. CASE Layout \notin {"length", "fixed"}
  BY <1>4, <1>6, <1>10, <1>14, BytesJoin
<1> QED
  BY <1>12, <1>13, <1>14

\* A list of 255 peers takes less than ten thousand bytes.
LEMMA PeersBytes ==
  ASSUME NEW list, list \in PeerLists
  PROVE  IsPayload(EncodePeers(list))
<1> DEFINE count == Len(list)
           recs == Records(list)
           head == <<count, 0, count>>
           body == FlattenSeq(recs)
           k == Len(body)
           p == head \o body
<1>1. list \in Seq(Peers) /\ count \in Nat /\ count <= 255 /\ DOMAIN list = 1 .. count
  BY DEF PeerLists
<1>2. \A i \in 1 .. count : list[i] \in Peers
  BY <1>1
<1>3. ArePeers(list, count)
  BY <1>1, <1>2, PeersAre DEF ArePeers
<1>4. EncodePeers(list) = p
  BY Zenon DEF EncodePeers, Records
<1>5. head \in Seq(Bytes) /\ Len(head) = 3
  <2> HIDE DEF count
  <2>1. count \in Bytes /\ 0 \in Bytes
    BY <1>1 DEF Bytes
  <2> QED
    BY <2>1
<1>6. /\ recs \in Chunks(Nat) /\ Len(recs) = count
      /\ \A i \in DOMAIN recs : recs[i] = EncodePeer(list[i]) /\ HoldsRecords(Len(recs[i]), 1)
      /\ DOMAIN recs = 1 .. count
  BY <1>3, RecordsAre
<1> HIDE DEF recs, count
<1>7. HoldsRecords(k, count)
  BY <1>6, BytesOfRecords
<1>8. body \in Seq(Bytes)
  <2>1. \A i \in 1 .. count : recs[i] \in Seq(Bytes)
    BY <1>2, <1>6, PeerBytes
  <2> DEFINE S == Seq(Bytes)
             T == Seq(Nat)
  <2> HIDE DEF S, T
  <2>2. recs \in Seq(T)
    BY <1>6 DEF Chunks, T
  <2>3. recs \in Seq(S)
    BY <1>1, <1>6, <2>1, <2>2 DEF S
  <2>4. recs \in Chunks(Bytes)
    BY <2>3 DEF Chunks, S
  <2> QED
    BY <2>4, FlattenChunks
<1> HIDE DEF head, body
<1>9. k \in Nat /\ k <= 9945
  <2>1. k \in Nat
    BY <1>8
  <2>2. k <= 39 * count
    BY <1>7, Zenon DEF HoldsRecords
  <2> HIDE DEF k
  <2> QED
    BY <1>1, <2>1, <2>2 DEF count
<1>10. p \in Seq(Bytes) /\ Len(p) = 3 + k
  BY <1>5, <1>8, BytesJoin
<1> HIDE DEF p, k
<1>11. Len(p) <= 10000
  BY <1>9, <1>10
<1> QED
  BY <1>4, <1>10, <1>11, IsShort

LEMMA PartBytes ==
  /\ \A b \in BatteryValues : BatteryByte(b) \in Bytes
  /\ \A w \in Wears : WearByte(w) \in Bytes
<1>1. ASSUME NEW b \in BatteryValues PROVE BatteryByte(b) \in Bytes
  <2>1. b[1] \in 0 .. 127
    BY DEF BatteryValues
  <2> DEFINE n == b[1]
             m == IF b[2] = "charging" THEN 128 ELSE 0
  <2>2. n \in 0 .. 127 /\ m \in {0, 128}
    BY <2>1
  <2>3. BatteryByte(b) = n + m
    BY Zenon DEF BatteryByte
  <2> HIDE DEF n, m
  <2> QED
    BY <2>2, <2>3 DEF Bytes
<1>2. ASSUME NEW w \in Wears PROVE WearByte(w) \in Bytes
  BY DEF WearByte, Bytes
<1> QED
  BY <1>1, <1>2

LEMMA CodesAre ==
  /\ Acks \subseteq Codes
  /\ {\hE001, \hE003, \hE006, \hE00E, \hE019, \hE01A} \subseteq Codes
<1>1. \A n \in Acks : n \in Nat /\ n <= 65535
  BY DEF Acks
<1>2. \A n \in {\hE001, \hE003, \hE006, \hE00E, \hE019, \hE01A} : n \in Nat /\ n <= 65535
  OBVIOUS
<1>3. ASSUME NEW n, n \in Nat /\ n <= 65535 PROVE n \in Codes
  BY <1>3, IsCode
<1> QED
  BY <1>1, <1>2, <1>3

\* Whatever the earbuds answer to a query fits a packet.
LEMMA AnswerBytes ==
  ASSUME NEW b, NEW d, IsState(b, d), NEW cmd, IsQuery(cmd), FeaturesOfGet(cmd) \subseteq DOMAIN b.set
  PROVE  ResponseCmd(cmd) \in Codes /\ IsPayload(Answer(b, cmd))
<1>1. ResponseCmd(cmd) \in Codes
  BY QueryAnswers, CodesAre
<1>2. ASSUME FeaturesOfGet(cmd) # {} PROVE IsPayload(Answer(b, cmd))
  <2> DEFINE f == CHOOSE x \in FeaturesOfGet(cmd) : TRUE
  <2>1. f \in FeaturesOfGet(cmd)
    BY <1>2, Zenon
  <2>2. f \in Features /\ GetOf(f) = cmd /\ f \in DOMAIN b.set
    BY <2>1 DEF FeaturesOfGet, GetOf
  <2>3. Answer(b, cmd) = Encode(f, b.set[f])
    <3>1. cmd \notin {\hC007, \hC00A, \hC028, \hC00D, \hC005}
      BY <2>2, OnlySettings
    <3> HIDE DEF f
    <3> QED
      BY <1>2, <3>1 DEF Answer, f
  <2> HIDE DEF f
  <2>4. b.set[f] \in ValuesOf(f)
    BY <2>2, Zenon DEF IsState
  <2> QED
    BY <2>2, <2>3, <2>4, SettingBytes
<1>3. ASSUME FeaturesOfGet(cmd) = {}, cmd = \hC007 PROVE IsPayload(Answer(b, cmd))
  <2> DEFINE m == [part \in DOMAIN b.battery |-> BatteryByte(b.battery[part])]
  <2>1. Answer(b, cmd) = EncodePairs(m)
    BY <1>3 DEF Answer
  <2>2. DOMAIN b.battery \subseteq PartNames /\ \A part \in DOMAIN b.battery : b.battery[part] \in BatteryValues
    BY Zenon DEF IsState, IsPartMap
  <2>3. DOMAIN m \subseteq PartNames /\ \A part \in DOMAIN m : m[part] \in Bytes
    BY <2>2, PartBytes
  <2> HIDE DEF m
  <2> QED
    BY <2>1, <2>3, PairsBytes
<1>4. ASSUME FeaturesOfGet(cmd) = {}, cmd = \hC00A PROVE IsPayload(Answer(b, cmd))
  <2> DEFINE m == [part \in DOMAIN b.wear |-> WearByte(b.wear[part])]
  <2>1. Answer(b, cmd) = EncodePairs(m)
    BY <1>4 DEF Answer
  <2>2. DOMAIN b.wear \subseteq PartNames /\ \A part \in DOMAIN b.wear : b.wear[part] \in Wears
    BY Zenon DEF IsState, IsPartMap
  <2>3. DOMAIN m \subseteq PartNames /\ \A part \in DOMAIN m : m[part] \in Bytes
    BY <2>2, PartBytes
  <2> HIDE DEF m
  <2> QED
    BY <2>1, <2>3, PairsBytes
<1>5. ASSUME FeaturesOfGet(cmd) = {}, cmd = \hC028 PROVE IsPayload(Answer(b, cmd))
  <2>1. Answer(b, cmd) = EncodePeers(b.peers)
    BY <1>5 DEF Answer
  <2> QED
    BY <2>1, PeersBytes DEF IsState
<1>6. ASSUME FeaturesOfGet(cmd) = {}, cmd \notin {\hC007, \hC00A, \hC028} PROVE IsPayload(Answer(b, cmd))
  <2>1. Answer(b, cmd) \in {<<0, 64>>, <<250>>, <<0>>}
    BY <1>6 DEF Answer, Identity
  <2>2. 0 \in Bytes /\ 64 \in Bytes /\ 250 \in Bytes
    BY BytesAre
  <2> QED
    BY <2>1, <2>2, ShortPayload
<1> QED
  BY <1>1, <1>2, <1>3, <1>4, <1>5, <1>6

\* And so do the acknowledgement of a SET and what earbuds tell by themselves.
LEMMA AckBytes ==
  ASSUME NEW cmd, cmd \in SafeSets \cup OtherSets, NEW result \in {0, 1}
  PROVE  ResponseCmd(cmd) \in Codes /\ IsPayload(<<result>>)
<1>1. result \in Bytes
  BY BytesAre
<1>2. ResponseCmd(cmd) \in Codes
  BY SetAcks, CodesAre
<1> QED
  BY <1>1, <1>2, ShortPayload, Zenon

LEMMA EventBytes ==
  ASSUME NEW f, f \in Features, EventOf(f) # 0, NEW v, v \in ValuesOf(f)
  PROVE  EventOf(f) \in Codes /\ IsPayload(EncodeEvent(f, v))
<1>1. EventOf(f) \in Codes
  <2>1. EventOf(f) \in {\hE003, \hE019, \hE006, \hE01A}
    BY DEF EventOf
  <2> QED
    BY <2>1, CodesAre
<1>2. CASE f = "anc"
  <2>1. EncodeEvent(f, v) = <<1, AncCode(v[1]), 0>>
    BY <1>2 DEF EncodeEvent
  <2>2. AncCode(v[1]) \in Bytes /\ 0 \in Bytes /\ 1 \in Bytes
    BY <1>2, AncBytes, BytesAre
  <2> QED
    BY <1>1, <2>1, <2>2, ShortPayload
<1>3. CASE f = "lag"
  <2>1. EncodeEvent(f, v) = <<0>> \o Encode("lag", v)
    BY <1>3 DEF EncodeEvent
  <2> QED
    BY <1>1, <2>1, SettingBytes
<1>4. CASE f \notin {"anc", "lag"}
  <2>1. EncodeEvent(f, v) = Encode(f, v)
    BY <1>4 DEF EncodeEvent
  <2> QED
    BY <1>1, <2>1, SettingBytes
<1> QED
  BY <1>2, <1>3, <1>4

\* A packet tells of a left and of a right earbud.
LEMMA EarsTold ==
  ASSUME NEW pkt, NEW model
  PROVE  DOMAIN ParsePacket(pkt, model).Earbuds \subseteq {"left", "right"}
<1> DEFINE two == {"left", "right"}
           AreTwo(told) == DOMAIN told.Earbuds \subseteq two
<1>1. ASSUME NEW told, NEW k, NEW v, NEW b, NEW e, NEW l, Keeps(told, k, v, b, e, l), DOMAIN e \subseteq two
      PROVE  AreTwo(told)
  <2>1. told.Earbuds = e
    BY <1>1 DEF Keeps
  <2> QED
    BY <1>1, <2>1
<1>2. DOMAIN NoMap \subseteq two
  BY NothingInNone
<1> HIDE DEF AreTwo, two
<1>3. ASSUME NEW kind
      PROVE  /\ AreTwo(Told(kind)) /\ \A v : AreTwo(Value(kind, v))
             /\ \A m : AreTwo([Told(kind) EXCEPT !.Batteries = m])
             /\ \A l : AreTwo([Told(kind) EXCEPT !.DualList = l])
             /\ \A m : DOMAIN m \subseteq two => AreTwo([Told(kind) EXCEPT !.Earbuds = m])
  BY <1>1, <1>2, ToldAre, Zenon
<1>4. ASSUME NEW kind, NEW p PROVE AreTwo(parseStatusPacket(kind, p))
  <2>1. CASE parseCountedPairs(p) = {}
    BY <1>3, <2>1, Zenon DEF parseStatusPacket
  <2>2. CASE parseCountedPairs(p) # {}
    <3>1. PICK bytes : parseStatusPacket(kind, p) =
                 [Told(kind) EXCEPT !.Earbuds = EarbudStatuses(Restrict(bytes, DOMAIN bytes \cap two))]
      BY <2>2, Zenon DEF parseStatusPacket, two
    <3> DEFINE m == EarbudStatuses(Restrict(bytes, DOMAIN bytes \cap two))
    <3>2. DOMAIN m \subseteq two
      BY DEF EarbudStatuses, Restrict
    <3>3. parseStatusPacket(kind, p) = [Told(kind) EXCEPT !.Earbuds = m]
      BY <3>1
    <3> HIDE DEF m
    <3> QED
      BY <1>3, <3>2, <3>3
  <2> QED
    BY <2>1, <2>2
<1>5. ASSUME NEW kind, NEW p
      PROVE  /\ AreTwo(parseMicFlag(kind, p)) /\ AreTwo(parseANCPacket(kind, p))
             /\ AreTwo(parseEQPacket(kind, p)) /\ AreTwo(parseLagPacket(kind, p))
             /\ AreTwo(parseDualPacket(kind, p)) /\ AreTwo(parseSpatialPacket(kind, p))
             /\ AreTwo(parseDualDeviceListPacket(kind, p)) /\ AreTwo(parseBatteryPacket(kind, p, model))
  <2>1. parseMicFlag(kind, p) = Told(kind) \/ \E v : parseMicFlag(kind, p) = Value(kind, v)
    BY Zenon DEF parseMicFlag
  <2>2. \E v : parseANCPacket(kind, p) = Value(kind, v)
    BY Zenon DEF parseANCPacket
  <2>3. \E v : parseEQPacket(kind, p) = Value(kind, v)
    BY Zenon DEF parseEQPacket
  <2>4. \E v : parseLagPacket(kind, p) = Value(kind, v)
    BY Zenon DEF parseLagPacket
  <2>5. \E v : parseDualPacket(kind, p) = Value(kind, v)
    BY Zenon DEF parseDualPacket
  <2>6. \E v : parseSpatialPacket(kind, p) = Value(kind, v)
    BY Zenon DEF parseSpatialPacket
  <2>7. \E l : parseDualDeviceListPacket(kind, p) = [Told(kind) EXCEPT !.DualList = l]
    BY Zenon DEF parseDualDeviceListPacket
  <2>8. \/ parseBatteryPacket(kind, p, model) = Told(kind)
        \/ \E m : parseBatteryPacket(kind, p, model) = [Told(kind) EXCEPT !.Batteries = m]
    BY Zenon DEF parseBatteryPacket
  <2>9. AreTwo(parseDualDeviceListPacket(kind, p)) /\ AreTwo(parseBatteryPacket(kind, p, model))
    BY <1>3, <2>7, <2>8
  <2> QED
    BY <1>3, <2>1, <2>2, <2>3, <2>4, <2>5, <2>6, <2>9
<1>6. ASSUME NEW parser, NEW kind, NEW p PROVE AreTwo(Parse(parser, kind, p, model))
  <2>1. Parse(parser, kind, p, model) \in
          {parseMicFlag(kind, p), parseBatteryPacket(kind, p, model), parseStatusPacket(kind, p),
           parseANCPacket(kind, p), parseEQPacket(kind, p), parseLagPacket(kind, p),
           parseDualPacket(kind, p), parseSpatialPacket(kind, p), parseDualDeviceListPacket(kind, p),
           Told(kind)}
    BY Zenon DEF Parse
  <2> QED
    BY <1>3, <1>4, <1>5, <2>1, Zenon
<1>7. ASSUME NEW p PROVE AreTwo(parseUnknownPacket(p, model))
  <2>1. \/ \E kind : parseUnknownPacket(p, model) = Told(kind)
        \/ \E kind, m : parseUnknownPacket(p, model) = [Told(kind) EXCEPT !.Batteries = m]
    BY Zenon DEF parseUnknownPacket
  <2> QED
    BY <1>3, <2>1, Zenon
<1>8. AreTwo(ParsePacket(pkt, model))
  <2>1. CASE Parsers(pkt.cmd) = {}
    BY <1>7, <2>1, Zenon DEF ParsePacket
  <2>2. CASE Parsers(pkt.cmd) # {}
    <3>1. \E parser, kind : ParsePacket(pkt, model) = Parse(parser, kind, pkt.payload, model)
      BY <2>2, Zenon DEF ParsePacket
    <3> QED
      BY <1>6, <3>1, Zenon
  <2> QED
    BY <2>1, <2>2
<1> QED
  BY <1>8 DEF AreTwo, two

-----------------------------------------------------------------------------
(* The types are inductive.  Types, of IInv, has those that the traffic needs. *)

AreBytes(writes) == \A i \in DOMAIN writes : writes[i] \in Seq(Bytes)

HasEars(held) == DOMAIN held.earbuds \subseteq {"left", "right"}

Spent == events \in [all : 0 .. MaxEvents, asks : 0 .. MaxAsks]

TInv == AreBytes(rx) /\ HasEars(shown) /\ Len(probe) = Len(peer) /\ Spent

LEMMA SameLength ==
  ASSUME NEW S, NEW s, s \in Seq(S), NEW t, t \in Seq(S), DOMAIN t = DOMAIN s
  PROVE  Len(t) = Len(s)
OBVIOUS

LEMMA SpentCounts ==
  ASSUME Spent, NEW n \in Nat, Counts(n)
  PROVE  Spent'
BY RequestsAssumption DEF Spent, Counts

LEMMA NoBytes == AreBytes(<<>>)
<1>1. DOMAIN <<>> = {}
  OBVIOUS
<1> QED
  BY <1>1, Zenon DEF AreBytes

LEMMA EarsCleared == \A model : HasEars(Cleared(model))
BY NothingInNone DEF HasEars, Cleared

LEMMA InitTyped == Init => TInv
<1> SUFFICES ASSUME Init PROVE TInv
  OBVIOUS
<1>1. rx = <<>> /\ probe = <<>> /\ peer = <<>> /\ shown = Cleared("") /\ events = [all |-> 0, asks |-> 0]
  BY Zenon DEF Init
<1>2. Spent
  <2>1. MaxEvents \in Nat /\ MaxAsks \in Nat
    BY RequestsAssumption
  <2>2. events = [all |-> 0, asks |-> 0]
    BY <1>1
  <2> QED
    BY <2>1, <2>2 DEF Spent
<1>3. AreBytes(rx) /\ Len(probe) = Len(peer)
  BY <1>1, NoBytes, Zenon
<1> QED
  BY <1>1, <1>2, <1>3, EarsCleared, Zenon DEF TInv

\* A step that at most sends to the earbuds.
LEMMA TypedSends ==
  ASSUME RInv, TInv, UNCHANGED <<linkVars, rx>>, Len(probe') = Len(probe), Spent',
         UNCHANGED shown \/ \E pkt : Send(pkt)
  PROVE  TInv'
<1>1. HasParts(shown)
  BY Zenon DEF RInv, ShownIsTrue
<1>2. HasEars(shown')
  <2>1. CASE UNCHANGED shown
    BY <2>1 DEF TInv
  <2>2. CASE ~UNCHANGED shown
    <3>1. PICK pkt : shown' = [shown EXCEPT !.config = ForgetMicMode(@, pkt.cmd)]
      BY <2>2, Zenon DEF Send
    <3>2. shown'.earbuds = shown.earbuds
      BY <1>1, <3>1 DEF HasParts
    <3> QED
      BY <3>2, Zenon DEF TInv, HasEars
  <2> QED
    BY <2>1, <2>2
<1>3. peer' = peer /\ rx' = rx
  BY DEF linkVars
<1> QED
  BY <1>2, <1>3, Zenon DEF TInv

\* A step of the earbuds, which write bytes or nothing.
LEMMA TypedWrites ==
  ASSUME RInv, TInv, UNCHANGED <<linkVars, shown, probe>>, Spent',
         UNCHANGED rx \/ \E w \in Seq(Bytes) : rx' = Append(rx, w)
  PROVE  TInv'
<1>1. AreBytes(rx')
  <2>1. CASE UNCHANGED rx
    BY <2>1 DEF TInv
  <2>2. ASSUME NEW w \in Seq(Bytes), rx' = Append(rx, w) PROVE AreBytes(rx')
    <3> DEFINE S == Seq(Nat)
    <3>1. w \in S
      BY <2>2, ByteSeqs DEF IsSeq
    <3> HIDE DEF S
    <3>2. rx \in Seq(S)
      BY DEF RInv, WritesAreTrue, SoundWrites, Chunks, S
    <3>3. \A i \in DOMAIN rx' : rx'[i] = w \/ (i \in DOMAIN rx /\ rx'[i] = rx[i])
      BY <2>2, <3>1, <3>2, AppendTo
    <3> QED
      BY <2>2, <3>3, Zenon DEF TInv, AreBytes
  <2> QED
    BY <2>1, <2>2, Zenon
<1>2. peer' = peer
  BY DEF linkVars
<1> QED
  BY <1>1, <1>2, Zenon DEF TInv

LEMMA EmitBytes ==
  ASSUME NEW cmd, cmd \in Codes, NEW p, IsPayload(p), Emit(cmd, p)
  PROVE  \E w \in Seq(Bytes) : rx' = Append(rx, w)
BY FrameBytes, Zenon DEF Emit

LEMMA TypedServe ==
  ASSUME IInv, RInv, TInv, Serve
  PROVE  TInv'
<1> DEFINE cmd == Head(tx).cmd
           b == buds[Device]
<1>1. tx # <<>> /\ UNCHANGED <<linkVars, shown, probe>> /\ UNCHANGED events
  BY DEF Serve, ServeQuery, ObeySet, RefuseSet, ServeVars, sessionVars
<1>2. Spent'
  BY <1>1 DEF TInv, Spent
<1>3. /\ IsState(b, Device)
      /\ IF Kind(cmd) = 15 THEN cmd \in SafeSets \cup OtherSets ELSE IsQuery(cmd)
  BY <1>1, Asked, Zenon
<1>4. UNCHANGED rx \/ \E w \in Seq(Bytes) : rx' = Append(rx, w)
  <2>1. CASE ServeQuery
    <3>1. Kind(cmd) # 15
      BY <2>1, Zenon DEF ServeQuery
    <3>2. IsQuery(cmd)
      BY <1>3, <3>1, Zenon
    <3>3. \/ UNCHANGED rx
          \/ FeaturesOfGet(cmd) \subseteq DOMAIN b.set /\ Emit(ResponseCmd(cmd), Answer(b, cmd))
      BY <2>1, Zenon DEF ServeQuery
    <3> HIDE DEF cmd, b
    <3> QED
      BY <1>3, <3>2, <3>3, AnswerBytes, EmitBytes
  <2>2. CASE ObeySet \/ RefuseSet
    <3>1. Kind(cmd) = 15 /\ \E result \in {0, 1} : Emit(ResponseCmd(cmd), <<result>>)
      BY <2>2 DEF ObeySet, RefuseSet
    <3>2. cmd \in SafeSets \cup OtherSets
      BY <1>3, <3>1, Zenon
    <3> HIDE DEF cmd
    <3> QED
      BY <3>1, <3>2, AckBytes, EmitBytes
  <2> QED
    BY <2>1, <2>2 DEF Serve
<1> QED
  BY <1>1, <1>2, <1>4, TypedWrites

LEMMA NewsCounts ==
  ASSUME TInv, NEW n, Happens(n)
  PROVE  Spent'
<1>1. n.counts \in Nat
  BY NewsAssumption DEF Happens
<1> QED
  BY <1>1, SpentCounts, Zenon DEF TInv, Happens

LEMMA PayloadSent ==
  ASSUME NEW n \in News, n.what = "packet"
  PROVE  IsPayload(n.value.payload) /\ n.value.cmd \in Codes
<1>1. n.value \in Packets
  BY NewsAssumption
<1>2. Len(n.value.payload) <= 65535
  BY NewsAssumption
<1>3. n.value.cmd \in Codes /\ n.value.payload \in Seq(Bytes)
  <2>1. n.value \in [cmd : Codes, payload : Seq(Bytes)]
    BY <1>1, Zenon DEF Packets
  <2> QED
    BY <2>1
<1> QED
  BY <1>2, <1>3 DEF IsPayload

LEMMA TypedNews ==
  ASSUME IInv, RInv, TInv, NEW n,
         Changes(n) \/ BatteryChanges(n) \/ PeersChange(n) \/ SendsPacket(n) \/ SendsBytes(n)
  PROVE  TInv'
<1> DEFINE v == n.value
           Writes == \E w \in Seq(Bytes) : rx' = Append(rx, w)
<1>1. Happens(n) /\ UNCHANGED <<linkVars, shown, probe>>
  BY DEF Changes, BatteryChanges, PeersChange, SendsPacket, SendsBytes, NewsVars, sessionVars
<1>2. Spent'
  BY <1>1, NewsCounts
<1>3. n \in News /\ link # 0
  BY <1>1, Zenon DEF Happens
<1>4. IsState(buds[Device], Device)
  BY <1>3, Happened, Zenon
<1>5. ASSUME Changes(n) PROVE UNCHANGED rx \/ Writes
  <2> DEFINE f == n.what
             p == EncodeEvent(f, v)
  <2>1. f \in Features /\ v \in ValuesOf(f)
    BY <1>3, <1>5, NewsAre, Zenon DEF Changes
  <2>2. UNCHANGED rx \/ (EventOf(f) # 0 /\ Emit(EventOf(f), p))
    BY <1>5, Zenon DEF Changes
  <2>3. EventOf(f) # 0 => EventOf(f) \in Codes /\ IsPayload(p)
    BY <2>1, EventBytes
  <2> HIDE DEF p
  <2> QED
    BY <2>2, <2>3, EmitBytes
<1>6. ASSUME BatteryChanges(n) PROVE Writes
  <2> DEFINE part == n.what
             m == [x \in {part} |-> BatteryByte(v)]
  <2>0. Emit(\hE001, EncodePairs(m))
    BY <1>6, SMT DEF BatteryChanges
  <2>1. part \in DOMAIN buds[Device].battery
    BY <1>6, SMT DEF BatteryChanges
  <2>2. part \in PartNames
    BY <1>4, <2>1, Zenon DEF IsState, IsPartMap
  <2>3. v \in BatteryValues
    BY <1>3, <2>2, NewsAre, Zenon
  <2>4. DOMAIN m \subseteq PartNames /\ \A x \in DOMAIN m : m[x] \in Bytes
    BY <2>2, <2>3, PartBytes
  <2> HIDE DEF m
  <2>5. IsPayload(EncodePairs(m))
    BY <2>4, PairsBytes
  <2>6. \hE001 \in Codes
    BY CodesAre
  <2> QED
    BY <2>0, <2>5, <2>6, EmitBytes
<1>7. ASSUME PeersChange(n) PROVE Writes
  <2>1. Emit(\hE00E, <<1>>)
    BY <1>7, SMT DEF PeersChange
  <2>2. IsPayload(<<1>>)
    BY BytesAre, ShortPayload
  <2>3. \hE00E \in Codes
    BY CodesAre
  <2> QED
    BY <2>1, <2>2, <2>3, EmitBytes
<1>8. ASSUME SendsPacket(n) PROVE Writes
  <2>1. Emit(v.cmd, v.payload) /\ n.what = "packet"
    BY <1>8, Zenon DEF SendsPacket
  <2> QED
    BY <1>3, <2>1, PayloadSent, EmitBytes
<1>9. ASSUME SendsBytes(n) PROVE Writes
  <2>1. rx' = Append(rx, v) /\ n.what = "bytes"
    BY <1>9, Zenon DEF SendsBytes
  <2> QED
    BY <1>3, <2>1, NewsAre, Zenon
<1>10. UNCHANGED rx \/ Writes
  BY <1>5, <1>6, <1>7, <1>8, <1>9
<1> QED
  BY <1>1, <1>2, <1>10, TypedWrites

LEMMA TypedDisconnected ==
  ASSUME IInv, TInv, Disconnected
  PROVE  TInv'
<1>1. rx' = <<>> /\ shown' = Cleared("") /\ probe' = Raced /\ UNCHANGED peer /\ UNCHANGED events
  BY Zenon DEF Disconnected, NoLink, LostVars
<1>2. AreBytes(rx') /\ Spent'
  BY <1>1, NoBytes, Zenon DEF TInv, Spent
<1>3. Len(probe') = Len(probe)
  <2>1. probe' \in Seq(ProbeStates) /\ probe \in Seq(ProbeStates)
    BY <1>1, ProbeTypes DEF IInv, Types
  <2>2. DOMAIN probe' = DOMAIN probe
    BY <1>1 DEF Raced
  <2> QED
    BY <2>1, <2>2, SameLength
<1> QED
  BY <1>1, <1>2, <1>3, EarsCleared, Zenon DEF TInv

LEMMA TypedConnect ==
  ASSUME IInv, TInv, NEW d, Connect(d)
  PROVE  TInv'
<1>1. /\ rx' = <<>> /\ (\E model : shown' = Cleared(model)) /\ probe' = Append(Raced, NewProbe)
      /\ peer' = Append(peer, d) /\ Counts(1)
  BY Zenon DEF Connect, NoLink, ClearedAtConnect
<1>2. AreBytes(rx')
  BY <1>1, NoBytes, Zenon
<1>3. Spent'
  BY <1>1, SpentCounts DEF TInv
<1>4. Len(Raced) = Len(probe)
  <2>1. Raced \in Seq(ProbeStates) /\ probe \in Seq(ProbeStates)
    BY ProbeTypes DEF IInv, Types
  <2>2. DOMAIN Raced = DOMAIN probe
    BY DEF Raced
  <2> QED
    BY <2>1, <2>2, SameLength
<1>5. Len(probe') = Len(peer')
  <2>1. Raced \in Seq(ProbeStates) /\ NewProbe \in ProbeStates /\ peer \in Seq(Earbuds)
    BY ProbeTypes DEF IInv, Types
  <2>2. Len(probe) = Len(peer)
    BY DEF TInv
  <2> HIDE DEF Raced, NewProbe
  <2> QED
    BY <1>1, <1>4, <2>1, <2>2
<1> QED
  BY <1>1, <1>2, <1>3, <1>5, EarsCleared, Zenon DEF TInv

LEMMA TypedRead ==
  ASSUME IInv, RInv, TInv, Read
  PROVE  TInv'
<1>1. PICK read : /\ read = ReadPacket(Received) /\ link # 0
                  /\ (read.status = "packet" /\ Handle(read)) \/ Disconnected
  BY Zenon DEF Read
<1>2. ASSUME read.status = "packet", Handle(read) PROVE TInv'
  <2>1. PICK told, i, j : Handled(read, told, i, j)
    BY <1>1, <1>2, IsHandled
  <2>2. /\ UNCHANGED linkVars /\ ReadAt(rx, read, rx', i, j)
        /\ told = ParsePacket(read.pkt, Codename(shown.model))
        /\ shown'.earbuds = Updated(shown.earbuds, told.Earbuds)
    BY <2>1, Zenon DEF Handled
  <2>3. UNCHANGED probe /\ UNCHANGED events
    BY <1>2 DEF Handle
  <2>4. AreBytes(rx')
    <3>1. rx \in Chunks(Nat)
      BY Zenon DEF RInv, WritesAreTrue, SoundWrites
    <3>2. \A m \in DOMAIN rx' : j + m \in DOMAIN rx /\ rx'[m] = rx[j + m]
      BY <2>2, <3>1, WhatIsLeft
    <3> QED
      BY <3>2, Zenon DEF TInv, AreBytes
  <2>5. HasEars(shown')
    <3> DEFINE new == shown'.earbuds
    <3>1. new = Updated(shown.earbuds, told.Earbuds)
      BY <2>2
    <3> HIDE DEF new
    <3>2. DOMAIN new = DOMAIN shown.earbuds \cup DOMAIN told.Earbuds
      BY <3>1, Zenon DEF Updated
    <3>3. DOMAIN told.Earbuds \subseteq {"left", "right"}
      BY <2>2, EarsTold
    <3>4. DOMAIN new \subseteq {"left", "right"}
      BY <3>2, <3>3 DEF TInv, HasEars
    <3> QED
      BY <3>4 DEF HasEars, new
  <2>6. Spent' /\ peer' = peer
    BY <2>2, <2>3 DEF TInv, Spent, linkVars
  <2> QED
    BY <2>3, <2>4, <2>5, <2>6, Zenon DEF TInv
<1> QED
  BY <1>1, <1>2, TypedDisconnected

LEMMA TypedProbeStep ==
  ASSUME IInv, RInv, TInv, NEW l, ProbeStep(l)
  PROVE  TInv'
<1>1. /\ UNCHANGED <<linkVars, rx>> /\ UNCHANGED events
      /\ UNCHANGED shown \/ \E pkt : Send(pkt)
      /\ \E p : probe' = [probe EXCEPT ![l] = p]
  <2>1. ProbeOn(l) => \E p : probe' = [probe EXCEPT ![l] = p]
    BY Zenon DEF ProbeOn
  <2>2. CASE ProbeSends(l)
    BY <2>1, <2>2, Zenon DEF ProbeSends, SendVars
  <2>3. CASE ProbeSkips(l)
    BY <2>1, <2>3, Zenon DEF ProbeSkips, sessionVars
  <2>4. CASE ProbeStops(l)
    BY <2>4, Zenon DEF ProbeStops, sessionVars
  <2> QED
    BY <2>2, <2>3, <2>4, Zenon DEF ProbeStep
<1>2. DOMAIN probe' = DOMAIN probe
  BY <1>1
<1>3. probe' \in Seq(ProbeStates) /\ probe \in Seq(ProbeStates)
  <2>1. IInv'
    BY KeepProbeStep, Zenon DEF ProbeStep
  <2> QED
    BY <2>1 DEF IInv, Types
<1>4. Len(probe') = Len(probe)
  BY <1>2, <1>3, SameLength
<1>5. Spent'
  BY <1>1 DEF TInv, Spent
<1> QED
  BY <1>1, <1>4, <1>5, TypedSends

LEMMA TypedPoll ==
  ASSUME RInv, TInv, Poll
  PROVE  TInv'
<1> DEFINE pkt == Packet(\hC007, <<>>)
<1>1. UNCHANGED <<linkVars, rx>> /\ UNCHANGED probe /\ Send(pkt) /\ Counts(2)
  BY DEF Poll, SendVars
<1> HIDE DEF pkt
<1>2. Spent'
  BY <1>1, SpentCounts DEF TInv
<1> QED
  BY <1>1, <1>2, TypedSends, Zenon

LEMMA TypedLater ==
  ASSUME RInv, TInv, NEW kind, Later(kind)
  PROVE  TInv'
<1>1. /\ UNCHANGED <<linkVars, rx>> /\ UNCHANGED probe /\ UNCHANGED events
      /\ UNCHANGED shown \/ \E pkt : Send(pkt)
  BY SMT DEF Later
<1>2. Spent'
  BY <1>1 DEF TInv, Spent
<1> QED
  BY <1>1, <1>2, TypedSends, Zenon

LEMMA TypedAsk ==
  ASSUME RInv, TInv, NEW a, Ask(a)
  PROVE  TInv'
<1>1. UNCHANGED <<linkVars, rx>> /\ UNCHANGED probe /\ UNCHANGED shown
  BY Zenon DEF Ask, sessionVars
<1>2. /\ a \in Asks /\ events.all + a.counts <= MaxEvents /\ events.asks < MaxAsks
      /\ events' = [all |-> events.all + a.counts, asks |-> events.asks + 1]
  BY Zenon DEF Ask
<1>3. a.counts \in Nat
  BY <1>2, AsksAssumption
<1>4. MaxEvents \in Nat /\ MaxAsks \in Nat
  BY RequestsAssumption
<1>5. Spent'
  BY <1>2, <1>3, <1>4 DEF TInv, Spent
<1> QED
  BY <1>1, <1>5, TypedSends, Zenon

LEMMA TypedJobStep ==
  ASSUME RInv, TInv, JobStep
  PROVE  TInv'
<1>1. /\ UNCHANGED <<linkVars, rx>> /\ UNCHANGED probe /\ UNCHANGED events
      /\ UNCHANGED shown \/ \E pkt : Send(pkt)
  <2>1. CASE SameConnection \/ DeviceCheck \/ Capture \/ Readback \/ Confirm \/ Get \/ Build
    <3>1. Quietly
      BY <2>1, Zenon DEF SameConnection, DeviceCheck, Capture, Readback, Confirm, Get, Build
    <3> QED
      BY <3>1, Zenon DEF Quietly, JobVars
  <2>2. CASE JobSends
    BY <2>2, Zenon DEF JobSends, JobVars
  <2> QED
    BY <2>1, <2>2, Zenon DEF JobStep
<1>2. Spent'
  BY <1>1 DEF TInv, Spent
<1> QED
  BY <1>1, <1>2, TypedSends, Zenon

LEMMA StepTyped == IInv /\ RInv /\ TInv /\ [Next]_vars => TInv'
<1> SUFFICES ASSUME IInv, RInv, TInv, [Next]_vars PROVE TInv'
  OBVIOUS
<1>1. ASSUME NEW d \in Earbuds, Connect(d) PROVE TInv'
  BY <1>1, TypedConnect, Zenon
<1>2. CASE Lose
  BY <1>2, TypedDisconnected, Zenon DEF Lose
<1>3. CASE Poll
  BY <1>3, TypedPoll
<1>4. CASE Read
  BY <1>4, TypedRead
<1>5. CASE Serve
  BY <1>5, TypedServe
<1>6. CASE JobStep
  BY <1>6, TypedJobStep
<1>7. ASSUME NEW l, ProbeStep(l) PROVE TInv'
  BY <1>7, TypedProbeStep
<1>8. ASSUME NEW kind, Later(kind) PROVE TInv'
  BY <1>8, TypedLater
<1>9. ASSUME NEW n,
             Changes(n) \/ BatteryChanges(n) \/ PeersChange(n) \/ SendsPacket(n) \/ SendsBytes(n)
      PROVE  TInv'
  BY <1>9, TypedNews, Zenon
<1>10. ASSUME NEW a, Ask(a) PROVE TInv'
  BY <1>10, TypedAsk
<1>11. CASE UNCHANGED vars
  <2>1. UNCHANGED <<linkVars, rx>> /\ UNCHANGED probe /\ UNCHANGED shown /\ UNCHANGED events
    BY <1>11, Zenon DEF vars, sessionVars
  <2>2. Spent'
    BY <2>1 DEF TInv, Spent
  <2> QED
    BY <2>1, <2>2, TypedSends, Zenon
<1> QED
  BY <1>1, <1>2, <1>3, <1>4, <1>5, <1>6, <1>7, <1>8, <1>9, <1>10, <1>11, Zenon DEF Next

LEMMA InvImpliesTypes == IInv /\ RInv /\ QInv /\ Careful /\ TInv => TypeOK
<1> SUFFICES ASSUME IInv, RInv, QInv, Careful, TInv PROVE TypeOK
  OBVIOUS
<1>1. peer \in Seq(Earbuds) /\ link \in {0, Len(peer)}
  BY DEF IInv, Types
<1>2. tx \in Seq(Packets)
  <2>1. PICK S : tx \in Seq(S) /\ \A pkt \in S : MayGo(pkt, Device)
    BY Zenon DEF IInv, TrafficFits, IsTraffic
  <2>2. S \subseteq Packets
    BY <2>1, Zenon DEF MayGo
  <2> QED
    BY <2>1, <2>2
<1>3. rx \in Seq(Seq(Bytes))
  <2> DEFINE S == Seq(Nat)
             T == Seq(Bytes)
  <2>1. \A i \in DOMAIN rx : rx[i] \in T
    BY Zenon DEF TInv, AreBytes
  <2> HIDE DEF S, T
  <2>2. rx \in Seq(S)
    BY Zenon DEF RInv, WritesAreTrue, SoundWrites, Chunks, S
  <2>3. rx \in Seq(T)
    BY <2>1, <2>2
  <2> QED
    BY <2>3 DEF T
<1>4. shown.model \in {""} \cup {m.Codename : m \in knownModels}
  BY Zenon DEF IInv, Types, Models, Unknown
<1>5. DOMAIN shown.config = Features
  BY Zenon DEF RInv, ShownIsTrue, HasParts
<1>6. DOMAIN shown.batteries \subseteq {partNames[i] : i \in 1 .. 6} \cup {"id"}
  BY Zenon DEF QInv, Counted, AllParts, PartNames
<1>7. DOMAIN shown.earbuds \subseteq {"left", "right"}
  BY Zenon DEF TInv, HasEars
<1>8. Len(probe) = Len(peer) /\ \A l \in DOMAIN probe : probe[l].at \in 1 .. Len(probes) + 1
  <2>1. probe \in Seq(ProbeStates) /\ Len(probe) = Len(peer)
    BY DEF IInv, Types, TInv
  <2>2. \A l \in DOMAIN probe : probe[l] \in ProbeStates
    BY <2>1
  <2>3. \A l \in DOMAIN probe : probe[l].at \in 1 .. 12
    BY <2>2, Zenon DEF ProbeStates
  <2> QED
    BY <2>1, <2>3, ProbesCount
<1>9. later \in [{"features", "list"} -> Nat] /\ owed \subseteq Features \cup {"peers"}
  BY Zenon DEF QInv, Counted, Kinds
<1>10. job.link \in 0 .. Len(peer)
  BY Zenon DEF Careful
<1>11. events \in [all : 0 .. MaxEvents, asks : 0 .. MaxAsks]
  BY Zenon DEF TInv, Spent
<1> QED
  BY <1>1, <1>2, <1>3, <1>4, <1>5, <1>6, <1>7, <1>8, <1>9, <1>10, <1>11, Zenon DEF TypeOK

\* Each variable has its type, for any earbuds, requests and changes: what is under way are
\* packets of two-byte codes in the one direction and bytes in the other, through every
\* encoding of the firmware; the parts that are shown have a name, a connection has one
\* probe, and a job is of a connection that was made (session.go, livestate.go, parse_dispatch.go).
THEOREM TypeCorrect == Spec => []TypeOK
<1>1. Spec => []IInv
  BY Invariant
<1>2. Spec => []RInv
  BY <1>1, InitReported, StepReported, PTL DEF Spec
<1>3. Spec => []QInv
  BY <1>1, <1>2, InitQuiet, StepQuiet, PTL DEF Spec
<1>4. Spec => []Careful
  BY <1>1, <1>2, InitCareful, StepCareful, PTL DEF Spec
<1>5. Spec => []TInv
  BY <1>1, <1>2, InitTyped, StepTyped, PTL DEF Spec
<1> QED
  BY <1>1, <1>2, <1>3, <1>4, <1>5, InvImpliesTypes, PTL
=============================================================================
