--------------------------------- MODULE Spp ---------------------------------
(***************************************************************************)
(* The protocol of the earbuds (internal/spp): the models and commands it  *)
(* knows, how a request is built and checked, how packets are framed in    *)
(* the byte stream and what the session learns from one.  Everything here  *)
(* is a pure function; Requests puts it between the earbuds and the window.*)
(*                                                                         *)
(* A word of a command line and a label of a value are strings.  What may  *)
(* fail returns a set: the one result, or nothing.  A value is a tuple of  *)
(* labels, <<>> if there is none.  Summaries, warnings and the parsers     *)
(* whose result the session does not keep are left out.                    *)
(***************************************************************************)
EXTENDS Naturals, Sequences, SequencesExt

CONSTANTS
  MaxNoise,   \* bytes skipped in search of a packet (maxSOFScanBytes, 65536)
  MaxPayload  \* of an accepted packet (MaxPayloadLen, 4096)

ASSUME SppAssumption == MaxNoise \in Nat /\ MaxPayload \in 0 .. 65535

-----------------------------------------------------------------------------
(* The models, with what the program's choices depend on.                  *)

Model(codename, protocol, tier, source, features) ==
  [Codename |-> codename, Protocol |-> protocol, Tier |-> tier,
   BatteryCaseSource |-> source, Features |-> features]

DefaultModel == Model("", "", "", "case", {})

knownModels == {
  Model("EarOne", "EarOne", "A", "case", {"anc", "eq"}),
  Model("EarTwo", "EarTwo", "B", "case", {"anc", "eq", "dual"}),
  Model("EarTwos", "EarTwos", "B+", "case", {"anc", "eq", "spatial", "dual", "advance_eq"}),
  Model("EarThree", "EarTwos", "B+", "case", {"anc", "eq", "spatial", "dual", "advance_eq"}),
  Model("EarStick", "EarStick", "B-", "case", {"eq", "advance_eq"}),
  Model("EarColor", "EarColor", "B", "case", {"anc", "eq", "spatial", "dual", "advance_eq"}),
  Model("Flaffy", "Flaffy", "B", "case", {"eq", "dual", "advance_eq"}),
  Model("Elekid", "Elekid", "C", "stereo", {"anc", "eq", "spatial", "dual"}),
  Model("Forretress", "Elekid", "C+", "stereo", {"anc", "eq", "spatial"}),
  Model("Crobat", "Crobat", "C", "stereo", {"anc", "eq", "spatial"}),
  Model("Donphan", "Donphan", "C", "case", {"eq"})}
    \cup {Model(m, m, "C", "case", {"anc", "eq", "spatial"}) :
            m \in {"Corsola", "Espeon", "Girafarig", "Gligar"}}
    \cup {Model(m, "unpublished", "C", "case", {"anc", "eq"}) :
            m \in {"Hitmontop", "Hoothoot", "Heracross"}}

micFeatures == {"super-mic", "walkie-talkie"}

ModelSupportsFeature(model, feature) ==
  IF feature \in micFeatures
    THEN model.Codename = "EarThree"
    ELSE model.Codename = "" \/ feature = "lag" \/ feature \in model.Features

-----------------------------------------------------------------------------
(* The commands.  The first hexadecimal digit is the kind of a packet.     *)

Kind(cmd) == cmd \div 4096

IsQuery(cmd) == cmd \in \hC000 .. \hCFFF

ResponseCmd(cmd) == cmd % 32768

SafeSets == {\hF002, \hF00F, \hF010, \hF01A, \hF01B, \hF040, \hF052, \hF05F, \hF061}

UnsafeCommands == {\hF03D, \hFC01, \hFC02, \hFC06, \hFC07, \hFC08}

\* The catalogued SETs that are not of the two sets above.
OtherSets ==
  {\hF001, \hF003, \hF004, \hF007, \hF008, \hF00A, \hF00B, \hF00D, \hF00E, \hF03E, \hF03F,
   \hF041, \hF042, \hF044, \hF045, \hF046, \hF062}
    \cup (\hF011 .. \hF019) \cup {\hF01C, \hF01D} \cup (\hF04F .. \hF051) \cup {\hF053}
    \cup (\hF057 .. \hF05B)

CommandInfoFor(cmd) ==
  [set |-> cmd \in SafeSets \cup OtherSets \cup {\hF03D},
   safe |-> cmd \in SafeSets, unsafe |-> cmd \in UnsafeCommands]

micQueries == {\hC05E, \hC060}
micCommands == micQueries \cup {\hF05F, \hF061}

MaxScanCommands == 32

\* The delay between the queries, at least 200 ms, is left out.
ValidateScanRange(first, last) ==
  /\ first <= last /\ last - first + 1 <= MaxScanCommands
  /\ \A cmd \in first .. last : IsQuery(cmd)

-----------------------------------------------------------------------------
(* Requests.                                                               *)

Packet(cmd, payload) == [cmd |-> cmd, payload |-> payload]

ValidateMicCommand(pkt, model) ==
  /\ model.Codename = "EarThree"
  /\ IF pkt.cmd \in micQueries THEN pkt.payload = <<>> ELSE pkt.payload \in {<<0>>, <<1>>}

parseBoolByte(word) ==
  CASE word \in {"1", "on", "true", "yes", "enable", "enabled"} -> {1}
    [] word \in {"0", "off", "false", "no", "disable", "disabled"} -> {0}
    [] OTHER -> {}

\* The numbers that a mode may have, in words.
parseByteValue(word) ==
  LET words == <<"0", "1", "2", "3", "4", "5", "6", "7">>
      high == <<"252", "253", "254", "255">>
  IN {i - 1 : i \in {n \in 1 .. 8 : words[n] = word}}
       \cup {i + 251 : i \in {n \in 1 .. 4 : high[n] = word}}

ancOffModeValue(model) ==
  IF \/ model.Protocol \in {"EarTwos", "EarColor", "Girafarig", "Gligar", "Espeon", "Corsola",
                            "Crobat", "Elekid"}
     \/ model.Tier \in {"B+", "C", "C+"}
    THEN 5 ELSE 0

ParseANCModeArg(word) ==
  CASE word = "strong" -> {1}
    [] word = "medium" -> {2}
    [] word = "weak" -> {3}
    [] word \in {"smart", "adaptive"} -> {4}
    [] word = "smart1" -> {253}
    [] word = "smart2" -> {252}
    [] word \in {"transparency", "transparent", "pass_through", "passthrough"} -> {7}
    [] word = "comfortable" -> {255}
    [] OTHER -> parseByteValue(word) \ {6}

BuildANCSetPayload(model, words) ==
  IF Len(words) # 1 THEN {}
  ELSE {<<1, v, 0>> : v \in IF words[1] \in {"off", "close"} THEN {ancOffModeValue(model)}
                                                             ELSE ParseANCModeArg(words[1])}

MaxEQMode(model) == IF ModelSupportsFeature(model, "advance_eq") THEN 7 ELSE 3

BuildEQSetPayload(model, words) ==
  IF Len(words) # 1 THEN {}
  ELSE {<<v>> : v \in {w \in parseByteValue(words[1]) : w <= MaxEQMode(model)}}

buildSpatialSetPayload(words) ==
  CASE Len(words) = 1 -> {<<b>> : b \in parseBoolByte(words[1])}
    [] Len(words) = 2 -> parseBoolByte(words[1]) \X parseBoolByte(words[2])
    [] OTHER -> {}

buildLagSetPayload(words) ==
  IF Len(words) # 1 THEN {}
  ELSE {<<IF b = 1 THEN 1 ELSE 2>> : b \in parseBoolByte(words[1])}

buildDualSetPayload(words) ==
  IF Len(words) # 1 THEN {} ELSE {<<b>> : b \in parseBoolByte(words[1])}

buildMicPayload(model, words) ==
  IF Len(words) # 1 THEN {}
  ELSE {<<b>> : b \in {c \in parseBoolByte(words[1]) :
                         ValidateMicCommand(Packet(\hF061, <<c>>), model)}}

FeatureCommand(get, getPayload, set) == [get |-> Packet(get, getPayload), set |-> set]

featureCommands == [f \in {"anc", "eq", "spatial", "lag", "dual"} \cup micFeatures |->
  CASE f = "anc" -> FeatureCommand(\hC01E, <<3>>, \hF00F)
    [] f = "eq" -> FeatureCommand(\hC01F, <<>>, \hF010)
    [] f = "spatial" -> FeatureCommand(\hC04F, <<>>, \hF052)
    [] f = "lag" -> FeatureCommand(\hC041, <<>>, \hF040)
    [] f = "dual" -> FeatureCommand(\hC027, <<>>, \hF01A)
    [] f = "super-mic" -> FeatureCommand(\hC05E, <<>>, \hF05F)
    [] f = "walkie-talkie" -> FeatureCommand(\hC060, <<>>, \hF061)]

BuildSetPayload(f, model, words) ==
  CASE f = "anc" -> BuildANCSetPayload(model, words)
    [] f = "eq" -> BuildEQSetPayload(model, words)
    [] f = "spatial" -> buildSpatialSetPayload(words)
    [] f = "lag" -> buildLagSetPayload(words)
    [] f = "dual" -> buildDualSetPayload(words)
    [] OTHER -> buildMicPayload(model, words)

listPacket == Packet(\hC028, <<0>>)

\* The word for a peer is its number, which stands for the six bytes of its address.
ParseDualMAC(word) == parseByteValue(word)

BuildDualConnectPayload(connect, word) ==
  {<<IF connect THEN 1 ELSE 0, b, b, b, b, b, b>> : b \in ParseDualMAC(word)}

buildFeatureDualConnectPacket(connect, word) ==
  {Packet(\hF01B, p) : p \in BuildDualConnectPayload(connect, word)}

buildFeatureSetPacket(f, model, args) ==
  {Packet(featureCommands[f].set, p) : p \in BuildSetPayload(f, model, args)}

\* Every feature has SafeSet, so that --unsafe makes no difference here.
FeatureCommandPacket(words, model) ==
  LET f == words[1]
      action == IF Len(words) = 1 THEN "get" ELSE words[2]
      args == IF Len(words) = 1 THEN <<>> ELSE SubSeq(words, 3, Len(words))
  IN IF f \notin DOMAIN featureCommands THEN {}
     ELSE CASE action = "get" /\ args = <<>> -> {featureCommands[f].get}
            [] action = "list" /\ args = <<>> /\ f = "dual" -> {listPacket}
            [] action \in {"connect", "disconnect"} /\ f = "dual" /\ Len(args) = 1 ->
                 buildFeatureDualConnectPacket(action = "connect", args[1])
            [] action = "set" /\ model.Codename # "" ->
                 buildFeatureSetPacket(f, model, args)
            [] OTHER -> {}

=============================================================================
