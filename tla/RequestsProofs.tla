--------------------------- MODULE RequestsProofs ---------------------------
(* What TLAPS proves about Requests: whoever asks, and however connections *)
(* and jobs interleave, the earbuds get only packets they may be sent.     *)
EXTENDS Requests, TLAPS

-----------------------------------------------------------------------------
(* The commands.                                                           *)

\* What the session lets through of what is offered.
Allowed(cmd) ==
  /\ cmd \notin UnsafeCommands
  /\ IsQuery(cmd) \/ cmd \in SafeSets \/ (AllowUnsafe /\ cmd \in OtherSets)

CatalogSets == SafeSets \cup OtherSets \cup {\hF03D}

LEMMA InfoFields ==
  ASSUME NEW cmd
  PROVE  /\ CommandInfoFor(cmd).unsafe = (cmd \in UnsafeCommands)
         /\ CommandInfoFor(cmd).set = (cmd \in CatalogSets)
         /\ CommandInfoFor(cmd).safe = (cmd \in SafeSets)
BY SMT DEF CommandInfoFor, CatalogSets

LEMMA AuthorizedIsAllowed ==
  ASSUME NEW cmd, Offered(cmd), authorizeCommand(cmd)
  PROVE  Allowed(cmd)
<1>1. cmd \notin UnsafeCommands
  BY InfoFields, Zenon DEF authorizeCommand
<1>2. cmd \in CatalogSets => cmd \in SafeSets \/ AllowUnsafe
  BY InfoFields, Zenon DEF authorizeCommand
<1>3. IsQuery(cmd) \/ cmd \in CatalogSets \/ cmd \in UnsafeCommands
  BY InfoFields, Zenon DEF Offered
<1>4. CatalogSets \subseteq SafeSets \cup OtherSets \cup UnsafeCommands
  BY DEF CatalogSets, UnsafeCommands
<1> QED
  BY <1>1, <1>2, <1>3, <1>4, Zenon DEF Allowed

LEMMA QueriesAreOffered ==
  \A cmd \in {\hC001, \hC042, \hC005, \hC007, \hC00A, \hC00D, \hC028, \hC01E, \hC01F, \hC04F, \hC041,
              \hC027, \hC05E, \hC060} : IsQuery(cmd)
BY DEF IsQuery, Kind

LEMMA SafeSetsAreOffered == \A cmd \in SafeSets : Offered(cmd)
<1>1. SafeSets \subseteq CatalogSets
  BY DEF CatalogSets
<1> QED
  BY <1>1, InfoFields, Zenon DEF Offered

LEMMA OfferedAreCodes ==
  ASSUME NEW cmd, Offered(cmd)
  PROVE  cmd \in Codes
<1>1. IsQuery(cmd) \/ cmd \in CatalogSets \/ cmd \in UnsafeCommands
  BY InfoFields, Zenon DEF Offered
<1>2. IsQuery(cmd) => cmd \in Codes
  BY DEF IsQuery, Codes
<1>3. CatalogSets \subseteq Codes /\ UnsafeCommands \subseteq Codes
  BY DEF CatalogSets, SafeSets, OtherSets, UnsafeCommands, Codes
<1> QED
  BY <1>1, <1>2, <1>3

\* What may be sent: a packet whose command is offered.
Fits(pkt) == Offered(pkt.cmd) /\ pkt \in Packets

LEMMA OfferedFits ==
  ASSUME NEW cmd, Offered(cmd), NEW p \in Seq(Bytes)
  PROVE  Fits(Packet(cmd, p)) /\ Packet(cmd, p).cmd = cmd
<1>1. cmd \in Codes
  BY OfferedAreCodes
<1>2. Packet(cmd, p) \in Packets /\ Packet(cmd, p).cmd = cmd
  BY <1>1 DEF Packet, Packets
<1> QED
  BY <1>2, Zenon DEF Fits

LEMMA WordBytes ==
  ASSUME NEW word
  PROVE  parseBoolByte(word) \subseteq Bytes /\ parseByteValue(word) \subseteq Bytes
<1>1. parseBoolByte(word) \subseteq Bytes
  BY DEF parseBoolByte, Bytes
<1>2. parseByteValue(word) \subseteq Bytes
  <2>1. (\A i \in 1 .. 8 : i - 1 \in Bytes) /\ \A i \in 1 .. 4 : i + 251 \in Bytes
    BY DEF Bytes
  <2> QED
    BY <2>1, Zenon DEF parseByteValue
<1> QED
  BY <1>1, <1>2

\* What a SET of a feature carries are bytes, whatever the words.
LEMMA SetPayloads ==
  ASSUME NEW f, NEW model, NEW words
  PROVE  BuildSetPayload(f, model, words) \subseteq Seq(Bytes)
<1>1. \A a \in Bytes : <<a>> \in Seq(Bytes) /\ \A b \in Bytes : <<a, b>> \in Seq(Bytes) /\ <<1, a, 0>> \in Seq(Bytes)
  BY DEF Bytes
<1>2. BuildANCSetPayload(model, words) \subseteq Seq(Bytes)
  <2>1. ancOffModeValue(model) \in Bytes
    BY DEF ancOffModeValue, Bytes
  <2>2. ParseANCModeArg(words[1]) \subseteq Bytes
    <3>1. parseByteValue(words[1]) \ {6} \subseteq Bytes
      BY WordBytes
    <3>2. {1} \subseteq Bytes /\ {2} \subseteq Bytes /\ {3} \subseteq Bytes /\ {4} \subseteq Bytes
          /\ {253} \subseteq Bytes /\ {252} \subseteq Bytes /\ {7} \subseteq Bytes /\ {255} \subseteq Bytes
      BY DEF Bytes
    <3> QED
      BY <3>1, <3>2, Zenon DEF ParseANCModeArg
  <2> QED
    BY <1>1, <2>1, <2>2, Zenon DEF BuildANCSetPayload
<1>3. BuildEQSetPayload(model, words) \subseteq Seq(Bytes)
  BY <1>1, WordBytes, Zenon DEF BuildEQSetPayload
<1>4. buildSpatialSetPayload(words) \subseteq Seq(Bytes)
  <2>1. {<<b>> : b \in parseBoolByte(words[1])} \subseteq Seq(Bytes)
    BY <1>1, WordBytes, Zenon
  <2>2. parseBoolByte(words[1]) \X parseBoolByte(words[2]) \subseteq Seq(Bytes)
    <3> DEFINE A == parseBoolByte(words[1])
               B == parseBoolByte(words[2])
    <3>1. A \subseteq Bytes /\ B \subseteq Bytes
      BY WordBytes
    <3> HIDE DEF A, B
    <3>2. ASSUME NEW x \in A \X B PROVE x \in Seq(Bytes)
      <4>1. PICK a \in A, b \in B : x = <<a, b>>
        OBVIOUS
      <4> QED
        BY <1>1, <3>1, <4>1, Zenon
    <3> QED
      BY <3>2, Zenon DEF A, B
  <2> QED
    BY <2>1, <2>2, Zenon DEF buildSpatialSetPayload
<1>5. buildLagSetPayload(words) \subseteq Seq(Bytes)
  <2>1. 1 \in Bytes /\ 2 \in Bytes
    BY DEF Bytes
  <2> QED
    BY <1>1, <2>1, Zenon DEF buildLagSetPayload
<1>6. buildDualSetPayload(words) \subseteq Seq(Bytes)
  BY <1>1, WordBytes, Zenon DEF buildDualSetPayload
<1>7. buildMicPayload(model, words) \subseteq Seq(Bytes)
  <2>1. ASSUME NEW p \in buildMicPayload(model, words)
        PROVE  \E b \in parseBoolByte(words[1]) : p = <<b>>
    <3> DEFINE valid(c) == ValidateMicCommand(Packet(\hF061, <<c>>), model)
               B == parseBoolByte(words[1])
    <3>1. buildMicPayload(model, words) \subseteq {<<b>> : b \in {c \in B : valid(c)}}
      BY SMT DEF buildMicPayload
    <3> HIDE DEF valid
    <3> QED
      BY <2>1, <3>1, Zenon
  <2> QED
    BY <1>1, <2>1, WordBytes, Zenon
<1> QED
  BY <1>2, <1>3, <1>4, <1>5, <1>6, <1>7, Zenon DEF BuildSetPayload

LEMMA DualPayloads ==
  ASSUME NEW connect, NEW word
  PROVE  BuildDualConnectPayload(connect, word) \subseteq Seq(Bytes)
<1>1. \A a, b \in Bytes : <<a, b, b, b, b, b, b>> \in Seq(Bytes)
  OBVIOUS
<1>2. 0 \in Bytes /\ 1 \in Bytes
  BY DEF Bytes
<1> QED
  BY <1>1, <1>2, WordBytes, Zenon DEF BuildDualConnectPayload, ParseDualMAC

LEMMA QueryFits ==
  ASSUME NEW cmd, IsQuery(cmd), NEW p \in Seq(Bytes)
  PROVE  Fits(Packet(cmd, p)) /\ Packet(cmd, p).cmd = cmd
BY OfferedFits, Zenon DEF Offered

LEMMA ShortPayloads == <<>> \in Seq(Bytes) /\ <<0>> \in Seq(Bytes) /\ <<3>> \in Seq(Bytes)
BY DEF Bytes

\* A packet of a feature is a query or a SET known to be safe, whatever the words.
LEMMA FeaturePackets ==
  ASSUME NEW words, NEW model, NEW pkt \in FeatureCommandPacket(words, model)
  PROVE  Fits(pkt)
<1>1. /\ words[1] \in DOMAIN featureCommands
      /\ \/ pkt = featureCommands[words[1]].get
         \/ pkt = listPacket
         \/ \E connect, word : pkt \in buildFeatureDualConnectPacket(connect, word)
         \/ \E args : pkt \in buildFeatureSetPacket(words[1], model, args)
  BY Zenon DEF FeatureCommandPacket
<1> DEFINE f == words[1]
<1>2. /\ IsQuery(featureCommands[f].get.cmd) /\ featureCommands[f].set \in SafeSets
      /\ \E p \in {<<>>, <<3>>} : featureCommands[f].get = Packet(featureCommands[f].get.cmd, p)
  <2>1. f \in {"anc", "eq", "spatial", "lag", "dual", "super-mic", "walkie-talkie"}
    BY <1>1 DEF featureCommands, micFeatures
  <2> HIDE DEF f
  <2> QED
    BY <2>1, QueriesAreOffered DEF featureCommands, FeatureCommand, Packet, SafeSets, micFeatures
<1>3. CASE pkt = featureCommands[f].get
  <2>1. PICK p \in {<<>>, <<3>>} : pkt = Packet(featureCommands[f].get.cmd, p)
    BY <1>2, <1>3
  <2>2. p \in Seq(Bytes) /\ Offered(featureCommands[f].get.cmd)
    BY <1>2, ShortPayloads, Zenon DEF Offered
  <2> QED
    BY <2>1, <2>2, OfferedFits, Zenon
<1>4. CASE pkt = listPacket
  <2> DEFINE cmd == \hC028
  <2>1. IsQuery(cmd) /\ pkt = Packet(cmd, <<0>>)
    BY <1>4, QueriesAreOffered DEF listPacket
  <2> HIDE DEF cmd
  <2> QED
    BY <2>1, ShortPayloads, QueryFits, Zenon
<1>5. CASE \E connect, word : pkt \in buildFeatureDualConnectPacket(connect, word)
  <2> DEFINE cmd == \hF01B
  <2>1. PICK connect, word : pkt \in {Packet(cmd, p) : p \in BuildDualConnectPayload(connect, word)}
    BY <1>5 DEF buildFeatureDualConnectPacket
  <2>2. cmd \in SafeSets
    BY DEF SafeSets
  <2> HIDE DEF cmd
  <2>3. \E p \in Seq(Bytes) : pkt = Packet(cmd, p)
    BY <2>1, DualPayloads, Zenon
  <2> QED
    BY <2>2, <2>3, SafeSetsAreOffered, OfferedFits, Zenon
<1>6. CASE \E args : pkt \in buildFeatureSetPacket(f, model, args)
  <2>1. \E p \in Seq(Bytes) : pkt = Packet(featureCommands[f].set, p)
    BY <1>6, SetPayloads, Zenon DEF buildFeatureSetPacket
  <2> QED
    BY <1>2, <2>1, SafeSetsAreOffered, OfferedFits, Zenon
<1> QED
  BY <1>1, <1>3, <1>4, <1>5, <1>6

\* A range that may be scanned holds queries.
LEMMA ScansAreOffered ==
  ASSUME NEW first \in Nat, NEW last \in Nat, ValidateScanRange(first, last),
         NEW cmd \in first .. last
  PROVE  Offered(cmd)
BY DEF ValidateScanRange, Offered

IsProbe(x) == Fits(x.pkt) /\ IsQuery(x.pkt.cmd)

LEMMA QueryIsProbe ==
  ASSUME NEW f, NEW cmd, IsQuery(cmd), NEW p \in Seq(Bytes)
  PROVE  IsProbe(Probe(f, cmd, p))
<1>1. Fits(Packet(cmd, p)) /\ Packet(cmd, p).cmd = cmd
  BY QueryFits
<1>2. Probe(f, cmd, p).pkt = Packet(cmd, p)
  BY DEF Probe
<1> QED
  BY <1>1, <1>2, Zenon DEF IsProbe

LEMMA ProbesAsk == \A n \in 1 .. 11 : IsProbe(probes[n])
<1> DEFINE any == ""
           cmds == {\hC001, \hC042, \hC005, \hC007, \hC00A, \hC05E, \hC060, \hC01E, \hC041, \hC027,
                    \hC028}
<1>1. \A f : \A p \in {<<>>, <<0>>} : \A cmd \in cmds : IsProbe(Probe(f, cmd, p))
  <2>1. \A cmd \in cmds : IsQuery(cmd)
    BY QueriesAreOffered
  <2> HIDE DEF cmds
  <2> QED
    BY <2>1, ShortPayloads, QueryIsProbe, Zenon
<1>2. probes = <<
        Probe(any, \hC001, <<>>), Probe(any, \hC042, <<>>), Probe(any, \hC005, <<>>),
        Probe(any, \hC007, <<>>), Probe(any, \hC00A, <<>>),
        Probe("super-mic", \hC05E, <<>>), Probe("walkie-talkie", \hC060, <<>>),
        Probe("anc", \hC01E, <<>>), Probe("lag", \hC041, <<>>),
        Probe("dual", \hC027, <<>>), Probe("dual", \hC028, <<0>>)>>
  BY DEF probes
<1> HIDE DEF any
<1> QED
  BY <1>1, <1>2

\* The model of a codename has it.
LEMMA CodenameOfModel ==
  ASSUME NEW c \in {""} \cup {m.Codename : m \in knownModels}
  PROVE  Codename(c).Codename = c
<1>1. CASE c = ""
  BY <1>1 DEF Codename, DefaultModel, Model
<1>2. CASE c # ""
  <2>1. \E m \in knownModels : m.Codename = c
    BY <1>2
  <2> QED
    BY <1>2, <2>1, Zenon DEF Codename
<1> QED
  BY <1>1, <1>2

-----------------------------------------------------------------------------
(* The programs of jobs, and the packets under way.                        *)

\* A step sends at once only what is offered.
Goes(step) == step.do = "send" => Fits(step.pkt)

IsProgram(todo) == \E S : todo \in Seq(S) /\ \A step \in S : Goes(step)

MayGo(pkt, d) ==
  pkt \in Packets /\ Allowed(pkt.cmd) /\ (pkt.cmd \in micCommands => ModelOf[d] = "EarThree")

IsTraffic(packets, d) == \E S : packets \in Seq(S) /\ \A pkt \in S : MayGo(pkt, d)

LEMMA ProgramOver ==
  ASSUME NEW S, NEW todo \in Seq(S), \A step \in S : Goes(step)
  PROVE  IsProgram(todo)
BY Zenon DEF IsProgram

LEMMA TrafficOver ==
  ASSUME NEW S, NEW packets \in Seq(S), NEW d, \A pkt \in S : MayGo(pkt, d)
  PROVE  IsTraffic(packets, d)
BY Zenon DEF IsTraffic

LEMMA OneStep ==
  ASSUME NEW step, Goes(step)
  PROVE  IsProgram(<<step>>)
<1> DEFINE S == {step}
<1>1. <<step>> \in Seq(S) /\ \A x \in S : Goes(x)
  OBVIOUS
<1> HIDE DEF S
<1> QED
  BY <1>1, ProgramOver

LEMMA Joined ==
  ASSUME NEW a, NEW b, IsProgram(a), IsProgram(b)
  PROVE  IsProgram(a \o b)
<1>1. PICK S : a \in Seq(S) /\ \A step \in S : Goes(step)
  BY Zenon DEF IsProgram
<1>2. PICK T : b \in Seq(T) /\ \A step \in T : Goes(step)
  BY Zenon DEF IsProgram
<1>3. a \o b \in Seq(S \cup T) /\ \A step \in S \cup T : Goes(step)
  BY <1>1, <1>2
<1> QED
  BY <1>3, Zenon DEF IsProgram

LEMMA NoSteps == IsProgram(<<>>)
<1> DEFINE S == {}
<1>1. <<>> \in Seq(S)
  OBVIOUS
<1>2. \A step \in S : Goes(step)
  OBVIOUS
<1> HIDE DEF S
<1> QED
  BY <1>1, <1>2, ProgramOver

LEMMA TailOfProgram ==
  ASSUME NEW a, IsProgram(a), a # <<>>
  PROVE  IsProgram(Tail(a)) /\ Goes(Head(a)) 
<1>1. PICK S : a \in Seq(S) /\ \A step \in S : Goes(step)
  BY Zenon DEF IsProgram
<1>2. Tail(a) \in Seq(S) /\ Head(a) \in S
  BY <1>1
<1> QED
  BY <1>1, <1>2, Zenon DEF IsProgram

LEMMA FirstReplaced ==
  ASSUME NEW a, IsProgram(a), NEW step, Goes(step)
  PROVE  IsProgram([a EXCEPT ![1] = step])
<1>1. PICK S : a \in Seq(S) /\ \A x \in S : Goes(x)
  BY Zenon DEF IsProgram
<1>2. [a EXCEPT ![1] = step] \in Seq(S \cup {step}) /\ \A x \in S \cup {step} : Goes(x)
  <2>1. \A x \in S \cup {step} : Goes(x)
    BY <1>1
  <2>2. a \in [1 .. Len(a) -> S] /\ Len(a) \in Nat
    BY <1>1
  <2>3. [a EXCEPT ![1] = step] \in [1 .. Len(a) -> S \cup {step}]
    BY <2>2
  <2> QED
    BY <2>1, <2>2, <2>3
<1> QED
  BY <1>2, Zenon DEF IsProgram

LEMMA TrafficServed ==
  ASSUME NEW packets, NEW d, IsTraffic(packets, d), packets # <<>>
  PROVE  IsTraffic(Tail(packets), d)
<1>1. PICK S : packets \in Seq(S) /\ \A pkt \in S : MayGo(pkt, d)
  BY Zenon DEF IsTraffic
<1>2. Tail(packets) \in Seq(S)
  BY <1>1
<1> QED
  BY <1>1, <1>2, Zenon DEF IsTraffic

LEMMA TrafficGrows ==
  ASSUME NEW packets, NEW d, IsTraffic(packets, d), NEW pkt, MayGo(pkt, d)
  PROVE  IsTraffic(Append(packets, pkt), d)
<1>1. PICK S : packets \in Seq(S) /\ \A x \in S : MayGo(x, d)
  BY Zenon DEF IsTraffic
<1>2. Append(packets, pkt) \in Seq(S \cup {pkt}) /\ \A x \in S \cup {pkt} : MayGo(x, d)
  BY <1>1
<1> QED
  BY <1>2, Zenon DEF IsTraffic

LEMMA NoTraffic == \A d : IsTraffic(<<>>, d)
<1> DEFINE S == {}
<1>1. <<>> \in Seq(S)
  OBVIOUS
<1>2. \A pkt \in S : \A d : MayGo(pkt, d)
  OBVIOUS
<1> HIDE DEF S
<1> QED
  BY <1>1, <1>2, TrafficOver

\* What users may ask for is made of steps that go.
LEMMA OtherSteps ==
  /\ \A words, pkt :
       \A do \in {"execute", "readback", "get", "confirm", "same", "capture", "device"} :
         Goes(Step(do, words, pkt))
  /\ \A cmd : Offered(cmd) => Goes(SendCommand(cmd))
<1>1. ASSUME NEW words, NEW pkt,
             NEW do \in {"execute", "readback", "get", "confirm", "same", "capture", "device"}
      PROVE  Goes(Step(do, words, pkt))
  BY SMT DEF Goes, Step
<1>2. ASSUME NEW cmd, Offered(cmd)
      PROVE  Goes(SendCommand(cmd))
  <2>1. Fits(Packet(cmd, <<>>))
    BY <1>2, ShortPayloads, OfferedFits, Zenon
  <2>2. SendCommand(cmd).pkt = Packet(cmd, <<>>)
    BY DEF SendCommand, Step
  <2> QED
    BY <2>1, <2>2, Zenon DEF Goes
<1> QED
  BY <1>1, <1>2, Zenon

LEMMA TwoSteps ==
  ASSUME NEW a, NEW b, Goes(a), Goes(b)
  PROVE  IsProgram(<<a, b>>)
<1> DEFINE S == {a, b}
<1>1. <<a, b>> \in Seq(S) /\ \A x \in S : Goes(x)
  OBVIOUS
<1> HIDE DEF S
<1> QED
  BY <1>1, ProgramOver

LEMMA ReadbackPrograms ==
  ASSUME NEW write, NEW read
  PROVE  IsProgram(executeAndReadback(write, read))
<1> DEFINE a == Execute(write)
           b == Step("readback", read, Packet(0, <<>>))
<1>1. Goes(a) /\ Goes(b)
  BY OtherSteps DEF Execute
<1>2. executeAndReadback(write, read) = <<a, b>>
  BY DEF executeAndReadback
<1> HIDE DEF a, b
<1> QED
  BY <1>1, <1>2, TwoSteps

LEMMA CheckPrograms ==
  IsProgram(<<Check("same")>>) /\ IsProgram(requireCapture)
<1>1. Goes(Check("same")) /\ Goes(Check("capture"))
  BY OtherSteps DEF Check
<1>2. IsProgram(<<Check("same")>>) /\ IsProgram(<<Check("capture")>>)
  BY <1>1, OneStep
<1>3. requireCapture = <<Check("same")>> \o <<Check("capture")>>
  BY DEF requireCapture
<1> QED
  BY <1>2, <1>3, Joined

LEMMA MicPrograms ==
  ASSUME NEW f, NEW value
  PROVE  IsProgram(writeMicMode(f, value))
<1>1. IsProgram(<<Step("confirm", <<f, value>>, Packet(0, <<>>))>>)
  BY OtherSteps, OneStep
<1>2. IsProgram(<<Check("same")>> \o executeAndReadback(<<f, "set", value>>, <<f, "get">>))
  BY CheckPrograms, ReadbackPrograms, Joined
<1> QED
  BY <1>1, <1>2, Joined, Zenon DEF writeMicMode

LEMMA FeaturePrograms ==
  ASSUME NEW f, NEW value
  PROVE  IsProgram(Feature(f, value))
<1>1. IsProgram(requireCapture \o writeMicMode("super-mic", "on"))
  BY CheckPrograms, MicPrograms, Joined
<1>2. IsProgram(requireCapture \o writeMicMode("super-mic", "on") \o requireCapture)
  BY <1>1, CheckPrograms, Joined
<1>3. IsProgram(WalkieTalkie(value))
  BY <1>2, NoSteps, MicPrograms, Joined, Zenon DEF WalkieTalkie
<1>4. IsProgram(<<Check("same")>> \o executeAndReadback(<<f, "set", value>>, <<f, "get">>))
  BY CheckPrograms, ReadbackPrograms, Joined
<1> QED
  BY <1>3, <1>4, Zenon DEF Feature

LEMMA RefreshProgram == IsProgram(Refresh)
<1> DEFINE words(i) == <<<<"anc", "eq", "lag", "spatial", "dual", "super-mic",
                           "walkie-talkie">>[i], "get">>
           get(i) == Step("get", words(i), Packet(0, <<>>))
           gets == [i \in 1 .. 7 |-> get(i)]
           wear == SendCommand(\hC00A)
           battery == SendCommand(\hC007)
           same == Check("same")
<1>1. IsProgram(<<same, wear, battery>>)
  <2>1. Goes(wear) /\ Goes(battery) /\ Goes(same)
    BY QueriesAreOffered, OtherSteps, SMT DEF Offered, Check
  <2> HIDE DEF wear, battery, same
  <2> DEFINE S == {same, wear, battery}
  <2>2. <<same, wear, battery>> \in Seq(S) /\ \A x \in S : Goes(x)
    BY <2>1
  <2> HIDE DEF S
  <2> QED
    BY <2>2, ProgramOver
<1>2. IsProgram(gets)
  <2> HIDE DEF words
  <2>1. \A i : Goes(get(i))
    BY OtherSteps
  <2> HIDE DEF get
  <2>2. gets \in Seq({get(i) : i \in 1 .. 7})
    OBVIOUS
  <2> HIDE DEF gets
  <2> QED
    BY <2>1, <2>2 DEF IsProgram
<1>3. Refresh = <<same, wear, battery>> \o gets
  BY DEF Refresh
<1> HIDE DEF same, wear, battery, gets
<1> QED
  BY <1>1, <1>2, <1>3, Joined

LEMMA PeersProgram == IsProgram(RefreshPeers)
<1> DEFINE list == Execute(<<"dual", "list">>)
<1>1. Goes(list)
  BY OtherSteps DEF Execute
<1>2. RefreshPeers = <<Check("same")>> \o <<list>>
  BY DEF RefreshPeers
<1> HIDE DEF list
<1> QED
  BY <1>1, <1>2, OneStep, CheckPrograms, Joined

LEMMA PeerPrograms ==
  ASSUME NEW d
  PROVE  IsProgram(DualPeer(d))
BY CheckPrograms, ReadbackPrograms, Joined, Zenon DEF DualPeer

LEMMA ScanPrograms ==
  ASSUME NEW first \in Nat, NEW last \in Nat
  PROVE  IsProgram(RunQueryScan(first, last))
<1>1. CASE ~ValidateScanRange(first, last)
  BY <1>1, NoSteps DEF RunQueryScan
<1>2. CASE ValidateScanRange(first, last)
  <2> DEFINE step(i) == IF i % 2 = 1 THEN Check("device") ELSE SendCommand(first + i \div 2 - 1)
             steps == [i \in 1 .. 2 * (last - first + 1) |-> step(i)]
  <2>1. first <= last
    BY <1>2 DEF ValidateScanRange
  <2>2. ASSUME NEW i \in 1 .. 2 * (last - first + 1)
        PROVE  Goes(step(i))
    <3>1. CASE i % 2 = 1
      BY <3>1, OtherSteps DEF Check
    <3>2. CASE i % 2 # 1
      <4>1. first + i \div 2 - 1 \in first .. last
        BY <2>1, <3>2
      <4> QED
        BY <1>2, <3>2, <4>1, ScansAreOffered, OtherSteps
    <3> QED
      BY <3>1, <3>2
  <2>3. RunQueryScan(first, last) = steps
    BY <1>2 DEF RunQueryScan
  <2> HIDE DEF step
  <2>4. steps \in Seq({step(i) : i \in 1 .. 2 * (last - first + 1)})
    BY <2>1
  <2> HIDE DEF steps
  <2> QED
    BY <2>2, <2>3, <2>4 DEF IsProgram
<1> QED
  BY <1>1, <1>2

LEMMA AskedPrograms ==
  ASSUME NEW a \in Asks, NEW todo \in Programs(a)
  PROVE  IsProgram(todo)
<1>1. a.what \in {"feature", "refresh", "peers", "peer", "scan", "command"}
  BY AsksAssumption
<1>2. CASE a.what = "feature"
  BY <1>2, FeaturePrograms DEF Programs
<1>3. CASE a.what = "refresh"
  BY <1>3, RefreshProgram DEF Programs
<1>4. CASE a.what = "peers"
  BY <1>4, PeersProgram DEF Programs
<1>5. CASE a.what = "peer"
  BY <1>5, PeerPrograms DEF Programs
<1>6. CASE a.what = "scan"
  <2>1. a.cmds[1] \in Nat /\ a.cmds[2] \in Nat
    BY <1>6, AsksAssumption
  <2> QED
    BY <1>6, <2>1, ScanPrograms DEF Programs
<1>7. CASE a.what = "command"
  <2>1. IsProgram(executeCatalogCommand(a.cmds[1]))
    BY <1>7, AsksAssumption, OtherSteps, OneStep DEF executeCatalogCommand
  <2> QED
    BY <1>7, <2>1 DEF Programs
<1> QED
  BY <1>1, <1>2, <1>3, <1>4, <1>5, <1>6, <1>7

-----------------------------------------------------------------------------
(* The inductive invariant.                                                *)

Unknown == ""

Models == {Unknown} \cup {m.Codename : m \in knownModels}

ProbeStates == [at : 1 .. 12, raced : BOOLEAN, model : Models]

Types ==
  /\ peer \in Seq(Earbuds) /\ link \in {0, Len(peer)}
  /\ "model" \in DOMAIN shown /\ shown.model \in Models
  /\ probe \in Seq(ProbeStates)

\* The session never takes the earbuds for another model than theirs.
ModelIsTheirs == link # 0 => shown.model \in {Unknown, ModelOf[Device]}

\* What is under way may be sent to the earbuds it goes to.
TrafficFits == IsTraffic(tx, Device) /\ (link = 0 => tx = <<>>)

\* What is left of a job sends only what is offered.
JobIsProgram == \E todo, l : job = [todo |-> todo, link |-> l] /\ IsProgram(todo)

IInv == Types /\ ModelIsTheirs /\ TrafficFits /\ JobIsProgram

LEMMA ProbesCount == Len(probes) = 11
<1> DEFINE any == ""
<1>1. probes = <<
        Probe(any, \hC001, <<>>), Probe(any, \hC042, <<>>), Probe(any, \hC005, <<>>),
        Probe(any, \hC007, <<>>), Probe(any, \hC00A, <<>>),
        Probe("super-mic", \hC05E, <<>>), Probe("walkie-talkie", \hC060, <<>>),
        Probe("anc", \hC01E, <<>>), Probe("lag", \hC041, <<>>),
        Probe("dual", \hC027, <<>>), Probe("dual", \hC028, <<0>>)>>
  BY DEF probes
<1> HIDE DEF any
<1> QED
  BY <1>1

LEMMA InitInv == Init => IInv
<1> SUFFICES ASSUME Init PROVE IInv
  OBVIOUS
<1>1. Types
  <2>1. shown.model = Unknown /\ "model" \in DOMAIN shown
    BY DEF Init, Cleared, Unknown
  <2>2. peer = <<>> /\ probe = <<>> /\ link = 0
    BY Zenon DEF Init
  <2>3. peer \in Seq(Earbuds) /\ link \in {0, Len(peer)} /\ probe \in Seq(ProbeStates)
    BY <2>2
  <2> QED
    BY <2>1, <2>3, Zenon DEF Types, Models
<1>2. ModelIsTheirs
  BY DEF Init, ModelIsTheirs
<1>3. TrafficFits
  BY NoTraffic DEF Init, TrafficFits
<1>4. JobIsProgram
  BY NoSteps, Zenon DEF Init, JobIsProgram, Idle
<1> QED
  BY <1>1, <1>2, <1>3, <1>4 DEF IInv

\* The earbuds stay the ones connected while no connection is made.
LEMMA DeviceStays == UNCHANGED linkVars => Device' = Device
BY DEF linkVars, Device

\* Whatever is sent fits, as the modes of the microphone are checked against a model
\* that is theirs.
LEMMA SendKeeps ==
  ASSUME IInv, NEW pkt, Fits(pkt), Send(pkt), UNCHANGED linkVars
  PROVE  /\ "model" \in DOMAIN shown' /\ shown'.model \in Models
         /\ ModelIsTheirs' /\ TrafficFits'
<1>1. Device' = Device /\ link' = link
  BY DeviceStays DEF linkVars
<1>2. CASE ~Sendable(pkt)
  BY <1>1, <1>2 DEF IInv, Types, ModelIsTheirs, TrafficFits, Send
<1>3. CASE Sendable(pkt)
  <2>1. shown' = [shown EXCEPT !.config = ForgetMicMode(@, pkt.cmd)] /\ tx' = Append(tx, pkt)
    BY <1>3 DEF Send
  <2>2. "model" \in DOMAIN shown' /\ shown'.model = shown.model
    BY <2>1 DEF IInv, Types
  <2>3. link # 0 /\ authorizeCommand(pkt.cmd)
    BY <1>3, Zenon DEF Sendable
  <2>4. pkt.cmd \in micCommands => ModelOf[Device] = "EarThree"
    <3> SUFFICES ASSUME pkt.cmd \in micCommands PROVE ModelOf[Device] = "EarThree"
      OBVIOUS
    <3>1. Codename(shown.model).Codename = "EarThree"
      BY <1>3, Zenon DEF Sendable, ValidateMicCommand
    <3>2. shown.model = "EarThree"
      BY <3>1, CodenameOfModel, Zenon DEF IInv, Types, Models, Unknown
    <3>3. Unknown # "EarThree"
      BY DEF Unknown
    <3> QED
      BY <2>3, <3>2, <3>3, Zenon DEF IInv, ModelIsTheirs
  <2>5. MayGo(pkt, Device)
    BY <2>3, <2>4, AuthorizedIsAllowed, Zenon DEF MayGo, Fits
  <2>6. TrafficFits'
    BY <1>1, <2>1, <2>3, <2>5, TrafficGrows, Zenon DEF IInv, TrafficFits
  <2>7. ModelIsTheirs'
    BY <1>1, <2>2, Zenon DEF IInv, ModelIsTheirs
  <2> QED
    BY <2>2, <2>6, <2>7, Zenon DEF IInv, Types
<1> QED
  BY <1>2, <1>3

LEMMA LinkUnchanged ==
  ASSUME IInv, UNCHANGED <<linkVars, tx, shown>>
  PROVE  /\ "model" \in DOMAIN shown' /\ shown'.model \in Models
         /\ ModelIsTheirs' /\ TrafficFits'
BY DeviceStays DEF IInv, Types, ModelIsTheirs, TrafficFits, linkVars

LEMMA ProbeTypes ==
  ASSUME IInv
  PROVE  /\ Raced \in Seq(ProbeStates) /\ NewProbe \in ProbeStates /\ Over \in ProbeStates
         /\ \A l \in DOMAIN probe : ~Ended(probe[l]) => probe[l].at \in 1 .. 11
         /\ \A l \in DOMAIN probe, p \in ProbeStates : [probe EXCEPT ![l] = p] \in Seq(ProbeStates)
<1>1. probe \in Seq(ProbeStates)
  BY DEF IInv, Types
<1>2. ASSUME NEW l \in DOMAIN probe
      PROVE  [probe[l] EXCEPT !.raced = ~Ended(probe[l]) /\ (@ \/ isCurrentDevice(l))] \in ProbeStates
  <2> DEFINE r == ~Ended(probe[l]) /\ (probe[l].raced \/ isCurrentDevice(l))
  <2>1. r \in BOOLEAN
    BY Zenon
  <2>2. probe[l] \in ProbeStates
    BY <1>1, <1>2
  <2> HIDE DEF r
  <2>3. [probe[l] EXCEPT !.raced = r] \in ProbeStates
    BY <2>1, <2>2 DEF ProbeStates
  <2> QED
    BY <2>3 DEF r
<1>3. Raced \in Seq(ProbeStates)
  <2>1. Raced \in [DOMAIN probe -> ProbeStates]
    BY <1>2, Zenon DEF Raced
  <2>2. DOMAIN probe = 1 .. Len(probe) /\ Len(probe) \in Nat
    BY <1>1
  <2> HIDE DEF Raced
  <2> QED
    BY <2>1, <2>2
<1>4. NewProbe \in ProbeStates /\ Over \in ProbeStates
  <2>1. NewProbe = [at |-> 1, raced |-> FALSE, model |-> Unknown]
    BY DEF NewProbe, Unknown
  <2>2. Over = [at |-> 12, raced |-> FALSE, model |-> Unknown]
    BY ProbesCount DEF Over, Unknown
  <2> QED
    BY <2>1, <2>2 DEF ProbeStates, Models
<1>5. \A l \in DOMAIN probe : ~Ended(probe[l]) => probe[l].at \in 1 .. 11
  <2> TAKE l \in DOMAIN probe
  <2>1. probe[l] \in ProbeStates
    BY <1>1
  <2>2. probe[l].at \in 1 .. 12
    BY <2>1 DEF ProbeStates
  <2>3. Ended(probe[l]) <=> probe[l].at > 11
    BY ProbesCount DEF Ended
  <2> QED
    BY <2>2, <2>3
<1>6. ASSUME NEW l \in DOMAIN probe, NEW p \in ProbeStates
      PROVE  [probe EXCEPT ![l] = p] \in Seq(ProbeStates)
  <2> DEFINE q == [probe EXCEPT ![l] = p]
  <2>1. probe \in [1 .. Len(probe) -> ProbeStates] /\ Len(probe) \in Nat
    BY <1>1
  <2>2. q \in [1 .. Len(probe) -> ProbeStates]
    BY <2>1
  <2> HIDE DEF q
  <2>3. q \in Seq(ProbeStates)
    BY <2>1, <2>2
  <2> QED
    BY <2>3 DEF q
<1> QED
  BY <1>3, <1>4, <1>5, <1>6, Zenon

LEMMA ProbeGoesOnTyped ==
  ASSUME IInv, NEW l \in DOMAIN probe, ~Ended(probe[l]), ProbeOn(l)
  PROVE  probe' \in Seq(ProbeStates)
<1> DEFINE at == probe[l].at + 1
           model == IF at = FirstConfig THEN shown.model ELSE probe[l].model
           p == [at |-> at, raced |-> FALSE, model |-> model]
<1>1. at \in 1 .. 12
  <2>1. probe[l].at \in 1 .. 11
    BY ProbeTypes
  <2> QED
    BY <2>1
<1>2. model \in Models
  <2>1. probe[l] \in ProbeStates
    BY DEF IInv, Types
  <2>2. probe[l].model \in Models
    BY <2>1 DEF ProbeStates
  <2> QED
    BY <2>2, Zenon DEF IInv, Types
<1>3. probe' = [probe EXCEPT ![l] = p]
  BY Zenon DEF ProbeOn
<1> HIDE DEF at, model
<1>4. p \in ProbeStates
  BY <1>1, <1>2 DEF ProbeStates
<1> QED
  BY <1>3, <1>4, ProbeTypes, Zenon

-----------------------------------------------------------------------------
(* The steps.                                                              *)

\* A step that touches none of what the invariant is about.
LEMMA KeepRest ==
  ASSUME IInv, UNCHANGED <<linkVars, tx, shown, probe, job>>
  PROVE  IInv'
<1>1. Types'
  BY DEF IInv, Types, linkVars
<1>2. ModelIsTheirs' /\ TrafficFits'
  BY LinkUnchanged
<1>3. JobIsProgram'
  BY Zenon DEF IInv, JobIsProgram
<1> QED
  BY <1>1, <1>2, <1>3 DEF IInv

\* A step that sends, of a prober, the polling, a delayed query or a job.
LEMMA KeepSending ==
  ASSUME IInv, UNCHANGED linkVars, probe' \in Seq(ProbeStates), JobIsProgram',
         \/ UNCHANGED <<tx, shown>>
         \/ \E pkt : Fits(pkt) /\ Send(pkt)
  PROVE  IInv'
<1>1. /\ "model" \in DOMAIN shown' /\ shown'.model \in Models
      /\ ModelIsTheirs' /\ TrafficFits'
  <2>1. CASE UNCHANGED <<tx, shown>>
    BY <2>1, LinkUnchanged
  <2>2. CASE \E pkt : Fits(pkt) /\ Send(pkt)
    BY <2>2, SendKeeps
  <2> QED
    BY <2>1, <2>2
<1>2. peer' \in Seq(Earbuds) /\ link' \in {0, Len(peer')}
  BY DEF IInv, Types, linkVars
<1> QED
  BY <1>1, <1>2, Zenon DEF IInv, Types

LEMMA JobUnchanged ==
  ASSUME IInv, UNCHANGED job
  PROVE  JobIsProgram'
BY Zenon DEF IInv, JobIsProgram

LEMMA ProbeUnchanged ==
  ASSUME IInv, UNCHANGED probe
  PROVE  probe' \in Seq(ProbeStates)
BY Zenon DEF IInv, Types

LEMMA KeepProbeStep ==
  ASSUME IInv, NEW l \in DOMAIN probe, ProbeStep(l)
  PROVE  IInv'
<1>1. UNCHANGED linkVars /\ JobIsProgram'
  BY JobUnchanged, Zenon DEF ProbeStep, ProbeSends, ProbeSkips, ProbeStops
<1>2. CASE ProbeSends(l)
  <2>1. probe[l].at \in 1 .. 11 /\ ~Ended(probe[l])
    BY <1>2, ProbeTypes, Zenon DEF ProbeSends
  <2>2. Fits(probes[probe[l].at].pkt)
    BY <2>1, ProbesAsk, Zenon DEF IsProbe
  <2>3. Send(probes[probe[l].at].pkt) /\ ProbeOn(l)
    BY <1>2, Zenon DEF ProbeSends
  <2>4. probe' \in Seq(ProbeStates)
    BY <2>1, <2>3, ProbeGoesOnTyped
  <2> QED
    BY <1>1, <2>2, <2>3, <2>4, KeepSending, Zenon
<1>3. CASE ProbeSkips(l)
  <2>1. probe' \in Seq(ProbeStates)
    BY <1>3, ProbeGoesOnTyped, Zenon DEF ProbeSkips
  <2>2. UNCHANGED <<tx, shown>>
    BY <1>3 DEF ProbeSkips, sessionVars
  <2> QED
    BY <1>1, <2>1, <2>2, KeepSending
<1>4. CASE ProbeStops(l)
  <2>1. probe' \in Seq(ProbeStates)
    BY <1>4, ProbeTypes, Zenon DEF ProbeStops
  <2>2. UNCHANGED <<tx, shown>>
    BY <1>4 DEF ProbeStops, sessionVars
  <2> QED
    BY <1>1, <2>1, <2>2, KeepSending
<1> QED
  BY <1>2, <1>3, <1>4, Zenon DEF ProbeStep

LEMMA KeepPoll ==
  ASSUME IInv, Poll
  PROVE  IInv'
<1> DEFINE pkt == Packet(\hC007, <<>>)
<1>1. Fits(pkt)
  <2> DEFINE cmd == \hC007
  <2>1. IsQuery(cmd) /\ pkt = Packet(cmd, <<>>)
    BY QueriesAreOffered
  <2> HIDE DEF cmd, pkt
  <2> QED
    BY <2>1, ShortPayloads, QueryFits, Zenon
<1>2. Send(pkt) /\ UNCHANGED <<linkVars, probe, job>>
  BY DEF Poll
<1> HIDE DEF pkt
<1>3. probe' \in Seq(ProbeStates) /\ JobIsProgram' /\ UNCHANGED linkVars
  BY <1>2, ProbeUnchanged, JobUnchanged
<1> QED
  BY <1>1, <1>2, <1>3, KeepSending, Zenon

LEMMA KeepLater ==
  ASSUME IInv, NEW kind, Later(kind)
  PROVE  IInv'
<1> DEFINE pkt == IF kind = "features" THEN Packet(\hC00D, <<>>) ELSE listPacket
<1>1. Fits(pkt)
  <2> DEFINE features == \hC00D
             list == \hC028
  <2>1. IsQuery(features) /\ IsQuery(list)
    BY QueriesAreOffered
  <2>2. pkt = IF kind = "features" THEN Packet(features, <<>>) ELSE Packet(list, <<0>>)
    BY DEF listPacket
  <2> HIDE DEF features, list, pkt
  <2> QED
    BY <2>1, <2>2, ShortPayloads, QueryFits, Zenon
<1>2. /\ UNCHANGED <<linkVars, probe, job>>
      /\ Send(pkt) \/ UNCHANGED <<tx, shown>>
  BY DEF Later
<1> HIDE DEF pkt
<1>3. probe' \in Seq(ProbeStates) /\ JobIsProgram' /\ UNCHANGED linkVars
  BY <1>2, ProbeUnchanged, JobUnchanged
<1> QED
  BY <1>1, <1>2, <1>3, KeepSending, Zenon

LEMMA KeepServe ==
  ASSUME IInv, Serve
  PROVE  IInv'
<1>1. tx # <<>> /\ tx' = Tail(tx) /\ UNCHANGED <<linkVars, shown, probe, job>>
  BY DEF Serve, ServeQuery, ObeySet, RefuseSet, ServeVars, sessionVars
<1>2. Types' /\ JobIsProgram'
  BY <1>1, JobUnchanged DEF IInv, Types, linkVars
<1>3. ModelIsTheirs'
  BY <1>1, DeviceStays DEF IInv, ModelIsTheirs, linkVars
<1>4. TrafficFits'
  <2>1. IsTraffic(tx', Device') /\ link # 0 /\ link' = link
    BY <1>1, DeviceStays, TrafficServed DEF IInv, TrafficFits, linkVars
  <2> QED
    BY <2>1 DEF TrafficFits
<1> QED
  BY <1>2, <1>3, <1>4 DEF IInv

LEMMA KeepNews ==
  ASSUME IInv, NEW n, Changes(n) \/ BatteryChanges(n) \/ PeersChange(n) \/ SendsPacket(n) \/ SendsBytes(n)
  PROVE  IInv'
<1> DEFINE same == UNCHANGED NewsVars
<1>1. Changes(n) => same
  BY DEF Changes
<1>2. BatteryChanges(n) => same
  BY DEF BatteryChanges
<1>3. PeersChange(n) => same
  BY DEF PeersChange
<1>4. SendsPacket(n) => same
  BY DEF SendsPacket
<1>5. SendsBytes(n) => same
  BY DEF SendsBytes
<1> QED
  BY <1>1, <1>2, <1>3, <1>4, <1>5, KeepRest DEF NewsVars, sessionVars

\* All that was under way is lost with a connection.
LEMMA KeepDisconnected ==
  ASSUME IInv, Disconnected
  PROVE  IInv'
<1>1. link' = 0 /\ tx' = <<>> /\ peer' = peer /\ probe' = Raced /\ UNCHANGED job
  BY DEF Disconnected, NoLink, LostVars
<1>2. shown' = Cleared(Unknown)
  BY Zenon DEF Disconnected, Unknown
<1>3. "model" \in DOMAIN shown' /\ shown'.model = Unknown
  BY <1>2 DEF Cleared
<1>4. Types'
  BY <1>1, <1>3, ProbeTypes DEF IInv, Types, Models
<1>5. ModelIsTheirs' /\ JobIsProgram'
  BY <1>1, JobUnchanged DEF ModelIsTheirs
<1>6. TrafficFits'
  BY <1>1, NoTraffic DEF TrafficFits
<1> QED
  BY <1>4, <1>5, <1>6 DEF IInv

\* A connection starts with the model of its own earbuds or with none.
LEMMA KeepConnect ==
  ASSUME IInv, NEW d \in Earbuds, Connect(d)
  PROVE  IInv'
<1> DEFINE model == IF d \in Named THEN ModelOf[d] ELSE Unknown
<1>1. tx' = <<>> /\ peer' = Append(peer, d) /\ link' = Len(peer') /\ UNCHANGED job
  BY DEF Connect, NoLink
<1>2. shown' = Cleared(model) /\ probe' = Append(Raced, NewProbe)
  BY Zenon DEF Connect, Unknown, ClearedAtConnect
<1>3. model \in Models
  BY RequestsAssumption DEF Models
<1>4. model \in {Unknown, ModelOf[d]}
  OBVIOUS
<1> HIDE DEF model
<1>5. "model" \in DOMAIN shown' /\ shown'.model = model
  BY <1>2 DEF Cleared
<1>6. peer' \in Seq(Earbuds) /\ link' \in {0, Len(peer')} /\ Device' = d
  BY <1>1 DEF IInv, Types, Device
<1>7. probe' \in Seq(ProbeStates)
  <2> DEFINE raced == Raced
             new == NewProbe
  <2>1. raced \in Seq(ProbeStates) /\ new \in ProbeStates
    BY ProbeTypes
  <2>2. probe' = Append(raced, new)
    BY <1>2
  <2> HIDE DEF raced, new
  <2> QED
    BY <2>1, <2>2
<1>8. Types'
  BY <1>3, <1>5, <1>6, <1>7, Zenon DEF Types
<1>9. ModelIsTheirs'
  BY <1>4, <1>5, <1>6, Zenon DEF ModelIsTheirs
<1>10. TrafficFits' /\ JobIsProgram'
  BY <1>1, NoTraffic, JobUnchanged DEF TrafficFits
<1> QED
  BY <1>8, <1>9, <1>10, Zenon DEF IInv

\* The model is taken from the Identity of the earbuds that are connected.
LEMMA KeepHandle ==
  ASSUME IInv, NEW read, link # 0, Handle(read)
  PROVE  IInv'
<1>1. UNCHANGED <<linkVars, tx, probe, job>> /\ handleRaw(read.pkt)
  BY DEF Handle
<1>2. "model" \in DOMAIN shown' /\ shown'.model = autoDetect(shown.model, read.pkt)
  BY <1>1 DEF handleRaw
<1>3. shown'.model \in {shown.model, ModelOf[Device]}
  BY <1>2, Zenon DEF autoDetect
<1>4. Device' = Device /\ link' = link /\ peer' = peer
  BY <1>1, DeviceStays DEF linkVars
<1>5. ModelOf[Device] \in Models
  <2>1. Device \in Earbuds
    BY DEF IInv, Types, Device
  <2> QED
    BY <2>1, RequestsAssumption DEF Models
<1>6. Types'
  BY <1>1, <1>2, <1>3, <1>4, <1>5 DEF IInv, Types
<1>7. ModelIsTheirs'
  BY <1>3, <1>4 DEF IInv, ModelIsTheirs
<1>8. TrafficFits' /\ JobIsProgram'
  BY <1>1, <1>4, JobUnchanged DEF IInv, TrafficFits
<1> QED
  BY <1>6, <1>7, <1>8, Zenon DEF IInv

LEMMA KeepRead ==
  ASSUME IInv, Read
  PROVE  IInv'
<1>1. link # 0 /\ ((\E read : Handle(read)) \/ Disconnected)
  BY Zenon DEF Read
<1> QED
  BY <1>1, KeepHandle, KeepDisconnected, Zenon

LEMMA KeepAsk ==
  ASSUME IInv, NEW a, Ask(a)
  PROVE  IInv'
<1>1. UNCHANGED <<linkVars, tx, shown, probe>> /\ a \in Asks
  BY DEF Ask, sessionVars
<1>2. PICK todo \in Programs(a) : job' = [todo |-> todo, link |-> Len(peer)]
  BY Zenon DEF Ask
<1>3. IsProgram(todo)
  BY <1>1, <1>2, AskedPrograms
<1>4. JobIsProgram'
  BY <1>2, <1>3, Zenon DEF JobIsProgram
<1>5. probe' \in Seq(ProbeStates)
  BY <1>1, ProbeUnchanged
<1> QED
  BY <1>1, <1>4, <1>5, KeepSending

LEMMA JobMoves ==
  ASSUME IInv, job.todo # <<>>
  PROVE  /\ Go => JobIsProgram'
         /\ EndJob => JobIsProgram'
         /\ Goes(Head(job.todo))
         /\ \A step : Goes(step) /\ job' = [job EXCEPT !.todo[1] = step] => JobIsProgram'
<1>1. PICK todo, l : job = [todo |-> todo, link |-> l] /\ IsProgram(todo)
  BY Zenon DEF IInv, JobIsProgram
<1>2. job.todo = todo
  BY <1>1
<1>3. EndJob => JobIsProgram'
  BY NoSteps, Zenon DEF EndJob, Idle, JobIsProgram
<1>4. Go => JobIsProgram'
  <2>1. CASE job' = [job EXCEPT !.todo = Tail(@)]
    <3>1. job' = [todo |-> Tail(todo), link |-> l]
      BY <1>1, <2>1
    <3>2. IsProgram(Tail(todo))
      BY <1>1, <1>2, TailOfProgram
    <3> QED
      BY <3>1, <3>2, Zenon DEF JobIsProgram
  <2> QED
    BY <1>3, <2>1, Zenon DEF Go
<1>5. Goes(Head(job.todo))
  BY <1>1, <1>2, TailOfProgram
<1>6. ASSUME NEW step, Goes(step), job' = [job EXCEPT !.todo[1] = step]
      PROVE  JobIsProgram'
  <2>1. job' = [todo |-> [todo EXCEPT ![1] = step], link |-> l]
    BY <1>1, <1>6
  <2>2. IsProgram([todo EXCEPT ![1] = step])
    BY <1>1, <1>6, FirstReplaced
  <2> QED
    BY <2>1, <2>2, Zenon DEF JobIsProgram
<1> QED
  BY <1>3, <1>4, <1>5, <1>6, Zenon

\* What a job is about to send was built from the words of a feature.
LEMMA BuiltIsOffered ==
  ASSUME IInv, job.todo # <<>>, NEW words, NEW model, NEW pkt \in FeatureCommandPacket(words, model),
         job' = [job EXCEPT !.todo[1] = Step("send", <<>>, pkt)]
  PROVE  JobIsProgram'
<1> DEFINE step == Step("send", <<>>, pkt)
<1>1. Fits(pkt)
  BY FeaturePackets
<1>2. Goes(step)
  BY <1>1 DEF Goes, Step
<1> QED
  BY <1>2, JobMoves, Zenon

LEMMA KeepJobStep ==
  ASSUME IInv, JobStep
  PROVE  IInv'
<1>1. job.todo # <<>> /\ UNCHANGED <<linkVars, probe>>
  BY Zenon DEF JobStep, SameConnection, DeviceCheck, Capture, Readback, Confirm, Get, Build, JobSends,
     Do, Quietly, JobVars
<1>2. probe' \in Seq(ProbeStates) /\ UNCHANGED linkVars
  BY <1>1, ProbeUnchanged
<1>3. Sending(Head(job.todo)) => JobIsProgram'
  BY <1>1, BuiltIsOffered, Zenon DEF Sending
<1>4. CASE SameConnection \/ DeviceCheck \/ Capture \/ Readback \/ Confirm \/ Get
  <2>1. Quietly /\ (Go \/ EndJob \/ Sending(Head(job.todo)))
    BY <1>4, Zenon DEF SameConnection, DeviceCheck, Capture, Readback, Confirm, Get
  <2>2. UNCHANGED <<tx, shown>>
    BY <2>1 DEF Quietly
  <2>3. JobIsProgram'
    BY <1>1, <1>3, <2>1, JobMoves, Zenon
  <2> QED
    BY <1>2, <2>2, <2>3, KeepSending
<1>5. CASE Build
  <2>1. UNCHANGED <<tx, shown>>
    BY <1>5 DEF Build, Quietly
  <2>2. \/ EndJob
        \/ \E pkt \in FeatureCommandPacket(Head(job.todo).words, Codename(shown.model)) :
             job' = [job EXCEPT !.todo[1] = Step("send", <<>>, pkt)]
    BY <1>5, Zenon DEF Build
  <2>3. JobIsProgram'
    BY <1>1, <2>2, JobMoves, BuiltIsOffered, Zenon
  <2> QED
    BY <1>2, <2>1, <2>3, KeepSending
<1>6. CASE JobSends
  <2> DEFINE pkt == Head(job.todo).pkt
  <2>1. Head(job.todo).do = "send" /\ Send(pkt) /\ (Go \/ EndJob)
    BY <1>6, Zenon DEF JobSends, Do
  <2>2. Fits(pkt)
    BY <1>1, <2>1, JobMoves, Zenon DEF Goes
  <2>3. JobIsProgram'
    BY <1>1, <2>1, JobMoves, Zenon
  <2> QED
    BY <1>2, <2>1, <2>2, <2>3, KeepSending, Zenon
<1> QED
  BY <1>4, <1>5, <1>6, Zenon DEF JobStep

LEMMA StepInv == IInv /\ [Next]_vars => IInv'
<1> SUFFICES ASSUME IInv, [Next]_vars PROVE IInv'
  OBVIOUS
<1>1. CASE UNCHANGED vars
  BY <1>1, KeepRest DEF vars, sessionVars
<1>2. ASSUME NEW d \in Earbuds, Connect(d) PROVE IInv'
  BY <1>2, KeepConnect
<1>3. CASE Lose
  BY <1>3, KeepDisconnected, Zenon DEF Lose
<1>4. CASE Poll \/ Read \/ Serve \/ JobStep
  BY <1>4, KeepPoll, KeepRead, KeepServe, KeepJobStep
<1>5. ASSUME NEW l \in DOMAIN probe, ProbeStep(l) PROVE IInv'
  BY <1>5, KeepProbeStep
<1>6. ASSUME NEW kind, Later(kind) PROVE IInv'
  BY <1>6, KeepLater
<1>7. ASSUME NEW n,
             Changes(n) \/ BatteryChanges(n) \/ PeersChange(n) \/ SendsPacket(n) \/ SendsBytes(n)
      PROVE  IInv'
  BY <1>7, KeepNews
<1>8. ASSUME NEW a, Ask(a) PROVE IInv'
  BY <1>8, KeepAsk
<1> QED
  BY <1>1, <1>2, <1>3, <1>4, <1>5, <1>6, <1>7, <1>8, Zenon DEF Next

\* IInv holds always: the model a session goes by is that of the connected earbuds or
\* none, a job sends what is offered, and what is under way may be sent.
THEOREM Invariant == Spec => []IInv
<1> QED
  BY InitInv, StepInv, PTL DEF Spec

\* The earbuds get only queries, SETs known to be safe, and with --unsafe those that
\* are not forbidden; and only an Ear (3) gets what is about its microphone
\* (authorizeCommand, ValidateMicCommand at the moment of the write, RunQueryScan).
THEOREM TrafficAllowed == Spec => []OnlyAllowedTraffic
<1>1. IInv => OnlyAllowedTraffic
  <2> SUFFICES ASSUME IInv, NEW i \in DOMAIN tx PROVE MayGo(tx[i], Device)
    BY Zenon DEF OnlyAllowedTraffic, MayGo, Allowed
  <2>1. PICK S : tx \in Seq(S) /\ \A pkt \in S : MayGo(pkt, Device)
    BY Zenon DEF IInv, TrafficFits, IsTraffic
  <2>2. tx[i] \in S
    BY <2>1
  <2> QED
    BY <2>1, <2>2, Zenon
<1> QED
  BY <1>1, Invariant, PTL
=============================================================================
