------------------------------ MODULE Requests -------------------------------
(***************************************************************************)
(* What the program asks of the earbuds and what it then shows of them:    *)
(* the probe that each connection starts, the polling of batteries, scans, *)
(* the jobs of the window that change a setting and read it back, and the  *)
(* session that decodes the answers (internal/session, ui/companion).      *)
(* Session has the steps of a send and of a reconnect; here a send is one  *)
(* step, and what matters is what the packets say and when.                *)
(*                                                                         *)
(* The earbuds are external: they have settings, take requests in order,   *)
(* answer each, may refuse a SET, and change by themselves, which some     *)
(* changes are told by an event.  They keep their settings between links.  *)
(***************************************************************************)
EXTENDS Decode, FiniteSets

CONSTANTS
  Earbuds,     \* in reach
  ModelOf,     \* the codename of each
  Settings,    \* what each is set to at first
  Layout,      \* how the name of a peer is put: "length", "fixed" or "bare"
  Named,       \* those whose model the Bluetooth information tells
  AllowUnsafe, \* the option --unsafe
  Asks,        \* what users ask for
  News,        \* what earbuds may change by themselves or send
  MaxEvents,   \* bounds the requests, the connections, the polls and the news
  MaxAsks, MaxLinks, \* bound the requests and the connections of these
  MaxInFlight  \* bounds the packets under way when another is asked for

ASSUME RequestsAssumption ==
  /\ Named \subseteq Earbuds /\ Layout \in {"length", "fixed", "bare"} /\ AllowUnsafe \in BOOLEAN
  /\ ModelOf \in [Earbuds -> {m.Codename : m \in knownModels}]
  /\ MaxEvents \in Nat /\ MaxAsks \in Nat /\ MaxLinks \in Nat /\ MaxInFlight \in Nat \ {0}

\* BuildCommands lists queries, and the features, whose SETs are built elsewhere.  A list
\* with any SET, and with what is forbidden, is no worse.
Offered(cmd) == IsQuery(cmd) \/ CommandInfoFor(cmd).set \/ cmd \in UnsafeCommands

\* What users may ask for; a command is a number.
ASSUME AsksAssumption == \A a \in Asks :
  /\ a.counts \in Nat
  /\ a.what \in {"feature", "refresh", "peers", "peer", "scan", "command"}
  /\ a.what = "scan" => a.cmds[1] \in Nat /\ a.cmds[2] \in Nat
  /\ a.what = "command" => Offered(a.cmds[1])

VARIABLES
  link,     \* the connection that is up, 0 for none
  peer,     \* the earbuds of each connection so far
  tx, rx,   \* the packets to the earbuds; the bytes from them, as they were written
  shown,    \* what the session holds of the connected earbuds, see Cleared
  probe,    \* the probe of each connection
  later,    \* how many delayed queries of each kind wait
  job,      \* what the worker of the window does
  buds,     \* the earbuds
  past,     \* what the connected earbuds were since the link is up and are no longer
  owed,     \* the settings that changed without an event and were not asked for since
  guessed,  \* the parts whose battery an unknown packet gave
  events    \* how much has happened, see MaxEvents

sessionVars == <<shown, later>>
historyVars == <<past, owed, guessed>>
linkVars == <<link, peer>>
vars == <<linkVars, tx, rx, sessionVars, probe, job, buds, historyVars, events>>

Counts(n) == events.all + n <= MaxEvents /\ events' = [events EXCEPT !.all = @ + n]

Features == {"anc", "eq", "spatial", "lag", "dual"} \cup micFeatures

Codename(c) == IF c = "" THEN DefaultModel ELSE CHOOSE m \in knownModels : m.Codename = c

Device == IF peer = <<>> THEN "none" ELSE peer[Len(peer)]

\* clearLiveStateLocked; a model that the user chose, which would stay, is left out.
Cleared(model) ==
  [model |-> model, config |-> [f \in Features |-> <<>>], batteries |-> NoMap,
   earbuds |-> NoMap, dualList |-> <<>>]

-----------------------------------------------------------------------------
(* The earbuds: what a command does, and how a value is put into a payload.  *)

AncCode(label) ==
  CHOOSE v \in Bytes : ancModeLabel(v) = label

MicByte(value) == <<IF value = <<"on">> THEN 1 ELSE 0>>

Encode(f, v) ==
  CASE f = "anc" -> <<1, AncCode(v[1]), 0, 2, AncCode(v[2]), 0>>
    [] f = "eq" -> <<CHOOSE n \in Bytes : eqPresetLabel(n) = v[1]>>
    [] f = "lag" -> <<IF v = <<"on">> THEN 1 ELSE 2>>
    [] f = "spatial" -> <<IF v[1] = "on" THEN 1 ELSE 0, IF v[2] = "on" THEN 1 ELSE 0>>
    [] OTHER -> MicByte(v)

\* The event of a changed noise reduction has its mode and not its level.
EventValue(f, v) == IF f = "anc" THEN <<v[1], "">> ELSE v

EncodeEvent(f, v) ==
  CASE f = "anc" -> <<1, AncCode(v[1]), 0>>
    [] f = "lag" -> <<0>> \o Encode(f, v)
    [] OTHER -> Encode(f, v)

PartId(name) == CHOOSE i \in 1 .. 6 : partNames[i] = name

EncodePairs(bytes) ==
  LET parts == SetToSeq(DOMAIN bytes)
      part(i) == parts[(i + 1) \div 2]
  IN <<Len(parts)>>
       \o [i \in 1 .. 2 * Len(parts) |-> IF i % 2 = 1 THEN PartId(part(i)) ELSE bytes[part(i)]]

BatteryByte(b) == b[1] + IF b[2] = "charging" THEN 128 ELSE 0

WearByte(w) ==
  (IF w.InEar THEN 4 ELSE 0) + (IF w.InCase THEN 1 ELSE 0) + IF w.Connected THEN 128 ELSE 0

EncodePeer(d) ==
  <<(IF d.Owner THEN 16 ELSE 0) + IF d.Connected THEN 1 ELSE 0>> \o d.MAC
    \o CASE Layout = "length" -> <<Len(d.Name)>> \o d.Name
         [] Layout = "fixed" -> d.Name \o [i \in 1 .. 31 - Len(d.Name) |-> 0]
         [] OTHER -> <<>>

EncodePeers(list) == <<Len(list), 0, Len(list)>> \o FlattenSeq([i \in DOMAIN list |-> EncodePeer(list[i])])

FeatureOfSet(cmd) == CHOOSE f \in Features : featureCommands[f].set = cmd

FeaturesOfGet(cmd) == {f \in Features : featureCommands[f].get.cmd = cmd}

Identity == <<250>>

Answer(b, cmd) ==
  CASE FeaturesOfGet(cmd) # {} ->
         LET f == CHOOSE x \in FeaturesOfGet(cmd) : TRUE IN Encode(f, b.set[f])
    [] cmd = \hC007 -> EncodePairs([part \in DOMAIN b.battery |-> BatteryByte(b.battery[part])])
    [] cmd = \hC00A -> EncodePairs([part \in DOMAIN b.wear |-> WearByte(b.wear[part])])
    [] cmd = \hC028 -> EncodePeers(b.peers)
    [] cmd = \hC00D -> <<0, 64>>
    [] cmd = \hC005 -> Identity
    [] OTHER -> <<0>>

\* The value that a SET asks for; the earbuds remember the last level.
SetValue(old, cmd, p) ==
  LET f == FeatureOfSet(cmd)
  IN CASE f = "anc" -> <<ancModeLabel(p[2]), IF p[2] \in 1 .. 4 THEN ancModeLabel(p[2]) ELSE old[2]>>
       [] f = "eq" -> <<eqPresetLabel(p[1])>>
       [] f = "lag" -> <<OnOff(p[1] = 1)>>
       [] f = "spatial" -> <<OnOff(p[1] = 1), IF Len(p) > 1 THEN OnOff(p[2] = 1) ELSE old[2]>>
       [] OTHER -> <<OnOff(p[1] = 1)>>

\* What earbuds do with a SET they take.
Obey(b, pkt) ==
  CASE pkt.cmd = \hF01B ->
         [b EXCEPT !.peers = [i \in DOMAIN @ |->
            IF @[i].MAC = Tail(pkt.payload) THEN [@[i] EXCEPT !.Connected = pkt.payload[1] = 1] ELSE @[i]]]
    [] \E f \in Features : featureCommands[f].set = pkt.cmd ->
         [b EXCEPT !.set[FeatureOfSet(pkt.cmd)] = SetValue(@, pkt.cmd, pkt.payload)]
    [] OTHER -> b

-----------------------------------------------------------------------------
(* What the earbuds may be, and may send by themselves.                    *)

Own(d) == {f \in Features : ModelSupportsFeature(Codename(ModelOf[d]), f)}

\* A label that a value has in the code.
ValuesOf(f) ==
  CASE f = "anc" -> {ancModeLabel(n) : n \in Bytes} \X {ancLevelLabel(n) : n \in Bytes}
    [] f = "eq" -> {<<eqPresetLabel(n)>> : n \in Bytes}
    [] f = "spatial" -> {"on", "off"} \X {"on", "off"}
    [] OTHER -> {<<"on">>, <<"off">>}

PartNames == {partNames[i] : i \in 1 .. 6}

BatteryValues == (0 .. 127) \X {"idle", "charging"}

Wears == [InEar : BOOLEAN, InCase : BOOLEAN, Connected : BOOLEAN]

IsPartMap(m, values) == DOMAIN m \subseteq PartNames /\ \A part \in DOMAIN m : m[part] \in values

\* Names as they are shown; one that fills its field starts with a letter.
IsName(n) ==
  /\ Len(n) <= 31
  /\ n # <<>> => n[1] # 32 /\ n[Len(n)] \notin {0, 32}
  /\ Layout = "fixed" => n # <<>> /\ n[1] \in 33 .. 127

Peers ==
  {d \in [MAC : [1 .. 6 -> Bytes], Name : Seq(Bytes), Connected : BOOLEAN, Owner : BOOLEAN] :
     IsName(d.Name)}

PeerLists == {list \in Seq(Peers) : Len(list) <= 255}

IsState(b, d) ==
  /\ DOMAIN b = {"set", "battery", "wear", "peers"}
  /\ DOMAIN b.set = Own(d) /\ \A f \in Own(d) : b.set[f] \in ValuesOf(f)
  /\ IsPartMap(b.battery, BatteryValues) /\ IsPartMap(b.wear, Wears)
  /\ b.peers \in PeerLists

ASSUME SettingsAssumption ==
  DOMAIN Settings = Earbuds /\ \A d \in Earbuds : IsState(Settings[d], d)

\* BatteryCaseSource of a model says which of two names its case has.
OneCase(b) == ~({"case", "stereo"} \subseteq DOMAIN b.battery)

ASSUME CaseAssumption == \A d \in Earbuds : OneCase(Settings[d])

Codes == 0 .. 65535

Packets == [cmd : Codes, payload : Seq(Bytes)]

\* In none of them does a packet start, or only one that is too long.
NoPacket(bytes) ==
  \/ \A i \in DOMAIN bytes : bytes[i] # SOF
  \/ Len(bytes) >= 8 /\ bytes[1] = SOF /\ bytes[6] + 256 * bytes[7] > MaxPayload

ASSUME NewsAssumption == \A n \in News :
  /\ n.counts \in Nat
  /\ n.what \in Features => n.value \in ValuesOf(n.what)
  /\ n.what \in PartNames => n.value \in BatteryValues
  /\ n.what = "peers" => n.value \in PeerLists
  /\ n.what = "packet" => /\ n.value \in Packets /\ Len(n.value.payload) <= 65535
                          /\ Parsers(n.value.cmd) = {}
  /\ n.what = "bytes" => n.value \in Seq(Bytes) /\ NoPacket(n.value)

-----------------------------------------------------------------------------
(* Sending: Send of the session, whose outcome is one of                   *)
(* an error ("refused", the command; "gone", no link) or "sent".           *)

authorizeCommandMutant(cmd) ==
  LET info == CommandInfoFor(cmd) IN ~info.unsafe

authorizeCommand(cmd) ==
  LET info == CommandInfoFor(cmd)
  IN ~info.unsafe /\ (info.set => info.safe \/ AllowUnsafe)

\* The microphone modes are checked against the model of the moment.
Sendable(pkt) ==
  /\ authorizeCommand(pkt.cmd)
  /\ link # 0
  /\ pkt.cmd \in micCommands => ValidateMicCommand(pkt, Codename(shown.model))

MicFeature(cmd) == IF cmd \in {\hC05E, \hF05F} THEN "super-mic" ELSE "walkie-talkie"

\* What the session knew of a mode is void once it is asked for or written.
ForgetMicMode(config, cmd) ==
  IF cmd \in micCommands THEN [config EXCEPT ![MicFeature(cmd)] = <<>>] ELSE config

\* What a written or asked for packet owes or pays.
Owes(cmd) ==
  CASE cmd = \hF01B -> owed \cup {"peers"}
    [] cmd = \hC028 -> owed \ {"peers"}
    [] \E f \in Features : featureCommands[f].set = cmd -> owed \cup {FeatureOfSet(cmd)}
    [] OTHER -> owed \ FeaturesOfGet(cmd)

\* The packets that the earbuds have not answered, or whose answers are not read.
InFlight == Len(tx) + Len(SelectSeq(rx, LAMBDA write : Len(write) > 8))

CanSend == InFlight < MaxInFlight

Send(pkt) ==
  /\ CanSend
  /\ IF Sendable(pkt)
       THEN /\ tx' = Append(tx, pkt)
            /\ shown' = [shown EXCEPT !.config = ForgetMicMode(@, pkt.cmd)]
            /\ owed' = Owes(pkt.cmd)
       ELSE UNCHANGED <<tx, shown, owed>>

SendVars == <<rx, later, buds, past, guessed>>

-----------------------------------------------------------------------------
(* The probe of a connection (initialProbe and probeConfig).  Before each step *)
(* it sleeps and looks whether its device is the one connected; the batteries  *)
(* and the state of the earbuds are asked for with one look.                   *)

Probe(feature, cmd, payload) == [feature |-> feature, pkt |-> Packet(cmd, payload)]

probes == <<
  Probe("", \hC001, <<>>), Probe("", \hC042, <<>>), Probe("", \hC005, <<>>),
  Probe("", \hC007, <<>>), Probe("", \hC00A, <<>>),
  Probe("super-mic", \hC05E, <<>>), Probe("walkie-talkie", \hC060, <<>>),
  Probe("anc", \hC01E, <<>>), Probe("lag", \hC041, <<>>),
  Probe("dual", \hC027, <<>>), Probe("dual", \hC028, <<0>>)>>

Unlooked == 5     \* the query that follows another at once
FirstConfig == 6  \* where probeConfig reads the model

\* The connection may change after the look of a probe, which is raced then.
NewProbe == [at |-> 1, raced |-> FALSE, model |-> ""]
Over == [at |-> Len(probes) + 1, raced |-> FALSE, model |-> ""]

isCurrentDevice(l) == link # 0 /\ peer[link] = peer[l]

Ended(p) == p.at > Len(probes)

Raced == [l \in DOMAIN probe |->
           [probe[l] EXCEPT !.raced = ~Ended(probe[l]) /\ (@ \/ isCurrentDevice(l))]]

Looked(l) == isCurrentDevice(l) \/ probe[l].raced \/ probe[l].at = Unlooked

ProbeOn(l) ==
  LET at == probe[l].at + 1
  IN probe' = [probe EXCEPT ![l] =
       [at |-> at, raced |-> FALSE, model |-> IF at = FirstConfig THEN shown.model ELSE @.model]]

ProbeWants(l) ==
  LET f == probes[probe[l].at].feature
  IN f = "" \/ ModelSupportsFeature(Codename(probe[l].model), f)

ProbeSends(l) ==
  /\ ~Ended(probe[l]) /\ Looked(l) /\ ProbeWants(l)
  /\ ProbeOn(l)
  /\ Send(probes[probe[l].at].pkt)
  /\ UNCHANGED <<linkVars, SendVars, job, events>>

ProbeSkipsMutant(l) ==
  /\ ~Ended(probe[l]) /\ Looked(l) /\ ~ProbeWants(l)
  /\ probe' = [probe EXCEPT ![l] = Over]
  /\ UNCHANGED <<linkVars, tx, rx, sessionVars, job, buds, historyVars, events>>

ProbeSkips(l) ==
  /\ ~Ended(probe[l]) /\ Looked(l) /\ ~ProbeWants(l)
  /\ ProbeOn(l)
  /\ UNCHANGED <<linkVars, tx, rx, sessionVars, job, buds, historyVars, events>>

ProbeStops(l) ==
  /\ ~Ended(probe[l]) /\ ~isCurrentDevice(l) /\ probe[l].at # Unlooked
  /\ probe' = [probe EXCEPT ![l] = Over]
  /\ UNCHANGED <<linkVars, tx, rx, sessionVars, job, buds, historyVars, events>>

\* The loop of the polling; a Snapshot shows a link just before.  What it asks for a
\* probe asks for too, so it counts twice.
Poll ==
  /\ link # 0 /\ Counts(2)
  /\ Send(Packet(\hC007, <<>>))
  /\ UNCHANGED <<linkVars, SendVars, probe, job>>

\* afterDelay: the queries that follow an answer, if there is a link by then.
Later(kind) ==
  /\ later[kind] > 0
  /\ IF link = 0 THEN UNCHANGED <<tx, shown, owed>>
     ELSE Send(IF kind = "features" THEN Packet(\hC00D, <<>>) ELSE listPacket)
  /\ later' = [later EXCEPT ![kind] = @ - 1]
  /\ UNCHANGED <<linkVars, rx, probe, job, buds, past, guessed, events>>

-----------------------------------------------------------------------------
(* The earbuds, and what they send by themselves.                          *)

Emit(cmd, payload) == rx' = Append(rx, MarshalBinary(Packet(cmd, payload)))

AsShown(list) ==
  IF Layout = "bare" THEN [i \in DOMAIN list |-> [list[i] EXCEPT !.Name = <<>>]] ELSE list

BatteryFacts(b) ==
  {<<p, b.battery[p]>> : p \in DOMAIN b.battery}
    \cup (IF "stereo" \in DOMAIN b.battery THEN {<<"case", b.battery["stereo"]>>} ELSE {})

\* A setting may be shown as an answer told it, or as an event did.
Facts(b) ==
  {<<f, b.set[f]>> : f \in DOMAIN b.set}
    \cup {<<f, EventValue(f, b.set[f])>> : f \in DOMAIN b.set} \cup BatteryFacts(b)
    \cup {<<"ear", s, b.wear[s]>> : s \in DOMAIN b.wear} \cup {<<"peers", AsShown(b.peers)>>}

Become(b) ==
  /\ buds' = [buds EXCEPT ![Device] = b]
  /\ past' = past \cup (Facts(buds[Device]) \ Facts(b))

ServeVars == <<linkVars, sessionVars, probe, job, owed, guessed, events>>

\* What they do not have they do not answer for.
ServeQuery ==
  /\ tx # <<>> /\ Kind(Head(tx).cmd) # 15
  /\ tx' = Tail(tx)
  /\ LET cmd == Head(tx).cmd
     IN IF FeaturesOfGet(cmd) \subseteq DOMAIN buds[Device].set
          THEN Emit(ResponseCmd(cmd), Answer(buds[Device], cmd))
          ELSE UNCHANGED rx
  /\ UNCHANGED <<ServeVars, buds, past>>

ObeySet ==
  /\ tx # <<>> /\ Kind(Head(tx).cmd) = 15
  /\ tx' = Tail(tx)
  /\ Become(Obey(buds[Device], Head(tx)))
  /\ Emit(ResponseCmd(Head(tx).cmd), <<0>>)
  /\ UNCHANGED ServeVars

RefuseSet ==
  /\ tx # <<>> /\ Kind(Head(tx).cmd) = 15
  /\ tx' = Tail(tx)
  /\ Emit(ResponseCmd(Head(tx).cmd), <<1>>)
  /\ UNCHANGED <<ServeVars, buds, past>>

EventOf(f) ==
  CASE f = "anc" -> \hE003 [] f = "lag" -> \hE019 [] f = "dual" -> \hE006
    [] f = "walkie-talkie" -> \hE01A [] OTHER -> 0

Happens(n) == n \in News /\ link # 0 /\ Counts(n.counts)

NewsVars == <<linkVars, tx, sessionVars, probe, job>>

\* A setting, of those that the model has.
Changes(n) ==
  /\ Happens(n) /\ n.what \in Features /\ ModelSupportsFeature(Codename(ModelOf[Device]), n.what)
  /\ Become([buds[Device] EXCEPT !.set[n.what] = n.value])
  /\ IF EventOf(n.what) = 0
       THEN owed' = owed \cup {n.what} /\ UNCHANGED rx
       ELSE /\ Emit(EventOf(n.what), EncodeEvent(n.what, n.value))
            /\ UNCHANGED owed
  /\ UNCHANGED <<NewsVars, guessed>>

BatteryChanges(n) ==
  /\ Happens(n) /\ n.what \in DOMAIN buds[Device].battery
  /\ Become([buds[Device] EXCEPT !.battery[n.what] = n.value])
  /\ Emit(\hE001, EncodePairs([part \in {n.what} |-> BatteryByte(n.value)]))
  /\ UNCHANGED <<NewsVars, owed, guessed>>

PeersChange(n) ==
  /\ Happens(n) /\ n.what = "peers"
  /\ Become([buds[Device] EXCEPT !.peers = n.value])
  /\ Emit(\hE00E, <<1>>)
  /\ UNCHANGED <<NewsVars, owed, guessed>>

\* A packet of no known command.
SendsPacket(n) ==
  /\ Happens(n) /\ n.what = "packet"
  /\ Emit(n.value.cmd, n.value.payload)
  /\ UNCHANGED <<NewsVars, buds, historyVars>>

\* Bytes that are no packet.
SendsBytes(n) ==
  /\ Happens(n) /\ n.what = "bytes"
  /\ rx' = Append(rx, n.value)
  /\ UNCHANGED <<NewsVars, buds, historyVars>>

-----------------------------------------------------------------------------
(* The session reads (readLoop, handleRaw).                                *)

configKeyForParsedKind(kind) ==
  CASE kind = "super_mic_response" -> {"super-mic"}
    [] kind \in {"walkie_talkie_response", "walkie_talkie_changed"} -> {"walkie-talkie"}
    [] kind \in {"anc_response", "anc_changed"} -> {"anc"}
    [] kind \in {"lag_response", "lag_changed"} -> {"lag"}
    [] kind = "eq_response" -> {"eq"}
    [] kind = "spatial_response" -> {"spatial"}
    [] kind \in {"dual_response", "dual_switch_changed"} -> {"dual"}
    [] OTHER -> {}

\* A microphone mode that cannot be read is forgotten.
recordConfig(config, parsed) ==
  [f \in Features |-> IF f \in configKeyForParsedKind(parsed.Kind) THEN parsed.Value ELSE config[f]]

Updated(current, update) ==
  [k \in DOMAIN current \cup DOMAIN update |-> IF k \in DOMAIN update THEN update[k] ELSE current[k]]

mergeBatteriesMutant(current, update) == Updated(current, update)

mergeBatteries(current, update) ==
  LET out == Updated(current, update)
  IN IF "case" \in DOMAIN update THEN Restrict(out, DOMAIN out \ {"stereo"}) ELSE out

updateDualList(list, parsed) ==
  IF parsed.DualList = {} THEN list ELSE CHOOSE l \in parsed.DualList : TRUE

\* A packet that names the model is parsed before the session knows it.
autoDetect(model, pkt) ==
  IF model = "" /\ pkt.payload = Identity THEN ModelOf[Device] ELSE model

scheduleDualFollowups(parsed, pkt) ==
  [k \in {"features", "list"} |-> later[k] +
     IF \/ k = "features" /\ parsed.Kind = "dual_response" /\ pkt.payload # <<>> /\ pkt.payload[1] = 1
        \/ k = "list" /\ parsed.Kind = "supported_features" /\ SupportedFeatureDualList(pkt.payload)
        \/ k = "list" /\ parsed.Kind = "dual_connect_changed"
       THEN 1 ELSE 0]

handleRaw(pkt) ==
  LET parsed == ParsePacket(pkt, Codename(shown.model))
      parts == DOMAIN parsed.Batteries
  IN /\ shown' = [model |-> autoDetect(shown.model, pkt),
                  config |-> recordConfig(shown.config, parsed),
                  batteries |-> mergeBatteries(shown.batteries, parsed.Batteries),
                  earbuds |-> Updated(shown.earbuds, parsed.Earbuds),
                  dualList |-> updateDualList(shown.dualList, parsed)]
     /\ later' = scheduleDualFollowups(parsed, pkt)
     /\ guessed' = IF parsed.Kind = "unknown_battery_pairs" THEN guessed \cup parts ELSE guessed \ parts

\* What remains of the writes of the earbuds after n bytes.
SkipBytes(writes, n) ==
  LET end(i) == Len(FlattenSeq(SubSeq(writes, 1, i)))
      done == Max({i \in 0 .. Len(writes) : end(i) <= n})
      left == SubSeq(writes, done + 1, Len(writes))
  IN IF left = <<>> THEN <<>>
     ELSE <<SubSeq(left[1], n - end(done) + 1, Len(left[1]))>> \o Tail(left)

Received == FlattenSeq(rx)

Handle(read) ==
  /\ handleRaw(read.pkt)
  /\ rx' = SkipBytes(rx, Len(Received) - Len(read.rest))
  /\ UNCHANGED <<linkVars, tx, probe, job, buds, past, owed, events>>

-----------------------------------------------------------------------------
(* The link.                                                               *)

NoLink == tx' = <<>> /\ rx' = <<>> /\ owed' = {} /\ guessed' = {}

LostVars == <<later, job, buds, events>>

Disconnected ==
  /\ link' = 0 /\ past' = {}
  /\ shown' = Cleared("")
  /\ NoLink
  /\ probe' = Raced
  /\ UNCHANGED <<peer, LostVars>>

Lose == link # 0 /\ Disconnected

\* What cannot be a packet ends the connection.
Read ==
  /\ link # 0 /\ rx # <<>>
  /\ LET read == ReadPacket(Received)
     IN \/ read.status = "packet" /\ Handle(read)
        \/ read.status = "failed" /\ Disconnected

ClearedAtConnectMutant(model) == [shown EXCEPT !.model = model]

ClearedAtConnect(model) == Cleared(model)

\* Also from one connection to the next (swapConnectTransport).
Connect(d) ==
  /\ Len(peer) < MaxLinks /\ Counts(1)
  /\ peer' = Append(peer, d) /\ link' = Len(peer')
  /\ shown' = ClearedAtConnect(IF d \in Named THEN ModelOf[d] ELSE "")
  /\ NoLink
  /\ past' = {}
  /\ probe' = Append(Raced, NewProbe)
  /\ UNCHANGED <<later, job, buds>>

-----------------------------------------------------------------------------
(* The jobs: what the worker of the window does, or a scan, one at a time. *)
(* A job is what is left of it to do; an error ends it.                    *)

Step(do, words, pkt) == [do |-> do, words |-> words, pkt |-> pkt]

Check(do) == Step(do, <<>>, Packet(0, <<>>))
Execute(words) == Step("execute", words, Packet(0, <<>>))
SendCommand(cmd) == Step("send", <<>>, Packet(cmd, <<>>))

Idle == [todo |-> <<>>, link |-> 0]

executeAndReadback(write, read) == <<Execute(write), Step("readback", read, Packet(0, <<>>))>>

writeMicModeMutant(f, value) ==
  <<Check("same")>> \o executeAndReadback(<<f, "set", value>>, <<f, "get">>)

writeMicMode(f, value) ==
  <<Check("same")>> \o executeAndReadback(<<f, "set", value>>, <<f, "get">>)
    \o <<Step("confirm", <<f, value>>, Packet(0, <<>>))>>

requireCapture == <<Check("same"), Check("capture")>>

WalkieTalkie(value) ==
  (IF value = "on" THEN requireCapture \o writeMicMode("super-mic", "on") \o requireCapture ELSE <<>>)
    \o writeMicMode("walkie-talkie", value)

Feature(f, value) ==
  IF f = "walkie-talkie" THEN WalkieTalkie(value)
  ELSE <<Check("same")>> \o executeAndReadback(<<f, "set", value>>, <<f, "get">>)

Refresh ==
  <<Check("same"), SendCommand(\hC00A), SendCommand(\hC007)>>
    \o [i \in 1 .. 7 |->
          Step("get", <<<<"anc", "eq", "lag", "spatial", "dual", "super-mic",
                          "walkie-talkie">>[i], "get">>, Packet(0, <<>>))]

RefreshPeers == <<Check("same"), Execute(<<"dual", "list">>)>>

\* The number that stands for an address as a word.
MACWord(mac) == CHOOSE w \in {"1", "2", "3"} : ParseDualMAC(w) = {mac[1]}

DualPeer(d) ==
  <<Check("same")>>
    \o executeAndReadback(<<"dual", IF d.Connected THEN "disconnect" ELSE "connect", MACWord(d.MAC)>>,
                          <<"dual", "list">>)

RunQueryScan(first, last) ==
  IF ValidateScanRange(first, last)
    THEN [i \in 1 .. 2 * (last - first + 1) |->
            IF i % 2 = 1 THEN Check("device") ELSE SendCommand(first + i \div 2 - 1)]
    ELSE <<>>

\* An entry of the list of commands, or another that has no entry.
executeCatalogCommand(cmd) == <<SendCommand(cmd)>>

Programs(a) ==
  CASE a.what = "feature" ->
         IF /\ link # 0 /\ ModelSupportsFeature(Codename(shown.model), a.words[1])
            /\ a.words[1] = "walkie-talkie" => a.words[2] \in {"on", "off"}
           THEN {Feature(a.words[1], a.words[2])} ELSE {}
    [] a.what = "refresh" -> {Refresh}
    [] a.what = "peers" -> {RefreshPeers}
    [] a.what = "peer" -> {DualPeer(shown.dualList[i]) : i \in DOMAIN shown.dualList}
    [] a.what = "scan" -> {RunQueryScan(a.cmds[1], a.cmds[2])}
    [] a.what = "command" -> {executeCatalogCommand(a.cmds[1])}

JobVars == <<linkVars, rx, later, probe, buds, past, guessed, events>>

\* The token of the job is the device of the moment.
Ask(a) ==
  /\ a \in Asks /\ job.todo = <<>> /\ peer # <<>>
  /\ events.all + a.counts <= MaxEvents /\ events.asks < MaxAsks
  /\ events' = [all |-> events.all + a.counts, asks |-> events.asks + 1]
  /\ \E todo \in Programs(a) : job' = [todo |-> todo, link |-> Len(peer)]
  /\ UNCHANGED <<linkVars, tx, rx, sessionVars, probe, buds, historyVars>>

Do(what) == job.todo # <<>> /\ Head(job.todo).do = what

EndJob == job' = Idle
Go == IF Len(job.todo) = 1 THEN EndJob ELSE job' = [job EXCEPT !.todo = Tail(@)]

Quietly == UNCHANGED <<JobVars, tx, shown, owed>>

\* sameConnection compares the generation too, which lags behind the link: the
\* same earbuds may pass for another connection and another one for the same.
SameConnection ==
  /\ Do("same") /\ Quietly
  /\ (link # 0 /\ peer[link] = peer[job.link] /\ Go) \/ EndJob

DeviceCheck ==
  /\ Do("device") /\ Quietly
  /\ IF isCurrentDevice(job.link) THEN Go ELSE EndJob

\* Whether a capture runs, and whether it can be found out, is external.
Capture == Do("capture") /\ Quietly /\ (Go \/ EndJob)

\* What a GET is made of depends on no model.
Sending(step) ==
  \E pkt \in FeatureCommandPacket(step.words, DefaultModel) :
    job' = [job EXCEPT !.todo[1] = Step("send", <<>>, pkt)]

\* The job goes on without the answer if the connection is another.
Readback ==
  /\ Do("readback") /\ Quietly
  /\ (link # 0 /\ peer[link] = peer[job.link] /\ Sending(Head(job.todo))) \/ Go

\* Polled for three seconds.
Confirm ==
  /\ Do("confirm") /\ Quietly
  /\ \/ /\ link # 0 /\ peer[link] = peer[job.link]
        /\ LET step == Head(job.todo) IN shown.config[step.words[1]] = <<step.words[2]>>
        /\ Go
     \/ EndJob

Get ==
  /\ Do("get") /\ Quietly
  /\ \/ /\ link # 0 /\ peer[link] = peer[job.link]
        /\ IF ModelSupportsFeature(Codename(shown.model), Head(job.todo).words[1])
             THEN Sending(Head(job.todo)) ELSE Go
     \/ EndJob

\* FeaturePacket builds with the model of the moment; Send follows.
Build ==
  /\ Do("execute") /\ Quietly
  /\ LET pkts == FeatureCommandPacket(Head(job.todo).words, Codename(shown.model))
     IN IF pkts = {} THEN EndJob
        ELSE \E pkt \in pkts : job' = [job EXCEPT !.todo[1] = Step("send", <<>>, pkt)]

JobSends ==
  /\ Do("send")
  /\ Send(Head(job.todo).pkt)
  /\ IF Sendable(Head(job.todo).pkt) THEN Go ELSE EndJob
  /\ UNCHANGED JobVars

JobStep ==
  SameConnection \/ DeviceCheck \/ Capture \/ Readback \/ Confirm \/ Get \/ Build \/ JobSends

-----------------------------------------------------------------------------

Init ==
  /\ link = 0 /\ peer = <<>> /\ tx = <<>> /\ rx = <<>>
  /\ shown = Cleared("")
  /\ probe = <<>> /\ later = [k \in {"features", "list"} |-> 0] /\ job = Idle
  /\ buds = Settings
  /\ past = {} /\ owed = {} /\ guessed = {}
  /\ events = [all |-> 0, asks |-> 0]

ProbeStep(l) == l \in DOMAIN probe /\ (ProbeSends(l) \/ ProbeSkips(l) \/ ProbeStops(l))

Serve == ServeQuery \/ ObeySet \/ RefuseSet

Next ==
  \/ \E d \in Earbuds : Connect(d)
  \/ Lose \/ Poll \/ Read \/ Serve \/ JobStep
  \/ \E l \in DOMAIN probe : ProbeStep(l)
  \/ \E kind \in {"features", "list"} : Later(kind)
  \/ \E n \in News : Changes(n) \/ BatteryChanges(n) \/ PeersChange(n)
                        \/ SendsPacket(n) \/ SendsBytes(n)
  \/ \E a \in Asks : Ask(a)

Spec == Init /\ [][Next]_vars

CanRead == link # 0 /\ rx # <<>> /\ ReadPacket(Received).status # "waiting"

JobGoesOn == job.todo # <<>> /\ (Do("send") => CanSend)

ProbeGoesOn(l) ==
  /\ l \in DOMAIN probe /\ ~Ended(probe[l])
  /\ \/ Looked(l) /\ (ProbeWants(l) => CanSend)
     \/ ~isCurrentDevice(l) /\ probe[l].at # Unlooked

LaterGoesOn(kind) == later[kind] > 0 /\ (link # 0 => CanSend)

\* Goroutines run on, and earbuds that are connected take and answer requests: weak
\* fairness of each.  What enables an action is written out, as TLC takes too long to
\* find it by itself.
FairSpec ==
  /\ Spec
  /\ []<>(tx = <<>>) \/ []<><<Serve>>_tx
  /\ []<>~CanRead \/ []<><<Read>>_rx
  /\ []<>~JobGoesOn \/ []<><<JobStep>>_job
  /\ \A l \in 1 .. MaxLinks : []<>~ProbeGoesOn(l) \/ []<><<ProbeStep(l)>>_probe
  /\ \A kind \in {"features", "list"} : []<>~LaterGoesOn(kind) \/ []<><<Later(kind)>>_later

-----------------------------------------------------------------------------
(* Properties.                                                             *)

\* Each variable has its type; a connection has one probe.
TypeOK ==
  /\ peer \in Seq(Earbuds) /\ link \in {0, Len(peer)}
  /\ tx \in Seq(Packets) /\ rx \in Seq(Seq(Bytes))
  /\ shown.model \in {""} \cup {m.Codename : m \in knownModels}
  /\ DOMAIN shown.config = Features
  /\ DOMAIN shown.batteries \subseteq {partNames[i] : i \in 1 .. 6} \cup {"id"}
  /\ DOMAIN shown.earbuds \subseteq {"left", "right"}
  /\ Len(probe) = Len(peer) /\ \A l \in DOMAIN probe : probe[l].at \in 1 .. Len(probes) + 1
  /\ later \in [{"features", "list"} -> Nat] /\ job.link \in 0 .. Len(peer)
  /\ owed \subseteq Features \cup {"peers"}
  /\ events \in [all : 0 .. MaxEvents, asks : 0 .. MaxAsks]

\* What the window shows of the earbuds, as facts that Facts has too.
ShownFacts ==
  {<<f, shown.config[f]>> : f \in {x \in Features : shown.config[x] # <<>>}}
    \cup {<<p, shown.batteries[p]>> : p \in DOMAIN shown.batteries \ guessed}
    \cup {<<"ear", s, shown.earbuds[s]>> : s \in DOMAIN shown.earbuds}
    \cup (IF shown.dualList = <<>> THEN {} ELSE {<<"peers", shown.dualList>>})

Was == past \cup Facts(buds[Device])

\* Whatever is shown of the earbuds was so with them since they are connected: no
\* value of other earbuds or of an earlier connection, none misread, and none of a
\* setting that was only asked for (livestate.go, parse_dispatch.go).  A battery
\* that was read out of an unknown packet is excepted: it may be anything.
ShownWasReported == link # 0 => ShownFacts \subseteq Was

\* When every answer is in, and the list that was announced is asked for, what is
\* shown is what the earbuds are now, except what changed without an event and was
\* not asked for since: events and answers are handled in their order, and what the
\* case was called before the model was known does not stay beside its new name
\* (handleRaw, mergeBatteries).  Again what an unknown packet gave is excepted.
QuietAgrees ==
  link # 0 /\ tx = <<>> /\ rx = <<>> /\ later["list"] = 0 =>
    /\ {fact \in ShownFacts : fact[1] \notin owed} \subseteq Facts(buds[Device])
    /\ ~({"case", "stereo"} \subseteq DOMAIN shown.batteries \ guessed)

\* The earbuds are never asked what could harm them: whoever asks, a packet is a
\* query, or a SET known to be safe, or --unsafe was given and it is not of the
\* forbidden ones; and only an Ear (3) is asked for the modes of its microphone,
\* even if the connection changed while the packet was made (Send, RunQueryScan).
OnlyAllowedTraffic ==
  \A i \in DOMAIN tx :
    LET cmd == tx[i].cmd
    IN /\ cmd \notin UnsafeCommands
       /\ IsQuery(cmd) \/ cmd \in SafeSets \/ (AllowUnsafe /\ cmd \in OtherSets)
       /\ cmd \in micCommands => ModelOf[Device] = "EarThree"

\* Walkie Talkie is switched on only with earbuds whose Super Mic was seen to be on
\* since they were connected, if the connection is that of the request: the
\* acknowledgement of the SET is not enough (writeMicMode).
WalkieNeedsSuperMic ==
  [][JobSends /\ tx' # tx /\ Head(job.todo).pkt = Packet(\hF061, <<1>>) /\ job.link = link
       => <<"super-mic", <<"on">>>> \in Was]_vars

\* What the probe of a connection asks for, as far as the model is known in time.
Probed ==
  /\ shown.batteries # NoMap /\ shown.earbuds # NoMap
  /\ \A f \in {"anc", "lag", "dual"} \cup (IF Device \in Named THEN micFeatures ELSE {}) :
       ModelSupportsFeature(Codename(ModelOf[Device]), f) => shown.config[f] # <<>> \/ f \in owed

\* A connection that stays is probed: in the end the batteries, the state of the
\* earbuds and each setting that the model has are known, though the probe drops
\* every error and stops at the first sign of another device (initialProbe).
ConnectionIsProbed == []<>(link = 0 \/ Probed) \/ []<><<link' # link>>_link

=============================================================================
