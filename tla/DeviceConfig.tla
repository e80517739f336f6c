---------------------------- MODULE DeviceConfig ----------------------------
(***************************************************************************)
(* The saved devices (internal/bt/config*.go, channel.go): a file with the *)
(* earbuds last bound to the RFCOMM path and the channel each one answered *)
(* on, and the copy of it in memory.  A Remember call changes the copy in  *)
(* place before it writes the file, and the file is cut before it is       *)
(* written: a write that fails, or a crash in it, leaves it Damaged.       *)
(***************************************************************************)
EXTENDS Integers

CONSTANTS
  Devices, NoDevice,
  MaxChannel, DefaultChannel,  \* 63 and 15 in the code
  Malformed,                   \* an entry of the file that is no address
  Absent, Damaged,             \* no file, and one that is not JSON
  Legacy,                      \* the file of the previous version of the app
  NotLoaded, LoadError

Channels == 1..MaxChannel
Saved ==
  [mac : Devices \cup {NoDevice}, channel : [Devices -> {0} \cup Channels]]
FileEntry ==
  [mac : Devices \cup {NoDevice, Malformed}, channel : [Devices -> 0..(MaxChannel + 1)]]

ASSUME ConfigAssumption ==
  /\ MaxChannel \in Nat \ {0} /\ DefaultChannel \in Channels
  /\ NoDevice \notin Devices /\ Malformed \notin Devices \cup {NoDevice}
  /\ Legacy \in FileEntry \cup {Absent}
  /\ Absent \notin FileEntry /\ Damaged \notin FileEntry /\ Absent # Damaged
  /\ NotLoaded \notin Saved /\ LoadError \notin Saved /\ NotLoaded # LoadError

VARIABLES
  file,   \* devices.json
  cache   \* configCache and configLoadErr for its path

Empty == [mac |-> NoDevice, channel |-> [d \in Devices |-> 0]]

\* Entries that do not validate are dropped.
sanitizeConfigMutant(cfg) == cfg
sanitizeConfig(cfg) ==
  [mac |-> IF cfg.mac \in Devices THEN cfg.mac ELSE NoDevice,
   channel |-> [d \in Devices |-> IF cfg.channel[d] \in Channels THEN cfg.channel[d] ELSE 0]]

loadConfigFromDisk ==
  LET found == IF file = Absent THEN Legacy ELSE file
  IN  CASE found = Absent -> Empty
        [] found = Damaged -> LoadError
        [] OTHER -> sanitizeConfig(found)

LoadConfig == IF cache = NotLoaded THEN loadConfigFromDisk ELSE cache
Load == cache' = LoadConfig /\ UNCHANGED file

LookupDeviceMAC == IF LoadConfig = LoadError THEN NoDevice ELSE LoadConfig.mac

ResolveDeviceChannel(d) ==
  IF LoadConfig # LoadError /\ LoadConfig.channel[d] > 0
  THEN LoadConfig.channel[d]
  ELSE DefaultChannel

\* What each Remember call stores, given what is loaded.
withMAC(cfg, d) == [cfg EXCEPT !.mac = d]
withChannelMutant(cfg, d, ch) == [cfg EXCEPT !.channel[d] = DefaultChannel]
withChannelAlone(cfg, d, ch) == [cfg EXCEPT !.channel = [e \in Devices |-> IF e = d THEN ch ELSE 0]]
withChannel(cfg, d, ch) == [cfg EXCEPT !.channel[d] = ch]

\* SaveConfig: all of it, refused before the file is cut, or cut short.
SaveConfig(cfg) == file' = sanitizeConfig(cfg) /\ cache' = NotLoaded
SaveFails(cfg) == file' \in {file, Damaged} /\ cache' = cfg

\* The program starts again, having perhaps died while it wrote the file.
Restart(writing) ==
  file' \in {file} \cup (IF writing THEN {Damaged} ELSE {}) /\ cache' = NotLoaded
=============================================================================
