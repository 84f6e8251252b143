--------------------------- MODULE SettingsStorage ---------------------------
(* The settings blob in NVS: the layouts of five firmware generations, what  *)
(* loading each of them gives, what a save merges into the blob already      *)
(* there, and the WiFi-only save of the provisioning. Strings that are       *)
(* written, read and merged alike are one value, "" when they are empty: of  *)
(* a broker the host (with port and ttl) and the login (user, password and   *)
(* protocol).                                                                *)
EXTENDS Naturals

CONSTANTS
  Texts,        \* what a group of strings may hold
  OldBlobs,     \* blobs an earlier firmware may have left
  Answers,      \* settings the API or the portal may bring
  WifiInputs,   \* WiFi settings a provisioning channel may save alone
  CompiledWifi  \* credentials compiled in, or ""

WifiSettings ==
  [legacy : Texts, primary : Texts, secondary : Texts, tertiary : Texts, profile : Texts]
Brokers == [host : Texts, login : Texts]
Settings ==
  [config : BOOLEAN, registered : BOOLEAN, interval : Nat,
   primary : Brokers, secondary : Brokers, tertiary : Brokers, topics : Texts,
   profile : Texts, firmware : Texts, update : Texts, wifi : WifiSettings, api : Texts]

\* What is read has been written whole; its groups may hold anything.
ASSUME StorageAssumption ==
  /\ OldBlobs \subseteq [version : 3..7, settings : Settings]
  /\ Answers \subseteq Settings /\ WifiInputs \subseteq WifiSettings
  /\ CompiledWifi \in Texts /\ {"", "default", "ota", "primary"} \subseteq Texts

StorageVersion == 7
NoBlob == [version |-> 0]

VARIABLES
  blob,     \* the blob under "settings"
  running,  \* the settings in memory
  booted,   \* load() has been called in this boot
  saved     \* the last save of memory succeeded and nothing was written after it

storageVars == <<blob, running, booted, saved>>

-----------------------------------------------------------------------------
(* WiFi settings: three profiles, the one selected, and the pair of the      *)
(* first generations, which mirrors it. "half": an SSID with no password.    *)

ValidPair(pair) == pair \notin {"", "half"}
HasAnyProfile(w) == \E p \in {"primary", "secondary", "tertiary"} : ValidPair(w[p])
WifiValid(w) == HasAnyProfile(w) \/ ValidPair(w.legacy)

Selected(w) ==
  IF w.profile \in {"secondary", "tertiary"} /\ ValidPair(w[w.profile])
  THEN w[w.profile] ELSE w.primary

OrPrimary(profile) == IF profile = "" THEN "primary" ELSE profile

SyncSelectedLegacyFields(w) ==
  IF HasAnyProfile(w)
  THEN [w EXCEPT !.legacy = Selected(w), !.profile = OrPrimary(@)]
  ELSE IF w.legacy # "" THEN [w EXCEPT !.primary = w.legacy, !.profile = "primary"]
  ELSE w

DefaultWifi ==
  [legacy |-> "", primary |-> "", secondary |-> "", tertiary |-> "", profile |-> "primary"]
EmptyWifi == [DefaultWifi EXCEPT !.profile = ""]

NoBroker == [host |-> "", login |-> ""]

Defaults ==
  [config |-> FALSE, registered |-> FALSE, interval |-> 60,
   primary |-> NoBroker, secondary |-> NoBroker, tertiary |-> NoBroker,
   topics |-> "default", profile |-> "primary",
   firmware |-> "", update |-> "ota", wifi |-> DefaultWifi, api |-> ""]

\* memset: every string empty, every number zero.
Zeroed ==
  [config |-> FALSE, registered |-> FALSE, interval |-> 0,
   primary |-> NoBroker, secondary |-> NoBroker, tertiary |-> NoBroker,
   topics |-> "", profile |-> "",
   firmware |-> "", update |-> "", wifi |-> EmptyWifi, api |-> ""]

-----------------------------------------------------------------------------
(* Loading. The generation is told by the size of the blob first, and the    *)
(* third and the fourth have one size.                                       *)

SizeOf(version) == IF version = 3 THEN 4 ELSE version
\* The generation load() takes a blob of that size for.
LayoutOf(b) == SizeOf(b.version)
Readable(b) == b # NoBlob /\ LayoutOf(b) = b.version

FromLegacyStoredV4(s) ==
  [Defaults EXCEPT !.config = s.config, !.primary = s.primary, !.secondary = s.secondary,
    !.topics = s.topics, !.profile = OrPrimary(s.profile), !.firmware = s.firmware,
    !.update = s.update, !.wifi.legacy = s.wifi.legacy, !.api = s.api]

FromLegacyStoredV5(s) ==
  [FromLegacyStoredV4(s) EXCEPT !.registered = s.registered, !.tertiary = s.tertiary,
    !.wifi.primary = s.wifi.legacy, !.wifi.profile = "primary"]

FromLegacyStoredV6(s) ==
  [FromLegacyStoredV5(s) EXCEPT !.wifi = SyncSelectedLegacyFields(s.wifi)]

FromStored(s) ==
  [FromLegacyStoredV6(s) EXCEPT !.interval = IF s.interval > 0 THEN s.interval ELSE @]

ApplyCompiledWifiOverride(s) ==
  IF WifiValid(s.wifi) THEN [s EXCEPT !.wifi = SyncSelectedLegacyFields(@)]
  ELSE IF CompiledWifi # ""
  THEN [s EXCEPT !.wifi.legacy = CompiledWifi, !.wifi.primary = CompiledWifi,
                 !.wifi.profile = "primary", !.config = FALSE]
  ELSE s

LoadedFrom(b) ==
  ApplyCompiledWifiOverride(
    CASE b.version = 7 -> FromStored(b.settings)
      [] b.version = 6 -> FromLegacyStoredV6(b.settings)
      [] b.version = 5 -> FromLegacyStoredV5(b.settings)
      [] b.version = 4 -> FromLegacyStoredV4(b.settings))

-----------------------------------------------------------------------------
(* Saving *)

IfNotEmpty(new, old) == IF new = "" THEN old ELSE new

MergeBroker(new, old) ==
  IF new.host = "" THEN old
  ELSE [host |-> new.host, login |-> IfNotEmpty(new.login, old.login)]

ToStoredNoWifi(src, existing) ==
  [existing EXCEPT
    !.config = src.config, !.registered = src.registered, !.interval = src.interval,
    !.primary = MergeBroker(src.primary, @), !.secondary = MergeBroker(src.secondary, @),
    !.tertiary = MergeBroker(src.tertiary, @), !.topics = IfNotEmpty(src.topics, @),
    !.profile = IfNotEmpty(src.profile, @), !.firmware = IfNotEmpty(src.firmware, @),
    !.update = src.update, !.api = IfNotEmpty(src.api, @)]

\* What is empty or invalid keeps what the blob had.
ToStored(src, existing) ==
  LET w == SyncSelectedLegacyFields(src.wifi)
  IN  [existing EXCEPT
        !.config = src.config, !.registered = src.registered, !.interval = src.interval,
        !.primary = MergeBroker(src.primary, @), !.secondary = MergeBroker(src.secondary, @),
        !.tertiary = MergeBroker(src.tertiary, @), !.topics = IfNotEmpty(src.topics, @),
        !.profile = IfNotEmpty(src.profile, @), !.firmware = IfNotEmpty(src.firmware, @),
        !.update = src.update,
        !.wifi = IF WifiValid(w) THEN [w EXCEPT !.profile = OrPrimary(@)] ELSE @,
        !.api = IfNotEmpty(src.api, @)]

SavedOver(existing, src) == [version |-> StorageVersion, settings |-> ToStored(src, existing)]

\* What a save finds to merge with: a blob of the present layout, or zeros, also
\* when it cannot read it.
Existing(b) == IF b.version = StorageVersion THEN b.settings ELSE Zeroed
Found(b) == {Existing(b), Zeroed}

\* The blob saveWiFiOnly edits: an older generation than the sixth is not
\* migrated, its settings are zeroed, as are those it cannot read.
WiFiOnlyBases(b) ==
  IF b.version = 6 THEN {ToStored(FromLegacyStoredV6(b.settings), Zeroed), Zeroed} ELSE Found(b)

\* Every write may fail and leave the blob as it was, or be reported as failed
\* by the commit though it was made.
Writes(new) ==
  \/ blob' = new /\ saved' = TRUE
  \/ blob' \in {blob, new} /\ saved' = FALSE

-----------------------------------------------------------------------------
(* Operations *)

StorageInit ==
  /\ blob \in OldBlobs \cup {NoBlob}
  /\ running = Defaults
  /\ booted = FALSE
  /\ saved = FALSE

\* SettingsManager::init. Initialising NVS may erase it; a blob that is missing,
\* cannot be read, or is of an unknown size or of another version than its size
\* says leaves the defaults.
Load ==
  /\ ~booted
  /\ booted' = TRUE
  /\ blob' \in {blob, NoBlob}
  /\ running' \in {running, IF Readable(blob') THEN LoadedFrom(blob') ELSE running}
  /\ UNCHANGED saved

\* Settings::applyChanges: a group that comes invalid is ignored.
ApplyChanges(s, other) ==
  [s EXCEPT
    !.config = other.config,
    !.registered = @ \/ other.registered,
    !.interval = other.interval,
    !.api = IfNotEmpty(other.api, @),
    !.firmware = IfNotEmpty(other.firmware, @),
    !.update = IF other.firmware = "" THEN @ ELSE other.update,
    !.primary   = IF other.primary.host = "" THEN @ ELSE other.primary,
    !.secondary = IF other.primary.host = "" THEN @ ELSE other.secondary,
    !.tertiary  = IF other.primary.host = "" THEN @ ELSE other.tertiary,
    !.topics    = IF other.primary.host = "" THEN @ ELSE other.topics,
    !.profile   = IF other.primary.host = "" THEN @ ELSE other.profile,
    !.wifi = IF WifiValid(other.wifi) THEN other.wifi ELSE @]

SaveAnswer ==
  /\ booted
  /\ \E other \in Answers : running' = ApplyChanges(running, other)
  /\ \E existing \in Found(blob) : Writes(SavedOver(existing, running'))
  /\ UNCHANGED booted

\* The device restarts after it.
SaveWiFiOnly ==
  /\ booted
  /\ \E wifi \in WifiInputs :
       LET w == SyncSelectedLegacyFields(wifi) IN
       /\ WifiValid(w)
       /\ \E base \in WiFiOnlyBases(blob) :
            blob' \in {blob, [version |-> StorageVersion,
                              settings |-> [base EXCEPT
                                             !.wifi = [w EXCEPT !.profile = OrPrimary(@)]]]}
  /\ saved' = FALSE
  /\ running' = Defaults /\ booted' = FALSE

Erase ==
  /\ booted
  /\ blob' \in {blob, NoBlob}
  /\ saved' = FALSE
  /\ running' = Defaults /\ booted' = FALSE

RestartStorage ==
  /\ booted
  /\ running' = Defaults /\ booted' = FALSE
  /\ saved' = FALSE
  /\ UNCHANGED blob

StorageNext == Load \/ SaveAnswer \/ SaveWiFiOnly \/ Erase \/ RestartStorage

StorageSpec == StorageInit /\ [][StorageNext]_storageVars

-----------------------------------------------------------------------------
(* Properties *)

StorageTypeOK ==
  /\ blob \in {NoBlob} \cup [version : 3..7, settings : Settings]
  /\ running \in Settings
  /\ booted \in BOOLEAN /\ saved \in BOOLEAN

SameBroker(new, old) == new = old \/ (new.host = "" /\ old.host = "")

\* Whatever generation the blob is of, saving what load() made of it and
\* loading again gives the same settings, whether or not the save can read the
\* blob: the first save after an upgrade rewrites it in the new layout and loses
\* nothing but a broker without a host and a WiFi that could not be used, and no
\* such WiFi becomes one that can.
UpgradeIsFaithful ==
  Readable(blob) =>
    LET s == LoadedFrom(blob) IN
    \A existing \in Found(blob) :
      LET t == LoadedFrom(SavedOver(existing, s)) IN
      /\ t = [s EXCEPT !.wifi = t.wifi, !.primary = t.primary, !.secondary = t.secondary,
                       !.tertiary = t.tertiary]
      /\ SameBroker(t.primary, s.primary) /\ SameBroker(t.secondary, s.secondary)
      /\ SameBroker(t.tertiary, s.tertiary)
      /\ IF WifiValid(s.wifi) THEN t.wifi = s.wifi ELSE ~WifiValid(t.wifi)

HasBroker(new, old) ==
  old.host # "" => new.host = old.host /\ (old.login # "" => new.login = old.login)
HasText(new, old) == old # "" => new = old

\* After a save that reported success the next boot finds every broker with its
\* login, topic, profile, API, firmware source, interval and network that the
\* device runs with, and whether it is registered. What memory has empty the
\* next boot may have not: a save never clears a string.
NextBootAgrees ==
  (saved /\ booted) =>
    LET s == LoadedFrom(blob) IN
    /\ s.registered = running.registered /\ s.update = running.update
    /\ running.interval > 0 => s.interval = running.interval
    /\ HasBroker(s.primary, running.primary) /\ HasBroker(s.secondary, running.secondary)
    /\ HasBroker(s.tertiary, running.tertiary)
    /\ HasText(s.topics, running.topics) /\ HasText(s.profile, running.profile)
    /\ HasText(s.firmware, running.firmware) /\ HasText(s.api, running.api)
    /\ WifiValid(running.wifi) => s.wifi = SyncSelectedLegacyFields(running.wifi)

\* What NvsSettingsProvider gives the settings manager: neither an upgrade of the
\* layout nor a save and a restart takes away what the device runs with.
StorageFaithful == UpgradeIsFaithful /\ NextBootAgrees
==============================================================================
