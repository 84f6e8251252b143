---------------------------- MODULE FirmwareUpdate ----------------------------
(* OTAManager and FirmwareUpdater: the main loop looks for a newer firmware  *)
(* once per boot, downloads it into the other partition, checks its hash and *)
(* restarts into it. Network, server and power fail between any two steps.   *)
EXTENDS Naturals

CONSTANTS
  MaxRetries, \* FW_OTA_MAX_HTTP_RETRIES
  ImageSize,  \* content length of the firmware, in buffers
  MaxMishaps  \* bound on lost networks, failed downloads and restarts

ASSUME FirmwareAssumption ==
  MaxRetries \in Nat \ {0} /\ ImageSize \in Nat \ {0} /\ MaxMishaps \in Nat

VARIABLES
  method,     \* firmware.update of the settings: "none", "ota" or "auto"
  verify,     \* firmware.verify_sha256
  gates,      \* settings available, network ready
  checked,    \* _updateHasChecked
  fallback,   \* _fallbackToOtaRuntime
  arduinoOta, \* OTA::_initialized
  updater,    \* where checkAndUpdate is
  boot,       \* the image the next boot starts
  firmware,   \* the image running
  mishaps

firmwareVars == <<method, verify, gates, checked, fallback, arduinoOta, updater,
                  boot, firmware, mishaps>>

Idle == [at |-> "idle", attempt |-> 0, written |-> 0, image |-> "intended", hash |-> "usable"]

FirmwareInit ==
  /\ method \in {"none", "ota", "auto"} /\ verify \in BOOLEAN
  /\ gates = [settings |-> FALSE, network |-> FALSE]
  /\ checked = FALSE /\ fallback = FALSE /\ arduinoOta = FALSE
  /\ updater = Idle
  /\ boot = "old" /\ firmware = "old"
  /\ mishaps = MaxMishaps

Mishap == mishaps > 0 /\ mishaps' = mishaps - 1

-----------------------------------------------------------------------------
(* OTAManager::handle *)

Method == IF fallback /\ method = "auto" THEN "ota" ELSE method

ArduinoOtaSetup == ~arduinoOta /\ arduinoOta' = TRUE

OtaHandle ==
  /\ updater.at = "idle" /\ firmware = "old"
  /\ gates.settings /\ gates.network
  /\ \/ Method = "ota" /\ ArduinoOtaSetup /\ UNCHANGED updater
     \/ /\ Method = "auto" /\ ~checked
        /\ updater' = [Idle EXCEPT !.at = "manifest", !.attempt = 1]
        /\ UNCHANGED arduinoOta
  /\ UNCHANGED <<method, verify, gates, checked, fallback, boot, firmware, mishaps>>

-----------------------------------------------------------------------------
(* The manifest *)

\* checkAndUpdate ends without a download; a manifest that is not there makes
\* OTAManager fall back to updates pushed to the device.
KeepsLooking(notFound) ==
  /\ updater' = Idle
  /\ fallback' = (fallback \/ notFound)
  /\ UNCHANGED checked
Concluded(notFound) ==
  /\ updater' = Idle
  /\ checked' = TRUE
  /\ fallback' = (fallback \/ notFound)

FetchManifest ==
  /\ updater.at = "manifest"
  /\ IF updater.attempt = 1 /\ ~gates.network THEN Concluded(FALSE)
     ELSE \E answer \in {"ok", "not_found", "error"} :
       CASE answer = "ok" -> updater' = [updater EXCEPT !.at = "parse"]
                             /\ UNCHANGED <<checked, fallback>>
         [] answer = "not_found" -> Concluded(TRUE)
         [] answer = "error" ->
              IF updater.attempt < MaxRetries
              THEN updater' = [updater EXCEPT !.attempt = @ + 1] /\ UNCHANGED <<checked, fallback>>
              ELSE Concluded(FALSE)
  /\ UNCHANGED <<method, verify, gates, arduinoOta, boot, firmware, mishaps>>

\* An unusable hash is of another type or length than sha256 in hexadecimal.
ParseManifest ==
  /\ updater.at = "parse"
  /\ \/ \E hash \in {"usable", "unusable"} :
          /\ updater' = [updater EXCEPT !.at = "open", !.hash = hash]
          /\ UNCHANGED <<checked, fallback>>
     \/ Concluded(FALSE)   \* not valid, or not newer
  /\ UNCHANGED <<method, verify, gates, arduinoOta, boot, firmware, mishaps>>

-----------------------------------------------------------------------------
(* performOta. Its failures leave checked as it was: the next turn of the    *)
(* main loop starts again with the manifest.                                 *)

OpenDownload ==
  /\ updater.at = "open"
  /\ \/ ~gates.network /\ updater' = Idle /\ UNCHANGED mishaps
     \/ gates.network /\ Mishap /\ updater' = Idle
     \/ /\ gates.network
        /\ updater' = [updater EXCEPT !.at = "download"]
        /\ UNCHANGED mishaps
  /\ UNCHANGED <<method, verify, gates, checked, fallback, arduinoOta, boot, firmware>>

\* One buffer is read, hashed and written; the server closes, or the flash
\* refuses the write.
Download ==
  /\ updater.at = "download"
  /\ \/ /\ updater.written < ImageSize
        /\ updater' = [updater EXCEPT !.written = @ + 1]
        /\ UNCHANGED mishaps
     \/ /\ updater.written < ImageSize
        /\ Mishap
        /\ updater' \in {[updater EXCEPT !.written = @ + 1, !.image = "damaged"],
                         [updater EXCEPT !.at = "check"],
                         Idle}
     \/ /\ updater.written = ImageSize
        /\ updater' = [updater EXCEPT !.at = "check"]
        /\ UNCHANGED mishaps
  /\ UNCHANGED <<method, verify, gates, checked, fallback, arduinoOta, boot, firmware>>

\* Update.end() activates an image that is complete and aborts one that is not.
UpdateEnd ==
  IF updater.written = ImageSize THEN boot' \in {boot, updater.image} ELSE UNCHANGED boot

HashIgnored == FALSE
HashRefuses == verify /\ updater.hash = "usable" /\ updater.image = "damaged"

CheckFails ==
  /\ updater.at = "check"
  /\ updater.written # ImageSize \/ HashRefuses
  /\ UpdateEnd
  /\ updater' = Idle
  /\ UNCHANGED <<method, verify, gates, checked, fallback, arduinoOta, firmware, mishaps>>

\* Update.end() and ESP.restart(), which starts what end() activated; end()
\* itself may fail.
Finish ==
  /\ updater.at = "check"
  /\ updater.written = ImageSize /\ ~HashRefuses
  /\ \/ /\ boot' = updater.image /\ firmware' = boot'
        /\ checked' = FALSE /\ fallback' = FALSE /\ arduinoOta' = FALSE
        /\ gates' = [settings |-> FALSE, network |-> FALSE]
        /\ UNCHANGED mishaps
     \/ Mishap /\ UNCHANGED <<boot, firmware, checked, fallback, arduinoOta, gates>>
  /\ updater' = Idle
  /\ UNCHANGED <<method, verify>>

CheckAndUpdate == FetchManifest \/ ParseManifest \/ OpenDownload \/ Download \/ CheckFails \/ Finish

-----------------------------------------------------------------------------
(* The environment *)

GatesOpen ==
  /\ gates' = [settings |-> TRUE, network |-> TRUE] /\ gates' # gates
  /\ UNCHANGED <<method, verify, checked, fallback, arduinoOta, updater, boot, firmware, mishaps>>

NetworkLost ==
  /\ gates.network /\ Mishap
  /\ gates' = [gates EXCEPT !.network = FALSE]
  /\ UNCHANGED <<method, verify, checked, fallback, arduinoOta, updater, boot, firmware>>

PowerCycle ==
  /\ Mishap
  /\ firmware' = boot
  /\ gates' = [settings |-> FALSE, network |-> FALSE]
  /\ checked' = FALSE /\ fallback' = FALSE /\ arduinoOta' = FALSE
  /\ updater' = Idle
  /\ UNCHANGED <<method, verify, boot>>

FirmwareNext == OtaHandle \/ CheckAndUpdate \/ GatesOpen \/ NetworkLost \/ PowerCycle

\* The main loop keeps turning, the network comes back, and a connection the
\* server neither feeds nor closes is outside the model.
FirmwareFairness ==
  /\ WF_firmwareVars(OtaHandle) /\ WF_firmwareVars(CheckAndUpdate)
  /\ WF_firmwareVars(GatesOpen)

FirmwareSpec == FirmwareInit /\ [][FirmwareNext]_firmwareVars /\ FirmwareFairness

-----------------------------------------------------------------------------
(* Properties *)

UpdaterStates ==
  [at : {"idle", "manifest", "parse", "open", "download", "check"},
   attempt : 0..MaxRetries, written : 0..ImageSize,
   image : {"intended", "damaged"}, hash : {"usable", "unusable"}]

FirmwareTypeOK ==
  /\ method \in {"none", "ota", "auto"} /\ verify \in BOOLEAN
  /\ gates \in [settings : BOOLEAN, network : BOOLEAN]
  /\ checked \in BOOLEAN /\ fallback \in BOOLEAN /\ arduinoOta \in BOOLEAN
  /\ updater \in UpdaterStates
  /\ boot \in {"old", "intended", "damaged"} /\ firmware \in {"old", "intended", "damaged"}
  /\ mishaps \in 0..MaxMishaps

\* The updater itself restarts the device only into an image that was complete
\* and, when the settings ask for it and the manifest declares a hash, had it.
RestartsVerified ==
  [][(updater.at = "check" /\ firmware' # firmware /\ mishaps' = mishaps)
       => /\ updater.written = ImageSize
          /\ (verify /\ updater.hash = "usable") => firmware' = "intended"]_firmwareVars

\* An automatic check comes to an end once failed downloads do, which are
\* bounded here: a server that answers with errors, or never has a manifest,
\* does not keep the main loop asking for ever.
CheckConcludes ==
  <>[](method = "auto" => checked \/ firmware # "old")
==============================================================================
