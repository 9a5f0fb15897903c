---------------------------- MODULE DriverConfig ----------------------------
(***************************************************************************)
(* The configuration of the driver: driver_config_json, parsed from the    *)
(* file ./etc/iotedge/config.json when it is first needed, and the values  *)
(* the getters keep once they have found them.  Nothing here is locked:    *)
(* two threads that both find NULL both parse the file, and the second     *)
(* assignment wins, even if it is NULL.                                    *)
(*                                                                         *)
(* The four getters (edge_get_driver_info, edge_get_device_info,           *)
(* edge_get_product_sn, edge_get_device_sn) have the same shape; one of    *)
(* them, with the value driver_info, stands for all.  edge_common_init     *)
(* reads the file through the same _get_driver_cfg: see Driver.            *)
(***************************************************************************)
EXTENDS Naturals

CONSTANTS
  Readers,    \* threads that may need the configuration
  Contents    \* what the file may hold: each member is the set of keys in it

Keys == {"driverID", "driverName", "driverInfo"}
NoConfig == {"NULL"}        \* driver_config_json = NULL

ASSUME DriverConfigAssumption == Contents \subseteq SUBSET Keys

VARIABLES
  driver_config_json, \* the keys of the parsed file
  driver_info,        \* whether the getter has kept its value
  gpc                 \* per thread: position in _get_driver_cfg

configVars == <<driver_config_json, driver_info, gpc>>

ConfigTypeOK ==
  /\ driver_config_json \in Contents \union {NoConfig}
  /\ driver_info \in BOOLEAN
  /\ gpc \in [Readers -> {"idle", "asked", "reading", "loaded",
                          "lookup", "rereading", "reloaded", "failed"}]

ConfigInit ==
  /\ driver_config_json = NoConfig
  /\ driver_info = FALSE
  /\ gpc = [t \in Readers |-> "idle"]

Goto(t, l) == gpc' = [gpc EXCEPT ![t] = l]

\* A getter is called and has no value yet.  (With one it returns it.)
GetterCalled(t) ==
  /\ gpc[t] = "idle"
  /\ ~ driver_info
  /\ Goto(t, "asked")
  /\ UNCHANGED <<driver_config_json, driver_info>>

\* Mutant: the file is parsed by every call.
ChecksConfigNever(t) ==
  /\ \/ gpc[t] = "asked" /\ Goto(t, "reading")
     \/ gpc[t] = "lookup" /\ Goto(t, "rereading")
  /\ UNCHANGED <<driver_config_json, driver_info>>

\* _get_driver_cfg, called once for the test and once for the lookup, looks
\* whether the file was parsed before.
ChecksConfig(t) ==
  /\ \/ gpc[t] = "asked"
        /\ Goto(t, IF driver_config_json = NoConfig THEN "reading" ELSE "loaded")
     \/ gpc[t] = "lookup"
        /\ Goto(t, IF driver_config_json = NoConfig THEN "rereading" ELSE "reloaded")
  /\ UNCHANGED <<driver_config_json, driver_info>>

Parsing(t) == gpc[t] \in {"reading", "rereading"}

\* It measures, opens, reads and parses the file, which whoever deploys the
\* driver may have replaced since the last time, or has yet to write, and assigns
\* driver_config_json, whatever another thread has assigned meanwhile.  A missing
\* file, or a buffer that cannot be allocated, ends the call with NULL before the
\* assignment; a file replaced between measuring and reading is cut and does not
\* parse, nor does anything when memory runs out.
ReadsFile(t) ==
  /\ Parsing(t)
  /\ \/ /\ Goto(t, "failed")
        /\ UNCHANGED driver_config_json
     \/ /\ driver_config_json' \in {NoConfig} \union Contents
        /\ Goto(t, IF gpc[t] = "reading" THEN "loaded" ELSE "reloaded")
  /\ UNCHANGED driver_info

\* The first call returns driver_config_json, as it is now, and the caller tests
\* it for NULL.
TestsConfig(t) ==
  /\ gpc[t] = "loaded"
  /\ Goto(t, IF driver_config_json = NoConfig THEN "failed" ELSE "lookup")
  /\ UNCHANGED <<driver_config_json, driver_info>>

\* The second call returns driver_config_json, as it is now, and a key is looked
\* up in it; there is none in NULL.
Finds(t, key) == gpc[t] = "reloaded" /\ key \in driver_config_json
FindsNot(t, key) == gpc[t] = "failed" \/ (gpc[t] = "reloaded" /\ key \notin driver_config_json)

\* The getter finds its key, keeps the value and returns it, or returns NULL.
\* (cJSON_Print returns NULL when memory runs out, and that is kept as well.)
GetterReturns(t) ==
  /\ \/ Finds(t, "driverInfo") /\ driver_info' \in BOOLEAN
     \/ FindsNot(t, "driverInfo") /\ UNCHANGED driver_info
  /\ Goto(t, "idle")
  /\ UNCHANGED driver_config_json

ConfigStep(t) == ChecksConfig(t) \/ ReadsFile(t) \/ TestsConfig(t)

\* The file was parsed, and no thread that had found nothing is still at it.
Settled == driver_config_json # NoConfig /\ \A t \in Readers : ~ Parsing(t)

=============================================================================
