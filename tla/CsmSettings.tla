----------------------------- MODULE CsmSettings -----------------------------
(***************************************************************************)
(* The settings service of src/csm: two files, the settings with the mode  *)
(* and a reference to the credentials they were saved with, and the        *)
(* credentials themselves.  Each file is replaced atomically, the pair is  *)
(* not: a save writes the credentials first, and a crash or a reader of    *)
(* another thread can fall between.                                        *)
(*                                                                         *)
(* The requests are handled one after the other by the event loop of the   *)
(* web server.  Credentials are numbered by the saves that wrote them; 0   *)
(* are the empty ones every installation starts with.                      *)
(***************************************************************************)
EXTENDS Naturals

CONSTANTS MaxSaves    \* bound: calls of save_settings

ASSUME SavesAssumption == MaxSaves \in Nat

VARIABLES
  settings,      \* the settings file: mode, ref (credentialsRef)
  credentials,   \* the credentials file: id, keys (appKey and appSecret present)
  request,       \* what is left of the request in progress
  engine_state   \* "DOWN", "BOOTING", or the engine state of the running process

csmVars == <<settings, credentials, request, engine_state>>

Modes == {"mock", "live"}
NoFile == [id |-> "NONE"]
NoRequest == [todo |-> "nothing"]

default_settings == [mode |-> "mock", ref |-> 0]
default_credentials == [id |-> 0, keys |-> FALSE]

CsmInit ==
  /\ settings = NoFile
  /\ credentials = NoFile
  /\ request = NoRequest
  /\ engine_state = "DOWN"

-----------------------------------------------------------------------------
(* A new process makes sure that both files exist before it serves requests. *)

ensure_settings ==
  /\ engine_state = "DOWN"
  /\ engine_state' = "BOOTING"
  /\ settings' = IF settings = NoFile THEN default_settings ELSE settings
  /\ UNCHANGED <<credentials, request>>

ensure_credentials ==
  /\ engine_state = "BOOTING"
  /\ engine_state' = "IDLE"
  /\ credentials' = IF credentials = NoFile THEN default_credentials ELSE credentials
  /\ UNCHANGED <<settings, request>>

-----------------------------------------------------------------------------
(* The requests.                                                             *)

serving == engine_state \in {"IDLE", "RUNNING"} /\ request = NoRequest

\* validate_mode; the credential of a request is complete, or the request is refused.
validate_mode(mode, live_mode_confirmed) ==
  /\ mode \in Modes
  /\ mode = "live" => live_mode_confirmed

\* Faulty variant: the settings are written before the credentials they refer to.
write_credentials_last(mode) ==
  /\ settings' = [mode |-> mode, ref |-> credentials.id + 1]
  /\ request' = [todo |-> "write_settings", mode |-> mode]
  /\ UNCHANGED <<credentials, engine_state>>

write_credentials(mode) ==
  /\ credentials' = [id |-> credentials.id + 1, keys |-> TRUE]
  /\ request' = [todo |-> "write_settings", mode |-> mode]
  /\ UNCHANGED <<settings, engine_state>>

\* save_settings looks neither at the engine nor at the mode it replaces.
save_settings ==
  /\ serving
  /\ credentials.id < MaxSaves
  /\ \E mode \in Modes, confirmed \in BOOLEAN :
       /\ validate_mode(mode, confirmed)
       /\ write_credentials(mode)

write_settings ==
  /\ request.todo = "write_settings"
  /\ settings' = [mode |-> request.mode, ref |-> credentials.id]
  /\ request' = NoRequest
  /\ UNCHANGED <<credentials, engine_state>>

\* switch_mode: the guard the application service hands over always claims that no
\* order and no position is open, so only the engine state decides.
switch_mode ==
  /\ serving
  /\ \E mode \in Modes, confirmed \in BOOLEAN :
       /\ validate_mode(mode, confirmed)
       /\ engine_state = "IDLE"
       /\ settings' = [settings EXCEPT !.mode = mode]
  /\ UNCHANGED <<credentials, request, engine_state>>

CsmStep == ensure_settings \/ ensure_credentials \/ save_settings \/ write_settings \/ switch_mode

\* The process ends: the files stay as they are.
CsmCrash ==
  /\ engine_state # "DOWN"
  /\ engine_state' = "DOWN"
  /\ request' = NoRequest
  /\ UNCHANGED <<settings, credentials>>

-----------------------------------------------------------------------------
(* Types and safety.                                                         *)

Settings == [mode : Modes, ref : Nat]
Credentials == [id : Nat, keys : BOOLEAN]

CsmTypeOK ==
  /\ settings = NoFile \/ settings \in Settings
  /\ credentials = NoFile \/ credentials \in Credentials
  /\ request = NoRequest \/ (request.todo = "write_settings" /\ request.mode \in Modes)
  /\ engine_state \in {"DOWN", "BOOTING", "IDLE", "RUNNING"}
  /\ engine_state # "DOWN" => settings # NoFile
  /\ engine_state \in {"IDLE", "RUNNING"} => credentials # NoFile

(* The settings file never refers to credentials that were not written yet,  *)
(* and saved settings never stand beside empty credentials, whatever crashes *)
(* between the two writes of save_settings.  Settings that still name older  *)
(* credentials than those written last are what such a crash leaves.         *)
SettingsNameWrittenCredentials ==
  settings # NoFile /\ settings.ref > 0 =>
    /\ credentials # NoFile
    /\ settings.ref <= credentials.id
    /\ credentials.keys

=============================================================================
