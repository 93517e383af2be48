------------------------------- MODULE Startup -------------------------------
(***************************************************************************)
(* From the command line to a serving process: Config (config.py) read     *)
(* from the environment and a TOML file, each setting converted and the    *)
(* whole validated, and main (__main__.py), which checks the firewall      *)
(* before it serves.                                                       *)
(*                                                                         *)
(* Environment variables are text and TOML values are typed, so the same   *)
(* setting goes through different conversions.  Text is opaque here; what  *)
(* float(), int() and lower() make of it is a parameter.                   *)
(***************************************************************************)
EXTENDS Integers, Dicts

CONSTANTS
  Number,     \* Number[text] is what float(text) returns, or Bad
  Whole,      \* the texts int() takes
  Lower,      \* Lower[text] is text.lower()
  NaN,        \* float("nan"), which is below, above and equal to nothing
  Bad,        \* the conversion raises ValueError
  HttpsUrl,   \* the texts that start with https://
  Environs,   \* environments to start in: environment variable |-> text
  Files       \* TOML files, parsed: key |-> value

VARIABLES
  phase,      \* "starting", "checking", "serving" or "exited"
  environ,
  file,
  config,     \* the Config, once loaded
  status      \* exit status

(* What is not set. *)
Unset == ""

(* What float(), int() and lower() make of the texts that from_env defaults
   to; no url is empty. *)
ASSUME DefaultsAssumption ==
  /\ Number["60.0"] = 60 /\ Number["8000"] = 8000 /\ Number["120.0"] = 120
  /\ "8000" \in Whole /\ NaN # 8000
  /\ Lower["true"] = "true"
  /\ Unset \notin HttpsUrl

startupVars == <<phase, environ, file, config, status>>

(* api_secret is treated like api_key, connect_timeout like read_timeout, and
   http_host is a string nobody looks at. *)
Setting ==
  {"url", "api_key", "verify_tls", "read_timeout", "transport", "http_port",
   "confirm_ttl_seconds"}

(* f"OPNSENSE_{key.upper()}", and for the TTL a name of its own. *)
GenericName(key) == <<"OPNSENSE", key>>
EnvName(key) == IF key = "confirm_ttl_seconds" THEN <<"OPNSENSE", "confirm_ttl">>
                                               ELSE GenericName(key)

-----------------------------------------------------------------------------
(* Conversions.  A TOML value is [type |-> "str", value |-> a text], or of    *)
(* type "bool" or "num".                                                     *)

(* Mutation of BoolFromStr: what is not a yes is a no. *)
TrueFromStr(text) == Lower[text] = "true"

BoolFromStr(text) == Lower[text] \notin {"false", "0", "no"}

Bool(v) ==
  CASE v.type = "str"  -> v.value # Unset
    [] v.type = "bool" -> v.value
    [] v.type = "num"  -> v.value # 0

Float(v) ==
  CASE v.type = "str"  -> Number[v.value]
    [] v.type = "bool" -> IF v.value THEN 1 ELSE 0
    [] v.type = "num"  -> v.value

(* int() takes fewer texts than float(), and no nan. *)
Integer(v) ==
  IF (v.type = "str" /\ v.value \notin Whole) \/ Float(v) = NaN THEN Bad ELSE Float(v)

(* str() of what is no string gives a text that means nothing to anybody. *)
Str(v) == IF v.type = "str" THEN v.value ELSE "other"

FromText(key, text) ==
  CASE key \in {"url", "api_key"} -> text
    [] key = "transport" -> IF text = "http" THEN "http" ELSE "stdio"
    [] key = "verify_tls" -> BoolFromStr(text)
    [] key \in {"read_timeout", "confirm_ttl_seconds"} -> Number[text]
    [] key = "http_port" -> Integer([type |-> "str", value |-> text])

FromValue(key, v) ==
  CASE key \in {"url", "api_key"} -> Str(v)
    [] key = "transport" -> IF Str(v) = "http" THEN "http" ELSE "stdio"
    [] key = "verify_tls" -> Bool(v)
    [] key \in {"read_timeout", "confirm_ttl_seconds"} -> Float(v)
    [] key = "http_port" -> Integer(v)

Default ==
  [url |-> Unset, api_key |-> Unset, verify_tls |-> TRUE, read_timeout |-> 60,
   transport |-> "stdio", http_port |-> 8000, confirm_ttl_seconds |-> 120]

(* x <= bound in Python: False when x is nan. *)
AtMost(x, bound) == IF x = NaN THEN FALSE ELSE x <= bound

(* __post_init__, after conversions that did not raise. *)
Validated(c) ==
  /\ \A key \in {"read_timeout", "http_port", "confirm_ttl_seconds"} : c[key] # Bad
  /\ c.url \in HttpsUrl
  /\ c.api_key # Unset
  /\ ~AtMost(c.read_timeout, 0)
  /\ 1 <= c.http_port /\ c.http_port <= 65535
  /\ ~AtMost(c.confirm_ttl_seconds, 0)

(* Mutation of FromBoth: the TTL goes by the generic name. *)
FromBothGeneric(env, toml) ==
  [key \in Setting |->
     IF GenericName(key) \in DOMAIN env THEN FromText(key, env[GenericName(key)])
     ELSE IF key \in DOMAIN toml THEN FromValue(key, toml[key])
     ELSE Default[key]]

(* Mutation of FromBoth: what the file says goes through bool(str(...)). *)
FromBothAsText(env, toml) ==
  [key \in Setting |->
     IF EnvName(key) \in DOMAIN env THEN FromText(key, env[EnvName(key)])
     ELSE IF key \in DOMAIN toml
       THEN IF key = "verify_tls" THEN BoolFromStr(Str(toml[key])) ELSE FromValue(key, toml[key])
     ELSE Default[key]]

(* Mutation of FromBoth: the file takes precedence. *)
FromBothFileFirst(env, toml) ==
  [key \in Setting |->
     IF key \in DOMAIN toml THEN FromValue(key, toml[key])
     ELSE IF EnvName(key) \in DOMAIN env THEN FromText(key, env[EnvName(key)])
     ELSE Default[key]]

(* Config.load: per setting the environment, the file, or the default. *)
FromBoth(env, toml) ==
  [key \in Setting |->
     IF EnvName(key) \in DOMAIN env THEN FromText(key, env[EnvName(key)])
     ELSE IF key \in DOMAIN toml THEN FromValue(key, toml[key])
     ELSE Default[key]]

(* Config.from_env: the text of the environment, or the default as text. *)
DefaultText ==
  [url |-> Unset, api_key |-> Unset, verify_tls |-> "true", read_timeout |-> "60.0",
   transport |-> "stdio", http_port |-> "8000", confirm_ttl_seconds |-> "120.0"]

FromEnv(env) ==
  [key \in Setting |->
     FromText(key, IF EnvName(key) \in DOMAIN env THEN env[EnvName(key)]
                                                  ELSE DefaultText[key])]

(* Config.from_toml: raw["url"] and raw["api_key"] raise when they are not
   there, and the class is not made. *)
FromToml(toml) ==
  [key \in Setting |->
     IF key \in DOMAIN toml THEN FromValue(key, toml[key]) ELSE Default[key]]

-----------------------------------------------------------------------------
(* main.                                                                     *)

StartupInit ==
  /\ phase = "starting"
  /\ environ \in Environs
  /\ file \in Files
  /\ config = EmptyDict
  /\ status = 0

Exit(code) == phase' = "exited" /\ status' = code

LoadConfig ==
  /\ phase = "starting"
  /\ Validated(FromBoth(environ, file))
  /\ config' = FromBoth(environ, file)
  /\ phase' = "checking"
  /\ UNCHANGED <<environ, file, status>>

(* ValueError: "Configuration error". *)
RejectConfig ==
  /\ phase = "starting"
  /\ ~Validated(FromBoth(environ, file))
  /\ Exit(1)
  /\ UNCHANGED <<environ, file, config>>

(* _startup_check: core/system/status answered. *)
CheckPasses ==
  /\ phase = "checking"
  /\ phase' = "serving"
  /\ UNCHANGED <<environ, file, config, status>>

(* OPNsenseAPIError, ToolError, or an exception that ends in a traceback. *)
CheckFails ==
  /\ phase = "checking"
  /\ Exit(1)
  /\ UNCHANGED <<environ, file, config>>

(* mcp.run ends: over HTTP the port may be in use. *)
ServerEnds ==
  /\ phase = "serving"
  /\ \/ Exit(0)
     \/ config.transport = "http" /\ Exit(1)
  /\ UNCHANGED <<environ, file, config>>

StartupNext ==
  LoadConfig \/ RejectConfig \/ CheckPasses \/ CheckFails \/ ServerEnds

StartupSpec == StartupInit /\ [][StartupNext]_startupVars

-----------------------------------------------------------------------------

(* Whoever asks the environment alone gets what main would: without a file,
   load and from_env accept the same environments and agree on every setting,
   although the one defaults numbers and the other texts. *)
LoadAgreesWithFromEnv ==
  phase # "starting" /\ file = EmptyDict =>
    IF config = EmptyDict THEN ~Validated(FromEnv(environ)) ELSE config = FromEnv(environ)

(* And likewise load in an empty environment and from_toml. *)
LoadAgreesWithFromToml ==
  phase # "starting" /\ environ = EmptyDict =>
    IF config = EmptyDict
    THEN {"url", "api_key"} \subseteq DOMAIN file => ~Validated(FromToml(file))
    ELSE /\ {"url", "api_key"} \subseteq DOMAIN file
         /\ config = FromToml(file)

(* The three constructors of Config are one function of their sources. *)
LoadAgrees == LoadAgreesWithFromEnv /\ LoadAgreesWithFromToml

(* From the startup check on, which sends the credentials first, the process
   does not talk to the firewall in clear text, and it verifies certificates
   unless told not to: by an environment that says false, 0 or no, in whatever
   case; or, if it says nothing at all, by what bool() takes for a no in the
   file.  A file's no does not count against an environment's yes. *)
TlsUnlessToldOtherwise ==
  phase \in {"checking", "serving"} =>
    /\ config.url \in HttpsUrl
    /\ ~config.verify_tls =>
         IF EnvName("verify_tls") \in DOMAIN environ
         THEN Lower[environ[EnvName("verify_tls")]] \in {"false", "0", "no"}
         ELSE "verify_tls" \in DOMAIN file /\ ~Bool(file["verify_tls"])
=============================================================================
