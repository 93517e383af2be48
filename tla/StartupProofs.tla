---------------------------- MODULE StartupProofs ----------------------------
(***************************************************************************)
(* Theorems about Startup, for any environment and any file: the three     *)
(* ways to make a Config agree, and a process that talks to the firewall   *)
(* checks its certificate unless it was told not to.                       *)
(*                                                                         *)
(* Both are about what the sources of a setting say at the start and what  *)
(* the Config says later, so the invariant is that the Config, once        *)
(* loaded, is still what the sources made it, and was valid.               *)
(***************************************************************************)
EXTENDS Startup, TLAPS

Loaded == FromBoth(environ, file)

ConfigInv ==
  /\ phase \in {"starting", "checking", "serving", "exited"}
  /\ phase = "starting" => config = EmptyDict
  /\ phase \in {"checking", "serving"} => config = Loaded /\ Validated(Loaded)
  /\ phase = "exited" =>
       \/ config = Loaded /\ Validated(Loaded)
       \/ config = EmptyDict /\ ~Validated(Loaded)

LEMMA ConfigInvariance == StartupSpec => []ConfigInv
<1>1. StartupInit => ConfigInv
  BY DEF StartupInit, ConfigInv
<1>2. ConfigInv /\ [StartupNext]_startupVars => ConfigInv'
  <2> SUFFICES ASSUME ConfigInv, [StartupNext]_startupVars PROVE ConfigInv'
    OBVIOUS
  <2>1. environ' = environ /\ file' = file /\ Loaded' = Loaded
    BY DEF StartupNext, LoadConfig, RejectConfig, CheckPasses, CheckFails, ServerEnds,
           startupVars, Loaded
  <2>2. Validated(Loaded)' <=> Validated(Loaded)
    BY <2>1 DEF Validated, AtMost
  <2>3. /\ \/ phase = "starting" /\ phase' = "checking" /\ Validated(Loaded) /\ config' = Loaded
           \/ phase = "starting" /\ phase' = "exited" /\ ~Validated(Loaded) /\ config' = config
           \/ phase = "checking" /\ phase' \in {"serving", "exited"} /\ config' = config
           \/ phase = "serving" /\ phase' = "exited" /\ config' = config
           \/ phase' = phase /\ config' = config
    BY DEF StartupNext, LoadConfig, RejectConfig, CheckPasses, CheckFails, ServerEnds, Exit,
           startupVars, Loaded
  <2> QED
    BY <2>1, <2>2, <2>3 DEF ConfigInv
<1> QED
  BY <1>1, <1>2, PTL DEF StartupSpec

-----------------------------------------------------------------------------

(* The text from_env defaults to is converted to what load defaults to. *)
LEMMA DefaultsAgree ==
  ASSUME NEW key \in Setting
  PROVE  FromText(key, DefaultText[key]) = Default[key]
<1>1. CASE key \in {"url", "api_key"}
  BY <1>1 DEF FromText, DefaultText, Default
<1>2. CASE key = "transport"
  BY <1>2 DEF FromText, DefaultText, Default
<1>3. CASE key = "verify_tls"
  <2>1. FromText(key, DefaultText[key]) = BoolFromStr("true") /\ Default[key] = TRUE
    BY <1>3 DEF FromText, DefaultText, Default
  <2>2. BoolFromStr("true") = TRUE
    BY DefaultsAssumption DEF BoolFromStr
  <2> QED
    BY <2>1, <2>2, Zenon
<1>4. CASE key \in {"read_timeout", "confirm_ttl_seconds"}
  BY <1>4, DefaultsAssumption DEF FromText, DefaultText, Default
<1>5. CASE key = "http_port"
  BY <1>5, DefaultsAssumption DEF FromText, DefaultText, Default, Integer, Float
<1> QED
  BY <1>1, <1>2, <1>3, <1>4, <1>5 DEF Setting

LEMMA NothingSet == DOMAIN EmptyDict = {}
  BY DEF EmptyDict

(* Without a file, load is from_env. *)
LEMMA LoadIsFromEnv ==
  ASSUME NEW env
  PROVE  FromBoth(env, EmptyDict) = FromEnv(env)
<1> DEFINE f == [key \in Setting |-> IF EnvName(key) \in DOMAIN env
                                       THEN FromText(key, env[EnvName(key)]) ELSE Default[key]]
<1>1. FromBoth(env, EmptyDict) = f
  BY NothingSet DEF FromBoth
<1>2. FromEnv(env) = f
  BY DefaultsAgree DEF FromEnv
<1> QED
  BY <1>1, <1>2

(* In an empty environment, load is from_toml. *)
LEMMA LoadIsFromToml ==
  ASSUME NEW toml
  PROVE  FromBoth(EmptyDict, toml) = FromToml(toml)
  BY NothingSet DEF FromBoth, FromToml

(* A Config is never the empty dict it is before it is loaded. *)
LEMMA ConfigIsMade ==
  ASSUME NEW env, NEW toml
  PROVE  FromBoth(env, toml) # EmptyDict
  BY NothingSet DEF FromBoth, Setting

LEMMA ValidConfig ==
  ASSUME NEW c, Validated(c)
  PROVE  c.url \in HttpsUrl /\ c.api_key # Unset
  BY DEF Validated

(* A valid Config read from a file alone has the keys from_toml requires. *)
LEMMA RequiredKeys ==
  ASSUME NEW toml, Validated(FromToml(toml))
  PROVE  {"url", "api_key"} \subseteq DOMAIN toml
<1>1. FromToml(toml).url # Unset /\ FromToml(toml).api_key # Unset
  BY DefaultsAssumption, ValidConfig
<1>2. \A key \in {"url", "api_key"} : key \notin DOMAIN toml => FromToml(toml)[key] = Unset
  BY DEF FromToml, Default, Setting
<1> QED
  BY <1>1, <1>2

-----------------------------------------------------------------------------

(* Config.load, Config.from_env and Config.from_toml (config.py:44-136) are
   one function of their sources: they accept the same ones, and make the
   same of them. *)
THEOREM ConstructorsAgree == StartupSpec => []LoadAgrees
<1>1. ConfigInv => LoadAgreesWithFromEnv
  <2> SUFFICES ASSUME ConfigInv, phase # "starting", file = EmptyDict
               PROVE  IF config = EmptyDict THEN ~Validated(FromEnv(environ))
                                            ELSE config = FromEnv(environ)
    BY DEF LoadAgreesWithFromEnv
  <2>1. Loaded = FromEnv(environ) /\ Loaded # EmptyDict
    BY LoadIsFromEnv, ConfigIsMade DEF Loaded
  <2> QED
    BY <2>1 DEF ConfigInv
<1>2. ConfigInv => LoadAgreesWithFromToml
  <2> SUFFICES ASSUME ConfigInv, phase # "starting", environ = EmptyDict
               PROVE  IF config = EmptyDict
                      THEN {"url", "api_key"} \subseteq DOMAIN file => ~Validated(FromToml(file))
                      ELSE {"url", "api_key"} \subseteq DOMAIN file /\ config = FromToml(file)
    BY DEF LoadAgreesWithFromToml
  <2>1. Loaded = FromToml(file) /\ Loaded # EmptyDict
    BY LoadIsFromToml, ConfigIsMade DEF Loaded
  <2>2. Validated(Loaded) => {"url", "api_key"} \subseteq DOMAIN file
    BY <2>1, RequiredKeys
  <2> QED
    BY <2>1, <2>2 DEF ConfigInv
<1> QED
  BY ConfigInvariance, <1>1, <1>2, PTL DEF LoadAgrees

(* Whatever the environment and the file say: from the startup check on, which
   sends the credentials (__main__.py), the url is https:// and certificates
   are verified, unless the environment says false, 0 or no, or says nothing
   and the file says what bool() takes for a no (config.py:30-41, 104-121). *)
THEOREM NoClearTextAndNoSilentTrust == StartupSpec => []TlsUnlessToldOtherwise
<1>1. ConfigInv => TlsUnlessToldOtherwise
  <2> SUFFICES ASSUME ConfigInv, phase \in {"checking", "serving"}
               PROVE  TlsUnlessToldOtherwise
    BY DEF TlsUnlessToldOtherwise
  <2>1. config = Loaded /\ config.url \in HttpsUrl
    BY ValidConfig DEF ConfigInv
  <2> DEFINE name == EnvName("verify_tls")
  <2>2. CASE name \in DOMAIN environ
    <3>1. config.verify_tls = FromText("verify_tls", environ[name])
      BY <2>1, <2>2 DEF Loaded, FromBoth, Setting
    <3>2. ASSUME NEW text PROVE FromText("verify_tls", text) = BoolFromStr(text)
      BY DEF FromText
    <3>3. Lower[environ[name]] \notin {"false", "0", "no"} => config.verify_tls
      BY <3>1, <3>2, Zenon DEF BoolFromStr
    <3> QED
      BY <2>1, <2>2, <3>3, Zenon DEF TlsUnlessToldOtherwise
  <2>3. CASE name \notin DOMAIN environ /\ "verify_tls" \in DOMAIN file
    <3>1. config.verify_tls = FromValue("verify_tls", file["verify_tls"])
      BY <2>1, <2>3 DEF Loaded, FromBoth, Setting
    <3>2. ASSUME NEW v PROVE FromValue("verify_tls", v) = Bool(v)
      BY DEF FromValue
    <3>3. Bool(file["verify_tls"]) => config.verify_tls
      BY <3>1, <3>2, Zenon
    <3> QED
      BY <2>1, <2>3, <3>3, Zenon DEF TlsUnlessToldOtherwise
  <2>4. CASE name \notin DOMAIN environ /\ "verify_tls" \notin DOMAIN file
    <3>1. config.verify_tls = Default.verify_tls
      BY <2>1, <2>4 DEF Loaded, FromBoth, Setting
    <3>2. Default.verify_tls = TRUE
      BY DEF Default
    <3> QED
      BY <2>1, <3>1, <3>2, Zenon DEF TlsUnlessToldOtherwise
  <2> QED
    BY <2>2, <2>3, <2>4, Zenon
<1> QED
  BY ConfigInvariance, <1>1, PTL
=============================================================================
