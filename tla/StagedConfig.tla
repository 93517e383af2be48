---------------------------- MODULE StagedConfig ----------------------------
(***************************************************************************)
(* The tools that change the configuration in two calls: one that stages a *)
(* change and one that applies what is staged (src/opnsense_mcp/tools:     *)
(* firewall, routes, dhcp, dns, ids, proxy, openvpn, ipsec, wireguard,     *)
(* captiveportal, interfaces, services), through the one client.           *)
(*                                                                         *)
(* They keep no state of their own: each is one POST.  Staged changes sit  *)
(* on the firewall, where an apply by anybody puts all of them in force.   *)
(***************************************************************************)
EXTENDS OPNsenseClient, Sequences, FiniteSets

CONSTANTS
  Offered,   \* the tools the calls of an instance are made to
  Target,    \* uuids, ruleset file names, rule ids
  Malformed  \* those of Target that validate_uuid refuses

VARIABLES
  stage,     \* call |-> how far it is, or how it ended
  job,       \* call |-> what it was called with, None before
  before,    \* call |-> the calls acknowledged when it was made
  saved,     \* the requests the firewall has in its configuration
  running,   \* those of them that are in force
  enabled    \* the value last saved of what the toggles switch, "0" at first

stagedVars == <<clientVars, stage, job, before, saved, running, enabled>>

-----------------------------------------------------------------------------
(* The tools: a domain, what the tool does for it, the path it posts to, and *)
(* whether the path ends in a target that is validated or in one that is not. *)

Tool(domain, does, path, target) ==
  [domain |-> domain, does |-> does, path |-> path, target |-> target]

(* add posts a body, set a body to a uuid, del and toggle no body to a uuid.
   The verb and the kind, if any, are one segment of the path. *)
Crud(domain, path, kind, verbs) ==
  {Tool(domain, "stage", path \o <<verb, kind>>,
        IF verb = "add" THEN "none" ELSE "uuid") : verb \in verbs}

Settings(domain, path) == {Tool(domain, "stage", path \o <<"set">>, "none")}

(* Mutation of Apply: nat_apply posts to the controller of the rules. *)
ApplyOfRules(domain, path) ==
  {Tool(domain, "apply",
        IF domain = "nat" THEN <<"firewall", "filter", "apply">> ELSE path, "none")}

Apply(domain, path) == {Tool(domain, "apply", path, "none")}

(* start, stop and restart of a service, none of which names a target. *)
Service(domain, module) ==
  {Tool(domain, verb, <<module, "service", verb>>, "none") :
     verb \in {"start", "stop", "restart"}}

(* What is done at once to a daemon or a session, and stages nothing. *)
Live(domain, path, actions) ==
  {Tool(domain, "live", path \o <<action>>, "none") : action \in actions}

Change == {"add", "set", "del"}

RuleTools ==
  Crud("rule", <<"firewall", "filter">>, "rule", Change)
    \cup Apply("rule", <<"firewall", "filter", "apply">>)

AliasTools ==
  Crud("alias", <<"firewall", "alias">>, "item", Change)
    \cup Apply("alias", <<"firewall", "alias", "reconfigure">>)

NatTools ==
  Crud("nat", <<"firewall", "d_nat">>, "rule", Change)
    \cup Apply("nat", <<"firewall", "d_nat", "apply">>)

RouteTools ==
  Crud("route", <<"routes", "routes">>, "route", Change)
    \cup Apply("route", <<"routes", "routes", "reconfigure">>)

DnsTools ==
  Crud("dns", <<"unbound", "settings">>, "HostOverride", Change)
    \cup Apply("dns", <<"unbound", "service", "reconfigure">>)

DhcpTools ==
  Crud("dhcp", <<"kea", "dhcpv4">>, "reservation", Change)
    \cup Settings("dhcp", <<"kea", "dhcpv4">>)
    \cup Apply("dhcp", <<"kea", "service", "reconfigure">>)

(* Comma-separated names, which nothing validates, and an optional value. *)
IdsTools ==
  {Tool("ids", "toggle", <<"ids", "settings", "toggle", kind>>, "any") :
     kind \in {"ruleset", "rule"}}
    \cup Apply("ids", <<"ids", "service", "reconfigure">>)

ProxySettings == Settings("proxy", <<"proxy", "settings">>)

ProxyBlacklists ==
  Crud("proxy", <<"proxy", "settings">>, "remote_blacklist", Change \cup {"toggle"})

ProxyPac ==
  UNION {Crud("proxy", <<"proxy", "settings">>, "pac_" \o kind, Change) :
           kind \in {"rule", "proxy", "match"}}

ProxyService ==
  Service("proxy", "proxy")
    \cup Live("proxy", <<"proxy", "service">>, {"reset"})
    \cup Apply("proxy", <<"proxy", "service", "reconfigure">>)

(* An instance is deleted by a high-risk tool, and so is a connection and a
   server below. *)
OpenVPNInstances ==
  Crud("openvpn", <<"openvpn", "instances">>, "", {"add", "set", "toggle"})

OpenVPNStaticKeys == Crud("openvpn", <<"openvpn", "instances">>, "static_key", Change)

OpenVPNClientOverrides == Crud("openvpn", <<"openvpn", "client_overwrites">>, "", Change)

OpenVPNService ==
  Live("openvpn", <<"openvpn", "service">>,
       {"kill_session", "start_service", "stop_service", "restart_service"})
    \cup Apply("openvpn", <<"openvpn", "service", "reconfigure">>)

IPsecConnections ==
  Crud("ipsec", <<"ipsec", "connections">>, "connection", {"add", "set", "toggle"})

IPsecRounds ==
  UNION {Crud("ipsec", <<"ipsec", "connections">>, kind, Change \cup {"toggle"}) :
           kind \in {"local", "remote", "child"}}

IPsecKeyPairs == Crud("ipsec", <<"ipsec", "key_pairs">>, "item", Change)

IPsecPreSharedKeys == Crud("ipsec", <<"ipsec", "pre_shared_keys">>, "item", Change)

IPsecPools == Crud("ipsec", <<"ipsec", "pools">>, "", Change \cup {"toggle"})

IPsecService ==
  Live("ipsec", <<"ipsec", "sessions">>, {"connect", "disconnect"})
    \cup Service("ipsec", "ipsec")
    \cup Apply("ipsec", <<"ipsec", "service", "reconfigure">>)

WireGuardServers ==
  Crud("wireguard", <<"wireguard", "server">>, "server", {"add", "set", "toggle"})

(* A peer is also added from the builder's template, without a uuid. *)
WireGuardClients ==
  Crud("wireguard", <<"wireguard", "client">>, "client", Change \cup {"toggle"})
    \cup Crud("wireguard", <<"wireguard", "client">>, "client_builder", {"add"})

WireGuardService ==
  Settings("wireguard", <<"wireguard", "general">>)
    \cup Service("wireguard", "wireguard")
    \cup Apply("wireguard", <<"wireguard", "service", "reconfigure">>)

CaptivePortalTools ==
  Crud("captiveportal", <<"captiveportal", "settings">>, "zone", Change \cup {"toggle"})
    \cup Service("captiveportal", "captiveportal")
    \cup Apply("captiveportal", <<"captiveportal", "service", "reconfigure">>)

CaptivePortalSessions ==
  Live("captiveportal", <<"captiveportal", "session">>, {"connect", "disconnect"})

InterfaceTools ==
  Crud("interface", <<"interfaces", "assignment">>, "item", {"add"})
    \cup Apply("interface", <<"interfaces", "assignment", "reconfigure">>)

(* service_start, service_stop, service_restart, by the domain whose pending
   configuration a restart of the module puts in force. *)
SupportedModules ==
  [unbound |-> "dns", kea |-> "dhcp", ids |-> "ids", ipsec |-> "ipsec",
   wireguard |-> "wireguard", proxy |-> "proxy", captiveportal |-> "captiveportal"]

ServiceTools ==
  UNION {Service(SupportedModules[module], module) : module \in DOMAIN SupportedModules}

AllTools ==
  RuleTools \cup AliasTools \cup NatTools \cup RouteTools \cup DnsTools \cup DhcpTools
    \cup IdsTools \cup ProxySettings \cup ProxyBlacklists \cup ProxyPac \cup ProxyService
    \cup OpenVPNInstances \cup OpenVPNStaticKeys \cup OpenVPNClientOverrides
    \cup OpenVPNService \cup IPsecConnections \cup IPsecRounds \cup IPsecKeyPairs
    \cup IPsecPreSharedKeys \cup IPsecPools \cup IPsecService \cup WireGuardServers
    \cup WireGuardClients \cup WireGuardService \cup CaptivePortalTools
    \cup CaptivePortalSessions \cup InterfaceTools \cup ServiceTools

ASSUME OfferedAssumption == Offered \subseteq AllTools
ASSUME MalformedAssumption == Malformed \subseteq Target
ASSUME NoneAssumption ==
  None \notin [tool : Offered, target : Target \cup {None}, value : {None, "0", "1"}]

-----------------------------------------------------------------------------
(* The calls.                                                                *)

StagedInit ==
  /\ ClientInit
  /\ stage = [c \in Call |-> "idle"]
  /\ job = [c \in Call |-> None]
  /\ before = [c \in Call |-> {}]
  /\ saved = {}
  /\ running = {}
  /\ enabled = EmptyDict

Moves(c, from, to) ==
  /\ stage[c] = from
  /\ stage' = [stage EXCEPT ![c] = to]

Targets(tool) == IF tool.target = "none" THEN {None} ELSE Target

Values(tool) == IF tool.does = "toggle" THEN {None, "0", "1"} ELSE {None}

(* Mutation of Suffix: `if enabled` where the code has `is not None`. *)
SuffixIfTrue(value) == IF value = "1" THEN <<value>> ELSE <<>>

(* if enabled is not None: path += f"/{enabled}" *)
Suffix(value) == IF value # None THEN <<value>> ELSE <<>>

Acknowledged == {c \in Call : stage[c] = "saved"}

(* Mutation of Post: posting is left to a background task, and the call
   returns at once. *)
PostInBackground(c, tool, target, value) ==
  /\ ~(tool.target = "uuid" /\ target \in Malformed)
  /\ Moves(c, "idle", "saved")
  /\ job' = [job EXCEPT ![c] = [tool |-> tool, target |-> target, value |-> value]]
  /\ before' = [before EXCEPT ![c] = Acknowledged]
  /\ Send(c, Request(c, "POST", <<tool.path, target, Suffix(value)>>, None, None))
  /\ UNCHANGED <<saved, running, enabled>>

(* A tool is called: the arguments validated, the request posted. *)
Post(c, tool, target, value) ==
  /\ ~(tool.target = "uuid" /\ target \in Malformed)
  /\ Moves(c, "idle", "posting")
  /\ job' = [job EXCEPT ![c] = [tool |-> tool, target |-> target, value |-> value]]
  /\ before' = [before EXCEPT ![c] = Acknowledged]
  /\ Send(c, Request(c, "POST", <<tool.path, target, Suffix(value)>>, None, None))
  /\ UNCHANGED <<saved, running, enabled>>

RefuseArguments(c, tool, target) ==
  /\ tool.target = "uuid" /\ target \in Malformed
  /\ Moves(c, "idle", "tool_error")
  /\ UNCHANGED <<clientVars, job, before, saved, running, enabled>>

(* The reply is the tool's result, whatever it says; an error is a ToolError. *)
Finish(c) ==
  /\ \/ Succeed(c, {}, {}) /\ Moves(c, "posting", replies[c].body)
     \/ RaisesToolError(c, {}) /\ Moves(c, "posting", "tool_error")
     \/ RaisesOther(c) /\ Moves(c, "posting", "raised")
  /\ UNCHANGED <<job, before, saved, running, enabled>>

-----------------------------------------------------------------------------
(* The firewall.                                                             *)

Applying == {"apply", "reconfigure", "restart"}

(* What an apply is of: the module of a path, or under "firewall" the
   controller. *)
Unit(path) == IF path[1] = "firewall" THEN path[2] ELSE path[1]

Applies(path) == Len(path) = 3 /\ path[3] \in Applying

Stages(path) == path[2] \notin {"service", "sessions", "session"}

Toggles(path) == Len(path) = 4 /\ path[3] = "toggle"

Current(item) == IF item \in DOMAIN enabled THEN enabled[item] ELSE "0"

Toggled(item, suffix) ==
  IF suffix # <<>> THEN suffix[1] ELSE IF Current(item) = "0" THEN "1" ELSE "0"

(* What processing a request does to the configuration. *)
CarryOut(r) ==
  LET path == r.path[1]
      item == <<path, r.path[2]>>
  IN  IF Applies(path)
        THEN /\ running' = running \cup {q \in saved : Unit(q.path[1]) = Unit(path)}
             /\ UNCHANGED <<saved, enabled>>
        ELSE /\ saved' = IF Stages(path) THEN saved \cup {r} ELSE saved
             /\ enabled' = IF Toggles(path)
                             THEN Put(enabled, item, Toggled(item, r.path[3]))
                             ELSE enabled
             /\ UNCHANGED running

(* A request is carried out and acknowledged, or the reply is lost on the
   way; or the firewall refuses it, in a reply of status 200 or an error. *)
Firewall(r) ==
  /\ \/ CarryOut(r) /\ \E reply \in {Ok("saved"), Garbled, HttpError} : Answer(r, reply)
     \/ /\ \E reply \in {Ok("failed"), Garbled, HttpError} : Answer(r, reply)
        /\ UNCHANGED <<saved, running, enabled>>
  /\ UNCHANGED <<stage, job, before>>

(* The server process ends and is started again; the firewall runs on. *)
Restart ==
  /\ ClientRestart
  /\ stage' = [c \in Call |-> IF stage[c] = "posting" THEN "died" ELSE stage[c]]
  /\ UNCHANGED <<job, before, saved, running, enabled>>

StagedNext ==
  \/ \E c \in Call :
       \/ \E tool \in Offered : \E target \in Targets(tool) :
            \/ \E value \in Values(tool) : Post(c, tool, target, value)
            \/ RefuseArguments(c, tool, target)
       \/ Finish(c)
  \/ \E r \in wire : Firewall(r)
  \/ Restart

StagedSpec == StagedInit /\ [][StagedNext]_stagedVars

-----------------------------------------------------------------------------
Called == {c \in Call : job[c] # None}

Domain(c) == job[c].tool.domain

Of(r) == r.req_id

(* The calls that have ended with a result were made, those still posting are
   the ones the client has a request for, and only requests are in force. *)
StagedTypeOK ==
  /\ stage \in [Call -> {"idle", "posting", "saved", "failed", "tool_error", "raised", "died"}]
  /\ \A c \in Call : stage[c] \in {"posting", "saved", "failed"} => c \in Called
  /\ DOMAIN awaiting = {c \in Call : stage[c] = "posting"}
  /\ {Of(r) : r \in wire \cup saved} \subseteq Called
  /\ running \subseteq saved

(* "Apply all staged changes": once an apply tool reports success, every
   change of its domain that was acknowledged before it was called is in
   force, in whatever order the firewall got to the requests. *)
AppliesCoverAcknowledged ==
  \A c \in Acknowledged :
    job[c].tool.does \in {"apply", "restart"} =>
      \A d \in before[c] :
        Domain(d) = Domain(c) /\ job[d].tool.does \in {"stage", "toggle"}
          => \E r \in running : Of(r) = d

(* "Staged until ... is called": what is in force was put there by somebody
   calling an apply or restart tool of the domain it was staged in. *)
NothingRunsUnapplied ==
  \A r \in running :
    \E c \in Called :
      /\ job[c].tool.does \in {"apply", "restart"}
      /\ Domain(c) = Domain(Of(r))

(* "Omit enabled to flip current state, or pass 0/1 to force": callers that
   agree on a value get it, however often they time out and repeat the call
   and however late their requests are processed. *)
ForcedTogglesConverge ==
  \A c \in Acknowledged :
    LET same == {d \in Called : /\ job[d].tool = job[c].tool
                                /\ job[d].target = job[c].target}
    IN  (/\ job[c].tool.does = "toggle"
         /\ job[c].value # None
         /\ \A d \in same : job[d].value = job[c].value)
        => Current(<<job[c].tool.path, job[c].target>>) = job[c].value
=============================================================================
