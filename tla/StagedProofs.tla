---------------------------- MODULE StagedProofs ----------------------------
(***************************************************************************)
(* Theorems about the stage-then-apply tools, for every set of calls, of   *)
(* targets and of offered tools.                                           *)
(*                                                                         *)
(* The first half looks at every tool there is (EveryToolKnown): the path  *)
(* it posts to says which unit of the firewall it is about, one unit per   *)
(* domain, and whether it applies, stages or toggles.  The second half is  *)
(* the invariant: a request is that of its call, and what a call that is   *)
(* told "saved" may count on (Done) is so from the moment its request is   *)
(* carried out, whatever is processed, given up or repeated later.         *)
(***************************************************************************)
EXTENDS StagedConfig, SequenceTheorems, TLAPS

(* The unit of the firewall each domain is configured in. *)
UnitOf ==
  [rule |-> "filter", alias |-> "alias", nat |-> "d_nat", route |-> "routes",
   dns |-> "unbound", dhcp |-> "kea", interface |-> "interfaces", ids |-> "ids",
   proxy |-> "proxy", openvpn |-> "openvpn", ipsec |-> "ipsec",
   wireguard |-> "wireguard", captiveportal |-> "captiveportal"]

(* What the path of a tool tells of it. *)
Known(t) ==
  /\ t.domain \in DOMAIN UnitOf
  /\ Unit(t.path) = UnitOf[t.domain]
  /\ t.does \in {"apply", "restart"} <=> Applies(t.path)
  /\ t.does \in {"stage", "toggle"} => Stages(t.path)
  /\ Len(t.path) \in {3, 4}
  /\ t.does = "toggle" <=> t.path[1] = "ids" /\ Len(t.path) = 4
  /\ t.does = "toggle" => t.path[3] = "toggle" /\ t.domain = "ids" /\ t.target = "any"
  /\ t.target \in {"none", "uuid", "any"}
  /\ t = [domain |-> t.domain, does |-> t.does, path |-> t.path, target |-> t.target]

LEMMA UnitsDiffer ==
  \A d, e \in DOMAIN UnitOf : UnitOf[d] = UnitOf[e] => d = e
  BY DEF UnitOf

-----------------------------------------------------------------------------
(* Paths are put together with \o.                                           *)

LEMMA ConcatAt ==
  ASSUME NEW S, NEW s \in Seq(S), NEW t \in Seq(S), NEW i \in 1 .. Len(s) + Len(t)
  PROVE  (s \o t)[i] = IF i <= Len(s) THEN s[i] ELSE t[i - Len(s)]
  BY ConcatProperties

LEMMA Concat2 ==
  ASSUME NEW S, NEW s \in Seq(S), NEW t \in Seq(S), Len(s) = 2, Len(t) = 2
  PROVE  s \o t = <<s[1], s[2], t[1], t[2]>>
  <1>1. s \o t \in Seq(S) /\ Len(s \o t) = 4
    <2>1. s \o t \in Seq(S)
      BY ConcatProperties
    <2>2. Len(s \o t) = Len(s) + Len(t)
      BY ConcatProperties
    <2> QED
      BY <2>1, <2>2
  <1>2. (s \o t)[1] = s[1] /\ (s \o t)[2] = s[2]
    <2>1. 1 \in 1 .. Len(s) + Len(t) /\ 2 \in 1 .. Len(s) + Len(t)
      OBVIOUS
    <2>2. /\ (s \o t)[1] = IF 1 <= Len(s) THEN s[1] ELSE t[1 - Len(s)]
          /\ (s \o t)[2] = IF 2 <= Len(s) THEN s[2] ELSE t[2 - Len(s)]
      BY <2>1, ConcatAt
    <2> QED
      BY <2>2
  <1>3. (s \o t)[3] = t[1]
    <2>1. 3 \in 1 .. Len(s) + Len(t)
      OBVIOUS
    <2>2. (s \o t)[3] = IF 3 <= Len(s) THEN s[3] ELSE t[3 - Len(s)]
      BY <2>1, ConcatAt
    <2> QED
      BY <2>2
  <1>4. (s \o t)[4] = t[2]
    <2>1. 4 \in 1 .. Len(s) + Len(t)
      OBVIOUS
    <2>2. (s \o t)[4] = IF 4 <= Len(s) THEN s[4] ELSE t[4 - Len(s)]
      BY <2>1, ConcatAt
    <2> QED
      BY <2>2
  <1> DEFINE r == s \o t
  <1> HIDE DEF r
  <1>5. r \in Seq(S) /\ Len(r) = 4 /\ r[1] = s[1] /\ r[2] = s[2] /\ r[3] = t[1] /\ r[4] = t[2]
    BY <1>1, <1>2, <1>3, <1>4 DEF r
  <1>6. r = <<s[1], s[2], t[1], t[2]>>
    BY <1>5
  <1> QED
    BY <1>6 DEF r

LEMMA Concat1 ==
  ASSUME NEW S, NEW s \in Seq(S), NEW t \in Seq(S), Len(s) = 2, Len(t) = 1
  PROVE  s \o t = <<s[1], s[2], t[1]>>
  <1>1. s \o t \in Seq(S) /\ Len(s \o t) = 3
    <2>1. s \o t \in Seq(S)
      BY ConcatProperties
    <2>2. Len(s \o t) = Len(s) + Len(t)
      BY ConcatProperties
    <2> QED
      BY <2>1, <2>2
  <1>2. (s \o t)[1] = s[1] /\ (s \o t)[2] = s[2]
    <2>1. 1 \in 1 .. Len(s) + Len(t) /\ 2 \in 1 .. Len(s) + Len(t)
      OBVIOUS
    <2>2. /\ (s \o t)[1] = IF 1 <= Len(s) THEN s[1] ELSE t[1 - Len(s)]
          /\ (s \o t)[2] = IF 2 <= Len(s) THEN s[2] ELSE t[2 - Len(s)]
      BY <2>1, ConcatAt
    <2> QED
      BY <2>2
  <1>3. (s \o t)[3] = t[1]
    <2>1. 3 \in 1 .. Len(s) + Len(t)
      OBVIOUS
    <2>2. (s \o t)[3] = IF 3 <= Len(s) THEN s[3] ELSE t[3 - Len(s)]
      BY <2>1, ConcatAt
    <2> QED
      BY <2>2
  <1> DEFINE r == s \o t
  <1> HIDE DEF r
  <1>4. r \in Seq(S) /\ Len(r) = 3 /\ r[1] = s[1] /\ r[2] = s[2] /\ r[3] = t[1]
    BY <1>1, <1>2, <1>3 DEF r
  <1>5. r = <<s[1], s[2], t[1]>>
    BY <1>4
  <1> QED
    BY <1>5 DEF r

LEMMA Tuples ==
  ASSUME NEW a, NEW b, NEW v, NEW k
  PROVE  /\ <<a, b>> \o <<v, k>> = <<a, b, v, k>>
         /\ <<a, b>> \o <<v>> = <<a, b, v>>
  <1> DEFINE S == {a, b, v, k}
             s == <<a, b>>
             t == <<v, k>>
             u == <<v>>
  <1>1. /\ s \in Seq(S) /\ t \in Seq(S) /\ u \in Seq(S)
        /\ Len(s) = 2 /\ Len(t) = 2 /\ Len(u) = 1
        /\ s[1] = a /\ s[2] = b /\ t[1] = v /\ t[2] = k /\ u[1] = v
    OBVIOUS
  <1> HIDE DEF S, s, t, u
  <1>2. s \o t = <<a, b, v, k>> /\ s \o u = <<a, b, v>>
    BY <1>1, Concat1, Concat2
  <1> QED
    BY <1>2 DEF s, t, u

-----------------------------------------------------------------------------
(* The tools, constructor by constructor and domain by domain.               *)

LEMMA CrudKnown ==
  ASSUME NEW domain \in DOMAIN UnitOf, domain # "ids", NEW a, NEW b, NEW kind, NEW verbs,
         Unit(<<a, b>>) = UnitOf[domain], b \notin {"service", "sessions", "session"}, a # "ids",
         NEW t \in Crud(domain, <<a, b>>, kind, verbs)
  PROVE  Known(t)
  <1>1. PICK verb \in verbs :
          t = Tool(domain, "stage", <<a, b, verb, kind>>, IF verb = "add" THEN "none" ELSE "uuid")
    BY Tuples DEF Crud
  <1> QED
    BY <1>1 DEF Known, Tool, Applies, Stages, Unit

LEMMA SettingsKnown ==
  ASSUME NEW domain \in DOMAIN UnitOf, domain # "ids", NEW a, NEW b,
         Unit(<<a, b>>) = UnitOf[domain], b \notin {"service", "sessions", "session"},
         NEW t \in Settings(domain, <<a, b>>)
  PROVE  Known(t)
  <1>1. t = Tool(domain, "stage", <<a, b, "set">>, "none")
    BY Tuples DEF Settings
  <1> QED
    BY <1>1 DEF Known, Tool, Applies, Applying, Stages, Unit

LEMMA ApplyKnown ==
  ASSUME NEW domain \in DOMAIN UnitOf, NEW a, NEW b, NEW z \in {"apply", "reconfigure"},
         Unit(<<a, b>>) = UnitOf[domain],
         NEW t \in Apply(domain, <<a, b, z>>)
  PROVE  Known(t)
  BY DEF Apply, Known, Tool, Applies, Applying, Stages, Unit

LEMMA ServiceKnown ==
  ASSUME NEW domain \in DOMAIN UnitOf, NEW module, module # "firewall", UnitOf[domain] = module,
         NEW t \in Service(domain, module)
  PROVE  Known(t)
  <1>1. PICK verb \in {"start", "stop", "restart"} :
          t = Tool(domain, verb, <<module, "service", verb>>, "none")
    BY DEF Service
  <1> QED
    BY <1>1 DEF Known, Tool, Applies, Applying, Stages, Unit

LEMMA LiveKnown ==
  ASSUME NEW domain \in DOMAIN UnitOf, NEW a, NEW b, NEW actions,
         actions \cap Applying = {}, Unit(<<a, b>>) = UnitOf[domain],
         NEW t \in Live(domain, <<a, b>>, actions)
  PROVE  Known(t)
  <1>1. PICK action \in actions : t = Tool(domain, "live", <<a, b, action>>, "none")
    BY Tuples DEF Live
  <1> QED
    BY <1>1 DEF Known, Tool, Applies, Stages, Unit


LEMMA ToggleKnown ==
  ASSUME NEW kind, NEW t, t = Tool("ids", "toggle", <<"ids", "settings", "toggle", kind>>, "any")
  PROVE  Known(t)
  BY DEF Known, Tool, Applies, Stages, Unit, UnitOf

LEMMA FirewallToolsKnown ==
  \A t \in RuleTools \cup AliasTools \cup NatTools : Known(t)
  <1>1. \A t \in RuleTools : Known(t)
    BY CrudKnown, ApplyKnown DEF RuleTools, UnitOf, Unit
  <1>2. \A t \in AliasTools : Known(t)
    BY CrudKnown, ApplyKnown DEF AliasTools, UnitOf, Unit
  <1>3. \A t \in NatTools : Known(t)
    BY CrudKnown, ApplyKnown DEF NatTools, UnitOf, Unit
  <1> QED
    BY <1>1, <1>2, <1>3

LEMMA RoutingToolsKnown ==
  \A t \in RouteTools \cup DnsTools \cup DhcpTools \cup IdsTools \cup InterfaceTools : Known(t)
  <1>1. \A t \in RouteTools : Known(t)
    BY CrudKnown, ApplyKnown DEF RouteTools, UnitOf, Unit
  <1>2. \A t \in DnsTools : Known(t)
    BY CrudKnown, ApplyKnown DEF DnsTools, UnitOf, Unit
  <1>3. \A t \in DhcpTools : Known(t)
    BY CrudKnown, ApplyKnown, SettingsKnown DEF DhcpTools, UnitOf, Unit
  <1>4. \A t \in IdsTools : Known(t)
    BY ToggleKnown, ApplyKnown DEF IdsTools, UnitOf, Unit
  <1>5. \A t \in InterfaceTools : Known(t)
    BY CrudKnown, ApplyKnown DEF InterfaceTools, UnitOf, Unit
  <1> QED
    BY <1>1, <1>2, <1>3, <1>4, <1>5

LEMMA ProxyToolsKnown ==
  \A t \in ProxySettings \cup ProxyBlacklists \cup ProxyPac \cup ProxyService : Known(t)
  <1>1. \A t \in ProxySettings : Known(t)
    BY SettingsKnown DEF ProxySettings, UnitOf, Unit
  <1>2. \A t \in ProxyBlacklists : Known(t)
    BY CrudKnown DEF ProxyBlacklists, UnitOf, Unit
  <1>3. \A t \in ProxyPac : Known(t)
    <2>1. \A kind : \A t \in Crud("proxy", <<"proxy", "settings">>, kind, Change) : Known(t)
      BY CrudKnown DEF UnitOf, Unit
    <2> QED
      BY <2>1 DEF ProxyPac
  <1>4. \A t \in ProxyService : Known(t)
    BY ServiceKnown, LiveKnown, ApplyKnown DEF ProxyService, UnitOf, Unit, Applying
  <1> QED
    BY <1>1, <1>2, <1>3, <1>4

LEMMA OpenVPNToolsKnown ==
  \A t \in OpenVPNInstances \cup OpenVPNStaticKeys \cup OpenVPNClientOverrides
             \cup OpenVPNService : Known(t)
  <1>1. \A kind, verbs :
          /\ \A t \in Crud("openvpn", <<"openvpn", "instances">>, kind, verbs) : Known(t)
          /\ \A t \in Crud("openvpn", <<"openvpn", "client_overwrites">>, kind, verbs) : Known(t)
    BY CrudKnown DEF UnitOf, Unit
  <1>2. \A t \in OpenVPNInstances \cup OpenVPNStaticKeys \cup OpenVPNClientOverrides : Known(t)
    BY <1>1, Zenon DEF OpenVPNInstances, OpenVPNStaticKeys, OpenVPNClientOverrides
  <1>3. \A t \in OpenVPNService : Known(t)
    BY LiveKnown, ApplyKnown DEF OpenVPNService, UnitOf, Unit, Applying
  <1> QED
    BY <1>2, <1>3

LEMMA IPsecToolsKnown ==
  \A t \in IPsecConnections \cup IPsecRounds \cup IPsecKeyPairs \cup IPsecPreSharedKeys
             \cup IPsecPools \cup IPsecService : Known(t)
  <1>1. \A kind, verbs :
          /\ \A t \in Crud("ipsec", <<"ipsec", "connections">>, kind, verbs) : Known(t)
          /\ \A t \in Crud("ipsec", <<"ipsec", "key_pairs">>, kind, verbs) : Known(t)
          /\ \A t \in Crud("ipsec", <<"ipsec", "pre_shared_keys">>, kind, verbs) : Known(t)
          /\ \A t \in Crud("ipsec", <<"ipsec", "pools">>, kind, verbs) : Known(t)
    BY CrudKnown DEF UnitOf, Unit
  <1>2. \A t \in IPsecConnections \cup IPsecKeyPairs \cup IPsecPreSharedKeys \cup IPsecPools :
          Known(t)
    BY <1>1, Zenon DEF IPsecConnections, IPsecKeyPairs, IPsecPreSharedKeys, IPsecPools
  <1>3. \A t \in IPsecRounds : Known(t)
    BY <1>1 DEF IPsecRounds
  <1>4. \A t \in IPsecService : Known(t)
    BY ServiceKnown, LiveKnown, ApplyKnown DEF IPsecService, UnitOf, Unit, Applying
  <1> QED
    BY <1>2, <1>3, <1>4

LEMMA WireGuardToolsKnown ==
  \A t \in WireGuardServers \cup WireGuardClients \cup WireGuardService : Known(t)
  <1>1. \A t \in WireGuardServers \cup WireGuardClients : Known(t)
    BY CrudKnown DEF WireGuardServers, WireGuardClients, UnitOf, Unit
  <1>2. \A t \in WireGuardService : Known(t)
    BY SettingsKnown, ServiceKnown, ApplyKnown DEF WireGuardService, UnitOf, Unit
  <1> QED
    BY <1>1, <1>2

LEMMA CaptivePortalToolsKnown ==
  \A t \in CaptivePortalTools \cup CaptivePortalSessions : Known(t)
  <1>1. \A t \in CaptivePortalTools : Known(t)
    BY CrudKnown, ServiceKnown, ApplyKnown DEF CaptivePortalTools, UnitOf, Unit
  <1>2. \A t \in CaptivePortalSessions : Known(t)
    BY LiveKnown DEF CaptivePortalSessions, UnitOf, Unit, Applying
  <1> QED
    BY <1>1, <1>2

LEMMA ServiceToolsKnown == \A t \in ServiceTools : Known(t)
  <1>1. \A module \in DOMAIN SupportedModules :
          /\ SupportedModules[module] \in DOMAIN UnitOf
          /\ UnitOf[SupportedModules[module]] = module
          /\ module # "firewall"
    BY DEF SupportedModules, UnitOf
  <1>2. ASSUME NEW module \in DOMAIN SupportedModules
        PROVE  \A t \in Service(SupportedModules[module], module) : Known(t)
    BY <1>1, ServiceKnown
  <1> QED
    BY <1>2 DEF ServiceTools

LEMMA EveryToolKnown == \A t \in AllTools : Known(t)
  BY FirewallToolsKnown, RoutingToolsKnown, ProxyToolsKnown, OpenVPNToolsKnown, IPsecToolsKnown,
     WireGuardToolsKnown, CaptivePortalToolsKnown, ServiceToolsKnown DEF AllTools

(* No other tool posts to the path of a toggle. *)
LEMMA ToggleByPath ==
  ASSUME NEW t \in AllTools, NEW u \in AllTools, t.does = "toggle", u.path = t.path
  PROVE  u = t
  <1>1. Known(t) /\ Known(u)
    BY EveryToolKnown
  <1>2. u.does = "toggle"
    BY <1>1 DEF Known
  <1> QED
    BY <1>1, <1>2 DEF Known

(* What applies a tool's domain, and nothing else, shares its unit. *)
LEMMA UnitIsDomain ==
  ASSUME NEW t \in AllTools, NEW u \in AllTools
  PROVE  Unit(t.path) = Unit(u.path) <=> t.domain = u.domain
  <1>1. Known(t) /\ Known(u)
    BY EveryToolKnown
  <1> QED
    BY <1>1, UnitsDiffer DEF Known

-----------------------------------------------------------------------------
JobType == [tool : Offered, target : Target \cup {None}, value : {None, "0", "1"}]

Outcomes == {"idle", "posting", "saved", "failed", "tool_error", "raised", "died"}

RequestOf(c) ==
  Request(c, "POST", <<job[c].tool.path, job[c].target, Suffix(job[c].value)>>, None, None)

Item(c) == <<job[c].tool.path, job[c].target>>

Agreed(c) ==
  /\ job[c].tool.does = "toggle"
  /\ job[c].value # None
  /\ \A d \in Called :
       job[d].tool = job[c].tool /\ job[d].target = job[c].target => job[d].value = job[c].value

(* What a call that is told "saved" may count on. *)
Done(c) ==
  /\ job[c].tool.does \in {"stage", "toggle"} => RequestOf(c) \in saved
  /\ job[c].tool.does \in {"apply", "restart"} =>
       \A d \in before[c] :
         Domain(d) = Domain(c) /\ job[d].tool.does \in {"stage", "toggle"}
           => RequestOf(d) \in running
  /\ Agreed(c) => Current(Item(c)) = job[c].value

CallInv(c) ==
  /\ c \in DOMAIN awaiting <=> stage[c] = "posting"
  /\ c \in DOMAIN replies => c \in DOMAIN awaiting
  /\ stage[c] \in {"posting", "saved", "failed"} => c \in Called
  /\ stage[c] = "idle" => c \notin Called
  /\ c \in DOMAIN awaiting => awaiting[c] = RequestOf(c)
  /\ c \in DOMAIN replies /\ replies[c].status_code = 200 /\ replies[c].body # None =>
       replies[c].body \in {"saved", "failed"} /\ (replies[c].body = "saved" => Done(c))
  /\ stage[c] = "saved" => Done(c)
  /\ before[c] \subseteq Acknowledged

Domains ==
  /\ stage \in [Call -> Outcomes]
  /\ job \in [Call -> JobType \cup {None}]
  /\ before \in [Call -> SUBSET Call]
  /\ DOMAIN awaiting \subseteq Call
  /\ DOMAIN replies \subseteq Call

RequestsInv == \A r \in wire \cup saved : Of(r) \in Called /\ r = RequestOf(Of(r))

StagedInv ==
  /\ Domains
  /\ \A c \in Call : CallInv(c)
  /\ RequestsInv
  /\ running \subseteq saved
  /\ NothingRunsUnapplied

LEMMA StagedInitInv == StagedInit => StagedInv
  <1> SUFFICES ASSUME StagedInit PROVE StagedInv
    OBVIOUS
  <1>1. /\ DOMAIN awaiting = {} /\ DOMAIN replies = {} /\ wire = {} /\ saved = {} /\ running = {}
        /\ stage = [c \in Call |-> "idle"] /\ job = [c \in Call |-> None]
        /\ before = [c \in Call |-> {}]
    BY DEF StagedInit, ClientInit, EmptyDict
  <1>2. Domains
    BY <1>1 DEF Domains, Outcomes
  <1>3. \A c \in Call : CallInv(c)
    BY <1>1 DEF CallInv, Called
  <1> QED
    BY <1>1, <1>2, <1>3 DEF StagedInv, RequestsInv, NothingRunsUnapplied

LEMMA CalledJobs ==
  ASSUME Domains, NEW c \in Call
  PROVE  /\ c \in Called <=> job[c] \in JobType
         /\ c \in Called => job[c].tool \in AllTools
  BY NoneAssumption, OfferedAssumption DEF Domains, Called, JobType

(* A step that is not of a call leaves it alone; what the firewall has done
   for it stays done. *)
Untouched(c) ==
  /\ stage'[c] = stage[c] /\ job'[c] = job[c] /\ before'[c] = before[c]
  /\ (c \in DOMAIN awaiting' <=> c \in DOMAIN awaiting)
  /\ (c \in DOMAIN awaiting => awaiting'[c] = awaiting[c])
  /\ (c \in DOMAIN replies' <=> c \in DOMAIN replies)
  /\ (c \in DOMAIN replies => replies'[c] = replies[c])

JobsKept == \A c \in Called : c \in Called' /\ job'[c] = job[c]

LEMMA DoneKeeps ==
  ASSUME StagedInv, NEW c \in Called, Done(c), JobsKept, before'[c] = before[c],
         UNCHANGED <<saved, running, enabled>>
  PROVE  Done(c)'
  <1>1. \A d \in before[c] : d \in Called
    BY DEF StagedInv, CallInv, Acknowledged, Called
  <1>2. Agreed(c)' => Agreed(c)
    BY DEF Agreed, JobsKept
  <1> QED
    BY <1>1, <1>2 DEF Done, JobsKept, RequestOf, Domain, Item, Current

LEMMA UntouchedKeeps ==
  ASSUME StagedInv, NEW c \in Call, Untouched(c), JobsKept, Acknowledged \subseteq Acknowledged',
         UNCHANGED <<saved, running, enabled>>
  PROVE  CallInv(c)'
  <1>1. CallInv(c)
    BY DEF StagedInv
  <1>2. c \in Called => (Done(c) => Done(c)')
    BY DoneKeeps DEF Untouched
  <1>3. c \in Called' <=> c \in Called
    BY DEF Untouched, Called
  <1>4. c \in DOMAIN awaiting => awaiting'[c] = RequestOf(c)'
    BY <1>1 DEF Untouched, CallInv, RequestOf
  <1> QED
    BY <1>1, <1>2, <1>3, <1>4 DEF Untouched, CallInv

LEMMA RequestsKeep ==
  ASSUME StagedInv, JobsKept, wire' \cup saved' \subseteq wire \cup saved
  PROVE  RequestsInv'
  BY DEF StagedInv, RequestsInv, JobsKept, RequestOf, Of

LEMMA RunsKeep ==
  ASSUME StagedInv, JobsKept, running' = running
  PROVE  NothingRunsUnapplied'
  <1>1. \A r \in running : Of(r) \in Called
    BY DEF StagedInv, RequestsInv
  <1> QED
    BY <1>1 DEF StagedInv, NothingRunsUnapplied, JobsKept, Domain, Of

LEMMA PostInv ==
  ASSUME StagedInv, NEW c \in Call, NEW tool \in Offered, NEW target \in Targets(tool),
         NEW value \in Values(tool), Post(c, tool, target, value)
  PROVE  StagedInv'
  <1> DEFINE j == [tool |-> tool, target |-> target, value |-> value]
             r == Request(c, "POST", <<tool.path, target, Suffix(value)>>, None, None)
  <1>1. /\ j \in JobType
        /\ r = Request(c, "POST", <<j.tool.path, j.target, Suffix(j.value)>>, None, None)
        /\ Of(r) = c
    BY DEF JobType, Targets, Values, Of, Request
  <1>2. /\ stage[c] = "idle" /\ stage' = [stage EXCEPT ![c] = "posting"]
        /\ job' = [job EXCEPT ![c] = j]
        /\ before' = [before EXCEPT ![c] = Acknowledged]
        /\ c \notin DOMAIN awaiting
        /\ awaiting' = Put(awaiting, c, r) /\ wire' = wire \cup {r} /\ replies' = replies
        /\ UNCHANGED <<saved, running, enabled>>
    BY DEF Post, Moves, Send
  <1> HIDE DEF j, r
  <1>3. /\ stage'[c] = "posting" /\ job'[c] = j /\ before'[c] = Acknowledged
        /\ \A d \in Call : d # c =>
             stage'[d] = stage[d] /\ job'[d] = job[d] /\ before'[d] = before[d]
        /\ DOMAIN awaiting' = DOMAIN awaiting \cup {c} /\ awaiting'[c] = r
        /\ \A d \in DOMAIN awaiting : d # c => awaiting'[d] = awaiting[d]
    BY <1>2 DEF Put, StagedInv, Domains
  <1>4. c \notin Called /\ c \notin DOMAIN replies
    BY <1>2 DEF StagedInv, CallInv
  <1>5. Domains'
    BY <1>1, <1>2, <1>3 DEF StagedInv, Domains, Outcomes, Acknowledged
  <1>6. JobsKept /\ Acknowledged' = Acknowledged /\ c \in Called'
    BY <1>1, <1>2, <1>3, <1>4, NoneAssumption DEF JobsKept, Called, Acknowledged, JobType
  <1>7. r = RequestOf(c)'
    BY <1>1, <1>3 DEF RequestOf
  <1>8. ASSUME NEW d \in Call
        PROVE  CallInv(d)'
    <2>1. CASE d = c
      BY <1>2, <1>3, <1>4, <1>6, <1>7, <2>1 DEF CallInv
    <2>2. CASE d # c
      <3>1. Untouched(d)
        BY <1>2, <1>3, <2>2 DEF Untouched
      <3> QED
        BY <1>2, <1>6, <3>1, UntouchedKeeps
    <2> QED
      BY <2>1, <2>2
  <1>9. RequestsInv'
    <2>1. \A q \in wire \cup saved : Of(q) \in Called' /\ q = RequestOf(Of(q))'
      BY <1>6 DEF StagedInv, RequestsInv, JobsKept, RequestOf, Of
    <2> QED
      BY <1>1, <1>2, <1>6, <1>7, <2>1 DEF RequestsInv, Of
  <1> QED
    BY <1>2, <1>5, <1>6, <1>8, <1>9, RunsKeep DEF StagedInv

LEMMA RefuseArgumentsInv ==
  ASSUME StagedInv, NEW c \in Call, NEW tool, NEW target, RefuseArguments(c, tool, target)
  PROVE  StagedInv'
  <1>1. /\ stage[c] = "idle" /\ stage' = [stage EXCEPT ![c] = "tool_error"]
        /\ UNCHANGED <<awaiting, replies, wire, job, before, saved, running, enabled>>
    BY DEF RefuseArguments, Moves, clientVars
  <1>2. stage'[c] = "tool_error" /\ \A d \in Call : d # c => stage'[d] = stage[d]
    BY <1>1 DEF StagedInv, Domains
  <1>3. Domains'
    BY <1>1 DEF StagedInv, Domains, Outcomes
  <1>4. JobsKept /\ Acknowledged' = Acknowledged
    BY <1>1, <1>2 DEF JobsKept, Called, Acknowledged
  <1>5. ASSUME NEW d \in Call
        PROVE  CallInv(d)'
    <2>1. CASE d = c
      BY <1>1, <1>2, <1>4, <2>1 DEF StagedInv, CallInv, Called
    <2>2. CASE d # c
      <3>1. Untouched(d)
        BY <1>1, <1>2, <2>2 DEF Untouched
      <3> QED
        BY <1>1, <1>4, <3>1, UntouchedKeeps
    <2> QED
      BY <2>1, <2>2
  <1> QED
    BY <1>1, <1>3, <1>4, <1>5, RequestsKeep, RunsKeep DEF StagedInv

LEMMA FinishInv ==
  ASSUME StagedInv, NEW c \in Call, Finish(c)
  PROVE  StagedInv'
  <1>1. PICK s :
          /\ stage[c] = "posting" /\ stage' = [stage EXCEPT ![c] = s]
          /\ s \in {"saved", "failed", "tool_error", "raised"}
          /\ s = "saved" => Done(c)
    <2>1. CASE Succeed(c, {}, {}) /\ Moves(c, "posting", replies[c].body)
      <3>1. c \in DOMAIN replies /\ replies[c].status_code = 200 /\ replies[c].body # None
        BY <2>1 DEF Succeed, Returns
      <3>2. replies[c].body \in {"saved", "failed"} /\ (replies[c].body = "saved" => Done(c))
        BY <3>1 DEF StagedInv, CallInv
      <3> QED
        BY <2>1, <3>2 DEF Moves
    <2>2. CASE Moves(c, "posting", "tool_error") \/ Moves(c, "posting", "raised")
      BY <2>2 DEF Moves
    <2> QED
      BY <2>1, <2>2 DEF Finish
  <1>2. /\ awaiting' = Drop(awaiting, c) /\ replies' = Drop(replies, c) /\ wire' \subseteq wire
        /\ UNCHANGED <<job, before, saved, running, enabled>>
    BY DEF Finish, Succeed, RaisesToolError, RaisesOther, Refused, ConnectFails, ReadTimesOut,
           BodyIsNoJson, Escapes, Resume
  <1>3. /\ stage'[c] = s /\ \A d \in Call : d # c => stage'[d] = stage[d]
        /\ DOMAIN awaiting' = DOMAIN awaiting \ {c} /\ DOMAIN replies' = DOMAIN replies \ {c}
        /\ \A d \in DOMAIN awaiting' : awaiting'[d] = awaiting[d]
        /\ \A d \in DOMAIN replies' : replies'[d] = replies[d]
    BY <1>1, <1>2 DEF Drop, StagedInv, Domains
  <1>4. Domains'
    BY <1>1, <1>2, <1>3 DEF StagedInv, Domains, Outcomes
  <1>5. JobsKept /\ Acknowledged \subseteq Acknowledged'
    BY <1>1, <1>2, <1>3 DEF JobsKept, Called, Acknowledged
  <1>6. ASSUME NEW d \in Call
        PROVE  CallInv(d)'
    <2>1. CASE d = c
      <3>1. CallInv(c) /\ c \in Called /\ c \in Called'
        BY <1>1, <1>5 DEF StagedInv, CallInv, JobsKept
      <3>2. s = "saved" => Done(c)'
        BY <1>1, <1>2, <1>5, <3>1, DoneKeeps
      <3> QED
        BY <1>1, <1>2, <1>3, <1>5, <2>1, <3>1, <3>2 DEF CallInv
    <2>2. CASE d # c
      <3>1. Untouched(d)
        BY <1>2, <1>3, <2>2 DEF Untouched
      <3> QED
        BY <1>2, <1>5, <3>1, UntouchedKeeps
    <2> QED
      BY <2>1, <2>2
  <1> QED
    BY <1>2, <1>4, <1>5, <1>6, RequestsKeep, RunsKeep DEF StagedInv

LEMMA RestartInv ==
  ASSUME StagedInv, Restart
  PROVE  StagedInv'
  <1>1. /\ DOMAIN awaiting' = {} /\ DOMAIN replies' = {} /\ wire' = wire
        /\ stage' = [c \in Call |-> IF stage[c] = "posting" THEN "died" ELSE stage[c]]
        /\ UNCHANGED <<job, before, saved, running, enabled>>
    BY DEF Restart, ClientRestart, EmptyDict
  <1>2. Domains' /\ JobsKept /\ Acknowledged' = Acknowledged
    BY <1>1 DEF StagedInv, Domains, Outcomes, JobsKept, Called, Acknowledged
  <1>3. ASSUME NEW c \in Call
        PROVE  CallInv(c)'
    <2>1. CallInv(c) /\ (stage'[c] = "died" \/ (stage'[c] = stage[c] /\ stage[c] # "posting"))
      BY <1>1 DEF StagedInv
    <2>2. c \in Called /\ Done(c) => Done(c)'
      BY <1>1, <1>2, DoneKeeps
    <2> QED
      BY <1>1, <1>2, <2>1, <2>2 DEF CallInv, Called
  <1> QED
    BY <1>1, <1>2, <1>3, RequestsKeep, RunsKeep DEF StagedInv

-----------------------------------------------------------------------------
(* The firewall.                                                             *)

(* What an answer does to the replies: one call at most gets it, the one that
   awaits the request. *)
LEMMA AnswerFacts ==
  ASSUME NEW r, NEW reply, Answer(r, reply)
  PROVE  /\ wire' = wire \ {r} /\ awaiting' = awaiting
         /\ DOMAIN replies \subseteq DOMAIN replies'
         /\ \A d \in DOMAIN replies' :
              \/ d \in DOMAIN replies /\ replies'[d] = replies[d]
              \/ d \in DOMAIN awaiting /\ awaiting[d] = r /\ replies'[d] = reply
  <1>1. CASE \E d \in DOMAIN awaiting : awaiting[d] = r
    <2> DEFINE e == CHOOSE d \in DOMAIN awaiting : awaiting[d] = r
    <2>1. e \in DOMAIN awaiting /\ awaiting[e] = r
      BY <1>1
    <2>2. replies' = Put(replies, e, reply)
      BY <1>1 DEF Answer
    <2> HIDE DEF e
    <2> QED
      BY <2>1, <2>2 DEF Answer, Put
  <1>2. CASE ~\E d \in DOMAIN awaiting : awaiting[d] = r
    BY <1>2 DEF Answer
  <1> QED
    BY <1>1, <1>2

LEMMA CarryOutFacts ==
  ASSUME StagedInv, NEW r \in wire, CarryOut(r)
  PROVE  /\ saved \subseteq saved' /\ running \subseteq running'
         /\ saved' \subseteq saved \cup {r}
         /\ running' \subseteq running \cup saved
         /\ Applies(r.path[1]) => saved' = saved
         /\ \A q \in running' \ running :
              Applies(r.path[1]) /\ Unit(q.path[1]) = Unit(r.path[1])
         /\ Applies(r.path[1]) =>
              \A q \in saved : Unit(q.path[1]) = Unit(r.path[1]) => q \in running'
         /\ ~Applies(r.path[1]) /\ Stages(r.path[1]) => r \in saved'
         /\ \/ enabled' = enabled
            \/ enabled' = Put(enabled, <<r.path[1], r.path[2]>>,
                              Toggled(<<r.path[1], r.path[2]>>, r.path[3]))
         /\ ~Applies(r.path[1]) /\ Toggles(r.path[1]) =>
              enabled' = Put(enabled, <<r.path[1], r.path[2]>>,
                             Toggled(<<r.path[1], r.path[2]>>, r.path[3]))
  BY DEF CarryOut

(* A request is that of a call, to the path of its tool. *)
LEMMA RequestFacts ==
  ASSUME StagedInv, NEW r \in wire \cup saved
  PROVE  \E c \in Called :
           /\ Of(r) = c /\ r = RequestOf(c)
           /\ r.path[1] = job[c].tool.path
           /\ r.path[2] = job[c].target
           /\ r.path[3] = Suffix(job[c].value)
           /\ job[c].tool \in AllTools /\ Known(job[c].tool)
  <1>1. Of(r) \in Called /\ r = RequestOf(Of(r))
    BY DEF StagedInv, RequestsInv
  <1>2. Of(r) \in Call
    BY <1>1 DEF Called
  <1>3. job[Of(r)].tool \in AllTools
    BY <1>1, <1>2, CalledJobs DEF StagedInv
  <1> QED
    BY <1>1, <1>3, EveryToolKnown DEF RequestOf, Request

(* The value that callers agree on is the one a toggle of theirs sets. *)
LEMMA ToggledAsAgreed ==
  ASSUME StagedInv, NEW c \in Called, Agreed(c), NEW d \in Called,
         job[d].tool.path = job[c].tool.path, job[d].target = job[c].target
  PROVE  Toggled(Item(c), Suffix(job[d].value)) = job[c].value
  <1>1. job[c].tool \in AllTools /\ job[d].tool \in AllTools
    BY CalledJobs DEF StagedInv, Called
  <1>2. job[d].tool = job[c].tool
    BY <1>1, ToggleByPath DEF Agreed
  <1>3. job[d].value = job[c].value /\ job[c].value # None
    BY <1>2 DEF Agreed
  <1>4. Suffix(job[d].value) = <<job[c].value>>
    BY <1>3 DEF Suffix
  <1> QED
    BY <1>4 DEF Toggled

LEMMA CarryOutKeepsDone ==
  ASSUME StagedInv, NEW r \in wire, CarryOut(r), UNCHANGED <<job, before>>,
         NEW c \in Called, Done(c)
  PROVE  Done(c)'
  <1>1. Agreed(c) /\ Current(Item(c)) = job[c].value => Current(Item(c))' = job[c].value
    <2> SUFFICES ASSUME Agreed(c), Current(Item(c)) = job[c].value
                 PROVE  Current(Item(c))' = job[c].value
      OBVIOUS
    <2>1. PICK d \in Called :
            /\ r.path[1] = job[d].tool.path /\ r.path[2] = job[d].target
            /\ r.path[3] = Suffix(job[d].value)
      BY RequestFacts
    <2>2. Item(c)' = Item(c) /\ Item(c) = <<job[c].tool.path, job[c].target>>
      BY DEF Item
    <2> DEFINE item == <<r.path[1], r.path[2]>>
               x == Toggled(item, r.path[3])
    <2>3. item = Item(c) => x = job[c].value
      BY <2>1, <2>2, ToggledAsAgreed
    <2>4. enabled' = enabled \/ enabled' = Put(enabled, item, x)
      BY CarryOutFacts
    <2> HIDE DEF item, x
    <2> QED
      BY <2>2, <2>3, <2>4 DEF Current, Put
  <1>2. (Agreed(c)' <=> Agreed(c)) /\ \A d : RequestOf(d)' = RequestOf(d)
    BY DEF Agreed, Called, RequestOf
  <1>3. saved \subseteq saved' /\ running \subseteq running'
    BY CarryOutFacts
  <1> QED
    BY <1>1, <1>2, <1>3 DEF Done, Domain

(* The call whose request is carried out may count on it. *)
LEMMA CarriedOutIsDone ==
  ASSUME StagedInv, NEW r \in wire, CarryOut(r), UNCHANGED <<job, before>>
  PROVE  Of(r) \in Called /\ Done(Of(r))'
  <1>1. PICK c \in Called :
          /\ Of(r) = c /\ r = RequestOf(c)
          /\ r.path[1] = job[c].tool.path
          /\ r.path[2] = job[c].target
          /\ r.path[3] = Suffix(job[c].value)
          /\ job[c].tool \in AllTools /\ Known(job[c].tool)
    BY RequestFacts
  <1>2. \A d : RequestOf(d)' = RequestOf(d) /\ Domain(d)' = Domain(d)
    BY DEF RequestOf, Domain
  <1>3. job[c].tool.does \in {"stage", "toggle"} => RequestOf(c) \in saved'
    <2>1. job[c].tool.does \in {"stage", "toggle"} => ~Applies(r.path[1]) /\ Stages(r.path[1])
      BY <1>1 DEF Known
    <2> QED
      BY <1>1, <2>1, CarryOutFacts
  <1>4. ASSUME job[c].tool.does \in {"apply", "restart"}, NEW d \in before[c],
               Domain(d) = Domain(c), job[d].tool.does \in {"stage", "toggle"}
        PROVE  RequestOf(d) \in running'
    <2>1. d \in Called /\ stage[d] = "saved" /\ Done(d)
      BY DEF StagedInv, CallInv, Acknowledged, Called
    <2>2. RequestOf(d) \in saved /\ job[d].tool \in AllTools
      BY <1>4, <2>1, CalledJobs DEF Done, StagedInv, Called
    <2>3. RequestOf(d).path[1] = job[d].tool.path
      BY DEF RequestOf, Request
    <2>4. Unit(RequestOf(d).path[1]) = Unit(r.path[1])
      BY <1>1, <1>4, <2>2, <2>3, UnitIsDomain DEF Domain
    <2>5. Applies(r.path[1])
      BY <1>1, <1>4 DEF Known
    <2> QED
      BY <2>2, <2>4, <2>5, CarryOutFacts
  <1>5. Agreed(c)' => Current(Item(c))' = job[c].value
    <2> SUFFICES ASSUME Agreed(c)' PROVE Current(Item(c))' = job[c].value
      OBVIOUS
    <2>1. Agreed(c) /\ job[c].tool.does = "toggle"
      BY DEF Agreed, Called
    <2>2. ~Applies(r.path[1]) /\ Toggles(r.path[1])
      BY <1>1, <2>1 DEF Known, Applies, Toggles
    <2> DEFINE item == Item(c)
               x == Toggled(item, r.path[3])
    <2>3. item = <<r.path[1], r.path[2]>>
      BY <1>1 DEF Item
    <2>4. enabled' = Put(enabled, item, x)
      BY <2>2, <2>3, CarryOutFacts
    <2>5. x = job[c].value
      BY <1>1, <2>1, ToggledAsAgreed
    <2>6. Item(c)' = item
      BY DEF Item
    <2> HIDE DEF item, x
    <2> QED
      BY <2>4, <2>5, <2>6 DEF Current, Put
  <1> QED
    BY <1>1, <1>2, <1>3, <1>4, <1>5 DEF Done

LEMMA FirewallInv ==
  ASSUME StagedInv, NEW r \in wire, Firewall(r)
  PROVE  StagedInv'
  <1>1. UNCHANGED <<stage, job, before>>
    BY DEF Firewall
  <1>2. PICK reply :
          /\ Answer(r, reply)
          /\ reply.status_code = 200 /\ reply.body # None =>
               \/ reply.body = "saved" /\ CarryOut(r)
               \/ reply.body = "failed"
          /\ CarryOut(r) \/ UNCHANGED <<saved, running, enabled>>
    BY StatusAssumption DEF Firewall, Ok, Garbled, HttpError
  <1>3. /\ wire' = wire \ {r} /\ awaiting' = awaiting
        /\ DOMAIN replies \subseteq DOMAIN replies'
        /\ \A d \in DOMAIN replies' :
             \/ d \in DOMAIN replies /\ replies'[d] = replies[d]
             \/ d \in DOMAIN awaiting /\ awaiting[d] = r /\ replies'[d] = reply
    BY <1>2, AnswerFacts
  <1>4. Domains' /\ JobsKept /\ Acknowledged' = Acknowledged /\ Called' = Called
    BY <1>1, <1>3 DEF StagedInv, Domains, JobsKept, Called, Acknowledged
  <1>5. ASSUME NEW c \in Called, Done(c)
        PROVE  Done(c)'
    <2>1. CASE CarryOut(r)
      BY <1>1, <1>5, <2>1, CarryOutKeepsDone
    <2>2. CASE UNCHANGED <<saved, running, enabled>>
      BY <1>1, <1>4, <1>5, <2>2, DoneKeeps
    <2> QED
      BY <1>2, <2>1, <2>2
  <1>6. ASSUME NEW c \in Call
        PROVE  CallInv(c)'
    <2>1. CallInv(c) /\ RequestOf(c)' = RequestOf(c)
      BY <1>1 DEF StagedInv, RequestOf
    <2>2. ASSUME c \in DOMAIN replies', replies'[c].status_code = 200, replies'[c].body # None
          PROVE  replies'[c].body \in {"saved", "failed"} /\ (replies'[c].body = "saved" => Done(c)')
      <3>1. CASE c \in DOMAIN replies /\ replies'[c] = replies[c]
        BY <1>5, <2>1, <2>2, <3>1 DEF CallInv
      <3>2. CASE c \in DOMAIN awaiting /\ awaiting[c] = r /\ replies'[c] = reply
        <4>1. Of(r) = c
          BY <2>1, <3>2 DEF CallInv, RequestOf, Request, Of
        <4>2. CarryOut(r) => Done(c)'
          BY <1>1, <4>1, CarriedOutIsDone
        <4>3. "saved" # "failed"
          OBVIOUS
        <4> QED
          BY <1>2, <2>2, <3>2, <4>2, <4>3
      <3> QED
        BY <1>3, <2>2, <3>1, <3>2
    <2>3. stage[c] = "saved" => Done(c)'
      BY <1>5, <2>1 DEF CallInv
    <2>4. c \in DOMAIN replies' => c \in DOMAIN awaiting
      BY <1>3, <2>1 DEF CallInv
    <2> QED
      BY <1>1, <1>3, <1>4, <2>1, <2>2, <2>3, <2>4 DEF CallInv
  <1>7. saved' \subseteq saved \cup {r} /\ running' \subseteq saved'
    <2>1. running \subseteq saved
      BY DEF StagedInv
    <2> QED
      BY <1>2, <2>1, CarryOutFacts
  <1>8. RequestsInv'
    BY <1>3, <1>4, <1>7, RequestsKeep
  <1>9. NothingRunsUnapplied'
    <2>1. CASE running' = running
      BY <1>4, <2>1, RunsKeep
    <2>2. CASE CarryOut(r)
      <3>1. ASSUME NEW q \in running' \ running
            PROVE  \E c \in Called : /\ job[c].tool.does \in {"apply", "restart"}
                                     /\ Domain(c) = Domain(Of(q))
        <4>1. q \in saved /\ Applies(r.path[1]) /\ Unit(q.path[1]) = Unit(r.path[1])
          BY <2>2, CarryOutFacts
        <4>2. PICK c \in Called : /\ r.path[1] = job[c].tool.path
                                  /\ job[c].tool \in AllTools /\ Known(job[c].tool)
          BY RequestFacts
        <4>3. PICK d \in Called : /\ Of(q) = d /\ q.path[1] = job[d].tool.path
                                  /\ job[d].tool \in AllTools
          BY <4>1, RequestFacts
        <4>4. job[c].tool.does \in {"apply", "restart"}
          BY <4>1, <4>2 DEF Known
        <4>5. Domain(c) = Domain(d)
          BY <4>1, <4>2, <4>3, UnitIsDomain DEF Domain
        <4> QED
          BY <4>3, <4>4, <4>5
      <3> QED
        BY <1>1, <1>4, <3>1 DEF StagedInv, NothingRunsUnapplied, Domain
    <2> QED
      BY <1>2, <2>1, <2>2
  <1> QED
    BY <1>4, <1>6, <1>7, <1>8, <1>9 DEF StagedInv

LEMMA StutterInv ==
  ASSUME StagedInv, UNCHANGED stagedVars
  PROVE  StagedInv'
  <1>1. UNCHANGED <<awaiting, wire, replies, stage, job, before, saved, running, enabled>>
    BY DEF stagedVars, clientVars
  <1>2. Domains' /\ JobsKept /\ Acknowledged' = Acknowledged
    BY <1>1 DEF StagedInv, Domains, JobsKept, Called, Acknowledged
  <1>3. \A c \in Call : CallInv(c)'
    BY <1>1, <1>2, UntouchedKeeps DEF Untouched
  <1> QED
    BY <1>1, <1>2, <1>3, RequestsKeep, RunsKeep DEF StagedInv

LEMMA StagedNextInv == StagedInv /\ [StagedNext]_stagedVars => StagedInv'
  BY PostInv, RefuseArgumentsInv, FinishInv, FirewallInv, RestartInv, StutterInv DEF StagedNext

LEMMA StagedInvariance == StagedSpec => []StagedInv
  BY StagedInitInv, StagedNextInv, PTL DEF StagedSpec

-----------------------------------------------------------------------------
(* The variables have their types, a call has its one request out exactly
   while it is posting, and what is in force is in the configuration
   (client.py, post). *)
THEOREM StagedTypes == StagedSpec => []StagedTypeOK
  <1>1. StagedInv => StagedTypeOK
    <2> SUFFICES ASSUME StagedInv PROVE StagedTypeOK
      OBVIOUS
    <2>1. DOMAIN awaiting = {c \in Call : stage[c] = "posting"}
      BY DEF StagedInv, Domains, CallInv
    <2>2. \A c \in Call : stage[c] \in {"posting", "saved", "failed"} => c \in Called
      BY DEF StagedInv, CallInv
    <2>3. {Of(r) : r \in wire \cup saved} \subseteq Called
      BY DEF StagedInv, RequestsInv
    <2> QED
      BY <2>1, <2>2, <2>3 DEF StagedInv, Domains, StagedTypeOK, Outcomes
  <1> QED
    BY <1>1, StagedInvariance, PTL

(* Whatever set of the tools is offered, an apply tool that reports success
   has put in force every change of its domain acknowledged before it: the
   stage tools and the apply tool of each domain post to the same unit
   (firewall.py, routes.py, dhcp.py, dns.py, ids.py, proxy.py, openvpn.py,
   ipsec.py, wireguard.py, captiveportal.py, interfaces.py, services.py). *)
THEOREM AppliesCover == StagedSpec => []AppliesCoverAcknowledged
  <1>1. StagedInv => AppliesCoverAcknowledged
    <2> SUFFICES ASSUME StagedInv, NEW c \in Acknowledged,
                        job[c].tool.does \in {"apply", "restart"}, NEW d \in before[c],
                        Domain(d) = Domain(c), job[d].tool.does \in {"stage", "toggle"}
                 PROVE  \E r \in running : Of(r) = d
      BY DEF AppliesCoverAcknowledged
    <2>1. RequestOf(d) \in running
      BY DEF StagedInv, CallInv, Acknowledged, Done
    <2> QED
      BY <2>1 DEF RequestOf, Request, Of
  <1> QED
    BY <1>1, StagedInvariance, PTL

(* Nothing is in force but what an apply or a restart of its own domain has
   put in force: no tool's path applies the changes of another domain. *)
THEOREM NothingRunsBeforeAnApply == StagedSpec => []NothingRunsUnapplied
  <1>1. StagedInv => NothingRunsUnapplied
    BY DEF StagedInv
  <1> QED
    BY <1>1, StagedInvariance, PTL

(* Callers of the rule and ruleset toggles that agree on a value get it, in
   spite of timeouts, repeated calls and late requests (ids.py, the optional
   last segment of the path). *)
THEOREM ForcedTogglesAgree == StagedSpec => []ForcedTogglesConverge
  <1>1. StagedInv => ForcedTogglesConverge
    <2> SUFFICES ASSUME StagedInv, NEW c \in Acknowledged,
                        job[c].tool.does = "toggle", job[c].value # None,
                        \A d \in {d \in Called : /\ job[d].tool = job[c].tool
                                                 /\ job[d].target = job[c].target} :
                          job[d].value = job[c].value
                 PROVE  Current(<<job[c].tool.path, job[c].target>>) = job[c].value
      BY DEF ForcedTogglesConverge
    <2>1. Agreed(c)
      BY DEF Agreed
    <2>2. Done(c)
      BY DEF StagedInv, CallInv, Acknowledged
    <2> QED
      BY <2>1, <2>2 DEF Done, Item
  <1> QED
    BY <1>1, StagedInvariance, PTL
=============================================================================
