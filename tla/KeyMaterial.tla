----------------------------- MODULE KeyMaterial -----------------------------
(***************************************************************************)
(* The tools that read objects of the firewall (src/opnsense_mcp/tools),   *)
(* the redaction of those that hold keys, and the tools that write, issue, *)
(* generate and export keys.  Calls of several clients interleave; a       *)
(* client may send back an object it was shown, changed.                   *)
(*                                                                         *)
(* The text of a field is the call it comes from and whether it is key     *)
(* material: that is all the properties tell apart.                        *)
(***************************************************************************)
EXTENDS OPNsenseClient, Redaction, Sequences, FiniteSets

CONSTANTS
  Offered,   \* the kinds of objects the calls of an instance are about
  Old        \* the uuid of an object older than the server

VARIABLES
  stage,     \* call |-> how far it is, or how it ended
  job,       \* call |-> what it was called with, None before
  result,    \* call |-> what its tool returned
  items,     \* uuid |-> an object of the firewall: its kind, its fields
  seen       \* call |-> items as they were while it ran; for the properties

keyVars == <<clientVars, stage, job, result, items, seen>>

-----------------------------------------------------------------------------
(* The kinds of objects: the controller, the key an object is wrapped in,    *)
(* the fields its reads drop, and the tools there are for it.                *)

Kind(path, wrapper, secrets, tools) ==
  [path |-> path, wrapper |-> wrapper, secrets |-> secrets, tools |-> tools]

Crud == {"list", "get", "add", "set", "del"}

StaticKeys ==
  Kind("openvpn/instances/static_key", "statickey", {"key"}, Crud \cup {"generate"})

KeyPairs ==
  Kind("ipsec/key_pairs", "keyPair", {"privateKey"}, Crud \cup {"generate"})

PreSharedKeys == Kind("ipsec/pre_shared_keys", "preSharedKey", {"Key"}, Crud)

(* A server is deleted by a high-risk tool. *)
WireGuardServers ==
  Kind("wireguard/server", "server", {"privkey"}, (Crud \ {"del"}) \cup {"generate"})

WireGuardPeers == Kind("wireguard/client", "client", {"psk"}, Crud \cup {"generate"})

KeySecrets == {"prv", "prv_payload"}

Authorities == Kind("trust/ca", "ca", KeySecrets, Crud \cup {"issue"})

Certificates == Kind("trust/cert", "cert", KeySecrets, Crud \cup {"issue", "export"})

Blacklists == Kind("proxy/settings/remote_blacklist", "blacklist", {"password"}, Crud)

(* Kinds read as they are.  A search is a POST; rules of NAT, routes and
   the like are not read one by one. *)
Plain(path, wrapper, tools) == Kind(path, wrapper, {}, tools)

Searched == {"search", "add", "set", "del"}

FilterRules == Plain("firewall/filter/rule", "rule", Searched \cup {"get"})
Aliases == Plain("firewall/alias/item", "alias", {"show", "add", "set", "del"})
NatRules == Plain("firewall/d_nat/rule", "rule", Searched)
Routes == Plain("routes/routes/route", "route", Searched)
Leases == Plain("kea/leases4", None, {"search"})
Reservations == Plain("kea/dhcpv4/reservation", "reservation", Crud \ {"get"})
HostOverrides == Plain("unbound/settings/HostOverride", "host", Crud \ {"get"})
Rulesets == Plain("ids/settings/Rulesets", None, {"list"})
Instances == Plain("openvpn/instances", "instance", Crud \ {"del"})
ClientOverrides == Plain("openvpn/client_overwrites", "cso", Crud)
Sessions == Plain("openvpn/service", None, {"list"})
Connections == Plain("ipsec/connections/connection", "connection", Crud \ {"del"})
Pools == Plain("ipsec/pools", "pool", Crud)
Zones == Plain("captiveportal/settings/zone", "zone", Crud)
Assignments == Plain("interfaces/assignment/item", "interface", {"list", "get", "add"})
Neighbours == Plain("diagnostics/interface", None, {"table", "show"})
RevocationLists == Plain("trust/crl", "crl", {"list", "get"})
System == Plain("core/system", None, {"show"})

Settings ==
  {Plain(path, None, {"show"}) : path \in
     {"trust/settings", "kea/dhcpv4", "unbound/settings", "proxy/settings", "wireguard/general"}}

PacEntries ==
  {Plain("proxy/settings/pac_rule", "rule", Crud), Plain("proxy/settings/pac_proxy", "proxy", Crud),
   Plain("proxy/settings/pac_match", "match", Crud)}

Rounds ==
  {Plain("ipsec/connections/local", "local", Crud), Plain("ipsec/connections/remote", "remote", Crud),
   Plain("ipsec/connections/child", "child", Crud)}

(* The whole configuration, as text. *)
Configuration == Plain("core/backup/download/this", None, {"backup"})

Keyed ==
  {StaticKeys, KeyPairs, PreSharedKeys, WireGuardServers, WireGuardPeers, Authorities,
   Certificates, Blacklists}

Unkeyed ==
  {FilterRules, Aliases, NatRules, Routes, Leases, Reservations, HostOverrides, Rulesets,
   Instances, ClientOverrides, Sessions, Connections, Pools, Zones, Assignments,
   Neighbours, RevocationLists, System, Configuration}
    \cup Settings \cup PacEntries \cup Rounds

Kinds == Keyed \cup Unkeyed

ASSUME OfferedAssumption == Offered \subseteq Kinds
ASSUME OldAssumption == Old \notin Call \cup {None}

-----------------------------------------------------------------------------
(* The firewall's own names for what it wraps an object in and for the       *)
(* fields it keeps keys in, from the documents of its API.                   *)

KeyFields(path) ==
  CASE path = "openvpn/instances/static_key" -> {"key"}
    [] path = "ipsec/key_pairs" -> {"privateKey"}
    [] path = "ipsec/pre_shared_keys" -> {"Key"}
    [] path = "wireguard/server" -> {"privkey"}
    [] path = "wireguard/client" -> {"psk"}
    [] path \in {"trust/ca", "trust/cert"} -> {"prv", "prv_payload"}
    [] path = "proxy/settings/remote_blacklist" -> {"password"}
    [] OTHER -> {}

Wrapper(path) ==
  CASE path = "openvpn/instances/static_key" -> "statickey"
    [] path = "ipsec/key_pairs" -> "keyPair"
    [] path = "ipsec/pre_shared_keys" -> "preSharedKey"
    [] path = "wireguard/server" -> "server"
    [] path = "wireguard/client" -> "client"
    [] path = "trust/ca" -> "ca"
    [] path = "trust/cert" -> "cert"
    [] path = "proxy/settings/remote_blacklist" -> "blacklist"
    [] OTHER -> (CHOOSE kind \in Kinds : kind.path = path).wrapper

-----------------------------------------------------------------------------
(* The calls.                                                                *)

Public(c) == Text([secret |-> FALSE, from |-> c])
Key(c) == Text([secret |-> TRUE, from |-> c])

Under(key, value) == Dict([k \in {key} |-> value])

(* An object with a description, and a key in each field for one. *)
Object(c, fields) ==
  [f \in {"descr"} \cup fields |-> IF f = "descr" THEN Public(c) ELSE Key(c)]

(* The objects there may be at first: one of any of the kinds. *)
KeyInit ==
  /\ ClientInit
  /\ stage = [c \in Call |-> "idle"]
  /\ job = [c \in Call |-> None]
  /\ result = EmptyDict
  /\ \E kind \in Offered \ {Configuration} :
       items = Put(EmptyDict, Old,
                   [path |-> kind.path, fields |-> Object(Old, KeyFields(kind.path))])
  /\ seen = EmptyDict

Moves(c, from, to) ==
  /\ stage[c] = from
  /\ stage' = [stage EXCEPT ![c] = to]

Method(does) == IF does \in {"search", "add", "issue", "set", "del"} THEN "POST" ELSE "GET"

(* Mutation of Ask: the request is left to a background task, and the call
   returns at once. *)
AskInBackground(c, kind, does, uuid, data) ==
  /\ does \in kind.tools
  /\ Moves(c, "idle", "ok")
  /\ job' = [job EXCEPT ![c] = [kind |-> kind, does |-> does, uuid |-> uuid, data |-> data]]
  /\ Send(c, Request(c, Method(does), <<kind.path, does, uuid>>, data, None))
  /\ seen' = Put(seen, c, {items})
  /\ UNCHANGED <<result, items>>

(* A tool is called and its request sent. *)
Ask(c, kind, does, uuid, data) ==
  /\ does \in kind.tools
  /\ Moves(c, "idle", "waiting")
  /\ job' = [job EXCEPT ![c] = [kind |-> kind, does |-> does, uuid |-> uuid, data |-> data]]
  /\ Send(c, Request(c, Method(does), <<kind.path, does, uuid>>, data, None))
  /\ seen' = Put(seen, c, {items})
  /\ UNCHANGED <<result, items>>

RefuseUuid(c) ==
  /\ Moves(c, "idle", "tool_error")
  /\ UNCHANGED <<clientVars, job, result, items, seen>>

Read(c, kind) ==
  \/ \E does \in {"list", "search", "table", "show", "generate", "backup"} :
       Ask(c, kind, does, None, None)
  \/ \E does \in {"get", "export"}, uuid \in DOMAIN items : Ask(c, kind, does, uuid, None)

(* A new object with a key the caller has, or one the firewall is to issue
   a key for, to be kept there or given to the caller. *)
Add(c, kind) ==
  \/ Ask(c, kind, "add", None, Under(kind.wrapper, Dict(Object(c, kind.secrets))))
  \/ \E location \in {"firewall", "local"} :
       Ask(c, kind, "issue", None,
           Under(kind.wrapper, Dict([descr |-> Public(c), private_key_location |-> Public(location)])))

(* The caller of g is shown an object, and sends it back with another
   description. *)
Edit(c, g, kind, uuid) ==
  /\ g \in DOMAIN result
  /\ job[g].does = "get" /\ job[g].kind = kind /\ job[g].uuid = uuid
  /\ Holds(result[g], kind.wrapper, "dict")
  /\ Ask(c, kind, "set", uuid,
         Under(kind.wrapper, Dict(Put(result[g].of[kind.wrapper].of, "descr", Public(c)))))

(* The caller gives an object another key. *)
Rotate(c, kind, uuid) ==
  /\ kind.secrets # {}
  /\ Ask(c, kind, "set", uuid,
         Under(kind.wrapper, Dict([f \in kind.secrets |-> Key(c)])))

Delete(c, kind, uuid) == Ask(c, kind, "del", uuid, None)

(* Mutation of Redacts: the list is forgotten. *)
RedactsGets(kind, does) == kind.secrets # {} /\ does = "get"

Redacts(kind, does) == kind.secrets # {} /\ does \in {"list", "get"}

(* Mutation of Returned: every response to a tool of a kind with keys loses
   them, and from its top level. *)
ReturnedBare(kind, does, resp) ==
  IF resp.type = "dict" THEN RedactPrivateKeys(resp, kind.secrets) ELSE resp

(* What the tool returns of the response it got. *)
Returned(kind, does, resp) ==
  IF ~Redacts(kind, does) THEN resp
  ELSE IF does = "list" THEN RedactRows(resp, kind.secrets)
                        ELSE RedactWrapped(resp, kind.wrapper, kind.secrets)

(* resp.get raises AttributeError when the response is a list. *)
Finish(c) ==
  LET resp == replies[c].body
      fits == Redacts(job[c].kind, job[c].does) => resp.type = "dict"
  IN  /\ \/ /\ Succeed(c, {}, {})
            /\ fits
            /\ Moves(c, "waiting", "ok")
            /\ result' = Put(result, c, Returned(job[c].kind, job[c].does, resp))
         \/ Succeed(c, {}, {}) /\ ~fits /\ Moves(c, "waiting", "raised") /\ UNCHANGED result
         \/ RaisesToolError(c, {}) /\ Moves(c, "waiting", "tool_error") /\ UNCHANGED result
         \/ RaisesOther(c) /\ Moves(c, "waiting", "raised") /\ UNCHANGED result
      /\ UNCHANGED <<job, items, seen>>

-----------------------------------------------------------------------------
(* The firewall.                                                             *)

Having(path) == {u \in DOMAIN items : items[u].path = path}

(* The rows of a search, in some order. *)
Rows(uuids) ==
  {List([i \in DOMAIN order |-> Dict(items[order[i]].fields)]) :
     order \in {s \in [1..Cardinality(uuids) -> uuids] : \A u \in uuids : \E i \in DOMAIN s : s[i] = u}}

NotFound == List(<<>>)
Saved == Under("result", Public("saved"))
Failed == Under("result", Public("failed"))

(* What the firewall has to say to a request that reads. *)
Shown(r) ==
  LET path == r.path[1]
      uuid == r.path[3]
      does == r.path[2]
  IN  CASE does \in {"list", "search"} -> {Under("rows", rows) : rows \in Rows(Having(path))}
        [] does = "table" -> Rows(Having(path))
        [] does = "show" -> {Dict(items[u].fields) : u \in Having(path)} \cup {NotFound}
        [] does = "get" -> {IF uuid \in Having(path)
                              THEN Under(Wrapper(path), Dict(items[uuid].fields)) ELSE NotFound}
        [] does = "export" -> {IF uuid \in Having(path)
                                 THEN Dict(items[uuid].fields) ELSE NotFound}
        [] does = "generate" -> {Under("key", Key(r.req_id))}
        [] does = "backup" -> Rows(DOMAIN items)

Reads(r) == r.path[2] \notin {"add", "issue", "set", "del"}

AnswerRead(r) ==
  /\ Reads(r)
  /\ \/ \E resp \in Shown(r) : Answer(r, Ok(resp))
     \/ \E reply \in {Garbled, HttpError} : Answer(r, reply)
  /\ UNCHANGED <<items, seen>>

Posted(r) == r.data.of[Wrapper(r.path[1])].of

Stores(u, path, fields) == items' = Put(items, u, [path |-> path, fields |-> fields])

Changed ==
  seen' = [c \in DOMAIN seen |-> IF c \in DOMAIN awaiting THEN seen[c] \cup {items'} ELSE seen[c]]

(* A write and what the firewall answers if nothing is lost on the way.
   Fields that are not posted stay; an issued key is stored, or it is in the
   answer and nowhere else. *)
Write(r, reply) ==
  LET path == r.path[1]
      does == r.path[2]
      uuid == r.path[3]
      knows == Wrapper(path) \in DOMAIN r.data.of
  IN  \/ does = "add" /\ knows /\ reply = Saved /\ Stores(r.req_id, path, Posted(r))
      \/ /\ does = "issue" /\ knows
         /\ IF Posted(r)["private_key_location"] = Public("local")
              THEN /\ reply = Under("private_key", Key(r.req_id))
                   /\ Stores(r.req_id, path, Object(r.req_id, {}))
              ELSE /\ reply = Saved
                   /\ Stores(r.req_id, path, Object(r.req_id, KeyFields(path)))
      \/ /\ does = "set" /\ knows /\ uuid \in Having(path)
         /\ reply = Saved
         /\ Stores(uuid, path, Merge(Posted(r), items[uuid].fields))
      \/ /\ does = "del" /\ uuid \in Having(path)
         /\ reply = Saved
         /\ items' = Drop(items, uuid)

AnswerWrite(r) ==
  \/ /\ \E reply \in {Saved, Under("private_key", Key(r.req_id))} :
          Write(r, reply) /\ \E sent \in {Ok(reply), Garbled, HttpError} : Answer(r, sent)
     /\ Changed
  \/ /\ ~Reads(r)
     /\ \E reply \in {Ok(Failed), Garbled, HttpError} : Answer(r, reply)
     /\ UNCHANGED <<items, seen>>

Firewall(r) ==
  /\ AnswerRead(r) \/ AnswerWrite(r)
  /\ UNCHANGED <<stage, job, result>>

Restart ==
  /\ ClientRestart
  /\ stage' = [c \in Call |-> IF stage[c] = "waiting" THEN "died" ELSE stage[c]]
  /\ UNCHANGED <<job, result, items, seen>>

KeyNext ==
  \/ \E c \in Call :
       \/ RefuseUuid(c)
       \/ \E kind \in Offered :
            \/ Read(c, kind) \/ Add(c, kind)
            \/ \E uuid \in DOMAIN items :
                 \/ \E g \in Call : Edit(c, g, kind, uuid)
                 \/ Rotate(c, kind, uuid)
                 \/ Delete(c, kind, uuid)
       \/ Finish(c)
  \/ \E r \in wire : Firewall(r)
  \/ Restart

KeySpec == KeyInit /\ [][KeyNext]_keyVars

-----------------------------------------------------------------------------
(* Whether text is in a response: by itself, in a dict or a list, in an
   object under a wrapper or in a row, or in a row of a list under a key. *)
InText(t, v) == v.type = "text" /\ v = t
InFields(t, v) == InText(t, v) \/ (v.type # "text" /\ \E k \in DOMAIN v.of : InText(t, v.of[k]))
InObjects(t, v) == InFields(t, v) \/ (v.type # "text" /\ \E k \in DOMAIN v.of : InFields(t, v.of[k]))
Shows(v, t) == InObjects(t, v) \/ (v.type # "text" /\ \E k \in DOMAIN v.of : InObjects(t, v.of[k]))

Keys == {Key(c) : c \in Call \cup {Old}}

Answered == {c \in Call : stage[c] = "ok"}

(* Calls end as their stages say, and objects are under the uuids of the
   calls that added them. *)
KeyTypeOK ==
  /\ stage \in [Call -> {"idle", "waiting", "ok", "tool_error", "raised", "died"}]
  /\ DOMAIN awaiting = {c \in Call : stage[c] = "waiting"}
  /\ DOMAIN result = Answered
  /\ \A c \in Answered : job[c].kind \in Offered /\ job[c].does \in job[c].kind.tools
  /\ \A u \in DOMAIN items :
       u = Old \/ (u \in Call /\ stage[u] # "idle" /\ job[u].kind.path = items[u].path)

(* "Redacted on every read": no list and no get shows a key, wherever in the
   response the firewall puts it, whoever stored it and however. *)
ReadsHideKeys ==
  \A c \in Answered : job[c].does \in {"list", "get"} =>
    \A key \in Keys : ~Shows(result[c], key)

(* Nothing but the keys is missing: what a read shows is every object of the
   kind as it was at one moment of the call, without its key fields. *)
WithoutKeys(item) ==
  Dict([f \in DOMAIN item.fields \ KeyFields(item.path) |-> item.fields[f]])

ReadsAreSnapshots ==
  \A c \in Answered : \E table \in seen[c] :
    LET kind == job[c].kind
        objects == {u \in DOMAIN table : table[u].path = kind.path}
        rows == result[c].of["rows"].of
    IN  /\ job[c].does \in {"list", "search"} =>
             /\ Len(rows) = Cardinality(objects)
             /\ {rows[i] : i \in DOMAIN rows} = {WithoutKeys(table[u]) : u \in objects}
        /\ job[c].does = "get" =>
             IF result[c].type = "list" THEN job[c].uuid \notin objects
             ELSE /\ job[c].uuid \in objects
                  /\ result[c] = Under(kind.wrapper, WithoutKeys(table[job[c].uuid]))

(* What a client was shown can be changed and sent back without harm to the
   key: an object's key changes only when a request that gives it one is
   carried out, whatever rotations came between the read and the write. *)
KeyOf(u) == [f \in KeyFields(items[u].path) \cap DOMAIN items[u].fields |-> items[u].fields[f]]

Gives(c) ==
  job[c].does = "set" /\ \E k \in DOMAIN job[c].data.of : Shows(job[c].data.of[k], Key(c))

KeysChangeByRotation ==
  [][\A u \in DOMAIN items \cap DOMAIN items' :
       KeyOf(u) # KeyOf(u)' =>
         \E r \in wire \ wire' : Gives(r.req_id) /\ job[r.req_id].uuid = u]_keyVars

(* "Returned once": a generated key and one issued to the caller are in the
   result of the call that asked for it, which alone reports success, and in
   no other's, unless somebody stores them. *)
OneShot(c) ==
  \/ job[c].does = "generate"
  \/ /\ job[c].does = "issue"
     /\ job[c].data.of[job[c].kind.wrapper].of["private_key_location"] = Public("local")

OneShotKeysArrive ==
  \A c \in Answered :
    /\ OneShot(c) /\ result[c] # Failed => Shows(result[c], Key(c))
    /\ \A d \in Answered : Shows(result[c], Key(d)) /\ OneShot(d) => c = d
=============================================================================
