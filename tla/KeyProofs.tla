------------------------------ MODULE KeyProofs ------------------------------
(***************************************************************************)
(* Theorems about KeyMaterial, for any calls, and for all the kinds of     *)
(* objects and not only those of a run: no read shows a key, none leaves   *)
(* out anything else, no object that was read, changed and sent back       *)
(* changes one, and a key given out once goes to its own caller.           *)
(*                                                                         *)
(* None of these is inductive.  What a tool returns was a reply before,    *)
(* and an object of the firewall before that, whose fields came in a       *)
(* request; so the invariants follow a field from the call that is made to *)
(* the result of another.  KeyInv says at each place which fields may hold *)
(* keys: those the code drops from what it returns.  OriginInv says whose  *)
(* keys they may be, and TablesInv at which moment of the call the table   *)
(* said what a response says.                                              *)
(***************************************************************************)
EXTENDS KeyMaterial, FiniteSetTheorems, SequenceTheorems, TLAPS

(* No key. *)
Open(v) == v.type = "text" /\ ~v.of.secret

(* An object whose keys, if any, are where the firewall keeps them. *)
Mixed(path, v) ==
  /\ v.type = "dict"
  /\ \A f \in DOMAIN v.of \ KeyFields(path) : Open(v.of[f])

(* An object that has lost them. *)
Clear(path, v) ==
  /\ v.type = "dict"
  /\ DOMAIN v.of \cap KeyFields(path) = {}
  /\ \A f \in DOMAIN v.of : Open(v.of[f])

(* A response with one object under a wrapper, and one with rows. *)
Wraps(v, wrapper) == v.type = "dict" /\ DOMAIN v.of = {wrapper}

HasRows(v) == Wraps(v, "rows") /\ v.of["rows"].type = "list"

RowsOf(v) == {v.of["rows"].of[i] : i \in DOMAIN v.of["rows"].of}

(* What the firewall answers to a get or a list of objects of a path. *)
Answers(path, does, v) ==
  /\ does = "get" =>
       v = NotFound \/ (Wraps(v, Wrapper(path)) /\ Mixed(path, v.of[Wrapper(path)]))
  /\ does = "list" => HasRows(v) /\ \A row \in RowsOf(v) : Mixed(path, row)

(* What the tools return of it. *)
IsRedacted(path, does, v) ==
  /\ does = "get" =>
       v = NotFound \/ (Wraps(v, Wrapper(path)) /\ Clear(path, v.of[Wrapper(path)]))
  /\ does = "list" => HasRows(v) /\ \A row \in RowsOf(v) : Clear(path, row)

-----------------------------------------------------------------------------

(* The code names every field the firewall keeps a key in, and the wrapper
   the firewall uses, for every kind of object. *)
LEMMA CodeKnowsTheKeys ==
  ASSUME NEW kind \in Kinds
  PROVE  /\ KeyFields(kind.path) = kind.secrets
         /\ kind.secrets # {} => Wrapper(kind.path) = kind.wrapper
         /\ "descr" \notin kind.secrets
<1>1. CASE kind \in Keyed
  <2>1. CASE kind = StaticKeys
    BY <2>1 DEF StaticKeys, Kind, KeyFields, Wrapper
  <2>2. CASE kind = KeyPairs
    BY <2>2 DEF KeyPairs, Kind, KeyFields, Wrapper
  <2>3. CASE kind = PreSharedKeys
    BY <2>3 DEF PreSharedKeys, Kind, KeyFields, Wrapper
  <2>4. CASE kind = WireGuardServers
    BY <2>4 DEF WireGuardServers, Kind, KeyFields, Wrapper
  <2>5. CASE kind = WireGuardPeers
    BY <2>5 DEF WireGuardPeers, Kind, KeyFields, Wrapper
  <2>6. CASE kind = Authorities
    BY <2>6 DEF Authorities, KeySecrets, Kind, KeyFields, Wrapper
  <2>7. CASE kind = Certificates
    BY <2>7 DEF Certificates, KeySecrets, Kind, KeyFields, Wrapper
  <2>8. CASE kind = Blacklists
    BY <2>8 DEF Blacklists, Kind, KeyFields, Wrapper
  <2>9. QED  BY <1>1, <2>1, <2>2, <2>3, <2>4, <2>5, <2>6, <2>7, <2>8 DEF Keyed
<1>2. CASE kind \in Unkeyed
  <2> DEFINE Theirs == {"openvpn/instances/static_key", "ipsec/key_pairs",
                        "ipsec/pre_shared_keys", "wireguard/server", "wireguard/client",
                        "trust/ca", "trust/cert", "proxy/settings/remote_blacklist"}
             Other == kind.secrets = {} /\ kind.path \notin Theirs
  <2>1. ASSUME kind \in {FilterRules, Aliases, NatRules, Routes, Leases, Reservations} PROVE Other
    BY <2>1 DEF Kind, Plain, FilterRules, Aliases, NatRules, Routes, Leases, Reservations
  <2>2. ASSUME kind \in {HostOverrides, Rulesets, Instances, ClientOverrides, Sessions} PROVE Other
    BY <2>2 DEF Kind, Plain, HostOverrides, Rulesets, Instances, ClientOverrides, Sessions
  <2>3. ASSUME kind \in {Connections, Pools, Zones, Assignments, Neighbours} PROVE Other
    BY <2>3 DEF Kind, Plain, Connections, Pools, Zones, Assignments, Neighbours
  <2>4. ASSUME kind \in {RevocationLists, System, Configuration} PROVE Other
    BY <2>4 DEF Kind, Plain, RevocationLists, System, Configuration
  <2>5. ASSUME kind \in Settings \cup PacEntries \cup Rounds PROVE Other
    BY <2>5 DEF Kind, Plain, Settings, PacEntries, Rounds
  <2>6. kind \in {FilterRules, Aliases, NatRules, Routes, Leases, Reservations}
          \cup {HostOverrides, Rulesets, Instances, ClientOverrides, Sessions}
          \cup {Connections, Pools, Zones, Assignments, Neighbours}
          \cup {RevocationLists, System, Configuration}
          \cup (Settings \cup PacEntries \cup Rounds)
    BY <1>2, Zenon DEF Unkeyed
  <2>7. Other
    BY <2>1, <2>2, <2>3, <2>4, <2>5, <2>6
  <2>8. KeyFields(kind.path) = {}
    BY <2>7 DEF KeyFields
  <2>9. QED  BY <2>7, <2>8
<1>3. QED  BY <1>1, <1>2 DEF Kinds

-----------------------------------------------------------------------------

LEMMA RedactionClears ==
  ASSUME NEW path, NEW obj, Mixed(path, obj)
  PROVE  Clear(path, RedactPrivateKeys(obj, KeyFields(path)))
  BY DEF Mixed, Clear, RedactPrivateKeys, Dict

LEMMA RowsAreRedacted ==
  ASSUME NEW path, NEW v, Answers(path, "list", v)
  PROVE  IsRedacted(path, "list", RedactRows(v, KeyFields(path)))
<1> DEFINE rows == v.of["rows"].of
           clear == [i \in DOMAIN rows |-> RedactRow(rows[i], KeyFields(path))]
           w == RedactRows(v, KeyFields(path))
<1>1. Wraps(v, "rows") /\ v.of["rows"].type = "list" /\ \A i \in DOMAIN rows : Mixed(path, rows[i])
  BY DEF Answers, HasRows, RowsOf
<1>2. w = Dict([v.of EXCEPT !["rows"] = List(clear)])
  BY <1>1 DEF RedactRows, Holds, Wraps
<1>3. Wraps(w, "rows") /\ w.of["rows"] = List(clear)
  BY <1>1, <1>2 DEF Wraps, Dict
<1>4. HasRows(w) /\ RowsOf(w) = {clear[i] : i \in DOMAIN rows}
  BY <1>3 DEF HasRows, RowsOf, List
<1>5. ASSUME NEW i \in DOMAIN rows PROVE Clear(path, clear[i])
  BY <1>1, RedactionClears DEF RedactRow, Mixed
<1> QED  BY <1>4, <1>5 DEF IsRedacted

LEMMA ObjectsAreRedacted ==
  ASSUME NEW path, NEW v, Answers(path, "get", v), v.type = "dict"
  PROVE  IsRedacted(path, "get", RedactWrapped(v, Wrapper(path), KeyFields(path)))
<1> DEFINE wrapper == Wrapper(path)
           obj == v.of[wrapper]
           w == RedactWrapped(v, wrapper, KeyFields(path))
<1>1. Wraps(v, wrapper) /\ Mixed(path, obj)
  BY DEF Answers, NotFound, List
<1>2. w = Dict([v.of EXCEPT ![wrapper] = RedactPrivateKeys(obj, KeyFields(path))])
  BY <1>1 DEF RedactWrapped, Holds, Wraps, Mixed
<1>3. Wraps(w, wrapper) /\ w.of[wrapper] = RedactPrivateKeys(obj, KeyFields(path))
  BY <1>1, <1>2 DEF Wraps, Dict
<1> QED  BY <1>1, <1>3, RedactionClears DEF IsRedacted

LEMMA WithoutKeysIsRedacted ==
  ASSUME NEW path, NEW does, NEW v, Answers(path, does, v), KeyFields(path) = {}
  PROVE  IsRedacted(path, does, v)
  BY DEF Answers, IsRedacted, Mixed, Clear

(* A response of redacted objects shows no key at any depth. *)
LEMMA RedactedHides ==
  ASSUME NEW path, NEW does \in {"get", "list"}, NEW v, IsRedacted(path, does, v),
         NEW key \in Keys
  PROVE  ~Shows(v, key)
<1>1. key.type = "text" /\ key.of.secret
  BY DEF Keys, Key, Text
<1>2. ASSUME NEW obj, Clear(path, obj) PROVE ~InFields(key, obj)
  BY <1>1, <1>2 DEF Clear, Open, InFields, InText
<1>3. ASSUME NEW w, w.type # "text", \A k \in DOMAIN w.of : Clear(path, w.of[k])
      PROVE  ~InObjects(key, w)
  BY <1>2, <1>3 DEF InObjects, InFields, InText, Clear
<1>4. CASE does = "get"
  <2>1. CASE v = NotFound
    <3>1. v.type = "list" /\ DOMAIN v.of = {}
      BY <2>1 DEF NotFound, List
    <3> QED  BY <3>1 DEF Shows, InObjects, InFields, InText
  <2>2. CASE Wraps(v, Wrapper(path)) /\ Clear(path, v.of[Wrapper(path)])
    <3> DEFINE obj == v.of[Wrapper(path)]
    <3>1. v.type = "dict" /\ \A k \in DOMAIN v.of : v.of[k] = obj
      BY <2>2 DEF Wraps
    <3>2. ~InFields(key, obj) /\ \A f \in DOMAIN obj.of : Open(obj.of[f])
      BY <2>2, <1>2 DEF Clear
    <3>3. \A f \in DOMAIN obj.of : ~InFields(key, obj.of[f])
      BY <3>2, <1>1 DEF Open, InFields, InText
    <3>4. ~InObjects(key, obj)
      BY <3>2, <3>3 DEF InObjects
    <3>5. ~InObjects(key, v)
      BY <3>1, <2>2, <1>3
    <3> QED  BY <3>1, <3>4, <3>5 DEF Shows
  <2> QED  BY <1>4, <2>1, <2>2 DEF IsRedacted
<1>5. CASE does = "list"
  <2> DEFINE list == v.of["rows"]
  <2>1. /\ v.type = "dict"
        /\ \A k \in DOMAIN v.of : v.of[k] = list
        /\ list.type = "list"
        /\ \A i \in DOMAIN list.of : Clear(path, list.of[i])
    BY <1>5 DEF IsRedacted, HasRows, Wraps, RowsOf
  <2>2. ~InObjects(key, list)
    BY <2>1, <1>3
  <2>3. ~InObjects(key, v)
    BY <2>1, <2>2, <1>1 DEF InObjects, InFields, InText
  <2> QED  BY <2>1, <2>2, <2>3 DEF Shows
<1> QED  BY <1>4, <1>5

-----------------------------------------------------------------------------

(* The request of a call that has been made. *)
RequestOf(c) ==
  Request(c, Method(job[c].does), <<job[c].kind.path, job[c].does, job[c].uuid>>, job[c].data, None)

Made == DOMAIN seen

CallsInv ==
  /\ stage \in [Call -> {"idle", "waiting", "ok", "tool_error", "raised", "died"}]
  /\ DOMAIN job = Call
  /\ Made \subseteq Call
  /\ \A c \in Made :
       stage[c] # "idle" /\ job[c].kind \in Offered /\ job[c].does \in job[c].kind.tools
  /\ \A c \in Call : stage[c] \in {"waiting", "ok"} => c \in Made
  /\ DOMAIN awaiting = {c \in Call : stage[c] = "waiting"}
  /\ \A c \in DOMAIN awaiting : awaiting[c] = RequestOf(c)
  /\ \A r \in wire : r.req_id \in Made /\ r = RequestOf(r.req_id)
  /\ DOMAIN replies \subseteq DOMAIN awaiting
  /\ DOMAIN result = Answered

(* An object is under the uuid of the call that added it, which adds no
   other; keys are only where the firewall keeps them. *)
ItemsInv ==
  \A u \in DOMAIN items :
    /\ Mixed(items[u].path, Dict(items[u].fields))
    /\ \/ u = Old
       \/ u \in Made /\ job[u].kind.path = items[u].path /\ \A r \in wire : r.req_id # u

(* So they are in what is posted; and what does not give an object a key
   says nothing of its key fields. *)
PostsInv ==
  \A c \in Made :
    LET path == job[c].kind.path
        wrapper == job[c].kind.wrapper
        posted == job[c].data.of[wrapper]
    IN  /\ job[c].does \in {"add", "issue", "set"} => Wraps(job[c].data, wrapper)
        /\ job[c].does \in {"add", "set"} => Mixed(path, posted)
        /\ job[c].does = "set" /\ ~Gives(c) => DOMAIN posted.of \cap KeyFields(path) = {}

RepliesInv ==
  \A c \in DOMAIN replies :
    replies[c] \in {Garbled, HttpError} \/ Answers(job[c].kind.path, job[c].does, replies[c].body)

ResultsInv ==
  \A c \in DOMAIN result : IsRedacted(job[c].kind.path, job[c].does, result[c])

KeyInv == CallsInv /\ ItemsInv /\ PostsInv /\ RepliesInv /\ ResultsInv

-----------------------------------------------------------------------------

LEMMA InitKeyInv == KeyInit => KeyInv
<1> SUFFICES ASSUME KeyInit PROVE KeyInv
  OBVIOUS
<1>1. /\ DOMAIN seen = {} /\ DOMAIN result = {} /\ DOMAIN awaiting = {} /\ DOMAIN replies = {}
      /\ wire = {}
  BY DEF KeyInit, ClientInit, EmptyDict
<1>2. CallsInv
  BY <1>1 DEF KeyInit, CallsInv, Made, Answered
<1>3. ItemsInv
  <2>1. PICK kind \in Offered : items = Put(EmptyDict, Old,
                   [path |-> kind.path, fields |-> Object(Old, KeyFields(kind.path))])
    BY DEF KeyInit
  <2>2. DOMAIN items = {Old} /\ items[Old].path = kind.path
          /\ items[Old].fields = Object(Old, KeyFields(kind.path))
    BY <2>1 DEF Put, EmptyDict
  <2>3. Mixed(kind.path, Dict(Object(Old, KeyFields(kind.path))))
    BY DEF Mixed, Dict, Object, Open, Public, Text
  <2> QED  BY <2>2, <2>3 DEF ItemsInv
<1> QED  BY <1>1, <1>2, <1>3 DEF KeyInv, PostsInv, RepliesInv, ResultsInv, Made

(* Making a call changes nothing of the calls made before, nor of the
   firewall. *)
LEMMA AskInv ==
  ASSUME KeyInv, NEW c \in Call, NEW kind \in Offered, NEW does, NEW uuid, NEW data,
         Ask(c, kind, does, uuid, data),
         does \in {"add", "issue", "set"} => Wraps(data, kind.wrapper),
         does \in {"add", "set"} => Mixed(kind.path, data.of[kind.wrapper]),
         \/ does # "set"
         \/ DOMAIN data.of[kind.wrapper].of \cap KeyFields(kind.path) = {}
         \/ \E k \in DOMAIN data.of : Shows(data.of[k], Key(c))
  PROVE  KeyInv'
<1> DEFINE call == [kind |-> kind, does |-> does, uuid |-> uuid, data |-> data]
<1>1. /\ does \in kind.tools
      /\ stage[c] = "idle" /\ stage' = [stage EXCEPT ![c] = "waiting"]
      /\ job' = [job EXCEPT ![c] = call]
      /\ c \notin DOMAIN awaiting
      /\ awaiting' = Put(awaiting, c, Request(c, Method(does), <<kind.path, does, uuid>>, data, None))
      /\ wire' = wire \cup {Request(c, Method(does), <<kind.path, does, uuid>>, data, None)}
      /\ replies' = replies
      /\ DOMAIN seen' = Made \cup {c}
      /\ result' = result /\ items' = items
  BY DEF Ask, Moves, Send, Put, Made
<1>2. /\ CallsInv /\ c \notin Made /\ Made \subseteq Call
      /\ Made' = Made \cup {c}
      /\ job'[c] = call
      /\ \A d \in Made : job'[d] = job[d] /\ stage'[d] = stage[d]
      /\ \A d \in Call : d # c => stage'[d] = stage[d]
      /\ stage'[c] = "waiting"
  BY <1>1 DEF KeyInv, CallsInv, Made
<1> HIDE DEF call
<1>3. CallsInv'
  <2>1. RequestOf(c)' = Request(c, Method(does), <<kind.path, does, uuid>>, data, None)
    BY <1>2 DEF RequestOf, call
  <2>2. \A d \in Made : RequestOf(d)' = RequestOf(d)
    BY <1>2 DEF RequestOf
  <2>3. DOMAIN awaiting' = DOMAIN awaiting \cup {c}
        /\ \A d \in DOMAIN awaiting' : awaiting'[d] = RequestOf(d)'
    BY <1>1, <1>2, <2>1, <2>2 DEF Put, CallsInv
  <2>4. \A r \in wire' : r.req_id \in Made' /\ r = RequestOf(r.req_id)'
    BY <1>1, <1>2, <2>1, <2>2 DEF CallsInv, Request
  <2>5. Answered' = Answered
    BY <1>1, <1>2 DEF Answered
  <2>6. stage' \in [Call -> {"idle", "waiting", "ok", "tool_error", "raised", "died"}]
        /\ DOMAIN job' = Call
    BY <1>1, <1>2 DEF CallsInv
  <2>7. \A d \in Made' : stage'[d] # "idle" /\ job'[d].kind \in Offered
                         /\ job'[d].does \in job'[d].kind.tools
    BY <1>1, <1>2 DEF CallsInv, call
  <2>8. \A d \in Call : stage'[d] \in {"waiting", "ok"} => d \in Made'
    BY <1>2 DEF CallsInv
  <2>9. DOMAIN awaiting' = {d \in Call : stage'[d] = "waiting"}
    BY <1>2, <2>3 DEF CallsInv
  <2> QED  BY <1>1, <1>2, <2>3, <2>4, <2>5, <2>6, <2>7, <2>8, <2>9 DEF CallsInv
<1>4. ItemsInv'
  BY <1>1, <1>2 DEF KeyInv, ItemsInv, Request
<1>5. PostsInv'
  <2>1. ASSUME NEW d \in Made PROVE Gives(d)' = Gives(d)
    BY <1>2 DEF Gives
  <2>2. Gives(c)' = (does = "set" /\ \E k \in DOMAIN data.of : Shows(data.of[k], Key(c)))
    BY <1>2 DEF Gives, call
  <2>3. job'[c].kind = kind /\ job'[c].does = does /\ job'[c].data = data
    BY <1>2 DEF call
  <2> QED  BY <1>2, <2>1, <2>2, <2>3 DEF KeyInv, PostsInv
<1>6. RepliesInv'
  BY <1>1, <1>2 DEF KeyInv, RepliesInv, CallsInv
<1>7. ResultsInv'
  BY <1>1, <1>2 DEF KeyInv, ResultsInv, CallsInv, Answered
<1> QED  BY <1>3, <1>4, <1>5, <1>6, <1>7 DEF KeyInv

(* A call whose exchange is over, or lost with the process, may still be
   before the firewall; whatever its stage is then, the rest stays. *)
LEMMA EndInv ==
  ASSUME KeyInv,
         stage' \in [Call -> {"idle", "waiting", "ok", "tool_error", "raised", "died"}],
         \A c \in Call : (stage'[c] = "idle" <=> stage[c] = "idle") \/ c \notin Made,
         \A c \in Call : stage'[c] \in {"waiting", "ok"} => stage[c] \in {"waiting", "ok"},
         DOMAIN awaiting' = {c \in Call : stage'[c] = "waiting"},
         \A c \in DOMAIN awaiting' : c \in DOMAIN awaiting /\ awaiting'[c] = awaiting[c],
         wire' \subseteq wire,
         DOMAIN replies' \subseteq DOMAIN awaiting',
         \A c \in DOMAIN replies' : c \in DOMAIN replies /\ replies'[c] = replies[c],
         DOMAIN result' = Answered',
         ResultsInv',
         UNCHANGED <<job, items, seen>>
  PROVE  KeyInv'
<1>1. Made' = Made /\ \A c \in Call : RequestOf(c)' = RequestOf(c) /\ Gives(c)' = Gives(c)
  BY DEF Made, RequestOf, Gives
<1>2. CallsInv'
  <2>1. \A c \in Made : stage'[c] # "idle"
    BY DEF KeyInv, CallsInv
  <2>2. \A c \in DOMAIN awaiting' : awaiting'[c] = RequestOf(c)'
    BY <1>1 DEF KeyInv, CallsInv
  <2>3. \A r \in wire' : r.req_id \in Made' /\ r = RequestOf(r.req_id)'
    BY <1>1 DEF KeyInv, CallsInv
  <2> QED  BY <1>1, <2>1, <2>2, <2>3 DEF KeyInv, CallsInv
<1>3. ItemsInv'
  BY <1>1 DEF KeyInv, ItemsInv
<1>4. PostsInv'
  <2>1. \A c \in Made : Gives(c)' = Gives(c) /\ job'[c] = job[c]
    BY <1>1 DEF KeyInv, CallsInv
  <2> QED  BY <1>1, <2>1 DEF KeyInv, PostsInv
<1>5. RepliesInv'
  BY DEF KeyInv, RepliesInv
<1> QED  BY <1>2, <1>3, <1>4, <1>5 DEF KeyInv

(* What a tool returns of the firewall's answer has lost its keys. *)
LEMMA ReturnedIsRedacted ==
  ASSUME NEW kind \in Kinds, NEW does, NEW resp,
         Answers(kind.path, does, resp),
         Redacts(kind, does) => resp.type = "dict"
  PROVE  IsRedacted(kind.path, does, Returned(kind, does, resp))
<1>1. KeyFields(kind.path) = kind.secrets /\ (kind.secrets # {} => Wrapper(kind.path) = kind.wrapper)
  BY CodeKnowsTheKeys
<1>2. CASE does \notin {"get", "list"}
  BY <1>2 DEF IsRedacted
<1>3. CASE kind.secrets = {}
  BY <1>1, <1>3, WithoutKeysIsRedacted DEF Returned, Redacts
<1>4. CASE kind.secrets # {} /\ does = "list"
  BY <1>1, <1>4, RowsAreRedacted DEF Returned, Redacts
<1>5. CASE kind.secrets # {} /\ does = "get"
  <2>1. resp.type = "dict" /\ Returned(kind, does, resp) = RedactWrapped(resp, kind.wrapper, kind.secrets)
    BY <1>5 DEF Returned, Redacts
  <2> QED  BY <1>1, <1>5, <2>1, ObjectsAreRedacted
<1> QED  BY <1>2, <1>3, <1>4, <1>5

(* Every way an exchange ends takes its call off the client's dicts and puts
   nothing on the wire. *)
LEMMA ExchangeEnds ==
  ASSUME NEW c, KeyInv, Succeed(c, {}, {}) \/ RaisesToolError(c, {}) \/ RaisesOther(c)
  PROVE  /\ c \in DOMAIN awaiting
         /\ awaiting' = Drop(awaiting, c)
         /\ replies' = Drop(replies, c)
         /\ wire' \subseteq wire
<1>1. Resume(c, {})
  BY DEF Succeed, RaisesToolError, RaisesOther, Refused, ConnectFails, ReadTimesOut, BodyIsNoJson, Escapes
<1>2. wire' \subseteq wire
  BY DEF Succeed, RaisesToolError, RaisesOther, Refused, ConnectFails, ReadTimesOut, BodyIsNoJson, Escapes
<1> QED  BY <1>1, <1>2 DEF Resume

LEMMA FinishInv ==
  ASSUME KeyInv, NEW c \in Call, Finish(c)
  PROVE  KeyInv'
<1> DEFINE kind == job[c].kind
           does == job[c].does
           resp == replies[c].body
<1>1. UNCHANGED <<job, items, seen>>
  BY DEF Finish
<1>2. /\ c \in DOMAIN awaiting
      /\ awaiting' = Drop(awaiting, c)
      /\ replies' = Drop(replies, c)
      /\ wire' \subseteq wire
  BY ExchangeEnds DEF Finish
<1>3. PICK to \in {"ok", "tool_error", "raised"} : Moves(c, "waiting", to)
  BY DEF Finish
<1>4. /\ stage[c] = "waiting"
      /\ stage'[c] = to
      /\ \A d \in Call : d # c => stage'[d] = stage[d]
      /\ stage' \in [Call -> {"idle", "waiting", "ok", "tool_error", "raised", "died"}]
  BY <1>3 DEF KeyInv, CallsInv, Moves
<1>5. DOMAIN awaiting' = {d \in Call : stage'[d] = "waiting"}
      /\ \A d \in DOMAIN awaiting' : d \in DOMAIN awaiting /\ awaiting'[d] = awaiting[d]
  BY <1>2, <1>4 DEF KeyInv, CallsInv, Drop
<1>6. DOMAIN replies' \subseteq DOMAIN awaiting'
      /\ \A d \in DOMAIN replies' : d \in DOMAIN replies /\ replies'[d] = replies[d]
  BY <1>2 DEF KeyInv, CallsInv, Drop
<1>7. DOMAIN result' = Answered' /\ ResultsInv'
  <2>1. CASE result' = Put(result, c, Returned(kind, does, resp)) /\ Succeed(c, {}, {})
                /\ (Redacts(kind, does) => resp.type = "dict") /\ Moves(c, "waiting", "ok")
    <3>1. DOMAIN result' = DOMAIN result \cup {c} /\ result'[c] = Returned(kind, does, resp)
          /\ \A d \in DOMAIN result : d # c => result'[d] = result[d]
      BY <2>1 DEF Put
    <3>2. stage'[c] = "ok"
      BY <2>1 DEF KeyInv, CallsInv, Moves
    <3>3. Answered' = Answered \cup {c}
      BY <1>4, <3>2 DEF Answered
    <3>4. c \in DOMAIN replies /\ replies[c].status_code = 200 /\ resp # None
      BY <2>1 DEF Succeed, Returns
    <3>5. Answers(kind.path, does, resp)
      BY <3>4 DEF KeyInv, RepliesInv, Garbled, HttpError
    <3>6. kind \in Kinds
      BY <1>4, OfferedAssumption DEF KeyInv, CallsInv
    <3>7. IsRedacted(kind.path, does, Returned(kind, does, resp))
      BY <2>1, <3>5, <3>6, ReturnedIsRedacted
    <3> HIDE DEF kind, does, resp
    <3>8. ResultsInv'
      BY <1>1, <3>1, <3>7 DEF KeyInv, ResultsInv, kind, does
    <3> QED  BY <3>1, <3>3, <3>8 DEF KeyInv, CallsInv
  <2>2. CASE UNCHANGED result /\ \E end \in {"tool_error", "raised"} : Moves(c, "waiting", end)
    <3>1. stage'[c] # "ok"
      BY <2>2 DEF KeyInv, CallsInv, Moves
    <3>2. Answered' = Answered
      BY <1>4, <3>1 DEF Answered
    <3> QED  BY <1>1, <2>2, <3>2 DEF KeyInv, CallsInv, ResultsInv
  <2> QED  BY <2>1, <2>2 DEF Finish
<1> QED  BY <1>1, <1>2, <1>4, <1>5, <1>6, <1>7, EndInv

LEMMA RestartInv == ASSUME KeyInv, Restart PROVE KeyInv'
<1>1. /\ DOMAIN awaiting' = {} /\ DOMAIN replies' = {} /\ wire' = wire
      /\ UNCHANGED <<job, result, items, seen>>
      /\ stage' = [c \in Call |-> IF stage[c] = "waiting" THEN "died" ELSE stage[c]]
  BY DEF Restart, ClientRestart, EmptyDict
<1>2. Answered' = Answered
  BY <1>1 DEF Answered
<1>3. ResultsInv'
  BY <1>1 DEF KeyInv, ResultsInv
<1> QED  BY <1>1, <1>2, <1>3, EndInv DEF KeyInv, CallsInv

LEMMA RefuseInv == ASSUME KeyInv, NEW c \in Call, RefuseUuid(c) PROVE KeyInv'
<1>1. /\ UNCHANGED <<awaiting, wire, replies, job, result, items, seen>>
      /\ stage[c] = "idle" /\ stage' = [stage EXCEPT ![c] = "tool_error"]
  BY DEF RefuseUuid, Moves, clientVars
<1>2. c \notin Made
  BY <1>1 DEF KeyInv, CallsInv
<1>3. Answered' = Answered
  BY <1>1 DEF Answered, KeyInv, CallsInv
<1>4. ResultsInv'
  BY <1>1 DEF KeyInv, ResultsInv
<1> QED  BY <1>1, <1>2, <1>3, <1>4, EndInv DEF KeyInv, CallsInv

-----------------------------------------------------------------------------

LEMMA ReadInv ==
  ASSUME KeyInv, NEW c \in Call, NEW kind \in Offered, Read(c, kind)
  PROVE  KeyInv'
<1>1. PICK does, uuid : does \notin {"add", "issue", "set"} /\ Ask(c, kind, does, uuid, None)
  BY DEF Read
<1> QED  BY <1>1, AskInv

LEMMA DeleteInv ==
  ASSUME KeyInv, NEW c \in Call, NEW kind \in Offered, NEW uuid, Delete(c, kind, uuid)
  PROVE  KeyInv'
  BY AskInv DEF Delete

LEMMA AddInv ==
  ASSUME KeyInv, NEW c \in Call, NEW kind \in Offered, Add(c, kind)
  PROVE  KeyInv'
<1>1. CASE Ask(c, kind, "add", None, Under(kind.wrapper, Dict(Object(c, kind.secrets))))
  <2> DEFINE posted == Dict(Object(c, kind.secrets))
  <2>1. Wraps(Under(kind.wrapper, posted), kind.wrapper)
        /\ Under(kind.wrapper, posted).of[kind.wrapper] = posted
    BY DEF Wraps, Under, Dict
  <2>2. KeyFields(kind.path) = kind.secrets /\ "descr" \notin kind.secrets
    BY OfferedAssumption, CodeKnowsTheKeys
  <2>3. Mixed(kind.path, posted)
    BY <2>2 DEF Mixed, Dict, Object, Open, Public, Text
  <2> QED  BY <1>1, <2>1, <2>3, AskInv
<1>2. CASE \E location \in {"firewall", "local"} :
             Ask(c, kind, "issue", None,
                 Under(kind.wrapper, Dict([descr |-> Public(c), private_key_location |-> Public(location)])))
  <2>1. PICK posted : Ask(c, kind, "issue", None, Under(kind.wrapper, posted))
    BY <1>2
  <2>2. Wraps(Under(kind.wrapper, posted), kind.wrapper)
    BY DEF Wraps, Under, Dict
  <2> QED  BY <2>1, <2>2, AskInv
<1> QED  BY <1>1, <1>2 DEF Add

LEMMA EditInv ==
  ASSUME KeyInv, NEW c \in Call, NEW g \in Call, NEW kind \in Offered, NEW uuid,
         Edit(c, g, kind, uuid)
  PROVE  KeyInv'
<1> DEFINE wrapper == kind.wrapper
           shown == result[g].of[wrapper]
           posted == Dict(Put(shown.of, "descr", Public(c)))
<1>1. /\ g \in DOMAIN result /\ job[g].does = "get" /\ job[g].kind = kind
      /\ Holds(result[g], wrapper, "dict")
      /\ Ask(c, kind, "set", uuid, Under(wrapper, posted))
  BY DEF Edit
<1>2. /\ KeyFields(kind.path) = kind.secrets /\ "descr" \notin kind.secrets
  BY OfferedAssumption, CodeKnowsTheKeys
<1>3. Wraps(Under(wrapper, posted), wrapper) /\ Under(wrapper, posted).of[wrapper] = posted
  BY DEF Wraps, Under, Dict
<1>4. Clear(kind.path, shown)
  <2>1. IsRedacted(kind.path, "get", result[g])
    BY <1>1 DEF KeyInv, ResultsInv
  <2>2. result[g] # NotFound
    BY <1>1 DEF Holds, NotFound, List
  <2>3. wrapper \in DOMAIN result[g].of
    BY <1>1 DEF Holds
  <2> QED  BY <2>1, <2>2, <2>3 DEF IsRedacted, Wraps
<1> HIDE DEF wrapper, shown
<1>5. Clear(kind.path, posted)
  <2>1. DOMAIN posted.of = DOMAIN shown.of \cup {"descr"} /\ posted.of["descr"] = Public(c)
        /\ \A f \in DOMAIN shown.of : f # "descr" => posted.of[f] = shown.of[f]
    BY DEF Put, Dict
  <2>2. posted.type = "dict" /\ Open(Public(c))
    BY DEF Dict, Open, Public, Text
  <2> QED  BY <1>2, <1>4, <2>1, <2>2 DEF Clear
<1>6. Mixed(kind.path, posted) /\ DOMAIN posted.of \cap KeyFields(kind.path) = {}
  BY <1>5 DEF Clear, Mixed
<1> HIDE DEF posted
<1>7. QED  BY <1>1, <1>3, <1>6, AskInv DEF wrapper

LEMMA RotateInv ==
  ASSUME KeyInv, NEW c \in Call, NEW kind \in Offered, NEW uuid, Rotate(c, kind, uuid)
  PROVE  KeyInv'
<1> DEFINE keys == [f \in kind.secrets |-> Key(c)]
           data == Under(kind.wrapper, Dict(keys))
<1>1. kind.secrets # {} /\ Ask(c, kind, "set", uuid, data)
  BY DEF Rotate
<1>2. Wraps(data, kind.wrapper) /\ data.of[kind.wrapper] = Dict(keys)
  BY DEF Wraps, Under, Dict
<1>3. KeyFields(kind.path) = kind.secrets
  BY OfferedAssumption, CodeKnowsTheKeys
<1>4. Mixed(kind.path, Dict(keys))
  BY <1>3 DEF Mixed, Dict
<1>5. Shows(Dict(keys), Key(c))
  BY <1>1 DEF Shows, InObjects, InFields, InText, Dict, Key, Text
<1>6. \E k \in DOMAIN data.of : Shows(data.of[k], Key(c))
  BY <1>2, <1>5 DEF Wraps
<1> HIDE DEF data, keys
<1> QED  BY <1>1, <1>2, <1>4, <1>6, AskInv

-----------------------------------------------------------------------------

(* The firewall's answers. *)

LEMMA AnswerInv ==
  ASSUME KeyInv, NEW r \in wire, NEW reply, Answer(r, reply),
         reply \in {Garbled, HttpError} \/ Answers(r.path[1], r.path[2], reply.body),
         UNCHANGED <<stage, job, result>>, DOMAIN seen' = Made, ItemsInv'
  PROVE  KeyInv'
<1> DEFINE c == r.req_id
<1>1. /\ wire' = wire \ {r} /\ awaiting' = awaiting
      /\ c \in Made /\ c \in Call /\ r = RequestOf(c)
  BY DEF KeyInv, CallsInv, Answer
<1>2. r.path[1] = job[c].kind.path /\ r.path[2] = job[c].does
  BY <1>1 DEF RequestOf, Request
<1>3. \A d \in DOMAIN awaiting : awaiting[d] = r => d = c
  BY <1>1 DEF KeyInv, CallsInv, RequestOf, Request
<1>4. \A d \in DOMAIN replies' :
        \/ d = c /\ d \in DOMAIN awaiting /\ replies'[d] = reply
        \/ d \in DOMAIN replies /\ replies'[d] = replies[d]
  <2>1. CASE \E d \in DOMAIN awaiting : awaiting[d] = r
    <3>1. replies' = Put(replies, CHOOSE d \in DOMAIN awaiting : awaiting[d] = r, reply)
      BY <2>1 DEF Answer
    <3>2. c = (CHOOSE d \in DOMAIN awaiting : awaiting[d] = r) /\ c \in DOMAIN awaiting
      BY <2>1, <1>3
    <3>3. replies' = Put(replies, c, reply)
      BY <3>1, <3>2
    <3> QED  BY <3>2, <3>3 DEF Put
  <2>2. CASE ~\E d \in DOMAIN awaiting : awaiting[d] = r
    BY <2>2 DEF Answer
  <2> QED  BY <2>1, <2>2
<1>5. Made' = Made /\ \A d \in Call : RequestOf(d)' = RequestOf(d) /\ Gives(d)' = Gives(d)
  BY DEF Made, RequestOf, Gives
<1>6. CallsInv'
  <2>1. DOMAIN replies' \subseteq DOMAIN awaiting'
    BY <1>1, <1>4 DEF KeyInv, CallsInv
  <2>2. Answered' = Answered
    BY DEF Answered
  <2>3. \A d \in DOMAIN awaiting : awaiting[d] = RequestOf(d)'
    BY <1>5 DEF KeyInv, CallsInv
  <2>4. \A q \in wire' : q.req_id \in Made /\ q = RequestOf(q.req_id)'
    BY <1>1, <1>5 DEF KeyInv, CallsInv
  <2> QED  BY <1>1, <1>5, <2>1, <2>2, <2>3, <2>4 DEF KeyInv, CallsInv
<1>7. PostsInv'
  <2>1. \A d \in Made : Gives(d)' = Gives(d)
    BY <1>5 DEF KeyInv, CallsInv
  <2> QED  BY <1>5, <2>1 DEF KeyInv, PostsInv
<1>8. RepliesInv'
  <2> HIDE DEF c
  <2> QED  BY <1>2, <1>4 DEF KeyInv, RepliesInv
<1>9. ResultsInv'
  BY DEF KeyInv, ResultsInv
<1> QED  BY <1>6, <1>7, <1>8, <1>9 DEF KeyInv

LEMMA ShownAnswers ==
  ASSUME KeyInv, NEW r \in wire, NEW resp \in Shown(r)
  PROVE  Answers(r.path[1], r.path[2], resp)
<1> DEFINE path == r.path[1]
           uuid == r.path[3]
<1>1. \A u \in Having(path) : u \in DOMAIN items /\ Mixed(path, Dict(items[u].fields))
  BY DEF KeyInv, ItemsInv, Having
<1>2. CASE r.path[2] = "get"
  <2>1. resp = IF uuid \in Having(path) THEN Under(Wrapper(path), Dict(items[uuid].fields)) ELSE NotFound
    BY <1>2 DEF Shown
  <2>2. ASSUME NEW obj PROVE Wraps(Under(Wrapper(path), obj), Wrapper(path))
                             /\ Under(Wrapper(path), obj).of[Wrapper(path)] = obj
    BY DEF Wraps, Under, Dict
  <2> QED  BY <1>1, <1>2, <2>1, <2>2 DEF Answers
<1>3. CASE r.path[2] = "list"
  <2>1. PICK rows \in Rows(Having(path)) : resp = Under("rows", rows)
    BY <1>3 DEF Shown
  <2>2. PICK order \in [1..Cardinality(Having(path)) -> Having(path)] :
          rows = List([i \in DOMAIN order |-> Dict(items[order[i]].fields)])
    BY DEF Rows
  <2>3. HasRows(resp) /\ resp.of["rows"] = rows
    BY <2>1, <2>2 DEF HasRows, Wraps, Under, Dict, List
  <2>4. \A i \in DOMAIN order : order[i] \in Having(path)
    OBVIOUS
  <2>5. \A row \in RowsOf(resp) : Mixed(path, row)
    BY <1>1, <2>2, <2>3, <2>4 DEF RowsOf, List
  <2> QED  BY <1>3, <2>3, <2>5 DEF Answers
<1> QED  BY <1>2, <1>3 DEF Answers

(* What a write stores keeps its keys where they were, under a uuid that is
   the object's, or that of a new one. *)
LEMMA WriteInv ==
  ASSUME KeyInv, NEW r \in wire, NEW reply, Write(r, reply),
         wire' = wire \ {r}, UNCHANGED job, DOMAIN seen' = Made
  PROVE  /\ ItemsInv'
         /\ r.path[2] \notin {"get", "list"}
         /\ \A u \in DOMAIN items \cap DOMAIN items' :
              KeyOf(u) # KeyOf(u)' => Gives(r.req_id) /\ job[r.req_id].uuid = u
<1> DEFINE c == r.req_id
           kind == job[c].kind
           path == kind.path
           uuid == job[c].uuid
           posted == job[c].data.of[kind.wrapper]
<1>1. c \in Made /\ kind \in Offered /\ r = RequestOf(c)
  BY DEF KeyInv, CallsInv
<1>2. r.path[1] = path /\ r.path[2] = job[c].does /\ r.path[3] = uuid /\ r.data = job[c].data
  BY <1>1 DEF RequestOf, Request
<1>3. ASSUME job[c].does \in {"add", "issue", "set"}, Wrapper(path) \in DOMAIN r.data.of
      PROVE  Wrapper(path) = kind.wrapper /\ Posted(r) = posted.of
  BY <1>1, <1>2, <1>3 DEF KeyInv, PostsInv, Wraps, Posted
<1>4. \A u \in DOMAIN items \cap DOMAIN items' : items'[u] = items[u] => KeyOf(u)' = KeyOf(u)
  BY DEF KeyOf
<1>5. \A q \in wire' : q.req_id # c
  BY <1>1 DEF KeyInv, CallsInv
<1>6. ASSUME NEW fields, Stores(c, path, fields), Mixed(path, Dict(fields))
      PROVE  ItemsInv' /\ \A u \in DOMAIN items \cap DOMAIN items' : KeyOf(u)' = KeyOf(u)
  <2>1. c \notin DOMAIN items
    BY <1>1, OldAssumption DEF KeyInv, ItemsInv, CallsInv
  <2>2. DOMAIN items' = DOMAIN items \cup {c} /\ items'[c].path = path /\ items'[c].fields = fields
        /\ \A u \in DOMAIN items : items'[u] = items[u]
    BY <1>6, <2>1 DEF Stores, Put
  <2> HIDE DEF c, path
  <2>3. ItemsInv'
    BY <1>1, <1>5, <1>6, <2>2 DEF KeyInv, ItemsInv, Made, path, kind
  <2> QED  BY <1>4, <2>2, <2>3
<1>7. CASE job[c].does = "add"
  <2>1. Stores(c, path, posted.of) /\ Wrapper(path) \in DOMAIN r.data.of
    BY <1>2, <1>3, <1>7 DEF Write
  <2>2. Mixed(path, Dict(posted.of))
    BY <1>1, <1>7 DEF KeyInv, PostsInv, Mixed, Dict
  <2> QED  BY <1>2, <1>6, <1>7, <2>1, <2>2
<1>8. CASE job[c].does = "issue"
  <2>1. Stores(c, path, Object(c, {})) \/ Stores(c, path, Object(c, KeyFields(path)))
    BY <1>2, <1>8 DEF Write
  <2>2. Mixed(path, Dict(Object(c, {}))) /\ Mixed(path, Dict(Object(c, KeyFields(path))))
    BY DEF Mixed, Dict, Object, Open, Public, Text
  <2> QED  BY <1>2, <1>6, <1>8, <2>1, <2>2
<1>9. CASE job[c].does = "set"
  <2> DEFINE new == Merge(posted.of, items[uuid].fields)
  <2>1. uuid \in DOMAIN items /\ items[uuid].path = path /\ Stores(uuid, path, new)
    BY <1>2, <1>3, <1>9 DEF Write, Having
  <2>2. DOMAIN items' = DOMAIN items /\ items'[uuid].path = path /\ items'[uuid].fields = new
        /\ \A u \in DOMAIN items : u # uuid => items'[u] = items[u]
    BY <2>1 DEF Stores, Put
  <2>3. DOMAIN new = DOMAIN posted.of \cup DOMAIN items[uuid].fields
        /\ \A f \in DOMAIN new :
             new[f] = IF f \in DOMAIN posted.of THEN posted.of[f] ELSE items[uuid].fields[f]
    BY DEF Merge
  <2>4. Mixed(path, posted) /\ Mixed(path, Dict(items[uuid].fields))
    BY <1>1, <1>9, <2>1 DEF KeyInv, PostsInv, ItemsInv
  <2> HIDE DEF new, uuid
  <2>5. Mixed(path, Dict(new))
    BY <2>3, <2>4 DEF Mixed, Dict
  <2>6. ItemsInv'
    BY <2>1, <2>2, <2>5 DEF KeyInv, ItemsInv, Made
  <2>7. ASSUME ~Gives(c), NEW u, u = uuid PROVE KeyOf(u)' = KeyOf(u)
    <3>1. DOMAIN posted.of \cap KeyFields(path) = {}
      BY <1>1, <1>9, <2>7 DEF KeyInv, PostsInv
    <3>2. KeyFields(path) \cap DOMAIN new = KeyFields(path) \cap DOMAIN items[uuid].fields
          /\ \A f \in KeyFields(path) \cap DOMAIN new : new[f] = items[uuid].fields[f]
      BY <3>1, <2>3
    <3> HIDE DEF path
    <3>3. /\ items[u].path = path /\ items'[u].path = path /\ items'[u].fields = new
          /\ KeyFields(path) \cap DOMAIN new = KeyFields(path) \cap DOMAIN items[u].fields
          /\ \A f \in KeyFields(path) \cap DOMAIN new : new[f] = items[u].fields[f]
      BY <2>1, <2>2, <2>7, <3>2
    <3>4. [f \in KeyFields(path) \cap DOMAIN new |-> new[f]]
            = [f \in KeyFields(path) \cap DOMAIN items[u].fields |-> items[u].fields[f]]
      BY <3>3
    <3> QED  BY <3>3, <3>4 DEF KeyOf
  <2> QED  BY <1>2, <1>4, <1>9, <2>2, <2>6, <2>7 DEF uuid
<1>10. CASE job[c].does = "del"
  <2>1. items' = Drop(items, uuid)
    BY <1>2, <1>10 DEF Write
  <2>2. DOMAIN items' \subseteq DOMAIN items /\ \A u \in DOMAIN items' : items'[u] = items[u]
    BY <2>1 DEF Drop
  <2>3. ItemsInv'
    BY <2>2 DEF KeyInv, ItemsInv, Made
  <2> QED  BY <1>2, <1>4, <1>10, <2>2, <2>3
<1> QED  BY <1>2, <1>7, <1>8, <1>9, <1>10 DEF Write

LEMMA FirewallInv ==
  ASSUME KeyInv, NEW r \in wire, Firewall(r)
  PROVE  /\ KeyInv'
         /\ \A u \in DOMAIN items \cap DOMAIN items' :
              KeyOf(u) # KeyOf(u)' => Gives(r.req_id) /\ job[r.req_id].uuid = u
<1>1. UNCHANGED <<stage, job, result>>
  BY DEF Firewall
<1>2. CASE wire' = wire \ {r} /\ UNCHANGED <<items, seen>>
           /\ \E reply : /\ reply \in {Garbled, HttpError} \/ Answers(r.path[1], r.path[2], reply.body)
                        /\ Answer(r, reply)
  <2>1. ItemsInv'
    BY <1>1, <1>2 DEF KeyInv, ItemsInv, Made
  <2>2. \A u \in DOMAIN items \cap DOMAIN items' : KeyOf(u)' = KeyOf(u)
    BY <1>2 DEF KeyOf
  <2>3. DOMAIN seen' = Made
    BY <1>2 DEF Made
  <2> QED  BY <1>1, <1>2, <2>1, <2>2, <2>3, AnswerInv
<1>3. CASE AnswerRead(r)
  <2>1. PICK reply : Answer(r, reply) /\ (reply \in {Garbled, HttpError} \/ \E resp \in Shown(r) : reply = Ok(resp))
    BY <1>3 DEF AnswerRead
  <2>2. \A resp : Ok(resp).body = resp
    BY DEF Ok
  <2>3. reply \in {Garbled, HttpError} \/ Answers(r.path[1], r.path[2], reply.body)
    BY <2>1, <2>2, ShownAnswers
  <2> QED  BY <1>2, <1>3, <2>1, <2>3 DEF AnswerRead, Answer
<1>4. CASE ~Reads(r) /\ (\E reply \in {Ok(Failed), Garbled, HttpError} : Answer(r, reply)) /\ UNCHANGED <<items, seen>>
  <2>1. \A v : Answers(r.path[1], r.path[2], v)
    <3>1. r.path[2] \notin {"get", "list"}
      BY <1>4 DEF Reads
    <3> QED  BY <3>1 DEF Answers
  <2> QED  BY <1>2, <1>4, <2>1 DEF Answer
<1>5. CASE (\E reply \in {Saved, Under("private_key", Key(r.req_id))} :
               Write(r, reply) /\ \E sent \in {Ok(reply), Garbled, HttpError} : Answer(r, sent))
           /\ Changed
  <2>1. PICK reply, sent : Write(r, reply) /\ Answer(r, sent)
    BY <1>5
  <2>2. wire' = wire \ {r} /\ DOMAIN seen' = Made
    BY <1>5, <2>1 DEF Answer, Changed, Made
  <2>3. /\ ItemsInv' /\ r.path[2] \notin {"get", "list"}
        /\ \A u \in DOMAIN items \cap DOMAIN items' :
             KeyOf(u) # KeyOf(u)' => Gives(r.req_id) /\ job[r.req_id].uuid = u
    BY <1>1, <2>1, <2>2, WriteInv
  <2>4. Answers(r.path[1], r.path[2], sent.body)
    BY <2>3 DEF Answers
  <2> QED  BY <1>1, <2>1, <2>2, <2>3, <2>4, AnswerInv
<1> QED  BY <1>3, <1>4, <1>5 DEF Firewall, AnswerWrite

(* A step preserves the invariant, and changes keys as it should. *)
LEMMA NextKeyInv ==
  ASSUME KeyInv, [KeyNext]_keyVars
  PROVE  /\ KeyInv'
         /\ \A u \in DOMAIN items \cap DOMAIN items' :
              KeyOf(u) # KeyOf(u)' => \E r \in wire \ wire' : Gives(r.req_id) /\ job[r.req_id].uuid = u
<1>1. ASSUME UNCHANGED items PROVE \A u \in DOMAIN items \cap DOMAIN items' : KeyOf(u) = KeyOf(u)'
  BY <1>1 DEF KeyOf
<1>2. CASE UNCHANGED keyVars
  <2>1. UNCHANGED <<awaiting, wire, replies, stage, job, result, items, seen>>
    BY <1>2 DEF keyVars, clientVars
  <2>2. Made' = Made /\ Answered' = Answered
    BY <2>1 DEF Made, Answered
  <2>3. ResultsInv'
    BY <2>1 DEF KeyInv, ResultsInv
  <2> QED  BY <1>1, <2>1, <2>2, <2>3, EndInv DEF KeyInv, CallsInv
<1>3. ASSUME NEW c \in Call, RefuseUuid(c) PROVE KeyInv' /\ UNCHANGED items
  BY <1>3, RefuseInv DEF RefuseUuid
<1>4. ASSUME NEW c \in Call, NEW kind \in Offered, Read(c, kind) \/ Add(c, kind)
      PROVE  KeyInv' /\ UNCHANGED items
  BY <1>4, ReadInv, AddInv DEF Read, Add, Ask
<1>5. ASSUME NEW c \in Call, NEW kind \in Offered, NEW uuid,
             (\E g \in Call : Edit(c, g, kind, uuid)) \/ Rotate(c, kind, uuid) \/ Delete(c, kind, uuid)
      PROVE  KeyInv' /\ UNCHANGED items
  BY <1>5, EditInv, RotateInv, DeleteInv DEF Edit, Rotate, Delete, Ask
<1>6. ASSUME NEW c \in Call, Finish(c) PROVE KeyInv' /\ UNCHANGED items
  BY <1>6, FinishInv DEF Finish
<1>7. ASSUME Restart PROVE KeyInv' /\ UNCHANGED items
  BY <1>7, RestartInv DEF Restart
<1>8. ASSUME NEW r \in wire, Firewall(r)
      PROVE  /\ KeyInv' /\ r \in wire \ wire'
             /\ \A u \in DOMAIN items \cap DOMAIN items' :
                  KeyOf(u) # KeyOf(u)' => Gives(r.req_id) /\ job[r.req_id].uuid = u
  <2>1. r \notin wire'
    BY <1>8 DEF Firewall, AnswerRead, AnswerWrite, Answer
  <2> QED  BY <1>8, <2>1, FirewallInv
<1> QED
  <2>1. CASE \E r \in wire : Firewall(r)
    BY <1>8, <2>1
  <2>2. CASE KeyNext /\ ~\E r \in wire : Firewall(r)
    <3>1. KeyInv' /\ UNCHANGED items
      BY <1>3, <1>4, <1>5, <1>6, <1>7, <2>2 DEF KeyNext
    <3> QED  BY <1>1, <3>1
  <2> QED  BY <1>2, <2>1, <2>2

LEMMA KeyInvariance == KeySpec => []KeyInv
<1>1. KeyInv /\ [KeyNext]_keyVars => KeyInv'
  BY NextKeyInv
<1> QED  BY InitKeyInv, <1>1, PTL DEF KeySpec

-----------------------------------------------------------------------------

(* Calls end as their stages say, and objects are under the uuids of the
   calls that added them. *)
THEOREM KeyTypes == KeySpec => []KeyTypeOK
<1>1. KeyInv => KeyTypeOK
  BY DEF KeyInv, CallsInv, ItemsInv, KeyTypeOK, Answered
<1> QED  BY KeyInvariance, <1>1, PTL

(* Whoever stored a key and however, and whatever the firewall answers, no
   list and no get of any kind of object shows it. *)
THEOREM NoReadShowsAKey == KeySpec => []ReadsHideKeys
<1>1. KeyInv => ReadsHideKeys
  BY RedactedHides DEF KeyInv, CallsInv, ResultsInv, ReadsHideKeys
<1> QED  BY KeyInvariance, <1>1, PTL

(* An object's key changes in no step but the one in which the firewall
   carries out a request that gives it one. *)
THEOREM OnlyRotationChangesKeys == KeySpec => KeysChangeByRotation
<1>1. KeyInv /\ [KeyNext]_keyVars =>
        [\A u \in DOMAIN items \cap DOMAIN items' :
           KeyOf(u) # KeyOf(u)' =>
             \E r \in wire \ wire' : Gives(r.req_id) /\ job[r.req_id].uuid = u]_keyVars
  BY NextKeyInv
<1> QED  BY KeyInvariance, <1>1, PTL DEF KeySpec, KeysChangeByRotation

-----------------------------------------------------------------------------
(* A key given out once goes to its own call alone, and what is read is the   *)
(* table at one moment.  Both speak of one result and of what was answered,   *)
(* posted and stored before it, in every call; what a step changes of that    *)
(* is one of three things.                                                    *)

(* A call is made. *)
CallMade(c, call) ==
  /\ c \in Call \ Made
  /\ Made' = Made \cup {c} /\ seen'[c] = {items} /\ \A d \in Made : seen'[d] = seen[d]
  /\ job'[c] = call /\ \A d \in Made : job'[d] = job[d]
  /\ DOMAIN awaiting' = DOMAIN awaiting \cup {c}
  /\ UNCHANGED <<replies, result, items>>

(* Calls end, one perhaps with a result. *)
Results(c) ==
  /\ c \in DOMAIN replies
  /\ replies[c] \notin {Garbled, HttpError}
  /\ Redacts(job[c].kind, job[c].does) => replies[c].body.type = "dict"
  /\ result'[c] = Returned(job[c].kind, job[c].does, replies[c].body)

CallsEnd ==
  /\ DOMAIN awaiting' \subseteq DOMAIN awaiting
  /\ \A c \in DOMAIN replies' : c \in DOMAIN replies /\ replies'[c] = replies[c]
  /\ \A c \in DOMAIN result' : Results(c) \/ (c \in DOMAIN result /\ result'[c] = result[c])
  /\ UNCHANGED <<job, items, seen>>

(* The firewall answers. *)
CallAnswered(c, reply) ==
  /\ \A d \in DOMAIN replies' :
       \/ d = c /\ d \in DOMAIN awaiting /\ replies'[d] = reply
       \/ d \in DOMAIN replies /\ replies'[d] = replies[d]
  /\ UNCHANGED <<awaiting, job, result>>

LEMMA AskMakes ==
  ASSUME KeyInv, NEW c \in Call, NEW kind, NEW does, NEW uuid, NEW data,
         Ask(c, kind, does, uuid, data)
  PROVE  CallMade(c, [kind |-> kind, does |-> does, uuid |-> uuid, data |-> data])
<1> DEFINE call == [kind |-> kind, does |-> does, uuid |-> uuid, data |-> data]
<1>1. /\ stage[c] = "idle"
      /\ job' = [job EXCEPT ![c] = call]
      /\ UNCHANGED <<replies, result, items>>
      /\ seen' = Put(seen, c, {items})
      /\ DOMAIN awaiting' = DOMAIN awaiting \cup {c}
  BY DEF Ask, Moves, Send, Put
<1>2. c \notin Made /\ DOMAIN job = Call /\ Made \subseteq Call
  BY <1>1 DEF KeyInv, CallsInv
<1> HIDE DEF call
<1>3. DOMAIN seen' = Made \cup {c} /\ seen'[c] = {items} /\ \A d \in Made : seen'[d] = seen[d]
  BY <1>1, <1>2 DEF Put, Made
<1>4. job'[c] = call /\ \A d \in Made : job'[d] = job[d]
  BY <1>1, <1>2
<1> QED  BY <1>1, <1>2, <1>3, <1>4 DEF CallMade, Made, call

LEMMA FinishEnds ==
  ASSUME KeyInv, NEW c \in Call, Finish(c)
  PROVE  CallsEnd
<1>1. /\ awaiting' = Drop(awaiting, c)
      /\ replies' = Drop(replies, c)
  BY ExchangeEnds DEF Finish
<1>2. DOMAIN awaiting' \subseteq DOMAIN awaiting
      /\ \A d \in DOMAIN replies' : d \in DOMAIN replies /\ replies'[d] = replies[d]
  BY <1>1 DEF Drop
<1>3. UNCHANGED <<job, items, seen>>
  BY DEF Finish
<1>4. CASE /\ Succeed(c, {}, {})
           /\ Redacts(job[c].kind, job[c].does) => replies[c].body.type = "dict"
           /\ result' = Put(result, c, Returned(job[c].kind, job[c].does, replies[c].body))
  <2>1. c \in DOMAIN replies /\ replies[c].body # None
    BY <1>4 DEF Succeed, Returns
  <2>2. replies[c] \notin {Garbled, HttpError}
    BY <2>1 DEF Garbled, HttpError
  <2>3. result'[c] = Returned(job[c].kind, job[c].does, replies[c].body)
        /\ \A d \in DOMAIN result' : d # c => d \in DOMAIN result /\ result'[d] = result[d]
    BY <1>4 DEF Put
  <2> QED  BY <1>2, <1>3, <1>4, <2>1, <2>2, <2>3 DEF CallsEnd, Results
<1>5. CASE UNCHANGED result
  BY <1>2, <1>3, <1>5 DEF CallsEnd
<1> QED  BY <1>4, <1>5 DEF Finish

LEMMA OthersEnd ==
  ASSUME \/ Restart
         \/ \E c \in Call : RefuseUuid(c)
         \/ UNCHANGED keyVars
  PROVE  CallsEnd
<1>1. CASE Restart
  <2>1. DOMAIN awaiting' = {} /\ DOMAIN replies' = {} /\ UNCHANGED <<job, result, items, seen>>
    BY <1>1 DEF Restart, ClientRestart, EmptyDict
  <2> QED  BY <2>1 DEF CallsEnd
<1>2. CASE UNCHANGED <<awaiting, replies, job, result, items, seen>>
  BY <1>2 DEF CallsEnd
<1> QED  BY <1>1, <1>2 DEF RefuseUuid, clientVars, keyVars

LEMMA AnswerAnswers ==
  ASSUME KeyInv, NEW r \in wire, NEW reply, Answer(r, reply), UNCHANGED <<job, result>>
  PROVE  CallAnswered(r.req_id, reply)
<1> DEFINE c == r.req_id
<1>1. \A d \in DOMAIN awaiting : awaiting[d] = r => d = c
  BY DEF KeyInv, CallsInv, RequestOf, Request
<1>2. CASE \E d \in DOMAIN awaiting : awaiting[d] = r
  <2>1. c = (CHOOSE d \in DOMAIN awaiting : awaiting[d] = r) /\ c \in DOMAIN awaiting
    BY <1>1, <1>2
  <2>2. replies' = Put(replies, c, reply) /\ awaiting' = awaiting
    BY <1>2, <2>1 DEF Answer
  <2> QED  BY <2>1, <2>2 DEF CallAnswered, Put
<1>3. CASE ~\E d \in DOMAIN awaiting : awaiting[d] = r
  BY <1>3 DEF Answer, CallAnswered
<1> QED  BY <1>2, <1>3

-----------------------------------------------------------------------------
(* Every kind of object, by its path: kinds that share one share a wrapper.  *)

Does ==
  Crud \cup {"generate", "issue", "export", "search", "table", "show", "backup"}

WrapperAt(path) ==
  CASE path \in {"firewall/filter/rule", "firewall/d_nat/rule", "proxy/settings/pac_rule"} -> "rule"
    [] path = "firewall/alias/item" -> "alias"
    [] path = "routes/routes/route" -> "route"
    [] path = "kea/dhcpv4/reservation" -> "reservation"
    [] path = "unbound/settings/HostOverride" -> "host"
    [] path = "openvpn/instances" -> "instance"
    [] path = "openvpn/client_overwrites" -> "cso"
    [] path = "ipsec/connections/connection" -> "connection"
    [] path = "ipsec/connections/local" -> "local"
    [] path = "ipsec/connections/remote" -> "remote"
    [] path = "ipsec/connections/child" -> "child"
    [] path = "ipsec/pools" -> "pool"
    [] path = "captiveportal/settings/zone" -> "zone"
    [] path = "interfaces/assignment/item" -> "interface"
    [] path = "trust/crl" -> "crl"
    [] path = "proxy/settings/pac_proxy" -> "proxy"
    [] path = "proxy/settings/pac_match" -> "match"
    [] OTHER -> None

LEMMA UnkeyedKinds ==
  ASSUME NEW kind \in Unkeyed
  PROVE  kind.tools \subseteq Does /\ kind.wrapper = WrapperAt(kind.path)
<1> DEFINE Fits(k) == k.tools \subseteq Does /\ k.wrapper = WrapperAt(k.path)
<1>1. ASSUME kind \in {FilterRules, Aliases, NatRules, Routes, Leases, Reservations} PROVE Fits(kind)
  BY <1>1 DEF Kind, Plain, FilterRules, Aliases, NatRules, Routes, Leases, Reservations,
              Searched, Crud, Does, WrapperAt
<1>2. ASSUME kind \in {HostOverrides, Rulesets, Instances, ClientOverrides, Sessions} PROVE Fits(kind)
  BY <1>2 DEF Kind, Plain, HostOverrides, Rulesets, Instances, ClientOverrides, Sessions,
              Crud, Does, WrapperAt
<1>3. ASSUME kind \in {Connections, Pools, Zones, Assignments, Neighbours} PROVE Fits(kind)
  BY <1>3 DEF Kind, Plain, Connections, Pools, Zones, Assignments, Neighbours, Crud, Does, WrapperAt
<1>4. ASSUME kind \in {RevocationLists, System, Configuration} PROVE Fits(kind)
  BY <1>4 DEF Kind, Plain, RevocationLists, System, Configuration, Does, Crud, WrapperAt
<1>5. ASSUME kind \in Settings \cup PacEntries \cup Rounds PROVE Fits(kind)
  BY <1>5 DEF Kind, Plain, Settings, PacEntries, Rounds, Crud, Does, WrapperAt
<1>6. kind \in {FilterRules, Aliases, NatRules, Routes, Leases, Reservations}
        \cup {HostOverrides, Rulesets, Instances, ClientOverrides, Sessions}
        \cup {Connections, Pools, Zones, Assignments, Neighbours}
        \cup {RevocationLists, System, Configuration}
        \cup (Settings \cup PacEntries \cup Rounds)
  BY Zenon DEF Unkeyed
<1> QED  BY <1>1, <1>2, <1>3, <1>4, <1>5, <1>6

LEMMA KeyedKinds ==
  ASSUME NEW kind \in Keyed
  PROVE  /\ kind.tools \subseteq Does \ {"search"}
         /\ kind.secrets # {}
<1>1. CASE kind \in {StaticKeys, KeyPairs, PreSharedKeys, WireGuardServers}
  BY <1>1 DEF StaticKeys, KeyPairs, PreSharedKeys, WireGuardServers, Kind, Crud, Does
<1>2. CASE kind \in {WireGuardPeers, Authorities, Certificates, Blacklists}
  BY <1>2 DEF WireGuardPeers, Authorities, Certificates, Blacklists, KeySecrets, Kind, Crud, Does
<1> QED  BY <1>1, <1>2 DEF Keyed

LEMMA UnkeyedHoldNoKeys ==
  ASSUME NEW kind \in Unkeyed
  PROVE  kind.secrets = {}
<1> DEFINE Rest == {HostOverrides, Rulesets, Instances, ClientOverrides, Sessions, Connections,
                    Pools, Zones, Assignments, Neighbours, RevocationLists, System, Configuration}
<1>1. CASE kind \in {FilterRules, Aliases, NatRules, Routes, Leases, Reservations}
  BY <1>1 DEF Kind, Plain, FilterRules, Aliases, NatRules, Routes, Leases, Reservations
<1>2. CASE kind \in Rest
  BY <1>2 DEF Kind, Plain, HostOverrides, Rulesets, Instances, ClientOverrides, Sessions,
              Connections, Pools, Zones, Assignments, Neighbours, RevocationLists, System,
              Configuration
<1>3. CASE kind \in Settings \cup PacEntries \cup Rounds
  BY <1>3 DEF Kind, Plain, Settings, PacEntries, Rounds
<1> QED  BY <1>1, <1>2, <1>3, Zenon DEF Unkeyed

LEMMA ToolsOfKinds ==
  ASSUME NEW kind \in Kinds
  PROVE  /\ kind.tools \subseteq Does
         /\ "search" \in kind.tools => kind.secrets = {}
  BY UnkeyedKinds, KeyedKinds, UnkeyedHoldNoKeys DEF Kinds

(* What the firewall wraps an object in is what the code expects. *)
LEMMA WrappersAgree ==
  ASSUME NEW kind \in Kinds
  PROVE  Wrapper(kind.path) = kind.wrapper
<1>1. CASE kind.secrets # {}
  BY <1>1, CodeKnowsTheKeys
<1>2. CASE kind.secrets = {}
  <2>1. kind \in Unkeyed
    BY <1>2, KeyedKinds DEF Kinds
  <2>2. KeyFields(kind.path) = {}
    BY <1>2, CodeKnowsTheKeys
  <2>3. \A other \in Kinds : other.path = kind.path => other \in Unkeyed
    BY <2>2, CodeKnowsTheKeys, KeyedKinds DEF Kinds
  <2>4. \A other \in Kinds : other.path = kind.path => other.wrapper = kind.wrapper
    BY <2>1, <2>3, UnkeyedKinds
  <2>5. Wrapper(kind.path) = (CHOOSE other \in Kinds : other.path = kind.path).wrapper
    BY <2>2 DEF Wrapper, KeyFields
  <2> QED  BY <2>4, <2>5
<1> QED  BY <1>1, <1>2

-----------------------------------------------------------------------------
(* Where a key that is given out once may be.                                *)

(* The calls that may have stored a key of theirs. *)
Storers == {c \in Made : ~OneShot(c)}

(* An object's fields, with keys of nobody else. *)
KeptBy(fields, storers) ==
  \A f \in DOMAIN fields :
    /\ fields[f].type = "text"
    /\ \A c \in Call : fields[f] = Key(c) => c \in storers

(* A response to c, with the keys of nobody else but its own. *)
Owned(c, v, storers) == \A d \in Call : Shows(v, Key(d)) => d = c \/ d \in storers

(* The key of c is in the answer to it, or there is none. *)
Delivered(c, v) == v = Failed \/ Shows(v, Key(c))

Posts(c) == job[c].data.of[job[c].kind.wrapper].of

OriginInv ==
  /\ \A u \in DOMAIN items : KeptBy(items[u].fields, Storers)
  /\ \A c \in Made : job[c].does \in {"add", "set"} => KeptBy(Posts(c), Storers)
  /\ \A c \in DOMAIN replies :
       \/ replies[c] \in {Garbled, HttpError}
       \/ /\ Owned(c, replies[c].body, Storers)
          /\ OneShot(c) => Delivered(c, replies[c].body)
  /\ \A c \in DOMAIN result :
       Owned(c, result[c], Storers) /\ (OneShot(c) => Delivered(c, result[c]))

(* What a response shows is at some depth of it. *)
LEMMA Inside ==
  ASSUME NEW t, NEW v, v.type # "text"
  PROVE  /\ InFields(t, v) <=> \E k \in DOMAIN v.of : InText(t, v.of[k])
         /\ InObjects(t, v) <=> \E k \in DOMAIN v.of : InFields(t, v.of[k])
         /\ Shows(v, t) <=> \E k \in DOMAIN v.of : InObjects(t, v.of[k])
<1>1. InFields(t, v) <=> \E k \in DOMAIN v.of : InText(t, v.of[k])
  BY DEF InFields, InText
<1>2. InObjects(t, v) <=> \E k \in DOMAIN v.of : InFields(t, v.of[k])
  BY <1>1 DEF InObjects, InFields
<1>3. Shows(v, t) <=> \E k \in DOMAIN v.of : InObjects(t, v.of[k])
  BY <1>2 DEF Shows, InObjects
<1> QED  BY <1>1, <1>2, <1>3

LEMMA InsideText ==
  ASSUME NEW t, NEW v, v.type = "text"
  PROVE  /\ InFields(t, v) => v = t
         /\ InObjects(t, v) => v = t
         /\ Shows(v, t) => v = t
  BY DEF Shows, InObjects, InFields, InText

LEMMA DeeperShows ==
  ASSUME NEW t, NEW v
  PROVE  InFields(t, v) => InObjects(t, v) /\ Shows(v, t)
  BY DEF Shows, InObjects

LEMMA KeysAreText ==
  ASSUME NEW c
  PROVE  Key(c).type = "text" /\ Public(c).type = "text"
  BY DEF Key, Public, Text

LEMMA KeysDiffer ==
  ASSUME NEW c, NEW d
  PROVE  (Key(c) = Key(d) => c = d) /\ Public(c) # Key(d)
<1>1. Key(c).of.from = c /\ Key(d).of.from = d /\ Key(d).of.secret /\ ~Public(c).of.secret
  BY DEF Key, Public, Text
<1> QED  BY <1>1

(* An object kept by some shows the keys of those. *)
LEMMA KeptShows ==
  ASSUME NEW storers, NEW fields, KeptBy(fields, storers), NEW d \in Call,
         InObjects(Key(d), Dict(fields)) \/ Shows(Dict(fields), Key(d))
  PROVE  d \in storers
<1>1. Dict(fields).type # "text" /\ Dict(fields).of = fields
  BY DEF Dict
<1>2. PICK f \in DOMAIN fields : InFields(Key(d), fields[f]) \/ InObjects(Key(d), fields[f])
  BY <1>1, Inside
<1>3. fields[f] = Key(d)
  BY <1>2, InsideText DEF KeptBy
<1> QED  BY <1>3 DEF KeptBy

(* The fields of an object in a response are kept by the owners of it. *)
LEMMA ShownAreKept ==
  ASSUME NEW storers, NEW v, v.type # "text", NEW k \in DOMAIN v.of, v.of[k].type # "text",
         \A f \in DOMAIN v.of[k].of : v.of[k].of[f].type = "text",
         \A d \in Call : Shows(v, Key(d)) => d \in storers
  PROVE  KeptBy(v.of[k].of, storers)
<1> DEFINE obj == v.of[k]
<1>1. ASSUME NEW f \in DOMAIN obj.of, NEW d \in Call, obj.of[f] = Key(d) PROVE d \in storers
  <2>1. InText(Key(d), obj.of[f])
    BY <1>1, KeysAreText DEF InText
  <2>2. InFields(Key(d), obj)
    BY <2>1, Inside
  <2>3. Shows(v, Key(d))
    BY <2>2, DeeperShows, Inside
  <2> QED  BY <2>3
<1> QED  BY <1>1 DEF KeptBy

(* Redaction shows nothing that was not there. *)
LEMMA RedactedShowsLess ==
  ASSUME NEW t, NEW v, v.type = "dict", NEW hidden
  PROVE  InFields(t, RedactPrivateKeys(v, hidden)) => InFields(t, v)
<1>1. PICK w : w = RedactPrivateKeys(v, hidden)
  OBVIOUS
<1>2. w.type = "dict" /\ DOMAIN w.of \subseteq DOMAIN v.of /\ \A k \in DOMAIN w.of : w.of[k] = v.of[k]
  BY <1>1 DEF RedactPrivateKeys, Dict
<1> QED  BY <1>1, <1>2, Inside

LEMMA RedactedObjectsShowLess ==
  ASSUME NEW t, NEW v, v.type = "dict", NEW hidden
  PROVE  InObjects(t, RedactPrivateKeys(v, hidden)) => InObjects(t, v)
<1>1. PICK w : w = RedactPrivateKeys(v, hidden)
  OBVIOUS
<1>2. w.type = "dict" /\ DOMAIN w.of \subseteq DOMAIN v.of /\ \A k \in DOMAIN w.of : w.of[k] = v.of[k]
  BY <1>1 DEF RedactPrivateKeys, Dict
<1> QED  BY <1>1, <1>2, Inside

(* A dict with one value replaced by one that shows less. *)
LEMMA ReplacedShowsLess ==
  ASSUME NEW t, NEW v, v.type = "dict", NEW k \in DOMAIN v.of, NEW new,
         InObjects(t, new) => InObjects(t, v.of[k])
  PROVE  Shows(Dict([v.of EXCEPT ![k] = new]), t) => Shows(v, t)
<1>1. PICK w : w = Dict([v.of EXCEPT ![k] = new])
  OBVIOUS
<1>2. w.type = "dict" /\ DOMAIN w.of = DOMAIN v.of /\ w.of[k] = new
      /\ \A j \in DOMAIN v.of : j # k => w.of[j] = v.of[j]
  BY <1>1 DEF Dict
<1> QED  BY <1>1, <1>2, Inside

LEMMA RedactedRowsShowLess ==
  ASSUME NEW t, NEW v, v.type = "dict", NEW hidden
  PROVE  Shows(RedactRows(v, hidden), t) => Shows(v, t)
<1> DEFINE rows == v.of["rows"].of
           new == List([i \in DOMAIN rows |-> RedactRow(rows[i], hidden)])
<1>1. CASE Holds(v, "rows", "list")
  <2>1. RedactRows(v, hidden) = Dict([v.of EXCEPT !["rows"] = new])
    BY <1>1 DEF RedactRows
  <2>2. "rows" \in DOMAIN v.of /\ v.of["rows"].type = "list"
    BY <1>1 DEF Holds
  <2>3. new.type = "list" /\ DOMAIN new.of = DOMAIN rows
        /\ \A i \in DOMAIN rows : new.of[i] = RedactRow(rows[i], hidden)
    BY DEF List
  <2>4. \A i \in DOMAIN rows : InFields(t, RedactRow(rows[i], hidden)) => InFields(t, rows[i])
    BY RedactedShowsLess DEF RedactRow
  <2> HIDE DEF new
  <2>5. InObjects(t, new) => InObjects(t, v.of["rows"])
    BY <2>2, <2>3, <2>4, Inside
  <2> QED  BY <2>1, <2>2, <2>5, ReplacedShowsLess
<1>2. CASE ~Holds(v, "rows", "list")
  BY <1>2 DEF RedactRows
<1> QED  BY <1>1, <1>2

LEMMA RedactedWrappedShowsLess ==
  ASSUME NEW t, NEW v, v.type = "dict", NEW wrapper, NEW hidden
  PROVE  Shows(RedactWrapped(v, wrapper, hidden), t) => Shows(v, t)
<1>1. CASE Holds(v, wrapper, "dict")
  BY <1>1, RedactedObjectsShowLess, ReplacedShowsLess DEF RedactWrapped, Holds
<1>2. CASE ~Holds(v, wrapper, "dict")
  BY <1>2 DEF RedactWrapped
<1> QED  BY <1>1, <1>2

LEMMA ReturnedShowsLess ==
  ASSUME NEW t, NEW kind, NEW does, NEW resp, Redacts(kind, does) => resp.type = "dict"
  PROVE  Shows(Returned(kind, does, resp), t) => Shows(resp, t)
  BY RedactedRowsShowLess, RedactedWrappedShowsLess DEF Returned

LEMMA HeardAreMade ==
  ASSUME KeyInv
  PROVE  DOMAIN awaiting \subseteq Made /\ DOMAIN replies \subseteq Made /\ DOMAIN result \subseteq Made
  BY DEF KeyInv, CallsInv, Answered

LEMMA KeptByMore ==
  ASSUME NEW S, NEW T, S \subseteq T, NEW fields, KeptBy(fields, S)
  PROVE  KeptBy(fields, T)
  BY DEF KeptBy

LEMMA OwnedByMore ==
  ASSUME NEW S, NEW T, S \subseteq T, NEW c, NEW v, Owned(c, v, S)
  PROVE  Owned(c, v, T)
  BY DEF Owned

LEMMA MadeOrigin ==
  ASSUME KeyInv, OriginInv, NEW c, NEW call, CallMade(c, call),
         call.does \in {"add", "set"} =>
           KeptBy(call.data.of[call.kind.wrapper].of, Storers \cup {c})
  PROVE  OriginInv'
<1>1. \A d \in Made : OneShot(d)' = OneShot(d) /\ Posts(d)' = Posts(d)
  BY DEF CallMade, OneShot, Posts
<1>2. Storers \subseteq Storers'
  BY <1>1 DEF Storers, CallMade
<1>3. call.does \in {"add", "set"} => Storers \cup {c} \subseteq Storers'
  BY <1>1, <1>2 DEF Storers, CallMade, OneShot
<1>4. \A u \in DOMAIN items' : KeptBy(items'[u].fields, Storers')
  BY <1>2, KeptByMore DEF CallMade, OriginInv
<1>5. ASSUME NEW d \in Made', job'[d].does \in {"add", "set"}
      PROVE  KeptBy(Posts(d)', Storers')
  <2>1. CASE d = c
    <3>1. Posts(d)' = call.data.of[call.kind.wrapper].of /\ job'[d].does = call.does
      BY <2>1 DEF Posts, CallMade
    <3> QED  BY <1>3, <1>5, <3>1, KeptByMore
  <2>2. CASE d \in Made
    <3>1. KeptBy(Posts(d), Storers)
      BY <1>5, <2>2 DEF OriginInv, CallMade
    <3> QED  BY <1>1, <1>2, <2>2, <3>1, KeptByMore
  <2> QED  BY <2>1, <2>2 DEF CallMade
<1>6. ASSUME NEW d \in DOMAIN replies'
      PROVE  \/ replies'[d] \in {Garbled, HttpError}
             \/ /\ Owned(d, replies'[d].body, Storers')
                /\ OneShot(d)' => Delivered(d, replies'[d].body)
  <2>1. d \in Made /\ replies' = replies
    BY HeardAreMade DEF CallMade
  <2> QED  BY <1>1, <1>2, <2>1, OwnedByMore DEF OriginInv
<1>7. ASSUME NEW d \in DOMAIN result'
      PROVE  Owned(d, result'[d], Storers') /\ (OneShot(d)' => Delivered(d, result'[d]))
  <2>1. d \in Made /\ result' = result
    BY HeardAreMade DEF CallMade
  <2> QED  BY <1>1, <1>2, <2>1, OwnedByMore DEF OriginInv
<1> QED  BY <1>4, <1>5, <1>6, <1>7 DEF OriginInv

LEMMA EndOrigin ==
  ASSUME KeyInv, OriginInv, CallsEnd
  PROVE  OriginInv'
<1>1. \A c : OneShot(c)' = OneShot(c) /\ Posts(c)' = Posts(c)
  BY DEF CallsEnd, OneShot, Posts
<1>2. Made' = Made /\ Storers' = Storers
  BY <1>1 DEF Storers, CallsEnd, Made
<1>3. ASSUME NEW c \in DOMAIN result'
      PROVE  Owned(c, result'[c], Storers) /\ (OneShot(c) => Delivered(c, result'[c]))
  <2>1. CASE Results(c)
    <3> DEFINE resp == replies[c].body
    <3>1. result'[c] = Returned(job[c].kind, job[c].does, resp)
          /\ (Redacts(job[c].kind, job[c].does) => resp.type = "dict")
          /\ Owned(c, resp, Storers) /\ (OneShot(c) => Delivered(c, resp))
      BY <2>1 DEF Results, OriginInv
    <3>2. Owned(c, result'[c], Storers)
      BY <3>1, ReturnedShowsLess DEF Owned
    <3>3. OneShot(c) => result'[c] = resp
      BY <3>1 DEF OneShot, Returned, Redacts
    <3> QED  BY <3>1, <3>2, <3>3
  <2>2. CASE c \in DOMAIN result /\ result'[c] = result[c]
    BY <2>2 DEF OriginInv
  <2> QED  BY <2>1, <2>2 DEF CallsEnd
<1>4. \A c \in DOMAIN result' : OneShot(c)' => Delivered(c, result'[c])
  BY <1>1, <1>3
<1>5. \A c \in DOMAIN replies' :
        \/ replies'[c] \in {Garbled, HttpError}
        \/ /\ Owned(c, replies'[c].body, Storers)
           /\ OneShot(c)' => Delivered(c, replies'[c].body)
  BY <1>1 DEF CallsEnd, OriginInv
<1>6. items' = items /\ job' = job
  BY DEF CallsEnd
<1> QED  BY <1>1, <1>2, <1>3, <1>4, <1>5, <1>6 DEF OriginInv

LEMMA AnsweredOrigin ==
  ASSUME KeyInv, OriginInv, NEW c, NEW reply, CallAnswered(c, reply), Made' = Made,
         \/ reply \in {Garbled, HttpError}
         \/ Owned(c, reply.body, Storers) /\ (OneShot(c) => Delivered(c, reply.body)),
         \A u \in DOMAIN items' : KeptBy(items'[u].fields, Storers)
  PROVE  OriginInv'
<1>1. \A d : OneShot(d)' = OneShot(d) /\ Posts(d)' = Posts(d)
  BY DEF CallAnswered, OneShot, Posts
<1>2. Storers' = Storers
  BY <1>1 DEF Storers
<1>3. \A d \in DOMAIN replies' :
        \/ replies'[d] \in {Garbled, HttpError}
        \/ /\ Owned(d, replies'[d].body, Storers)
           /\ OneShot(d)' => Delivered(d, replies'[d].body)
  BY <1>1 DEF CallAnswered, OriginInv
<1>4. \A d \in DOMAIN result' : Owned(d, result'[d], Storers) /\ (OneShot(d)' => Delivered(d, result'[d]))
  BY <1>1 DEF CallAnswered, OriginInv
<1>5. job' = job
  BY DEF CallAnswered
<1> QED  BY <1>1, <1>2, <1>3, <1>4, <1>5 DEF OriginInv

LEMMA AskOrigin ==
  ASSUME KeyInv, OriginInv, NEW c \in Call, NEW kind, NEW does, NEW uuid, NEW data,
         Ask(c, kind, does, uuid, data),
         does \in {"add", "set"} => KeptBy(data.of[kind.wrapper].of, Storers \cup {c})
  PROVE  OriginInv'
<1>1. PICK call : call = [kind |-> kind, does |-> does, uuid |-> uuid, data |-> data]
  OBVIOUS
<1>2. CallMade(c, call) /\ call.does = does /\ call.kind = kind /\ call.data = data
  BY <1>1, AskMakes
<1> QED  BY <1>2, MadeOrigin

LEMMA AddOrigin ==
  ASSUME KeyInv, OriginInv, NEW c \in Call, NEW kind \in Offered, Add(c, kind)
  PROVE  OriginInv'
<1>1. CASE Ask(c, kind, "add", None, Under(kind.wrapper, Dict(Object(c, kind.secrets))))
  <2>1. Under(kind.wrapper, Dict(Object(c, kind.secrets))).of[kind.wrapper].of = Object(c, kind.secrets)
    BY DEF Under, Dict
  <2>2. \A f \in DOMAIN Object(c, kind.secrets) : Object(c, kind.secrets)[f] \in {Public(c), Key(c)}
    BY DEF Object
  <2>3. KeptBy(Object(c, kind.secrets), Storers \cup {c})
    BY <2>2, KeysAreText, KeysDiffer DEF KeptBy
  <2> QED  BY <1>1, <2>1, <2>3, AskOrigin
<1>2. CASE \E data : Ask(c, kind, "issue", None, data)
  BY <1>2, AskOrigin
<1> QED  BY <1>1, <1>2 DEF Add

LEMMA EditOrigin ==
  ASSUME KeyInv, OriginInv, NEW c \in Call, NEW g \in Call, NEW kind \in Offered, NEW uuid,
         Edit(c, g, kind, uuid)
  PROVE  OriginInv'
<1> DEFINE wrapper == kind.wrapper
           shown == result[g].of[wrapper]
           fields == Put(shown.of, "descr", Public(c))
<1>1. /\ g \in DOMAIN result /\ job[g].does = "get" /\ job[g].kind = kind
      /\ Holds(result[g], wrapper, "dict")
      /\ Ask(c, kind, "set", uuid, Under(wrapper, Dict(fields)))
  BY DEF Edit
<1>2. Wraps(result[g], wrapper) /\ Clear(kind.path, shown)
  <2>1. IsRedacted(kind.path, "get", result[g])
    BY <1>1 DEF KeyInv, ResultsInv
  <2>2. result[g] # NotFound
    BY <1>1 DEF Holds, NotFound, List
  <2>3. wrapper \in DOMAIN result[g].of
    BY <1>1 DEF Holds
  <2> QED  BY <2>1, <2>2, <2>3 DEF IsRedacted, Wraps
<1>3. \A d \in Call : Shows(result[g], Key(d)) => d \in Storers
  BY <1>1, HeardAreMade DEF OriginInv, Owned, Storers, OneShot
<1>4. KeptBy(shown.of, Storers)
  BY <1>2, <1>3, ShownAreKept DEF Wraps, Clear, Open
<1>5. DOMAIN fields = DOMAIN shown.of \cup {"descr"} /\ fields["descr"] = Public(c)
      /\ \A f \in DOMAIN shown.of : f # "descr" => fields[f] = shown.of[f]
  BY DEF Put
<1>6. Under(wrapper, Dict(fields)).of[wrapper].of = fields
  BY DEF Under, Dict
<1> HIDE DEF fields, shown
<1>7. KeptBy(fields, Storers \cup {c})
  BY <1>4, <1>5, KeysAreText, KeysDiffer DEF KeptBy
<1> QED  BY <1>1, <1>6, <1>7, AskOrigin

LEMMA RotateOrigin ==
  ASSUME KeyInv, OriginInv, NEW c \in Call, NEW kind \in Offered, NEW uuid, Rotate(c, kind, uuid)
  PROVE  OriginInv'
<1> DEFINE keys == [f \in kind.secrets |-> Key(c)]
<1>1. Ask(c, kind, "set", uuid, Under(kind.wrapper, Dict(keys)))
  BY DEF Rotate
<1>2. Under(kind.wrapper, Dict(keys)).of[kind.wrapper].of = keys
  BY DEF Under, Dict
<1>3. KeptBy(keys, Storers \cup {c})
  BY KeysAreText, KeysDiffer DEF KeptBy
<1> HIDE DEF keys
<1> QED  BY <1>1, <1>2, <1>3, AskOrigin

LEMMA OtherCallsOrigin ==
  ASSUME KeyInv, OriginInv, NEW c \in Call, NEW kind \in Offered, NEW uuid,
         Read(c, kind) \/ Delete(c, kind, uuid)
  PROVE  OriginInv'
<1>1. PICK does, id : does \notin {"add", "set"} /\ Ask(c, kind, does, id, None)
  BY DEF Read, Delete
<1> QED  BY <1>1, AskOrigin

-----------------------------------------------------------------------------
(* The firewall's answers. *)

LEMMA WrappedShow ==
  ASSUME NEW t, NEW k, NEW v
  PROVE  Shows(Under(k, v), t) <=> InObjects(t, v)
<1>1. Under(k, v).type = "dict" /\ DOMAIN Under(k, v).of = {k} /\ Under(k, v).of[k] = v
  BY DEF Under, Dict
<1> QED  BY <1>1, Inside

LEMMA RowsShow ==
  ASSUME OriginInv, NEW uuids \in SUBSET DOMAIN items, NEW rows \in Rows(uuids), NEW d \in Call,
         InObjects(Key(d), rows) \/ Shows(rows, Key(d))
  PROVE  d \in Storers
<1>1. PICK order \in [1..Cardinality(uuids) -> uuids] :
        rows = List([i \in DOMAIN order |-> Dict(items[order[i]].fields)])
  BY DEF Rows
<1>2. rows.type = "list" /\ DOMAIN rows.of = DOMAIN order
      /\ \A i \in DOMAIN order : rows.of[i] = Dict(items[order[i]].fields)
  BY <1>1 DEF List
<1>3. PICK i \in DOMAIN rows.of : InFields(Key(d), rows.of[i]) \/ InObjects(Key(d), rows.of[i])
  BY <1>2, Inside
<1>4. InObjects(Key(d), rows.of[i])
  BY <1>3, DeeperShows
<1>5. order[i] \in DOMAIN items /\ rows.of[i] = Dict(items[order[i]].fields)
  BY <1>2
<1> QED  BY <1>4, <1>5, KeptShows DEF OriginInv

LEMMA NothingShown ==
  ASSUME NEW d
  PROVE  /\ ~Shows(NotFound, Key(d))
         /\ ~Shows(Saved, Key(d))
         /\ ~Shows(Failed, Key(d))
<1>1. NotFound.type = "list" /\ DOMAIN NotFound.of = {}
  BY DEF NotFound, List
<1>2. \A text : ~InObjects(Key(d), Public(text))
  BY InsideText, KeysAreText, KeysDiffer
<1> QED  BY <1>1, <1>2, Inside, WrappedShow DEF Saved, Failed

LEMMA OwnKeyShown ==
  ASSUME NEW c, NEW storers, NEW k
  PROVE  Owned(c, Under(k, Key(c)), storers) /\ Delivered(c, Under(k, Key(c)))
<1>1. \A d : InObjects(Key(d), Key(c)) <=> d = c
  BY InsideText, KeysAreText, KeysDiffer DEF InObjects, InFields, InText
<1> QED  BY <1>1, WrappedShow DEF Owned, Delivered

LEMMA RequestFacts ==
  ASSUME KeyInv, NEW r \in wire
  PROVE  LET c == r.req_id IN
         /\ c \in Made /\ c \in Call
         /\ job[c].kind \in Kinds /\ job[c].does \in Does
         /\ r.path[1] = job[c].kind.path /\ r.path[2] = job[c].does /\ r.path[3] = job[c].uuid
         /\ r.data = job[c].data
         /\ Wrapper(job[c].kind.path) = job[c].kind.wrapper
<1> DEFINE c == r.req_id
<1>1. c \in Made /\ c \in Call /\ r = RequestOf(c) /\ job[c].kind \in Offered
      /\ job[c].does \in job[c].kind.tools
  BY DEF KeyInv, CallsInv
<1>2. job[c].kind \in Kinds
  BY <1>1, OfferedAssumption
<1>3. r.path[1] = job[c].kind.path /\ r.path[2] = job[c].does /\ r.path[3] = job[c].uuid
      /\ r.data = job[c].data
  BY <1>1 DEF RequestOf, Request
<1> QED  BY <1>1, <1>2, <1>3, ToolsOfKinds, WrappersAgree

LEMMA ShownOrigin ==
  ASSUME KeyInv, OriginInv, NEW r \in wire, Reads(r), NEW resp \in Shown(r)
  PROVE  Owned(r.req_id, resp, Storers) /\ (OneShot(r.req_id) => Delivered(r.req_id, resp))
<1> DEFINE c == r.req_id
           path == r.path[1]
           does == r.path[2]
           uuid == r.path[3]
<1>1. does \in {"list", "search", "table", "show", "get", "export", "generate", "backup"}
  BY RequestFacts DEF Reads, Does, Crud
<1>2. does = job[c].does
  BY RequestFacts
<1>3. ASSUME does # "generate", \A d \in Call : Shows(resp, Key(d)) => d \in Storers
      PROVE  Owned(c, resp, Storers) /\ (OneShot(c) => Delivered(c, resp))
  BY <1>1, <1>2, <1>3 DEF Owned, OneShot
<1>4. Having(path) \in SUBSET DOMAIN items
  BY DEF Having
<1>5. \A u \in DOMAIN items, d \in Call :
        InObjects(Key(d), Dict(items[u].fields)) \/ Shows(Dict(items[u].fields), Key(d)) => d \in Storers
  BY KeptShows DEF OriginInv
<1>6. CASE does \in {"list", "search"}
  <2>1. PICK rows \in Rows(Having(path)) : resp = Under("rows", rows)
    BY <1>6 DEF Shown
  <2> QED  BY <1>3, <1>4, <1>6, <2>1, RowsShow, WrappedShow
<1>7. CASE does = "table"
  <2>1. resp \in Rows(Having(path))
    BY <1>7 DEF Shown
  <2> QED  BY <1>3, <1>4, <1>7, <2>1, RowsShow
<1>8. CASE does = "backup"
  <2>1. resp \in Rows(DOMAIN items)
    BY <1>8 DEF Shown
  <2> QED  BY <1>3, <1>8, <2>1, RowsShow
<1>9. CASE does \in {"show", "export"}
  <2>1. resp = NotFound \/ \E u \in DOMAIN items : resp = Dict(items[u].fields)
    BY <1>4, <1>9 DEF Shown
  <2> QED  BY <1>3, <1>5, <1>9, <2>1, NothingShown
<1>10. CASE does = "get"
  <2>1. resp = NotFound \/ \E u \in DOMAIN items : resp = Under(Wrapper(path), Dict(items[u].fields))
    BY <1>4, <1>10 DEF Shown
  <2> QED  BY <1>3, <1>5, <1>10, <2>1, NothingShown, WrappedShow
<1>11. CASE does = "generate"
  <2>1. resp = Under("key", Key(c))
    BY <1>11 DEF Shown
  <2> QED  BY <2>1, OwnKeyShown
<1> QED  BY <1>1, <1>6, <1>7, <1>8, <1>9, <1>10, <1>11

LEMMA WriteOrigin ==
  ASSUME KeyInv, OriginInv, NEW r \in wire, NEW reply, Write(r, reply)
  PROVE  /\ Owned(r.req_id, reply, Storers) /\ (OneShot(r.req_id) => Delivered(r.req_id, reply))
         /\ \A u \in DOMAIN items' : KeptBy(items'[u].fields, Storers)
<1> DEFINE c == r.req_id
           kind == job[c].kind
           does == job[c].does
           path == r.path[1]
           Kept == \A u \in DOMAIN items' : KeptBy(items'[u].fields, Storers)
<1>1. /\ c \in Made /\ c \in Call
      /\ path = kind.path /\ r.path[2] = does /\ r.data = job[c].data
      /\ Wrapper(path) = kind.wrapper
      /\ Posted(r) = Posts(c)
  BY RequestFacts DEF Posted, Posts
<1>2. ASSUME NEW u, NEW fields, Stores(u, path, fields), KeptBy(fields, Storers) PROVE Kept
  <2>1. DOMAIN items' = DOMAIN items \cup {u} /\ items'[u].fields = fields
        /\ \A x \in DOMAIN items : x # u => items'[x] = items[x]
    BY <1>2 DEF Stores, Put
  <2> QED  BY <1>2, <2>1 DEF OriginInv
<1>3. Owned(c, Saved, Storers)
  BY NothingShown DEF Owned
<1>4. CASE does = "add"
  <2>1. Stores(c, path, Posts(c)) /\ reply = Saved
    BY <1>1, <1>4 DEF Write
  <2>2. KeptBy(Posts(c), Storers) /\ ~OneShot(c)
    BY <1>1, <1>4 DEF OriginInv, OneShot
  <2> QED  BY <1>2, <1>3, <2>1, <2>2
<1>5. CASE does = "issue"
  <2> DEFINE local == Posts(c)["private_key_location"] = Public("local")
  <2>1. OneShot(c) <=> local
    BY <1>5 DEF OneShot, Posts
  <2>2. CASE local
    <3>1. reply = Under("private_key", Key(c)) /\ Stores(c, path, Object(c, {}))
      BY <1>1, <1>5, <2>2 DEF Write
    <3>2. \A f \in DOMAIN Object(c, {}) : Object(c, {})[f] = Public(c)
      BY DEF Object
    <3>3. KeptBy(Object(c, {}), Storers)
      BY <3>2, KeysAreText, KeysDiffer DEF KeptBy
    <3> QED  BY <1>2, <3>1, <3>3, OwnKeyShown
  <2>3. CASE ~local
    <3>1. reply = Saved /\ Stores(c, path, Object(c, KeyFields(path)))
      BY <1>1, <1>5, <2>3 DEF Write
    <3>2. \A f \in DOMAIN Object(c, KeyFields(path)) : Object(c, KeyFields(path))[f] \in {Public(c), Key(c)}
      BY DEF Object
    <3>3. c \in Storers
      BY <1>1, <2>1, <2>3 DEF Storers
    <3>4. KeptBy(Object(c, KeyFields(path)), Storers)
      BY <3>2, <3>3, KeysAreText, KeysDiffer DEF KeptBy
    <3> QED  BY <1>2, <1>3, <2>1, <2>3, <3>1, <3>4
  <2> QED  BY <2>2, <2>3
<1>6. CASE does = "set"
  <2> DEFINE uuid == r.path[3]
             new == Merge(Posts(c), items[uuid].fields)
  <2>1. uuid \in DOMAIN items /\ Stores(uuid, path, new) /\ reply = Saved
    BY <1>1, <1>6 DEF Write, Having
  <2>2. KeptBy(Posts(c), Storers) /\ KeptBy(items[uuid].fields, Storers) /\ ~OneShot(c)
    BY <1>1, <1>6, <2>1 DEF OriginInv, OneShot
  <2>3. KeptBy(new, Storers)
    BY <2>2 DEF KeptBy, Merge
  <2> HIDE DEF new
  <2> QED  BY <1>2, <1>3, <2>1, <2>2, <2>3
<1>7. CASE does = "del"
  <2>1. items' = Drop(items, r.path[3]) /\ reply = Saved
    BY <1>1, <1>7 DEF Write
  <2>2. Kept
    BY <2>1 DEF Drop, OriginInv
  <2>3. ~OneShot(c)
    BY <1>7 DEF OneShot
  <2> QED  BY <1>3, <2>1, <2>2, <2>3
<1> QED  BY <1>1, <1>4, <1>5, <1>6, <1>7 DEF Write

LEMMA FirewallOrigin ==
  ASSUME KeyInv, OriginInv, NEW r \in wire, Firewall(r)
  PROVE  OriginInv'
<1> DEFINE c == r.req_id
           Allowed(reply) == \/ reply \in {Garbled, HttpError}
                             \/ /\ Owned(c, reply.body, Storers)
                                /\ OneShot(c) => Delivered(c, reply.body)
<1>1. UNCHANGED <<stage, job, result>>
  BY DEF Firewall
<1>2. ASSUME NEW reply, Answer(r, reply), Allowed(reply), Made' = Made,
             \A u \in DOMAIN items' : KeptBy(items'[u].fields, Storers)
      PROVE  OriginInv'
  BY <1>1, <1>2, AnswerAnswers, AnsweredOrigin
<1>3. ASSUME UNCHANGED <<items, seen>>
      PROVE  Made' = Made /\ \A u \in DOMAIN items' : KeptBy(items'[u].fields, Storers)
  BY <1>3 DEF OriginInv, Made
<1>4. \A body : Ok(body).body = body
  BY DEF Ok
<1>5. CASE AnswerRead(r)
  <2>1. PICK reply : Answer(r, reply) /\ (reply \in {Garbled, HttpError} \/ \E resp \in Shown(r) : reply = Ok(resp))
    BY <1>5 DEF AnswerRead
  <2>2. Allowed(reply)
    BY <1>4, <1>5, <2>1, ShownOrigin DEF AnswerRead
  <2> QED  BY <1>2, <1>3, <1>5, <2>1, <2>2 DEF AnswerRead
<1>6. CASE (\E reply \in {Ok(Failed), Garbled, HttpError} : Answer(r, reply)) /\ UNCHANGED <<items, seen>>
  <2>1. PICK reply \in {Ok(Failed), Garbled, HttpError} : Answer(r, reply)
    BY <1>6
  <2>2. Owned(c, Failed, Storers) /\ Delivered(c, Failed)
    BY NothingShown DEF Owned, Delivered
  <2>3. Allowed(reply)
    BY <1>4, <2>1, <2>2
  <2> QED  BY <1>2, <1>3, <1>6, <2>1, <2>3
<1>7. CASE (\E reply \in {Saved, Under("private_key", Key(r.req_id))} :
               Write(r, reply) /\ \E sent \in {Ok(reply), Garbled, HttpError} : Answer(r, sent))
           /\ Changed
  <2>1. PICK reply \in {Saved, Under("private_key", Key(r.req_id))} :
          Write(r, reply) /\ \E sent \in {Ok(reply), Garbled, HttpError} : Answer(r, sent)
    BY <1>7
  <2>2. PICK sent \in {Ok(reply), Garbled, HttpError} : Answer(r, sent)
    BY <2>1
  <2>3. Allowed(sent) /\ \A u \in DOMAIN items' : KeptBy(items'[u].fields, Storers)
    BY <1>4, <2>1, <2>2, WriteOrigin
  <2>4. Made' = Made
    BY <1>7 DEF Changed, Made
  <2> QED  BY <1>2, <2>2, <2>3, <2>4
<1> QED  BY <1>5, <1>6, <1>7 DEF Firewall, AnswerWrite

-----------------------------------------------------------------------------
(* What is read is the table as it was while the call ran.                   *)

IsFields(fields) == fields = [f \in DOMAIN fields |-> fields[f]]

(* The firewall has finitely many objects, and their fields are dicts. *)
FieldsInv ==
  /\ IsFiniteSet(DOMAIN items)
  /\ \A u \in DOMAIN items : IsFields(items[u].fields)
  /\ \A c \in Made : job[c].does = "add" => IsFields(Posts(c))

SeenInv ==
  /\ \A c \in Made : seen[c] # {}
  /\ \A c \in DOMAIN awaiting : items \in seen[c]

Without(item, hidden) == Dict([f \in DOMAIN item.fields \ hidden |-> item.fields[f]])

ObjectsOf(table, path) == {u \in DOMAIN table : table[u].path = path}

(* The rows of a response are the objects, each once and without what is
   hidden. *)
ListsObjects(table, objects, hidden, v) ==
  LET rows == v.of["rows"].of
  IN  /\ HasRows(v)
      /\ Cardinality(objects) \in Nat
      /\ rows = [i \in 1..Cardinality(objects) |-> rows[i]]
      /\ {rows[i] : i \in DOMAIN rows} = {Without(table[u], hidden) : u \in objects}

(* A response to a call is what the table says. *)
ShowsTable(table, call, hidden, v) ==
  LET objects == ObjectsOf(table, call.kind.path)
  IN  /\ call.does \in {"list", "search"} => ListsObjects(table, objects, hidden, v)
      /\ call.does = "get" =>
           IF call.uuid \in objects
             THEN v = Under(call.kind.wrapper, Without(table[call.uuid], hidden))
             ELSE v = NotFound

(* Tools have hidden the key fields of what they return. *)
SnapshotsInv ==
  /\ \A c \in DOMAIN replies :
       \/ replies[c] \in {Garbled, HttpError}
       \/ \E table \in seen[c] : ShowsTable(table, job[c], {}, replies[c].body)
  /\ \A c \in DOMAIN result :
       \E table \in seen[c] : ShowsTable(table, job[c], KeyFields(job[c].kind.path), result[c])

TablesInv == FieldsInv /\ SeenInv /\ SnapshotsInv

LEMMA LengthOf ==
  ASSUME NEW n \in Nat, NEW s, s = [i \in 1..n |-> s[i]]
  PROVE  Len(s) = n /\ DOMAIN s = 1..n
<1>1. s \in [1..n -> {s[i] : i \in 1..n}]
  OBVIOUS
<1>2. s \in Seq({s[i] : i \in 1..n})
  BY <1>1, SeqDef
<1>3. DOMAIN s = 1..n /\ DOMAIN s = 1..Len(s) /\ Len(s) \in Nat
  BY <1>1, <1>2, LenProperties
<1> QED  BY <1>3

LEMMA HiddenLater ==
  ASSUME NEW item, NEW hidden
  PROVE  /\ RedactPrivateKeys(Without(item, {}), hidden) = Without(item, hidden)
         /\ RedactRow(Without(item, {}), hidden) = Without(item, hidden)
         /\ Without(item, {}).type = "dict"
  BY DEF RedactPrivateKeys, RedactRow, Without, Dict

LEMMA WrappedFacts ==
  ASSUME NEW k, NEW v
  PROVE  Under(k, v).type = "dict" /\ DOMAIN Under(k, v).of = {k} /\ Under(k, v).of[k] = v
  BY DEF Under, Dict

LEMMA RowsHide ==
  ASSUME NEW table, NEW objects, NEW hidden, NEW v, ListsObjects(table, objects, {}, v)
  PROVE  ListsObjects(table, objects, hidden, RedactRows(v, hidden))
<1> DEFINE n == Cardinality(objects)
           rows == v.of["rows"].of
           new == [i \in DOMAIN rows |-> RedactRow(rows[i], hidden)]
           w == RedactRows(v, hidden)
<1>1. /\ HasRows(v) /\ n \in Nat
      /\ rows = [i \in 1..n |-> rows[i]]
      /\ {rows[i] : i \in DOMAIN rows} = {Without(table[u], {}) : u \in objects}
  BY DEF ListsObjects
<1>2. w = Dict([v.of EXCEPT !["rows"] = List(new)])
  BY <1>1 DEF RedactRows, Holds, HasRows, Wraps
<1>3. HasRows(w) /\ w.of["rows"].of = new
  BY <1>1, <1>2 DEF HasRows, Wraps, Dict, List
<1>4. DOMAIN rows = 1..n
  BY <1>1
<1>5. new = [i \in 1..n |-> new[i]]
  BY <1>4
<1>6. \A i \in DOMAIN rows : \E u \in objects : rows[i] = Without(table[u], {}) /\ new[i] = Without(table[u], hidden)
  <2> SUFFICES ASSUME NEW i \in DOMAIN rows
               PROVE  \E u \in objects : rows[i] = Without(table[u], {}) /\ new[i] = Without(table[u], hidden)
    OBVIOUS
  <2>1. PICK u \in objects : rows[i] = Without(table[u], {})
    BY <1>1
  <2> QED  BY <2>1, HiddenLater
<1>7. \A u \in objects : \E i \in DOMAIN rows : new[i] = Without(table[u], hidden)
  <2> SUFFICES ASSUME NEW u \in objects PROVE \E i \in DOMAIN rows : new[i] = Without(table[u], hidden)
    OBVIOUS
  <2>1. PICK i \in DOMAIN rows : rows[i] = Without(table[u], {})
    BY <1>1
  <2> QED  BY <2>1, HiddenLater
<1>8. DOMAIN new = DOMAIN rows
  OBVIOUS
<1> HIDE DEF new, rows, w
<1>9. {new[i] : i \in DOMAIN new} = {Without(table[u], hidden) : u \in objects}
  BY <1>6, <1>7, <1>8
<1> QED  BY <1>1, <1>3, <1>5, <1>9 DEF ListsObjects, w

LEMMA ReturnedShowsTable ==
  ASSUME NEW table, NEW call, call.kind \in Kinds, call.does \in call.kind.tools, NEW resp,
         ShowsTable(table, call, {}, resp),
         Redacts(call.kind, call.does) => resp.type = "dict"
  PROVE  ShowsTable(table, call, KeyFields(call.kind.path), Returned(call.kind, call.does, resp))
<1> DEFINE kind == call.kind
           objects == ObjectsOf(table, kind.path)
           v == Returned(kind, call.does, resp)
<1>1. KeyFields(kind.path) = kind.secrets /\ ("search" \in kind.tools => kind.secrets = {})
  BY CodeKnowsTheKeys, ToolsOfKinds
<1>2. CASE kind.secrets = {}
  BY <1>1, <1>2 DEF Returned, Redacts
<1>3. CASE kind.secrets # {} /\ call.does = "list"
  <2>1. v = RedactRows(resp, kind.secrets) /\ ListsObjects(table, objects, {}, resp)
    BY <1>3 DEF Returned, Redacts, ShowsTable
  <2>2. ListsObjects(table, objects, kind.secrets, v)
    BY <2>1, RowsHide
  <2> QED  BY <1>1, <1>3, <2>2 DEF ShowsTable
<1>4. CASE kind.secrets # {} /\ call.does = "get"
  <2> DEFINE obj == Without(table[call.uuid], {})
  <2>1. v = RedactWrapped(resp, kind.wrapper, kind.secrets) /\ resp.type = "dict"
    BY <1>4 DEF Returned, Redacts
  <2>2. call.uuid \in objects /\ resp = Under(kind.wrapper, obj)
    BY <1>4, <2>1 DEF ShowsTable, NotFound, List
  <2>3. Holds(resp, kind.wrapper, "dict") /\ resp.of[kind.wrapper] = obj
    BY <2>2, WrappedFacts, HiddenLater DEF Holds
  <2>4. v = Dict([resp.of EXCEPT ![kind.wrapper] = Without(table[call.uuid], kind.secrets)])
    BY <2>1, <2>3, HiddenLater DEF RedactWrapped
  <2>5. v = Under(kind.wrapper, Without(table[call.uuid], kind.secrets))
    BY <2>2, <2>4 DEF Under, Dict
  <2> QED  BY <1>1, <1>4, <2>2, <2>5 DEF ShowsTable
<1>5. CASE call.does \notin {"list", "search", "get"}
  BY <1>5 DEF ShowsTable
<1> QED  BY <1>1, <1>2, <1>3, <1>4, <1>5

LEMMA AskTables ==
  ASSUME KeyInv, TablesInv, NEW c \in Call, NEW kind, NEW does, NEW uuid, NEW data,
         Ask(c, kind, does, uuid, data),
         does = "add" => IsFields(data.of[kind.wrapper].of)
  PROVE  TablesInv'
<1>1. PICK call : call = [kind |-> kind, does |-> does, uuid |-> uuid, data |-> data]
  OBVIOUS
<1>2. CallMade(c, call) /\ call.does = does /\ call.kind = kind /\ call.data = data
  BY <1>1, AskMakes
<1>3. FieldsInv'
  <2>1. \A d \in Made : Posts(d)' = Posts(d) /\ job'[d] = job[d]
    BY <1>2 DEF CallMade, Posts
  <2>2. Posts(c)' = data.of[kind.wrapper].of /\ job'[c].does = does
    BY <1>2 DEF CallMade, Posts
  <2>3. items' = items /\ Made' = Made \cup {c}
    BY <1>2 DEF CallMade
  <2> QED  BY <2>1, <2>2, <2>3 DEF TablesInv, FieldsInv
<1>4. SeenInv'
  BY <1>2, HeardAreMade DEF CallMade, TablesInv, SeenInv
<1>5. SnapshotsInv'
  BY <1>2, HeardAreMade DEF CallMade, TablesInv, SnapshotsInv
<1> QED  BY <1>3, <1>4, <1>5 DEF TablesInv

LEMMA EndTables ==
  ASSUME KeyInv, TablesInv, CallsEnd
  PROVE  TablesInv'
<1>1. UNCHANGED <<job, items, seen>> /\ Made' = Made /\ \A c : Posts(c)' = Posts(c)
  BY DEF CallsEnd, Made, Posts
<1>2. FieldsInv' /\ SeenInv'
  BY <1>1 DEF CallsEnd, TablesInv, FieldsInv, SeenInv
<1>3. ASSUME NEW c \in DOMAIN result'
      PROVE  \E table \in seen[c] : ShowsTable(table, job[c], KeyFields(job[c].kind.path), result'[c])
  <2>1. CASE Results(c)
    <3>1. PICK table \in seen[c] : ShowsTable(table, job[c], {}, replies[c].body)
      BY <2>1 DEF Results, TablesInv, SnapshotsInv
    <3>2. job[c].kind \in Kinds /\ job[c].does \in job[c].kind.tools
      BY <2>1, HeardAreMade, OfferedAssumption DEF Results, KeyInv, CallsInv
    <3>3. ShowsTable(table, job[c], KeyFields(job[c].kind.path), result'[c])
      BY <2>1, <3>1, <3>2, ReturnedShowsTable DEF Results
    <3> QED  BY <3>3
  <2>2. CASE c \in DOMAIN result /\ result'[c] = result[c]
    BY <2>2 DEF TablesInv, SnapshotsInv
  <2> QED  BY <2>1, <2>2 DEF CallsEnd
<1>4. SnapshotsInv'
  BY <1>1, <1>3 DEF CallsEnd, TablesInv, SnapshotsInv
<1> QED  BY <1>2, <1>4 DEF TablesInv

LEMMA AnsweredTables ==
  ASSUME KeyInv, TablesInv, NEW c, NEW reply, CallAnswered(c, reply), Made' = Made,
         \/ reply \in {Garbled, HttpError}
         \/ ShowsTable(items, job[c], {}, reply.body),
         \A d \in Made : seen[d] \subseteq seen'[d],
         \A d \in DOMAIN awaiting : items' \in seen'[d],
         IsFiniteSet(DOMAIN items'), \A u \in DOMAIN items' : IsFields(items'[u].fields)
  PROVE  TablesInv'
<1>1. UNCHANGED <<awaiting, job, result>> /\ \A d : Posts(d)' = Posts(d)
  BY DEF CallAnswered, Posts
<1>2. FieldsInv'
  BY <1>1 DEF TablesInv, FieldsInv
<1>3. SeenInv'
  BY <1>1 DEF TablesInv, SeenInv
<1>4. ASSUME NEW d \in DOMAIN replies'
      PROVE  \/ replies'[d] \in {Garbled, HttpError}
             \/ \E table \in seen'[d] : ShowsTable(table, job[d], {}, replies'[d].body)
  <2>1. CASE d = c /\ d \in DOMAIN awaiting /\ replies'[d] = reply
    <3>1. items \in seen'[d]
      BY <2>1, HeardAreMade DEF TablesInv, SeenInv
    <3> QED  BY <2>1, <3>1
  <2>2. CASE d \in DOMAIN replies /\ replies'[d] = replies[d]
    <3>1. \/ replies[d] \in {Garbled, HttpError}
          \/ \E table \in seen[d] : ShowsTable(table, job[d], {}, replies[d].body)
      BY <2>2 DEF TablesInv, SnapshotsInv
    <3>2. seen[d] \subseteq seen'[d]
      BY <2>2, HeardAreMade
    <3> QED  BY <2>2, <3>1, <3>2
  <2> QED  BY <2>1, <2>2 DEF CallAnswered
<1>5. ASSUME NEW d \in DOMAIN result'
      PROVE  \E table \in seen'[d] : ShowsTable(table, job[d], KeyFields(job[d].kind.path), result'[d])
  <2>1. d \in DOMAIN result /\ result'[d] = result[d] /\ seen[d] \subseteq seen'[d]
    BY <1>1, HeardAreMade
  <2>2. \E table \in seen[d] : ShowsTable(table, job[d], KeyFields(job[d].kind.path), result[d])
    BY <2>1 DEF TablesInv, SnapshotsInv
  <2> QED  BY <2>1, <2>2
<1>6. SnapshotsInv'
  BY <1>1, <1>4, <1>5 DEF SnapshotsInv
<1> QED  BY <1>2, <1>3, <1>6 DEF TablesInv

-----------------------------------------------------------------------------
(* The calls. *)

LEMMA CallTables ==
  ASSUME KeyInv, TablesInv, NEW c \in Call, NEW kind \in Offered, NEW uuid,
         \/ Read(c, kind) \/ Add(c, kind) \/ Rotate(c, kind, uuid) \/ Delete(c, kind, uuid)
         \/ \E g \in Call : Edit(c, g, kind, uuid)
  PROVE  TablesInv'
<1> DEFINE fields == Object(c, kind.secrets)
           data == Under(kind.wrapper, Dict(fields))
<1>1. CASE Ask(c, kind, "add", None, data)
  <2>1. data.of[kind.wrapper].of = fields
    BY DEF Under, Dict
  <2>2. IsFields(fields)
    BY DEF IsFields, Object
  <2> HIDE DEF data, fields
  <2> QED  BY <1>1, <2>1, <2>2, AskTables
<1>2. CASE \E does, id, posted : does # "add" /\ Ask(c, kind, does, id, posted)
  BY <1>2, AskTables
<1>3. Read(c, kind) => \E does, id, posted : does # "add" /\ Ask(c, kind, does, id, posted)
  BY DEF Read
<1> HIDE DEF data
<1>4. Add(c, kind) =>
        \/ Ask(c, kind, "add", None, data)
        \/ \E does, id, posted : does # "add" /\ Ask(c, kind, does, id, posted)
  BY DEF Add, data
<1>5. Rotate(c, kind, uuid) \/ Delete(c, kind, uuid) \/ (\E g \in Call : Edit(c, g, kind, uuid)) =>
        \E does, id, posted : does # "add" /\ Ask(c, kind, does, id, posted)
  BY DEF Rotate, Delete, Edit
<1> QED  BY <1>1, <1>2, <1>3, <1>4, <1>5

-----------------------------------------------------------------------------
(* The firewall's answers. *)

LEMMA RowsList ==
  ASSUME TablesInv, NEW path, NEW rows \in Rows(ObjectsOf(items, path))
  PROVE  ListsObjects(items, ObjectsOf(items, path), {}, Under("rows", rows))
<1> DEFINE objects == ObjectsOf(items, path)
           n == Cardinality(objects)
<1>1. objects \subseteq DOMAIN items /\ IsFiniteSet(DOMAIN items)
  BY DEF ObjectsOf, TablesInv, FieldsInv
<1>2. n \in Nat
  BY <1>1, FS_Subset, FS_CardinalityType
<1>3. \A u \in objects : Dict(items[u].fields) = Without(items[u], {})
  BY <1>1 DEF TablesInv, FieldsInv, IsFields, Without
<1> HIDE DEF n, objects
<1>4. PICK order \in [1..n -> objects] :
        /\ \A u \in objects : \E i \in DOMAIN order : order[i] = u
        /\ rows = List([i \in DOMAIN order |-> Dict(items[order[i]].fields)])
  BY DEF Rows, objects, n
<1>5. DOMAIN order = 1..n /\ \A i \in 1..n : order[i] \in objects
  OBVIOUS
<1>6. rows.type = "list" /\ rows.of = [i \in 1..n |-> Dict(items[order[i]].fields)]
  BY <1>4, <1>5 DEF List
<1>7. rows.of = [i \in 1..n |-> rows.of[i]] /\ DOMAIN rows.of = 1..n
      /\ \A i \in 1..n : rows.of[i] = Without(items[order[i]], {})
  BY <1>3, <1>5, <1>6
<1>8. {rows.of[i] : i \in 1..n} = {Without(items[u], {}) : u \in objects}
  BY <1>4, <1>5, <1>7
<1>9. HasRows(Under("rows", rows)) /\ Under("rows", rows).of["rows"] = rows
  BY <1>6, WrappedFacts DEF HasRows, Wraps
<1> QED  BY <1>2, <1>7, <1>8, <1>9 DEF ListsObjects, n, objects

LEMMA ShownIsTheTable ==
  ASSUME KeyInv, TablesInv, NEW r \in wire, NEW resp \in Shown(r)
  PROVE  ShowsTable(items, job[r.req_id], {}, resp)
<1> DEFINE call == job[r.req_id]
           path == call.kind.path
           objects == ObjectsOf(items, path)
<1>1. r.path[1] = path /\ r.path[2] = call.does /\ r.path[3] = call.uuid
      /\ Wrapper(path) = call.kind.wrapper
  BY RequestFacts
<1>2. Having(path) = objects
  BY DEF Having, ObjectsOf
<1>3. CASE call.does \in {"list", "search"}
  <2>1. PICK rows \in Rows(objects) : resp = Under("rows", rows)
    BY <1>1, <1>2, <1>3 DEF Shown
  <2> QED  BY <1>3, <2>1, RowsList DEF ShowsTable
<1>4. CASE call.does = "get"
  <2>1. resp = IF call.uuid \in objects
                 THEN Under(Wrapper(path), Dict(items[call.uuid].fields)) ELSE NotFound
    BY <1>1, <1>2, <1>4 DEF Shown
  <2>2. ASSUME NEW u \in objects PROVE Dict(items[u].fields) = Without(items[u], {})
    BY DEF ObjectsOf, TablesInv, FieldsInv, IsFields, Without
  <2> QED  BY <1>1, <1>4, <2>1, <2>2 DEF ShowsTable
<1>5. CASE call.does \notin {"list", "search", "get"}
  BY <1>5 DEF ShowsTable
<1> QED  BY <1>3, <1>4, <1>5

LEMMA WriteTables ==
  ASSUME KeyInv, TablesInv, NEW r \in wire, NEW reply, Write(r, reply)
  PROVE  IsFiniteSet(DOMAIN items') /\ \A u \in DOMAIN items' : IsFields(items'[u].fields)
<1> DEFINE c == r.req_id
           Kept == IsFiniteSet(DOMAIN items') /\ \A u \in DOMAIN items' : IsFields(items'[u].fields)
<1>1. /\ c \in Made
      /\ r.path[2] = job[c].does /\ r.data = job[c].data
      /\ Posted(r) = Posts(c)
  BY RequestFacts DEF Posted, Posts
<1>2. IsFiniteSet(DOMAIN items) /\ \A u \in DOMAIN items : IsFields(items[u].fields)
  BY DEF TablesInv, FieldsInv
<1>3. ASSUME NEW u, NEW fields, Stores(u, r.path[1], fields), IsFields(fields) PROVE Kept
  <2>1. DOMAIN items' = DOMAIN items \cup {u} /\ items'[u].fields = fields
        /\ \A x \in DOMAIN items : x # u => items'[x] = items[x]
    BY <1>3 DEF Stores, Put
  <2>2. IsFiniteSet(DOMAIN items')
    BY <1>2, <2>1, FS_AddElement
  <2> QED  BY <1>2, <1>3, <2>1, <2>2
<1>4. CASE job[c].does = "add"
  <2>1. IsFields(Posts(c)) /\ Stores(c, r.path[1], Posts(c))
    BY <1>1, <1>4 DEF Write, TablesInv, FieldsInv
  <2> QED  BY <1>3, <2>1
<1>5. CASE job[c].does = "issue"
  <2>1. \E fields \in {{}, KeyFields(r.path[1])} : Stores(c, r.path[1], Object(c, fields))
    BY <1>1, <1>5 DEF Write
  <2>2. \A fields : IsFields(Object(c, fields))
    BY DEF IsFields, Object
  <2> QED  BY <1>3, <2>1, <2>2
<1>6. CASE job[c].does = "set"
  <2>1. Stores(r.path[3], r.path[1], Merge(Posts(c), items[r.path[3]].fields))
    BY <1>1, <1>6 DEF Write
  <2>2. \A d, e : IsFields(Merge(d, e))
    BY DEF IsFields, Merge
  <2> QED  BY <1>3, <2>1, <2>2
<1>7. CASE job[c].does = "del"
  <2>1. items' = Drop(items, r.path[3])
    BY <1>1, <1>7 DEF Write
  <2>2. DOMAIN items' \subseteq DOMAIN items /\ \A u \in DOMAIN items' : items'[u] = items[u]
    BY <2>1 DEF Drop
  <2>3. IsFiniteSet(DOMAIN items')
    BY <1>2, <2>2, FS_Subset
  <2> QED  BY <1>2, <2>2, <2>3
<1> QED  BY <1>1, <1>4, <1>5, <1>6, <1>7 DEF Write

LEMMA FirewallTables ==
  ASSUME KeyInv, TablesInv, NEW r \in wire, Firewall(r)
  PROVE  TablesInv'
<1> DEFINE c == r.req_id
           Allowed(reply) == reply \in {Garbled, HttpError} \/ ShowsTable(items, job[c], {}, reply.body)
<1>1. UNCHANGED <<stage, job, result>> /\ UNCHANGED awaiting
  BY DEF Firewall, AnswerRead, AnswerWrite, Answer
<1>2. \A body : Ok(body).body = body
  BY DEF Ok
<1>3. r.path[2] = job[c].does
  BY RequestFacts
<1>4. ASSUME NEW reply, Answer(r, reply), Allowed(reply), UNCHANGED <<items, seen>>
      PROVE  TablesInv'
  <2>1. Made' = Made
    BY <1>4 DEF Made
  <2>2. IsFiniteSet(DOMAIN items') /\ \A u \in DOMAIN items' : IsFields(items'[u].fields)
    BY <1>4 DEF TablesInv, FieldsInv
  <2>3. (\A d \in Made : seen[d] \subseteq seen'[d]) /\ \A d \in DOMAIN awaiting : items' \in seen'[d]
    BY <1>4 DEF TablesInv, SeenInv
  <2> QED  BY <1>1, <1>4, <2>1, <2>2, <2>3, AnswerAnswers, AnsweredTables
<1>5. CASE AnswerRead(r)
  <2>1. PICK reply : Answer(r, reply) /\ (reply \in {Garbled, HttpError} \/ \E resp \in Shown(r) : reply = Ok(resp))
    BY <1>5 DEF AnswerRead
  <2>2. Allowed(reply)
    BY <1>2, <2>1, ShownIsTheTable
  <2> QED  BY <1>4, <1>5, <2>1, <2>2 DEF AnswerRead
<1>6. ASSUME job[c].does \notin {"list", "search", "get"}, NEW v PROVE ShowsTable(items, job[c], {}, v)
  BY <1>6 DEF ShowsTable
<1>7. CASE ~Reads(r) /\ (\E reply \in {Ok(Failed), Garbled, HttpError} : Answer(r, reply)) /\ UNCHANGED <<items, seen>>
  <2>1. PICK reply \in {Ok(Failed), Garbled, HttpError} : Answer(r, reply)
    BY <1>7
  <2>2. job[c].does \notin {"list", "search", "get"}
    BY <1>3, <1>7 DEF Reads
  <2> QED  BY <1>4, <1>6, <1>7, <2>1, <2>2
<1>8. CASE (\E reply \in {Saved, Under("private_key", Key(r.req_id))} :
               Write(r, reply) /\ \E sent \in {Ok(reply), Garbled, HttpError} : Answer(r, sent))
           /\ Changed
  <2>1. PICK reply, sent : Write(r, reply) /\ Answer(r, sent)
    BY <1>8
  <2>2. job[c].does \notin {"list", "search", "get"}
    BY <1>3, <2>1 DEF Write
  <2>3. IsFiniteSet(DOMAIN items') /\ \A u \in DOMAIN items' : IsFields(items'[u].fields)
    BY <2>1, WriteTables
  <2>4. Made' = Made /\ (\A d \in Made : seen[d] \subseteq seen'[d])
        /\ \A d \in DOMAIN awaiting : items' \in seen'[d]
    BY <1>8, HeardAreMade DEF Changed, Made
  <2> QED  BY <1>1, <1>6, <2>1, <2>2, <2>3, <2>4, AnswerAnswers, AnsweredTables
<1> QED  BY <1>5, <1>7, <1>8 DEF Firewall, AnswerWrite

-----------------------------------------------------------------------------

KeyHistoryInv == KeyInv /\ OriginInv /\ TablesInv

LEMMA InitKeyHistory == KeyInit => KeyHistoryInv
<1> SUFFICES ASSUME KeyInit PROVE KeyHistoryInv
  OBVIOUS
<1>1. DOMAIN seen = {} /\ DOMAIN result = {} /\ DOMAIN awaiting = {} /\ DOMAIN replies = {}
  BY DEF KeyInit, ClientInit, EmptyDict
<1>2. PICK kind \in Offered : items = Put(EmptyDict, Old,
                 [path |-> kind.path, fields |-> Object(Old, KeyFields(kind.path))])
  BY DEF KeyInit
<1>3. DOMAIN items = {Old} /\ items[Old].fields = Object(Old, KeyFields(kind.path))
  BY <1>2 DEF Put, EmptyDict
<1>4. \A f \in DOMAIN items[Old].fields : items[Old].fields[f] \in {Public(Old), Key(Old)}
  BY <1>3 DEF Object
<1>5. KeptBy(items[Old].fields, Storers)
  BY <1>4, KeysAreText, KeysDiffer, OldAssumption DEF KeptBy
<1>6. OriginInv
  BY <1>1, <1>3, <1>5 DEF OriginInv, Made
<1>7. IsFields(items[Old].fields)
  BY <1>3 DEF IsFields, Object
<1>8. IsFiniteSet(DOMAIN items)
  BY <1>3, FS_Singleton
<1>9. TablesInv
  BY <1>1, <1>3, <1>7, <1>8 DEF TablesInv, FieldsInv, SeenInv, SnapshotsInv, Made
<1> QED  BY <1>6, <1>9, InitKeyInv DEF KeyHistoryInv

LEMMA NextKeyHistory == KeyHistoryInv /\ [KeyNext]_keyVars => KeyHistoryInv'
<1> SUFFICES ASSUME KeyInv, OriginInv, TablesInv, [KeyNext]_keyVars
             PROVE  KeyInv' /\ OriginInv' /\ TablesInv'
  BY DEF KeyHistoryInv
<1>1. KeyInv'
  BY NextKeyInv
<1>2. ASSUME NEW c \in Call, NEW kind \in Offered, Read(c, kind) \/ Add(c, kind)
      PROVE  OriginInv' /\ TablesInv'
  BY <1>2, AddOrigin, OtherCallsOrigin, CallTables
<1>3. ASSUME NEW c \in Call, NEW kind \in Offered, NEW uuid,
             (\E g \in Call : Edit(c, g, kind, uuid)) \/ Rotate(c, kind, uuid) \/ Delete(c, kind, uuid)
      PROVE  OriginInv' /\ TablesInv'
  BY <1>3, EditOrigin, RotateOrigin, OtherCallsOrigin, CallTables
<1>4. CASE CallsEnd
  BY <1>1, <1>4, EndOrigin, EndTables
<1>5. ASSUME NEW r \in wire, Firewall(r) PROVE OriginInv' /\ TablesInv'
  BY <1>5, FirewallOrigin, FirewallTables
<1>6. (\E c \in Call : RefuseUuid(c) \/ Finish(c)) \/ Restart \/ UNCHANGED keyVars => CallsEnd
  BY FinishEnds, OthersEnd
<1> QED  BY <1>1, <1>2, <1>3, <1>4, <1>5, <1>6 DEF KeyNext

LEMMA KeyHistoryInvariance == KeySpec => []KeyHistoryInv
  BY InitKeyHistory, NextKeyHistory, PTL DEF KeySpec

(* What a list, a search or a get returns is every object of the kind as the
   firewall had it at one moment while the call ran, each once, without the
   fields that hold keys and with all others (redaction.py:14-41). *)
THEOREM EveryReadIsASnapshot == KeySpec => []ReadsAreSnapshots
<1>1. KeyHistoryInv => ReadsAreSnapshots
  <2> SUFFICES ASSUME KeyHistoryInv, NEW c \in Answered
               PROVE  \E table \in seen[c] :
                        LET kind == job[c].kind
                            objects == {u \in DOMAIN table : table[u].path = kind.path}
                            rows == result[c].of["rows"].of
                        IN  /\ job[c].does \in {"list", "search"} =>
                                 /\ Len(rows) = Cardinality(objects)
                                 /\ {rows[i] : i \in DOMAIN rows} = {WithoutKeys(table[u]) : u \in objects}
                            /\ job[c].does = "get" =>
                                 IF result[c].type = "list" THEN job[c].uuid \notin objects
                                 ELSE /\ job[c].uuid \in objects
                                      /\ result[c] = Under(kind.wrapper, WithoutKeys(table[job[c].uuid]))
    BY DEF ReadsAreSnapshots
  <2> DEFINE path == job[c].kind.path
             hidden == KeyFields(path)
             v == result[c]
             rows == v.of["rows"].of
  <2>1. PICK table \in seen[c] : ShowsTable(table, job[c], hidden, v)
    BY DEF KeyHistoryInv, TablesInv, SnapshotsInv, KeyInv, CallsInv
  <2> DEFINE objects == {u \in DOMAIN table : table[u].path = path}
  <2>2. \A u \in objects : Without(table[u], hidden) = WithoutKeys(table[u])
    BY DEF Without, WithoutKeys
  <2>3. ObjectsOf(table, path) = objects
    BY DEF ObjectsOf
  <2>4. ASSUME job[c].does \in {"list", "search"}
        PROVE  Len(rows) = Cardinality(objects)
               /\ {rows[i] : i \in DOMAIN rows} = {WithoutKeys(table[u]) : u \in objects}
    <3>1. ListsObjects(table, objects, hidden, v)
      BY <2>1, <2>3, <2>4 DEF ShowsTable
    <3>2. Cardinality(objects) \in Nat /\ rows = [i \in 1..Cardinality(objects) |-> rows[i]]
          /\ {rows[i] : i \in DOMAIN rows} = {Without(table[u], hidden) : u \in objects}
      BY <3>1 DEF ListsObjects
    <3>3. Len(rows) = Cardinality(objects)
      BY <3>2, LengthOf
    <3> HIDE DEF objects, hidden, rows
    <3> QED  BY <2>2, <3>2, <3>3
  <2>5. ASSUME job[c].does = "get"
        PROVE  IF v.type = "list" THEN job[c].uuid \notin objects
               ELSE /\ job[c].uuid \in objects
                    /\ v = Under(job[c].kind.wrapper, WithoutKeys(table[job[c].uuid]))
    <3>1. IF job[c].uuid \in objects
            THEN v = Under(job[c].kind.wrapper, Without(table[job[c].uuid], hidden))
            ELSE v = NotFound
      BY <2>1, <2>3, <2>5 DEF ShowsTable
    <3>2. NotFound.type = "list"
      BY DEF NotFound, List
    <3> QED  BY <2>2, <3>1, <3>2, WrappedFacts
  <2> QED  BY <2>1, <2>4, <2>5
<1> QED  BY KeyHistoryInvariance, <1>1, PTL

(* A key that is generated, or issued to be kept by the caller, is in the
   result of its own call, unless that reports a failure, and in no other's:
   whatever the calls read, edit, add, rotate and export before or after
   (openvpn.py:108-112, ipsec.py:215-221, trust.py:43-48). *)
THEOREM OneShotKeysGoToTheirCallers == KeySpec => []OneShotKeysArrive
<1>1. KeyHistoryInv => OneShotKeysArrive
  BY HeardAreMade DEF KeyHistoryInv, OriginInv, OneShotKeysArrive, Owned, Delivered, Storers,
     KeyInv, CallsInv
<1> QED  BY KeyHistoryInvariance, <1>1, PTL
=============================================================================
