---------------------------- MODULE PortalProofs ----------------------------
(***************************************************************************)
(* Theorems about captiveportal_session_disconnect_zone, for every set of  *)
(* calls, zones and sessions, on every interleaving of their loops.        *)
(*                                                                         *)
(* The invariant is that of the loop: the sessions a call has listed are   *)
(* those still to do, those in the two columns of its report, and the one  *)
(* whose request it is awaiting.  A disconnect is determined by the call   *)
(* and the session (DisconnectRequest), a call by the token it has spent.  *)
(* A session is entered in a column in one step with the record of its     *)
(* request; that nothing of it is still to come when the column is the     *)
(* first is so because what was answered has left the wire (ReportInv).    *)
(***************************************************************************)
EXTENDS CaptivePortal, StoreProofs

Stages == Running \cup {"idle", "previewed", "ok", "tool_error", "raised", "died"}

JobType ==
  [zone_id : Zone, token : Token \cup {None}, listed : SUBSET Sid, todo : SUBSET Sid,
   disconnected : SUBSET Sid, failed : SUBSET Sid]

(* No session is in two places. *)
Settled(j) ==
  /\ j.todo \cup j.disconnected \cup j.failed \subseteq j.listed
  /\ j.todo \cap j.disconnected = {}
  /\ j.todo \cap j.failed = {}
  /\ j.disconnected \cap j.failed = {}

PastGate(c) == stage[c] \in {"listing", "disconnecting", "ok"} \/ job[c].listed # {}

SpentBy(c) ==
  /\ job[c].token \in DOMAIN issued
  /\ issued[job[c].token].arguments = Arguments(job[c].zone_id)
  /\ \E i \in DOMAIN ledger : ledger[i].token = job[c].token

JobInv(c) ==
  /\ job[c] \in JobType
  /\ Settled(job[c])
  /\ stage[c] \in {"describing", "listing"} => job[c].listed = {}
  /\ stage[c] = "ok" => job[c].listed = job[c].disconnected \cup job[c].failed
  /\ PastGate(c) => SpentBy(c)

AwaitingInv(c) ==
  /\ stage[c] \in {"describing", "listing"} => awaiting[c] = ListRequest(c, job[c].zone_id)
  /\ stage[c] = "disconnecting" =>
       \E sid \in job[c].listed :
         /\ sid \notin job[c].todo \cup job[c].disconnected \cup job[c].failed
         /\ job[c].listed = job[c].todo \cup job[c].disconnected \cup job[c].failed \cup {sid}
         /\ awaiting[c] = DisconnectRequest(c, sid)

ReplyInv(c) ==
  Returns(c) /\ stage[c] \in {"describing", "listing"} => replies[c].body \subseteq Sid

CallInv(c) ==
  /\ stage[c] \in Stages
  /\ c \in DOMAIN awaiting <=> stage[c] \in Running
  /\ c \in DOMAIN replies => c \in DOMAIN awaiting
  /\ stage[c] \in Running \cup {"ok"} => c \in DOMAIN job
  /\ stage[c] = "idle" => c \notin DOMAIN job
  /\ c \in DOMAIN job => JobInv(c)
  /\ c \in DOMAIN awaiting => AwaitingInv(c)
  /\ c \in DOMAIN replies => ReplyInv(c)

Domains ==
  /\ stage \in [Call -> Stages]
  /\ DOMAIN awaiting \subseteq Call
  /\ DOMAIN replies \subseteq Call
  /\ DOMAIN job \subseteq Call
  /\ sessions \in [Zone -> SUBSET Sid]

(* No two calls have spent the same token. *)
OneCallPerToken ==
  \A c, d \in DOMAIN job :
    PastGate(c) /\ PastGate(d) /\ job[c].token = job[d].token => c = d

DisconnectsInv ==
  \A r \in Disconnects :
    \E c \in DOMAIN job : \E sid \in job[c].listed \ job[c].todo : r = DisconnectRequest(c, sid)

PortalInv ==
  /\ StoreInv
  /\ Domains
  /\ \A c \in Call : CallInv(c)
  /\ OneCallPerToken
  /\ DisconnectsInv

-----------------------------------------------------------------------------

LEMMA ArgumentsTyped == \A zone \in Zone : Arguments(zone) \in Args
  BY ArgsAssumption DEF Arguments

(* What a step of the tool does to the store is a step of the store. *)
LEMMA StepsOfStore ==
  ASSUME PortalInv, [PortalNext]_portalVars
  PROVE  [StoreNext]_storeVars
  <1>1. ASSUME NEW c \in Call, NEW t \in Token, Preview(c, t)
        PROVE  StoreNext
    <2>1. stage[c] = "describing" /\ Create(t, ToolName, Arguments(job[c].zone_id))
      BY <1>1 DEF Preview, Moves
    <2>2. job[c].zone_id \in Zone
      BY <2>1 DEF PortalInv, CallInv, JobInv, JobType, Running
    <2> QED
      BY <2>1, <2>2, ArgumentsTyped, ToolAssumption DEF StoreNext, StoreCall
  <1>2. ASSUME NEW c \in Call, NEW zone \in Zone, NEW t \in Token,
               Confirm(c, zone, t) \/ RefuseToken(c, zone, t)
        PROVE  StoreNext
    BY <1>2, ArgumentsTyped, ToolAssumption DEF Confirm, RefuseToken, StoreNext, StoreCall
  <1>3. ASSUME NEW c \in Call,
               \/ ListFails(c) \/ EntersLoop(c) \/ Disconnected(c) \/ DisconnectFails(c)
               \/ Aborts(c) \/ \E zone \in Zone : Describe(c, zone)
        PROVE  UNCHANGED storeVars
    BY <1>3 DEF ListFails, EntersLoop, Disconnected, DisconnectFails, Aborts, Describe, Iterates
  <1>4. CASE (\E r \in wire : Firewall(r)) \/ UNCHANGED portalVars
    BY <1>4 DEF Firewall, portalVars
  <1>5. CASE \E zone \in Zone, sid \in Sid : UsersComeAndGo(zone, sid)
    BY <1>5 DEF UsersComeAndGo
  <1>6. CASE TimePasses \/ Restart
    BY <1>6 DEF TimePasses, Restart, StoreNext
  <1> QED
    BY <1>1, <1>2, <1>3, <1>4, <1>5, <1>6 DEF PortalNext, Proceed

(* A step that is not of a call leaves it alone. *)
Untouched(c) ==
  /\ stage'[c] = stage[c]
  /\ (c \in DOMAIN job' <=> c \in DOMAIN job) /\ (c \in DOMAIN job => job'[c] = job[c])
  /\ (c \in DOMAIN awaiting' <=> c \in DOMAIN awaiting)
  /\ (c \in DOMAIN awaiting => awaiting'[c] = awaiting[c])
  /\ (c \in DOMAIN replies' <=> c \in DOMAIN replies)
  /\ (c \in DOMAIN replies => replies'[c] = replies[c])

LEMMA UntouchedKeeps ==
  ASSUME StoreInv, [StoreNext]_storeVars, NEW c \in Call, CallInv(c), Untouched(c)
  PROVE  CallInv(c)'
  <1>1. c \in DOMAIN job => JobInv(c)'
    BY StoreGrows DEF CallInv, Untouched, JobInv, PastGate, SpentBy, Arguments,
                      DisconnectRequest
  <1>2. c \in DOMAIN awaiting => AwaitingInv(c)'
    BY DEF CallInv, Untouched, AwaitingInv, Running, DisconnectRequest, ListRequest
  <1>3. c \in DOMAIN replies => ReplyInv(c)'
    BY DEF CallInv, Untouched, ReplyInv, Returns
  <1> QED
    BY <1>1, <1>2, <1>3 DEF CallInv, Untouched

(* A step of one call that carries nothing out: it is enough to look at that
   call. *)
LEMMA CallStep ==
  ASSUME PortalInv, [StoreNext]_storeVars, Domains', NEW c \in Call,
         \A d \in Call : d # c => Untouched(d),
         CallInv(c)', OneCallPerToken', DisconnectsInv', performed' = performed
  PROVE  PortalInv'
  <1>1. StoreInv'
    BY NextInv DEF PortalInv
  <1>2. ASSUME NEW d \in Call
        PROVE  CallInv(d)'
    <2>1. CASE d = c
      BY <2>1
    <2>2. CASE d # c
      BY <2>2, UntouchedKeeps DEF PortalInv
    <2> QED
      BY <2>1, <2>2
  <1> QED
    BY <1>1, <1>2 DEF PortalInv

(* The disconnects stay those of their calls as long as none is added. *)
LEMMA DisconnectsKeep ==
  ASSUME DisconnectsInv, Disconnects' \subseteq Disconnects,
         \A c \in DOMAIN job : c \in DOMAIN job' /\ job'[c] = job[c]
  PROVE  DisconnectsInv'
  BY DEF DisconnectsInv, DisconnectRequest

LEMMA EndKeeps ==
  ASSUME PortalInv, [StoreNext]_storeVars, NEW c \in Call, stage[c] \in Running,
         NEW s \in {"previewed", "tool_error", "raised"},
         stage' = [stage EXCEPT ![c] = s],
         awaiting' = Drop(awaiting, c), replies' = Drop(replies, c),
         wire' \subseteq wire, UNCHANGED <<job, sessions, performed>>
  PROVE  PortalInv'
  <1>1. /\ stage'[c] = s
        /\ \A d \in Call : d # c => stage'[d] = stage[d]
        /\ c \notin DOMAIN awaiting' /\ c \notin DOMAIN replies'
        /\ s \in Stages
        /\ DOMAIN awaiting' \subseteq DOMAIN awaiting
        /\ DOMAIN replies' \subseteq DOMAIN replies
    BY DEF Drop, PortalInv, Domains, Stages
  <1>2. Domains'
    BY <1>1 DEF PortalInv, Domains
  <1>3. \A d \in Call : d # c => Untouched(d)
    BY <1>1 DEF Drop, Untouched
  <1>4. CallInv(c)'
    <2>1. CallInv(c) /\ c \in DOMAIN job
      BY DEF PortalInv, CallInv
    <2>2. JobInv(c)'
      BY <1>1, <2>1, StoreGrows DEF PortalInv, CallInv, JobInv, PastGate, SpentBy, Arguments,
                                   DisconnectRequest, Running
    <2> QED
      BY <1>1, <2>1, <2>2 DEF CallInv, Running
  <1>5. OneCallPerToken'
    BY <1>1 DEF PortalInv, Domains, OneCallPerToken, PastGate
  <1>6. DisconnectsInv'
    BY DisconnectsKeep DEF PortalInv, Disconnects
  <1> QED
    BY <1>2, <1>3, <1>4, <1>5, <1>6, CallStep

(* A list that could not be had ends the call, and so does any exception the
   client does not know. *)
LEMMA EndInv ==
  ASSUME PortalInv, NEW c \in Call,
         (\E t \in Token : Preview(c, t)) \/ ListFails(c) \/ Aborts(c)
  PROVE  PortalInv'
  <1>1. [StoreNext]_storeVars
    BY StepsOfStore DEF PortalNext, Proceed
  <1>2. ASSUME NEW t \in Token, Preview(c, t)
        PROVE  PortalInv'
    BY <1>1, <1>2, EndKeeps DEF Preview, Moves, Succeed, Resume, Running
  <1>3. CASE ListFails(c)
    <2>1. awaiting' = Drop(awaiting, c) /\ replies' = Drop(replies, c) /\ wire' \subseteq wire
      BY <1>3 DEF ListFails, RaisesToolError, Refused, ConnectFails, ReadTimesOut, Resume
    <2> QED
      BY <1>1, <1>3, <2>1, EndKeeps DEF ListFails, Running
  <1>4. CASE Aborts(c)
    <2>1. /\ awaiting' = Drop(awaiting, c) /\ replies' = Drop(replies, c) /\ wire' \subseteq wire
          /\ c \in DOMAIN awaiting
      BY <1>4 DEF Aborts, RaisesOther, BodyIsNoJson, Escapes, Resume
    <2>2. stage[c] \in Running
      BY <2>1 DEF PortalInv, CallInv
    <2> QED
      BY <1>1, <1>4, <2>1, <2>2, EndKeeps DEF Aborts
  <1> QED
    BY <1>2, <1>3, <1>4

(* A call starts by asking for the list: to describe what it would do, or past
   the gate with a token nobody has spent. *)
LEMMA StartKeeps ==
  ASSUME PortalInv, [StoreNext]_storeVars, NEW c \in Call, NEW zone \in Zone,
         NEW token \in Token \cup {None}, NEW s \in {"describing", "listing"},
         stage[c] = "idle", stage' = [stage EXCEPT ![c] = s],
         job' = Put(job, c, Job(zone, token)), Send(c, ListRequest(c, zone)),
         UNCHANGED <<sessions, performed>>,
         s = "listing" =>
           /\ token \in DOMAIN issued'
           /\ issued'[token].arguments = Arguments(zone)
           /\ \E i \in DOMAIN ledger' : ledger'[i].token = token
           /\ \A i \in DOMAIN ledger : ledger[i].token # token
  PROVE  PortalInv'
  <1> DEFINE j == Job(zone, token)
             r == ListRequest(c, zone)
  <1>0. /\ j \in JobType /\ j.zone_id = zone /\ j.token = token
        /\ j.listed = {} /\ j.todo = {} /\ j.disconnected = {} /\ j.failed = {}
        /\ r.method = "GET"
    BY DEF Job, JobType, ListRequest, Request
  <1>1. /\ job' = Put(job, c, j)
        /\ awaiting' = Put(awaiting, c, r) /\ wire' = wire \cup {r} /\ replies' = replies
        /\ c \notin DOMAIN awaiting
    BY DEF Send
  <1>2. r = ListRequest(c, j.zone_id)
    BY <1>0
  <1> HIDE DEF j, r
  <1>3. /\ stage'[c] = s
        /\ \A d \in Call : d # c => stage'[d] = stage[d]
        /\ DOMAIN job' = DOMAIN job \cup {c} /\ job'[c] = j
        /\ \A d \in DOMAIN job : d # c => job'[d] = job[d]
        /\ DOMAIN awaiting' = DOMAIN awaiting \cup {c} /\ awaiting'[c] = r
        /\ \A d \in DOMAIN awaiting : d # c => awaiting'[d] = awaiting[d]
    BY <1>1 DEF Put, PortalInv, Domains
  <1>4. c \notin DOMAIN job /\ c \notin DOMAIN replies
    BY DEF PortalInv, CallInv, Running
  <1>5. Domains'
    BY <1>1, <1>3 DEF PortalInv, Domains, Stages, Running
  <1>6. \A d \in Call : d # c => Untouched(d)
    BY <1>1, <1>3 DEF Untouched
  <1>7. CallInv(c)'
    <2>1. JobInv(c)'
      BY <1>0, <1>3 DEF JobInv, Settled, PastGate, SpentBy, Arguments
    <2>2. AwaitingInv(c)'
      BY <1>2, <1>3 DEF AwaitingInv, ListRequest
    <2> QED
      BY <1>1, <1>3, <1>4, <2>1, <2>2 DEF CallInv, Running, Stages
  <1>8. OneCallPerToken'
    <2>1. ASSUME NEW d \in DOMAIN job, d # c, s = "listing", PastGate(d)
          PROVE  job[d].token # token
      BY <2>1 DEF PortalInv, Domains, CallInv, JobInv, SpentBy
    <2> QED
      BY <1>0, <1>3, <2>1 DEF PortalInv, Domains, OneCallPerToken, PastGate
  <1>9. DisconnectsInv'
    <2>1. Disconnects' \subseteq Disconnects
      BY <1>0, <1>1 DEF Disconnects
    <2> QED
      BY <1>3, <1>4, <2>1, DisconnectsKeep DEF PortalInv
  <1> QED
    BY <1>5, <1>6, <1>7, <1>8, <1>9, CallStep

LEMMA StartInv ==
  ASSUME PortalInv, NEW c \in Call, NEW zone \in Zone,
         Describe(c, zone) \/ \E t \in Token : Confirm(c, zone, t)
  PROVE  PortalInv'
  <1>1. [StoreNext]_storeVars
    BY StepsOfStore DEF PortalNext
  <1>2. CASE Describe(c, zone)
    BY <1>1, <1>2, StartKeeps DEF Describe, Moves
  <1>3. ASSUME NEW t \in Token, Confirm(c, zone, t)
        PROVE  PortalInv'
    <2>1. /\ t \in DOMAIN issued'
          /\ issued'[t].arguments = Arguments(zone)
          /\ \E i \in DOMAIN ledger' : ledger'[i].token = t
          /\ \A i \in DOMAIN ledger : ledger[i].token # t
      BY <1>3, ConsumeSpends, ArgumentsTyped, ToolAssumption DEF Confirm, PortalInv
    <2> QED
      BY <1>1, <1>3, <2>1, StartKeeps DEF Confirm, Moves
  <1> QED
    BY <1>2, <1>3

LEMMA RefuseTokenInv ==
  ASSUME PortalInv, NEW c \in Call, NEW zone \in Zone, NEW t \in Token, RefuseToken(c, zone, t)
  PROVE  PortalInv'
  <1>1. /\ [StoreNext]_storeVars
        /\ stage[c] = "idle" /\ stage' = [stage EXCEPT ![c] = "tool_error"]
        /\ UNCHANGED <<job, sessions, performed>>
        /\ awaiting' = awaiting /\ replies' = replies /\ wire' = wire
    BY StepsOfStore DEF PortalNext, RefuseToken, Moves, clientVars
  <1>2. /\ stage'[c] = "tool_error"
        /\ \A d \in Call : d # c => stage'[d] = stage[d]
        /\ c \notin DOMAIN job
    BY <1>1 DEF PortalInv, Domains, CallInv
  <1>3. Domains'
    BY <1>1 DEF PortalInv, Domains, Stages
  <1>4. \A d \in Call : d # c => Untouched(d)
    BY <1>1, <1>2 DEF Untouched
  <1>5. CallInv(c)'
    BY <1>1, <1>2 DEF PortalInv, CallInv, Stages, Running
  <1>6. OneCallPerToken'
    BY <1>1, <1>2 DEF PortalInv, Domains, OneCallPerToken, PastGate
  <1>7. DisconnectsInv'
    BY <1>1, DisconnectsKeep DEF PortalInv, Disconnects
  <1> QED
    BY <1>1, <1>3, <1>4, <1>5, <1>6, <1>7, CallStep

-----------------------------------------------------------------------------
(* The loop.                                                                 *)

(* What is next, if anything, is of what is to do, and a single request. *)
LEMMA HeadsFacts ==
  ASSUME NEW todo, NEW next \in Heads(todo)
  PROVE  \/ todo = {} /\ next = {}
         \/ \E sid \in todo : next = {sid}
  BY DEF Heads

(* From a request that is over, the loop goes on with j: what the iteration
   has made of the local variables, before it takes the next session. *)
LEMMA LoopKeeps ==
  ASSUME PortalInv, NEW c \in Call, stage[c] \in {"listing", "disconnecting"},
         NEW j \in JobType, Settled(j),
         j.listed = j.todo \cup j.disconnected \cup j.failed,
         j.zone_id = job[c].zone_id, j.token = job[c].token,
         job[c].listed \ job[c].todo \subseteq j.listed \ j.todo,
         NEW next \in Heads(j.todo),
         Resume(c, Requests(c, next)), wire' \subseteq wire \cup Requests(c, next),
         Iterates(c, next, j)
  PROVE  PortalInv'
  <1> DEFINE k == [j EXCEPT !.todo = j.todo \ next]
  <1>0. /\ k \in JobType /\ k.zone_id = j.zone_id /\ k.token = j.token
        /\ k.listed = j.listed /\ k.todo = j.todo \ next
        /\ k.disconnected = j.disconnected /\ k.failed = j.failed
    BY DEF JobType
  <1>1. /\ job' = [job EXCEPT ![c] = k]
        /\ stage' = [stage EXCEPT ![c] = IF next = {} THEN "ok" ELSE "disconnecting"]
        /\ UNCHANGED <<storeVars, sessions, performed>>
        /\ replies' = Drop(replies, c)
        /\ c \in DOMAIN awaiting
    BY DEF Iterates, Resume
  <1> HIDE DEF k
  <1>2. /\ [StoreNext]_storeVars
        /\ CallInv(c) /\ c \in DOMAIN job /\ JobInv(c) /\ SpentBy(c) /\ PastGate(c)
    BY <1>1 DEF PortalInv, CallInv, JobInv, PastGate
  <1>3. /\ DOMAIN job' = DOMAIN job /\ job'[c] = k
        /\ \A d \in DOMAIN job : d # c => job'[d] = job[d]
        /\ stage'[c] = IF next = {} THEN "ok" ELSE "disconnecting"
        /\ \A d \in Call : d # c => stage'[d] = stage[d]
        /\ DOMAIN replies' = DOMAIN replies \ {c}
        /\ \A d \in DOMAIN replies' : replies'[d] = replies[d]
    BY <1>1, <1>2 DEF Drop, PortalInv, Domains
  <1>4. \A sid : DisconnectRequest(c, sid)' = DisconnectRequest(c, sid)
    BY <1>0, <1>3 DEF DisconnectRequest
  <1>5. \/ /\ next = {} /\ j.todo = {} /\ Requests(c, next) = {}
           /\ DOMAIN awaiting' = DOMAIN awaiting \ {c}
           /\ \A d \in DOMAIN awaiting' : awaiting'[d] = awaiting[d]
        \/ \E sid \in j.todo :
             /\ next = {sid} /\ Requests(c, next) = {DisconnectRequest(c, sid)}
             /\ DOMAIN awaiting' = DOMAIN awaiting
             /\ awaiting'[c] = DisconnectRequest(c, sid)
             /\ \A d \in DOMAIN awaiting : d # c => awaiting'[d] = awaiting[d]
    <2>1. CASE j.todo = {} /\ next = {}
      <3>1. Requests(c, next) = {}
        BY <2>1 DEF Requests
      <3> QED
        BY <2>1, <3>1 DEF Resume, Drop
    <2>2. ASSUME NEW sid \in j.todo, next = {sid}
          PROVE  /\ Requests(c, next) = {DisconnectRequest(c, sid)}
                 /\ DOMAIN awaiting' = DOMAIN awaiting
                 /\ awaiting'[c] = DisconnectRequest(c, sid)
                 /\ \A d \in DOMAIN awaiting : d # c => awaiting'[d] = awaiting[d]
      <3> DEFINE r == DisconnectRequest(c, sid)
      <3>1. Requests(c, next) = {r}
        BY <2>2 DEF Requests
      <3> HIDE DEF r
      <3>2. awaiting' = Put(awaiting, c, r)
        BY <3>1 DEF Resume
      <3>3. /\ DOMAIN awaiting' = DOMAIN awaiting /\ awaiting'[c] = r
            /\ \A d \in DOMAIN awaiting : d # c => awaiting'[d] = awaiting[d]
        BY <1>1, <3>2 DEF Put
      <3> QED
        BY <3>1, <3>3 DEF r
    <2> QED
      BY <2>1, <2>2, HeadsFacts
  <1>6. Domains'
    BY <1>1, <1>3, <1>5 DEF PortalInv, Domains, Stages, Running
  <1>7. \A d \in Call : d # c => Untouched(d)
    BY <1>3, <1>5 DEF Untouched
  <1>8. CallInv(c)'
    <2>1. next \subseteq j.todo
      BY <1>5
    <2>2. Settled(k) /\ (next = {} => k.listed = k.disconnected \cup k.failed)
      BY <1>0, <1>5, <2>1 DEF Settled
    <2>3. SpentBy(c)'
      BY <1>0, <1>1, <1>2, <1>3 DEF SpentBy, Arguments, storeVars
    <2>4. JobInv(c)'
      BY <1>0, <1>3, <2>2, <2>3 DEF JobInv
    <2>5. c \in DOMAIN awaiting' => AwaitingInv(c)'
      <3> SUFFICES ASSUME c \in DOMAIN awaiting' PROVE AwaitingInv(c)'
        OBVIOUS
      <3>1. PICK sid \in j.todo : next = {sid} /\ awaiting'[c] = DisconnectRequest(c, sid)
        BY <1>5
      <3>2. awaiting'[c] = DisconnectRequest(c, sid)'
        BY <1>4, <3>1
      <3>3. /\ sid \in k.listed
            /\ sid \notin k.todo \cup k.disconnected \cup k.failed
            /\ k.listed = k.todo \cup k.disconnected \cup k.failed \cup {sid}
        BY <1>0, <3>1 DEF Settled
      <3> QED
        BY <1>3, <3>1, <3>2, <3>3 DEF AwaitingInv
    <2> QED
      BY <1>2, <1>3, <1>5, <2>4, <2>5 DEF CallInv, Running, Stages
  <1>9. OneCallPerToken'
    BY <1>0, <1>2, <1>3 DEF PortalInv, Domains, OneCallPerToken, PastGate
  <1>10. DisconnectsInv'
    <2>1. ASSUME NEW r \in Disconnects
          PROVE  \E d \in DOMAIN job' : \E sid \in job'[d].listed \ job'[d].todo :
                   r = DisconnectRequest(d, sid)'
      <3>0. PICK d \in DOMAIN job :
              \E sid \in job[d].listed \ job[d].todo : r = DisconnectRequest(d, sid)
        BY DEF PortalInv, DisconnectsInv
      <3>1. PICK sid \in job[d].listed \ job[d].todo : r = DisconnectRequest(d, sid)
        BY <3>0
      <3>2. CASE d = c
        BY <1>0, <1>3, <1>4, <3>1, <3>2
      <3>3. CASE d # c
        BY <1>3, <3>1, <3>3 DEF DisconnectRequest
      <3> QED
        BY <3>2, <3>3
    <2>2. ASSUME NEW r \in Requests(c, next)
          PROVE  \E sid \in job'[c].listed \ job'[c].todo : r = DisconnectRequest(c, sid)'
      <3>1. PICK sid \in j.todo : next = {sid} /\ r = DisconnectRequest(c, sid)
        BY <1>5, <2>2
      <3>2. sid \in k.listed \ k.todo
        BY <1>0, <3>1 DEF Settled
      <3> QED
        BY <1>3, <1>4, <3>1, <3>2
    <2>3. Disconnects' \subseteq Disconnects \cup Requests(c, next)
      BY <1>1 DEF Disconnects
    <2> QED
      BY <1>2, <1>3, <2>1, <2>2, <2>3 DEF DisconnectsInv
  <1> QED
    BY <1>1, <1>2, <1>6, <1>7, <1>8, <1>9, <1>10, CallStep

LEMMA EntersLoopInv ==
  ASSUME PortalInv, NEW c \in Call, EntersLoop(c)
  PROVE  PortalInv'
  <1> DEFINE listed == replies[c].body
             j == [job[c] EXCEPT !.listed = listed, !.todo = listed]
  <1>1. PICK next \in Heads(listed) :
          Succeed(c, Requests(c, next), {}) /\ Iterates(c, next, j)
    BY DEF EntersLoop
  <1>2. /\ stage[c] = "listing" /\ Returns(c)
        /\ Resume(c, Requests(c, next)) /\ wire' = wire \cup Requests(c, next)
    BY <1>1 DEF EntersLoop, Succeed
  <1>3. /\ listed \subseteq Sid
        /\ c \in DOMAIN job /\ job[c] \in JobType
        /\ job[c].disconnected = {} /\ job[c].failed = {} /\ job[c].listed = {}
    BY <1>2 DEF Returns, PortalInv, CallInv, ReplyInv, JobInv, Settled, Running
  <1>4. /\ j \in JobType /\ j.listed = listed /\ j.todo = listed
        /\ j.disconnected = {} /\ j.failed = {}
        /\ j.zone_id = job[c].zone_id /\ j.token = job[c].token
    BY <1>3 DEF JobType
  <1> HIDE DEF j, listed
  <1>5. Settled(j)
    BY <1>4 DEF Settled
  <1> QED
    BY <1>1, <1>2, <1>3, <1>4, <1>5, LoopKeeps

(* A session that is over is entered in one of the columns. *)
LEMMA EnterKeeps ==
  ASSUME PortalInv, NEW c \in Call, stage[c] = "disconnecting", c \in DOMAIN awaiting,
         NEW j,
         \/ j = [job[c] EXCEPT !.disconnected = @ \cup {awaiting[c].data}]
         \/ j = [job[c] EXCEPT !.failed = @ \cup {awaiting[c].data}],
         NEW next \in Heads(job[c].todo),
         Resume(c, Requests(c, next)), wire' \subseteq wire \cup Requests(c, next),
         Iterates(c, next, j)
  PROVE  PortalInv'
  <1>1. c \in DOMAIN job /\ JobInv(c) /\ job[c] \in JobType /\ Settled(job[c])
    BY DEF PortalInv, CallInv, JobInv, Running
  <1>2. PICK sid \in job[c].listed :
          /\ sid \notin job[c].todo \cup job[c].disconnected \cup job[c].failed
          /\ job[c].listed = job[c].todo \cup job[c].disconnected \cup job[c].failed \cup {sid}
          /\ awaiting[c] = DisconnectRequest(c, sid)
    BY DEF PortalInv, CallInv, AwaitingInv
  <1>3. awaiting[c].data = sid
    BY <1>2 DEF DisconnectRequest, Request
  <1>4. /\ j.zone_id = job[c].zone_id /\ j.token = job[c].token
        /\ j.listed = job[c].listed /\ j.todo = job[c].todo
        /\ \/ /\ j.disconnected = job[c].disconnected \cup {sid} /\ j.failed = job[c].failed
           \/ /\ j.failed = job[c].failed \cup {sid} /\ j.disconnected = job[c].disconnected
        /\ j \in JobType
    BY <1>1, <1>2, <1>3 DEF JobType
  <1>5. /\ Settled(j) /\ j.listed = j.todo \cup j.disconnected \cup j.failed
        /\ job[c].listed \ job[c].todo \subseteq j.listed \ j.todo
    BY <1>1, <1>2, <1>4 DEF Settled
  <1> QED
    BY <1>4, <1>5, LoopKeeps

LEMMA LoopInv ==
  ASSUME PortalInv, NEW c \in Call, Disconnected(c) \/ DisconnectFails(c)
  PROVE  PortalInv'
  <1>1. CASE Disconnected(c)
    <2>1. PICK next \in Heads(job[c].todo) :
            /\ Succeed(c, Requests(c, next), {})
            /\ Iterates(c, next, [job[c] EXCEPT !.disconnected = @ \cup {awaiting[c].data}])
      BY <1>1 DEF Disconnected
    <2>2. /\ stage[c] = "disconnecting" /\ Returns(c) /\ c \in DOMAIN awaiting
          /\ Resume(c, Requests(c, next)) /\ wire' = wire \cup Requests(c, next)
      BY <1>1, <2>1 DEF Disconnected, Succeed, Resume
    <2> QED
      BY <2>1, <2>2, EnterKeeps
  <1>2. CASE DisconnectFails(c)
    <2>1. PICK next \in Heads(job[c].todo) :
            /\ RaisesToolError(c, Requests(c, next))
            /\ Iterates(c, next, [job[c] EXCEPT !.failed = @ \cup {awaiting[c].data}])
      BY <1>2 DEF DisconnectFails
    <2>2. /\ stage[c] = "disconnecting" /\ c \in DOMAIN awaiting
          /\ Resume(c, Requests(c, next)) /\ wire' \subseteq wire \cup Requests(c, next)
      BY <1>2, <2>1 DEF DisconnectFails, RaisesToolError, Refused, ConnectFails, ReadTimesOut,
                        Resume
    <2> QED
      BY <2>1, <2>2, EnterKeeps
  <1> QED
    BY <1>1, <1>2

-----------------------------------------------------------------------------
(* The firewall.                                                             *)

(* What an answer does to the replies: one call at most gets it, the one that
   awaits the request. *)
LEMMA AnswerFacts ==
  ASSUME NEW r, NEW reply, Answer(r, reply)
  PROVE  /\ wire' = wire \ {r} /\ awaiting' = awaiting
         /\ DOMAIN replies \subseteq DOMAIN replies'
         /\ \A d \in DOMAIN replies' :
              \/ d \in DOMAIN replies /\ replies'[d] = replies[d]
              \/ d \in DOMAIN awaiting /\ awaiting[d] = r /\ replies'[d] = reply
  <1>1. CASE \E d \in DOMAIN awaiting : awaiting[d] = r
    <2> DEFINE e == CHOOSE d \in DOMAIN awaiting : awaiting[d] = r
    <2>1. e \in DOMAIN awaiting /\ awaiting[e] = r
      BY <1>1
    <2>2. replies' = Put(replies, e, reply)
      BY <1>1 DEF Answer
    <2> HIDE DEF e
    <2> QED
      BY <2>1, <2>2 DEF Answer, Put
  <1>2. CASE ~\E d \in DOMAIN awaiting : awaiting[d] = r
    BY <1>2 DEF Answer
  <1> QED
    BY <1>1, <1>2

LEMMA FirewallAnswers ==
  ASSUME PortalInv, NEW r \in wire, Firewall(r)
  PROVE  /\ UNCHANGED <<storeVars, stage, job>>
         /\ sessions' \in [Zone -> SUBSET Sid]
         /\ performed \subseteq performed'
         /\ performed' \subseteq performed \cup (IF r.method = "POST" THEN {r} ELSE {})
         /\ \E reply :
              /\ Answer(r, reply)
              /\ reply.status_code = 200 /\ reply.body # None /\ r.method = "GET"
                   /\ r.path[2] \in Zone => reply.body \subseteq Sid
  <1>1. /\ HttpError.body = None /\ Garbled.body = None
        /\ \A body : Ok(body).body = body
    BY DEF HttpError, Garbled, Ok
  <1>2. CASE AnswerList(r)
    <2>1. PICK reply :
            Answer(r, reply) /\ (reply.body = sessions[r.path[2]] \/ reply.body = None)
      BY <1>1, <1>2 DEF AnswerList
    <2>2. r.method = "GET" /\ UNCHANGED <<storeVars, stage, job, sessions, performed>>
      BY <1>2 DEF AnswerList, Firewall
    <2> QED
      BY <2>1, <2>2 DEF PortalInv, Domains
  <1>3. CASE AnswerDisconnect(r)
    <2>1. PICK reply : Answer(r, reply)
      BY <1>3 DEF AnswerDisconnect
    <2>2. /\ r.method = "POST" /\ UNCHANGED <<storeVars, stage, job>>
          /\ \/ sessions' = sessions /\ performed' = performed
             \/ /\ performed' = performed \cup {r}
                /\ sessions' = [sessions EXCEPT ![r.path[2]] = @ \ {r.data}]
      BY <1>3 DEF AnswerDisconnect, Firewall
    <2>3. sessions' \in [Zone -> SUBSET Sid]
      BY <2>2 DEF PortalInv, Domains
    <2> QED
      BY <2>1, <2>2, <2>3
  <1> QED
    BY <1>2, <1>3 DEF Firewall

LEMMA FirewallInv ==
  ASSUME PortalInv, NEW r \in wire, Firewall(r)
  PROVE  PortalInv'
  <1>1. /\ [StoreNext]_storeVars /\ UNCHANGED <<storeVars, stage, job>>
        /\ sessions' \in [Zone -> SUBSET Sid]
        /\ performed \subseteq performed'
        /\ performed' \subseteq performed \cup (IF r.method = "POST" THEN {r} ELSE {})
    BY FirewallAnswers
  <1>2. PICK reply :
          /\ Answer(r, reply)
          /\ reply.status_code = 200 /\ reply.body # None /\ r.method = "GET"
               /\ r.path[2] \in Zone => reply.body \subseteq Sid
    BY FirewallAnswers
  <1>3. /\ wire' = wire \ {r} /\ awaiting' = awaiting
        /\ DOMAIN replies \subseteq DOMAIN replies'
        /\ \A d \in DOMAIN replies' :
             \/ d \in DOMAIN replies /\ replies'[d] = replies[d]
             \/ d \in DOMAIN awaiting /\ awaiting[d] = r /\ replies'[d] = reply
    BY <1>2, AnswerFacts
  <1>4. StoreInv' /\ Domains' /\ OneCallPerToken'
    BY <1>1, <1>3, NextInv DEF PortalInv, Domains, OneCallPerToken, PastGate
  <1>5. ASSUME NEW d \in Call
        PROVE  CallInv(d)'
    <2>1. CASE d \notin DOMAIN replies' \/ (d \in DOMAIN replies /\ replies'[d] = replies[d])
      <3>1. Untouched(d)
        BY <1>1, <1>3, <2>1 DEF Untouched
      <3> QED
        BY <1>1, <3>1, UntouchedKeeps DEF PortalInv
    <2>2. CASE d \in DOMAIN replies' /\ d \in DOMAIN awaiting /\ awaiting[d] = r
               /\ replies'[d] = reply
      <3>1. CallInv(d) /\ d \in DOMAIN job /\ JobInv(d) /\ AwaitingInv(d)
        BY <2>2 DEF PortalInv, CallInv
      <3>2. ASSUME stage[d] \in {"describing", "listing"},
                   reply.status_code = 200, reply.body # None
            PROVE  reply.body \subseteq Sid
        <4>1. awaiting[d] = ListRequest(d, job[d].zone_id) /\ job[d].zone_id \in Zone
          BY <3>1, <3>2 DEF AwaitingInv, JobInv, JobType
        <4>2. r.method = "GET" /\ r.path[2] \in Zone
          BY <2>2, <4>1 DEF ListRequest, Request
        <4> QED
          BY <1>2, <3>2, <4>2
      <3>4. ReplyInv(d)'
        BY <1>1, <1>3, <2>2, <3>2 DEF ReplyInv, Returns
      <3>5. JobInv(d)'
        BY <1>1, <3>1 DEF JobInv, PastGate, SpentBy, Arguments, DisconnectRequest, storeVars
      <3>6. AwaitingInv(d)'
        BY <1>1, <1>3, <3>1 DEF AwaitingInv, DisconnectRequest, ListRequest
      <3> QED
        BY <1>1, <1>3, <2>2, <3>1, <3>4, <3>5, <3>6 DEF CallInv
    <2> QED
      BY <1>3, <2>1, <2>2
  <1>6. DisconnectsInv'
    <2>1. Disconnects' \subseteq Disconnects
      BY <1>1, <1>3 DEF Disconnects
    <2> QED
      BY <1>1, <2>1, DisconnectsKeep DEF PortalInv
  <1> QED
    BY <1>4, <1>5, <1>6 DEF PortalInv

(* Users come and go, the clock ticks, or nothing happens. *)
LEMMA QuietInv ==
  ASSUME PortalInv, [StoreNext]_storeVars, sessions' \in [Zone -> SUBSET Sid],
         UNCHANGED <<clientVars, stage, job, performed>>
  PROVE  PortalInv'
  <1>1. \A d \in Call : Untouched(d)
    BY DEF Untouched, clientVars
  <1>2. ASSUME NEW d \in Call
        PROVE  CallInv(d)'
    BY <1>1, UntouchedKeeps DEF PortalInv
  <1>3. StoreInv' /\ Domains' /\ OneCallPerToken'
    BY NextInv DEF PortalInv, Domains, OneCallPerToken, PastGate, clientVars
  <1>4. DisconnectsInv'
    BY DisconnectsKeep DEF PortalInv, Disconnects, clientVars
  <1> QED
    BY <1>2, <1>3, <1>4 DEF PortalInv

(* The calls of a process that ends die; what they did stays. *)
LEMMA RestartInv ==
  ASSUME PortalInv, Restart
  PROVE  PortalInv'
  <1>1. /\ [StoreNext]_storeVars
        /\ issued' = issued /\ ledger' = ledger
        /\ DOMAIN awaiting' = {} /\ DOMAIN replies' = {} /\ wire' = wire
        /\ stage' = [c \in Call |-> IF stage[c] \in Running THEN "died" ELSE stage[c]]
        /\ UNCHANGED <<job, sessions, performed>>
    BY DEF Restart, StoreRestart, ClientRestart, EmptyDict, StoreNext
  <1>2. \A c \in Call : stage'[c] = "died" \/ (stage'[c] = stage[c] /\ stage[c] \notin Running)
    BY <1>1
  <1>3. StoreInv' /\ Domains' /\ OneCallPerToken'
    <2>1. StoreInv' /\ Domains'
      BY <1>1, NextInv DEF PortalInv, Domains, Stages
    <2> QED
      BY <1>1, <1>2, <2>1 DEF PortalInv, Domains, OneCallPerToken, PastGate, Running
  <1>4. ASSUME NEW c \in Call
        PROVE  CallInv(c)'
    <2>1. CallInv(c)
      BY DEF PortalInv
    <2>2. c \in DOMAIN job => JobInv(c)'
      BY <1>1, <1>2, <2>1 DEF CallInv, JobInv, PastGate, SpentBy, Arguments,
                              DisconnectRequest, Running
    <2> QED
      BY <1>1, <1>2, <2>1, <2>2 DEF CallInv, Running, Stages
  <1>5. DisconnectsInv'
    BY <1>1, DisconnectsKeep DEF PortalInv, Disconnects
  <1> QED
    BY <1>3, <1>4, <1>5 DEF PortalInv

LEMMA PortalInitInv == PortalInit => PortalInv
  <1> SUFFICES ASSUME PortalInit PROVE PortalInv
    OBVIOUS
  <1>1. /\ DOMAIN awaiting = {} /\ DOMAIN replies = {} /\ DOMAIN job = {}
        /\ wire = {} /\ performed = {} /\ sessions \in [Zone -> SUBSET Sid]
        /\ stage = [c \in Call |-> "idle"]
    BY DEF PortalInit, ClientInit, EmptyDict
  <1>2. StoreInv
    BY InitInv DEF PortalInit
  <1>3. Domains /\ OneCallPerToken /\ DisconnectsInv
    BY <1>1 DEF Domains, OneCallPerToken, DisconnectsInv, Disconnects, Stages
  <1>4. \A c \in Call : CallInv(c)
    BY <1>1 DEF CallInv, Running, Stages
  <1> QED
    BY <1>2, <1>3, <1>4 DEF PortalInv

LEMMA PortalNextInv == PortalInv /\ [PortalNext]_portalVars => PortalInv'
  <1> SUFFICES ASSUME PortalInv, [PortalNext]_portalVars PROVE PortalInv'
    OBVIOUS
  <1>1. [StoreNext]_storeVars
    BY StepsOfStore
  <1>2. ASSUME NEW zone \in Zone, NEW sid \in Sid, UsersComeAndGo(zone, sid)
        PROVE  PortalInv'
    <2>1. sessions' \in [Zone -> SUBSET Sid]
      BY <1>2 DEF UsersComeAndGo, PortalInv, Domains
    <2> QED
      BY <1>1, <1>2, <2>1, QuietInv DEF UsersComeAndGo
  <1>3. CASE TimePasses
    BY <1>1, <1>3, QuietInv DEF TimePasses, PortalInv, Domains
  <1>4. CASE UNCHANGED portalVars
    BY <1>1, <1>4, QuietInv DEF portalVars, PortalInv, Domains
  <1> QED
    BY <1>2, <1>3, <1>4, StartInv, RefuseTokenInv, EndInv, EntersLoopInv, LoopInv, FirewallInv,
       RestartInv DEF PortalNext, Proceed

LEMMA PortalInvariance == PortalSpec => []PortalInv
  BY PortalInitInv, PortalNextInv, PTL DEF PortalSpec

-----------------------------------------------------------------------------
(* The report and the log.                                                   *)

OneReport(c) ==
  /\ c \in DOMAIN job =>
       /\ \A sid \in job[c].disconnected :
            /\ Record(DisconnectRequest(c, sid), 200, "success") \in log
            /\ DisconnectRequest(c, sid) \notin wire
       /\ \A sid \in job[c].failed : \E e \in log :
            /\ e.req_id = <<c, sid>> /\ e.token = job[c].token
            /\ e.outcome # "success"
  /\ c \in DOMAIN replies /\ stage[c] = "disconnecting" => awaiting[c] \notin wire

ReportInv == \A c \in Call : OneReport(c)

(* The request of a session that a call is disconnecting. *)
LEMMA AwaitedDisconnect ==
  ASSUME PortalInv, NEW c \in Call, stage[c] = "disconnecting"
  PROVE  \E sid \in job[c].listed \ (job[c].todo \cup job[c].disconnected \cup job[c].failed) :
           awaiting[c] = DisconnectRequest(c, sid)
  BY DEF PortalInv, CallInv, AwaitingInv, Running

(* The request names its call and its session. *)
LEMMA DisconnectFields ==
  ASSUME NEW c, NEW sid
  PROVE  LET r == DisconnectRequest(c, sid)
         IN  r.req_id = <<c, sid>> /\ r.method = "POST" /\ r.data = sid /\ r.token = job[c].token
  BY DEF DisconnectRequest, Request

(* A step of one call does not touch the reports of others. *)
LEMMA ReportKeeps ==
  ASSUME PortalInv, ReportInv, NEW c \in Call, NEW s, stage' = [stage EXCEPT ![c] = s],
         job' = job \/ (\E j : job' = Put(job, c, j)) \/ (\E j : job' = [job EXCEPT ![c] = j]),
         \/ awaiting' = awaiting \/ awaiting' = Drop(awaiting, c)
         \/ \E r : awaiting' = Put(awaiting, c, r),
         replies' = replies \/ replies' = Drop(replies, c),
         log \subseteq log',
         \A r \in wire' : r \in wire \/ r.method = "GET" \/ r.req_id[1] = c,
         OneReport(c)'
  PROVE  ReportInv'
  <1> SUFFICES ASSUME NEW d \in Call, d # c PROVE OneReport(d)'
    BY DEF ReportInv
  <1>1. /\ stage'[d] = stage[d]
        /\ d \in DOMAIN job' => d \in DOMAIN job /\ job'[d] = job[d]
        /\ d \in DOMAIN awaiting => awaiting'[d] = awaiting[d]
        /\ d \in DOMAIN replies' => d \in DOMAIN replies /\ d \in DOMAIN awaiting
    BY DEF PortalInv, Domains, CallInv, Put, Drop
  <1>2. ASSUME NEW sid, DisconnectRequest(d, sid) \notin wire
        PROVE  DisconnectRequest(d, sid) \notin wire'
    BY <1>2, DisconnectFields
  <1>3. d \in DOMAIN job' => \A sid : DisconnectRequest(d, sid)' = DisconnectRequest(d, sid)
    BY <1>1 DEF DisconnectRequest
  <1>4. ASSUME d \in DOMAIN job', NEW sid \in job'[d].disconnected
        PROVE  /\ Record(DisconnectRequest(d, sid)', 200, "success") \in log'
               /\ DisconnectRequest(d, sid)' \notin wire'
    <2>1. /\ Record(DisconnectRequest(d, sid), 200, "success") \in log
          /\ DisconnectRequest(d, sid) \notin wire
      BY <1>1, <1>4 DEF ReportInv, OneReport
    <2> QED
      BY <1>2, <1>3, <1>4, <2>1
  <1>5. ASSUME d \in DOMAIN job', NEW sid \in job'[d].failed
        PROVE  \E e \in log' : /\ e.req_id = <<d, sid>> /\ e.token = job'[d].token
                              /\ e.outcome # "success"
    BY <1>1, <1>5 DEF ReportInv, OneReport
  <1>6. ASSUME d \in DOMAIN replies', stage'[d] = "disconnecting"
        PROVE  awaiting'[d] \notin wire'
    <2>1. PICK sid \in job[d].listed : awaiting[d] = DisconnectRequest(d, sid)
      BY <1>1, <1>6, AwaitedDisconnect
    <2>2. awaiting[d] \notin wire
      BY <1>1, <1>6 DEF ReportInv, OneReport
    <2> QED
      BY <1>1, <1>2, <1>6, <2>1, <2>2
  <1> QED
    BY <1>4, <1>5, <1>6 DEF OneReport, Record

(* As long as a call enters nothing in its report and sends nothing, it stays
   as it was; the other steps are those of the loop. *)
LEMMA IdleReport ==
  ASSUME PortalInv, ReportInv, NEW c \in Call, job' = job, log \subseteq log', wire' \subseteq wire,
         c \notin DOMAIN replies'
  PROVE  OneReport(c)'
  BY DEF ReportInv, OneReport, DisconnectRequest, Record

LEMMA EmptyReport ==
  ASSUME NEW c \in Call, NEW j, j.disconnected = {}, j.failed = {},
         c \in DOMAIN job', job'[c] = j, c \notin DOMAIN replies'
  PROVE  OneReport(c)'
  BY DEF OneReport

LEMMA StartReports ==
  ASSUME PortalInv, ReportInv, NEW c \in Call, NEW zone \in Zone,
         Describe(c, zone) \/ \E t \in Token : Confirm(c, zone, t)
  PROVE  ReportInv'
  <1>1. PICK s, token, r :
          /\ stage[c] = "idle" /\ stage' = [stage EXCEPT ![c] = s]
          /\ job' = Put(job, c, Job(zone, token))
          /\ r.method = "GET" /\ awaiting' = Put(awaiting, c, r) /\ wire' = wire \cup {r}
          /\ replies' = replies /\ log' = log
    BY DEF Describe, Confirm, Moves, Send, ListRequest, Request
  <1>2. c \notin DOMAIN replies'
    BY <1>1 DEF PortalInv, CallInv, Running
  <1>3. OneReport(c)'
    <2>1. c \in DOMAIN job' /\ job'[c] = Job(zone, token)
      BY <1>1 DEF Put
    <2> QED
      BY <1>2, <2>1, EmptyReport DEF Job
  <1> QED
    BY <1>1, <1>3, ReportKeeps

LEMMA EndReports ==
  ASSUME PortalInv, ReportInv, NEW c \in Call,
         (\E t \in Token : Preview(c, t)) \/ ListFails(c) \/ Aborts(c)
  PROVE  ReportInv'
  <1>1. PICK s : /\ stage' = [stage EXCEPT ![c] = s] /\ job' = job
                 /\ awaiting' = Drop(awaiting, c) /\ replies' = Drop(replies, c)
                 /\ wire' \subseteq wire /\ log \subseteq log'
    BY DEF Preview, ListFails, Aborts, Moves, Succeed, RaisesToolError, Refused, ConnectFails,
           ReadTimesOut, RaisesOther, BodyIsNoJson, Escapes, Resume, Logs
  <1>2. OneReport(c)'
    BY <1>1, IdleReport DEF Drop
  <1> QED
    BY <1>1, <1>2, ReportKeeps

(* What a step of the loop does but for the columns. *)
LEMMA LoopSteps ==
  ASSUME PortalInv, NEW c \in Call, NEW next, NEW j, Iterates(c, next, j),
         Resume(c, Requests(c, next)), wire' \subseteq wire \cup Requests(c, next)
  PROVE  /\ \E s : stage' = [stage EXCEPT ![c] = s]
         /\ \E k : job' = [job EXCEPT ![c] = k]
         /\ awaiting' = Drop(awaiting, c) \/ \E r : awaiting' = Put(awaiting, c, r)
         /\ replies' = Drop(replies, c) /\ c \notin DOMAIN replies'
         /\ \A r \in wire' : r \in wire \/ \E sid \in next : r = DisconnectRequest(c, sid)
         /\ \A r \in wire' : r \in wire \/ r.method = "GET" \/ r.req_id[1] = c
  <1>1. /\ \E s : stage' = [stage EXCEPT ![c] = s]
        /\ \E k : job' = [job EXCEPT ![c] = k]
    BY DEF Iterates
  <1>2. /\ awaiting' = Drop(awaiting, c) \/ \E r : awaiting' = Put(awaiting, c, r)
        /\ replies' = Drop(replies, c) /\ c \notin DOMAIN replies'
    BY DEF Resume, Drop
  <1>3. \A r \in wire' : r \in wire \/ \E sid \in next : r = DisconnectRequest(c, sid)
    BY DEF Requests
  <1>4. \A r \in wire' : r \in wire \/ r.method = "GET" \/ r.req_id[1] = c
    BY <1>3, DisconnectFields
  <1> QED
    BY <1>1, <1>2, <1>3, <1>4

LEMMA EntersLoopReports ==
  ASSUME PortalInv, ReportInv, NEW c \in Call, EntersLoop(c)
  PROVE  ReportInv'
  <1> DEFINE listed == replies[c].body
             j == [job[c] EXCEPT !.listed = listed, !.todo = listed]
  <1>1. PICK next \in Heads(listed) :
          Succeed(c, Requests(c, next), {}) /\ Iterates(c, next, j)
    BY DEF EntersLoop
  <1>2. /\ c \in DOMAIN job /\ job[c] \in JobType
        /\ job[c].disconnected = {} /\ job[c].failed = {}
    BY DEF EntersLoop, PortalInv, CallInv, JobInv, Settled, Running
  <1>3. /\ j.disconnected = {} /\ j.failed = {} /\ j \in [DOMAIN job[c] -> {j[x] : x \in DOMAIN j}]
    BY <1>2 DEF JobType
  <1> DEFINE k == [j EXCEPT !.todo = j.todo \ next]
  <1>4. k.disconnected = {} /\ k.failed = {}
    BY <1>2 DEF JobType
  <1>5. job' = [job EXCEPT ![c] = k]
    BY <1>1 DEF Iterates
  <1>6. /\ Resume(c, Requests(c, next)) /\ wire' = wire \cup Requests(c, next)
        /\ log \subseteq log'
    BY <1>1 DEF Succeed, Logs
  <1> HIDE DEF k, j, listed
  <1>7. OneReport(c)'
    <2>1. c \notin DOMAIN replies'
      BY <1>6 DEF Resume, Drop
    <2>2. c \in DOMAIN job' /\ job'[c] = k
      BY <1>2, <1>5
    <2> QED
      BY <1>4, <2>1, <2>2, EmptyReport
  <1> QED
    BY <1>1, <1>6, <1>7, LoopSteps, ReportKeeps

(* A session is entered in a column along with its record. *)
LEMMA EntryReports ==
  ASSUME PortalInv, ReportInv, NEW c \in Call, stage[c] = "disconnecting", NEW j,
         NEW next \in Heads(job[c].todo), NEW status_code, NEW outcome,
         \/ /\ j = [job[c] EXCEPT !.disconnected = @ \cup {awaiting[c].data}]
            /\ c \in DOMAIN replies /\ status_code = 200 /\ outcome = "success"
         \/ /\ j = [job[c] EXCEPT !.failed = @ \cup {awaiting[c].data}]
            /\ outcome # "success",
         log' = log \cup {Record(awaiting[c], status_code, outcome)},
         Resume(c, Requests(c, next)), wire' \subseteq wire \cup Requests(c, next),
         Iterates(c, next, j)
  PROVE  ReportInv'
  <1>1. c \in DOMAIN job /\ JobInv(c) /\ job[c] \in JobType /\ Settled(job[c])
    BY DEF PortalInv, CallInv, JobInv, Running
  <1>2. PICK sid \in job[c].listed :
          /\ sid \notin job[c].todo \cup job[c].disconnected \cup job[c].failed
          /\ awaiting[c] = DisconnectRequest(c, sid)
    BY AwaitedDisconnect
  <1>3. awaiting[c].data = sid
    BY <1>2, DisconnectFields
  <1> DEFINE k == [j EXCEPT !.todo = j.todo \ next]
  <1>4. /\ k.zone_id = job[c].zone_id /\ k.token = job[c].token
        /\ \/ /\ k.disconnected = job[c].disconnected \cup {sid} /\ k.failed = job[c].failed
              /\ c \in DOMAIN replies /\ status_code = 200 /\ outcome = "success"
           \/ /\ k.failed = job[c].failed \cup {sid} /\ k.disconnected = job[c].disconnected
              /\ outcome # "success"
    BY <1>1, <1>3 DEF JobType
  <1>5. job' = [job EXCEPT ![c] = k]
    BY DEF Iterates
  <1> HIDE DEF k
  <1>6. job'[c] = k /\ c \in DOMAIN job' /\ c \notin DOMAIN replies'
    BY <1>1, <1>5, LoopSteps
  <1>7. \A x : DisconnectRequest(c, x)' = DisconnectRequest(c, x)
    BY <1>4, <1>6 DEF DisconnectRequest
  <1>8. ASSUME NEW x, x \notin job[c].todo, DisconnectRequest(c, x) \notin wire
        PROVE  DisconnectRequest(c, x) \notin wire'
    <2>1. next \subseteq job[c].todo
      BY HeadsFacts
    <2>2. ASSUME NEW y \in next PROVE DisconnectRequest(c, x) # DisconnectRequest(c, y)
      BY <1>8, <2>1, <2>2, DisconnectFields
    <2> QED
      BY <1>8, <2>2, LoopSteps
  <1>9. ASSUME NEW x \in k.disconnected
        PROVE  /\ Record(DisconnectRequest(c, x), 200, "success") \in log'
               /\ DisconnectRequest(c, x) \notin wire'
    <2>1. CASE x \in job[c].disconnected
      <3>1. x \notin job[c].todo
        BY <1>1, <2>1 DEF Settled
      <3> QED
        BY <1>1, <1>8, <2>1, <3>1 DEF ReportInv, OneReport
    <2>2. CASE x = sid /\ c \in DOMAIN replies /\ status_code = 200 /\ outcome = "success"
      <3>1. DisconnectRequest(c, x) \notin wire
        BY <1>2, <2>2 DEF ReportInv, OneReport
      <3> QED
        BY <1>2, <1>8, <2>2, <3>1
    <2> QED
      BY <1>4, <1>9, <2>1, <2>2
  <1>10. ASSUME NEW x \in k.failed
         PROVE  \E e \in log' : /\ e.req_id = <<c, x>> /\ e.token = k.token
                               /\ e.outcome # "success"
    <2>1. CASE x \in job[c].failed
      BY <1>1, <1>4, <2>1 DEF ReportInv, OneReport
    <2>2. CASE x = sid /\ outcome # "success"
      <3> DEFINE e == Record(awaiting[c], status_code, outcome)
      <3>1. /\ e.req_id = awaiting[c].req_id /\ e.token = awaiting[c].token
            /\ e.outcome = outcome /\ e \in log'
        BY DEF Record
      <3>2. awaiting[c].req_id = <<c, x>> /\ awaiting[c].token = k.token
        BY <1>2, <1>4, <2>2, DisconnectFields
      <3> QED
        BY <2>2, <3>1, <3>2
    <2> QED
      BY <1>4, <1>10, <2>1, <2>2
  <1>11. OneReport(c)'
    BY <1>6, <1>7, <1>9, <1>10 DEF OneReport, Record
  <1> QED
    BY <1>11, LoopSteps, ReportKeeps

LEMMA LoopReports ==
  ASSUME PortalInv, ReportInv, NEW c \in Call, Disconnected(c) \/ DisconnectFails(c)
  PROVE  ReportInv'
  <1>1. CASE Disconnected(c)
    <2>1. PICK next \in Heads(job[c].todo) :
            /\ Succeed(c, Requests(c, next), {})
            /\ Iterates(c, next, [job[c] EXCEPT !.disconnected = @ \cup {awaiting[c].data}])
      BY <1>1 DEF Disconnected
    <2>2. /\ stage[c] = "disconnecting" /\ c \in DOMAIN replies
          /\ log' = log \cup {Record(awaiting[c], 200, "success")}
          /\ Resume(c, Requests(c, next)) /\ wire' \subseteq wire \cup Requests(c, next)
      BY <1>1, <2>1 DEF Disconnected, Succeed, Returns, Logs
    <2> QED
      BY <2>1, <2>2, EntryReports
  <1>2. CASE DisconnectFails(c)
    <2>1. PICK next \in Heads(job[c].todo) :
            /\ RaisesToolError(c, Requests(c, next))
            /\ Iterates(c, next, [job[c] EXCEPT !.failed = @ \cup {awaiting[c].data}])
      BY <1>2 DEF DisconnectFails
    <2>2. /\ stage[c] = "disconnecting"
          /\ Resume(c, Requests(c, next)) /\ wire' \subseteq wire \cup Requests(c, next)
      BY <1>2, <2>1 DEF DisconnectFails, RaisesToolError, Refused, ConnectFails, ReadTimesOut
    <2>3. \E status_code : \E outcome \in {"error", "timeout"} :
            log' = log \cup {Record(awaiting[c], status_code, outcome)}
      BY <2>1 DEF RaisesToolError, Refused, ConnectFails, ReadTimesOut, Logs
    <2>4. PICK status_code, outcome :
            /\ outcome # "success"
            /\ log' = log \cup {Record(awaiting[c], status_code, outcome)}
      BY <2>3
    <2> QED
      BY <2>1, <2>2, <2>4, EntryReports
  <1> QED
    BY <1>1, <1>2

LEMMA FirewallReports ==
  ASSUME PortalInv, ReportInv, NEW r \in wire, Firewall(r)
  PROVE  ReportInv'
  <1>1. stage' = stage /\ job' = job /\ \E reply : Answer(r, reply)
    BY FirewallAnswers
  <1>2. /\ wire' = wire \ {r} /\ awaiting' = awaiting /\ log' = log
        /\ \A d \in DOMAIN replies' : d \in DOMAIN replies \/ awaiting[d] = r
    BY <1>1, AnswerFacts DEF Answer
  <1> QED
    BY <1>1, <1>2 DEF ReportInv, OneReport, DisconnectRequest, Record

LEMMA ReportNext == PortalInv /\ ReportInv /\ [PortalNext]_portalVars => ReportInv'
  <1> SUFFICES ASSUME PortalInv, ReportInv, [PortalNext]_portalVars PROVE ReportInv'
    OBVIOUS
  <1>1. ASSUME UNCHANGED <<stage, job, wire, awaiting, log>>, DOMAIN replies' \subseteq DOMAIN replies
        PROVE  ReportInv'
    BY <1>1 DEF ReportInv, OneReport, DisconnectRequest, Record
  <1>2. ASSUME NEW zone \in Zone, NEW sid \in Sid, UsersComeAndGo(zone, sid)
        PROVE  ReportInv'
    BY <1>1, <1>2 DEF UsersComeAndGo, clientVars
  <1>3. CASE TimePasses \/ UNCHANGED portalVars
    BY <1>1, <1>3 DEF TimePasses, portalVars, clientVars
  <1>4. ASSUME NEW c \in Call, NEW zone \in Zone, NEW t \in Token, RefuseToken(c, zone, t)
        PROVE  ReportInv'
    <2>1. /\ stage' = [stage EXCEPT ![c] = "tool_error"] /\ job' = job
          /\ awaiting' = awaiting /\ replies' = replies /\ wire' = wire /\ log' = log
          /\ stage[c] = "idle"
      BY <1>4 DEF RefuseToken, Moves, clientVars
    <2>2. c \notin DOMAIN replies'
      BY <2>1 DEF PortalInv, CallInv, Running
    <2> QED
      BY <2>1, <2>2, IdleReport, ReportKeeps
  <1>5. CASE Restart
    <2>1. /\ DOMAIN replies' = {} /\ job' = job /\ wire' = wire /\ log' = log
      BY <1>5 DEF Restart, ClientRestart, EmptyDict
    <2> QED
      BY <2>1, IdleReport DEF ReportInv
  <1> QED
    BY <1>2, <1>3, <1>4, <1>5, StartReports, EndReports, EntersLoopReports, LoopReports,
       FirewallReports DEF PortalNext, Proceed

LEMMA ReportInvariance == PortalSpec => [](PortalInv /\ ReportInv)
  <1>1. PortalInit => ReportInv
    BY DEF PortalInit, ClientInit, EmptyDict, ReportInv, OneReport
  <1> QED
    BY <1>1, PortalInitInv, PortalNextInv, ReportNext, PTL DEF PortalSpec

-----------------------------------------------------------------------------
(* The variables keep their types, and a call has a request out exactly while
   it is between two of its awaits (captiveportal.py:103-145). *)
THEOREM PortalTypes == PortalSpec => []PortalTypeOK
  <1>1. PortalInv => PortalTypeOK
    BY DEF PortalInv, StoreInv, Domains, CallInv, PortalTypeOK, Stages
  <1> QED
    BY <1>1, PortalInvariance, PTL

(* The report of a call that ends normally has every session it listed, in one
   column, however many there were and whichever failed
   (captiveportal.py:120-135). *)
THEOREM ReportsAreComplete == PortalSpec => []ReportIsComplete
  <1>1. PortalInv => ReportIsComplete
    BY DEF PortalInv, Domains, CallInv, JobInv, Settled, ReportIsComplete
  <1> QED
    BY <1>1, PortalInvariance, PTL

(* The report of a zone disconnect and the audit log tell one story of each
   session, on every interleaving: in the first column are those whose request
   is logged as a success and done with, in the second those whose request is
   logged as anything else (captiveportal.py:124-134, client.py:179-217). *)
THEOREM TheReportAgreesWithTheLog == PortalSpec => []ReportAgreesWithLog
  <1>1. PortalInv /\ ReportInv => ReportAgreesWithLog
    BY DEF PortalInv, Domains, ReportInv, OneReport, ReportAgreesWithLog
  <1> QED
    BY <1>1, ReportInvariance, PTL

(* One confirmation buys one disconnect of each session listed after it, in
   the zone that was previewed: for every interleaving of the fan-outs, with
   late requests and restarts. *)
THEOREM ConfirmationsBuyOneFanOut == PortalSpec => []DisconnectsAsConfirmed
  <1>1. PortalInv => DisconnectsAsConfirmed
    <2> SUFFICES ASSUME PortalInv, NEW r \in Disconnects
                 PROVE  /\ r.path[2] = issued[r.token].arguments.zone_id
                        /\ r.data \in job[r.req_id[1]].listed
                        /\ \A q \in Disconnects : q.token = r.token /\ q.data = r.data => q = r
      BY DEF DisconnectsAsConfirmed
    <2>1. ASSUME NEW q \in Disconnects
          PROVE  \E d \in DOMAIN job : \E s \in job[d].listed :
                   q = DisconnectRequest(d, s) /\ PastGate(d) /\ SpentBy(d)
      BY DEF PortalInv, Domains, CallInv, JobInv, DisconnectsInv, PastGate
    <2>2. PICK c \in DOMAIN job : \E s \in job[c].listed :
            r = DisconnectRequest(c, s) /\ PastGate(c) /\ SpentBy(c)
      BY <2>1
    <2>3. PICK sid \in job[c].listed : r = DisconnectRequest(c, sid)
      BY <2>2
    <2>4. /\ r.path[2] = job[c].zone_id /\ r.data = sid /\ r.token = job[c].token
          /\ r.req_id[1] = c
      BY <2>3 DEF DisconnectRequest, Request
    <2>5. ASSUME NEW q \in Disconnects, q.token = r.token, q.data = r.data
          PROVE  q = r
      <3>1. PICK d \in DOMAIN job : \E s \in job[d].listed :
              q = DisconnectRequest(d, s) /\ PastGate(d) /\ SpentBy(d)
        BY <2>1
      <3>2. PICK s \in job[d].listed : q = DisconnectRequest(d, s)
        BY <3>1
      <3>3. q.token = job[d].token /\ q.data = s
        BY <3>2 DEF DisconnectRequest, Request
      <3>4. c = d /\ sid = s
        BY <2>2, <2>4, <2>5, <3>1, <3>3 DEF PortalInv, OneCallPerToken
      <3> QED
        BY <2>3, <3>2, <3>4
    <2> QED
      BY <2>2, <2>3, <2>4, <2>5 DEF SpentBy, Arguments
  <1> QED
    BY <1>1, PortalInvariance, PTL

LEMMA PortalDrivesTheStore == PortalSpec => StoreSpec
  <1>1. PortalInit => StoreInit
    BY DEF PortalInit
  <1>2. PortalInv /\ [PortalNext]_portalVars => [StoreNext]_storeVars
    BY StepsOfStore
  <1> QED
    BY <1>1, <1>2, PortalInvariance, PTL DEF PortalSpec, StoreSpec

(* What was proved of the store holds of it while zone disconnects drive it
   (captiveportal.py:112-145), whose fan-outs run between the confirmations of
   others: they cost each other no offer, leave no expired one, and expiry is
   as by a timer. *)
THEOREM PortalKeepsTheStore == PortalSpec => OfferIsKept /\ CallsEvict /\ EagerSpec
  BY PortalDrivesTheStore, CallsKeepTheOffersOfOthers, NoDeadEntries, LazyExpiryIsEager, PTL
=============================================================================
