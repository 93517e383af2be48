---------------------------- MODULE CaptivePortal ----------------------------
(***************************************************************************)
(* captiveportal_session_disconnect_zone (src/opnsense_mcp/tools/          *)
(* captiveportal.py): the high-risk tool that fans out.  A preview lists   *)
(* the sessions of the zone before it asks for a token; the confirmed call *)
(* lists them again and disconnects them one by one, noting for each how   *)
(* it went.  Sessions come and go all the while, and other calls run       *)
(* between any two of the requests.                                        *)
(***************************************************************************)
EXTENDS PendingOperationStore, OPNsenseClient

CONSTANTS
  Zone,
  Sid        \* session ids

VARIABLES
  stage,     \* call |-> how far it is, or how it ended
  job,       \* call |-> the local variables of its coroutine
  sessions,  \* zone |-> the active sessions
  performed  \* disconnects the firewall has carried out; kept for properties

portalVars == <<storeVars, clientVars, stage, job, sessions, performed>>

ToolName == "captiveportal_session_disconnect_zone"

ASSUME ToolAssumption == ToolName \in Tool
ASSUME ArgsAssumption == Args = [zone_id : Zone]

PortalInit ==
  /\ StoreInit
  /\ ClientInit
  /\ stage = [c \in Call |-> "idle"]
  /\ job = EmptyDict
  /\ sessions \in [Zone -> SUBSET Sid]
  /\ performed = {}

Moves(c, from, to) ==
  /\ stage[c] = from
  /\ stage' = [stage EXCEPT ![c] = to]

Arguments(zone) == [zone_id |-> zone]

(* todo is what the loop has not come to; listed, what it started from. *)
Job(zone, token) ==
  [zone_id |-> zone, token |-> token, listed |-> {}, todo |-> {},
   disconnected |-> {}, failed |-> {}]

ListRequest(c, zone) ==
  Request(<<c, "list">>, "GET", <<"captiveportal/session/list", zone>>, None, None)

DisconnectRequest(c, sid) ==
  Request(<<c, sid>>, "POST", <<"captiveportal/session/disconnect", job[c].zone_id>>,
          sid, job[c].token)

(* confirm is None: the sessions are listed for the description. *)
Describe(c, zone) ==
  /\ Moves(c, "idle", "describing")
  /\ job' = Put(job, c, Job(zone, None))
  /\ Send(c, ListRequest(c, zone))
  /\ UNCHANGED <<storeVars, sessions, performed>>

(* The list is back: create, log the preview, return the token. *)
Preview(c, t) ==
  /\ Moves(c, "describing", "previewed")
  /\ Succeed(c, {}, {PreviewRecord(<<c, "preview">>, ToolName, t)})
  /\ Create(t, ToolName, Arguments(job[c].zone_id))
  /\ UNCHANGED <<job, sessions, performed>>

(* confirm is a token: the gate comes before any request. *)
Confirm(c, zone, t) ==
  /\ Moves(c, "idle", "listing")
  /\ Consume(t, ToolName, Arguments(zone))
  /\ job' = Put(job, c, Job(zone, t))
  /\ Send(c, ListRequest(c, zone))
  /\ UNCHANGED <<sessions, performed>>

RefuseToken(c, zone, t) ==
  /\ Moves(c, "idle", "tool_error")
  /\ Reject(t, ToolName, Arguments(zone))
  /\ UNCHANGED <<clientVars, job, sessions, performed>>

ListFails(c) ==
  /\ stage[c] \in {"describing", "listing"}
  /\ RaisesToolError(c, {})
  /\ stage' = [stage EXCEPT ![c] = "tool_error"]
  /\ UNCHANGED <<storeVars, job, sessions, performed>>

(* The head of the loop: the next of the sessions todo, or the end.  The
   order of the list is the firewall's. *)
Heads(todo) == IF todo = {} THEN {{}} ELSE {{sid} : sid \in todo}

Iterates(c, next, j) ==
  /\ job' = [job EXCEPT ![c] = [j EXCEPT !.todo = j.todo \ next]]
  /\ stage' = [stage EXCEPT ![c] = IF next = {} THEN "ok" ELSE "disconnecting"]
  /\ UNCHANGED <<storeVars, sessions, performed>>

Requests(c, next) == {DisconnectRequest(c, sid) : sid \in next}

(* Mutation of EntersLoop: the loop is left to a background task, and the call
   returns its report at once. *)
EntersLoopInBackground(c) ==
  /\ stage[c] = "listing"
  /\ Returns(c)
  /\ LET listed == replies[c].body IN
     \E next \in Heads(listed) :
       /\ Succeed(c, Requests(c, next), {})
       /\ job' = [job EXCEPT ![c].listed = listed, ![c].todo = listed \ next]
       /\ stage' = [stage EXCEPT ![c] = "ok"]
       /\ UNCHANGED <<storeVars, sessions, performed>>

EntersLoop(c) ==
  /\ stage[c] = "listing"
  /\ Returns(c)
  /\ LET listed == replies[c].body IN
     \E next \in Heads(listed) :
       /\ Succeed(c, Requests(c, next), {})
       /\ Iterates(c, next, [job[c] EXCEPT !.listed = listed, !.todo = listed])

(* A reply of status 200 goes into the first column, whatever it says. *)
Disconnected(c) ==
  /\ stage[c] = "disconnecting"
  /\ \E next \in Heads(job[c].todo) :
       /\ Succeed(c, Requests(c, next), {})
       /\ Iterates(c, next, [job[c] EXCEPT !.disconnected = @ \cup {awaiting[c].data}])

(* Mutation of DisconnectFails: the failure is passed over. *)
DisconnectFailsSilently(c) ==
  /\ stage[c] = "disconnecting"
  /\ \E next \in Heads(job[c].todo) :
       /\ RaisesToolError(c, Requests(c, next))
       /\ Iterates(c, next, job[c])

(* Mutation of DisconnectFails: it is entered in the wrong column. *)
DisconnectFailsAsSuccess(c) ==
  /\ stage[c] = "disconnecting"
  /\ \E next \in Heads(job[c].todo) :
       /\ RaisesToolError(c, Requests(c, next))
       /\ Iterates(c, next, [job[c] EXCEPT !.disconnected = @ \cup {awaiting[c].data}])

(* Mutation of DisconnectFails: the session is tried again until it goes. *)
DisconnectRetries(c) ==
  /\ stage[c] = "disconnecting"
  /\ LET todo == job[c].todo \cup {awaiting[c].data} IN
     \E next \in Heads(todo) :
       /\ RaisesToolError(c, Requests(c, next))
       /\ Iterates(c, next, [job[c] EXCEPT !.todo = todo])

(* OPNsenseAPIError and ToolError are caught: the loop goes on. *)
DisconnectFails(c) ==
  /\ stage[c] = "disconnecting"
  /\ \E next \in Heads(job[c].todo) :
       /\ RaisesToolError(c, Requests(c, next))
       /\ Iterates(c, next, [job[c] EXCEPT !.failed = @ \cup {awaiting[c].data}])

(* Any other exception ends the call where it is, report and all. *)
Aborts(c) ==
  /\ RaisesOther(c)
  /\ stage' = [stage EXCEPT ![c] = "raised"]
  /\ UNCHANGED <<storeVars, job, sessions, performed>>

AnswerList(r) ==
  /\ r.method = "GET"
  /\ \E reply \in {Ok(sessions[r.path[2]]), Garbled, HttpError} : Answer(r, reply)
  /\ UNCHANGED <<sessions, performed>>

(* The session is disconnected, or is not; the reply says which, with status
   200 either way, or says nothing. *)
AnswerDisconnect(r) ==
  /\ r.method = "POST"
  /\ \/ /\ \E reply \in {Ok("done"), Garbled, HttpError} : Answer(r, reply)
        /\ sessions' = [sessions EXCEPT ![r.path[2]] = @ \ {r.data}]
        /\ performed' = performed \cup {r}
     \/ /\ \E reply \in {Ok("failed"), Garbled, HttpError} : Answer(r, reply)
        /\ UNCHANGED <<sessions, performed>>

Firewall(r) ==
  /\ AnswerList(r) \/ AnswerDisconnect(r)
  /\ UNCHANGED <<storeVars, stage, job>>

(* Users log in and out; the other session tools do the same. *)
UsersComeAndGo(zone, sid) ==
  /\ sessions' = [sessions EXCEPT ![zone] = IF sid \in @ THEN @ \ {sid} ELSE @ \cup {sid}]
  /\ UNCHANGED <<storeVars, clientVars, stage, job, performed>>

TimePasses == Tick /\ UNCHANGED <<clientVars, stage, job, sessions, performed>>

Running == {"describing", "listing", "disconnecting"}

Restart ==
  /\ StoreRestart
  /\ ClientRestart
  /\ stage' = [c \in Call |-> IF stage[c] \in Running THEN "died" ELSE stage[c]]
  /\ UNCHANGED <<job, sessions, performed>>

Proceed(c) ==
  \/ \E t \in Token : Preview(c, t)
  \/ ListFails(c) \/ EntersLoop(c)
  \/ Disconnected(c) \/ DisconnectFails(c) \/ Aborts(c)

PortalNext ==
  \/ \E c \in Call :
       \/ \E zone \in Zone :
            \/ Describe(c, zone)
            \/ \E t \in Token : Confirm(c, zone, t) \/ RefuseToken(c, zone, t)
       \/ Proceed(c)
  \/ \E r \in wire : Firewall(r)
  \/ \E zone \in Zone, sid \in Sid : UsersComeAndGo(zone, sid)
  \/ TimePasses
  \/ Restart

PortalSpec == PortalInit /\ [][PortalNext]_portalVars

(* The read timer of a suspended request fires sooner or later (client.py:41);
   the firewall owes nothing, and neither do the callers. *)
TimerFires(c) ==
  /\ c \in DOMAIN awaiting
  /\ \/ ReadTimesOut(c, {})
     \/ \E sid \in job[c].todo : ReadTimesOut(c, {DisconnectRequest(c, sid)})
  /\ ListFails(c) \/ DisconnectFails(c)

FairPortalSpec == PortalSpec /\ \A c \in Call : WF_portalVars(TimerFires(c))

-----------------------------------------------------------------------------

(* The variables have their types; a call has a request out exactly while it
   runs. *)
PortalTypeOK ==
  /\ StoreTypeOK
  /\ stage \in [Call -> Running \cup {"idle", "previewed", "ok", "tool_error", "raised", "died"}]
  /\ DOMAIN awaiting = {c \in Call : stage[c] \in Running}
  /\ sessions \in [Zone -> SUBSET Sid]

Disconnects == {r \in wire : r.method = "POST"} \cup performed

(* The report of a call that ends normally accounts for every session listed
   after the confirmation, each in one of the two columns (captiveportal.md,
   output on confirmed execution). *)
ReportIsComplete ==
  \A c \in DOMAIN job : stage[c] = "ok" =>
    /\ job[c].disconnected \cup job[c].failed = job[c].listed
    /\ job[c].disconnected \cap job[c].failed = {}

(* The report and the audit log tell one story of each session.  In the first
   column are those whose disconnect is logged as a success, and that is final:
   the request is not still on its way, to end a session that came back.  (That
   the firewall did disconnect it is not known: the reply is not looked at.)
   In the second are those whose disconnect is logged as anything else. *)
ReportAgreesWithLog ==
  \A c \in DOMAIN job :
    /\ \A sid \in job[c].disconnected :
         /\ Record(DisconnectRequest(c, sid), 200, "success") \in log
         /\ DisconnectRequest(c, sid) \notin wire
    /\ \A sid \in job[c].failed : \E e \in log :
         /\ e.req_id = <<c, sid>> /\ e.token = job[c].token
         /\ e.outcome # "success"

(* The token buys one disconnect per session, of sessions listed after it was
   spent, in the zone it was issued for. *)
DisconnectsAsConfirmed ==
  \A r \in Disconnects :
    /\ r.path[2] = issued[r.token].arguments.zone_id
    /\ r.data \in job[r.req_id[1]].listed
    /\ \A q \in Disconnects : q.token = r.token /\ q.data = r.data => q = r

(* The fan-out ends: every call that gets past the gate does, however many
   sessions the list held and whatever the firewall fails to answer. *)
FanOutsEnd ==
  \A c \in Call : stage[c] \in {"listing", "disconnecting"} ~> stage[c] \notin Running

-----------------------------------------------------------------------------
(* A statement of the repository the tool does not live up to.               *)

(* "partial failure is possible and must be reported per-session"
   (captiveportal.md:74-75): a call that disconnected some session and was not
   cut off by a restart returns its report. *)
PartialFailuresAreReported ==
  \A c \in DOMAIN job : stage[c] = "raised" => job[c].disconnected = {}
=============================================================================
