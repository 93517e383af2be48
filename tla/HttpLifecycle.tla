--------------------------- MODULE HttpLifecycle ---------------------------
(***************************************************************************)
(* The one httpx.AsyncClient handle of the process, OPNsenseClient._http:  *)
(* made by the startup check (__main__.py), replaced when a session of the *)
(* MCP server enters the lifespan (server.py), closed when one leaves it,  *)
(* and made on demand by a request that finds none (client.py).            *)
(*                                                                         *)
(* The MCP SDK runs the lifespan once per session: once over stdio, once   *)
(* per connected MCP client over streamable HTTP.  __aexit__ awaits the    *)
(* closing of the handle before it forgets it, and everything else runs in *)
(* between.  asyncio.run closes the event loop of the startup check, so    *)
(* the handle made there cannot be used afterwards.                        *)
(***************************************************************************)
EXTENDS Integers

CONSTANTS
  Session,   \* MCP sessions; one over stdio
  Req,       \* HTTP requests of tool calls
  None

ASSUME NoneAssumption == None \notin Nat

VARIABLES
  phase,     \* "startup", "serving", or "exited" with status 1
  http,      \* _http: a handle, numbered in the order they are made, or None
  made,      \* handles made so far
  closed,    \* handles aclose() was called on
  session,   \* session |-> where it is in the lifespan
  request    \* request |-> its status, its session and its handle

lifecycleVars == <<phase, http, made, closed, session, request>>

NoRequest == [status |-> "idle", by |-> None, handle |-> None]

LifecycleInit ==
  /\ phase = "startup"
  /\ http = None
  /\ made = 0
  /\ closed = {}
  /\ session = [s \in Session |-> "new"]
  /\ request = [r \in Req |-> NoRequest]

(* The handle of the startup check: the first one made. *)
StartupHandle == 0

Handle == 0 .. made - 1

(* _startup_check makes the first request, hence the first handle. *)
StartupCheck ==
  /\ phase = "startup"
  /\ http' = StartupHandle
  /\ made' = 1
  /\ phase' \in {"serving", "exited"}
  /\ UNCHANGED <<closed, session, request>>

(* Mutation of Enter: a handle that exists is kept. *)
EnterReuses(s) ==
  /\ phase = "serving"
  /\ session[s] = "new"
  /\ session' = [session EXCEPT ![s] = "in"]
  /\ http' = IF http = None THEN made ELSE http
  /\ made' = IF http = None THEN made + 1 ELSE made
  /\ UNCHANGED <<phase, closed, request>>

(* __aenter__: a new handle, whatever _http was. *)
Enter(s) ==
  /\ phase = "serving"
  /\ session[s] = "new"
  /\ session' = [session EXCEPT ![s] = "in"]
  /\ http' = made
  /\ made' = made + 1
  /\ UNCHANGED <<phase, closed, request>>

(* Mutation of BeginExit: _http is not checked for None. *)
BeginExitUnchecked(s) ==
  /\ session[s] = "in"
  /\ \A r \in Req : request[r].status = "flying" => request[r].by # s
  /\ session' = [session EXCEPT ![s] = "leaving"]
  /\ closed' = closed \cup {http}
  /\ UNCHANGED <<phase, http, made, request>>

(* Mutation of BeginExit: the session's own calls are not waited for. *)
BeginExitAbrupt(s) ==
  /\ session[s] = "in"
  /\ session' = [session EXCEPT ![s] = IF http = None THEN "gone" ELSE "leaving"]
  /\ closed' = IF http = None THEN closed ELSE closed \cup {http}
  /\ UNCHANGED <<phase, http, made, request>>

(* __aexit__ up to its await: the handle in _http now, whoever made it, is
   closed from here on.  The calls of the session itself are over. *)
BeginExit(s) ==
  /\ session[s] = "in"
  /\ \A r \in Req : request[r].status = "flying" => request[r].by # s
  /\ session' = [session EXCEPT ![s] = IF http = None THEN "gone" ELSE "leaving"]
  /\ closed' = IF http = None THEN closed ELSE closed \cup {http}
  /\ UNCHANGED <<phase, http, made, request>>

(* Mutation of EndExit: the handle is closed and not forgotten. *)
EndExitKeeps(s) ==
  /\ session[s] = "leaving"
  /\ session' = [session EXCEPT ![s] = "gone"]
  /\ UNCHANGED <<phase, http, made, closed, request>>

(* __aexit__ after its await: _http is forgotten, whatever it is by now. *)
EndExit(s) ==
  /\ session[s] = "leaving"
  /\ session' = [session EXCEPT ![s] = "gone"]
  /\ http' = None
  /\ UNCHANGED <<phase, made, closed, request>>

(* A tool call of s sends a request through the _client property, which makes
   a handle when there is none; httpx raises on a closed one. *)
Start(r, s) ==
  /\ session[s] = "in"
  /\ request[r] = NoRequest
  /\ LET h == IF http = None THEN made ELSE http IN
     /\ http' = h
     /\ made' = IF http = None THEN made + 1 ELSE made
     /\ request' = [request EXCEPT ![r] =
          [status |-> IF h \in closed THEN "broken" ELSE "flying", by |-> s, handle |-> h]]
  /\ UNCHANGED <<phase, closed, session>>

(* The exchange is over, as client.py knows how to end one, or the call was
   cancelled. *)
End(r) ==
  /\ request[r].status = "flying"
  /\ request' = [request EXCEPT ![r].status = "ended"]
  /\ UNCHANGED <<phase, http, made, closed, session>>

(* Closing the handle closed the connection under the request. *)
Break(r) ==
  /\ request[r].status = "flying"
  /\ request[r].handle \in closed
  /\ request' = [request EXCEPT ![r].status = "broken"]
  /\ UNCHANGED <<phase, http, made, closed, session>>

LifecycleNext ==
  \/ StartupCheck
  \/ \E s \in Session :
       \/ Enter(s) \/ BeginExit(s) \/ EndExit(s)
       \/ \E r \in Req : Start(r, s)
  \/ \E r \in Req : End(r) \/ Break(r)

LifecycleSpec == LifecycleInit /\ [][LifecycleNext]_lifecycleVars

-----------------------------------------------------------------------------

(* The variables have their types: handles are numbered without gaps, and
   none is used before it is made. *)
LifecycleTypeOK ==
  /\ phase \in {"startup", "serving", "exited"}
  /\ made \in Nat
  /\ http \in Handle \cup {None}
  /\ closed \subseteq Handle
  /\ session \in [Session -> {"new", "in", "leaving", "gone"}]
  /\ request \in [Req -> [status : {"idle", "flying", "ended", "broken"},
                          by : Session \cup {None}, handle : Handle \cup {None}]]

(* No request of the server goes out on the handle whose event loop ended
   with the startup check, though the client object is the same. *)
StartupLoopIsLeft ==
  \A r \in Req : request[r].handle # StartupHandle

(* A closed handle stays in _http only while a session is still leaving:
   nobody is stuck with it. *)
ClosedIsForgotten ==
  http \in closed => \E s \in Session : session[s] = "leaving"

(* When the last session has left, in whatever order the awaits of their
   exits finish, the client holds no handle (test_server.py:81). *)
ShutdownForgets ==
  /\ \E s \in Session : session[s] = "gone"
  /\ \A s \in Session : session[s] \in {"new", "gone"}
  => http = None

(* As long as one session has been there, as over stdio, no request finds its
   handle closed before or under it: a session's own exit comes after its calls. *)
RequestsOfOneSurvive ==
  (\E s \in Session : \A q \in Session : session[q] # "new" => q = s)
    => \A r \in Req : request[r].status # "broken"

-----------------------------------------------------------------------------
(* A statement of the repository that does not hold.                         *)

(* "when you want multiple clients to share a single server instance"
   (README.md:170): no request of any client is broken by the server closing
   the handle before or under it. *)
RequestsSurvive ==
  \A r \in Req : request[r].status # "broken"
=============================================================================
