--------------------------- MODULE OPNsenseClient ---------------------------
(***************************************************************************)
(* One HTTP exchange of src/opnsense_mcp/client.py, from the request a     *)
(* coroutine sends to the record it logs and the result it returns.        *)
(*                                                                         *)
(* get, get_list and post have the same shape: send, suspend, and then one *)
(* of the outcomes below.  Between Send and the outcome every other call   *)
(* may run, and the firewall may or may not have processed the request:    *)
(* giving up on a request does not take it back.                           *)
(*                                                                         *)
(* The variables are shared by the tools that compose this module; each    *)
(* says what a processed request does to the firewall.                     *)
(***************************************************************************)
EXTENDS Integers, Dicts

CONSTANTS
  Call,      \* invocations of MCP tools
  None       \* no token, no status, no data

ASSUME StatusAssumption == None # 200 /\ None # 500

VARIABLES
  awaiting,  \* call |-> the request its coroutine is suspended on
  wire,      \* requests sent that the firewall has not processed
  replies,   \* call |-> the reply on its way back
  log        \* JSON records written to stderr; req_id makes each one unique

clientVars == <<awaiting, wire, replies, log>>

ClientInit ==
  /\ awaiting = EmptyDict
  /\ wire = {}
  /\ replies = EmptyDict
  /\ log = {}

Request(id, method, path, data, token) ==
  [req_id |-> id, method |-> method, path |-> path, data |-> data, token |-> token]

(* _log: what a record says of a request; the data is not in it. *)
Record(r, status_code, outcome) ==
  [req_id |-> r.req_id, method |-> r.method, path |-> r.path,
   status_code |-> status_code, outcome |-> outcome, token |-> r.token]

(* log_preview: it is passed the arguments and leaves them out. *)
PreviewRecord(id, tool_name, token) ==
  [req_id |-> id, method |-> None, path |-> None, status_code |-> None,
   outcome |-> "preview", tool |-> tool_name, token |-> token]

Send(c, r) ==
  /\ c \notin DOMAIN awaiting
  /\ awaiting' = Put(awaiting, c, r)
  /\ wire' = wire \cup {r}
  /\ UNCHANGED <<replies, log>>

(* The firewall processes a request.  Nobody reads the reply if the caller
   has given up on it. *)
Answer(r, reply) ==
  /\ r \in wire
  /\ wire' = wire \ {r}
  /\ replies' = IF \E c \in DOMAIN awaiting : awaiting[c] = r
                THEN Put(replies, CHOOSE c \in DOMAIN awaiting : awaiting[c] = r, reply)
                ELSE replies
  /\ UNCHANGED <<awaiting, log>>

Ok(body) == [status_code |-> 200, body |-> body]
Garbled == [status_code |-> 200, body |-> None]
HttpError == [status_code |-> 500, body |-> None]

(* The exchange of c is over and its coroutine runs on: to its end, or to
   the next request it awaits, next being the empty set or that request. *)
Resume(c, next) ==
  /\ c \in DOMAIN awaiting
  /\ awaiting' = IF next = {} THEN Drop(awaiting, c)
                 ELSE Put(awaiting, c, CHOOSE r \in next : TRUE)
  /\ replies' = Drop(replies, c)

Logs(c, status_code, outcome, more) ==
  log' = log \cup {Record(awaiting[c], status_code, outcome)} \cup more

(* A reply that is no error: logged as a success, its JSON returned; more is
   what the coroutine logs before it suspends again. *)
Returns(c) ==
  /\ c \in DOMAIN replies
  /\ replies[c].status_code = 200
  /\ replies[c].body # None

Succeed(c, next, more) ==
  /\ Returns(c)
  /\ Resume(c, next)
  /\ wire' = wire \cup next
  /\ Logs(c, 200, "success", more)

(* response.json() raises ValueError, after the success is logged. *)
BodyIsNoJson(c) ==
  /\ c \in DOMAIN replies
  /\ replies[c] = Garbled
  /\ Resume(c, {})
  /\ Logs(c, 200, "success", {})
  /\ UNCHANGED wire

(* response.is_error: OPNsenseAPIError, which the tools turn into ToolError. *)
Refused(c, next) ==
  /\ c \in DOMAIN replies
  /\ replies[c] = HttpError
  /\ Resume(c, next)
  /\ wire' = wire \cup next
  /\ Logs(c, 500, "error", {})

(* Mutation of ConnectFails: errors after the request has left are caught as
   connect errors too. *)
TransportFails(c, next) ==
  /\ Resume(c, next)
  /\ wire' = wire \cup next
  /\ \E outcome \in {"timeout", "error"} : Logs(c, None, outcome, {})

(* ConnectTimeout and ConnectError: the request never left. *)
ConnectFails(c, next) ==
  /\ Resume(c, next)
  /\ awaiting[c] \in wire
  /\ wire' = (wire \ {awaiting[c]}) \cup next
  /\ \E outcome \in {"timeout", "error"} : Logs(c, None, outcome, {})

(* Mutation of ReadTimesOut: the handler raises without logging. *)
ReadTimesOutSilently(c, next) ==
  /\ Resume(c, next)
  /\ wire' = wire \cup next
  /\ UNCHANGED log

(* ReadTimeout: the request may be processed yet, or may have been. *)
ReadTimesOut(c, next) ==
  /\ Resume(c, next)
  /\ wire' = wire \cup next
  /\ Logs(c, None, "timeout", {})

(* Any other exception (httpx.ReadError, RemoteProtocolError, WriteError, a
   closed client) and the cancellation of the coroutine: nothing catches
   them, nothing is logged, and the request may or may not have left. *)
Escapes(c) ==
  /\ Resume(c, {})
  /\ \/ UNCHANGED wire
     \/ wire' = wire \ {awaiting[c]}
  /\ UNCHANGED log

RaisesToolError(c, next) ==
  Refused(c, next) \/ ConnectFails(c, next) \/ ReadTimesOut(c, next)

RaisesOther(c) == BodyIsNoJson(c) \/ Escapes(c)

(* The process ends.  What it wrote, to the firewall or to stderr, stays. *)
ClientRestart ==
  /\ awaiting' = EmptyDict
  /\ replies' = EmptyDict
  /\ UNCHANGED <<wire, log>>
=============================================================================
