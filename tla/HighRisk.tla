------------------------------ MODULE HighRisk ------------------------------
(***************************************************************************)
(* run_high_risk (src/opnsense_mcp/highrisk.py) and the eleven tools that  *)
(* hand it an execute() of a single POST, over the one confirmation store  *)
(* and the one client of the process, called by any number of MCP clients. *)
(*                                                                         *)
(* A tool call is a coroutine.  Up to its first await it is one step:      *)
(* validating, previewing, or consuming the token and sending the request. *)
(* It is suspended while the request is out and is one more step when the  *)
(* exchange is over.                                                       *)
(***************************************************************************)
EXTENDS PendingOperationStore, OPNsenseClient

CONSTANTS
  Op,        \* the operations called for: a tool and its arguments
  Uuid       \* strings validate_uuid accepts

VARIABLES
  stage,     \* call |-> how far it is, or how it ended
  performed  \* the requests the firewall has carried out

highRiskVars == <<storeVars, clientVars, stage, performed>>

(* What each tool's execute() posts to.  target is the uuid or interface name
   of the operation, data its body; system_config_restore is bound to a host
   too, its target, and sends the backup alone. *)
SystemEndpoint ==
  [system_reboot           |-> "core/system/reboot",
   system_halt             |-> "core/system/halt",
   system_firmware_update  |-> "core/firmware/update",
   system_firmware_upgrade |-> "core/firmware/upgrade",
   system_config_restore   |-> "core/backup/revert_backup"]

InterfaceEndpoint ==
  [interface_assignment_update |-> "interfaces/assignment/set_item",
   interface_assignment_delete |-> "interfaces/assignment/del_item"]

OpenVPNEndpoint == [openvpn_instance_delete |-> "openvpn/instances/del"]

IPsecEndpoint == [ipsec_connection_delete |-> "ipsec/connections/del_connection"]

IPsecEnabledEndpoint == [ipsec_enabled_toggle |-> "ipsec/connections/toggle"]

WireGuardEndpoint == [wireguard_server_delete |-> "wireguard/server/del_server"]

Endpoint ==
  Merge(SystemEndpoint,
    Merge(InterfaceEndpoint,
      Merge(OpenVPNEndpoint,
        Merge(IPsecEndpoint, Merge(IPsecEnabledEndpoint, WireGuardEndpoint)))))

UuidTool ==
  {"openvpn_instance_delete", "ipsec_connection_delete", "wireguard_server_delete"}

TargetedTool ==
  UuidTool \cup {"interface_assignment_update", "interface_assignment_delete"}

ASSUME ToolAssumption == Tool \subseteq DOMAIN Endpoint
ASSUME OpAssumption ==
  \A op \in Op : /\ op.tool_name \in Tool
                 /\ op.arguments \in Args
                 /\ {"target", "data"} \subseteq DOMAIN op.arguments

Path(op) ==
  <<Endpoint[op.tool_name],
    IF op.tool_name \in TargetedTool THEN op.arguments.target ELSE None>>

(* Validation raises ToolError before the store is looked at. *)
Valid(op) == op.tool_name \in UuidTool => op.arguments.target \in Uuid

HighRiskInit ==
  /\ StoreInit
  /\ ClientInit
  /\ stage = [c \in Call |-> "idle"]
  /\ performed = {}

Moves(c, from, to) ==
  /\ stage[c] = from
  /\ stage' = [stage EXCEPT ![c] = to]

(* Mutation of Preview: log_preview is not called. *)
PreviewUnlogged(c, op, t) ==
  /\ Valid(op)
  /\ Moves(c, "idle", "previewed")
  /\ Create(t, op.tool_name, op.arguments)
  /\ UNCHANGED <<clientVars, performed>>

(* confirm is None: create, log the preview, return the token. *)
Preview(c, op, t) ==
  /\ Valid(op)
  /\ Moves(c, "idle", "previewed")
  /\ Create(t, op.tool_name, op.arguments)
  /\ log' = log \cup {PreviewRecord(<<c, "preview">>, op.tool_name, t)}
  /\ UNCHANGED <<awaiting, wire, replies, performed>>

(* Mutation of Confirm: the token is checked, and left to be deleted when the
   request has succeeded. *)
ConfirmKeepsToken(c, op, t) ==
  /\ Valid(op)
  /\ Moves(c, "idle", "executing")
  /\ Matches(t, op.tool_name, op.arguments)
  /\ Send(c, Request(<<c, "execute">>, "POST", Path(op), op.arguments.data, t))
  /\ UNCHANGED <<storeVars, performed>>

(* Mutation of Confirm: execute() is left to a background task, and the call
   returns at once. *)
ConfirmInBackground(c, op, t) ==
  /\ Valid(op)
  /\ Moves(c, "idle", "done")
  /\ Consume(t, op.tool_name, op.arguments)
  /\ Send(c, Request(<<c, "execute">>, "POST", Path(op), op.arguments.data, t))
  /\ UNCHANGED performed

(* confirm is a token the store accepts: consume it and run execute() up to
   its await. *)
Confirm(c, op, t) ==
  /\ Valid(op)
  /\ Moves(c, "idle", "executing")
  /\ Consume(t, op.tool_name, op.arguments)
  /\ Send(c, Request(<<c, "execute">>, "POST", Path(op), op.arguments.data, t))
  /\ UNCHANGED performed

(* confirm is a token the store refuses. *)
RefuseToken(c, op, t) ==
  /\ Valid(op)
  /\ Moves(c, "idle", "tool_error")
  /\ Reject(t, op.tool_name, op.arguments)
  /\ UNCHANGED <<clientVars, performed>>

RefuseArguments(c, op) ==
  /\ ~Valid(op)
  /\ Moves(c, "idle", "tool_error")
  /\ UNCHANGED <<storeVars, clientVars, performed>>

(* Mutation of Finish: a reply that is no error is taken for a success. *)
FinishUnread(c) ==
  /\ \/ Succeed(c, {}, {}) /\ Moves(c, "executing", "done")
     \/ RaisesToolError(c, {}) /\ Moves(c, "executing", "tool_error")
     \/ RaisesOther(c) /\ Moves(c, "executing", "raised")
  /\ UNCHANGED <<storeVars, performed>>

(* execute() ends: the reply is returned, whatever it says, an error raised as
   ToolError, or an exception nobody translates. *)
Finish(c) ==
  /\ \/ Succeed(c, {}, {}) /\ Moves(c, "executing", replies[c].body)
     \/ RaisesToolError(c, {}) /\ Moves(c, "executing", "tool_error")
     \/ RaisesOther(c) /\ Moves(c, "executing", "raised")
  /\ UNCHANGED <<storeVars, performed>>

(* The firewall gets to a request, and carries it out or does not; it says
   which, in a reply of status 200 either way, or its answer says nothing. *)
Firewall(r) ==
  /\ \/ /\ \E reply \in {Ok("done"), Garbled, HttpError} : Answer(r, reply)
        /\ performed' = performed \cup {r}
     \/ /\ \E reply \in {Ok("failed"), Garbled, HttpError} : Answer(r, reply)
        /\ UNCHANGED performed
  /\ UNCHANGED <<storeVars, stage>>

TimePasses == Tick /\ UNCHANGED <<clientVars, stage, performed>>

(* The server process ends, at any moment, and is started again. *)
Restart ==
  /\ StoreRestart
  /\ ClientRestart
  /\ stage' = [c \in Call |-> IF stage[c] = "executing" THEN "died" ELSE stage[c]]
  /\ UNCHANGED performed

HighRiskNext ==
  \/ \E c \in Call, op \in Op :
       \/ \E t \in Token : Preview(c, op, t) \/ Confirm(c, op, t) \/ RefuseToken(c, op, t)
       \/ RefuseArguments(c, op)
  \/ \E c \in Call : Finish(c)
  \/ \E r \in wire : Firewall(r)
  \/ TimePasses
  \/ Restart

HighRiskSpec == HighRiskInit /\ [][HighRiskNext]_highRiskVars

-----------------------------------------------------------------------------

Stage == {"idle", "previewed", "executing", "done", "failed", "tool_error", "raised",
          "died"}

(* The variables have their types; exactly the executing calls have a request
   out. *)
HighRiskTypeOK ==
  /\ StoreTypeOK
  /\ stage \in [Call -> Stage]
  /\ DOMAIN awaiting = {c \in Call : stage[c] = "executing"}
  /\ DOMAIN replies \subseteq DOMAIN awaiting

(* Every request that has left for the firewall and not been withdrawn. *)
Requests == wire \cup performed

(* One confirmation is one request at most, however many calls present the
   token, time out, are cancelled or die in a restart (SC-004). *)
OneRequestPerToken ==
  \A r, q \in Requests : r.token = q.token => r = q

(* What reaches the firewall is what was previewed under the token it
   carries, and was confirmed under it. *)
RequestsAsPreviewed ==
  \A r \in Requests :
    /\ r.token \in DOMAIN issued
    /\ r.path = Path(issued[r.token])
    /\ r.data = issued[r.token].arguments.data
    /\ \E i \in DOMAIN ledger : ledger[i].token = r.token

(* As long as a token can be confirmed, nothing of its operation has been
   sent, performed or logged but the preview (FR-008). *)
PreviewsHaveNoEffect ==
  \A t \in DOMAIN pending :
    /\ \A r \in Requests : r.token # t
    /\ \A e \in log : e.token = t => e.outcome = "preview"

(* The audit trail correlates: a record of an execution has a preview record
   with the same token, logged before it, of the tool that was executed
   (FR-011). *)
ExecutionsCorrelate ==
  \A e \in log :
    e.outcome # "preview" =>
      \E p \in log : /\ p.outcome = "preview"
                     /\ p.token = e.token
                     /\ e.path[1] = Endpoint[p.tool]

(* What is said of a request is true of it.  A result is the firewall's word:
   done was carried out, failed was not and never will be.  A record with a
   status is final: nothing of its request is still to come, though a
   "success" may be of a request that failed.  An error without a status never
   left. *)
ReportsAreTrue ==
  /\ \A c \in Call :
       /\ stage[c] = "done" => \E r \in performed : r.req_id[1] = c
       /\ stage[c] = "failed" => \A r \in Requests : r.req_id[1] # c
  /\ \A e \in log :
       /\ e.status_code # None => \A r \in wire : r.req_id # e.req_id
       /\ e.outcome = "error" /\ e.status_code = None
            => \A r \in Requests : r.req_id # e.req_id

(* What the firewall did is known to an operator reading the log or a caller
   still waiting, unless an exception or a restart took the call away. *)
PerformedIsLogged ==
  \A r \in performed :
    \/ \E c \in DOMAIN awaiting : awaiting[c] = r
    \/ \E e \in log : e.req_id = r.req_id
    \/ \E c \in Call : stage[c] \in {"raised", "died"} /\ r.req_id[1] = c

(* The system at the level of its promise: an operation offered, confirmed
   once in time, and carried out at most once after that. *)
Promise ==
  INSTANCE ConfirmThenExecute WITH
    offers <- [t \in DOMAIN Unexpired |->
                 [path |-> Path(pending[t]), data |-> pending[t].arguments.data]],
    used <- DOMAIN issued,
    due <- {[token |-> r.token, path |-> r.path, data |-> r.data] : r \in wire},
    done <- {[token |-> r.token, path |-> r.path, data |-> r.data] : r \in performed}

PromiseSpec == Promise!Spec

-----------------------------------------------------------------------------
(* A statement of the repository that does not hold.                         *)

(* "every OPNsense API call is logged to stderr as a JSON line"
   (README.md:279): what the firewall did is logged or still awaited, unless
   the whole process went down. *)
EveryCallIsLogged ==
  \A r \in performed :
    \/ \E c \in DOMAIN awaiting : awaiting[c] = r
    \/ \E e \in log : e.req_id = r.req_id
    \/ stage[r.req_id[1]] = "died"
=============================================================================
