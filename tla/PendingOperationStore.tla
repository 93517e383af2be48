----------------------- MODULE PendingOperationStore -----------------------
(***************************************************************************)
(* The confirmation store of src/opnsense_mcp/confirmation.py: the dict of *)
(* pending high-risk operations, keyed by token.                           *)
(*                                                                         *)
(* create and consume contain no await, so on the one event loop of the    *)
(* process each call is a single step.  Expiry is lazy: an entry past its  *)
(* deadline stays in the dict until the next call of either method.        *)
(*                                                                         *)
(* issued and ledger are history variables, read by properties only:       *)
(* issued[t] is the operation token t was created for, ledger the consumed *)
(* operations in order.  They survive a restart, the dict does not.        *)
(***************************************************************************)
EXTENDS Integers, Sequences, Dicts

CONSTANTS
  Token,     \* what secrets.token_urlsafe(32) may return; never twice the same
  Tool,      \* names of high-risk tools
  Args,      \* argument dicts, compared with ==
  TTL,       \* ttl_seconds, in ticks of the monotonic clock
  MaxTime    \* bound on the clock, for model checking

(* Config.__post_init__ (config.py:40-41) rejects a TTL that is <= 0, which
   lets nan through; a store with that TTL is not modelled. *)
ASSUME TTLAssumption == TTL \in Nat \ {0}
ASSUME MaxTimeAssumption == MaxTime \in Nat

VARIABLES
  now,       \* the monotonic clock the store reads
  pending,   \* _pending: token |-> its PendingOperation
  issued,
  ledger

storeVars == <<now, pending, issued, ledger>>

(* The token is the key of the dict; the description is wording. *)
PendingOperation ==
  [tool_name : Tool, arguments : Args, expires_at : Nat]

(* The dict without the entries whose deadline has passed. *)
Unexpired ==
  [t \in {t \in DOMAIN pending : pending[t].expires_at > now} |-> pending[t]]

StoreInit ==
  /\ now = 0
  /\ pending = EmptyDict
  /\ issued = EmptyDict
  /\ ledger = <<>>

(* Mutation of Create: the deadline lies in the past. *)
CreateBackdated(t, tool, args) ==
  LET op == [tool_name |-> tool, arguments |-> args, expires_at |-> now - TTL]
  IN  /\ t \notin DOMAIN issued
      /\ pending' = Put(Unexpired, t, op)
      /\ issued' = Put(issued, t, op)
      /\ UNCHANGED <<now, ledger>>

(* Mutation of Create: nothing is evicted. *)
CreateUnswept(t, tool, args) ==
  LET op == [tool_name |-> tool, arguments |-> args, expires_at |-> now + TTL]
  IN  /\ t \notin DOMAIN issued
      /\ pending' = Put(pending, t, op)
      /\ issued' = Put(issued, t, op)
      /\ UNCHANGED <<now, ledger>>

(* create: evict, then register the operation under a fresh token. *)
Create(t, tool, args) ==
  LET op == [tool_name |-> tool, arguments |-> args, expires_at |-> now + TTL]
  IN  /\ t \notin DOMAIN issued
      /\ pending' = Put(Unexpired, t, op)
      /\ issued' = Put(issued, t, op)
      /\ UNCHANGED <<now, ledger>>

(* Mutation of Matches: the arguments are not compared. *)
MatchesToolOnly(t, tool, args) ==
  t \in DOMAIN Unexpired /\ pending[t].tool_name = tool

(* Mutation of Matches: expired entries still match. *)
MatchesStale(t, tool, args) ==
  t \in DOMAIN pending /\ pending[t].tool_name = tool /\ pending[t].arguments = args

(* The two checks consume makes, after evicting. *)
Matches(t, tool, args) ==
  /\ t \in DOMAIN Unexpired
  /\ pending[t].tool_name = tool
  /\ pending[t].arguments = args

(* Mutation of Consume: the entry is returned and not deleted. *)
ConsumeKeeps(t, tool, args) ==
  /\ Matches(t, tool, args)
  /\ pending' = Unexpired
  /\ ledger' = Append(ledger,
                 [token |-> t, tool_name |-> tool, arguments |-> args, at |-> now])
  /\ UNCHANGED <<now, issued>>

(* consume, accepted: evict, then delete the entry and return it. *)
Consume(t, tool, args) ==
  /\ Matches(t, tool, args)
  /\ pending' = Drop(Unexpired, t)
  /\ ledger' = Append(ledger,
                 [token |-> t, tool_name |-> tool, arguments |-> args, at |-> now])
  /\ UNCHANGED <<now, issued>>

(* Mutation of Reject: a mismatch costs the token. *)
RejectDrops(t, tool, args) ==
  /\ ~Matches(t, tool, args)
  /\ pending' = Drop(Unexpired, t)
  /\ UNCHANGED <<now, issued, ledger>>

(* consume, refused with a ToolError: only the eviction takes place. *)
Reject(t, tool, args) ==
  /\ ~Matches(t, tool, args)
  /\ pending' = Unexpired
  /\ UNCHANGED <<now, issued, ledger>>

Tick ==
  /\ now < MaxTime
  /\ now' = now + 1
  /\ UNCHANGED <<pending, issued, ledger>>

(* The process ends and another starts: its store is empty. *)
StoreRestart ==
  /\ pending' = EmptyDict
  /\ UNCHANGED <<now, issued, ledger>>

StoreCall ==
  \E t \in Token, tool \in Tool, args \in Args :
    \/ Create(t, tool, args)
    \/ Consume(t, tool, args)
    \/ Reject(t, tool, args)

StoreNext == StoreCall \/ Tick \/ StoreRestart

StoreSpec == StoreInit /\ [][StoreNext]_storeVars

-----------------------------------------------------------------------------

Confirmation ==
  [token : Token, tool_name : Tool, arguments : Args, at : Nat]

(* The variables have their types; what is pending was issued. *)
StoreTypeOK ==
  /\ now \in Nat
  /\ DOMAIN issued \subseteq Token
  /\ issued \in [DOMAIN issued -> PendingOperation]
  /\ DOMAIN pending \subseteq DOMAIN issued
  /\ pending \in [DOMAIN pending -> PendingOperation]
  /\ ledger \in Seq(Confirmation)

(* A token is accepted at most once, whoever presents it and however often,
   restarts included (FR-010: single-use). *)
SpentOnce ==
  \A i, j \in DOMAIN ledger :
    ledger[i].token = ledger[j].token => i = j

(* An accepted confirmation repeats the operation previewed under its token
   and comes strictly before the deadline. *)
SpentAsIssued ==
  \A i \in DOMAIN ledger :
    LET c == ledger[i] IN
    /\ c.token \in DOMAIN issued
    /\ c.tool_name = issued[c.token].tool_name
    /\ c.arguments = issued[c.token].arguments
    /\ c.at < issued[c.token].expires_at
    /\ c.at + TTL >= issued[c.token].expires_at

(* No call costs another caller its token: previewing, and refusing a
   confirmation, leave every unexpired offer in the store, and a confirmation
   takes out its own alone. *)
OfferIsKept ==
  [][StoreCall =>
       \A t \in DOMAIN Unexpired \ DOMAIN pending' :
         /\ Len(ledger') = Len(ledger) + 1
         /\ ledger'[Len(ledger')].token = t]_storeVars

(* The dict does not grow with dead entries: after a call of create or
   consume everything in it is still confirmable. *)
CallsEvict ==
  [][StoreCall => \A t \in DOMAIN pending' : pending'[t].expires_at > now']_storeVars

(* Lazy expiry is unobservable: the store implements the one in which an
   offer disappears the moment its deadline is reached. *)
Eager == INSTANCE Confirmation WITH offers <- Unexpired, used <- DOMAIN issued
EagerSpec == Eager!Spec
=============================================================================
