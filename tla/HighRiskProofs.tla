--------------------------- MODULE HighRiskProofs ---------------------------
(***************************************************************************)
(* Theorems about the confirm-then-execute layer, for every set of calls,  *)
(* tokens, tools and operations and every lifetime.                        *)
(*                                                                         *)
(* OneRequestPerToken is not inductive: a second request under a token is  *)
(* impossible because the first one's token is in the ledger, what is in   *)
(* the ledger is out of the dict (SpentIsGone of StoreProofs), and only    *)
(* what is in the dict is consumed.  RequestsAsPreviewed holds each        *)
(* request's token to the ledger, and so is part of the same invariant.    *)
(*                                                                         *)
(* What is said of a request is true because a request is of one call, a   *)
(* call makes one request, and a request that was answered is no longer on *)
(* the wire: a reply says what became of it, and a connect error takes a   *)
(* request away that nothing became of.  AuditInv says so of every call,   *)
(* request, record and reply.                                              *)
(*                                                                         *)
(* Last, the layer implements ConfirmThenExecute, whose due is the wire.   *)
(***************************************************************************)
EXTENDS HighRisk, StoreProofs

(* Exactly the executing calls have a request out, and nobody else a reply,
   which, if the client returns it, says one of two things. *)
CallsTyped ==
  /\ stage \in [Call -> Stage]
  /\ DOMAIN awaiting = {c \in Call : stage[c] = "executing"}
  /\ DOMAIN replies \subseteq DOMAIN awaiting
  /\ \A c \in Call : Returns(c) => replies[c].body \in {"done", "failed"}

HighRiskInv ==
  /\ StoreInv
  /\ CallsTyped
  /\ RequestsAsPreviewed
  /\ OneRequestPerToken

-----------------------------------------------------------------------------
(* The calls and the store are properly driven.                              *)

LEMMA OpTyped ==
  ASSUME NEW op \in Op
  PROVE  op.tool_name \in Tool /\ op.arguments \in Args
  BY OpAssumption

(* What a step of the layer does to the store is a step of the store. *)
LEMMA StepsOfStore == [HighRiskNext]_highRiskVars => [StoreNext]_storeVars
  <1> SUFFICES ASSUME [HighRiskNext]_highRiskVars PROVE [StoreNext]_storeVars
    OBVIOUS
  <1>1. ASSUME NEW c \in Call, NEW op \in Op, NEW t \in Token, Preview(c, op, t)
        PROVE  StoreNext
    BY <1>1, OpTyped DEF Preview, StoreNext, StoreCall
  <1>2. ASSUME NEW c \in Call, NEW op \in Op, NEW t \in Token, Confirm(c, op, t)
        PROVE  StoreNext
    BY <1>2, OpTyped DEF Confirm, StoreNext, StoreCall
  <1>3. ASSUME NEW c \in Call, NEW op \in Op, NEW t \in Token, RefuseToken(c, op, t)
        PROVE  StoreNext
    BY <1>3, OpTyped DEF RefuseToken, StoreNext, StoreCall
  <1>4. ASSUME NEW c \in Call, NEW op \in Op, RefuseArguments(c, op)
        PROVE  UNCHANGED storeVars
    BY <1>4 DEF RefuseArguments
  <1>5. ASSUME NEW c \in Call, Finish(c)
        PROVE  UNCHANGED storeVars
    BY <1>5 DEF Finish
  <1>6. ASSUME NEW r \in wire, Firewall(r)
        PROVE  UNCHANGED storeVars
    BY <1>6 DEF Firewall
  <1>7. CASE TimePasses
    BY <1>7 DEF TimePasses, StoreNext
  <1>8. CASE Restart
    BY <1>8 DEF Restart, StoreNext
  <1>9. CASE UNCHANGED highRiskVars
    BY <1>9 DEF highRiskVars
  <1> QED
    BY <1>1, <1>2, <1>3, <1>4, <1>5, <1>6, <1>7, <1>8, <1>9 DEF HighRiskNext

(* An exchange that is over leaves its call with no request and no reply. *)
LEMMA FinishEnds ==
  ASSUME NEW c \in Call, Finish(c)
  PROVE  /\ stage[c] = "executing"
         /\ CallsTyped => \E s \in {"done", "failed", "tool_error", "raised"} :
                             stage' = [stage EXCEPT ![c] = s]
         /\ awaiting' = Drop(awaiting, c)
         /\ replies' = Drop(replies, c)
         /\ wire' \subseteq wire
         /\ performed' = performed
         /\ UNCHANGED storeVars
  <1>1. CASE Succeed(c, {}, {}) /\ Moves(c, "executing", replies[c].body)
    BY <1>1 DEF Finish, Succeed, Resume, Moves, CallsTyped
  <1>2. CASE RaisesToolError(c, {}) /\ Moves(c, "executing", "tool_error")
    BY <1>2 DEF Finish, RaisesToolError, Refused, ConnectFails, ReadTimesOut, Resume, Moves
  <1>3. CASE RaisesOther(c) /\ Moves(c, "executing", "raised")
    BY <1>3 DEF Finish, RaisesOther, BodyIsNoJson, Escapes, Resume, Moves
  <1>4. performed' = performed /\ UNCHANGED storeVars
    BY DEF Finish
  <1> QED
    BY <1>1, <1>2, <1>3, <1>4 DEF Finish

(* The firewall moves one request from the wire to what it has performed, or
   drops it; a reply goes to a call that waits for it. *)
LEMMA FirewallMoves ==
  ASSUME NEW r \in wire, Firewall(r)
  PROVE  /\ wire' \subseteq wire
         /\ performed' \subseteq performed \cup {r}
         /\ DOMAIN replies' \subseteq DOMAIN replies \cup DOMAIN awaiting
         /\ \A c : Returns(c)' => (Returns(c) /\ replies'[c] = replies[c])
                                 \/ replies'[c].body \in {"done", "failed"}
         /\ UNCHANGED <<awaiting, stage, storeVars>>
  <1>1. ASSUME NEW reply \in {Ok("done"), Ok("failed"), Garbled, HttpError}, Answer(r, reply)
        PROVE  /\ wire' \subseteq wire
               /\ DOMAIN replies' \subseteq DOMAIN replies \cup DOMAIN awaiting
               /\ \A c : Returns(c)' => (Returns(c) /\ replies'[c] = replies[c])
                                       \/ replies'[c].body \in {"done", "failed"}
               /\ awaiting' = awaiting
    <2>1. CASE \E c \in DOMAIN awaiting : awaiting[c] = r
      <3> DEFINE d == CHOOSE c \in DOMAIN awaiting : awaiting[c] = r
      <3>1. d \in DOMAIN awaiting
        BY <2>1
      <3>2. replies' = Put(replies, d, reply)
        BY <1>1, <2>1 DEF Answer
      <3> HIDE DEF d
      <3> QED
        BY <1>1, <3>1, <3>2 DEF Answer, Put, Returns, Ok, Garbled, HttpError
    <2>2. CASE ~\E c \in DOMAIN awaiting : awaiting[c] = r
      BY <1>1, <2>2 DEF Answer, Returns
    <2> QED
      BY <2>1, <2>2
  <1> QED
    BY <1>1 DEF Firewall

-----------------------------------------------------------------------------
LEMMA CallsTypedInit == HighRiskInit => CallsTyped
  BY DEF HighRiskInit, ClientInit, CallsTyped, Stage, EmptyDict, Returns

LEMMA CallsTypedStep ==
  CallsTyped /\ [HighRiskNext]_highRiskVars => CallsTyped'
  <1> SUFFICES ASSUME CallsTyped, [HighRiskNext]_highRiskVars PROVE CallsTyped'
    OBVIOUS
  <1>1. ASSUME NEW c \in Call, stage[c] = "idle",
               NEW s \in {"previewed", "tool_error"},
               stage' = [stage EXCEPT ![c] = s], UNCHANGED <<awaiting, replies>>
        PROVE  CallsTyped'
    BY <1>1 DEF CallsTyped, Stage, Returns
  <1>2. ASSUME NEW c \in Call, NEW op \in Op, NEW t \in Token, Preview(c, op, t)
        PROVE  CallsTyped'
    BY <1>1, <1>2 DEF Preview, Moves
  <1>3. ASSUME NEW c \in Call, NEW op \in Op, NEW t \in Token, Confirm(c, op, t)
        PROVE  CallsTyped'
    <2>1. /\ stage[c] = "idle"
          /\ stage' = [stage EXCEPT ![c] = "executing"]
          /\ \E r : awaiting' = Put(awaiting, c, r)
          /\ replies' = replies
      BY <1>3 DEF Confirm, Moves, Send
    <2>2. DOMAIN awaiting' = DOMAIN awaiting \cup {c}
      BY <2>1 DEF Put
    <2> QED
      BY <2>1, <2>2 DEF CallsTyped, Stage, Returns
  <1>4. ASSUME NEW c \in Call, NEW op \in Op, NEW t \in Token, RefuseToken(c, op, t)
        PROVE  CallsTyped'
    BY <1>1, <1>4 DEF RefuseToken, Moves, clientVars
  <1>5. ASSUME NEW c \in Call, NEW op \in Op, RefuseArguments(c, op)
        PROVE  CallsTyped'
    BY <1>1, <1>5 DEF RefuseArguments, Moves, clientVars
  <1>6. ASSUME NEW c \in Call, Finish(c)
        PROVE  CallsTyped'
    <2>1. PICK s \in {"done", "failed", "tool_error", "raised"} :
            stage' = [stage EXCEPT ![c] = s]
      BY <1>6, FinishEnds
    <2>2. /\ DOMAIN awaiting' = DOMAIN awaiting \ {c}
          /\ DOMAIN replies' = DOMAIN replies \ {c}
          /\ \A d \in DOMAIN replies' : replies'[d] = replies[d]
      BY <1>6, FinishEnds DEF Drop
    <2> QED
      BY <2>1, <2>2 DEF CallsTyped, Stage, Returns
  <1>7. ASSUME NEW r \in wire, Firewall(r)
        PROVE  CallsTyped'
    <2>1. /\ stage' = stage
          /\ awaiting' = awaiting
          /\ DOMAIN replies' \subseteq DOMAIN replies \cup DOMAIN awaiting
          /\ \A c : Returns(c)' => (Returns(c) /\ replies'[c] = replies[c])
                                  \/ replies'[c].body \in {"done", "failed"}
      BY <1>7, FirewallMoves
    <2> QED
      BY <2>1 DEF CallsTyped
  <1>8. CASE TimePasses
    BY <1>8 DEF TimePasses, CallsTyped, clientVars, Returns
  <1>9. CASE Restart
    <2>1. stage' = [c \in Call |-> IF stage[c] = "executing" THEN "died" ELSE stage[c]]
      BY <1>9 DEF Restart
    <2>2. DOMAIN awaiting' = {} /\ DOMAIN replies' = {}
      BY <1>9 DEF Restart, ClientRestart, EmptyDict
    <2> QED
      BY <2>1, <2>2 DEF CallsTyped, Stage, Returns
  <1>10. CASE UNCHANGED highRiskVars
    BY <1>10 DEF highRiskVars, clientVars, CallsTyped, Returns
  <1> QED
    BY <1>2, <1>3, <1>4, <1>5, <1>6, <1>7, <1>8, <1>9, <1>10 DEF HighRiskNext

-----------------------------------------------------------------------------
(* What was sent corresponds to what was confirmed.                          *)

(* As long as nothing is sent, there is no more to hold to the ledger. *)
LEMMA NothingSent ==
  ASSUME HighRiskInv, [StoreNext]_storeVars, Requests' \subseteq Requests
  PROVE  RequestsAsPreviewed' /\ OneRequestPerToken'
  <1>1. OneRequestPerToken'
    BY DEF HighRiskInv, OneRequestPerToken
  <1>2. ASSUME NEW r \in Requests
        PROVE  /\ r.token \in DOMAIN issued'
               /\ r.path = Path(issued'[r.token])
               /\ r.data = issued'[r.token].arguments.data
               /\ \E i \in DOMAIN ledger' : ledger'[i].token = r.token
    <2>1. /\ r.token \in DOMAIN issued
          /\ r.path = Path(issued[r.token])
          /\ r.data = issued[r.token].arguments.data
          /\ \E i \in DOMAIN ledger : ledger[i].token = r.token
      BY DEF HighRiskInv, RequestsAsPreviewed
    <2> QED
      BY <2>1, StoreGrows DEF HighRiskInv
  <1> QED
    BY <1>1, <1>2 DEF RequestsAsPreviewed

(* A confirmation sends one request, as previewed, under a token of which no
   request was sent before. *)
LEMMA ConfirmSends ==
  ASSUME HighRiskInv, NEW c \in Call, NEW op \in Op, NEW t \in Token, Confirm(c, op, t)
  PROVE  RequestsAsPreviewed' /\ OneRequestPerToken'
  <1> DEFINE r == Request(<<c, "execute">>, "POST", Path(op), op.arguments.data, t)
  <1>1. r.token = t /\ r.path = Path(op) /\ r.data = op.arguments.data
    BY DEF Request
  <1>2. /\ Consume(t, op.tool_name, op.arguments)
        /\ Requests' = Requests \cup {r}
    BY DEF Confirm, Send, Requests
  <1> HIDE DEF r
  <1>3. [StoreNext]_storeVars
    BY <1>2, OpTyped DEF StoreNext, StoreCall
  <1>4. /\ t \in DOMAIN issued
        /\ issued[t].tool_name = op.tool_name
        /\ issued[t].arguments = op.arguments
        /\ issued' = issued
        /\ \E i \in DOMAIN ledger' : ledger'[i].token = t
        /\ \A i \in DOMAIN ledger : ledger[i].token # t
    BY <1>2, OpTyped, ConsumeSpends DEF HighRiskInv
  <1>6. \A q \in Requests : q.token # t
    BY <1>4 DEF HighRiskInv, RequestsAsPreviewed
  <1>7. OneRequestPerToken'
    BY <1>1, <1>2, <1>6 DEF HighRiskInv, OneRequestPerToken
  <1>8. ASSUME NEW q \in Requests
        PROVE  /\ q.token \in DOMAIN issued'
               /\ q.path = Path(issued'[q.token])
               /\ q.data = issued'[q.token].arguments.data
               /\ \E i \in DOMAIN ledger' : ledger'[i].token = q.token
    <2>1. /\ q.token \in DOMAIN issued
          /\ q.path = Path(issued[q.token])
          /\ q.data = issued[q.token].arguments.data
          /\ \E i \in DOMAIN ledger : ledger[i].token = q.token
      BY DEF HighRiskInv, RequestsAsPreviewed
    <2> QED
      BY <2>1, <1>3, StoreGrows DEF HighRiskInv
  <1>9. /\ r.token \in DOMAIN issued'
        /\ r.path = Path(issued'[r.token])
        /\ r.data = issued'[r.token].arguments.data
        /\ \E i \in DOMAIN ledger' : ledger'[i].token = r.token
    BY <1>1, <1>4 DEF Path
  <1> QED
    BY <1>2, <1>7, <1>8, <1>9 DEF RequestsAsPreviewed

LEMMA HighRiskInitInv == HighRiskInit => HighRiskInv
  <1> SUFFICES ASSUME HighRiskInit PROVE HighRiskInv
    OBVIOUS
  <1>1. Requests = {}
    BY DEF HighRiskInit, ClientInit, Requests
  <1> QED
    BY <1>1, InitInv, CallsTypedInit
       DEF HighRiskInit, HighRiskInv, RequestsAsPreviewed, OneRequestPerToken

LEMMA HighRiskNextInv == HighRiskInv /\ [HighRiskNext]_highRiskVars => HighRiskInv'
  <1> SUFFICES ASSUME HighRiskInv, [HighRiskNext]_highRiskVars PROVE HighRiskInv'
    OBVIOUS
  <1>1. [StoreNext]_storeVars
    BY StepsOfStore
  <1>2. StoreInv' /\ CallsTyped'
    BY <1>1, NextInv, CallsTypedStep DEF HighRiskInv
  <1>3. RequestsAsPreviewed' /\ OneRequestPerToken'
    <2>1. ASSUME NEW c \in Call, NEW op \in Op, NEW t \in Token, Preview(c, op, t)
          PROVE  Requests' = Requests
      BY <2>1 DEF Preview, Requests
    <2>2. ASSUME NEW c \in Call, NEW op \in Op, NEW t \in Token, RefuseToken(c, op, t)
          PROVE  Requests' = Requests
      BY <2>2 DEF RefuseToken, Requests, clientVars
    <2>3. ASSUME NEW c \in Call, NEW op \in Op, RefuseArguments(c, op)
          PROVE  Requests' = Requests
      BY <2>3 DEF RefuseArguments, Requests, clientVars
    <2>4. ASSUME NEW c \in Call, Finish(c)
          PROVE  Requests' \subseteq Requests
      BY <2>4, FinishEnds DEF Requests
    <2>5. ASSUME NEW r \in wire, Firewall(r)
          PROVE  Requests' \subseteq Requests
      BY <2>5, FirewallMoves DEF Requests
    <2>6. CASE TimePasses \/ Restart \/ UNCHANGED highRiskVars
      <3>1. Requests' = Requests
        BY <2>6 DEF TimePasses, Restart, ClientRestart, highRiskVars, clientVars, Requests
      <3> QED
        BY <3>1, <1>1, NothingSent
    <2>7. ASSUME Requests' \subseteq Requests
          PROVE  RequestsAsPreviewed' /\ OneRequestPerToken'
      BY <2>7, <1>1, NothingSent
    <2> QED
      BY <2>1, <2>2, <2>3, <2>4, <2>5, <2>6, <2>7, ConfirmSends DEF HighRiskNext
  <1> QED
    BY <1>2, <1>3 DEF HighRiskInv

LEMMA HighRiskInvariance == HighRiskSpec => []HighRiskInv
  BY HighRiskInitInv, HighRiskNextInv, PTL DEF HighRiskSpec

-----------------------------------------------------------------------------
(* The variables of the store, the client and the calls keep their types, and
   a call has a request out exactly while it executes (highrisk.py:34-44). *)
THEOREM LayerTypeCorrect == HighRiskSpec => []HighRiskTypeOK
  <1>1. HighRiskInv => HighRiskTypeOK
    BY DEF HighRiskInv, StoreInv, CallsTyped, HighRiskTypeOK
  <1> QED
    BY <1>1, HighRiskInvariance, PTL

(* consume before execute (highrisk.py:43-44) makes one request at most of a
   confirmation, for any number of callers and tokens, with timeouts, requests
   processed late, cancellations and restarts. *)
THEOREM ConfirmationsBuyOneRequest == HighRiskSpec => []OneRequestPerToken
  BY HighRiskInvariance, PTL DEF HighRiskInv

(* Whatever is on its way to the firewall, or was carried out, was previewed
   and confirmed under the token it carries: its path and its body. *)
THEOREM RequestsArePreviewed == HighRiskSpec => []RequestsAsPreviewed
  BY HighRiskInvariance, PTL DEF HighRiskInv

LEMMA LayerDrivesTheStore == HighRiskSpec => StoreSpec
  <1>1. HighRiskInit => StoreInit
    BY DEF HighRiskInit
  <1> QED
    BY <1>1, StepsOfStore, PTL DEF HighRiskSpec, StoreSpec

(* What was proved of the store holds of it while the calls of the five tools
   drive it (highrisk.py:28-43): they cost each other no offer, what is in the
   dict after a call is still confirmable, and expiry is as by a timer. *)
THEOREM LayerKeepsTheStore == HighRiskSpec => OfferIsKept /\ CallsEvict /\ EagerSpec
  BY LayerDrivesTheStore, CallsKeepTheOffersOfOthers, NoDeadEntries, LazyExpiryIsEager, PTL

-----------------------------------------------------------------------------
(* The audit trail.                                                          *)

(* The operation of a token was previewed, and confirmed, as this path. *)
AsConfirmed(token, path) ==
  /\ token \in DOMAIN issued
  /\ path = Path(issued[token])
  /\ \E i \in DOMAIN ledger : ledger[i].token = token

AwaitedAsConfirmed ==
  \A c \in DOMAIN awaiting :
    /\ awaiting[c].req_id = <<c, "execute">>
    /\ AsConfirmed(awaiting[c].token, awaiting[c].path)

(* How a call ends when the client knows of it. *)
Returned == {"done", "failed", "tool_error"}

(* A request belongs to a call, and the call is in a record once it has ended
   in a way the client knows of. *)
RequestsOfCalls ==
  \A r \in Requests :
    \E c \in Call :
      /\ r.req_id = <<c, "execute">>
      /\ stage[c] \notin {"idle", "previewed"}
      /\ stage[c] = "executing" => awaiting[c] = r
      /\ stage[c] \in Returned => \E e \in log : e.req_id = r.req_id

RecordsOfCalls ==
  \A e \in log : e.outcome # "preview" \/ e.status_code # None =>
    /\ \E c \in Call : /\ e.req_id = <<c, "execute">>
                       /\ stage[c] \notin {"idle", "previewed", "executing"}
    /\ AsConfirmed(e.token, e.path)

IssuedAreLogged ==
  \A t \in DOMAIN issued :
    \E p \in log : p.outcome = "preview" /\ p.token = t /\ p.tool = issued[t].tool_name

Says(c, word) == Returns(c) /\ replies[c].body = word

(* What was answered is no longer on its way, and what the answer says of it
   is so. *)
RepliesAreTrue ==
  \A c \in DOMAIN replies :
    /\ awaiting[c] \notin wire
    /\ Says(c, "done") => awaiting[c] \in performed
    /\ Says(c, "failed") => awaiting[c] \notin performed

AuditInv ==
  /\ AwaitedAsConfirmed
  /\ RequestsOfCalls
  /\ RecordsOfCalls
  /\ IssuedAreLogged
  /\ RepliesAreTrue
  /\ wire \cap performed = {}
  /\ ReportsAreTrue

(* What was confirmed stays confirmed. *)
LEMMA ConfirmedStays ==
  ASSUME StoreInv, [StoreNext]_storeVars
  PROVE  \A t, p : AsConfirmed(t, p) => AsConfirmed(t, p)'
  BY StoreGrows DEF AsConfirmed, Path

(* A call in stage idle has neither a request nor a record, and can be
   refused without one. *)
LEMMA IdleMoves ==
  ASSUME AuditInv, HighRiskInv, [StoreNext]_storeVars, issued' = issued,
         UNCHANGED <<clientVars, performed>>,
         \/ stage' = stage
         \/ \E c \in Call : stage[c] = "idle" /\ stage' = [stage EXCEPT ![c] = "tool_error"]
  PROVE  AuditInv'
  <1>0. /\ awaiting' = awaiting /\ wire' = wire /\ replies' = replies /\ log' = log
        /\ performed' = performed
        /\ Requests' = Requests
        /\ stage \in [Call -> Stage]
        /\ \A c \in Call : stage[c] # "idle" => stage'[c] = stage[c]
    BY DEF clientVars, Requests, HighRiskInv, CallsTyped
  <1>1. AwaitedAsConfirmed'
    BY <1>0, ConfirmedStays DEF AuditInv, AwaitedAsConfirmed, AsConfirmed, HighRiskInv
  <1>2. RequestsOfCalls'
    BY <1>0 DEF AuditInv, RequestsOfCalls
  <1>3. RecordsOfCalls'
    BY <1>0, ConfirmedStays DEF AuditInv, RecordsOfCalls, AsConfirmed, HighRiskInv
  <1>4. IssuedAreLogged' /\ RepliesAreTrue' /\ (wire \cap performed = {})'
    BY <1>0 DEF AuditInv, IssuedAreLogged, RepliesAreTrue, Says, Returns
  <1>5. ReportsAreTrue'
    <2>1. \A c \in Call : stage'[c] \in {"done", "failed"} => stage'[c] = stage[c]
      BY <1>0
    <2> QED
      BY <2>1, <1>0 DEF AuditInv, ReportsAreTrue
  <1> QED
    BY <1>1, <1>2, <1>3, <1>4, <1>5 DEF AuditInv

LEMMA PreviewAudited ==
  ASSUME AuditInv, HighRiskInv, NEW c \in Call, NEW op \in Op, NEW t \in Token,
         Preview(c, op, t)
  PROVE  AuditInv'
  <1> DEFINE p == PreviewRecord(<<c, "preview">>, op.tool_name, t)
  <1>0. /\ p.outcome = "preview" /\ p.token = t /\ p.tool = op.tool_name
        /\ p.status_code = None
        /\ log' = log \cup {p}
        /\ awaiting' = awaiting /\ wire' = wire /\ replies' = replies
        /\ performed' = performed
        /\ stage[c] = "idle"
        /\ stage' = [stage EXCEPT ![c] = "previewed"]
        /\ Requests' = Requests
    BY DEF Preview, PreviewRecord, Moves, Requests
  <1> HIDE DEF p
  <1>1. /\ t \notin DOMAIN issued
        /\ DOMAIN issued' = DOMAIN issued \cup {t}
        /\ issued'[t].tool_name = op.tool_name
        /\ \A x \in DOMAIN issued : issued'[x] = issued[x]
    BY DEF Preview, Create, Put
  <1>2. \A x, y : AsConfirmed(x, y) => AsConfirmed(x, y)'
    BY StepsOfStore, ConfirmedStays DEF HighRiskInv, HighRiskNext
  <1>3. /\ stage \in [Call -> Stage]
        /\ \A d \in Call : stage[d] # "idle" => stage'[d] = stage[d]
    BY <1>0 DEF HighRiskInv, CallsTyped
  <1>4. AwaitedAsConfirmed'
    BY <1>0, <1>2 DEF AuditInv, AwaitedAsConfirmed, AsConfirmed
  <1>5. RequestsOfCalls'
    BY <1>0, <1>3 DEF AuditInv, RequestsOfCalls
  <1>6. RecordsOfCalls'
    BY <1>0, <1>2, <1>3 DEF AuditInv, RecordsOfCalls, AsConfirmed
  <1>7. IssuedAreLogged'
    BY <1>0, <1>1 DEF AuditInv, IssuedAreLogged
  <1>8. RepliesAreTrue' /\ (wire \cap performed = {})'
    BY <1>0 DEF AuditInv, RepliesAreTrue, Says, Returns
  <1>9. ReportsAreTrue'
    <2>1. \A d \in Call : stage'[d] \in {"done", "failed"} => stage'[d] = stage[d]
      BY <1>0 DEF HighRiskInv, CallsTyped
    <2> QED
      BY <2>1, <1>0 DEF AuditInv, ReportsAreTrue
  <1> QED
    BY <1>4, <1>5, <1>6, <1>7, <1>8, <1>9 DEF AuditInv

LEMMA ConfirmAudited ==
  ASSUME AuditInv, HighRiskInv, NEW c \in Call, NEW op \in Op, NEW t \in Token,
         Confirm(c, op, t)
  PROVE  AuditInv'
  <1> DEFINE r == Request(<<c, "execute">>, "POST", Path(op), op.arguments.data, t)
  <1>0. /\ r.req_id = <<c, "execute">> /\ r.token = t /\ r.path = Path(op)
        /\ stage[c] = "idle"
        /\ stage' = [stage EXCEPT ![c] = "executing"]
        /\ awaiting' = Put(awaiting, c, r)
        /\ wire' = wire \cup {r}
        /\ replies' = replies /\ log' = log /\ performed' = performed
        /\ Requests' = Requests \cup {r}
    BY DEF Confirm, Request, Moves, Send, Requests
  <1>1. r \in Requests' /\ HighRiskInv'
    BY <1>0, HighRiskNextInv DEF HighRiskNext
  <1> HIDE DEF r
  <1>2. /\ c \notin DOMAIN awaiting
        /\ DOMAIN awaiting' = DOMAIN awaiting \cup {c}
        /\ awaiting'[c] = r
        /\ \A d \in DOMAIN awaiting : awaiting'[d] = awaiting[d]
    BY <1>0 DEF Put, HighRiskInv, CallsTyped
  <1>3. /\ \A x, y : AsConfirmed(x, y) => AsConfirmed(x, y)'
        /\ issued' = issued
    BY StepsOfStore, ConfirmedStays DEF HighRiskInv, HighRiskNext, Confirm, Consume
  <1>4. /\ stage \in [Call -> Stage]
        /\ stage'[c] = "executing"
        /\ \A d \in Call : d # c => stage'[d] = stage[d]
    BY <1>0 DEF HighRiskInv, CallsTyped
  <1>5. \A q \in Requests : q.req_id # r.req_id
    BY <1>0 DEF AuditInv, RequestsOfCalls
  <1>6. AwaitedAsConfirmed'
    <2>1. AsConfirmed(r.token, r.path)'
      BY <1>1 DEF HighRiskInv, RequestsAsPreviewed, AsConfirmed, r
    <2>2. AsConfirmed(t, Path(op))'
      BY <2>1, <1>0 DEF AsConfirmed, Path, r
    <2> QED
      BY <2>2, <1>0, <1>2, <1>3 DEF AuditInv, AwaitedAsConfirmed, AsConfirmed
  <1>7. RequestsOfCalls'
    <2>1. ASSUME NEW q \in Requests
          PROVE  \E d \in Call :
                   /\ q.req_id = <<d, "execute">>
                   /\ stage'[d] \notin {"idle", "previewed"}
                   /\ stage'[d] = "executing" => awaiting'[d] = q
                   /\ stage'[d] \in Returned => \E e \in log' : e.req_id = q.req_id
      <3>1. PICK d \in Call :
              /\ q.req_id = <<d, "execute">>
              /\ stage[d] \notin {"idle", "previewed"}
              /\ stage[d] = "executing" => awaiting[d] = q
              /\ stage[d] \in Returned => \E e \in log : e.req_id = q.req_id
        BY DEF AuditInv, RequestsOfCalls
      <3>2. d # c /\ (stage[d] = "executing" => d \in DOMAIN awaiting)
        BY <1>0, <3>1 DEF HighRiskInv, CallsTyped
      <3> QED
        BY <3>1, <3>2, <1>0, <1>2, <1>4
    <2> QED
      BY <2>1, <1>0, <1>2, <1>4 DEF RequestsOfCalls, Returned
  <1>8. RecordsOfCalls'
    BY <1>0, <1>3, <1>4 DEF AuditInv, RecordsOfCalls, AsConfirmed
  <1>9. IssuedAreLogged'
    BY <1>0, <1>3 DEF AuditInv, IssuedAreLogged
  <1>10. RepliesAreTrue'
    <2>1. \A d \in DOMAIN awaiting : awaiting[d].req_id # r.req_id
      BY <1>0, <1>2 DEF AuditInv, AwaitedAsConfirmed
    <2>2. \A d \in DOMAIN replies : d \in DOMAIN awaiting
      BY DEF HighRiskInv, CallsTyped
    <2> QED
      BY <2>1, <2>2, <1>0, <1>2 DEF AuditInv, RepliesAreTrue, Says, Returns
  <1>11. (wire \cap performed = {})'
    BY <1>0, <1>5 DEF AuditInv, Requests
  <1>12. ReportsAreTrue'
    <2>1. ASSUME NEW e \in log, e.outcome # "preview" \/ e.status_code # None
          PROVE  e.req_id # r.req_id
      BY <2>1, <1>0 DEF AuditInv, RecordsOfCalls
    <2>2. ASSUME NEW d \in Call, stage'[d] \in {"done", "failed"}
          PROVE  stage'[d] = stage[d] /\ r.req_id[1] # d
      BY <2>2, <1>0, <1>4
    <2> QED
      BY <2>1, <2>2, <1>0 DEF AuditInv, ReportsAreTrue
  <1> QED
    BY <1>6, <1>7, <1>8, <1>9, <1>10, <1>11, <1>12 DEF AuditInv

(* What the end of an exchange adds to the log is about the request of the
   call, and says what became of it. *)
LEMMA FinishLogs ==
  ASSUME CallsTyped, NEW c \in Call, Finish(c)
  PROVE  /\ log \subseteq log'
         /\ \A e \in log' \ log :
              /\ e.req_id = awaiting[c].req_id
              /\ e.path = awaiting[c].path
              /\ e.token = awaiting[c].token
              /\ e.status_code # None => c \in DOMAIN replies
              /\ e.outcome = "error" /\ e.status_code = None =>
                   awaiting[c] \in wire /\ wire' = wire \ {awaiting[c]}
         /\ stage'[c] \in Returned =>
              \E e \in log' : e.req_id = awaiting[c].req_id
  <1>0. ASSUME NEW status_code, NEW outcome,
               log' = log \cup {Record(awaiting[c], status_code, outcome)},
               status_code # None => c \in DOMAIN replies,
               outcome = "error" /\ status_code = None =>
                 awaiting[c] \in wire /\ wire' = wire \ {awaiting[c]}
        PROVE  /\ \A e \in log' \ log :
                    /\ e.req_id = awaiting[c].req_id
                    /\ e.path = awaiting[c].path
                    /\ e.token = awaiting[c].token
                    /\ e.status_code # None => c \in DOMAIN replies
                    /\ e.outcome = "error" /\ e.status_code = None =>
                         awaiting[c] \in wire /\ wire' = wire \ {awaiting[c]}
               /\ log \subseteq log'
               /\ \E e \in log' : e.req_id = awaiting[c].req_id
    <2> DEFINE n == Record(awaiting[c], status_code, outcome)
    <2>1. /\ n.req_id = awaiting[c].req_id /\ n.path = awaiting[c].path
          /\ n.token = awaiting[c].token /\ n.outcome = outcome
          /\ n.status_code = status_code
      BY DEF Record
    <2>2. log' = log \cup {n}
      BY <1>0
    <2> HIDE DEF n
    <2> QED
      BY <1>0, <2>1, <2>2
  <1>1. CASE Succeed(c, {}, {})
    <2>1. /\ log' = log \cup {Record(awaiting[c], 200, "success")}
          /\ c \in DOMAIN replies
      BY <1>1 DEF Succeed, Returns, Logs
    <2> QED
      BY <2>1, <1>0
  <1>2. CASE Refused(c, {})
    <2>1. /\ log' = log \cup {Record(awaiting[c], 500, "error")}
          /\ c \in DOMAIN replies
      BY <1>2 DEF Refused, Logs
    <2> QED
      BY <2>1, <1>0, StatusAssumption
  <1>3. CASE ConnectFails(c, {})
    <2>1. /\ \E outcome \in {"timeout", "error"} :
               log' = log \cup {Record(awaiting[c], None, outcome)}
          /\ awaiting[c] \in wire /\ wire' = wire \ {awaiting[c]}
      BY <1>3 DEF ConnectFails, Logs
    <2> QED
      BY <2>1, <1>0
  <1>4. CASE ReadTimesOut(c, {})
    <2>1. log' = log \cup {Record(awaiting[c], None, "timeout")}
      BY <1>4 DEF ReadTimesOut, Logs
    <2> QED
      BY <2>1, <1>0
  <1>5. CASE BodyIsNoJson(c)
    <2>1. /\ log' = log \cup {Record(awaiting[c], 200, "success")}
          /\ c \in DOMAIN replies
      BY <1>5 DEF BodyIsNoJson, Garbled, Logs
    <2> QED
      BY <2>1, <1>0
  <1>6. CASE Escapes(c) /\ Moves(c, "executing", "raised")
    <2>1. log' = log /\ stage' = [stage EXCEPT ![c] = "raised"]
      BY <1>6 DEF Escapes, Moves
    <2> QED
      BY <2>1 DEF CallsTyped, Returned
  <1> QED
    BY <1>1, <1>2, <1>3, <1>4, <1>5, <1>6 DEF Finish, RaisesToolError, RaisesOther

(* A call ends in what the reply says. *)
LEMMA FinishSays ==
  ASSUME CallsTyped, NEW c \in Call, Finish(c)
  PROVE  \A word \in {"done", "failed"} : stage'[c] = word => Says(c, word)
  <1>1. \/ Returns(c) /\ stage' = [stage EXCEPT ![c] = replies[c].body]
        \/ \E s \in {"tool_error", "raised"} : stage' = [stage EXCEPT ![c] = s]
    BY DEF Finish, Succeed, Moves
  <1> QED
    BY <1>1 DEF CallsTyped, Says

LEMMA FinishAudited ==
  ASSUME AuditInv, HighRiskInv, NEW c \in Call, Finish(c)
  PROVE  AuditInv'
  <1>0. /\ stage[c] = "executing"
        /\ c \in DOMAIN awaiting
        /\ stage'[c] \in Returned \cup {"raised"}
        /\ \A d \in Call : d # c => stage'[d] = stage[d]
    BY FinishEnds DEF HighRiskInv, CallsTyped, Returned
  <1>1. /\ DOMAIN awaiting' = DOMAIN awaiting \ {c}
        /\ \A d \in DOMAIN awaiting' : awaiting'[d] = awaiting[d]
        /\ DOMAIN replies' = DOMAIN replies \ {c}
        /\ \A d \in DOMAIN replies' : replies'[d] = replies[d]
        /\ wire' \subseteq wire /\ performed' = performed
        /\ Requests' \subseteq Requests
        /\ UNCHANGED <<issued, ledger>>
    BY FinishEnds DEF Drop, Requests, storeVars
  <1>2. /\ log \subseteq log'
        /\ \A e \in log' \ log :
             /\ e.req_id = awaiting[c].req_id
             /\ e.path = awaiting[c].path
             /\ e.token = awaiting[c].token
             /\ e.status_code # None => c \in DOMAIN replies
             /\ e.outcome = "error" /\ e.status_code = None =>
                  awaiting[c] \in wire /\ wire' = wire \ {awaiting[c]}
        /\ stage'[c] \in Returned =>
             \E e \in log' : e.req_id = awaiting[c].req_id
    BY FinishLogs DEF HighRiskInv
  <1>3. /\ awaiting[c].req_id = <<c, "execute">>
        /\ AsConfirmed(awaiting[c].token, awaiting[c].path)
    BY <1>0 DEF AuditInv, AwaitedAsConfirmed
  <1>4. \A r \in Requests : r.req_id = awaiting[c].req_id => r = awaiting[c]
    BY <1>0, <1>3 DEF AuditInv, RequestsOfCalls
  <1>5. AwaitedAsConfirmed'
    BY <1>1 DEF AuditInv, AwaitedAsConfirmed, AsConfirmed, Path
  <1>6. RequestsOfCalls'
    <2> SUFFICES ASSUME NEW r \in Requests'
                 PROVE  \E d \in Call :
                          /\ r.req_id = <<d, "execute">>
                          /\ stage'[d] \notin {"idle", "previewed"}
                          /\ stage'[d] = "executing" => awaiting'[d] = r
                          /\ stage'[d] \in Returned =>
                               \E e \in log' : e.req_id = r.req_id
      BY DEF RequestsOfCalls
    <2>1. PICK d \in Call :
            /\ r.req_id = <<d, "execute">>
            /\ stage[d] \notin {"idle", "previewed"}
            /\ stage[d] = "executing" => awaiting[d] = r
            /\ stage[d] \in Returned => \E e \in log : e.req_id = r.req_id
      BY <1>1 DEF AuditInv, RequestsOfCalls
    <2>2. CASE d = c
      BY <2>1, <2>2, <1>0, <1>2 DEF Returned
    <2>3. CASE d # c
      <3>1. stage[d] = "executing" => d \in DOMAIN awaiting'
        BY <2>3, <1>1 DEF HighRiskInv, CallsTyped
      <3> QED
        BY <2>1, <2>3, <3>1, <1>0, <1>1, <1>2
    <2> QED
      BY <2>2, <2>3
  <1>7. RecordsOfCalls'
    <2>1. ASSUME NEW e \in log, e.outcome # "preview" \/ e.status_code # None
          PROVE  /\ \E d \in Call : /\ e.req_id = <<d, "execute">>
                                    /\ stage'[d] \notin {"idle", "previewed", "executing"}
                 /\ AsConfirmed(e.token, e.path)
      BY <2>1, <1>0 DEF AuditInv, RecordsOfCalls
    <2>2. ASSUME NEW e \in log' \ log
          PROVE  /\ \E d \in Call : /\ e.req_id = <<d, "execute">>
                                    /\ stage'[d] \notin {"idle", "previewed", "executing"}
                 /\ AsConfirmed(e.token, e.path)
      BY <1>0, <1>2, <1>3 DEF Returned
    <2> QED
      BY <2>1, <2>2, <1>1 DEF RecordsOfCalls, AsConfirmed, Path
  <1>8. IssuedAreLogged'
    BY <1>1, <1>2 DEF AuditInv, IssuedAreLogged
  <1>9. RepliesAreTrue'
    BY <1>1 DEF AuditInv, RepliesAreTrue, HighRiskInv, CallsTyped, Says, Returns
  <1>10. (wire \cap performed = {})'
    BY <1>1 DEF AuditInv
  <1>11. ReportsAreTrue'
    <2>1. ASSUME NEW e \in log' \ log, e.status_code # None, NEW r \in wire'
          PROVE  r.req_id # e.req_id
      <3>1. awaiting[c] \notin wire /\ r \in wire /\ e.req_id = awaiting[c].req_id
        BY <2>1, <1>1, <1>2 DEF AuditInv, RepliesAreTrue
      <3> QED
        BY <3>1, <1>4 DEF Requests
    <2>2. ASSUME NEW e \in log' \ log, e.outcome = "error", e.status_code = None,
                 NEW r \in Requests'
          PROVE  r.req_id # e.req_id
      <3>1. r \in Requests /\ e.req_id = awaiting[c].req_id
        BY <2>2, <1>1, <1>2
      <3>2. awaiting[c] \notin Requests'
        BY <2>2, <1>1, <1>2 DEF AuditInv, Requests
      <3> QED
        BY <3>1, <3>2, <1>4
    <2>3. stage'[c] = "done" => \E r \in performed : r.req_id[1] = c
      BY <1>3, FinishSays DEF HighRiskInv, AuditInv, RepliesAreTrue, Says, Returns
    <2>4. stage'[c] = "failed" => \A r \in Requests' : r.req_id[1] # c
      <3> SUFFICES ASSUME stage'[c] = "failed", NEW r \in Requests', r.req_id[1] = c
                   PROVE  FALSE
        OBVIOUS
      <3>1. awaiting[c] \notin Requests
        BY FinishSays DEF HighRiskInv, AuditInv, RepliesAreTrue, Says, Returns, Requests
      <3>2. r \in Requests /\ r.req_id = <<c, "execute">>
        BY <1>1 DEF AuditInv, RequestsOfCalls
      <3> QED
        BY <3>1, <3>2, <1>3, <1>4
    <2>5. \A d \in Call : /\ stage'[d] = "done" => \E r \in performed' : r.req_id[1] = d
                          /\ stage'[d] = "failed" => \A r \in Requests' : r.req_id[1] # d
      BY <2>3, <2>4, <1>0, <1>1 DEF AuditInv, ReportsAreTrue
    <2>6. \A e \in log' :
            /\ e.status_code # None => \A r \in wire' : r.req_id # e.req_id
            /\ e.outcome = "error" /\ e.status_code = None
                 => \A r \in Requests' : r.req_id # e.req_id
      BY <2>1, <2>2, <1>1 DEF AuditInv, ReportsAreTrue
    <2> QED
      BY <2>5, <2>6 DEF ReportsAreTrue
  <1> QED
    BY <1>5, <1>6, <1>7, <1>8, <1>9, <1>10, <1>11 DEF AuditInv

(* A new reply goes to a call that waits for it, and says what was done. *)
LEMMA FirewallTellsTheTruth ==
  ASSUME NEW r \in wire, wire \cap performed = {}, Firewall(r)
  PROVE  /\ wire' = wire \ {r}
         /\ performed \subseteq performed'
         /\ performed' \subseteq performed \cup {r}
         /\ \A c \in DOMAIN replies' :
              \/ c \in DOMAIN replies /\ replies'[c] = replies[c]
              \/ /\ awaiting[c] = r
                 /\ Says(c, "done")' => r \in performed'
                 /\ Says(c, "failed")' => r \notin performed'
         /\ UNCHANGED <<log, awaiting, stage, storeVars>>
  <1>1. ASSUME NEW reply, Answer(r, reply),
               reply.body = "done" => r \in performed' \/ reply.body = None,
               reply.body = "failed" => r \notin performed' \/ reply.body = None
        PROVE  /\ wire' = wire \ {r}
               /\ \A c \in DOMAIN replies' :
                    \/ c \in DOMAIN replies /\ replies'[c] = replies[c]
                    \/ /\ awaiting[c] = r
                       /\ Says(c, "done")' => r \in performed'
                       /\ Says(c, "failed")' => r \notin performed'
               /\ UNCHANGED <<log, awaiting>>
    <2>1. CASE \E c \in DOMAIN awaiting : awaiting[c] = r
      <3> DEFINE d == CHOOSE c \in DOMAIN awaiting : awaiting[c] = r
      <3>1. d \in DOMAIN awaiting /\ awaiting[d] = r
        BY <2>1
      <3>2. replies' = Put(replies, d, reply)
        BY <1>1, <2>1 DEF Answer
      <3> HIDE DEF d
      <3> QED
        BY <1>1, <3>1, <3>2 DEF Answer, Put, Says, Returns
    <2>2. CASE ~\E c \in DOMAIN awaiting : awaiting[c] = r
      BY <1>1, <2>2 DEF Answer
    <2> QED
      BY <2>1, <2>2
  <1>2. CASE performed' = performed \cup {r}
    <2>1. performed' # performed
      BY <1>2
    <2>2. PICK reply \in {Ok("done"), Garbled, HttpError} : Answer(r, reply)
      BY <2>1 DEF Firewall
    <2>3. reply.body \in {"done", None} /\ r \in performed'
      BY <1>2, <2>2 DEF Ok, Garbled, HttpError
    <2> QED
      BY <1>1, <1>2, <2>2, <2>3 DEF Firewall
  <1>3. CASE performed' = performed
    <2>1. r \notin performed'
      BY <1>3
    <2>2. PICK reply \in {Ok("failed"), Garbled, HttpError} : Answer(r, reply)
      BY <1>3, <2>1 DEF Firewall
    <2>3. reply.body \in {"failed", None}
      BY <2>2 DEF Ok, Garbled, HttpError
    <2> QED
      BY <1>1, <1>3, <2>1, <2>2, <2>3 DEF Firewall
  <1> QED
    BY <1>2, <1>3 DEF Firewall

LEMMA FirewallAudited ==
  ASSUME AuditInv, HighRiskInv, NEW r \in wire, Firewall(r)
  PROVE  AuditInv'
  <1>1. /\ wire' = wire \ {r}
        /\ performed \subseteq performed'
        /\ performed' \subseteq performed \cup {r}
        /\ Requests' \subseteq Requests
        /\ log' = log /\ awaiting' = awaiting /\ stage' = stage
        /\ issued' = issued /\ ledger' = ledger
    BY FirewallTellsTheTruth DEF AuditInv, Requests, storeVars
  <1>2. AwaitedAsConfirmed' /\ RequestsOfCalls' /\ RecordsOfCalls' /\ IssuedAreLogged'
    BY <1>1 DEF AuditInv, AwaitedAsConfirmed, RequestsOfCalls, RecordsOfCalls,
                IssuedAreLogged, AsConfirmed, Path
  <1>3. RepliesAreTrue'
    <2>1. ASSUME NEW c \in DOMAIN replies', c \in DOMAIN replies, replies'[c] = replies[c]
          PROVE  /\ awaiting'[c] \notin wire'
                 /\ Says(c, "done")' => awaiting'[c] \in performed'
                 /\ Says(c, "failed")' => awaiting'[c] \notin performed'
      BY <2>1, <1>1 DEF AuditInv, RepliesAreTrue, Says, Returns
    <2> QED
      BY <2>1, <1>1, FirewallTellsTheTruth DEF AuditInv, RepliesAreTrue
  <1>4. (wire \cap performed = {})'
    BY <1>1 DEF AuditInv
  <1>5. ReportsAreTrue'
    BY <1>1 DEF AuditInv, ReportsAreTrue
  <1> QED
    BY <1>2, <1>3, <1>4, <1>5 DEF AuditInv

LEMMA RestartAudited ==
  ASSUME AuditInv, HighRiskInv, Restart
  PROVE  AuditInv'
  <1>1. /\ DOMAIN awaiting' = {} /\ DOMAIN replies' = {}
        /\ wire' = wire /\ log' = log /\ performed' = performed
        /\ Requests' = Requests
        /\ issued' = issued /\ ledger' = ledger
        /\ \A c \in Call : stage'[c] = IF stage[c] = "executing" THEN "died" ELSE stage[c]
    BY DEF Restart, StoreRestart, ClientRestart, EmptyDict, Requests
  <1>2. AwaitedAsConfirmed' /\ RepliesAreTrue'
    BY <1>1 DEF AwaitedAsConfirmed, RepliesAreTrue
  <1>3. RequestsOfCalls' /\ RecordsOfCalls'
    BY <1>1 DEF AuditInv, RequestsOfCalls, RecordsOfCalls, AsConfirmed, Path, Returned
  <1>4. IssuedAreLogged' /\ ReportsAreTrue' /\ (wire \cap performed = {})'
    BY <1>1 DEF AuditInv, IssuedAreLogged, ReportsAreTrue
  <1> QED
    BY <1>2, <1>3, <1>4 DEF AuditInv

LEMMA AuditInitInv == HighRiskInit => AuditInv
  <1> SUFFICES ASSUME HighRiskInit PROVE AuditInv
    OBVIOUS
  <1>1. /\ DOMAIN awaiting = {} /\ DOMAIN replies = {} /\ DOMAIN issued = {}
        /\ wire = {} /\ performed = {} /\ Requests = {} /\ log = {}
    BY DEF HighRiskInit, ClientInit, StoreInit, EmptyDict, Requests
  <1> QED
    BY <1>1 DEF AuditInv, AwaitedAsConfirmed, RequestsOfCalls, RecordsOfCalls,
                IssuedAreLogged, RepliesAreTrue, ReportsAreTrue, HighRiskInit

LEMMA AuditNextInv ==
  HighRiskInv /\ AuditInv /\ [HighRiskNext]_highRiskVars => AuditInv'
  <1> SUFFICES ASSUME HighRiskInv, AuditInv, [HighRiskNext]_highRiskVars PROVE AuditInv'
    OBVIOUS
  <1>1. [StoreNext]_storeVars
    BY StepsOfStore
  <1>2. ASSUME NEW c \in Call, NEW op \in Op, NEW t \in Token, RefuseToken(c, op, t)
        PROVE  AuditInv'
    BY <1>1, <1>2, IdleMoves DEF RefuseToken, Moves, Reject, Stage
  <1>3. ASSUME NEW c \in Call, NEW op \in Op, RefuseArguments(c, op)
        PROVE  AuditInv'
    BY <1>1, <1>3, IdleMoves DEF RefuseArguments, Moves, storeVars, Stage
  <1>4. CASE TimePasses \/ UNCHANGED highRiskVars
    BY <1>1, <1>4, IdleMoves DEF TimePasses, Tick, highRiskVars, storeVars
  <1> QED
    BY <1>2, <1>3, <1>4, PreviewAudited, ConfirmAudited, FinishAudited, FirewallAudited,
       RestartAudited DEF HighRiskNext

LEMMA AuditInvariance == HighRiskSpec => [](HighRiskInv /\ AuditInv)
  <1>1. HighRiskInit => HighRiskInv /\ AuditInv
    BY HighRiskInitInv, AuditInitInv
  <1>2. HighRiskInv /\ AuditInv /\ [HighRiskNext]_highRiskVars => (HighRiskInv /\ AuditInv)'
    BY HighRiskNextInv, AuditNextInv
  <1> QED
    BY <1>1, <1>2, PTL DEF HighRiskSpec

(* Between a preview and its confirmation nothing has happened but the preview
   (highrisk.py:34-42), whatever other calls, late requests and restarts do. *)
THEOREM NothingBeforeConfirmation == HighRiskSpec => []PreviewsHaveNoEffect
  <1>1. HighRiskInv /\ AuditInv => PreviewsHaveNoEffect
    BY DEF HighRiskInv, AuditInv, RequestsAsPreviewed, RecordsOfCalls, AsConfirmed, StoreInv,
           SpentIsGone, PreviewsHaveNoEffect
  <1> QED
    BY <1>1, AuditInvariance, PTL

(* Every record of an execution has the record of a preview under its token,
   of the tool it executed (client.py:79-97, highrisk.py:39-43). *)
THEOREM RecordsCorrelate == HighRiskSpec => []ExecutionsCorrelate
  <1>1. AuditInv => ExecutionsCorrelate
    <2> SUFFICES ASSUME AuditInv, NEW e \in log, e.outcome # "preview"
                 PROVE  \E p \in log : /\ p.outcome = "preview"
                                       /\ p.token = e.token
                                       /\ e.path[1] = Endpoint[p.tool]
      BY DEF ExecutionsCorrelate
    <2>1. e.token \in DOMAIN issued /\ e.path = Path(issued[e.token])
      BY DEF AuditInv, RecordsOfCalls, AsConfirmed
    <2>2. PICK p \in log : /\ p.outcome = "preview"
                          /\ p.token = e.token
                          /\ p.tool = issued[e.token].tool_name
      BY <2>1 DEF AuditInv, IssuedAreLogged
    <2>3. e.path[1] = Endpoint[issued[e.token].tool_name]
      BY <2>1 DEF Path
    <2> QED
      BY <2>2, <2>3
  <1> QED
    BY <1>1, AuditInvariance, PTL

(* What run_high_risk returns is true of the firewall (highrisk.py:44), and of
   what client.post logs, a status is the last word on its request and a failure
   to connect the first (client.py:179-217), however late the firewall gets to
   a request and whatever a reply of status 200 says. *)
THEOREM WhatIsReportedIsTrue == HighRiskSpec => []ReportsAreTrue
  BY AuditInvariance, PTL DEF AuditInv

(* What was performed is in the log or still awaited, but for exceptions the
   client does not know and for the end of the process (client.py:179-209). *)
THEOREM ThePerformedIsLogged == HighRiskSpec => []PerformedIsLogged
  <1>1. HighRiskInv /\ AuditInv => PerformedIsLogged
    <2> SUFFICES ASSUME HighRiskInv, AuditInv, NEW r \in performed
                 PROVE  \/ \E c \in DOMAIN awaiting : awaiting[c] = r
                        \/ \E e \in log : e.req_id = r.req_id
                        \/ \E c \in Call : stage[c] \in {"raised", "died"} /\ r.req_id[1] = c
      BY DEF PerformedIsLogged
    <2>1. PICK c \in Call :
            /\ r.req_id = <<c, "execute">>
            /\ stage[c] \notin {"idle", "previewed"}
            /\ stage[c] = "executing" => awaiting[c] = r
            /\ stage[c] \in Returned => \E e \in log : e.req_id = r.req_id
      BY DEF AuditInv, RequestsOfCalls, Requests
    <2>2. stage[c] \in Stage /\ (stage[c] = "executing" => c \in DOMAIN awaiting)
      BY DEF HighRiskInv, CallsTyped
    <2> QED
      BY <2>1, <2>2 DEF Stage, Returned
  <1> QED
    BY <1>1, AuditInvariance, PTL

-----------------------------------------------------------------------------
(* The confirm-then-execute layer implements its promise: every step of      *)
(* HighRisk is a step of ConfirmThenExecute or changes nothing the promise   *)
(* speaks of.                                                                *)
(*                                                                           *)
(* A preview offers, a consume takes, the firewall carries out or refuses,   *)
(* an exchange that fails may withdraw its request.  Offers lapse when the   *)
(* clock ticks and when the process ends; a refused token and an eviction    *)
(* change nothing.  That a request which leaves the wire leaves what is due  *)
(* rests on OneRequestPerToken: no other request looks the same.             *)

OfferOf(op) == [path |-> Path(op), data |-> op.arguments.data]

DueOf(r) == [token |-> r.token, path |-> r.path, data |-> r.data]

(* The variables of the promise, as the layer implements them. *)
Offers ==
  [t \in DOMAIN Unexpired |->
     [path |-> Path(pending[t]), data |-> pending[t].arguments.data]]

Due == {[token |-> r.token, path |-> r.path, data |-> r.data] : r \in wire}

Done == {[token |-> r.token, path |-> r.path, data |-> r.data] : r \in performed}

LEMMA OffersAreUnexpired ==
  Offers = [t \in DOMAIN Unexpired |-> OfferOf(Unexpired[t])]
  BY UnexpiredFacts DEF Offers, OfferOf

LEMMA OffersAreUnexpiredNext ==
  Offers' = [t \in DOMAIN Unexpired' |-> OfferOf(Unexpired'[t])]
  BY DEF Offers, OfferOf, Unexpired, Path

(* While the store's offers stay, so do those of the promise. *)
LEMMA OffersStay ==
  ASSUME Unexpired' = Unexpired
  PROVE  Offers' = Offers
  BY OffersAreUnexpired, OffersAreUnexpiredNext

LEMMA PreviewOffers ==
  ASSUME HighRiskInv, NEW c \in Call, NEW op \in Op, NEW t \in Token, Preview(c, op, t)
  PROVE  Promise!Offer(t)
  <1>1. Eager!Offer(t, op.tool_name, op.arguments)
    BY CreateOffers, OpTyped DEF Preview, HighRiskInv
  <1>2. /\ t \notin DOMAIN issued
        /\ DOMAIN issued' = DOMAIN issued \cup {t}
        /\ DOMAIN Unexpired' = DOMAIN Unexpired \cup {t}
        /\ \A x \in DOMAIN Unexpired : x # t => Unexpired'[x] = Unexpired[x]
    BY <1>1 DEF Eager!Offer
  <1>3. t \notin DOMAIN Unexpired
    BY <1>2, UnexpiredType DEF HighRiskInv, StoreInv
  <1>4. /\ DOMAIN Offers' = DOMAIN Offers \cup {t}
        /\ \A x \in DOMAIN Offers : Offers'[x] = Offers[x]
    BY <1>2, <1>3, OffersAreUnexpired, OffersAreUnexpiredNext
  <1>5. Due' = Due /\ Done' = Done
    BY DEF Preview, Due, Done
  <1> QED
    BY <1>2, <1>4, <1>5 DEF Promise!Offer, Offers, Due, Done

LEMMA ConfirmTakes ==
  ASSUME HighRiskInv, NEW c \in Call, NEW op \in Op, NEW t \in Token, Confirm(c, op, t)
  PROVE  Promise!Take(t)
  <1> DEFINE r == Request(<<c, "execute">>, "POST", Path(op), op.arguments.data, t)
  <1>1. DueOf(r) = [token |-> t, path |-> Path(op), data |-> op.arguments.data]
    BY DEF Request, DueOf
  <1>2. /\ Consume(t, op.tool_name, op.arguments)
        /\ wire' = wire \cup {r}
        /\ performed' = performed
    BY DEF Confirm, Send
  <1> HIDE DEF r
  <1>3. Eager!Confirm(t)
    BY <1>2, ConsumeConfirms, OpTyped DEF HighRiskInv
  <1>4. /\ t \in DOMAIN Unexpired
        /\ Unexpired' = [x \in DOMAIN Unexpired \ {t} |-> Unexpired[x]]
        /\ DOMAIN issued' = DOMAIN issued
    BY <1>3 DEF Eager!Confirm
  <1>5. Offers' = [x \in DOMAIN Offers \ {t} |-> Offers[x]]
    BY <1>4, OffersAreUnexpired, OffersAreUnexpiredNext
  <1>6. t \in DOMAIN Offers /\ Offers[t].path = Path(op) /\ Offers[t].data = op.arguments.data
    BY <1>2 DEF Consume, Matches, Offers, Path
  <1>7. Due' = Due \cup {[token |-> t, path |-> Offers[t].path, data |-> Offers[t].data]}
    BY <1>1, <1>2, <1>6 DEF Due, DueOf
  <1>8. Done' = Done
    BY <1>2 DEF Done
  <1> QED
    BY <1>4, <1>5, <1>6, <1>7, <1>8 DEF Promise!Take, Promise!Without, Offers, Due, Done

(* Taking a request off the wire takes its operation out of what is due. *)
LEMMA OffTheWire ==
  ASSUME HighRiskInv, NEW r \in wire, wire' = wire \ {r}
  PROVE  DueOf(r) \in Due /\ Due' = Due \ {DueOf(r)}
  <1>1. \A q \in wire : DueOf(q) = DueOf(r) => q = r
    BY DEF HighRiskInv, OneRequestPerToken, Requests, DueOf
  <1>2. Due = {DueOf(q) : q \in wire} /\ Due' = {DueOf(q) : q \in wire'}
    BY DEF Due, DueOf
  <1> QED
    BY <1>1, <1>2

LEMMA FinishGivesUp ==
  ASSUME HighRiskInv, NEW c \in Call, Finish(c)
  PROVE  (\E d \in Due : Promise!GiveUp(d)) \/ UNCHANGED Promise!vars
  <1>1. performed' = performed /\ UNCHANGED storeVars
    BY FinishEnds
  <1>2. Unexpired' = Unexpired /\ DOMAIN issued' = DOMAIN issued /\ Done' = Done
    BY <1>1 DEF storeVars, Unexpired, Done
  <1>3. Offers' = Offers
    BY <1>2, OffersStay
  <1>4. \/ wire' = wire
        \/ awaiting[c] \in wire /\ wire' = wire \ {awaiting[c]}
    BY DEF Finish, Succeed, RaisesToolError, Refused, ConnectFails, ReadTimesOut,
           RaisesOther, BodyIsNoJson, Escapes
  <1>5. CASE wire' = wire
    BY <1>2, <1>3, <1>5 DEF Promise!vars, Offers, Due, Done
  <1>6. CASE awaiting[c] \in wire /\ wire' = wire \ {awaiting[c]}
    <2>1. DueOf(awaiting[c]) \in Due /\ Due' = Due \ {DueOf(awaiting[c])}
      BY <1>6, OffTheWire
    <2> QED
      BY <1>2, <1>3, <2>1 DEF Promise!GiveUp, Offers, Due, Done
  <1> QED
    BY <1>4, <1>5, <1>6

LEMMA FirewallCarriesOut ==
  ASSUME HighRiskInv, NEW r \in wire, Firewall(r)
  PROVE  \E d \in Due : Promise!CarryOut(d) \/ Promise!GiveUp(d)
  <1>1. /\ UNCHANGED storeVars
        /\ wire' = wire \ {r}
        /\ performed' = performed \cup {r} \/ performed' = performed
    BY DEF Firewall, Answer
  <1>2. Unexpired' = Unexpired /\ DOMAIN issued' = DOMAIN issued
    BY <1>1 DEF storeVars, Unexpired
  <1>3. Offers' = Offers
    BY <1>2, OffersStay
  <1>4. DueOf(r) \in Due /\ Due' = Due \ {DueOf(r)}
    BY <1>1, OffTheWire
  <1>5. CASE performed' = performed \cup {r}
    <2>1. Done' = Done \cup {DueOf(r)}
      BY <1>5 DEF Done, DueOf
    <2>2. Promise!CarryOut(DueOf(r))
      BY <1>2, <1>3, <1>4, <2>1 DEF Promise!CarryOut, Offers, Due, Done
    <2> QED
      BY <1>4, <2>2
  <1>6. CASE performed' = performed
    <2>1. Done' = Done
      BY <1>6 DEF Done
    <2>2. Promise!GiveUp(DueOf(r))
      BY <1>2, <1>3, <1>4, <2>1 DEF Promise!GiveUp, Offers, Due, Done
    <2> QED
      BY <1>4, <2>2
  <1> QED
    BY <1>1, <1>5, <1>6

(* The clock and the end of the process only let offers lapse. *)
LEMMA OffersLapse ==
  ASSUME HighRiskInv,
         \E S \in SUBSET DOMAIN Unexpired : Unexpired' = [x \in S |-> Unexpired[x]],
         UNCHANGED <<issued, wire, performed>>
  PROVE  Promise!Lapse
  <1>1. PICK S \in SUBSET DOMAIN Unexpired : Unexpired' = [x \in S |-> Unexpired[x]]
    OBVIOUS
  <1>2. S \in SUBSET DOMAIN Offers /\ Offers' = [x \in S |-> Offers[x]]
    BY <1>1, OffersAreUnexpired, OffersAreUnexpiredNext
  <1>3. Due' = Due /\ Done' = Done /\ DOMAIN issued' = DOMAIN issued
    BY DEF Due, Done
  <1> QED
    BY <1>2, <1>3 DEF Promise!Lapse, Offers, Due, Done

LEMMA TimeLapses ==
  ASSUME HighRiskInv, TimePasses
  PROVE  Promise!Lapse
  <1>1. Eager!Pass
    BY TickPasses DEF TimePasses, HighRiskInv
  <1>2. \E S \in SUBSET DOMAIN Unexpired : Unexpired' = [x \in S |-> Unexpired[x]]
    BY <1>1 DEF Eager!Pass
  <1> QED
    BY <1>2, OffersLapse DEF TimePasses, Tick, clientVars

LEMMA RestartLapses ==
  ASSUME HighRiskInv, Restart
  PROVE  Promise!Lapse
  <1>1. pending' = EmptyDict /\ UNCHANGED <<issued, wire, performed>>
    BY DEF Restart, StoreRestart, ClientRestart
  <1>2. Unexpired' = [x \in {} |-> Unexpired[x]]
    BY <1>1 DEF Unexpired, EmptyDict
  <1> QED
    BY <1>1, <1>2, OffersLapse

LEMMA LayerStepRefines ==
  HighRiskInv /\ [HighRiskNext]_highRiskVars => [Promise!Next]_(Promise!vars)
  <1> SUFFICES ASSUME HighRiskInv, [HighRiskNext]_highRiskVars
               PROVE  Promise!Next \/ UNCHANGED Promise!vars
    OBVIOUS
  <1>1. ASSUME NEW c \in Call, NEW op \in Op, NEW t \in Token, Preview(c, op, t)
        PROVE  Promise!Next
    BY <1>1, PreviewOffers DEF Promise!Next
  <1>2. ASSUME NEW c \in Call, NEW op \in Op, NEW t \in Token, Confirm(c, op, t)
        PROVE  Promise!Next
    BY <1>2, ConfirmTakes DEF Promise!Next
  <1>3. ASSUME Unexpired' = Unexpired, UNCHANGED <<issued, wire, performed>>
        PROVE  UNCHANGED Promise!vars
    BY <1>3, OffersStay DEF Promise!vars, Offers
  <1>4. ASSUME NEW c \in Call, NEW op \in Op, NEW t \in Token, RefuseToken(c, op, t)
        PROVE  UNCHANGED Promise!vars
    BY <1>3, <1>4, Evicted DEF RefuseToken, Reject, clientVars
  <1>5. ASSUME NEW c \in Call, NEW op \in Op, RefuseArguments(c, op)
        PROVE  UNCHANGED Promise!vars
    BY <1>3, <1>5 DEF RefuseArguments, clientVars, storeVars, Unexpired
  <1>6. ASSUME NEW c \in Call, Finish(c)
        PROVE  Promise!Next \/ UNCHANGED Promise!vars
    BY <1>6, FinishGivesUp DEF Promise!Next, Due
  <1>7. ASSUME NEW r \in wire, Firewall(r)
        PROVE  Promise!Next
    BY <1>7, FirewallCarriesOut DEF Promise!Next, Due
  <1>8. CASE TimePasses \/ Restart
    BY <1>8, TimeLapses, RestartLapses DEF Promise!Next
  <1>9. CASE UNCHANGED highRiskVars
    BY <1>3, <1>9 DEF highRiskVars, clientVars, storeVars, Unexpired
  <1> QED
    BY <1>1, <1>2, <1>4, <1>5, <1>6, <1>7, <1>8, <1>9 DEF HighRiskNext

(* The layer keeps its promise: an operation is offered under a token never
   used before, taken once and in time, and carried out once at most after
   that, whatever calls, timeouts and restarts come between. *)
THEOREM LayerKeepsPromise == HighRiskSpec => PromiseSpec
  <1>1. HighRiskInit => Promise!Init
    BY EmptyStore
       DEF HighRiskInit, StoreInit, ClientInit, Promise!Init, EmptyDict
  <1> QED
    BY <1>1, LayerStepRefines, HighRiskInvariance, PTL
       DEF HighRiskSpec, PromiseSpec, Promise!Spec
=============================================================================
