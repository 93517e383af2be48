----------------------------- MODULE TrustProofs -----------------------------
(***************************************************************************)
(* Theorems about trust_certificate_revoke, for every set of calls,        *)
(* certificates, authorities and reasons, on every interleaving.           *)
(*                                                                         *)
(* The invariant follows one call through its three requests: what it is   *)
(* awaiting, what a reply on its way says, what it has looked up, confirmed*)
(* and read.  A CRL write is determined by the call it comes from          *)
(* (WriteRequest), a call by the token it has spent, so a token buys one   *)
(* write; and a CRL holds nothing but revocations that were there before   *)
(* or were confirmed (Lawful), because that is so of whatever was read     *)
(* from one and of what a call adds to it.                                 *)
(***************************************************************************)
EXTENDS TrustRevoke, StoreProofs

Running == {"lookup", "reading", "writing"}

CertOf(uuid) == [refid |-> uuid, caref |-> Issuer[uuid]]

Job ==
  [uuid : Cert, reason : Reason, confirm : Token \cup {None},
   cert : {CertOf(uuid) : uuid \in Cert} \cup {NoCert, None}]

(* A set of revocations for the CRL of ca: those from before the server
   started, and those that were confirmed. *)
Lawful(ca, revocations) ==
  /\ revocations \subseteq Revocation
  /\ \A x \in revocations :
       \/ ca \in CA /\ x \in Revoked[ca]
       \/ /\ Issuer[x[1]] = ca
          /\ \E i \in DOMAIN ledger :
               issued[ledger[i].token].arguments = [uuid |-> x[1], reason |-> x[2]]

(* What a call that has got past the gate spent, and what it looked up. *)
SpentBy(c) ==
  /\ job[c].confirm \in Token
  /\ \E i \in DOMAIN ledger :
       /\ ledger[i].token = job[c].confirm
       /\ issued[ledger[i].token].arguments = Arguments(c)
  /\ job[c].cert \in {CertOf(job[c].uuid), NoCert}

WriteRequest(c) ==
  Request(<<c, "write">>, "POST", <<"trust/crl/set", job[c].cert.caref>>,
          WithRevocation(read[c], job[c].cert, job[c].reason), job[c].confirm)

JobInv(c) ==
  /\ job[c] \in Job
  /\ stage[c] = "lookup" => job[c].cert = None
  /\ stage[c] \in {"reading", "writing", "saved"} => job[c].cert # None
  /\ job[c].cert # None => SpentBy(c)

AwaitingInv(c) ==
  /\ stage[c] = "lookup" =>
       awaiting[c] = Get(c, "lookup", <<"trust/cert/get", job[c].uuid>>)
  /\ stage[c] = "reading" =>
       awaiting[c] = Get(c, "read", <<"trust/crl/get", job[c].cert.caref>>)
  /\ stage[c] = "writing" => c \in DOMAIN read /\ awaiting[c] = WriteRequest(c)

ReplyInv(c) ==
  Returns(c) =>
    /\ stage[c] = "lookup" => replies[c].body \in {CertOf(job[c].uuid), NoCert, NotFound}
    /\ stage[c] = "reading" =>
         replies[c].body = NotFound \/ Lawful(job[c].cert.caref, replies[c].body)
    /\ stage[c] = "writing" =>
         replies[c].body = "failed" \/ (replies[c].body = "saved" /\ awaiting[c] \in written)

CallInv(c) ==
  /\ stage[c] \in Ended \cup {"idle"} \cup Running
  /\ c \in DOMAIN awaiting <=> stage[c] \in Running
  /\ c \in DOMAIN replies => c \in DOMAIN awaiting
  /\ stage[c] \in Running \cup {"saved"} => c \in DOMAIN job
  /\ stage[c] = "idle" => c \notin DOMAIN job
  /\ c \in DOMAIN job => JobInv(c)
  /\ c \in DOMAIN awaiting => AwaitingInv(c)
  /\ c \in DOMAIN replies => ReplyInv(c)
  /\ c \in DOMAIN read =>
       c \in DOMAIN job /\ job[c].cert # None /\ Lawful(job[c].cert.caref, read[c])
  /\ stage[c] = "saved" => c \in DOMAIN read /\ WriteRequest(c) \in written

Domains ==
  /\ stage \in [Call -> Ended \cup {"idle"} \cup Running]
  /\ DOMAIN awaiting \subseteq Call
  /\ DOMAIN replies \subseteq Call
  /\ DOMAIN job \subseteq Call
  /\ DOMAIN read \subseteq Call

(* No two calls have spent the same token. *)
OneCallPerToken ==
  \A c, d \in DOMAIN job :
    job[c].cert # None /\ job[d].cert # None /\ job[c].confirm = job[d].confirm => c = d

Posts == {r \in wire : r.method = "POST"} \cup written

PostsInv ==
  \A r \in Posts :
    \E c \in DOMAIN read : stage[c] \notin {"idle", "lookup", "reading"} /\ r = WriteRequest(c)

CertsInv ==
  /\ crl \in [CA -> SUBSET Revocation]
  /\ \A ca \in CA : Lawful(ca, crl[ca])
  /\ certs \subseteq Cert

TrustInv ==
  /\ StoreInv
  /\ Domains
  /\ \A c \in Call : CallInv(c)
  /\ OneCallPerToken
  /\ PostsInv
  /\ CertsInv

-----------------------------------------------------------------------------

LEMMA ArgumentsTyped ==
  ASSUME NEW j \in Job
  PROVE  [uuid |-> j.uuid, reason |-> j.reason] \in Args
  BY ArgsAssumption DEF Job

(* What a step of the tool does to the store is a step of the store. *)
LEMMA StepsOfStore ==
  ASSUME TrustInv, [TrustNext]_trustVars
  PROVE  [StoreNext]_storeVars
  <1>1. ASSUME NEW c \in Call, c \in DOMAIN job
        PROVE  Arguments(c) \in Args /\ job[c].confirm \in Token \cup {None}
    <2>1. job[c] \in Job
      BY <1>1 DEF TrustInv, CallInv, JobInv
    <2> QED
      BY <2>1, ArgumentsTyped DEF Arguments, Job
  <1>2. ASSUME NEW c \in Call, stage[c] = "lookup"
        PROVE  c \in DOMAIN job
    BY <1>2 DEF TrustInv, CallInv, Running
  <1>3. ASSUME NEW c \in Call, NEW t \in Token, Preview(c, t)
        PROVE  StoreNext
    BY <1>1, <1>2, <1>3, ToolAssumption DEF Preview, Moves, StoreNext, StoreCall
  <1>4. ASSUME NEW c \in Call, RefuseToken(c)
        PROVE  StoreNext
    BY <1>1, <1>2, <1>4, ToolAssumption DEF RefuseToken, Moves, StoreNext, StoreCall
  <1>5. ASSUME NEW c \in Call, Confirm(c)
        PROVE  StoreNext
    BY <1>1, <1>2, <1>5, ToolAssumption DEF Confirm, Moves, StoreNext, StoreCall
  <1>6. ASSUME NEW c \in Call,
               \/ RefuseUuid(c) \/ Write(c) \/ Return(c) \/ Fail(c)
               \/ \E uuid \in Cert, reason \in Reason, confirm \in Token \cup {None} :
                    LookUp(c, uuid, reason, confirm)
        PROVE  UNCHANGED storeVars
    BY <1>6 DEF RefuseUuid, Write, Return, Fail, LookUp
  <1>7. ASSUME NEW r \in wire, Firewall(r)
        PROVE  UNCHANGED storeVars
    BY <1>7 DEF Firewall
  <1>8. CASE TimePasses \/ Restart
    BY <1>8 DEF TimePasses, Restart, StoreNext
  <1>9. CASE UNCHANGED trustVars \/ \E cert \in Cert : DeleteCert(cert)
    BY <1>9 DEF trustVars, DeleteCert
  <1> QED
    BY <1>3, <1>4, <1>5, <1>6, <1>7, <1>8, <1>9 DEF TrustNext

(* What was lawful stays so, and what was spent stays spent. *)
LEMMA LedgerKeeps ==
  ASSUME StoreInv, [StoreNext]_storeVars
  PROVE  \A i \in DOMAIN ledger :
           /\ i \in DOMAIN ledger'
           /\ ledger'[i] = ledger[i]
           /\ issued'[ledger'[i].token] = issued[ledger[i].token]
  BY StoreGrows DEF StoreInv, SpentAsIssued

LEMMA LawfulStays ==
  ASSUME StoreInv, [StoreNext]_storeVars
  PROVE  \A ca, S : Lawful(ca, S) => Lawful(ca, S)'
  BY LedgerKeeps DEF Lawful

(* A step that is not of a call leaves it alone. *)
Untouched(c) ==
  /\ stage'[c] = stage[c]
  /\ (c \in DOMAIN job' <=> c \in DOMAIN job) /\ (c \in DOMAIN job => job'[c] = job[c])
  /\ (c \in DOMAIN awaiting' <=> c \in DOMAIN awaiting)
  /\ (c \in DOMAIN awaiting => awaiting'[c] = awaiting[c])
  /\ (c \in DOMAIN replies' <=> c \in DOMAIN replies)
  /\ (c \in DOMAIN replies => replies'[c] = replies[c])
  /\ (c \in DOMAIN read' <=> c \in DOMAIN read) /\ (c \in DOMAIN read => read'[c] = read[c])

LEMMA UntouchedKeeps ==
  ASSUME StoreInv, [StoreNext]_storeVars, NEW c \in Call, CallInv(c), Untouched(c),
         written \subseteq written'
  PROVE  CallInv(c)'
  <1>1. c \in DOMAIN job => JobInv(c)'
    BY LedgerKeeps DEF CallInv, Untouched, JobInv, SpentBy, Arguments
  <1>2. c \in DOMAIN awaiting => AwaitingInv(c)'
    BY DEF CallInv, Untouched, AwaitingInv, WriteRequest, Running
  <1>3. ASSUME NEW ca, NEW S, Lawful(ca, S)
        PROVE  Lawful(ca, S)'
    BY <1>3, LawfulStays
  <1>4. c \in DOMAIN replies => ReplyInv(c)'
    <2>1. CASE Returns(c) /\ stage[c] = "reading" /\ replies[c].body # NotFound
      <3>1. PICK ca, S : ca = job[c].cert.caref /\ S = replies[c].body
        OBVIOUS
      <3>2. Lawful(ca, S)'
        BY <1>3, <2>1, <3>1 DEF CallInv, ReplyInv, Returns
      <3>3. ca = job'[c].cert.caref /\ S = replies'[c].body
        BY <2>1, <3>1 DEF Untouched, CallInv, Running, Returns
      <3>4. Lawful(job[c].cert.caref, replies[c].body)'
        BY <3>2, <3>3 DEF Lawful
      <3> QED
        BY <2>1, <3>4 DEF Untouched, ReplyInv, Returns
    <2> QED
      BY <2>1 DEF CallInv, Untouched, ReplyInv, Running, Returns
  <1>5. c \in DOMAIN read =>
          /\ c \in DOMAIN job' /\ job'[c].cert # None
          /\ Lawful(job[c].cert.caref, read[c])'
    <2> SUFFICES ASSUME c \in DOMAIN read
                 PROVE  /\ c \in DOMAIN job' /\ job'[c].cert # None
                        /\ Lawful(job[c].cert.caref, read[c])'
      OBVIOUS
    <2>1. PICK ca, S : ca = job[c].cert.caref /\ S = read[c]
      OBVIOUS
    <2>2. Lawful(ca, S)'
      BY <1>3, <2>1 DEF CallInv
    <2>3. ca = job'[c].cert.caref /\ S = read'[c]
      BY <2>1 DEF Untouched, CallInv
    <2>4. Lawful(job[c].cert.caref, read[c])'
      BY <2>2, <2>3 DEF Lawful
    <2> QED
      BY <2>4 DEF Untouched, CallInv
  <1> QED
    BY <1>1, <1>2, <1>4, <1>5 DEF CallInv, Untouched, WriteRequest

(* A step of one call that writes nothing to the firewall: it is enough to
   look at that call. *)
LEMMA CallStep ==
  ASSUME TrustInv, [StoreNext]_storeVars, Domains', NEW c \in Call,
         \A d \in Call : d # c => Untouched(d),
         CallInv(c)', OneCallPerToken', PostsInv',
         UNCHANGED <<certs, crl, written>>
  PROVE  TrustInv'
  <1>1. StoreInv'
    BY NextInv DEF TrustInv
  <1>2. ASSUME NEW d \in Call
        PROVE  CallInv(d)'
    <2>1. CASE d = c
      BY <2>1
    <2>2. CASE d # c
      BY <2>2, UntouchedKeeps DEF TrustInv
    <2> QED
      BY <2>1, <2>2
  <1>3. CertsInv'
    BY LawfulStays DEF TrustInv, CertsInv
  <1> QED
    BY <1>1, <1>2, <1>3 DEF TrustInv

(* The writes stay those of their calls as long as none is added, and no call
   goes back. *)
LEMMA PostsKeep ==
  ASSUME PostsInv, Posts' \subseteq Posts,
         \A c \in DOMAIN read :
           /\ c \in DOMAIN read' /\ read'[c] = read[c] /\ job'[c] = job[c]
           /\ stage[c] \notin {"idle", "lookup", "reading"} =>
                stage'[c] \notin {"idle", "lookup", "reading"}
  PROVE  PostsInv'
  BY DEF PostsInv, WriteRequest

(* A call's exchange is over, and so is the call. *)
LEMMA EndKeeps ==
  ASSUME TrustInv, [StoreNext]_storeVars, NEW c \in Call, stage[c] \in Running,
         NEW s \in {"previewed", "saved", "failed", "tool_error", "raised"},
         s = "saved" => stage[c] = "writing" /\ awaiting[c] \in written,
         stage' = [stage EXCEPT ![c] = s],
         awaiting' = Drop(awaiting, c), replies' = Drop(replies, c),
         wire' \subseteq wire, UNCHANGED <<job, certs, crl, read, written>>
  PROVE  TrustInv'
  <1>1. /\ stage'[c] = s
        /\ \A d \in Call : d # c => stage'[d] = stage[d]
        /\ c \notin DOMAIN awaiting' /\ c \notin DOMAIN replies'
        /\ s \in Ended
        /\ DOMAIN awaiting' \subseteq DOMAIN awaiting
        /\ DOMAIN replies' \subseteq DOMAIN replies
    BY DEF Drop, TrustInv, Domains, Ended
  <1>2. Domains'
    BY <1>1 DEF TrustInv, Domains, Ended
  <1>3. \A d \in Call : d # c => Untouched(d)
    BY <1>1 DEF Drop, Untouched
  <1>4. CallInv(c)'
    <2>1. CallInv(c) /\ c \in DOMAIN job
      BY DEF TrustInv, CallInv
    <2>2. JobInv(c)'
      BY <1>1, <2>1, LedgerKeeps DEF TrustInv, CallInv, JobInv, SpentBy, Arguments, Running
    <2>3. c \in DOMAIN read => Lawful(job[c].cert.caref, read[c])'
      BY <2>1, LawfulStays DEF TrustInv, CallInv
    <2>4. s = "saved" => c \in DOMAIN read /\ WriteRequest(c) \in written
      BY <2>1 DEF CallInv, AwaitingInv, Running
    <2> QED
      BY <1>1, <2>1, <2>2, <2>3, <2>4 DEF CallInv, Running, WriteRequest
  <1>5. OneCallPerToken'
    BY DEF TrustInv, OneCallPerToken
  <1>6. PostsInv'
    <2>1. Posts' \subseteq Posts
      BY DEF Posts
    <2>2. \A d \in DOMAIN read : d \in Call
      BY DEF TrustInv, Domains
    <2> QED
      BY <1>1, <2>1, <2>2, PostsKeep DEF TrustInv
  <1> QED
    BY <1>2, <1>3, <1>4, <1>5, <1>6, CallStep

LEMMA RefuseUuidInv ==
  ASSUME TrustInv, NEW c \in Call, RefuseUuid(c)
  PROVE  TrustInv'
  <1>1. /\ stage[c] = "idle"
        /\ stage' = [stage EXCEPT ![c] = "tool_error"]
        /\ awaiting' = awaiting /\ replies' = replies /\ wire' = wire
        /\ UNCHANGED <<storeVars, job, certs, crl, read, written>>
    BY DEF RefuseUuid, Moves, clientVars
  <1>2. /\ stage'[c] = "tool_error"
        /\ \A d \in Call : d # c => stage'[d] = stage[d]
    BY <1>1 DEF TrustInv, Domains
  <1>3. Domains' /\ OneCallPerToken'
    BY <1>1 DEF TrustInv, Domains, Ended, OneCallPerToken
  <1>4. \A d \in Call : d # c => Untouched(d)
    BY <1>1, <1>2 DEF Untouched
  <1>5. CallInv(c)'
    BY <1>1, <1>2 DEF TrustInv, CallInv, Ended, Running
  <1>6. PostsInv'
    <2>1. Posts' \subseteq Posts
      BY <1>1 DEF Posts
    <2>2. \A d \in DOMAIN read : d \in Call
      BY DEF TrustInv, Domains
    <2> QED
      BY <1>1, <1>2, <2>1, <2>2, PostsKeep DEF TrustInv
  <1> QED
    BY <1>1, <1>3, <1>4, <1>5, <1>6, CallStep

LEMMA LookUpInv ==
  ASSUME TrustInv, NEW c \in Call, NEW uuid \in Cert, NEW reason \in Reason,
         NEW confirm \in Token \cup {None}, LookUp(c, uuid, reason, confirm)
  PROVE  TrustInv'
  <1> DEFINE j == [uuid |-> uuid, reason |-> reason, confirm |-> confirm, cert |-> None]
             r == Request(<<c, "lookup">>, "GET", <<"trust/cert/get", uuid>>, None, None)
  <1>0. j \in Job /\ j.cert = None /\ j.uuid = uuid /\ r.method = "GET"
    BY DEF Job, Request
  <1>1. /\ stage[c] = "idle"
        /\ stage' = [stage EXCEPT ![c] = "lookup"]
        /\ job' = Put(job, c, j)
        /\ c \notin DOMAIN awaiting
        /\ awaiting' = Put(awaiting, c, r)
        /\ wire' = wire \cup {r}
        /\ replies' = replies
        /\ UNCHANGED <<storeVars, certs, crl, read, written>>
    BY DEF LookUp, Moves, Send, Get
  <1>2. r = Request(<<c, "lookup">>, "GET", <<"trust/cert/get", j.uuid>>, None, None)
    BY <1>0
  <1> HIDE DEF j, r
  <1>3. /\ stage'[c] = "lookup"
        /\ \A d \in Call : d # c => stage'[d] = stage[d]
        /\ DOMAIN job' = DOMAIN job \cup {c} /\ job'[c] = j
        /\ \A d \in DOMAIN job : d # c => job'[d] = job[d]
        /\ DOMAIN awaiting' = DOMAIN awaiting \cup {c} /\ awaiting'[c] = r
        /\ \A d \in DOMAIN awaiting : d # c => awaiting'[d] = awaiting[d]
    BY <1>1 DEF Put, TrustInv, Domains
  <1>4. /\ c \notin DOMAIN job /\ c \notin DOMAIN read /\ c \notin DOMAIN replies
    BY <1>1 DEF TrustInv, CallInv
  <1>5. Domains'
    BY <1>1, <1>3 DEF TrustInv, Domains, Running
  <1>6. \A d \in Call : d # c => Untouched(d)
    BY <1>1, <1>3 DEF Untouched
  <1>7. CallInv(c)'
    <2>1. job'[c] = j /\ c \in DOMAIN job' /\ awaiting'[c] = r /\ c \in DOMAIN awaiting'
      BY <1>3
    <2>2. JobInv(c)'
      BY <1>0, <1>3, <2>1 DEF JobInv
    <2>3. AwaitingInv(c)'
      BY <1>2, <1>3, <2>1 DEF AwaitingInv, Get
    <2> QED
      BY <1>1, <1>3, <1>4, <2>1, <2>2, <2>3 DEF CallInv, Running, Ended
  <1>8. OneCallPerToken'
    BY <1>0, <1>3 DEF TrustInv, OneCallPerToken
  <1>9. PostsInv'
    <2>1. Posts' \subseteq Posts
      BY <1>0, <1>1 DEF Posts
    <2>2. \A d \in DOMAIN read : d \in Call /\ d # c /\ d \in DOMAIN job
      BY <1>4 DEF TrustInv, Domains, CallInv
    <2> QED
      BY <1>1, <1>3, <2>1, <2>2, PostsKeep DEF TrustInv
  <1> QED
    BY <1>1, <1>5, <1>6, <1>7, <1>8, <1>9, CallStep

(* The calls that end: with a preview, a refused token, an error, a result. *)
LEMMA EndInv ==
  ASSUME TrustInv, NEW c \in Call,
         (\E t \in Token : Preview(c, t)) \/ RefuseToken(c) \/ Fail(c) \/ Return(c)
  PROVE  TrustInv'
  <1>1. [StoreNext]_storeVars
    BY StepsOfStore DEF TrustNext
  <1>2. ASSUME NEW t \in Token, Preview(c, t)
        PROVE  TrustInv'
    BY <1>1, <1>2, EndKeeps DEF Preview, Moves, Succeed, Resume, Running
  <1>3. CASE RefuseToken(c)
    BY <1>1, <1>3, EndKeeps DEF RefuseToken, Moves, Succeed, Resume, Running
  <1>4. CASE Fail(c)
    <2>1. /\ stage[c] \in Running
          /\ \E s \in {"tool_error", "raised"} : stage' = [stage EXCEPT ![c] = s]
          /\ UNCHANGED <<job, certs, crl, read, written>>
      BY <1>4 DEF Fail, Running
    <2>2. awaiting' = Drop(awaiting, c) /\ replies' = Drop(replies, c) /\ wire' \subseteq wire
      <3>1. CASE RaisesToolError(c, {})
        BY <3>1 DEF RaisesToolError, Refused, ConnectFails, ReadTimesOut, Resume
      <3>2. CASE RaisesOther(c)
        BY <3>2 DEF RaisesOther, BodyIsNoJson, Escapes, Resume
      <3>3. CASE Succeed(c, {}, {})
        BY <3>3 DEF Succeed, Resume
      <3> QED
        BY <1>4, <3>1, <3>2, <3>3 DEF Fail
    <2> QED
      BY <1>1, <2>1, <2>2, EndKeeps
  <1>5. CASE Return(c)
    <2>1. /\ stage[c] = "writing" /\ stage' = [stage EXCEPT ![c] = replies[c].body]
          /\ c \in DOMAIN replies /\ Returns(c)
          /\ awaiting' = Drop(awaiting, c) /\ replies' = Drop(replies, c) /\ wire' \subseteq wire
          /\ UNCHANGED <<job, certs, crl, read, written>>
      BY <1>5 DEF Return, Moves, Succeed, Returns, Resume
    <2>2. replies[c].body = "failed" \/ (replies[c].body = "saved" /\ awaiting[c] \in written)
      BY <2>1 DEF TrustInv, CallInv, ReplyInv
    <2> QED
      BY <1>1, <2>1, <2>2, EndKeeps DEF Running
  <1> QED
    BY <1>2, <1>3, <1>4, <1>5

LEMMA ConfirmInv ==
  ASSUME TrustInv, NEW c \in Call, Confirm(c)
  PROVE  TrustInv'
  <1> DEFINE body == replies[c].body
             r == Get(c, "read", <<"trust/crl/get", body.caref>>)
             k == [job[c] EXCEPT !.cert = body]
  <1>0. /\ stage[c] = "lookup" /\ stage' = [stage EXCEPT ![c] = "reading"]
        /\ job[c].confirm # None
        /\ c \in DOMAIN replies /\ Returns(c) /\ body # None /\ body # NotFound
        /\ Consume(job[c].confirm, ToolName, Arguments(c))
        /\ awaiting' = Put(awaiting, c, r)
        /\ replies' = Drop(replies, c)
        /\ wire' = wire \cup {r}
        /\ r.method = "GET"
        /\ job' = [job EXCEPT ![c] = k]
        /\ UNCHANGED <<certs, crl, read, written>>
    BY DEF Confirm, Moves, Succeed, Found, Returns, Resume, Get, Request
  <1>1. /\ [StoreNext]_storeVars
        /\ CallInv(c) /\ c \in DOMAIN job /\ JobInv(c)
        /\ job[c] \in Job /\ job[c].cert = None
        /\ body \in {CertOf(job[c].uuid), NoCert}
    BY <1>0, StepsOfStore DEF TrustNext, TrustInv, CallInv, JobInv, ReplyInv, Running
  <1>2. /\ job[c].confirm \in Token
        /\ Arguments(c) \in Args
        /\ k \in Job /\ k.cert = body /\ k.uuid = job[c].uuid /\ k.reason = job[c].reason
        /\ k.confirm = job[c].confirm
    BY <1>0, <1>1, ArgumentsTyped DEF Job, Arguments
  <1>3. /\ \E i \in DOMAIN ledger' : ledger'[i].token = job[c].confirm
        /\ \A i \in DOMAIN ledger : ledger[i].token # job[c].confirm
        /\ issued'[job[c].confirm].arguments = Arguments(c)
    BY <1>0, <1>2, ConsumeSpends, ToolAssumption DEF TrustInv
  <1>4. r = Get(c, "read", <<"trust/crl/get", k.cert.caref>>)
    BY <1>2
  <1>5. k.cert \in {CertOf(k.uuid), NoCert}
    BY <1>1, <1>2
  <1> HIDE DEF k, r
  <1>6. /\ stage'[c] = "reading"
        /\ \A d \in Call : d # c => stage'[d] = stage[d]
        /\ DOMAIN job' = DOMAIN job /\ job'[c] = k
        /\ \A d \in DOMAIN job : d # c => job'[d] = job[d]
        /\ DOMAIN awaiting' = DOMAIN awaiting \cup {c} /\ awaiting'[c] = r
        /\ \A d \in DOMAIN awaiting : d # c => awaiting'[d] = awaiting[d]
        /\ DOMAIN replies' = DOMAIN replies \ {c}
        /\ \A d \in DOMAIN replies' : replies'[d] = replies[d]
        /\ c \in DOMAIN awaiting
    BY <1>0, <1>1 DEF Put, Drop, TrustInv, Domains, CallInv, Running
  <1>7. Domains'
    BY <1>0, <1>6 DEF TrustInv, Domains, Running
  <1>8. \A d \in Call : d # c => Untouched(d)
    BY <1>0, <1>6 DEF Untouched
  <1>9. c \notin DOMAIN read
    BY <1>0, <1>1 DEF CallInv
  <1>10. CallInv(c)'
    <2>1. SpentBy(c)'
      BY <1>2, <1>3, <1>5, <1>6 DEF SpentBy, Arguments
    <2>2. JobInv(c)'
      BY <1>0, <1>2, <1>6, <2>1 DEF JobInv
    <2>3. AwaitingInv(c)'
      BY <1>4, <1>6 DEF AwaitingInv, Get
    <2> QED
      BY <1>0, <1>1, <1>6, <1>9, <2>2, <2>3 DEF CallInv, Running
  <1>11. OneCallPerToken'
    <2>1. ASSUME NEW d \in DOMAIN job, d # c, job[d].cert # None
          PROVE  job[d].confirm # job[c].confirm
      BY <1>3, <2>1 DEF TrustInv, Domains, CallInv, JobInv, SpentBy
    <2> QED
      BY <1>2, <1>6, <2>1 DEF TrustInv, OneCallPerToken
  <1>12. PostsInv'
    <2>1. Posts' \subseteq Posts
      BY <1>0 DEF Posts
    <2>2. \A d \in DOMAIN read : d \in Call /\ d # c /\ d \in DOMAIN job
      BY <1>9 DEF TrustInv, Domains, CallInv
    <2> QED
      BY <1>0, <1>6, <2>1, <2>2, PostsKeep DEF TrustInv
  <1> QED
    BY <1>0, <1>1, <1>7, <1>8, <1>10, <1>11, <1>12, CallStep

LEMMA WriteInv ==
  ASSUME TrustInv, NEW c \in Call, Write(c)
  PROVE  TrustInv'
  <1> DEFINE body == replies[c].body
             data == WithRevocation(body, job[c].cert, job[c].reason)
             r == Request(<<c, "write">>, "POST", <<"trust/crl/set", job[c].cert.caref>>,
                          data, job[c].confirm)
  <1>0. /\ stage[c] = "reading" /\ stage' = [stage EXCEPT ![c] = "writing"]
        /\ c \in DOMAIN replies /\ Returns(c) /\ body # NotFound
        /\ awaiting' = Put(awaiting, c, r)
        /\ replies' = Drop(replies, c)
        /\ wire' = wire \cup {r}
        /\ read' = Put(read, c, body)
        /\ UNCHANGED <<storeVars, job, certs, crl, written>>
    BY DEF Write, Moves, Succeed, Found, Returns, Resume
  <1>1. /\ CallInv(c) /\ c \in DOMAIN job /\ JobInv(c)
        /\ job[c].cert # None
        /\ Lawful(job[c].cert.caref, body)
    BY <1>0 DEF TrustInv, CallInv, JobInv, ReplyInv, Running
  <1>2. /\ stage'[c] = "writing"
        /\ \A d \in Call : d # c => stage'[d] = stage[d]
        /\ DOMAIN awaiting' = DOMAIN awaiting \cup {c} /\ awaiting'[c] = r
        /\ \A d \in DOMAIN awaiting : d # c => awaiting'[d] = awaiting[d]
        /\ DOMAIN replies' = DOMAIN replies \ {c}
        /\ \A d \in DOMAIN replies' : replies'[d] = replies[d]
        /\ DOMAIN read' = DOMAIN read \cup {c} /\ read'[c] = body
        /\ \A d \in DOMAIN read : d # c => read'[d] = read[d]
        /\ c \in DOMAIN awaiting
    BY <1>0, <1>1 DEF Put, Drop, TrustInv, Domains, CallInv, Running
  <1>3. WriteRequest(c)' = r
    BY <1>0, <1>2 DEF WriteRequest
  <1> HIDE DEF r
  <1>4. Domains'
    BY <1>0, <1>2 DEF TrustInv, Domains, Running
  <1>5. \A d \in Call : d # c => Untouched(d)
    BY <1>0, <1>2 DEF Untouched
  <1>6. CallInv(c)'
    <2>1. JobInv(c)'
      BY <1>0, <1>1, <1>2 DEF JobInv, SpentBy, Arguments, storeVars
    <2>2. AwaitingInv(c)'
      BY <1>2, <1>3 DEF AwaitingInv
    <2>3. Lawful(job[c].cert.caref, read[c])'
      BY <1>0, <1>1, <1>2 DEF Lawful, storeVars
    <2> QED
      BY <1>0, <1>1, <1>2, <2>1, <2>2, <2>3 DEF CallInv, Running
  <1>7. OneCallPerToken'
    BY <1>0 DEF TrustInv, OneCallPerToken
  <1>8. PostsInv'
    <2>1. Posts' \subseteq Posts \cup {r}
      BY <1>0 DEF Posts
    <2>2. ASSUME NEW q \in Posts
          PROVE  \E d \in DOMAIN read' : /\ stage'[d] \notin {"idle", "lookup", "reading"}
                                        /\ q = WriteRequest(d)'
      <3>1. PICK d \in DOMAIN read : /\ stage[d] \notin {"idle", "lookup", "reading"}
                                    /\ q = WriteRequest(d)
        BY DEF TrustInv, PostsInv
      <3>2. d \in Call /\ d # c
        BY <1>0, <3>1 DEF TrustInv, Domains
      <3>3. WriteRequest(d)' = WriteRequest(d)
        BY <1>0, <1>2, <3>1, <3>2 DEF WriteRequest
      <3> QED
        BY <1>2, <3>1, <3>2, <3>3
    <2>3. \E d \in DOMAIN read' : /\ stage'[d] \notin {"idle", "lookup", "reading"}
                                 /\ r = WriteRequest(d)'
      BY <1>2, <1>3
    <2> QED
      BY <2>1, <2>2, <2>3 DEF PostsInv
  <1> QED
    BY <1>0, <1>4, <1>5, <1>6, <1>7, <1>8, CallStep

(* What a write posts is lawful for the CRL it is posted to. *)
LEMMA WritesAreLawful ==
  ASSUME TrustInv, NEW r \in Posts
  PROVE  /\ r.path[2] \in CA \cup {None}
         /\ Lawful(r.path[2], r.data)
         /\ r.req_id[1] \in DOMAIN read
         /\ read[r.req_id[1]] \subseteq r.data
  <1>1. PICK c \in DOMAIN read : r = WriteRequest(c)
    BY DEF TrustInv, PostsInv
  <1>2. /\ c \in Call /\ c \in DOMAIN job /\ job[c] \in Job /\ SpentBy(c)
        /\ Lawful(job[c].cert.caref, read[c])
    BY <1>1 DEF TrustInv, Domains, CallInv, JobInv
  <1> DEFINE cert == job[c].cert
             reason == job[c].reason
  <1>3. /\ r.path[2] = cert.caref
        /\ r.data = WithRevocation(read[c], cert, reason)
        /\ r.req_id[1] = c
    BY <1>1 DEF WriteRequest, Request
  <1>4. CASE cert = NoCert
    BY <1>2, <1>3, <1>4 DEF NoCert, WithRevocation
  <1>5. CASE cert = CertOf(job[c].uuid)
    <2>1. /\ cert.refid = job[c].uuid /\ cert.caref = Issuer[job[c].uuid]
          /\ job[c].uuid \in Cert /\ reason \in Reason
          /\ cert.caref \in CA
      BY <1>2, <1>5, IssuerAssumption DEF CertOf, Job
    <2>2. \E i \in DOMAIN ledger :
            issued[ledger[i].token].arguments = [uuid |-> job[c].uuid, reason |-> reason]
      BY <1>2 DEF SpentBy, Arguments
    <2>3. <<job[c].uuid, reason>> \in Revocation
      BY <2>1 DEF Revocation
    <2>4. \/ r.data = read[c]
          \/ r.data = read[c] \cup {<<job[c].uuid, reason>>}
      BY <1>3, <2>1 DEF WithRevocation
    <2> HIDE DEF cert, reason
    <2>5. Lawful(cert.caref, r.data)
      <3>1. Lawful(cert.caref, read[c])
        BY <1>2 DEF cert
      <3> QED
        BY <2>1, <2>2, <2>3, <2>4, <3>1 DEF Lawful
    <2> QED
      BY <1>3, <2>1, <2>4, <2>5
  <1> QED
    BY <1>2, <1>4, <1>5 DEF SpentBy

(* What a reply that is returned says of the request. *)
Answers(r, body) ==
  \/ r.method = "GET" /\ r.path[1] = "trust/cert/get" /\ body \in FoundCert(r.path[2])
  \/ r.method = "GET" /\ r.path[1] = "trust/crl/get" /\ body \in FoundCrl(r.path[2])
  \/ r.method = "POST" /\ body = "saved" /\ written' = written \cup {r}
  \/ r.method = "POST" /\ body = "failed" /\ written' = written

(* The firewall answers one request: with what it holds, with what became of
   what was posted, or with an error. *)
LEMMA FirewallAnswers ==
  ASSUME TrustInv, NEW r \in wire, Firewall(r)
  PROVE  /\ wire' = wire \ {r}
         /\ written \subseteq written'
         /\ written' \subseteq written \cup (IF r.method = "POST" THEN {r} ELSE {})
         /\ UNCHANGED <<storeVars, awaiting, stage, job, certs, read>>
         /\ \/ crl' = crl
            \/ /\ r.method = "POST" /\ r.path[2] # None
               /\ crl' = [crl EXCEPT ![r.path[2]] = r.data]
         /\ \A d \in DOMAIN replies' :
              \/ d \in DOMAIN replies /\ replies'[d] = replies[d]
              \/ /\ d \in DOMAIN awaiting /\ awaiting[d] = r
                 /\ Returns(d)' => Answers(r, replies'[d].body)
         /\ DOMAIN replies \subseteq DOMAIN replies'
  <1>1. ASSUME NEW reply, Answer(r, reply)
        PROVE  /\ wire' = wire \ {r} /\ awaiting' = awaiting
               /\ DOMAIN replies \subseteq DOMAIN replies'
               /\ \A d \in DOMAIN replies' :
                    \/ d \in DOMAIN replies /\ replies'[d] = replies[d]
                    \/ d \in DOMAIN awaiting /\ awaiting[d] = r /\ replies'[d] = reply
    <2>1. CASE \E d \in DOMAIN awaiting : awaiting[d] = r
      <3> DEFINE e == CHOOSE d \in DOMAIN awaiting : awaiting[d] = r
      <3>1. e \in DOMAIN awaiting /\ awaiting[e] = r
        BY <2>1
      <3>2. replies' = Put(replies, e, reply)
        BY <1>1, <2>1 DEF Answer
      <3> HIDE DEF e
      <3> QED
        BY <1>1, <3>1, <3>2 DEF Answer, Put
    <2>2. CASE ~\E d \in DOMAIN awaiting : awaiting[d] = r
      BY <1>1, <2>2 DEF Answer
    <2> QED
      BY <2>1, <2>2
  <1>2. /\ HttpError.status_code # 200 /\ Garbled.body = None
        /\ \A body : Ok(body).body = body
    BY DEF HttpError, Garbled, Ok
  <1>3. CASE AnswerGet(r)
    <2>1. PICK reply :
            /\ Answer(r, reply)
            /\ reply.status_code # 200 \/ reply.body = None \/ Answers(r, reply.body)
      BY <1>2, <1>3 DEF AnswerGet, Answers
    <2>2. r.method = "GET" /\ crl' = crl /\ written' = written
          /\ UNCHANGED <<storeVars, stage, job, certs, read>>
      BY <1>3 DEF AnswerGet, Firewall
    <2> QED
      BY <2>1, <2>2, <1>1 DEF Returns
  <1>4. CASE AnswerPost(r)
    <2>1. PICK reply :
            /\ Answer(r, reply)
            /\ reply.status_code # 200 \/ reply.body = None \/ Answers(r, reply.body)
      BY <1>2, <1>4 DEF AnswerPost, Answers
    <2>2. /\ r.method = "POST"
          /\ \/ written' = written /\ crl' = crl
             \/ /\ written' = written \cup {r}
                /\ crl' = IF r.path[2] = None THEN crl ELSE [crl EXCEPT ![r.path[2]] = r.data]
          /\ UNCHANGED <<storeVars, stage, job, certs, read>>
      BY <1>4 DEF AnswerPost, Firewall
    <2> QED
      BY <2>1, <2>2, <1>1 DEF Returns
  <1> QED
    BY <1>3, <1>4 DEF Firewall

LEMMA FirewallInv ==
  ASSUME TrustInv, NEW r \in wire, Firewall(r)
  PROVE  TrustInv'
  <1>1. /\ [StoreNext]_storeVars
        /\ UNCHANGED <<storeVars, awaiting, stage, job, certs, read>>
        /\ written \subseteq written'
    BY FirewallAnswers
  <1>2. StoreInv'
    BY <1>1, NextInv DEF TrustInv
  <1>3. Domains' /\ OneCallPerToken'
    BY <1>1, FirewallAnswers DEF TrustInv, Domains, OneCallPerToken
  <1>4. ASSUME NEW d \in Call
        PROVE  CallInv(d)'
    <2>1. CASE d \notin DOMAIN replies' \/ (d \in DOMAIN replies /\ replies'[d] = replies[d])
      <3>1. Untouched(d)
        BY <1>1, <2>1, FirewallAnswers DEF Untouched
      <3> QED
        BY <1>1, <3>1, UntouchedKeeps DEF TrustInv
    <2>2. CASE /\ d \in DOMAIN replies' /\ d \in DOMAIN awaiting /\ awaiting[d] = r
               /\ Returns(d)' => Answers(r, replies'[d].body)
      <3>1. /\ CallInv(d) /\ d \in DOMAIN job /\ JobInv(d) /\ AwaitingInv(d)
            /\ job[d] \in Job /\ stage[d] \in Running
        BY <2>2 DEF TrustInv, CallInv, JobInv
      <3>2. ASSUME stage[d] = "lookup", Returns(d)'
            PROVE  replies'[d].body \in {CertOf(job[d].uuid), NoCert, NotFound}
        <4>1. r.method = "GET" /\ r.path = <<"trust/cert/get", job[d].uuid>>
          BY <2>2, <3>1, <3>2 DEF AwaitingInv, Get, Request
        <4> QED
          BY <2>2, <3>2, <4>1 DEF Answers, FoundCert, CertOf, NoCert
      <3>3. ASSUME stage[d] = "reading", Returns(d)'
            PROVE  replies'[d].body = NotFound \/ Lawful(job[d].cert.caref, replies'[d].body)
        <4>1. r.method = "GET" /\ r.path = <<"trust/crl/get", job[d].cert.caref>>
          BY <2>2, <3>1, <3>3 DEF AwaitingInv, Get, Request
        <4>2. replies'[d].body \in FoundCrl(job[d].cert.caref)
          BY <2>2, <3>3, <4>1 DEF Answers
        <4>3. Lawful(job[d].cert.caref, {})
          BY DEF Lawful
        <4> QED
          BY <4>2, <4>3 DEF FoundCrl, TrustInv, CertsInv
      <3>4. ASSUME stage[d] = "writing", Returns(d)'
            PROVE  \/ replies'[d].body = "failed"
                   \/ replies'[d].body = "saved" /\ awaiting[d] \in written'
        <4>1. r.method = "POST"
          BY <2>2, <3>1, <3>4 DEF AwaitingInv, WriteRequest, Request
        <4> QED
          BY <2>2, <3>4, <4>1 DEF Answers
      <3>5. ReplyInv(d)'
        <4>1. UNCHANGED <<issued, ledger, stage, job, awaiting>>
          BY <1>1 DEF storeVars
        <4>2. stage[d] = "reading" /\ Returns(d)' =>
                (replies[d].body = NotFound \/ Lawful(job[d].cert.caref, replies[d].body))'
          BY <3>3, <4>1 DEF Lawful
        <4>3. stage[d] = "lookup" /\ Returns(d)' =>
                (replies[d].body \in {CertOf(job[d].uuid), NoCert, NotFound})'
          BY <3>2, <4>1 DEF CertOf, NoCert
        <4>4. stage[d] = "writing" /\ Returns(d)' =>
                (replies[d].body = "failed" \/ (replies[d].body = "saved" /\ awaiting[d] \in written))'
          BY <3>4, <4>1
        <4> QED
          BY <4>1, <4>2, <4>3, <4>4 DEF ReplyInv
      <3>6. JobInv(d)' /\ AwaitingInv(d)'
        BY <1>1, <3>1 DEF JobInv, SpentBy, Arguments, AwaitingInv, WriteRequest, storeVars
      <3>7. d \in DOMAIN read => Lawful(job[d].cert.caref, read[d])'
        BY <1>1, <3>1 DEF CallInv, Lawful, storeVars
      <3> QED
        BY <1>1, <2>2, <3>1, <3>5, <3>6, <3>7 DEF CallInv, WriteRequest
    <2> QED
      BY <2>1, <2>2, FirewallAnswers
  <1>5. PostsInv'
    <2>1. Posts' \subseteq Posts
      BY FirewallAnswers DEF Posts
    <2> QED
      BY <1>1, <2>1, PostsKeep DEF TrustInv
  <1>6. CertsInv'
    <2>1. CASE crl' = crl
      BY <1>1, <2>1, LawfulStays DEF TrustInv, CertsInv
    <2>2. CASE /\ r.method = "POST" /\ r.path[2] # None
               /\ crl' = [crl EXCEPT ![r.path[2]] = r.data]
      <3> DEFINE ca == r.path[2]
                 data == r.data
      <3>1. ca \in CA /\ Lawful(ca, data)
        BY <2>2, WritesAreLawful DEF Posts
      <3>2. crl' = [crl EXCEPT ![ca] = data]
        BY <2>2
      <3> HIDE DEF ca, data
      <3>3. Lawful(ca, data)' /\ data \in SUBSET Revocation
        BY <1>1, <3>1, LawfulStays DEF TrustInv, Lawful
      <3>4. ASSUME NEW x \in CA, NEW S, S = crl'[x]
            PROVE  Lawful(x, S)'
        <4>1. CASE x = ca
          BY <3>1, <3>2, <3>3, <3>4, <4>1 DEF TrustInv, CertsInv
        <4>2. CASE x # ca
          <5>1. S = crl[x]
            BY <3>1, <3>2, <3>4, <4>2 DEF TrustInv, CertsInv
          <5>2. Lawful(x, S)
            BY <5>1 DEF TrustInv, CertsInv
          <5> QED
            BY <1>1, <5>2, LawfulStays DEF TrustInv
        <4> QED
          BY <4>1, <4>2
      <3>5. (\A x \in CA : Lawful(x, crl[x]))'
        BY <3>4 DEF Lawful
      <3> QED
        BY <1>1, <3>2, <3>3, <3>5 DEF TrustInv, CertsInv
    <2> QED
      BY <2>1, <2>2, FirewallAnswers
  <1> QED
    BY <1>2, <1>3, <1>4, <1>5, <1>6 DEF TrustInv

(* Certificates are deleted, the clock ticks, or nothing happens. *)
LEMMA QuietInv ==
  ASSUME TrustInv, [StoreNext]_storeVars, certs' \subseteq certs,
         UNCHANGED <<clientVars, stage, job, crl, read, written>>
  PROVE  TrustInv'
  <1>1. \A d \in Call : Untouched(d)
    BY DEF Untouched, clientVars
  <1>2. ASSUME NEW d \in Call
        PROVE  CallInv(d)'
    BY <1>1, UntouchedKeeps DEF TrustInv
  <1>3. StoreInv' /\ Domains' /\ OneCallPerToken'
    BY NextInv DEF TrustInv, Domains, OneCallPerToken, clientVars
  <1>4. PostsInv'
    <2>1. Posts' \subseteq Posts
      BY DEF Posts, clientVars
    <2> QED
      BY <2>1, PostsKeep DEF TrustInv
  <1>5. CertsInv'
    <2>1. (\A ca \in CA : Lawful(ca, crl[ca]))'
      <3>1. ASSUME NEW ca \in CA, NEW S, S = crl[ca]
            PROVE  Lawful(ca, S)'
        BY <3>1, LawfulStays DEF TrustInv, CertsInv
      <3> QED
        BY <3>1 DEF Lawful
    <2> QED
      BY <2>1 DEF TrustInv, CertsInv
  <1> QED
    BY <1>2, <1>3, <1>4, <1>5 DEF TrustInv

(* The calls of a process that ends die; what they did stays. *)
LEMMA RestartInv ==
  ASSUME TrustInv, Restart
  PROVE  TrustInv'
  <1>1. /\ [StoreNext]_storeVars
        /\ issued' = issued /\ ledger' = ledger
        /\ DOMAIN awaiting' = {} /\ DOMAIN replies' = {} /\ wire' = wire
        /\ stage' = [c \in Call |-> IF stage[c] \in Ended \cup {"idle"} THEN stage[c]
                                                                        ELSE "died"]
        /\ UNCHANGED <<job, certs, crl, read, written>>
    BY DEF Restart, StoreRestart, ClientRestart, EmptyDict, StoreNext
  <1>2. StoreInv' /\ Domains' /\ OneCallPerToken'
    BY <1>1, NextInv DEF TrustInv, Domains, OneCallPerToken, Ended
  <1>3. ASSUME NEW c \in Call
        PROVE  CallInv(c)'
    <2>1. CallInv(c) /\ stage'[c] \in Ended \cup {"idle"}
      BY <1>1 DEF TrustInv, Ended
    <2>2. stage'[c] \in {"idle", "saved"} => stage[c] = stage'[c]
      BY <1>1
    <2>3. c \in DOMAIN job => JobInv(c)'
      BY <1>1, <2>1, <2>2 DEF CallInv, JobInv, SpentBy, Arguments, Ended
    <2>4. c \in DOMAIN read => Lawful(job[c].cert.caref, read[c])'
      BY <1>1, <2>1 DEF CallInv, Lawful
    <2> QED
      BY <1>1, <2>1, <2>2, <2>3, <2>4 DEF CallInv, WriteRequest, Ended, Running
  <1>4. PostsInv'
    <2>1. Posts' \subseteq Posts
      BY <1>1 DEF Posts
    <2>2. \A d \in DOMAIN read : d \in Call
      BY DEF TrustInv, Domains
    <2> QED
      BY <1>1, <2>1, <2>2, PostsKeep DEF TrustInv
  <1>5. CertsInv'
    BY <1>1 DEF TrustInv, CertsInv, Lawful
  <1> QED
    BY <1>2, <1>3, <1>4, <1>5 DEF TrustInv

LEMMA TrustInitInv == TrustInit => TrustInv
  <1> SUFFICES ASSUME TrustInit PROVE TrustInv
    OBVIOUS
  <1>1. /\ DOMAIN awaiting = {} /\ DOMAIN replies = {} /\ DOMAIN job = {} /\ DOMAIN read = {}
        /\ wire = {} /\ written = {} /\ certs = Cert /\ crl = Revoked
        /\ stage = [c \in Call |-> "idle"]
    BY DEF TrustInit, ClientInit, EmptyDict
  <1>2. StoreInv
    BY InitInv DEF TrustInit
  <1>3. Domains /\ OneCallPerToken /\ PostsInv
    BY <1>1 DEF Domains, OneCallPerToken, PostsInv, Posts
  <1>4. \A c \in Call : CallInv(c)
    BY <1>1 DEF CallInv, Running
  <1>5. CertsInv
    BY <1>1, RevokedAssumption DEF CertsInv, Lawful
  <1> QED
    BY <1>2, <1>3, <1>4, <1>5 DEF TrustInv

LEMMA TrustNextInv == TrustInv /\ [TrustNext]_trustVars => TrustInv'
  <1> SUFFICES ASSUME TrustInv, [TrustNext]_trustVars PROVE TrustInv'
    OBVIOUS
  <1>1. [StoreNext]_storeVars
    BY StepsOfStore
  <1>2. ASSUME NEW cert \in Cert, DeleteCert(cert)
        PROVE  TrustInv'
    BY <1>1, <1>2, QuietInv DEF DeleteCert
  <1>3. CASE TimePasses
    BY <1>1, <1>3, QuietInv DEF TimePasses
  <1>4. CASE UNCHANGED trustVars
    BY <1>1, <1>4, QuietInv DEF trustVars
  <1> QED
    BY <1>2, <1>3, <1>4, RefuseUuidInv, LookUpInv, EndInv, ConfirmInv, WriteInv, FirewallInv,
       RestartInv DEF TrustNext

LEMMA TrustInvariance == TrustSpec => []TrustInv
  BY TrustInitInv, TrustNextInv, PTL DEF TrustSpec

-----------------------------------------------------------------------------
(* What the firewall says of a write is so, and stays so.                    *)

AnswersInv ==
  /\ wire \cap written = {}
  /\ \A c \in DOMAIN replies : stage[c] = "writing" =>
       /\ awaiting[c] \notin wire
       /\ Returns(c) /\ replies[c].body = "failed" => awaiting[c] \notin written
  /\ \A c \in Call : stage[c] = "failed" => \A r \in Posts : r.req_id[1] # c

(* A write is of the call in its req_id. *)
LEMMA PostsOfCalls ==
  ASSUME TrustInv, NEW r \in Posts
  PROVE  /\ r.method = "POST"
         /\ r.req_id[1] \in Call
         /\ r = WriteRequest(r.req_id[1])
         /\ stage[r.req_id[1]] \notin {"idle", "lookup", "reading"}
  <1>1. PICK c \in DOMAIN read :
          stage[c] \notin {"idle", "lookup", "reading"} /\ r = WriteRequest(c)
    BY DEF TrustInv, PostsInv
  <1> QED
    BY <1>1 DEF WriteRequest, Request, TrustInv, Domains

LEMMA AwaitedWrites ==
  ASSUME TrustInv, NEW c \in DOMAIN replies, stage[c] = "writing"
  PROVE  awaiting[c] = WriteRequest(c)
  BY DEF TrustInv, Domains, CallInv, AwaitingInv

(* A step of one call that sends no write. *)
LEMMA AnswersKeep ==
  ASSUME TrustInv, AnswersInv, NEW c \in Call, NEW s,
         stage' = [stage EXCEPT ![c] = s],
         s # "writing",
         s = "failed" => \A r \in Posts : r.req_id[1] # c,
         \/ awaiting' = awaiting \/ awaiting' = Drop(awaiting, c)
         \/ \E r : awaiting' = Put(awaiting, c, r),
         replies' = replies \/ replies' = Drop(replies, c),
         \A r \in wire' : r \in wire \/ r.method = "GET",
         written' = written
  PROVE  AnswersInv'
  <1>1. /\ stage'[c] = s
        /\ \A d \in Call : d # c => stage'[d] = stage[d]
        /\ \A d \in DOMAIN replies' : d \in DOMAIN replies /\ replies'[d] = replies[d]
        /\ \A d \in DOMAIN replies : d \in Call /\ d \in DOMAIN awaiting
        /\ \A d \in DOMAIN awaiting : d # c => awaiting'[d] = awaiting[d]
    BY DEF TrustInv, Domains, CallInv, Drop, Put
  <1>2. Posts' \subseteq Posts
    BY DEF Posts
  <1>3. (wire \cap written = {})'
    BY PostsOfCalls DEF AnswersInv, Posts
  <1>4. ASSUME NEW d \in DOMAIN replies', stage'[d] = "writing"
        PROVE  /\ awaiting'[d] \notin wire'
               /\ Returns(d)' /\ replies'[d].body = "failed" => awaiting'[d] \notin written'
    <2>1. d # c /\ d \in DOMAIN replies /\ stage[d] = "writing" /\ awaiting'[d] = awaiting[d]
      BY <1>1, <1>4
    <2>2. awaiting[d] = WriteRequest(d)
      BY <2>1, AwaitedWrites
    <2>3. awaiting[d].method # "GET"
      BY <2>2 DEF WriteRequest, Request
    <2> QED
      BY <1>1, <2>1, <2>3 DEF AnswersInv, Returns
  <1>5. \A d \in Call : stage'[d] = "failed" => \A r \in Posts' : r.req_id[1] # d
    BY <1>1, <1>2 DEF AnswersInv
  <1> QED
    BY <1>3, <1>4, <1>5 DEF AnswersInv

LEMMA ReturnAnswers ==
  ASSUME TrustInv, AnswersInv, NEW c \in Call, Return(c)
  PROVE  AnswersInv'
  <1>1. /\ stage[c] = "writing" /\ stage' = [stage EXCEPT ![c] = replies[c].body]
        /\ c \in DOMAIN replies /\ Returns(c)
        /\ awaiting' = Drop(awaiting, c) /\ replies' = Drop(replies, c)
        /\ wire' = wire /\ written' = written
    BY DEF Return, Moves, Succeed, Returns, Resume
  <1>2. replies[c].body \in {"saved", "failed"}
    BY <1>1 DEF TrustInv, CallInv, ReplyInv
  <1>3. ASSUME replies[c].body = "failed", NEW r \in Posts
        PROVE  r.req_id[1] # c
    <2>1. WriteRequest(c) \notin Posts
      BY <1>1, <1>3, AwaitedWrites DEF AnswersInv, Posts
    <2> QED
      BY <2>1, PostsOfCalls
  <1> QED
    BY <1>1, <1>2, <1>3, AnswersKeep

LEMMA WriteAnswers ==
  ASSUME TrustInv, AnswersInv, NEW c \in Call, Write(c)
  PROVE  AnswersInv'
  <1>1. PICK r : /\ stage[c] = "reading" /\ stage' = [stage EXCEPT ![c] = "writing"]
                 /\ r.req_id[1] = c
                 /\ awaiting' = Put(awaiting, c, r) /\ replies' = Drop(replies, c)
                 /\ wire' = wire \cup {r} /\ written' = written
    BY DEF Write, Moves, Succeed, Resume, Request
  <1>2. /\ stage'[c] = "writing"
        /\ \A d \in Call : d # c => stage'[d] = stage[d]
        /\ \A d \in DOMAIN replies' : d # c /\ d \in DOMAIN replies /\ replies'[d] = replies[d]
        /\ \A d \in DOMAIN replies : d \in Call /\ d \in DOMAIN awaiting
        /\ \A d \in DOMAIN awaiting : d # c => awaiting'[d] = awaiting[d]
    BY <1>1 DEF TrustInv, Domains, CallInv, Drop, Put
  <1>3. r \notin written
    BY <1>1, PostsOfCalls DEF Posts
  <1>4. ASSUME NEW d \in DOMAIN replies', stage'[d] = "writing"
        PROVE  /\ awaiting'[d] \notin wire'
               /\ Returns(d)' /\ replies'[d].body = "failed" => awaiting'[d] \notin written'
    <2>1. awaiting[d] = WriteRequest(d)
      BY <1>2, <1>4, AwaitedWrites
    <2>2. awaiting[d].req_id[1] = d
      BY <2>1 DEF WriteRequest, Request
    <2> QED
      BY <1>1, <1>2, <1>4, <2>2 DEF AnswersInv, Returns
  <1>5. ASSUME NEW d \in Call, stage'[d] = "failed", NEW q \in Posts'
        PROVE  q.req_id[1] # d
    BY <1>1, <1>2, <1>5 DEF AnswersInv, Posts
  <1> QED
    BY <1>1, <1>3, <1>4, <1>5 DEF AnswersInv

LEMMA FirewallAnswersTruly ==
  ASSUME TrustInv, AnswersInv, NEW r \in wire, Firewall(r)
  PROVE  AnswersInv'
  <1>1. /\ wire' = wire \ {r} /\ written \subseteq written' /\ written' \subseteq written \cup {r}
        /\ stage' = stage /\ awaiting' = awaiting
        /\ Posts' \subseteq Posts
    BY FirewallAnswers DEF Posts
  <1>2. ASSUME NEW d \in DOMAIN replies', stage'[d] = "writing"
        PROVE  /\ awaiting'[d] \notin wire'
               /\ Returns(d)' /\ replies'[d].body = "failed" => awaiting'[d] \notin written'
    <2>1. CASE d \in DOMAIN replies /\ replies'[d] = replies[d]
      BY <1>1, <1>2, <2>1 DEF AnswersInv, Returns
    <2>2. CASE /\ d \in DOMAIN awaiting /\ awaiting[d] = r
               /\ Returns(d)' => Answers(r, replies'[d].body)
      <3>0. r = WriteRequest(d)
        BY <1>1, <1>2, <2>2 DEF TrustInv, Domains, CallInv, AwaitingInv
      <3>1. r.method = "POST"
        BY <3>0 DEF WriteRequest, Request
      <3> QED
        BY <1>1, <2>2, <3>1 DEF AnswersInv, Answers
    <2> QED
      BY <2>1, <2>2, FirewallAnswers
  <1> QED
    BY <1>1, <1>2 DEF AnswersInv

LEMMA AnswersNext == TrustInv /\ AnswersInv /\ [TrustNext]_trustVars => AnswersInv'
  <1> SUFFICES ASSUME TrustInv, AnswersInv, [TrustNext]_trustVars PROVE AnswersInv'
    OBVIOUS
  <1>1. ASSUME NEW c \in Call, RefuseUuid(c)
        PROVE  AnswersInv'
    BY <1>1, AnswersKeep DEF RefuseUuid, Moves, clientVars
  <1>2. ASSUME NEW c \in Call, NEW uuid, NEW reason, NEW confirm, LookUp(c, uuid, reason, confirm)
        PROVE  AnswersInv'
    <2>1. PICK r : /\ r.method = "GET"
                   /\ awaiting' = Put(awaiting, c, r) /\ replies' = replies
                   /\ wire' = wire \cup {r} /\ written' = written
                   /\ stage' = [stage EXCEPT ![c] = "lookup"]
      BY <1>2 DEF LookUp, Moves, Send, Get, Request
    <2> QED
      BY <2>1, AnswersKeep
  <1>3. ASSUME NEW c \in Call, (\E t \in Token : Preview(c, t)) \/ RefuseToken(c)
        PROVE  AnswersInv'
    BY <1>3, AnswersKeep DEF Preview, RefuseToken, Moves, Succeed, Resume
  <1>4. ASSUME NEW c \in Call, Confirm(c)
        PROVE  AnswersInv'
    <2>1. PICK r : /\ r.method = "GET"
                   /\ awaiting' = Put(awaiting, c, r) /\ replies' = Drop(replies, c)
                   /\ wire' = wire \cup {r} /\ written' = written
                   /\ stage' = [stage EXCEPT ![c] = "reading"]
      BY <1>4 DEF Confirm, Moves, Succeed, Resume, Get, Request
    <2> QED
      BY <2>1, AnswersKeep
  <1>5. ASSUME NEW c \in Call, Fail(c)
        PROVE  AnswersInv'
    <2>1. /\ awaiting' = Drop(awaiting, c) /\ replies' = Drop(replies, c)
          /\ wire' \subseteq wire /\ written' = written
          /\ \E s \in {"tool_error", "raised"} : stage' = [stage EXCEPT ![c] = s]
      BY <1>5 DEF Fail, RaisesToolError, Refused, ConnectFails, ReadTimesOut, RaisesOther,
                  BodyIsNoJson, Escapes, Succeed, Resume
    <2> QED
      BY <2>1, AnswersKeep
  <1>6. CASE Restart
    <2>1. /\ DOMAIN replies' = {} /\ wire' = wire /\ written' = written /\ Posts' = Posts
          /\ \A c \in Call : stage'[c] = "failed" => stage[c] = "failed"
      BY <1>6 DEF Restart, ClientRestart, EmptyDict, Posts
    <2> QED
      BY <2>1 DEF AnswersInv
  <1>7. CASE TimePasses \/ UNCHANGED trustVars \/ \E cert \in Cert : DeleteCert(cert)
    BY <1>7 DEF TimePasses, DeleteCert, trustVars, clientVars, AnswersInv, Posts, Returns
  <1> QED
    BY <1>1, <1>2, <1>3, <1>4, <1>5, <1>6, <1>7, ReturnAnswers, WriteAnswers,
       FirewallAnswersTruly DEF TrustNext

LEMMA AnswersInvariance == TrustSpec => [](TrustInv /\ AnswersInv)
  <1>1. TrustInit => AnswersInv
    BY DEF TrustInit, ClientInit, EmptyDict, AnswersInv, Posts
  <1> QED
    BY <1>1, TrustInitInv, TrustNextInv, AnswersNext, PTL DEF TrustSpec

-----------------------------------------------------------------------------
(* The variables keep their types, and a call has a request out exactly while
   it is between two of its awaits (trust.py:112-144). *)
THEOREM TrustTypes == TrustSpec => []TrustTypeOK
  <1>1. TrustInv => TrustTypeOK
    BY DEF TrustInv, StoreInv, Domains, CallInv, CertsInv, TrustTypeOK, Running
  <1> QED
    BY <1>1, TrustInvariance, PTL

(* One confirmation is one write of a CRL, on every interleaving of calls at
   the three awaits, with late requests and restarts. *)
THEOREM ConfirmationsBuyOneWrite == TrustSpec => []OneWritePerToken
  <1>1. TrustInv => OneWritePerToken
    <2> SUFFICES ASSUME TrustInv, NEW r \in Posts, NEW q \in Posts, r.token = q.token
                 PROVE  r = q
      BY DEF OneWritePerToken, Posts
    <2>1. PICK c \in DOMAIN read : r = WriteRequest(c)
      BY DEF TrustInv, PostsInv
    <2>2. PICK d \in DOMAIN read : q = WriteRequest(d)
      BY DEF TrustInv, PostsInv
    <2>3. /\ c \in DOMAIN job /\ d \in DOMAIN job
          /\ job[c].cert # None /\ job[d].cert # None
      BY DEF TrustInv, Domains, CallInv
    <2>4. job[c].confirm = job[d].confirm
      BY <2>1, <2>2 DEF WriteRequest, Request
    <2>5. c = d
      BY <2>3, <2>4 DEF TrustInv, OneCallPerToken
    <2> QED
      BY <2>1, <2>2, <2>5
  <1> QED
    BY <1>1, TrustInvariance, PTL

(* The result of a call is true of the CRL (trust.py:130-131): what returns as
   saved has been written, with the certificate that was looked up in it, and
   of a call that returns a failure no write was made or is still to come,
   whatever status the reply had. *)
THEOREM ResultsMeanWhatTheySay == TrustSpec => []ResultsAreTrue
  <1>1. TrustInv /\ AnswersInv => ResultsAreTrue
    <2> SUFFICES ASSUME TrustInv, AnswersInv, NEW c \in Call
                 PROVE  /\ stage[c] = "saved" =>
                             \E r \in written :
                               /\ r.token = job[c].confirm
                               /\ job[c].cert.refid # None =>
                                    <<job[c].uuid, job[c].reason>> \in r.data
                        /\ stage[c] = "failed" =>
                             \A r \in wire \cup written : r.method = "POST" => r.req_id[1] # c
      BY DEF ResultsAreTrue
    <2>1. CASE stage[c] = "saved"
      <3>1. /\ WriteRequest(c) \in written /\ SpentBy(c)
        BY <2>1 DEF TrustInv, CallInv, JobInv
      <3>2. job[c].cert.refid # None => job[c].cert.refid = job[c].uuid
        BY <3>1 DEF SpentBy, CertOf, NoCert
      <3> QED
        BY <2>1, <3>1, <3>2 DEF WriteRequest, Request, WithRevocation
    <2>2. CASE stage[c] = "failed"
      BY <2>2 DEF AnswersInv, Posts
    <2> QED
      BY <2>1, <2>2
  <1> QED
    BY <1>1, AnswersInvariance, PTL

(* Whatever is in a CRL and was not there before was confirmed, and is in the
   CRL of its own issuer. *)
THEOREM OnlyConfirmedAreRevoked == TrustSpec => []RevokedOnlyIfConfirmed
  <1>1. TrustInv => RevokedOnlyIfConfirmed
    BY DEF TrustInv, CertsInv, Lawful, RevokedOnlyIfConfirmed
  <1> QED
    BY <1>1, TrustInvariance, PTL

LEMMA ArrivalsKeep ==
  ASSUME TrustInv, TrustNext, NEW r \in wire \ wire', r.method = "POST", r.path[2] # None
  PROVE  read[r.req_id[1]] \cap crl[r.path[2]] \subseteq crl'[r.path[2]]
  <1>1. CASE crl' = crl
    BY <1>1
  <1>2. ASSUME NEW q \in wire, Firewall(q)
        PROVE  read[r.req_id[1]] \cap crl[r.path[2]] \subseteq crl'[r.path[2]]
    <2>1. q = r
      BY <1>2, FirewallAnswers
    <2>2. /\ r.path[2] \in CA
          /\ read[r.req_id[1]] \subseteq r.data
          /\ DOMAIN crl = CA
      BY WritesAreLawful DEF Posts, TrustInv, CertsInv
    <2>3. crl' = crl \/ crl' = [crl EXCEPT ![r.path[2]] = r.data]
      BY <1>2, <2>1, FirewallAnswers
    <2> QED
      BY <2>2, <2>3
  <1>3. \/ crl' = crl
        \/ \E q \in wire : Firewall(q)
    BY DEF TrustNext, RefuseUuid, LookUp, Preview, RefuseToken, Confirm, Write, Return, Fail,
           DeleteCert, TimePasses, Restart
  <1> QED
    BY <1>1, <1>2, <1>3

(* The write of a call takes nothing out of the CRL that the call had read
   (trust.py:122-131): what is lost was entered in between. *)
THEOREM WritesDropNothingRead == TrustSpec => WritesKeepWhatTheyRead
  <1>1. TrustInv /\ [TrustNext]_trustVars =>
          [\A r \in wire \ wire' :
             r.method = "POST" /\ r.path[2] # None =>
               read[r.req_id[1]] \cap crl[r.path[2]] \subseteq crl'[r.path[2]]]_trustVars
    BY ArrivalsKeep
  <1> QED
    BY <1>1, TrustInvariance, PTL DEF TrustSpec, WritesKeepWhatTheyRead

LEMMA TrustDrivesTheStore == TrustSpec => StoreSpec
  <1>1. TrustInit => StoreInit
    BY DEF TrustInit
  <1>2. TrustInv /\ [TrustNext]_trustVars => [StoreNext]_storeVars
    BY StepsOfStore
  <1> QED
    BY <1>1, <1>2, TrustInvariance, PTL DEF TrustSpec, StoreSpec

(* What was proved of the store holds of it while revocations drive it
   (trust.py:113-136), whose calls look up before they preview: they cost each
   other no offer, leave no expired one, and expiry is as by a timer. *)
THEOREM TrustKeepsTheStore == TrustSpec => OfferIsKept /\ CallsEvict /\ EagerSpec
  BY TrustDrivesTheStore, CallsKeepTheOffersOfOthers, NoDeadEntries, LazyExpiryIsEager, PTL

-----------------------------------------------------------------------------
(* The tool keeps the promise of the confirm-then-execute layer, although    *)
(* two awaits lie between the confirmation and the request it buys.  An      *)
(* operation is due from its confirmation until a write made for it is       *)
(* carried out; one whose call fails in between stays due for good.          *)

Operation(token, tool_name, arguments) ==
  [token |-> token, path |-> tool_name, data |-> arguments]

(* The variables of the promise, as the tool implements them. *)
Offers ==
  [t \in DOMAIN Unexpired |->
     [path |-> Unexpired[t].tool_name, data |-> Unexpired[t].arguments]]

Confirmed ==
  {Operation(ledger[i].token, ledger[i].tool_name, ledger[i].arguments) : i \in DOMAIN ledger}

(* What a write was made for is what its call was asked for. *)
Done == {Operation(r.token, ToolName, Arguments(r.req_id[1])) : r \in written}

Promise ==
  INSTANCE ConfirmThenExecute WITH
    offers <- Offers, used <- DOMAIN issued, due <- Confirmed \ Done, done <- Done

(* Nothing but revocations is confirmed. *)
OwnTool == \A i \in DOMAIN ledger : ledger[i].tool_name = ToolName

PromiseInv == TrustInv /\ OwnTool

LEMMA LedgerSteps ==
  ASSUME TrustInv, [TrustNext]_trustVars
  PROVE  \/ ledger' = ledger
         \/ \E c \in Call : Confirm(c)
  BY DEF TrustNext, trustVars, storeVars, RefuseUuid, LookUp, Preview, Create, RefuseToken, Reject,
         Write, Return, Fail, Firewall, DeleteCert, TimePasses, Tick, Restart, StoreRestart

(* What a confirmation hands to the store. *)
LEMMA ConfirmConsumes ==
  ASSUME TrustInv, NEW c \in Call, Confirm(c)
  PROVE  /\ job[c].confirm \in Token
         /\ Arguments(c) \in Args
         /\ Consume(job[c].confirm, ToolName, Arguments(c))
  <1>1. c \in DOMAIN job /\ job[c] \in Job
    BY DEF Confirm, Moves, TrustInv, CallInv, JobInv, Running
  <1>2. Arguments(c) \in Args
    BY <1>1, ArgumentsTyped DEF Arguments
  <1>3. job[c].confirm \in Token
    BY <1>1 DEF Confirm, Job
  <1> QED
    BY <1>2, <1>3 DEF Confirm

LEMMA PromiseInvariance == TrustSpec => []PromiseInv
  <1>1. TrustInit => PromiseInv
    BY TrustInitInv DEF TrustInit, StoreInit, PromiseInv, OwnTool
  <1>2. PromiseInv /\ [TrustNext]_trustVars => PromiseInv'
    <2> SUFFICES ASSUME PromiseInv, [TrustNext]_trustVars PROVE TrustInv' /\ OwnTool'
      BY DEF PromiseInv
    <2>1. TrustInv'
      BY TrustNextInv DEF PromiseInv
    <2>2. CASE ledger' = ledger
      BY <2>1, <2>2 DEF PromiseInv, OwnTool
    <2>3. ASSUME NEW c \in Call, Confirm(c) PROVE OwnTool'
      <3> DEFINE entry == [token |-> job[c].confirm, tool_name |-> ToolName,
                           arguments |-> Arguments(c), at |-> now]
      <3>1. ledger' = Append(ledger, entry)
        BY <2>3, ConfirmConsumes DEF PromiseInv, Consume
      <3>2. entry.tool_name = ToolName
        OBVIOUS
      <3> HIDE DEF entry
      <3>3. ledger \in Seq(Confirmation)
        BY DEF PromiseInv, TrustInv, StoreInv, StoreTypeOK
      <3>4. \A i \in DOMAIN ledger' : (i \in DOMAIN ledger /\ ledger'[i] = ledger[i])
              \/ ledger'[i] = entry
        BY <3>1, <3>3
      <3> QED
        BY <3>2, <3>4 DEF PromiseInv, OwnTool
    <2> QED
      BY <2>1, <2>2, <2>3, LedgerSteps DEF PromiseInv
  <1> QED
    BY <1>1, <1>2, PTL DEF TrustSpec

(* What a call was asked for stays what it was. *)
LEMMA ArgumentsStay ==
  ASSUME TrustInv, [TrustNext]_trustVars
  PROVE  \A c \in DOMAIN job : Arguments(c)' = Arguments(c)
  <1>1. CASE job' = job
    BY <1>1 DEF Arguments
  <1>2. ASSUME NEW d \in Call, NEW j, stage[d] = "idle", job' = Put(job, d, j)
        PROVE  \A c \in DOMAIN job : Arguments(c)' = Arguments(c)
    <2>1. d \notin DOMAIN job
      BY <1>2 DEF TrustInv, CallInv
    <2> QED
      BY <1>2, <2>1 DEF Put, Arguments
  <1>3. ASSUME NEW d \in Call, Confirm(d)
        PROVE  \A c \in DOMAIN job : Arguments(c)' = Arguments(c)
    <2>1. job' = [job EXCEPT ![d].cert = replies[d].body]
      BY <1>3 DEF Confirm
    <2>2. \A c \in DOMAIN job : job[c] \in Job
      BY DEF TrustInv, Domains, CallInv, JobInv
    <2>3. \A c \in DOMAIN job : job'[c].uuid = job[c].uuid /\ job'[c].reason = job[c].reason
      BY <2>1, <2>2 DEF Job
    <2> QED
      BY <2>3 DEF Arguments
  <1>4. \/ job' = job
        \/ \E d \in Call : Confirm(d)
        \/ \E d \in Call, j \in {job'[c] : c \in DOMAIN job'} : stage[d] = "idle" /\ job' = Put(job, d, j)
    <2>1. ASSUME NEW d \in Call, NEW uuid, NEW reason, NEW confirm, LookUp(d, uuid, reason, confirm)
          PROVE  \E j \in {job'[c] : c \in DOMAIN job'} : stage[d] = "idle" /\ job' = Put(job, d, j)
      <3> DEFINE j == [uuid |-> uuid, reason |-> reason, confirm |-> confirm, cert |-> None]
      <3>1. stage[d] = "idle" /\ job' = Put(job, d, j)
        BY <2>1 DEF LookUp, Moves
      <3> HIDE DEF j
      <3>2. d \in DOMAIN job' /\ job'[d] = j
        BY <3>1 DEF Put
      <3> QED
        BY <3>1, <3>2
    <2> QED
      BY <2>1 DEF TrustNext, trustVars, RefuseUuid, Preview, RefuseToken, Write, Return, Fail,
                  Firewall, DeleteCert, TimePasses, Restart
  <1> QED
    BY <1>1, <1>2, <1>3, <1>4

(* A write was made for an operation that was confirmed. *)
LEMMA WritesAreConfirmed ==
  ASSUME PromiseInv, NEW r \in Posts
  PROVE  /\ r.req_id[1] \in DOMAIN job
         /\ Operation(r.token, ToolName, Arguments(r.req_id[1])) \in Confirmed
  <1>1. PICK c \in DOMAIN read : r = WriteRequest(c)
    BY DEF PromiseInv, TrustInv, PostsInv
  <1>2. r.req_id[1] = c /\ r.token = job[c].confirm
    BY <1>1 DEF WriteRequest, Request
  <1>3. c \in DOMAIN job /\ SpentBy(c)
    BY <1>1 DEF PromiseInv, TrustInv, Domains, CallInv, JobInv
  <1>4. PICK i \in DOMAIN ledger :
          ledger[i].token = job[c].confirm /\ issued[ledger[i].token].arguments = Arguments(c)
    BY <1>3 DEF SpentBy
  <1>5. ledger[i].arguments = Arguments(c) /\ ledger[i].tool_name = ToolName
    BY <1>4 DEF PromiseInv, OwnTool, TrustInv, StoreInv, SpentAsIssued
  <1> QED
    BY <1>2, <1>3, <1>4, <1>5 DEF Confirmed

LEMMA DoneStays ==
  ASSUME PromiseInv, [TrustNext]_trustVars
  PROVE  written' = written => Done' = Done
  <1>1. \A r \in written : Arguments(r.req_id[1])' = Arguments(r.req_id[1])
    BY ArgumentsStay, WritesAreConfirmed DEF PromiseInv, Posts
  <1> QED
    BY <1>1 DEF Done

LEMMA OffersOfStep ==
  Offers' = [t \in DOMAIN Unexpired' |->
               [path |-> Unexpired'[t].tool_name, data |-> Unexpired'[t].arguments]]
  BY DEF Offers, Unexpired

LEMMA PreviewOffers ==
  ASSUME PromiseInv, [TrustNext]_trustVars, NEW c \in Call, NEW t \in Token, Preview(c, t)
  PROVE  Promise!Offer(t)
  <1>1. c \in DOMAIN job /\ job[c] \in Job
    BY DEF Preview, Moves, PromiseInv, TrustInv, CallInv, JobInv, Running
  <1>2. Eager!Offer(t, ToolName, Arguments(c))
    BY <1>1, CreateOffers, ArgumentsTyped, ToolAssumption DEF Preview, PromiseInv, TrustInv, Arguments
  <1>3. /\ t \notin DOMAIN issued
        /\ DOMAIN issued' = DOMAIN issued \cup {t}
        /\ DOMAIN Unexpired' = DOMAIN Unexpired \cup {t}
        /\ \A x \in DOMAIN Unexpired : x # t => Unexpired'[x] = Unexpired[x]
    BY <1>2 DEF Eager!Offer
  <1>4. t \notin DOMAIN Unexpired
    BY <1>3, UnexpiredType DEF PromiseInv, TrustInv, StoreInv
  <1>5. /\ DOMAIN Offers' = DOMAIN Offers \cup {t}
        /\ \A x \in DOMAIN Offers : Offers'[x] = Offers[x]
    BY <1>3, <1>4, OffersOfStep DEF Offers
  <1>6. Done' = Done /\ Confirmed' = Confirmed
    BY DoneStays DEF Preview, Create, Confirmed
  <1> QED
    BY <1>3, <1>5, <1>6 DEF Promise!Offer

(* A token that has not been spent has bought nothing. *)
LEMMA ConfirmTakes ==
  ASSUME PromiseInv, [TrustNext]_trustVars, NEW c \in Call, Confirm(c)
  PROVE  Promise!Take(job[c].confirm)
  <1> DEFINE t == job[c].confirm
             op == Operation(t, ToolName, Arguments(c))
             entry == [token |-> t, tool_name |-> ToolName, arguments |-> Arguments(c), at |-> now]
  <1>1. t \in Token /\ Arguments(c) \in Args /\ Consume(t, ToolName, Arguments(c))
    BY ConfirmConsumes DEF PromiseInv
  <1>2. Eager!Confirm(t)
    BY <1>1, ConsumeConfirms, ToolAssumption DEF PromiseInv, TrustInv
  <1>3. /\ t \in DOMAIN Unexpired
        /\ Unexpired' = [x \in DOMAIN Unexpired \ {t} |-> Unexpired[x]]
        /\ DOMAIN issued' = DOMAIN issued
    BY <1>2 DEF Eager!Confirm
  <1>4. t \in DOMAIN Offers /\ Offers' = [x \in DOMAIN Offers \ {t} |-> Offers[x]]
    BY <1>3, OffersOfStep DEF Offers
  <1>5. Offers[t] = [path |-> ToolName, data |-> Arguments(c)]
    BY <1>1, UnexpiredFacts DEF Consume, Matches, Offers
  <1>6. op = [token |-> t, path |-> Offers[t].path, data |-> Offers[t].data]
    BY <1>5 DEF Operation
  <1>7. ledger' = Append(ledger, entry) /\ op = Operation(entry.token, entry.tool_name, entry.arguments)
    BY <1>1 DEF Consume
  <1>8. \A i \in DOMAIN ledger : ledger[i].token # t
    BY <1>3, UnexpiredFacts DEF PromiseInv, TrustInv, StoreInv, SpentIsGone
  <1>9. Done' = Done
    BY DoneStays DEF Confirm
  <1>10. op \notin Done
    <2>1. \A x \in Confirmed : x.token # t
      BY <1>8 DEF Confirmed, Operation
    <2>2. Done \subseteq Confirmed
      BY WritesAreConfirmed DEF Done, Posts
    <2> QED
      BY <2>1, <2>2 DEF Operation
  <1> HIDE DEF op, entry, t
  <1>11. Confirmed' = Confirmed \cup {op}
    <2>1. ledger \in Seq(Confirmation)
      BY DEF PromiseInv, TrustInv, StoreInv, StoreTypeOK
    <2>2. /\ DOMAIN ledger' = DOMAIN ledger \cup {Len(ledger) + 1}
          /\ \A i \in DOMAIN ledger : i # Len(ledger) + 1 /\ ledger'[i] = ledger[i]
          /\ ledger'[Len(ledger) + 1] = entry
      BY <1>7, <2>1
    <2> QED
      BY <1>7, <2>2 DEF Confirmed
  <1>12. Promise!Take(t)
    BY <1>3, <1>4, <1>6, <1>9, <1>10, <1>11 DEF Promise!Take, Promise!Without
  <1> QED
    BY <1>12 DEF t

(* A write that arrives carries out what was due, or was made for something
   that is done already: the same write. *)
LEMMA FirewallCarriesOut ==
  ASSUME PromiseInv, [TrustNext]_trustVars, NEW r \in wire, Firewall(r)
  PROVE  (\E d \in Confirmed \ Done : Promise!CarryOut(d)) \/ UNCHANGED Promise!vars
  <1> DEFINE d == Operation(r.token, ToolName, Arguments(r.req_id[1]))
  <1>1. UNCHANGED <<storeVars, job>>
    BY DEF Firewall
  <1>2. Offers' = Offers /\ Confirmed' = Confirmed /\ DOMAIN issued' = DOMAIN issued
    BY <1>1 DEF storeVars, Offers, Unexpired, Confirmed
  <1>3. CASE written' = written
    BY <1>2, <1>3, DoneStays DEF Promise!vars
  <1>4. CASE r.method = "POST" /\ written' = written \cup {r}
    <2>1. d \in Confirmed
      BY <1>4, WritesAreConfirmed DEF Posts
    <2>2. Done' = Done \cup {d}
      BY <1>1, <1>4 DEF Done, Arguments
    <2> HIDE DEF d
    <2>3. CASE d \in Done
      BY <1>2, <2>2, <2>3 DEF Promise!vars
    <2>4. CASE d \notin Done
      <3>1. d \in Confirmed \ Done /\ Promise!CarryOut(d)
        BY <1>2, <2>1, <2>2, <2>4 DEF Promise!CarryOut
      <3> QED
        BY <3>1
    <2> QED
      BY <2>3, <2>4
  <1> QED
    BY <1>3, <1>4 DEF Firewall, AnswerGet, AnswerPost

(* The clock and the end of the process only let offers lapse. *)
LEMMA OffersLapse ==
  ASSUME PromiseInv, [TrustNext]_trustVars, TimePasses \/ Restart
  PROVE  Promise!Lapse
  <1>1. \E S \in SUBSET DOMAIN Unexpired : Unexpired' = [x \in S |-> Unexpired[x]]
    <2>1. CASE TimePasses
      <3>1. Eager!Pass
        BY <2>1, TickPasses DEF TimePasses, PromiseInv, TrustInv
      <3> QED
        BY <3>1 DEF Eager!Pass
    <2>2. CASE Restart
      <3>1. Unexpired' = [x \in {} |-> Unexpired[x]]
        BY <2>2 DEF Restart, StoreRestart, Unexpired, EmptyDict
      <3> QED
        BY <3>1
    <2> QED
      BY <2>1, <2>2
  <1>2. PICK S \in SUBSET DOMAIN Unexpired : Unexpired' = [x \in S |-> Unexpired[x]]
    BY <1>1
  <1>3. S \in SUBSET DOMAIN Offers /\ Offers' = [x \in S |-> Offers[x]]
    BY <1>2, OffersOfStep DEF Offers
  <1>4. Done' = Done /\ Confirmed' = Confirmed /\ DOMAIN issued' = DOMAIN issued
    BY DoneStays DEF TimePasses, Tick, Restart, StoreRestart, Confirmed
  <1> QED
    BY <1>3, <1>4 DEF Promise!Lapse

LEMMA TrustStepRefines ==
  PromiseInv /\ [TrustNext]_trustVars => [Promise!Next]_(Promise!vars)
  <1> SUFFICES ASSUME PromiseInv, [TrustNext]_trustVars
               PROVE  Promise!Next \/ UNCHANGED Promise!vars
    OBVIOUS
  <1>1. ASSUME NEW c \in Call, NEW t \in Token, Preview(c, t)
        PROVE  Promise!Next
    BY <1>1, PreviewOffers DEF Promise!Next
  <1>2. ASSUME NEW c \in Call, Confirm(c)
        PROVE  Promise!Next
    BY <1>2, ConfirmTakes, ConfirmConsumes DEF Promise!Next, PromiseInv
  <1>3. ASSUME Unexpired' = Unexpired, UNCHANGED <<issued, ledger, written>>
        PROVE  UNCHANGED Promise!vars
    BY <1>3, OffersOfStep, DoneStays DEF Promise!vars, Offers, Confirmed
  <1>4. ASSUME NEW c \in Call, RefuseToken(c)
        PROVE  UNCHANGED Promise!vars
    BY <1>3, <1>4, Evicted DEF RefuseToken, Reject
  <1>5. ASSUME UNCHANGED <<storeVars, written>>
        PROVE  UNCHANGED Promise!vars
    BY <1>3, <1>5 DEF storeVars, Unexpired
  <1>6. ASSUME NEW c \in Call,
               \/ RefuseUuid(c) \/ Write(c) \/ Return(c) \/ Fail(c)
               \/ \E uuid \in Cert, reason \in Reason, confirm \in Token \cup {None} :
                    LookUp(c, uuid, reason, confirm)
        PROVE  UNCHANGED Promise!vars
    BY <1>5, <1>6 DEF RefuseUuid, Write, Return, Fail, LookUp
  <1>7. ASSUME NEW r \in wire, Firewall(r)
        PROVE  Promise!Next \/ UNCHANGED Promise!vars
    BY <1>7, FirewallCarriesOut DEF Promise!Next
  <1>8. CASE TimePasses \/ Restart
    BY <1>8, OffersLapse DEF Promise!Next
  <1>9. CASE UNCHANGED trustVars \/ \E cert \in Cert : DeleteCert(cert)
    BY <1>5, <1>9 DEF trustVars, DeleteCert
  <1> QED
    BY <1>1, <1>2, <1>4, <1>6, <1>7, <1>8, <1>9 DEF TrustNext

(* Whatever is awaited between, a revocation is offered under a token never
   used before, confirmed once and in time, and written once at most after
   that, for the certificate and the reason that were previewed
   (trust.py:113-144). *)
THEOREM RevocationsKeepThePromise == TrustSpec => Promise!Spec
  <1>1. TrustInit => Promise!Init
    BY EmptyStore
       DEF TrustInit, StoreInit, Promise!Init, EmptyDict, Offers, Confirmed, Done
  <1> QED
    BY <1>1, TrustStepRefines, PromiseInvariance, PTL DEF TrustSpec, Promise!Spec
=============================================================================
