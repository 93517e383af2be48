----------------------------- MODULE TrustRevoke -----------------------------
(***************************************************************************)
(* trust_certificate_revoke (src/opnsense_mcp/tools/trust.py): the         *)
(* high-risk tool that is a read-modify-write.  Every call, previews too,  *)
(* looks the certificate up first; the confirmed one then reads the CRL of *)
(* the issuing CA, adds the certificate to the bucket of the reason, and   *)
(* posts the whole CRL back.  Calls interleave at each of the awaits, and  *)
(* a write given up on may still arrive.                                   *)
(***************************************************************************)
EXTENDS PendingOperationStore, OPNsenseClient

CONSTANTS
  Cert,      \* certificates, each with its uuid and its refid
  CA,
  Issuer,    \* the CA (caref) of each certificate
  Reason,    \* revocation reasons: each has a bucket in the CRL
  NotFound,  \* [], the answer when there is no such object
  Revoked    \* CA |-> the revocations before the server started

VARIABLES
  stage,     \* call |-> how far it is, or how it ended
  job,       \* call |-> its arguments, and the certificate it looked up
  certs,     \* certificates the firewall holds
  crl,       \* CA |-> its revocations, pairs <<certificate, reason>>
  read,      \* call |-> the CRL its execution read; kept for the properties
  written    \* CRL writes the firewall has carried out, likewise

trustVars == <<storeVars, clientVars, stage, job, certs, crl, read, written>>

Revocation == Cert \X Reason

ASSUME IssuerAssumption == Issuer \in [Cert -> CA]
ASSUME RevokedAssumption == Revoked \in [CA -> SUBSET Revocation]
ASSUME NotFoundAssumption == NotFound # None
ASSUME ArgsAssumption == Args = [uuid : Cert, reason : Reason]

ToolName == "trust_certificate_revoke"
ASSUME ToolAssumption == ToolName \in Tool

TrustInit ==
  /\ StoreInit
  /\ ClientInit
  /\ stage = [c \in Call |-> "idle"]
  /\ job = EmptyDict
  /\ certs = Cert
  /\ crl = Revoked
  /\ read = EmptyDict
  /\ written = {}

Moves(c, from, to) ==
  /\ stage[c] = from
  /\ stage' = [stage EXCEPT ![c] = to]

Arguments(c) == [uuid |-> job[c].uuid, reason |-> job[c].reason]

Get(c, step, path) == Request(<<c, step>>, "GET", path, None, None)

(* A malformed uuid is refused before anything else. *)
RefuseUuid(c) ==
  /\ Moves(c, "idle", "tool_error")
  /\ UNCHANGED <<storeVars, clientVars, job, certs, crl, read, written>>

(* The certificate is looked up whether or not there is a token to check. *)
LookUp(c, uuid, reason, confirm) ==
  /\ Moves(c, "idle", "lookup")
  /\ job' = Put(job, c, [uuid |-> uuid, reason |-> reason, confirm |-> confirm,
                         cert |-> None])
  /\ Send(c, Get(c, "lookup", <<"trust/cert/get", uuid>>))
  /\ UNCHANGED <<storeVars, certs, crl, read, written>>

(* The reply is an object: a list has no get(). *)
Found(c) == Returns(c) /\ replies[c].body # NotFound

(* The lookup is back and run_high_risk takes over, in one step with it. *)
Preview(c, t) ==
  /\ Moves(c, "lookup", "previewed")
  /\ Found(c)
  /\ job[c].confirm = None
  /\ Succeed(c, {}, {PreviewRecord(<<c, "preview">>, ToolName, t)})
  /\ Create(t, ToolName, Arguments(c))
  /\ UNCHANGED <<job, certs, crl, read, written>>

RefuseToken(c) ==
  /\ Moves(c, "lookup", "tool_error")
  /\ Found(c)
  /\ job[c].confirm # None
  /\ Succeed(c, {}, {})
  /\ Reject(job[c].confirm, ToolName, Arguments(c))
  /\ UNCHANGED <<job, certs, crl, read, written>>

Confirm(c) ==
  /\ Moves(c, "lookup", "reading")
  /\ Found(c)
  /\ job[c].confirm # None
  /\ Succeed(c, {Get(c, "read", <<"trust/crl/get", replies[c].body.caref>>)}, {})
  /\ Consume(job[c].confirm, ToolName, Arguments(c))
  /\ job' = [job EXCEPT ![c].cert = replies[c].body]
  /\ UNCHANGED <<certs, crl, read, written>>

(* Mutation of WithRevocation: bucket and entry are confused. *)
WithRevocationSwapped(revocations, cert, reason) ==
  IF cert.refid = None THEN revocations
                       ELSE revocations \cup {<<reason, cert.refid>>}

(* Mutation of WithRevocation: the bucket is replaced, not extended. *)
RevocationAlone(revocations, cert, reason) ==
  IF cert.refid = None THEN revocations ELSE {<<cert.refid, reason>>}

(* The CRL with the certificate in the bucket of the reason, unless what the
   lookup returned has no refid. *)
WithRevocation(revocations, cert, reason) ==
  IF cert.refid = None THEN revocations
                       ELSE revocations \cup {<<cert.refid, reason>>}

(* The CRL is back: modify it and post it. *)
Write(c) ==
  /\ Moves(c, "reading", "writing")
  /\ Found(c)
  /\ Succeed(c, {Request(<<c, "write">>, "POST", <<"trust/crl/set", job[c].cert.caref>>,
                         WithRevocation(replies[c].body, job[c].cert, job[c].reason),
                         job[c].confirm)}, {})
  /\ read' = Put(read, c, replies[c].body)
  /\ UNCHANGED <<storeVars, job, certs, crl, written>>

(* Mutation of Return: a read timeout is taken for the write's success. *)
ReturnRegardless(c) ==
  /\ \/ Succeed(c, {}, {}) /\ Moves(c, "writing", replies[c].body)
     \/ ReadTimesOut(c, {}) /\ Moves(c, "writing", "saved")
  /\ UNCHANGED <<storeVars, job, certs, crl, read, written>>

(* Mutation of Return: a reply that is no error is taken for a success. *)
ReturnUnread(c) ==
  /\ Succeed(c, {}, {})
  /\ Moves(c, "writing", "saved")
  /\ UNCHANGED <<storeVars, job, certs, crl, read, written>>

(* The reply to the write is the result, whatever it says. *)
Return(c) ==
  /\ Succeed(c, {}, {})
  /\ Moves(c, "writing", replies[c].body)
  /\ UNCHANGED <<storeVars, job, certs, crl, read, written>>

(* Any of the three requests fails, or a read is answered by a list and get()
   raises AttributeError: the call is over, a consumed token spent. *)
Fail(c) ==
  /\ stage[c] \in {"lookup", "reading", "writing"}
  /\ \/ RaisesToolError(c, {}) /\ stage' = [stage EXCEPT ![c] = "tool_error"]
     \/ RaisesOther(c) /\ stage' = [stage EXCEPT ![c] = "raised"]
     \/ /\ stage[c] # "writing"
        /\ Succeed(c, {}, {})
        /\ ~Found(c)
        /\ stage' = [stage EXCEPT ![c] = "raised"]
  /\ UNCHANGED <<storeVars, job, certs, crl, read, written>>

(* The firewall's side.  What is not there is answered by [], or, as the code
   allows for, by an object without the fields asked for. *)
NoCert == [refid |-> None, caref |-> None]

FoundCert(uuid) ==
  IF uuid \in certs THEN {[refid |-> uuid, caref |-> Issuer[uuid]]} ELSE {NotFound, NoCert}

FoundCrl(caref) == IF caref \in CA THEN {crl[caref]} ELSE {NotFound, {}}

AnswerGet(r) ==
  /\ r.method = "GET"
  /\ \/ r.path[1] = "trust/cert/get" /\ \E cert \in FoundCert(r.path[2]) : Answer(r, Ok(cert))
     \/ r.path[1] = "trust/crl/get" /\ \E x \in FoundCrl(r.path[2]) : Answer(r, Ok(x))
     \/ \E reply \in {Garbled, HttpError} : Answer(r, reply)
  /\ UNCHANGED <<crl, written>>

(* The CRL is replaced by the one posted, or fails validation and is not. *)
AnswerPost(r) ==
  /\ r.method = "POST"
  /\ \/ /\ \E reply \in {Ok("saved"), Garbled, HttpError} : Answer(r, reply)
        /\ crl' = IF r.path[2] = None THEN crl ELSE [crl EXCEPT ![r.path[2]] = r.data]
        /\ written' = written \cup {r}
     \/ /\ \E reply \in {Ok("failed"), Garbled, HttpError} : Answer(r, reply)
        /\ UNCHANGED <<crl, written>>

Firewall(r) ==
  /\ AnswerGet(r) \/ AnswerPost(r)
  /\ UNCHANGED <<storeVars, stage, job, certs, read>>

(* trust_certificate_delete by this or any other client of the firewall. *)
DeleteCert(cert) ==
  /\ cert \in certs
  /\ certs' = certs \ {cert}
  /\ UNCHANGED <<storeVars, clientVars, stage, job, crl, read, written>>

TimePasses ==
  /\ Tick
  /\ UNCHANGED <<clientVars, stage, job, certs, crl, read, written>>

Ended == {"previewed", "saved", "failed", "tool_error", "raised", "died"}

Restart ==
  /\ StoreRestart
  /\ ClientRestart
  /\ stage' = [c \in Call |-> IF stage[c] \in Ended \cup {"idle"} THEN stage[c]
                                                                ELSE "died"]
  /\ UNCHANGED <<job, certs, crl, read, written>>

TrustNext ==
  \/ \E c \in Call :
       \/ RefuseUuid(c)
       \/ \E uuid \in Cert, reason \in Reason, confirm \in Token \cup {None} :
            LookUp(c, uuid, reason, confirm)
       \/ \E t \in Token : Preview(c, t)
       \/ RefuseToken(c) \/ Confirm(c) \/ Write(c) \/ Return(c) \/ Fail(c)
  \/ \E r \in wire : Firewall(r)
  \/ \E cert \in Cert : DeleteCert(cert)
  \/ TimePasses
  \/ Restart

TrustSpec == TrustInit /\ [][TrustNext]_trustVars

-----------------------------------------------------------------------------

(* The variables have their types; a call has a request out exactly while it
   runs. *)
TrustTypeOK ==
  /\ StoreTypeOK
  /\ stage \in [Call -> Ended \cup {"idle", "lookup", "reading", "writing"}]
  /\ DOMAIN awaiting = {c \in Call : stage[c] \in {"lookup", "reading", "writing"}}
  /\ crl \in [CA -> SUBSET Revocation]
  /\ certs \subseteq Cert

(* Three awaits around the gate do not weaken it: one confirmation is one
   write at most, whoever presents the token and whatever fails. *)
OneWritePerToken ==
  \A r, q \in {r \in wire : r.method = "POST"} \cup written :
    r.token = q.token => r = q

(* No certificate is ever revoked, on any interleaving of reads and late
   writes, unless exactly that revocation was confirmed; and it is entered in
   the CRL of its own issuer. *)
RevokedOnlyIfConfirmed ==
  \A ca \in CA : \A x \in crl[ca] \ Revoked[ca] :
    /\ Issuer[x[1]] = ca
    /\ \E i \in DOMAIN ledger :
         issued[ledger[i].token].arguments = [uuid |-> x[1], reason |-> x[2]]

(* A write drops nothing its call had read: a revocation can only be lost if
   it was entered between the read and the arrival of the write. *)
WritesKeepWhatTheyRead ==
  [][\A r \in wire \ wire' :
       r.method = "POST" /\ r.path[2] # None =>
         read[r.req_id[1]] \cap crl[r.path[2]] \subseteq crl'[r.path[2]]]_trustVars

(* A result is true of the CRL: "saved" is of a write that was carried out,
   with the certificate that was looked up in it, and a call that returns
   "failed" has written nothing and never will. *)
ResultsAreTrue ==
  \A c \in Call :
    /\ stage[c] = "saved" =>
         \E r \in written :
           /\ r.token = job[c].confirm
           /\ job[c].cert.refid # None => <<job[c].uuid, job[c].reason>> \in r.data
    /\ stage[c] = "failed" =>
         \A r \in wire \cup written : r.method = "POST" => r.req_id[1] # c

-----------------------------------------------------------------------------
(* A statement of the repository this tool does not live up to.              *)

(* "This cannot be undone via this tool" (trust.py:118): no use of the tool
   takes a revocation back. *)
RevocationsStay ==
  [][\A ca \in CA : crl[ca] \subseteq crl'[ca]]_trustVars
=============================================================================
