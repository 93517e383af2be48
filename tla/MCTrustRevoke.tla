---------------------------- MODULE MCTrustRevoke ----------------------------
(* Two certificates of one CA.  Either one token, with calls to preview,      *)
(* confirm and confirm again and every failure; or two tokens, with calls to  *)
(* preview and confirm two revocations at the same time, and one failure.     *)
EXTENDS TrustRevoke, FiniteSets, TLC

CONSTANTS ca, keyCompromise

MCTool == {"trust_certificate_revoke"}
MCArgs == [uuid : Cert, reason : Reason]
MCIssuer == [cert \in Cert |-> ca]
MCRevoked == [a \in CA |-> {}]

(* Calls that have ended without success, or will on the reply they have. *)
Failing ==
  {c \in Call :
     \/ stage[c] \in {"failed", "tool_error", "raised", "died"}
     \/ c \in DOMAIN replies /\ ~Found(c)
     \/ c \in DOMAIN replies /\ stage[c] = "writing" /\ replies[c].body # "saved"}

(* Bound: what is presented as a token was issued.  A restart makes it unknown
   again. *)
TokensWereIssued ==
  \A c \in DOMAIN job : job[c].confirm \in DOMAIN issued \cup {None}

(* Bound: either one token, three calls and every failure, while time passes;
   or all the calls and tokens at one time, no certificate being deleted, and
   no step after a second call fails. *)
OneTokenOrFewFailures ==
  \/ Cardinality(DOMAIN issued) <= 1 /\ \E c \in Call : stage[c] = "idle"
  \/ now = 0 /\ certs = Cert /\ Cardinality(Failing) < 2

Symmetry == Permutations(Call) \cup Permutations(Token) \cup Permutations(Cert)
=============================================================================
