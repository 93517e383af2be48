---------------------------- MODULE StoreProofs ----------------------------
(***************************************************************************)
(* Theorems about the confirmation store, for every set of tokens, tools   *)
(* and arguments and every positive lifetime.                              *)
(*                                                                         *)
(* SpentOnce is not inductive: that a token in the ledger is never taken   *)
(* again rests on its being out of the dict for good, which rests on       *)
(* create never using a token twice.  SpentAsIssued likewise needs the     *)
(* dict to hold what was issued and nothing else.                          *)
(***************************************************************************)
EXTENDS PendingOperationStore, TLAPS

(* The dict holds operations as they were issued. *)
PendingAsIssued == \A t \in DOMAIN pending : pending[t] = issued[t]

(* A spent token is never in the dict again. *)
SpentIsGone == \A i \in DOMAIN ledger : ledger[i].token \notin DOMAIN pending

(* Every deadline was set from an earlier reading of the clock. *)
IssuedInThePast == \A t \in DOMAIN issued : issued[t].expires_at <= now + TTL

StoreInv ==
  /\ StoreTypeOK
  /\ PendingAsIssued
  /\ SpentIsGone
  /\ IssuedInThePast
  /\ SpentOnce
  /\ SpentAsIssued

-----------------------------------------------------------------------------

(* Eviction only removes entries, and leaves the others as they are. *)
LEMMA UnexpiredFacts ==
  /\ DOMAIN Unexpired \subseteq DOMAIN pending
  /\ \A t \in DOMAIN Unexpired :
       Unexpired[t] = pending[t] /\ pending[t].expires_at > now
  BY DEF Unexpired

(* What the dict holds after an eviction still has its type. *)
LEMMA UnexpiredType ==
  ASSUME StoreTypeOK
  PROVE  /\ DOMAIN Unexpired \subseteq DOMAIN issued
         /\ Unexpired \in [DOMAIN Unexpired -> PendingOperation]
  BY DEF StoreTypeOK, Unexpired

LEMMA InitInv == StoreInit => StoreInv
  <1> SUFFICES ASSUME StoreInit PROVE StoreInv
    OBVIOUS
  <1>1. DOMAIN pending = {} /\ DOMAIN issued = {} /\ DOMAIN ledger = {}
    BY DEF StoreInit, EmptyDict
  <1>2. StoreTypeOK
    BY <1>1 DEF StoreInit, StoreTypeOK, EmptyDict
  <1> QED
    BY <1>1, <1>2 DEF StoreInv, PendingAsIssued, SpentIsGone, IssuedInThePast,
                      SpentOnce, SpentAsIssued

LEMMA CreateInv ==
  ASSUME StoreInv, NEW t \in Token, NEW tool \in Tool, NEW args \in Args,
         Create(t, tool, args)
  PROVE  StoreInv'
  <1> DEFINE op == [tool_name |-> tool, arguments |-> args, expires_at |-> now + TTL]
  <1>1. op \in PendingOperation /\ op.expires_at = now + TTL
    BY TTLAssumption DEF StoreInv, StoreTypeOK, PendingOperation
  <1>2. /\ t \notin DOMAIN issued
        /\ pending' = Put(Unexpired, t, op)
        /\ issued' = Put(issued, t, op)
        /\ now' = now
        /\ ledger' = ledger
    BY DEF Create
  <1> HIDE DEF op
  <1>3. /\ DOMAIN issued' = DOMAIN issued \cup {t}
        /\ issued'[t] = op
        /\ \A x \in DOMAIN issued : issued'[x] = issued[x]
    BY <1>2 DEF Put
  <1>4. /\ DOMAIN pending' = DOMAIN Unexpired \cup {t}
        /\ pending'[t] = op
        /\ \A x \in DOMAIN Unexpired : x # t => pending'[x] = pending[x]
    BY <1>2, UnexpiredFacts DEF Put
  <1>5. StoreTypeOK'
    <2>1. issued' \in [DOMAIN issued' -> PendingOperation]
      BY <1>1, <1>2, <1>3 DEF StoreInv, StoreTypeOK, Put
    <2>2. pending' \in [DOMAIN pending' -> PendingOperation]
      BY <1>1, <1>2, <1>4, UnexpiredType DEF StoreInv, Put
    <2> QED
      BY <2>1, <2>2, <1>2, <1>3, <1>4, UnexpiredType DEF StoreInv, StoreTypeOK
  <1>6. PendingAsIssued'
    BY <1>2, <1>3, <1>4, UnexpiredFacts DEF StoreInv, PendingAsIssued, StoreTypeOK
  <1>7. SpentIsGone'
    BY <1>2, <1>4, UnexpiredFacts DEF StoreInv, SpentIsGone, SpentAsIssued
  <1>8. IssuedInThePast'
    BY <1>1, <1>2, <1>3, TTLAssumption DEF StoreInv, IssuedInThePast, StoreTypeOK
  <1>9. SpentOnce' /\ SpentAsIssued'
    BY <1>2, <1>3 DEF StoreInv, SpentOnce, SpentAsIssued
  <1> QED
    BY <1>5, <1>6, <1>7, <1>8, <1>9 DEF StoreInv

LEMMA ConsumeInv ==
  ASSUME StoreInv, NEW t \in Token, NEW tool \in Tool, NEW args \in Args,
         Consume(t, tool, args)
  PROVE  StoreInv'
  <1> DEFINE c == [token |-> t, tool_name |-> tool, arguments |-> args, at |-> now]
  <1>1. /\ c \in Confirmation
        /\ c.token = t /\ c.tool_name = tool /\ c.arguments = args /\ c.at = now
    BY DEF StoreInv, StoreTypeOK, Confirmation
  <1>2. /\ pending' = Drop(Unexpired, t)
        /\ ledger' = Append(ledger, c)
        /\ now' = now
        /\ issued' = issued
        /\ Matches(t, tool, args)
    BY DEF Consume
  <1> HIDE DEF c
  <1>3. /\ DOMAIN pending' = DOMAIN Unexpired \ {t}
        /\ \A x \in DOMAIN pending' : pending'[x] = pending[x]
    BY <1>2, UnexpiredFacts DEF Drop
  <1>4. /\ ledger \in Seq(Confirmation)
        /\ ledger' \in Seq(Confirmation)
        /\ DOMAIN ledger = 1 .. Len(ledger)
        /\ DOMAIN ledger' = 1 .. Len(ledger) + 1
        /\ Len(ledger) \in Nat
        /\ ledger'[Len(ledger) + 1] = c
        /\ \A i \in DOMAIN ledger : ledger'[i] = ledger[i]
    BY <1>1, <1>2 DEF StoreInv, StoreTypeOK
  <1>5. /\ t \in DOMAIN pending
        /\ t \in DOMAIN issued
        /\ issued[t].tool_name = tool
        /\ issued[t].arguments = args
        /\ issued[t].expires_at > now
        /\ issued[t].expires_at <= now + TTL
    BY <1>2, UnexpiredFacts
       DEF StoreInv, StoreTypeOK, PendingAsIssued, IssuedInThePast, Matches
  <1>6. StoreTypeOK'
    <2>1. pending' \in [DOMAIN pending' -> PendingOperation]
      BY <1>2, <1>3, UnexpiredType DEF StoreInv, Drop
    <2> QED
      BY <2>1, <1>2, <1>3, <1>4, UnexpiredFacts DEF StoreInv, StoreTypeOK
  <1>7. PendingAsIssued' /\ IssuedInThePast'
    BY <1>2, <1>3, UnexpiredFacts DEF StoreInv, PendingAsIssued, IssuedInThePast
  <1>8. SpentIsGone'
    BY <1>1, <1>3, <1>4, UnexpiredFacts DEF StoreInv, SpentIsGone
  <1>9. \A i \in DOMAIN ledger : ledger[i].token # t
    BY <1>5 DEF StoreInv, SpentIsGone
  <1>10. SpentOnce'
    BY <1>1, <1>4, <1>9 DEF StoreInv, SpentOnce
  <1>11. SpentAsIssued'
    <2> SUFFICES ASSUME NEW i \in DOMAIN ledger'
                 PROVE  /\ ledger'[i].token \in DOMAIN issued
                        /\ ledger'[i].tool_name = issued[ledger'[i].token].tool_name
                        /\ ledger'[i].arguments = issued[ledger'[i].token].arguments
                        /\ ledger'[i].at < issued[ledger'[i].token].expires_at
                        /\ ledger'[i].at + TTL >= issued[ledger'[i].token].expires_at
      BY <1>2 DEF SpentAsIssued
    <2>1. CASE i \in DOMAIN ledger
      BY <2>1, <1>4 DEF StoreInv, SpentAsIssued
    <2>2. CASE i = Len(ledger) + 1
      BY <2>2, <1>1, <1>4, <1>5, TTLAssumption
         DEF StoreInv, StoreTypeOK, PendingOperation
    <2> QED
      BY <2>1, <2>2, <1>4
  <1> QED
    BY <1>6, <1>7, <1>8, <1>10, <1>11 DEF StoreInv

(* Losing entries of the dict, by eviction or altogether, harms nothing. *)
LEMMA LossInv ==
  ASSUME StoreInv,
         \/ pending' = Unexpired
         \/ pending' = EmptyDict
         \/ pending' = pending,
         now' \in {now, now + 1},
         UNCHANGED <<issued, ledger>>
  PROVE  StoreInv'
  <1>1. /\ DOMAIN pending' \subseteq DOMAIN pending
        /\ \A x \in DOMAIN pending' : pending'[x] = pending[x]
        /\ pending' \in [DOMAIN pending' -> PendingOperation]
    <2>1. CASE pending' = Unexpired
      BY <2>1, UnexpiredFacts, UnexpiredType DEF StoreInv
    <2>2. CASE pending' = EmptyDict
      BY <2>2 DEF EmptyDict
    <2>3. CASE pending' = pending
      BY <2>3 DEF StoreInv, StoreTypeOK
    <2> QED
      BY <2>1, <2>2, <2>3
  <1>2. StoreTypeOK' /\ PendingAsIssued' /\ SpentIsGone'
    BY <1>1 DEF StoreInv, StoreTypeOK, PendingAsIssued, SpentIsGone
  <1>3. IssuedInThePast'
    BY TTLAssumption DEF StoreInv, StoreTypeOK, IssuedInThePast, PendingOperation
  <1>4. SpentOnce' /\ SpentAsIssued'
    BY DEF StoreInv, SpentOnce, SpentAsIssued
  <1> QED
    BY <1>2, <1>3, <1>4 DEF StoreInv

LEMMA NextInv == StoreInv /\ [StoreNext]_storeVars => StoreInv'
  <1> SUFFICES ASSUME StoreInv, [StoreNext]_storeVars PROVE StoreInv'
    OBVIOUS
  <1>1. ASSUME NEW t \in Token, NEW tool \in Tool, NEW args \in Args,
               Create(t, tool, args)
        PROVE  StoreInv'
    BY <1>1, CreateInv
  <1>2. ASSUME NEW t \in Token, NEW tool \in Tool, NEW args \in Args,
               Consume(t, tool, args)
        PROVE  StoreInv'
    BY <1>2, ConsumeInv
  <1>3. ASSUME NEW t \in Token, NEW tool \in Tool, NEW args \in Args,
               Reject(t, tool, args)
        PROVE  StoreInv'
    BY <1>3, LossInv DEF Reject
  <1>4. CASE Tick
    BY <1>4, LossInv DEF Tick
  <1>5. CASE StoreRestart
    BY <1>5, LossInv DEF StoreRestart
  <1>6. CASE UNCHANGED storeVars
    BY <1>6, LossInv DEF storeVars
  <1> QED
    BY <1>1, <1>2, <1>3, <1>4, <1>5, <1>6 DEF StoreNext, StoreCall

(* The store only adds to what was issued and to the ledger. *)
LEMMA StoreGrows ==
  ASSUME StoreInv, [StoreNext]_storeVars
  PROVE  /\ \A t \in DOMAIN issued : t \in DOMAIN issued' /\ issued'[t] = issued[t]
         /\ \A i \in DOMAIN ledger : i \in DOMAIN ledger' /\ ledger'[i] = ledger[i]
  <1>1. ASSUME NEW t \in Token, NEW tool \in Tool, NEW args \in Args,
               Create(t, tool, args)
        PROVE  /\ \A x \in DOMAIN issued : x \in DOMAIN issued' /\ issued'[x] = issued[x]
               /\ ledger' = ledger
    BY <1>1 DEF Create, Put
  <1>2. ASSUME NEW t \in Token, NEW tool \in Tool, NEW args \in Args,
               Consume(t, tool, args)
        PROVE  /\ issued' = issued
               /\ \A i \in DOMAIN ledger : i \in DOMAIN ledger' /\ ledger'[i] = ledger[i]
    <2> DEFINE c == [token |-> t, tool_name |-> tool, arguments |-> args, at |-> now]
    <2>1. c \in Confirmation /\ ledger \in Seq(Confirmation)
      BY DEF StoreInv, StoreTypeOK, Confirmation
    <2>2. issued' = issued /\ ledger' = Append(ledger, c)
      BY <1>2 DEF Consume
    <2> HIDE DEF c
    <2> QED
      BY <2>1, <2>2
  <1>3. ASSUME NEW t \in Token, NEW tool \in Tool, NEW args \in Args,
               Reject(t, tool, args)
        PROVE  UNCHANGED <<issued, ledger>>
    BY <1>3 DEF Reject
  <1>4. CASE Tick \/ StoreRestart \/ UNCHANGED storeVars
    BY <1>4 DEF Tick, StoreRestart, storeVars
  <1> QED
    BY <1>1, <1>2, <1>3, <1>4 DEF StoreNext, StoreCall

(* A token that is accepted was issued for this operation and was never
   accepted before. *)
LEMMA ConsumeSpends ==
  ASSUME StoreInv, NEW t \in Token, NEW tool \in Tool, NEW args \in Args,
         Consume(t, tool, args)
  PROVE  /\ t \in DOMAIN issued
         /\ issued[t].tool_name = tool
         /\ issued[t].arguments = args
         /\ issued' = issued
         /\ \E i \in DOMAIN ledger' : ledger'[i].token = t
         /\ \A i \in DOMAIN ledger : ledger[i].token # t
  <1> DEFINE c == [token |-> t, tool_name |-> tool, arguments |-> args, at |-> now]
  <1>1. c \in Confirmation /\ c.token = t /\ ledger \in Seq(Confirmation)
    BY DEF StoreInv, StoreTypeOK, Confirmation
  <1>2. ledger' = Append(ledger, c) /\ issued' = issued /\ Matches(t, tool, args)
    BY DEF Consume
  <1> HIDE DEF c
  <1>3. Len(ledger) + 1 \in DOMAIN ledger' /\ ledger'[Len(ledger) + 1] = c
    BY <1>1, <1>2
  <1>4. t \in DOMAIN pending /\ pending[t].tool_name = tool /\ pending[t].arguments = args
    BY <1>2, UnexpiredFacts DEF Matches
  <1> QED
    BY <1>1, <1>2, <1>3, <1>4 DEF StoreInv, StoreTypeOK, PendingAsIssued, SpentIsGone

LEMMA Invariance == StoreSpec => []StoreInv
  BY InitInv, NextInv, PTL DEF StoreSpec

(* The store's variables keep their types, whatever is called. *)
THEOREM TypeCorrect == StoreSpec => []StoreTypeOK
  BY Invariance, PTL DEF StoreInv

(* consume (confirmation.py:57-77) accepts a token at most once in the life of
   the system, for any number of callers, restarts and expiries. *)
THEOREM TokensAreSingleUse == StoreSpec => []SpentOnce
  BY Invariance, PTL DEF StoreInv

(* Whatever consume accepts was previewed with this token, this tool and these
   arguments, less than a lifetime ago. *)
THEOREM ConfirmationsRepeatPreviews == StoreSpec => []SpentAsIssued
  BY Invariance, PTL DEF StoreInv
-----------------------------------------------------------------------------
(* What one call of create or consume does to the offers of the others.      *)

LEMMA CallsKeepOffers ==
  ASSUME StoreInv, StoreCall, NEW t \in DOMAIN Unexpired \ DOMAIN pending'
  PROVE  /\ Len(ledger') = Len(ledger) + 1
         /\ ledger'[Len(ledger')].token = t
  <1>1. ASSUME NEW u \in Token, NEW tool \in Tool, NEW args \in Args,
               Create(u, tool, args) \/ Reject(u, tool, args)
        PROVE  FALSE
    BY <1>1 DEF Create, Reject, Put
  <1>2. ASSUME NEW u \in Token, NEW tool \in Tool, NEW args \in Args,
               Consume(u, tool, args)
        PROVE  /\ Len(ledger') = Len(ledger) + 1
               /\ ledger'[Len(ledger')].token = t
    <2> DEFINE c == [token |-> u, tool_name |-> tool, arguments |-> args, at |-> now]
    <2>1. c \in Confirmation /\ c.token = u /\ ledger \in Seq(Confirmation)
      BY DEF StoreInv, StoreTypeOK, Confirmation
    <2>2. ledger' = Append(ledger, c) /\ t = u
      BY <1>2 DEF Consume, Drop
    <2> HIDE DEF c
    <2> QED
      BY <2>1, <2>2
  <1> QED
    BY <1>1, <1>2 DEF StoreCall

LEMMA CallsSweep ==
  ASSUME StoreInv, StoreCall, NEW t \in DOMAIN pending'
  PROVE  pending'[t].expires_at > now'
  <1>1. ASSUME NEW u \in Token, NEW tool \in Tool, NEW args \in Args,
               Create(u, tool, args)
        PROVE  pending'[t].expires_at > now'
    BY <1>1, UnexpiredFacts, TTLAssumption DEF Create, Put, StoreInv, StoreTypeOK
  <1>2. ASSUME NEW u \in Token, NEW tool \in Tool, NEW args \in Args,
               Consume(u, tool, args) \/ Reject(u, tool, args)
        PROVE  pending'[t].expires_at > now'
    BY <1>2, UnexpiredFacts DEF Consume, Reject, Drop
  <1> QED
    BY <1>1, <1>2 DEF StoreCall

(* Previewing or presenting a token never costs another caller its offer
   (confirmation.py:47, 64-76): what leaves the dict unexpired is the token
   that was accepted. *)
THEOREM CallsKeepTheOffersOfOthers == StoreSpec => OfferIsKept
  <1>1. StoreInv /\ [StoreNext]_storeVars =>
          [StoreCall =>
             \A t \in DOMAIN Unexpired \ DOMAIN pending' :
               /\ Len(ledger') = Len(ledger) + 1
               /\ ledger'[Len(ledger')].token = t]_storeVars
    BY CallsKeepOffers
  <1> QED
    BY <1>1, Invariance, PTL DEF StoreSpec, OfferIsKept

(* After a call the dict holds nothing that is past its deadline
   (confirmation.py:79-82), however long the process has run. *)
THEOREM NoDeadEntries == StoreSpec => CallsEvict
  <1>1. StoreInv /\ [StoreNext]_storeVars =>
          [StoreCall => \A t \in DOMAIN pending' : pending'[t].expires_at > now']_storeVars
    BY CallsSweep
  <1> QED
    BY <1>1, Invariance, PTL DEF StoreSpec, CallsEvict

-----------------------------------------------------------------------------

(* Evicting twice is evicting once: what Unexpired keeps stays unexpired as
   long as the clock does not move. *)
LEMMA Evicted ==
  ASSUME pending' = Unexpired, now' = now
  PROVE  Unexpired' = Unexpired
  <1>1. \A t \in DOMAIN Unexpired :
          Unexpired[t] = pending[t] /\ pending[t].expires_at > now
    BY UnexpiredFacts
  <1>2. {t \in DOMAIN pending' : pending'[t].expires_at > now'} = DOMAIN Unexpired
    BY <1>1
  <1>3. Unexpired' = [t \in DOMAIN Unexpired |-> pending'[t]]
    BY <1>2 DEF Unexpired
  <1>4. Unexpired = [t \in DOMAIN Unexpired |-> Unexpired[t]]
    BY DEF Unexpired
  <1> QED
    BY <1>3, <1>4

LEMMA CreateOffers ==
  ASSUME StoreInv, NEW t \in Token, NEW tool \in Tool, NEW args \in Args,
         Create(t, tool, args)
  PROVE  Eager!Offer(t, tool, args)
  <1> DEFINE op == [tool_name |-> tool, arguments |-> args, expires_at |-> now + TTL]
  <1>1. /\ t \notin DOMAIN issued
        /\ pending' = Put(Unexpired, t, op)
        /\ issued' = Put(issued, t, op)
        /\ now' = now
        /\ ledger' = ledger
    BY DEF Create
  <1>2. op.expires_at > now
    BY TTLAssumption DEF StoreInv, StoreTypeOK
  <1> HIDE DEF op
  <1>3. /\ DOMAIN pending' = DOMAIN Unexpired \cup {t}
        /\ pending'[t] = op
        /\ \A x \in DOMAIN Unexpired : x # t => pending'[x] = Unexpired[x]
    BY <1>1 DEF Put
  <1>4. {x \in DOMAIN pending' : pending'[x].expires_at > now'} = DOMAIN pending'
    BY <1>1, <1>2, <1>3, UnexpiredFacts
  <1>5. Unexpired' = [x \in DOMAIN pending' |-> pending'[x]]
    BY <1>4 DEF Unexpired
  <1>6. Unexpired' = Put(Unexpired, t, op)
    BY <1>1, <1>5 DEF Put
  <1>7. (DOMAIN issued)' = DOMAIN issued \cup {t}
    BY <1>1 DEF Put
  <1> QED
    BY <1>1, <1>6, <1>7 DEF Eager!Offer, Put, op

LEMMA ConsumeConfirms ==
  ASSUME StoreInv, NEW t \in Token, NEW tool \in Tool, NEW args \in Args,
         Consume(t, tool, args)
  PROVE  Eager!Confirm(t)
  <1>1. /\ t \in DOMAIN Unexpired
        /\ Unexpired[t].tool_name = tool
        /\ Unexpired[t].arguments = args
        /\ pending' = Drop(Unexpired, t)
        /\ now' = now
        /\ issued' = issued
    BY UnexpiredFacts DEF Consume, Matches
  <1>2. /\ DOMAIN pending' = DOMAIN Unexpired \ {t}
        /\ \A x \in DOMAIN pending' : pending'[x] = Unexpired[x]
    BY <1>1 DEF Drop
  <1>3. {x \in DOMAIN pending' : pending'[x].expires_at > now'} = DOMAIN pending'
    BY <1>1, <1>2, UnexpiredFacts
  <1>4. Unexpired' = [x \in DOMAIN pending' |-> pending'[x]]
    BY <1>3 DEF Unexpired
  <1>5. Unexpired' = Drop(Unexpired, t)
    BY <1>1, <1>4 DEF Drop
  <1> QED
    BY <1>1, <1>5 DEF Eager!Confirm, Consume, Drop

LEMMA RejectStutters ==
  ASSUME NEW t \in Token, NEW tool \in Tool, NEW args \in Args,
         Reject(t, tool, args)
  PROVE  UNCHANGED Eager!vars
  BY Evicted DEF Reject, Eager!vars

LEMMA TickPasses ==
  ASSUME StoreInv, Tick
  PROVE  Eager!Pass
  <1>1. now < MaxTime /\ now' = now + 1 /\ UNCHANGED <<pending, issued, ledger>>
    BY DEF Tick
  <1>2. \A x \in DOMAIN pending : pending[x].expires_at \in Nat
    BY DEF StoreInv, StoreTypeOK, PendingOperation
  <1>3. {x \in DOMAIN pending : pending[x].expires_at > now + 1}
          = {x \in DOMAIN Unexpired : Unexpired[x].expires_at > now + 1}
    BY <1>2 DEF Unexpired, StoreInv, StoreTypeOK
  <1>4. Unexpired' = [x \in {x \in DOMAIN pending : pending[x].expires_at > now + 1}
                        |-> pending[x]]
    BY <1>1 DEF Unexpired
  <1>5. Unexpired' = [x \in {x \in DOMAIN Unexpired : Unexpired[x].expires_at > now + 1}
                        |-> Unexpired[x]]
    BY <1>3, <1>4, UnexpiredFacts
  <1> QED
    BY <1>1, <1>5 DEF Eager!Pass

(* A store that has lost every entry offers nothing. *)
LEMMA EmptyStore ==
  pending = EmptyDict => Unexpired = EmptyDict
  BY DEF Unexpired, EmptyDict

LEMMA StepRefines ==
  StoreInv /\ [StoreNext]_storeVars => [Eager!Next]_(Eager!vars)
  <1> SUFFICES ASSUME StoreInv, [StoreNext]_storeVars
               PROVE  Eager!Next \/ UNCHANGED Eager!vars
    OBVIOUS
  <1>1. ASSUME NEW t \in Token, NEW tool \in Tool, NEW args \in Args,
               Create(t, tool, args)
        PROVE  Eager!Next
    BY <1>1, CreateOffers DEF Eager!Next
  <1>2. ASSUME NEW t \in Token, NEW tool \in Tool, NEW args \in Args,
               Consume(t, tool, args)
        PROVE  Eager!Next
    BY <1>2, ConsumeConfirms DEF Eager!Next
  <1>3. CASE Tick
    BY <1>3, TickPasses DEF Eager!Next
  <1>4. CASE StoreRestart
    <2>1. pending' = EmptyDict => Unexpired' = EmptyDict
      BY DEF Unexpired, EmptyDict
    <2> QED
      BY <1>4, <2>1 DEF StoreRestart, Eager!Next, Eager!Restart, EmptyDict
  <1>5. CASE UNCHANGED storeVars
    BY <1>5 DEF storeVars, Eager!vars, Unexpired
  <1> QED
    BY <1>1, <1>2, <1>3, <1>4, <1>5, RejectStutters DEF StoreNext, StoreCall

(* Enforcing expiry only when a method is called, by evicting first, cannot be
   told from a timer that removes each offer at its deadline
   (confirmation.py:64, 79-82). *)
THEOREM LazyExpiryIsEager == StoreSpec => EagerSpec
  <1>1. StoreInit => Eager!Init
    BY EmptyStore DEF StoreInit, Eager!Init, EmptyDict
  <1> QED
    BY <1>1, StepRefines, Invariance, PTL DEF StoreSpec, EagerSpec, Eager!Spec
=============================================================================
