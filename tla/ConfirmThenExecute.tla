------------------------- MODULE ConfirmThenExecute -------------------------
(***************************************************************************)
(* The promise of the confirm-then-execute layer, without store, calls,    *)
(* messages or clocks: an operation is offered under a token never used    *)
(* before; the offer can be taken once, or lapse; a taken operation is due *)
(* until it is carried out, once, or given up.                             *)
(***************************************************************************)
CONSTANTS Token, None

VARIABLES
  offers,    \* token |-> the operation on offer under it
  used,      \* tokens ever offered
  due,       \* operations confirmed and not yet carried out
  done       \* operations carried out

vars == <<offers, used, due, done>>

Init ==
  /\ offers = <<>>
  /\ used = {}
  /\ due = {}
  /\ done = {}

Without(t) == [x \in DOMAIN offers \ {t} |-> offers[x]]

Offer(t) ==
  /\ t \notin used
  /\ used' = used \cup {t}
  /\ DOMAIN offers' = DOMAIN offers \cup {t}
  /\ \A x \in DOMAIN offers : offers'[x] = offers[x]
  /\ UNCHANGED <<due, done>>

Take(t) ==
  /\ t \in DOMAIN offers
  /\ offers' = Without(t)
  /\ due' = due \cup {[token |-> t, path |-> offers[t].path, data |-> offers[t].data]}
  /\ UNCHANGED <<used, done>>

(* Offers lapse, at their deadlines or with the process that made them. *)
Lapse ==
  /\ \E S \in SUBSET DOMAIN offers : offers' = [x \in S |-> offers[x]]
  /\ UNCHANGED <<used, due, done>>

CarryOut(d) ==
  /\ d \in due
  /\ due' = due \ {d}
  /\ done' = done \cup {d}
  /\ UNCHANGED <<offers, used>>

GiveUp(d) ==
  /\ d \in due
  /\ due' = due \ {d}
  /\ UNCHANGED <<offers, used, done>>

Next ==
  \/ \E t \in Token : Offer(t) \/ Take(t)
  \/ Lapse
  \/ \E d \in due : CarryOut(d) \/ GiveUp(d)

Spec == Init /\ [][Next]_vars
=============================================================================
