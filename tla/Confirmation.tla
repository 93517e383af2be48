---------------------------- MODULE Confirmation ----------------------------
(***************************************************************************)
(* What the confirmation store promises, without its laziness: an offer is *)
(* made under a token not used before, can be taken once by repeating the  *)
(* operation exactly, and is gone the moment its deadline is reached or    *)
(* the process restarts.  Refused confirmations do nothing at all.         *)
(***************************************************************************)
EXTENDS Integers, Sequences

CONSTANTS Token, Tool, Args, TTL, MaxTime

VARIABLES
  now,
  offers,    \* token |-> the operation that may still be confirmed with it
  used,      \* tokens ever offered
  ledger     \* the confirmations, in order

vars == <<now, offers, used, ledger>>

Init ==
  /\ now = 0
  /\ offers = <<>>
  /\ used = {}
  /\ ledger = <<>>

Offer(t, tool, args) ==
  /\ t \notin used
  /\ used' = used \cup {t}
  /\ offers' =
       [x \in DOMAIN offers \cup {t} |->
          IF x = t
          THEN [tool_name |-> tool, arguments |-> args, expires_at |-> now + TTL]
          ELSE offers[x]]
  /\ UNCHANGED <<now, ledger>>

Confirm(t) ==
  /\ t \in DOMAIN offers
  /\ offers' = [x \in DOMAIN offers \ {t} |-> offers[x]]
  /\ ledger' = Append(ledger,
                 [token |-> t, tool_name |-> offers[t].tool_name,
                  arguments |-> offers[t].arguments, at |-> now])
  /\ UNCHANGED <<now, used>>

(* Time passes, and takes with it every offer whose deadline it reaches. *)
Pass ==
  /\ now < MaxTime
  /\ now' = now + 1
  /\ offers' = [x \in {x \in DOMAIN offers : offers[x].expires_at > now + 1}
                  |-> offers[x]]
  /\ UNCHANGED <<used, ledger>>

Restart ==
  /\ offers' = <<>>
  /\ UNCHANGED <<now, used, ledger>>

Next ==
  \/ \E t \in Token :
       \/ \E tool \in Tool, args \in Args : Offer(t, tool, args)
       \/ Confirm(t)
  \/ Pass
  \/ Restart

Spec == Init /\ [][Next]_vars
=============================================================================
