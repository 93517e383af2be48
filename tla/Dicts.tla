------------------------------- MODULE Dicts -------------------------------
(* Python dicts as functions with a finite, changing domain.                *)

(* d with key k bound to v: the assignment d[k] = v. *)
Put(d, k, v) == [x \in DOMAIN d \cup {k} |-> IF x = k THEN v ELSE d[x]]

(* d without key k: del d[k], or nothing when k is not a key. *)
Drop(d, k) == [x \in DOMAIN d \ {k} |-> d[x]]

(* The keys of both, the values of the first where both have one: e | d. *)
Merge(d, e) ==
  [x \in DOMAIN d \cup DOMAIN e |-> IF x \in DOMAIN d THEN d[x] ELSE e[x]]

EmptyDict == <<>>
=============================================================================
