------------------------------ MODULE Redaction ------------------------------
(***************************************************************************)
(* src/opnsense_mcp/redaction.py: what the read tools drop from a response *)
(* before it is returned.  A JSON value carries its type, since the code   *)
(* asks for it: text stands for every scalar, a dict is a function on its  *)
(* keys and a list a sequence.                                             *)
(***************************************************************************)
EXTENDS Integers

Text(t) == [type |-> "text", of |-> t]
Dict(d) == [type |-> "dict", of |-> d]
List(s) == [type |-> "list", of |-> s]

(* isinstance(resp.get(key), type), for a response that is a dict. *)
Holds(resp, key, type) == key \in DOMAIN resp.of /\ resp.of[key].type = type

(* Mutation of RedactPrivateKeys: the value is masked and its key stays. *)
MaskPrivateKeys(obj, fields) ==
  Dict([k \in DOMAIN obj.of |-> IF k \in fields THEN Text([secret |-> FALSE, from |-> "***"])
                                                ELSE obj.of[k]])

RedactPrivateKeys(obj, fields) ==
  Dict([k \in DOMAIN obj.of \ fields |-> obj.of[k]])

RedactRow(row, fields) ==
  IF row.type = "dict" THEN RedactPrivateKeys(row, fields) ELSE row

(* Mutation of RedactRows: a generator that stops one short of the end. *)
RedactRowsButLast(resp, fields) ==
  IF Holds(resp, "rows", "list")
    THEN LET rows == resp.of["rows"].of
         IN  Dict([resp.of EXCEPT !["rows"] =
               List([i \in DOMAIN rows |->
                       IF i + 1 \in DOMAIN rows THEN RedactRow(rows[i], fields) ELSE rows[i]])])
    ELSE resp

(* Each row that is a dict loses the fields; a response without a list of
   rows is returned as it is. *)
RedactRows(resp, fields) ==
  IF Holds(resp, "rows", "list")
    THEN LET rows == resp.of["rows"].of
         IN  Dict([resp.of EXCEPT !["rows"] =
               List([i \in DOMAIN rows |-> RedactRow(rows[i], fields)])])
    ELSE resp

(* The object under the wrapper loses the fields, if there is one. *)
RedactWrapped(resp, wrapper, fields) ==
  IF Holds(resp, wrapper, "dict")
    THEN Dict([resp.of EXCEPT ![wrapper] = RedactPrivateKeys(resp.of[wrapper], fields)])
    ELSE resp
=============================================================================
