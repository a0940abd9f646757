------------------------------ MODULE Documents ------------------------------
(***************************************************************************)
(* Values as json.loads gives them to config.py and provider_catalog.py: a *)
(* record of a kind and val, which is a function from keys to values, a    *)
(* sequence of values, a name, an integer, TRUE or FALSE.  A number that   *)
(* is no integer has the kind "fraction", its val in the units of whoever  *)
(* reads it.                                                               *)
(***************************************************************************)
Map(f) == [kind |-> "map", val |-> f]
List(s) == [kind |-> "list", val |-> s]
String(x) == [kind |-> "string", val |-> x]
Number(n) == [kind |-> "number", val |-> n]
Fraction(n) == [kind |-> "fraction", val |-> n]
Boolean(b) == [kind |-> "boolean", val |-> b]
Null == [kind |-> "null"]

\* data.get(field) of a mapping: null and absent are the same.
Field(v, f) == IF f \in DOMAIN v.val THEN v.val[f] ELSE Null

=============================================================================
