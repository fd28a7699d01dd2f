------------------------------ MODULE HashMap ------------------------------
(***************************************************************************)
(* std::collections::HashMap as a partial function: what the broker uses   *)
(* of it.                                                                  *)
(***************************************************************************)

EmptyMap == [k \in {} |-> k]

\* insert: an existing entry for the key is replaced.
Insert(m, k, v) == [x \in DOMAIN m \cup {k} |-> IF x = k THEN v ELSE m[x]]

\* remove: nothing happens if there is no entry.
Remove(m, k) == [x \in DOMAIN m \ {k} |-> m[x]]
=============================================================================
