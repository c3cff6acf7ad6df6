------------------------------- MODULE GoMap -------------------------------
(***************************************************************************)
(* A map of Go or the keys of Redis: a function on the keys present.       *)
(***************************************************************************)

NoEntries == [k \in {} |-> k]

(* The map f with the value v for the key k.                               *)
Put(f, k, v) == [j \in DOMAIN f \cup {k} |-> IF j = k THEN v ELSE f[j]]

Delete(f, k) == [j \in DOMAIN f \ {k} |-> f[j]]

=============================================================================
