------------------------------- MODULE Tables -------------------------------
(***************************************************************************)
(* A table is a function from keys to rows.                                *)
(***************************************************************************)

\* The table f after a row v is written under the key x.
Put(f, x, v) == [y \in DOMAIN f \cup {x} |-> IF y = x THEN v ELSE f[y]]

=============================================================================
