--------------------------- MODULE MCVariantCache ---------------------------
(***************************************************************************)
(* Small instances of VariantCache: things of two processes.               *)
(***************************************************************************)
EXTENDS VariantCache

CONSTANTS u1, u2, u3, p, q

TwoScopes == [u \in Uids |-> IF u = u3 THEN q ELSE p]
=============================================================================
