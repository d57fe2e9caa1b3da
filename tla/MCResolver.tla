----------------------------- MODULE MCResolver -----------------------------
(***************************************************************************)
(* Small instances of Resolver.                                            *)
(***************************************************************************)
EXTENDS Resolver

CONSTANTS r1, r2

\* Two receivers for one name, and a second name that has to wait for it.
Shared == {<<r1, 1>>, <<r2, 1>>, <<r1, 2>>}
Pair == {<<r1, 1>>, <<r1, 2>>}
=============================================================================
