--------------------------- MODULE MCProcessList ---------------------------
(***************************************************************************)
(* Small instances of ProcessList.                                         *)
(***************************************************************************)
EXTENDS ProcessList
=============================================================================
