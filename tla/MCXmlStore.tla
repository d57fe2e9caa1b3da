----------------------------- MODULE MCXmlStore -----------------------------
(***************************************************************************)
(* Small instances of XmlStore: one writer that may be ended at any step,  *)
(* and the two threads of the viewer that store the target list.           *)
(***************************************************************************)
EXTENDS XmlStore
=============================================================================
