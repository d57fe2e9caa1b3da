---------------------------- MODULE MCIPCServer ----------------------------
(***************************************************************************)
(* Small instances of IPCServer.                                           *)
(***************************************************************************)
EXTENDS IPCServer
=============================================================================
