----------------------------- MODULE MCCluster -----------------------------
(***************************************************************************)
(* Small instances of Cluster: what Targets.xml holds at the start, and    *)
(* which announcements arrive.                                             *)
(***************************************************************************)
EXTENDS Cluster

CONSTANTS n1, n2, a1, a2, m1, m2, s1, s2, h1

OneEntry    == <<[Name |-> n1, Address |-> a1, MachineId |-> m1]>>
OneNewEntry == <<[Name |-> n1, Address |-> a1, MachineId |-> NoId]>>

\* A machine at an address of its own.
Announcement == {[Address |-> a2, HostName |-> h1, MachineId |-> NoId]}
=============================================================================
