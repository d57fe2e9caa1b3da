----------------------------- MODULE ListMirror -----------------------------
(***************************************************************************)
(* What a list sent by difference promises its reader, without handles,    *)
(* scopes or differences: a reader that has applied everything it was sent *)
(* holds the list as it stood at the end of the last round, every field of *)
(* every entry of it and nothing else.                                     *)
(***************************************************************************)
CONSTANTS Uids, Entry

VARIABLES
  list,    \* the list at the end of the last round
  view,    \* what the reader holds
  state    \* "shown", "sent" (a message is under way) or "stale" (it lost one)

Empty == [u \in {} |-> u]

Init == list = Empty /\ view = Empty /\ state = "shown"

\* A round ends; the reader will be told.
Round == /\ state # "sent"
         /\ \E U \in SUBSET Uids : list' \in [U -> Entry]
         /\ state' = "sent"
         /\ UNCHANGED view

\* The reader has been told, and holds the list.
Show == /\ state = "sent"
        /\ view' = list
        /\ state' = "shown"
        /\ UNCHANGED list

\* The reader throws away part of its copy, or all of it, and says so.
Forget == /\ state # "sent"
          /\ \E U \in SUBSET Uids :
               /\ list' = [u \in DOMAIN list \cap U |-> list[u]]
               /\ view' = [u \in DOMAIN view \cap U |-> view[u]]
          /\ UNCHANGED state

\* The connection is replaced, with whatever was under way.
Lose == list' = Empty /\ state' = "stale" /\ UNCHANGED view

Next == Round \/ Show \/ Forget \/ Lose

Spec == Init /\ [][Next]_<<list, view, state>>
=============================================================================
