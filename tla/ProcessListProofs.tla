------------------------- MODULE ProcessListProofs -------------------------
(***************************************************************************)
(* The process list for any set of pids, any persistence and any length of *)
(* time: types, what a pid leads to, who keeps a parent, and the tree.     *)
(***************************************************************************)
EXTENDS ProcessList, WellFoundedInduction, TLAPS

Running == [start : Times, ppid : Pids \cup {0}]

MachineType ==
  /\ DOMAIN procs \subseteq Pids /\ procs \in [DOMAIN procs -> Running]
  /\ clock \in Times /\ last \in [Pids -> Times \cup {0}]
MapType == DOMAIN map \subseteq UIDs /\ map \in [DOMAIN map -> Process]
PidType == DOMAIN byPid \subseteq Pids /\ byPid \in [DOMAIN byPid -> UIDs]
ScanType ==
  /\ pc \in {"idle", "scan"} /\ old \subseteq UIDs
  /\ DOMAIN stats \subseteq Pids /\ stats \in [DOMAIN stats -> Times]

\* Nothing that was ever seen of a pid is younger than its last use, so a
\* process that starts is in none of the maps.
Seen ==
  /\ \A p \in Pids : last[p] <= clock
  /\ \A p \in DOMAIN procs : procs[p].start <= last[p]
  /\ \A p \in DOMAIN stats : stats[p] <= last[p]
  /\ \A u \in DOMAIN map : u[2] <= last[u[1]]

\* During a scan: a running process that was listed before is still to be
\* looked at until it has been crossed off, and was read as what it is.
Sweep ==
  /\ old \subseteq DOMAIN map
  /\ \A p \in DOMAIN procs : UID(p) \in DOMAIN map /\ p \in DOMAIN stats => UID(p) = <<p, stats[p]>>
  /\ \A p \in DOMAIN procs : UID(p) \in old => p \in DOMAIN stats

Inv ==
  /\ MachineType /\ MapType /\ PidType /\ ScanType
  /\ PidsLeadToEntries /\ LiveIsShown /\ Seen /\ Sweep

LEMMA InvTypeOK == Inv => TypeOK
  BY DEF Inv, TypeOK, MachineType, MapType, PidType, ScanType, Running

LEMMA InitInv == Init => Inv
<1> SUFFICES ASSUME Init PROVE Inv
  OBVIOUS
<1> USE ProcessListAssumption
<1>1. 1 \in Times
  BY DEF Times
<1>2. DOMAIN procs = {InitPid} /\ procs[InitPid] = [start |-> 1, ppid |-> 0]
  BY DEF Init
<1>3. DOMAIN map = {} /\ DOMAIN byPid = {} /\ DOMAIN stats = {} /\ old = {}
  BY DEF Init
<1>4. MachineType
  <2>1. procs \in [DOMAIN procs -> Running]
    BY <1>1, <1>2 DEF Init, Running
  <2> QED BY <1>1, <1>2, <2>1 DEF Init, MachineType
<1>5. MapType /\ PidType /\ ScanType
  BY <1>3 DEF Init, MapType, PidType, ScanType
<1>6. PidsLeadToEntries /\ LiveIsShown /\ Sweep
  BY <1>3 DEF PidsLeadToEntries, LiveIsShown, Sweep
<1>7. Seen
  BY <1>2, <1>3 DEF Init, Seen
<1> QED BY <1>4, <1>5, <1>6, <1>7 DEF Inv
-----------------------------------------------------------------------------
\* The machine.

\* The last use of a pid only moves on, so what Seen says of entries stays true.
LEMMA SeenGrows ==
  ASSUME Inv, UNCHANGED <<map, stats>>, MachineType',
         \A r \in Pids : last[r] <= last'[r] /\ last'[r] <= clock',
         \A r \in DOMAIN procs' : procs'[r].start <= last'[r]
  PROVE  Seen'
<1>1. \A r \in Pids : last[r] \in Int /\ last'[r] \in Int
  BY DEF Inv, MachineType, Times
<1>2. ASSUME NEW u \in DOMAIN map PROVE u[2] <= last'[u[1]]
  <2>1. u[1] \in Pids /\ u[2] \in Int
    BY DEF Inv, MapType, UIDs, Times
  <2>2. u[2] <= last[u[1]] /\ last[u[1]] <= last'[u[1]]
    BY <2>1 DEF Inv, Seen
  <2> QED BY <1>1, <2>1, <2>2
<1>3. ASSUME NEW r \in DOMAIN stats PROVE stats[r] <= last'[r]
  <2>1. r \in Pids /\ stats[r] \in Int
    BY DEF Inv, ScanType, Times
  <2>2. stats[r] <= last[r] /\ last[r] <= last'[r]
    BY <2>1 DEF Inv, Seen
  <2> QED BY <1>1, <2>1, <2>2
<1> QED BY <1>2, <1>3 DEF Seen

LEMMA SpawnInv ==
  ASSUME Inv, NEW p \in Pids, NEW q \in Pids, NEW t \in Times, Spawn(p, q, t)
  PROVE  Inv'
<1> USE ProcessListAssumption
<1>1. MachineType /\ MapType /\ PidType /\ ScanType
  BY DEF Inv
<1>2. /\ p \notin DOMAIN procs /\ t > last[p] /\ t >= clock
      /\ clock' = t /\ last' = [last EXCEPT ![p] = t]
      /\ UNCHANGED <<map, byPid, pc, stats, old>>
  BY <1>1 DEF Spawn, lists, MachineType, Times
<1>3. /\ DOMAIN procs' = DOMAIN procs \cup {p}
      /\ procs'[p] = [start |-> t, ppid |-> q]
      /\ \A r \in DOMAIN procs : procs'[r] = procs[r]
      /\ procs' \in [DOMAIN procs' -> Running]
  <2>1. [start |-> t, ppid |-> q] \in Running
    BY DEF Running
  <2>2. procs' = [z \in DOMAIN procs \cup {p} |->
                    IF z = p THEN [start |-> t, ppid |-> q] ELSE procs[z]]
    BY DEF Spawn, With
  <2> QED BY <1>1, <1>2, <2>1, <2>2 DEF MachineType
<1>4. MachineType'
  BY <1>1, <1>2, <1>3 DEF MachineType
<1>5. MapType' /\ PidType' /\ ScanType'
  BY <1>1, <1>2 DEF MapType, PidType, ScanType
<1>6. UID(p)' = <<p, t>> /\ <<p, t>> \notin DOMAIN map
  BY <1>1, <1>2, <1>3 DEF UID, Inv, Seen, MachineType, Times
<1>7. \A r \in DOMAIN procs : UID(r)' = UID(r)
  BY <1>3 DEF UID
<1>8. PidsLeadToEntries'
  BY <1>2 DEF Inv, PidsLeadToEntries
<1>9. LiveIsShown'
  BY <1>2, <1>3, <1>6, <1>7 DEF Inv, LiveIsShown
<1>10. Sweep'
  BY <1>2, <1>3, <1>6, <1>7 DEF Inv, Sweep
<1>11. Seen'
  <2>1. \A r \in Pids : last[r] <= last'[r] /\ last'[r] <= clock'
    BY <1>1, <1>2 DEF Inv, Seen, MachineType, Times
  <2>2. ASSUME NEW r \in DOMAIN procs' PROVE procs'[r].start <= last'[r]
    BY <1>1, <1>2, <1>3 DEF Inv, Seen, MachineType, Times
  <2> QED BY <1>2, <1>4, <2>1, <2>2, SeenGrows
<1> QED BY <1>4, <1>5, <1>8, <1>9, <1>10, <1>11 DEF Inv

LEMMA ExitInv ==
  ASSUME Inv, NEW p \in Pids, Exit(p)
  PROVE  Inv'
<1> USE ProcessListAssumption
<1>1. MachineType /\ MapType /\ PidType /\ ScanType
  BY DEF Inv
<1>2. /\ p \in DOMAIN procs
      /\ last' = [last EXCEPT ![p] = clock]
      /\ UNCHANGED <<clock, map, byPid, pc, stats, old>>
  BY DEF Exit, lists
<1>3. /\ DOMAIN procs' = DOMAIN procs \ {p}
      /\ \A r \in DOMAIN procs' : procs'[r].start = procs[r].start
      /\ procs' \in [DOMAIN procs' -> Running]
  <2>1. DOMAIN procs' = DOMAIN procs \ {p}
    BY DEF Exit
  <2>2. ASSUME NEW r \in DOMAIN procs \ {p}
        PROVE  procs'[r] \in Running /\ procs'[r].start = procs[r].start
    <3>1. procs[r] \in Running
      BY <1>1 DEF MachineType
    <3>2. procs'[r] = IF procs[r].ppid = p THEN [procs[r] EXCEPT !.ppid = InitPid] ELSE procs[r]
      BY DEF Exit
    <3> QED BY <3>1, <3>2 DEF Running
  <2> QED BY <2>1, <2>2 DEF Exit
<1>4. MachineType'
  BY <1>1, <1>2, <1>3 DEF MachineType
<1>5. MapType' /\ PidType' /\ ScanType'
  BY <1>1, <1>2 DEF MapType, PidType, ScanType
<1>6. \A r \in DOMAIN procs' : r \in DOMAIN procs /\ UID(r)' = UID(r)
  BY <1>3 DEF UID
<1>7. PidsLeadToEntries'
  BY <1>2 DEF Inv, PidsLeadToEntries
<1>8. LiveIsShown'
  BY <1>2, <1>6 DEF Inv, LiveIsShown
<1>9. Sweep'
  BY <1>2, <1>6 DEF Inv, Sweep
<1>10. Seen'
  <2>1. \A r \in Pids : last[r] <= last'[r] /\ last'[r] <= clock'
    BY <1>1, <1>2 DEF Inv, Seen, MachineType, Times
  <2>2. ASSUME NEW r \in DOMAIN procs' PROVE procs'[r].start <= last'[r]
    BY <1>1, <1>2, <1>3 DEF Inv, Seen, MachineType, Times
  <2> QED BY <1>2, <1>4, <2>1, <2>2, SeenGrows
<1> QED BY <1>4, <1>5, <1>7, <1>8, <1>9, <1>10 DEF Inv
-----------------------------------------------------------------------------
\* The collector leaves the machine alone.

LEMMA MachineStays ==
  ASSUME Inv, UNCHANGED machine
  PROVE  /\ MachineType' /\ UNCHANGED <<procs, clock, last>>
         /\ \A r : UID(r)' = UID(r)
         /\ \A r \in DOMAIN procs : r \in Pids /\ UID(r) = <<r, procs[r].start>>
  BY DEF Inv, machine, MachineType, UID

\* A step that changes nothing but what is noted in unmarked entries' favour:
\* Tick and ClearPersistence.
LEMMA MarksChange ==
  ASSUME Inv, UNCHANGED <<machine, byPid, pc, stats, old>>,
         DOMAIN map' = DOMAIN map, map' \in [DOMAIN map -> Process],
         \A u \in DOMAIN map : map[u].mark = NotMarked => map'[u] = map[u]
  PROVE  Inv'
<1>1. MachineType' /\ UNCHANGED <<procs, clock, last>> /\ \A r : UID(r)' = UID(r)
  BY MachineStays
<1>2. MapType' /\ PidType' /\ ScanType'
  BY DEF Inv, MapType, PidType, ScanType
<1>3. PidsLeadToEntries'
  BY DEF Inv, PidsLeadToEntries
<1>4. LiveIsShown'
  BY <1>1 DEF Inv, LiveIsShown
<1>5. Seen'
  BY <1>1 DEF Inv, Seen
<1>6. Sweep'
  BY <1>1 DEF Inv, Sweep
<1> QED BY <1>1, <1>2, <1>3, <1>4, <1>5, <1>6 DEF Inv

LEMMA TickInv ==
  ASSUME Inv, Tick
  PROVE  Inv'
<1> USE ProcessListAssumption
<1>1. ASSUME NEW u \in DOMAIN map
      PROVE  map'[u] \in Process /\ (map[u].mark = NotMarked => map'[u] = map[u])
  <2>1. map[u] \in Process
    BY DEF Inv, MapType
  <2>2. map'[u] = IF map[u].mark \in Marked..(Oldest - 1)
                  THEN [map[u] EXCEPT !.mark = @ + 1] ELSE map[u]
    BY DEF Tick
  <2>3. map[u].mark \in Marked..(Oldest - 1)
          => map[u].mark + 1 \in Marks /\ map[u].mark # NotMarked
    BY DEF Marks, Marked, Oldest, NotMarked
  <2> QED BY <2>1, <2>2, <2>3 DEF Process
<1>2. DOMAIN map' = DOMAIN map /\ map' \in [DOMAIN map -> Process]
  BY <1>1 DEF Tick
<1> QED BY <1>1, <1>2, MarksChange DEF Tick

LEMMA ClearInv ==
  ASSUME Inv, ClearPersistence
  PROVE  Inv'
<1> USE ProcessListAssumption
<1>1. PersistenceTime + 1 \in Marks
  BY DEF Marks, Oldest
<1>2. ASSUME NEW u \in DOMAIN map
      PROVE  map'[u] \in Process /\ (map[u].mark = NotMarked => map'[u] = map[u])
  <2>1. map[u] \in Process
    BY DEF Inv, MapType
  <2>2. map'[u] = IF map[u].mark # NotMarked /\ (\E p \in DOMAIN byPid : byPid[p] = u)
                  THEN [map[u] EXCEPT !.mark = PersistenceTime + 1] ELSE map[u]
    BY DEF ClearPersistence
  <2> QED BY <1>1, <2>1, <2>2 DEF Process
<1>3. DOMAIN map' = DOMAIN map /\ map' \in [DOMAIN map -> Process]
  BY <1>2 DEF ClearPersistence
<1> QED BY <1>2, <1>3, MarksChange DEF ClearPersistence
-----------------------------------------------------------------------------
\* The refresh.

LEMMA EnumerateInv ==
  ASSUME Inv, Enumerate
  PROVE  Inv'
<1>1. MachineType' /\ UNCHANGED <<procs, clock, last>> /\ \A r : UID(r)' = UID(r)
  BY MachineStays DEF Enumerate
<1>2. /\ UNCHANGED <<map, byPid>> /\ pc' = "scan" /\ old' = DOMAIN map
      /\ DOMAIN stats' = DOMAIN procs /\ \A r \in DOMAIN procs : stats'[r] = procs[r].start
  BY DEF Enumerate, lists
<1>3. MapType' /\ PidType'
  BY <1>2 DEF Inv, MapType, PidType
<1>4. ScanType'
  <2>1. \A r \in DOMAIN procs : procs[r].start \in Times
    BY DEF Inv, MachineType, Running
  <2> QED BY <1>2, <2>1 DEF Enumerate, Inv, MachineType, MapType, ScanType
<1>5. PidsLeadToEntries' /\ LiveIsShown'
  BY <1>1, <1>2 DEF Inv, PidsLeadToEntries, LiveIsShown
<1>6. Seen'
  BY <1>1, <1>2 DEF Inv, Seen
<1>7. Sweep'
  BY <1>1, <1>2 DEF Sweep, UID
<1> QED BY <1>1, <1>3, <1>4, <1>5, <1>6, <1>7 DEF Inv

\* What the loop does to Stats in each of its branches.
LEMMA StatsShrink ==
  ASSUME Inv, NEW p \in Pids, Current(p), stats' = Without(stats, {p})
  PROVE  /\ p \in DOMAIN stats /\ stats[p] \in Times /\ <<p, stats[p]>> \in UIDs
         /\ DOMAIN stats' = DOMAIN stats \ {p}
         /\ \A r \in DOMAIN stats' : stats'[r] = stats[r]
         /\ stats' \in [DOMAIN stats' -> Times]
  BY DEF Inv, ScanType, Current, Without, UIDs

LEMMA KeepInv ==
  ASSUME Inv, NEW p \in Pids, Keep(p)
  PROVE  Inv'
<1>1. MachineType' /\ UNCHANGED <<procs, clock, last>> /\ \A r : UID(r)' = UID(r)
  BY MachineStays DEF Keep
<1>2. /\ p \in DOMAIN stats /\ DOMAIN stats' = DOMAIN stats \ {p}
      /\ \A r \in DOMAIN stats' : stats'[r] = stats[r]
      /\ stats' \in [DOMAIN stats' -> Times]
  BY StatsShrink DEF Keep
<1>3. UNCHANGED <<map, byPid, pc>> /\ old' = old \ {<<p, stats[p]>>}
  BY DEF Keep, lists
<1>4. MapType' /\ PidType' /\ ScanType'
  BY <1>2, <1>3 DEF Inv, MapType, PidType, ScanType
<1>5. PidsLeadToEntries' /\ LiveIsShown'
  BY <1>1, <1>3 DEF Inv, PidsLeadToEntries, LiveIsShown
<1>6. Seen'
  BY <1>1, <1>2, <1>3 DEF Inv, Seen
<1>7. Sweep'
  BY <1>1, <1>2, <1>3 DEF Inv, Sweep
<1> QED BY <1>1, <1>4, <1>5, <1>6, <1>7 DEF Inv

\* If the process that runs under p is listed already, the sweep saw that one,
\* and the loop would have crossed it off.  So the entry that is added is the
\* running process, or that one stays unlisted.
LEMMA AddInv ==
  ASSUME Inv, NEW p \in Pids, Add(p)
  PROVE  Inv'
<1> DEFINE u == <<p, stats[p]>>
           e == [start |-> procs[p].start, ppid |-> procs[p].ppid,
                 parent |-> Unresolved, mark |-> NotMarked]
<1>1. MachineType' /\ UNCHANGED <<procs, clock, last>> /\ \A r : UID(r)' = UID(r)
  BY MachineStays DEF Add
<1>2. /\ p \in DOMAIN stats /\ u \in UIDs /\ DOMAIN stats' = DOMAIN stats \ {p}
      /\ \A r \in DOMAIN stats' : stats'[r] = stats[r]
      /\ stats' \in [DOMAIN stats' -> Times]
  BY StatsShrink DEF Add
<1>3. UNCHANGED <<old, pc>> /\ u \notin old /\ p \in DOMAIN procs
  BY DEF Add
<1>4. /\ map' = [z \in DOMAIN map \cup {u} |-> IF z = u THEN e ELSE map[z]]
      /\ byPid' = [z \in DOMAIN byPid \cup {p} |-> IF z = p THEN u ELSE byPid[z]]
  BY DEF Add, With
<1>5. e \in Process
  <2>1. procs[p] \in Running
    BY <1>3 DEF Inv, MachineType
  <2>2. NotMarked \in Marks
    BY ProcessListAssumption DEF NotMarked, Marks, Oldest
  <2> QED BY <2>1, <2>2 DEF Running, Process, Unresolved
<1> HIDE DEF e
<1>6. MapType'
  BY <1>2, <1>4, <1>5 DEF Inv, MapType
<1>7. PidType' /\ ScanType'
  BY <1>2, <1>3, <1>4 DEF Inv, PidType, ScanType
<1>8. PidsLeadToEntries'
  BY <1>4 DEF Inv, PidsLeadToEntries
<1>9. \A r \in DOMAIN procs : r # p => UID(r) # u
  BY DEF UID
<1>10. UID(p) \in DOMAIN map => UID(p) = u
  BY <1>2, <1>3 DEF Inv, Sweep
<1>11. LiveIsShown'
  <2>1. e.mark = NotMarked
    BY DEF e
  <2>2. ASSUME NEW r \in DOMAIN procs, UID(r) \in DOMAIN map'
        PROVE  /\ r \in DOMAIN byPid' /\ byPid'[r] = UID(r)
               /\ map'[UID(r)].mark = NotMarked
    <3>1. CASE r = p
      BY <1>4, <1>10, <2>1, <2>2, <3>1
    <3>2. CASE r # p
      BY <1>4, <1>9, <2>2, <3>2 DEF Inv, LiveIsShown
    <3> QED BY <3>1, <3>2
  <2> QED BY <1>1, <2>2 DEF LiveIsShown
<1>12. Seen'
  <2>1. \A z \in DOMAIN map' : z[2] <= last[z[1]]
    BY <1>2, <1>4 DEF Inv, Seen
  <2> QED BY <1>1, <1>2, <2>1 DEF Inv, Seen
<1>13. Sweep'
  <2>1. old' \subseteq DOMAIN map'
    BY <1>3, <1>4 DEF Inv, Sweep
  <2>2. ASSUME NEW r \in DOMAIN procs, UID(r) \in DOMAIN map', r \in DOMAIN stats'
        PROVE  UID(r) = <<r, stats'[r]>>
    BY <1>2, <1>4, <1>9, <2>2 DEF Inv, Sweep
  <2>3. ASSUME NEW r \in DOMAIN procs, UID(r) \in old'
        PROVE  r \in DOMAIN stats'
    BY <1>2, <1>3, <1>10, <2>3 DEF Inv, Sweep
  <2> QED BY <1>1, <2>1, <2>2, <2>3 DEF Sweep
<1> QED BY <1>1, <1>6, <1>7, <1>8, <1>11, <1>12, <1>13 DEF Inv

LEMMA AddVanishedInv ==
  ASSUME Inv, NEW p \in Pids, AddVanished(p)
  PROVE  Inv'
<1> DEFINE u == <<p, stats[p]>>
<1>1. MachineType' /\ UNCHANGED <<procs, clock, last>> /\ \A r : UID(r)' = UID(r)
  BY MachineStays DEF AddVanished
<1>2. /\ p \in DOMAIN stats /\ DOMAIN stats' = DOMAIN stats \ {p}
      /\ \A r \in DOMAIN stats' : stats'[r] = stats[r]
      /\ stats' \in [DOMAIN stats' -> Times]
  BY StatsShrink DEF AddVanished
<1>3. UNCHANGED <<old, pc>> /\ u \notin old /\ p \notin DOMAIN procs
  BY DEF AddVanished
<1>4. /\ map' = [z \in DOMAIN map \ {u} |-> map[z]]
      /\ byPid' = [z \in DOMAIN byPid \ {p} |-> byPid[z]]
  BY DEF AddVanished, Without
<1>5. MapType' /\ PidType' /\ ScanType'
  BY <1>2, <1>3, <1>4 DEF Inv, MapType, PidType, ScanType
<1>6. PidsLeadToEntries'
  BY <1>4 DEF Inv, PidsLeadToEntries
<1>7. \A r \in DOMAIN procs : r # p /\ UID(r) # u
  BY <1>3 DEF UID
<1>8. LiveIsShown'
  BY <1>1, <1>4, <1>7 DEF Inv, LiveIsShown
<1>9. Seen'
  BY <1>1, <1>2, <1>4 DEF Inv, Seen
<1>10. Sweep'
  BY <1>1, <1>2, <1>3, <1>4, <1>7 DEF Inv, Sweep
<1> QED BY <1>1, <1>5, <1>6, <1>8, <1>9, <1>10 DEF Inv

\* When the loop is done no running process is among what is left over.
LEMMA PurgeInv ==
  ASSUME Inv, Purge
  PROVE  Inv'
<1> DEFINE kept(u) == [map[u] EXCEPT
                         !.parent = IF @ = Unresolved THEN ParentOf(u) ELSE @,
                         !.mark = IF u \in old THEN MarkForRemoval(@) ELSE @]
<1>1. MachineType' /\ UNCHANGED <<procs, clock, last>> /\ \A r : UID(r)' = UID(r)
  BY MachineStays DEF Purge
<1>2. /\ pc' = "idle" /\ old' = {} /\ UNCHANGED stats /\ DOMAIN stats = {}
      /\ DOMAIN map' = DOMAIN map \ Purged
      /\ \A u \in DOMAIN map' : map'[u] = kept(u)
      /\ map' \in [DOMAIN map' -> {kept(u) : u \in DOMAIN map'}]
  BY DEF Purge
<1>3. byPid' = [p \in DOMAIN byPid \ Erased(Purged) |-> byPid[p]]
  BY DEF Purge, Without
<1>4. \A r \in DOMAIN procs : UID(r) \notin old
  BY <1>2 DEF Inv, Sweep
<1>5. ASSUME NEW u \in DOMAIN map
      PROVE  kept(u) \in Process /\ (u \notin old => kept(u).mark = map[u].mark)
  <2>1. map[u] \in Process
    BY DEF Inv, MapType
  <2>2. ParentOf(u) \in (Pids \cup {0}) \X (Times \cup {0})
    <3>1. \A p \in DOMAIN byPid : map[byPid[p]] \in Process
      BY DEF Inv, MapType, PidsLeadToEntries
    <3> QED BY <2>1, <3>1 DEF ParentOf, Process
  <2>3. MarkForRemoval(map[u].mark) \in Marks
    BY <2>1, ProcessListAssumption DEF MarkForRemoval, Marks, Oldest, Marked, NotMarked, Process
  <2> QED BY <2>1, <2>2, <2>3 DEF Process
<1> HIDE DEF kept
<1>6. MapType'
  BY <1>2, <1>5 DEF Inv, MapType
<1>7. PidType' /\ ScanType'
  BY <1>2, <1>3 DEF Inv, PidType, ScanType
<1>8. PidsLeadToEntries'
  BY <1>2, <1>3 DEF Inv, PidsLeadToEntries, Erased
<1>9. LiveIsShown'
  <2>1. ASSUME NEW r \in DOMAIN procs, UID(r) \in DOMAIN map'
        PROVE  /\ r \in DOMAIN byPid' /\ byPid'[r] = UID(r)
               /\ map'[UID(r)].mark = NotMarked
    BY <1>2, <1>3, <1>4, <1>5, <2>1 DEF Inv, LiveIsShown, Erased
  <2> QED BY <1>1, <2>1 DEF LiveIsShown
<1>10. Seen'
  BY <1>1, <1>2 DEF Inv, Seen
<1>11. Sweep'
  BY <1>1, <1>2 DEF Sweep
<1> QED BY <1>1, <1>6, <1>7, <1>8, <1>9, <1>10, <1>11 DEF Inv
-----------------------------------------------------------------------------
LEMMA StepInv == Inv /\ [Next]_vars => Inv'
<1> SUFFICES ASSUME Inv, [Next]_vars PROVE Inv'
  OBVIOUS
<1>1. CASE Refresh
  BY <1>1, EnumerateInv, PurgeInv, KeepInv, AddInv, AddVanishedInv DEF Refresh
<1>2. CASE Machine
  BY <1>2, SpawnInv, ExitInv DEF Machine
<1>3. CASE Tick
  BY <1>3, TickInv
<1>4. CASE ClearPersistence
  BY <1>4, ClearInv
<1>5. CASE UNCHANGED vars
  BY <1>5 DEF vars, Inv, MachineType, MapType, PidType, ScanType, PidsLeadToEntries,
              LiveIsShown, Seen, Sweep, UID
<1> QED BY <1>1, <1>2, <1>3, <1>4, <1>5 DEF Next

LEMMA InvHolds == Spec => []Inv
  BY InitInv, StepInv, PTL DEF Spec

\* UpdateProcessList and ClearPersistence keep the maps well formed, on a
\* machine of any size.
THEOREM ListTypes == Spec => []TypeOK
  BY InvHolds, InvTypeOK, PTL

\* m_ProcessByPID never leads to an entry that m_ProcessMap has not, nor to one
\* of another pid: the purge and the branch for a vanished process take out of
\* both maps together.
THEOREM PidsAreSound == Spec => []PidsLeadToEntries
<1>1. Inv => PidsLeadToEntries
  BY DEF Inv
<1> QED BY <1>1, InvHolds, PTL

\* A running process that is listed is found by its pid and is not marked as
\* ended, whatever starts and ends between the sweep over /proc and the purge.
THEOREM LiveProcessesShown == Spec => []LiveIsShown
<1>1. Inv => LiveIsShown
  BY DEF Inv
<1> QED BY <1>1, InvHolds, PTL
-----------------------------------------------------------------------------
\* The second pass writes the parent only from the parent's pid, and what is
\* still to be looked at was listed before the refresh or is not listed.
Linked ==
  /\ \A u \in DOMAIN map : map[u].parent # Unresolved => map[u].parent[1] = map[u].ppid
  /\ \A p \in DOMAIN stats : <<p, stats[p]>> \in DOMAIN map => <<p, stats[p]>> \in old

LEMMA LinkedStep == Inv /\ Linked /\ [Next]_vars => Linked'
<1> SUFFICES ASSUME Inv, Linked, [Next]_vars PROVE Linked'
  OBVIOUS
<1>1. CASE Machine \/ UNCHANGED vars
  <2>1. UNCHANGED <<map, stats, old>>
    BY <1>1 DEF Machine, Spawn, Exit, lists, vars
  <2> QED BY <2>1 DEF Linked
<1>2. CASE Tick \/ ClearPersistence
  <2>1. UNCHANGED <<stats, old>> /\ DOMAIN map' = DOMAIN map
    BY <1>2 DEF Tick, ClearPersistence
  <2>2. ASSUME NEW u \in DOMAIN map
        PROVE  map'[u].parent = map[u].parent /\ map'[u].ppid = map[u].ppid
    <3>1. map[u] \in Process
      BY DEF Inv, MapType
    <3> QED BY <1>2, <3>1 DEF Tick, ClearPersistence, Process
  <2> QED BY <2>1, <2>2 DEF Linked
<1>3. CASE Enumerate
  BY <1>3 DEF Enumerate, lists, Linked
<1>4. ASSUME NEW p \in Pids, Keep(p) \/ Add(p) \/ AddVanished(p) PROVE Linked'
  <2>1. /\ DOMAIN stats' = DOMAIN stats \ {p}
        /\ \A r \in DOMAIN stats' : stats'[r] = stats[r]
    BY <1>4, StatsShrink DEF Keep, Add, AddVanished
  <2>2. old \ {<<p, stats[p]>>} \subseteq old'
    BY <1>4 DEF Keep, Add, AddVanished
  <2>3. /\ DOMAIN map' \subseteq DOMAIN map \cup {<<p, stats[p]>>}
        /\ \A u \in DOMAIN map' : map'[u] = map[u] \/ map'[u].parent = Unresolved
    BY <1>4 DEF Keep, Add, AddVanished, With, Without, lists
  <2>4. \A u \in DOMAIN map' : u \in DOMAIN map \/ map'[u].parent = Unresolved
    BY <1>4 DEF Keep, Add, AddVanished, With, Without, lists
  <2> QED BY <2>1, <2>2, <2>3, <2>4 DEF Linked
<1>5. CASE Purge
  <2>1. DOMAIN stats' = {} /\ DOMAIN map' \subseteq DOMAIN map
    BY <1>5 DEF Purge
  <2>2. ASSUME NEW u \in DOMAIN map', map'[u].parent # Unresolved
        PROVE  map'[u].parent[1] = map'[u].ppid
    <3>1. map[u] \in Process
      BY <2>1 DEF Inv, MapType
    <3>2. /\ map'[u].parent = IF map[u].parent = Unresolved THEN ParentOf(u) ELSE map[u].parent
          /\ map'[u].ppid = map[u].ppid
      BY <1>5, <3>1 DEF Purge, Process
    <3>3. ParentOf(u)[1] = map[u].ppid
      BY DEF ParentOf
    <3> QED BY <2>1, <3>2, <3>3 DEF Linked
  <2> QED BY <2>1, <2>2 DEF Linked
<1> QED BY <1>1, <1>2, <1>3, <1>4, <1>5 DEF Next, Refresh

\* An entry leaves in the purge only: the branch for a vanished process finds
\* nothing to take out that was there before.
LEMMA OnlyPurgeRemoves ==
  ASSUME Inv, Linked, [Next]_vars, NEW u \in DOMAIN map \ DOMAIN map'
  PROVE  u \in Purged
<1>1. CASE Machine \/ Tick \/ ClearPersistence \/ Enumerate \/ UNCHANGED vars
  BY <1>1 DEF Machine, Spawn, Exit, Tick, ClearPersistence, Enumerate, lists, vars
<1>2. ASSUME NEW p \in Pids, Keep(p) \/ Add(p) PROVE FALSE
  BY <1>2 DEF Keep, Add, With, lists
<1>3. ASSUME NEW p \in Pids, AddVanished(p) PROVE FALSE
  BY <1>3 DEF AddVanished, Current, Without, Linked
<1>4. CASE Purge
  BY <1>4 DEF Purge
<1> QED BY <1>1, <1>2, <1>3, <1>4 DEF Next, Refresh

\* A running child that is listed under u is found by its pid, so that the count
\* of children has u's pid, if that still leads to u.
LEMMA KeptStep ==
  ASSUME Inv, Linked, EnableParentRetention, NEW u \in DOMAIN map,
         u \in Purged, HasLiveChild(u), u[1] \in DOMAIN byPid
  PROVE  byPid[u[1]] # u
<1> SUFFICES ASSUME byPid[u[1]] = u PROVE FALSE
  OBVIOUS
<1>1. PICK p \in DOMAIN procs : UID(p) \in DOMAIN map /\ Under(UID(p), u)
  BY DEF HasLiveChild
<1>2. p \in DOMAIN byPid /\ byPid[p] = UID(p) /\ UID(p)[1] = p
  BY <1>1 DEF Inv, LiveIsShown, UID
<1>3. u # Unresolved
  BY ProcessListAssumption DEF Inv, MapType, UIDs, Unresolved
<1>4. map[UID(p)].ppid = u[1]
  BY <1>1, <1>3 DEF Under, Linked
<1>5. ValidateParent(map[byPid[p]], p, map[byPid[u[1]]], u[1])
  BY <1>1, <1>2 DEF Under
<1>6. u[1] \in Parents
  BY <1>2, <1>4, <1>5 DEF Parents
<1> QED BY <1>6 DEF Purged

\* "Keep an exited process listed while it still has live children": for any
\* persistence and any machine, a refresh removes the entry of a parent only
\* after another process has taken its pid.
THEOREM ParentsAreKept == Spec => ParentKept
<1>1. Init => Linked
  BY DEF Init, Linked
<1>2. Inv /\ Linked /\ [Next]_vars
        => [EnableParentRetention =>
              \A u \in DOMAIN map \ DOMAIN map' :
                HasLiveChild(u) => u[1] \notin DOMAIN byPid \/ byPid[u[1]] # u]_vars
  BY OnlyPurgeRemoves, KeptStep
<1> QED BY <1>1, <1>2, LinkedStep, InvHolds, PTL DEF Spec, ParentKept
-----------------------------------------------------------------------------
\* The marks.

\* What is running and listed is not marked, so it is not what the purge takes.
LEMMA LiveStays ==
  ASSUME Inv, Linked, [Next]_vars, NEW u \in DOMAIN map, Runs(u)
  PROVE  u \in DOMAIN map'
<1> SUFFICES ASSUME u \notin DOMAIN map' PROVE FALSE
  OBVIOUS
<1>1. u \in Purged
  BY OnlyPurgeRemoves
<1>2. map[u].mark # NotMarked
  BY <1>1 DEF Purged, CanBeRemoved
<1>3. u[1] \in DOMAIN procs /\ UID(u[1]) = u
  BY DEF Runs
<1>4. map[u].mark = NotMarked
  BY <1>3 DEF Inv, LiveIsShown
<1> QED BY <1>2, <1>4

\* No branch of the loop and no later pass takes a mark away; an entry that is
\* added is not one that was there, since that would have been crossed off.
LEMMA MarkStays ==
  ASSUME Inv, Linked, [Next]_vars, NEW u \in DOMAIN map, map[u].mark # NotMarked,
         u \in DOMAIN map'
  PROVE  map'[u].mark # NotMarked
<1>1. map[u] \in Process
  BY DEF Inv, MapType
<1>2. CASE Machine \/ Enumerate \/ UNCHANGED vars
  BY <1>2 DEF Machine, Spawn, Exit, Enumerate, lists, vars
<1>3. CASE Tick
  <2>1. map'[u] = IF map[u].mark \in Marked..(Oldest - 1)
                  THEN [map[u] EXCEPT !.mark = @ + 1] ELSE map[u]
    BY <1>3 DEF Tick
  <2>2. CASE map[u].mark \in Marked..(Oldest - 1)
    <3>1. map'[u].mark = map[u].mark + 1
      BY <1>1, <2>1, <2>2 DEF Process
    <3> QED BY <2>2, <3>1, ProcessListAssumption DEF Marked, NotMarked, Oldest
  <2> QED BY <2>1, <2>2
<1>4. CASE ClearPersistence
  <2>1. map'[u] = map[u] \/ map'[u] = [map[u] EXCEPT !.mark = PersistenceTime + 1]
    BY <1>4 DEF ClearPersistence
  <2>2. map'[u].mark = map[u].mark \/ map'[u].mark = PersistenceTime + 1
    BY <1>1, <2>1 DEF Process
  <2> QED BY <2>2, ProcessListAssumption DEF NotMarked
<1>5. ASSUME NEW p \in Pids, Keep(p) \/ AddVanished(p) PROVE map'[u] = map[u]
  BY <1>5 DEF Keep, AddVanished, Without, lists
<1>6. ASSUME NEW p \in Pids, Add(p) PROVE map'[u] = map[u]
  <2>1. p \in DOMAIN stats /\ <<p, stats[p]>> \notin old
    BY <1>6 DEF Add, Current
  <2>2. u # <<p, stats[p]>>
    BY <2>1 DEF Linked
  <2> QED BY <1>6, <2>2 DEF Add, With
<1>7. CASE Purge
  <2>1. map'[u] = [map[u] EXCEPT
                     !.parent = IF @ = Unresolved THEN ParentOf(u) ELSE @,
                     !.mark = IF u \in old THEN MarkForRemoval(@) ELSE @]
    BY <1>7 DEF Purge
  <2>2. map'[u].mark = IF u \in old THEN MarkForRemoval(map[u].mark) ELSE map[u].mark
    BY <1>1, <2>1 DEF Process
  <2> QED BY <2>2 DEF MarkForRemoval
<1> QED BY <1>2, <1>3, <1>4, <1>5, <1>6, <1>7 DEF Next, Refresh

\* A refresh never takes a running process out of the list nor shows one that
\* has ended as running again, on a machine of any size and for any persistence.
THEOREM TheRunningStay == Spec => OnlyEndedLeave
<1>1. Init => Linked
  BY DEF Init, Linked
<1>2. Inv /\ Linked /\ [Next]_vars
        => [\A u \in DOMAIN map :
              /\ Runs(u) => u \in DOMAIN map'
              /\ map[u].mark # NotMarked /\ u \in DOMAIN map' => map'[u].mark # NotMarked]_vars
  BY LiveStays, MarkStays
<1> QED BY <1>1, <1>2, LinkedStep, InvHolds, PTL DEF Spec, OnlyEndedLeave
-----------------------------------------------------------------------------
\* The tree.

\* The machine or an entry knows the process that started at t under pid p as a
\* child of pid q.
Child(p, q, t) ==
  \/ p \in DOMAIN procs /\ procs[p].start = t /\ procs[p].ppid = q
  \/ \E u \in DOMAIN map : u[1] = p /\ map[u].start = t /\ map[u].ppid = q

\* A cycle of the tree would be one among processes that started in one tick, and
\* of those the later never is the parent of the earlier.  A pid is given out once
\* in a tick, so that what is known of a pid there is known of one process.
NoLoop ==
  \A t \in Times : \A S \in SUBSET (Pids \ {InitPid}) :
    S # {} => \E p \in S : \A q \in S : ~Child(p, q, t)

\* What makes a process that starts a child of something older: nobody in its tick
\* has its pid, as its own or as its parent's.
KnownParents ==
  /\ InitPid \in DOMAIN procs /\ procs[InitPid].ppid = 0
  /\ \A p \in DOMAIN procs : procs[p].ppid \in DOMAIN procs \cup {0}
  /\ \A u \in DOMAIN map :
       /\ u[1] = InitPid => map[u].ppid = 0
       /\ map[u].start <= last[u[1]]
       /\ map[u].ppid \in DOMAIN procs \cup {0} \/ map[u].start <= last[map[u].ppid]

LEMMA LeastTime ==
  ASSUME NEW S, S \subseteq Nat, S # {}
  PROVE  \E r \in S : \A q \in S : r <= q
<1> DEFINE Before == {ss \in Nat \X Nat : ss[1] < ss[2]}
<1>1. IsWellFoundedOn(Before, Nat)
  BY NatLessThanWellFounded, Zenon DEF OpToRel
<1>2. \A x, y \in Nat : x < y => <<x, y>> \in Before
  OBVIOUS
<1> HIDE DEF Before
<1>3. PICK r \in S : \A q \in S : ~(<<q, r>> \in Before)
  BY <1>1, WFMin
<1>4. \A q \in S : ~(q < r)
  BY <1>2, <1>3, Zenon
<1> QED BY <1>3, <1>4

\* Among the entries of the earliest start that would form a cycle, every parent
\* is one of them, and is known by its pid.
LEMMA TreeFollows == Inv /\ Linked /\ KnownParents /\ NoLoop => TreeHasNoCycle
<1> SUFFICES ASSUME Inv, Linked, KnownParents, NoLoop,
                    NEW S \in SUBSET DOMAIN map, S # {},
                    \A u \in S : \E v \in S : Under(u, v)
             PROVE  FALSE
  BY DEF TreeHasNoCycle
<1> DEFINE Starts == {map[u].start : u \in S}
<1>1. \A u \in S : /\ u \in DOMAIN map /\ u[1] \in Pids /\ u # Unresolved
                   /\ map[u].start \in Times /\ map[u].start \in Nat
  BY ProcessListAssumption DEF Inv, MapType, UIDs, Process, Times, Unresolved
<1>2. PICK t \in Starts : \A x \in Starts : t <= x
  <2>1. Starts \subseteq Nat /\ Starts # {}
    BY <1>1
  <2> QED BY <2>1, LeastTime
<1>3. \A u \in S : t <= map[u].start
  BY <1>2
<1> DEFINE First == {u \in S : map[u].start = t}
           P == {u[1] : u \in First}
<1>4. First # {} /\ t \in Times /\ t \in Nat
  BY <1>1, <1>2
<1> HIDE DEF Starts
<1>5. ASSUME NEW u \in First
      PROVE  u[1] # InitPid /\ \E v \in First : Child(u[1], v[1], t)
  <2>1. PICK v \in S : Under(u, v)
    BY <1>5
  <2>2. map[u].parent = v /\ map[v].start <= map[u].start
    BY <2>1 DEF Under, ValidateParent
  <2>3. v \in First
    BY <1>1, <1>3, <1>4, <2>2
  <2>4. v[1] = map[u].ppid
    BY <1>1, <2>2 DEF Linked
  <2>5. map[u].ppid # 0
    BY <1>1, <2>4, ProcessListAssumption
  <2> QED BY <1>1, <2>3, <2>4, <2>5 DEF KnownParents, Child
<1>6. P \in SUBSET (Pids \ {InitPid}) /\ P # {}
  BY <1>1, <1>4, <1>5
<1>7. PICK p \in P : \A q \in P : ~Child(p, q, t)
  BY <1>4, <1>6 DEF NoLoop
<1>8. PICK u \in First : p = u[1]
  BY <1>7
<1>9. PICK v \in First : Child(u[1], v[1], t)
  BY <1>5
<1> QED BY <1>7, <1>8, <1>9

\* Losing a child, and giving one to the process that adopts orphans, closes no
\* loop.
LEMMA LoopKept ==
  ASSUME NoLoop, \A p, q, t : Child(p, q, t)' => Child(p, q, t) \/ q = InitPid
  PROVE  NoLoop'
<1> SUFFICES ASSUME NEW t \in Times, NEW S \in SUBSET (Pids \ {InitPid}), S # {}
             PROVE  \E p \in S : \A q \in S : ~Child(p, q, t)'
  BY DEF NoLoop
<1>1. PICK p \in S : \A q \in S : ~Child(p, q, t)
  BY DEF NoLoop
<1> QED BY <1>1

LEMMA SpawnTree ==
  ASSUME Inv, KnownParents, NoLoop, NEW p \in Pids, NEW q \in Pids, NEW t \in Times,
         Spawn(p, q, t)
  PROVE  KnownParents' /\ NoLoop'
<1>1. /\ p \notin DOMAIN procs /\ q \in DOMAIN procs /\ p # q /\ p # 0
      /\ last[p] \in Nat /\ t \in Nat /\ t > last[p]
      /\ UNCHANGED map /\ last' = [last EXCEPT ![p] = t]
  BY ProcessListAssumption DEF Spawn, lists, Inv, MachineType, Times
<1>2. /\ DOMAIN procs' = DOMAIN procs \cup {p}
      /\ procs'[p].start = t /\ procs'[p].ppid = q
      /\ \A r \in DOMAIN procs : procs'[r] = procs[r]
  <2>1. procs' = [z \in DOMAIN procs \cup {p} |->
                    IF z = p THEN [start |-> t, ppid |-> q] ELSE procs[z]]
    BY DEF Spawn, With
  <2>2. procs'[p] = [start |-> t, ppid |-> q]
    BY <2>1
  <2> QED BY <1>1, <2>1, <2>2
<1>3. /\ \A u \in DOMAIN map : /\ map[u].start \in Nat /\ u[1] \in Pids
                               /\ map[u].ppid \in Pids \cup {0}
      /\ \A r \in Pids : last[r] \in Nat /\ last'[r] = IF r = p THEN t ELSE last[r]
  BY <1>1 DEF Inv, MapType, MachineType, UIDs, Process, Times
<1>4. \A r \in Pids : last[r] <= last'[r] /\ last'[r] \in Nat
  BY <1>1, <1>3
<1>5. KnownParents'
  <2>1. ASSUME NEW u \in DOMAIN map
        PROVE  /\ u[1] = InitPid => map[u].ppid = 0
               /\ map[u].start <= last'[u[1]]
               /\ map[u].ppid \in DOMAIN procs' \cup {0} \/ map[u].start <= last'[map[u].ppid]
    <3>1. map[u].start <= last[u[1]]
      BY DEF KnownParents
    <3>2. map[u].start <= last'[u[1]]
      BY <1>3, <1>4, <3>1
    <3>3. map[u].ppid \in DOMAIN procs \cup {0} \/ map[u].start <= last[map[u].ppid]
      BY DEF KnownParents
    <3>4. map[u].ppid \in DOMAIN procs' \cup {0} \/ map[u].start <= last'[map[u].ppid]
      BY <1>2, <1>3, <1>4, <3>3
    <3> QED BY <3>2, <3>4 DEF KnownParents
  <2>2. InitPid \in DOMAIN procs' /\ procs'[InitPid].ppid = 0
    BY <1>2 DEF KnownParents
  <2>3. \A r \in DOMAIN procs' : procs'[r].ppid \in DOMAIN procs' \cup {0}
    BY <1>1, <1>2 DEF KnownParents
  <2> QED BY <1>1, <2>1, <2>2, <2>3 DEF KnownParents
<1>6. \A a : ~Child(p, a, t) /\ ~Child(a, p, t)
  <2>1. ASSUME NEW u \in DOMAIN map, map[u].start = t
        PROVE  u[1] # p /\ map[u].ppid # p
    <3>1. map[u].start <= last[u[1]]
      BY DEF KnownParents
    <3>2. map[u].ppid \in DOMAIN procs \cup {0} \/ map[u].start <= last[map[u].ppid]
      BY DEF KnownParents
    <3> QED BY <1>1, <2>1, <3>1, <3>2
  <2>2. \A r \in DOMAIN procs : procs[r].ppid # p
    BY <1>1 DEF KnownParents
  <2> QED BY <1>1, <2>1, <2>2 DEF Child
<1>7. \A a, b, x : Child(a, b, x)' => Child(a, b, x) \/ (a = p /\ b = q /\ x = t)
  BY <1>1, <1>2 DEF Child
<1>8. ASSUME NEW x \in Times, NEW S \in SUBSET (Pids \ {InitPid}), S # {}
      PROVE  \E a \in S : \A b \in S : ~Child(a, b, x)'
  <2>1. CASE x # t \/ p \notin S
    <3>1. PICK a \in S : \A b \in S : ~Child(a, b, x)
      BY <1>8 DEF NoLoop
    <3> QED BY <1>7, <2>1, <3>1
  <2>2. CASE x = t /\ S = {p}
    <3>1. ~Child(p, p, x)'
      BY <1>1, <1>6, <1>7, <2>2
    <3> QED BY <2>2, <3>1
  <2>3. CASE x = t /\ S \ {p} # {}
    <3>1. PICK a \in S \ {p} : \A b \in S \ {p} : ~Child(a, b, x)
      BY <1>8, <2>3 DEF NoLoop
    <3>2. \A b \in S : ~Child(a, b, x)
      BY <1>6, <2>3, <3>1
    <3> QED BY <1>7, <3>1, <3>2
  <2> QED BY <1>8, <2>1, <2>2, <2>3
<1>9. NoLoop'
  BY <1>8 DEF NoLoop
<1> QED BY <1>5, <1>9

LEMMA ExitTree ==
  ASSUME Inv, KnownParents, NoLoop, NEW p \in Pids, Exit(p)
  PROVE  KnownParents' /\ NoLoop'
<1>1. /\ p \in DOMAIN procs /\ p # InitPid /\ p # 0 /\ UNCHANGED map
      /\ last' = [last EXCEPT ![p] = clock] /\ clock \in Nat
      /\ DOMAIN procs' = DOMAIN procs \ {p}
  BY ProcessListAssumption DEF Exit, lists, Inv, MachineType, Times
<1>2. ASSUME NEW r \in DOMAIN procs'
      PROVE  /\ procs'[r].start = procs[r].start
             /\ procs'[r].ppid = IF procs[r].ppid = p THEN InitPid ELSE procs[r].ppid
  <2>1. procs[r] \in Running
    BY <1>1 DEF Inv, MachineType
  <2>2. procs'[r] = IF procs[r].ppid = p THEN [procs[r] EXCEPT !.ppid = InitPid] ELSE procs[r]
    BY <1>1 DEF Exit
  <2> QED BY <2>1, <2>2 DEF Running
<1>3. /\ \A u \in DOMAIN map : /\ map[u].start \in Nat /\ u[1] \in Pids
                               /\ map[u].ppid \in Pids \cup {0}
      /\ \A r \in Pids : /\ last[r] \in Nat /\ last[r] <= clock
                         /\ last'[r] = IF r = p THEN clock ELSE last[r]
  BY <1>1 DEF Inv, MapType, MachineType, Seen, UIDs, Process, Times
<1>4. ASSUME NEW u \in DOMAIN map
      PROVE  /\ u[1] = InitPid => map[u].ppid = 0
             /\ map[u].start <= last'[u[1]]
             /\ map[u].ppid \in DOMAIN procs' \cup {0} \/ map[u].start <= last'[map[u].ppid]
  <2>1. map[u].start <= last[u[1]] /\ (u[1] = InitPid => map[u].ppid = 0)
    BY DEF KnownParents
  <2>2. map[u].start <= last'[u[1]] /\ map[u].start <= clock
    BY <1>1, <1>3, <2>1
  <2>3. map[u].ppid \in DOMAIN procs \cup {0} \/ map[u].start <= last[map[u].ppid]
    BY DEF KnownParents
  <2>4. map[u].ppid \in DOMAIN procs' \cup {0} \/ map[u].start <= last'[map[u].ppid]
    BY <1>1, <1>3, <2>2, <2>3
  <2> QED BY <2>1, <2>2, <2>4
<1>5. InitPid \in DOMAIN procs' /\ procs'[InitPid].ppid = 0
  BY <1>1, <1>2 DEF KnownParents
<1>6. \A r \in DOMAIN procs' : procs'[r].ppid \in DOMAIN procs' \cup {0}
  BY <1>1, <1>2, <1>5 DEF KnownParents
<1>7. KnownParents'
  BY <1>1, <1>4, <1>5, <1>6 DEF KnownParents
<1>8. \A a, b, x : Child(a, b, x)' => Child(a, b, x) \/ b = InitPid
  BY <1>1, <1>2 DEF Child
<1> QED BY <1>7, <1>8, LoopKept

\* An entry is made from what the machine knows.
LEMMA ListTree ==
  ASSUME Inv, KnownParents, NoLoop, Refresh \/ Tick \/ ClearPersistence
  PROVE  KnownParents' /\ NoLoop'
<1>1. UNCHANGED <<procs, last>>
  BY DEF Refresh, Enumerate, Purge, Keep, Add, AddVanished, Tick, ClearPersistence, machine
<1>2. ASSUME NEW u \in DOMAIN map'
      PROVE  \/ /\ u \in DOMAIN map
                /\ map'[u].start = map[u].start /\ map'[u].ppid = map[u].ppid
             \/ /\ u[1] \in DOMAIN procs
                /\ map'[u].start = procs[u[1]].start /\ map'[u].ppid = procs[u[1]].ppid
  <2>1. u \in DOMAIN map => map[u] \in Process
    BY DEF Inv, MapType
  <2>2. CASE Enumerate \/ \E p \in Pids : Keep(p)
    BY <1>2, <2>2 DEF Enumerate, Keep, lists
  <2>3. CASE \E p \in Pids : AddVanished(p)
    BY <1>2, <2>3 DEF AddVanished, Without
  <2>4. ASSUME NEW p \in Pids, Add(p)
        PROVE  \/ u \in DOMAIN map /\ map'[u] = map[u]
               \/ /\ u[1] \in DOMAIN procs
                  /\ map'[u].start = procs[u[1]].start /\ map'[u].ppid = procs[u[1]].ppid
    <3> DEFINE e == [start |-> procs[p].start, ppid |-> procs[p].ppid,
                     parent |-> Unresolved, mark |-> NotMarked]
    <3>1. /\ p \in DOMAIN procs
          /\ map' = [z \in DOMAIN map \cup {<<p, stats[p]>>} |->
                       IF z = <<p, stats[p]>> THEN e ELSE map[z]]
      BY <2>4 DEF Add, With
    <3>2. e.start = procs[p].start /\ e.ppid = procs[p].ppid
      OBVIOUS
    <3> HIDE DEF e
    <3>3. CASE u = <<p, stats[p]>>
      <4>1. map'[u] = e /\ u[1] = p
        BY <1>2, <3>1, <3>3
      <4> QED BY <3>1, <3>2, <4>1
    <3>4. CASE u # <<p, stats[p]>>
      BY <1>2, <3>1, <3>4
    <3> QED BY <3>3, <3>4
  <2>5. CASE Purge
    BY <1>2, <2>1, <2>5 DEF Purge, Process
  <2>6. CASE Tick
    BY <1>2, <2>1, <2>6 DEF Tick, Process
  <2>7. CASE ClearPersistence
    BY <1>2, <2>1, <2>7 DEF ClearPersistence, Process
  <2> QED BY <2>2, <2>3, <2>4, <2>5, <2>6, <2>7 DEF Refresh
<1>3. KnownParents'
  <2>1. ASSUME NEW u \in DOMAIN map'
        PROVE  /\ u[1] = InitPid => map'[u].ppid = 0
               /\ map'[u].start <= last[u[1]]
               /\ \/ map'[u].ppid \in DOMAIN procs \cup {0}
                  \/ map'[u].start <= last[map'[u].ppid]
    BY <1>2 DEF KnownParents, Inv, Seen
  <2> QED BY <1>1, <2>1 DEF KnownParents
<1>4. \A a, b, x : Child(a, b, x)' => Child(a, b, x) \/ b = InitPid
  BY <1>1, <1>2 DEF Child
<1> QED BY <1>3, <1>4, LoopKept

LEMMA TreeInit == Init => KnownParents /\ NoLoop
<1> SUFFICES ASSUME Init PROVE KnownParents /\ NoLoop
  OBVIOUS
<1>1. DOMAIN procs = {InitPid} /\ procs[InitPid] = [start |-> 1, ppid |-> 0] /\ DOMAIN map = {}
  BY DEF Init
<1>2. procs[InitPid].ppid = 0
  BY <1>1
<1>3. KnownParents
  BY <1>1, <1>2 DEF KnownParents
<1>4. \A p \in Pids \ {InitPid} : \A q, t : ~Child(p, q, t)
  BY <1>1 DEF Child
<1> QED BY <1>3, <1>4 DEF NoLoop

\* The links MakeProcPath follows never form a cycle, for any number of pids and
\* however often they are given out again: a parent is no younger than its child,
\* and among processes of one tick the machine itself knows no cycle.
THEOREM TreeIsATree == Spec => []TreeHasNoCycle
<1>1. Inv /\ (KnownParents /\ NoLoop) /\ [Next]_vars => (KnownParents /\ NoLoop)'
  <2> SUFFICES ASSUME Inv, KnownParents, NoLoop, [Next]_vars PROVE (KnownParents /\ NoLoop)'
    OBVIOUS
  <2>1. CASE UNCHANGED vars
    BY <2>1 DEF vars, KnownParents, NoLoop, Child
  <2> QED BY <2>1, SpawnTree, ExitTree, ListTree DEF Next, Machine
<1>2. Init => Linked
  BY DEF Init, Linked
<1> QED BY <1>1, <1>2, TreeInit, TreeFollows, LinkedStep, InvHolds, PTL DEF Spec
=============================================================================
