---------------------------- MODULE ProcessList ----------------------------
(***************************************************************************)
(* The list of processes CLinuxAPI keeps (UpdateProcessList and            *)
(* ClearPersistence in src/TaskExplorer/API/Linux/LinuxAPI.cpp) with what  *)
(* CAbstractInfoEx decides about entries whose process has ended.          *)
(*                                                                         *)
(* The list is two maps: m_ProcessMap by SProcessUID, a pid paired with a  *)
(* start time, which the tree draws, and m_ProcessByPID, by which parents  *)
(* are found.  The machine goes on while the collector's thread works:     *)
(* processes start, end and give their pids to others between the parts of *)
(* a refresh, and a refresh is therefore three kinds of step: the sweep    *)
(* over /proc, one step for every process found, and the end, which only   *)
(* works on the list.  Readers copy the maps under m_ProcessMutex.         *)
(*                                                                         *)
(* Start times are in clock ticks, so that a process and its child may     *)
(* share one.  A pid that became free is given out again after all others, *)
(* and so not within the tick in which its process ended.  The grouping of *)
(* kernel threads, the windows and what is shown of a process are left     *)
(* out: they neither add an entry nor remove one.                          *)
(***************************************************************************)
EXTENDS Integers, FiniteSets

CONSTANTS
  Pids,                   \* pids the machine gives out
  InitPid,                \* the process that never ends and adopts orphans
  PersistenceTime,        \* m_PersistenceTime, in ticks of GetCurTick
  EnableParentRetention,  \* Options/EnableParentRetention
  MaxTime                 \* bound on the start times of processes

ASSUME ProcessListAssumption ==
  /\ Pids \subseteq Nat \ {0} /\ InitPid \in Pids
  /\ PersistenceTime \in Nat /\ MaxTime \in Nat \ {0}
  /\ EnableParentRetention \in BOOLEAN

Times == 1..MaxTime
UIDs  == Pids \X Times

\* m_RemoveTimeStamp: 0 as in the code for "not marked", otherwise one more than
\* the time since then, up to Oldest, past which nothing changes any more.
NotMarked == 0
Marked    == 1
Oldest    == PersistenceTime + 2
Marks     == 0..Oldest

\* What CLinuxProcess holds of the process itself.  start is the one its own
\* read of /proc found, which need not be the one of the sweep; parent is
\* m_ParentProcessUId.
Process == [start : Times, ppid : Pids \cup {0},
            parent : (Pids \cup {0}) \X (Times \cup {0}), mark : Marks]
Unresolved == <<0, 0>>

VARIABLES
  procs,    \* the machine: running pids with start time and parent
  clock,    \* the machine: the latest start time
  last,     \* the machine: the tick in which each pid was last given out or freed
  map,      \* m_ProcessMap
  byPid,    \* m_ProcessByPID, as the keys of m_ProcessMap
  pc,       \* the collector's thread
  stats,    \* Stats: what the sweep read, for pids still to be looked at
  old       \* OldProcesses

machine == <<procs, clock, last>>
lists   == <<map, byPid>>
vars    == <<procs, clock, last, map, byPid, pc, stats, old>>

UID(p) == <<p, procs[p].start>>

Without(f, gone) == [x \in DOMAIN f \ gone |-> f[x]]
With(f, x, y)    == [z \in DOMAIN f \cup {x} |-> IF z = x THEN y ELSE f[z]]

Init ==
  /\ procs = [p \in {InitPid} |-> [start |-> 1, ppid |-> 0]]
  /\ clock = 1
  /\ last = [p \in Pids |-> IF p = InitPid THEN 1 ELSE 0]
  /\ map = [u \in {} |-> u] /\ byPid = [p \in {} |-> p]
  /\ pc = "idle" /\ stats = [p \in {} |-> p] /\ old = {}
-----------------------------------------------------------------------------
\* The machine.

Spawn(p, parent, time) ==
  /\ p \in Pids \ DOMAIN procs /\ parent \in DOMAIN procs
  /\ time \in {clock, clock + 1} \cap Times /\ time > last[p]
  /\ procs' = With(procs, p, [start |-> time, ppid |-> parent])
  /\ clock' = time
  /\ last' = [last EXCEPT ![p] = time]
  /\ UNCHANGED <<lists, pc, stats, old>>

\* The children of a process that ends get another parent.
Exit(p) ==
  /\ p \in DOMAIN procs \ {InitPid}
  /\ procs' = [q \in DOMAIN procs \ {p} |->
                 IF procs[q].ppid = p THEN [procs[q] EXCEPT !.ppid = InitPid] ELSE procs[q]]
  /\ last' = [last EXCEPT ![p] = clock]
  /\ UNCHANGED <<clock, lists, pc, stats, old>>

\* Time passes for the entries that are held.
Tick ==
  /\ \E u \in DOMAIN map : map[u].mark \in Marked..(Oldest - 1)
  /\ map' = [u \in DOMAIN map |->
               IF map[u].mark \in Marked..(Oldest - 1)
               THEN [map[u] EXCEPT !.mark = @ + 1] ELSE map[u]]
  /\ UNCHANGED <<machine, byPid, pc, stats, old>>
-----------------------------------------------------------------------------
\* CAbstractInfoEx and CLinuxProcess::ValidateParent.

\* Only the first refresh that misses a process marks its entry.
\* (Slip: every refresh marks it anew.)
MarkForRemoval_EveryTime(mark) == Marked
MarkForRemoval(mark) == IF mark = NotMarked THEN Marked ELSE mark

CanBeRemoved(e) == e.mark # NotMarked /\ e.mark - 1 > PersistenceTime

\* (Slip: start times are not compared.)
ValidateParent_AnyTime(child, childPid, parent, parentPid) == parentPid # childPid
ValidateParent(child, childPid, parent, parentPid) ==
  parentPid # childPid /\ parent.start <= child.start

\* CProcessModel::MakeProcPath: u is drawn below v.
Under(u, v) ==
  map[u].parent = v /\ v \in DOMAIN map /\ ValidateParent(map[u], u[1], map[v], v[1])
-----------------------------------------------------------------------------
\* UpdateProcessList.

\* The sweep: one ReadStat for every pid, and a copy of the map to cross the
\* running ones off.
Enumerate ==
  /\ pc = "idle"
  /\ pc' = "scan"
  /\ stats' = [p \in DOMAIN procs |-> procs[p].start]
  /\ old' = DOMAIN map
  /\ UNCHANGED <<machine, lists>>

\* The pid the loop is at: Stats is a QMap.
Current(p) == p \in DOMAIN stats /\ \A q \in DOMAIN stats : p <= q

\* An entry that is there is crossed off, whatever it is marked as.
Keep(p) ==
  /\ pc = "scan" /\ Current(p) /\ <<p, stats[p]>> \in old
  /\ old' = old \ {<<p, stats[p]>>}
  /\ stats' = Without(stats, {p})
  /\ UNCHANGED <<machine, lists, pc>>

\* A new one is put into both maps and then reads /proc again; by now the pid
\* may belong to another process.
Add(p) ==
  /\ pc = "scan" /\ Current(p) /\ <<p, stats[p]>> \notin old /\ p \in DOMAIN procs
  /\ map' = With(map, <<p, stats[p]>>,
                 [start |-> procs[p].start, ppid |-> procs[p].ppid,
                  parent |-> Unresolved, mark |-> NotMarked])
  /\ byPid' = With(byPid, p, <<p, stats[p]>>)
  /\ stats' = Without(stats, {p})
  /\ UNCHANGED <<machine, pc, old>>

\* (Slip: the half made entry stays.)
AddVanished_HalfMade(p) ==
  /\ pc = "scan" /\ Current(p) /\ <<p, stats[p]>> \notin old /\ p \notin DOMAIN procs
  /\ map' = With(map, <<p, stats[p]>>,
                 [start |-> 0, ppid |-> 0, parent |-> Unresolved, mark |-> NotMarked])
  /\ byPid' = With(byPid, p, <<p, stats[p]>>)
  /\ stats' = Without(stats, {p})
  /\ UNCHANGED <<machine, pc, old>>

\* (Slip: m_ProcessByPID keeps it.)
AddVanished_PidStays(p) ==
  /\ pc = "scan" /\ Current(p) /\ <<p, stats[p]>> \notin old /\ p \notin DOMAIN procs
  /\ map' = Without(map, {<<p, stats[p]>>})
  /\ byPid' = With(byPid, p, <<p, stats[p]>>)
  /\ stats' = Without(stats, {p})
  /\ UNCHANGED <<machine, pc, old>>

\* It has vanished meanwhile: out of both maps again.
AddVanished(p) ==
  /\ pc = "scan" /\ Current(p) /\ <<p, stats[p]>> \notin old /\ p \notin DOMAIN procs
  /\ map' = Without(map, {<<p, stats[p]>>})
  /\ byPid' = Without(byPid, {p})
  /\ stats' = Without(stats, {p})
  /\ UNCHANGED <<machine, pc, old>>

\* The second pass: the parent is the listed holder of the parent's pid, if it
\* can be the parent; otherwise a UID that stands for no process.
ParentOf(u) ==
  LET p == map[u].ppid IN
  IF p \in DOMAIN byPid /\ ValidateParent(map[u], u[1], map[byPid[p]], p)
  THEN <<p, map[byPid[p]].start>> ELSE <<p, map[u].start>>

\* ChildCount: the pids that are the parent of something listed by its pid.
Parents ==
  IF ~EnableParentRetention THEN {}
  ELSE {map[byPid[q]].ppid : q \in
          {r \in DOMAIN byPid :
             LET p == map[byPid[r]].ppid IN
             p \in DOMAIN byPid /\ ValidateParent(map[byPid[r]], r, map[byPid[p]], p)}}

\* (Slip: children or not.)
Purged_ChildrenOrNot == {u \in old \cap DOMAIN map : CanBeRemoved(map[u])}

\* What is left over has ended.  It goes, or is marked so that it goes later.
Purged == {u \in old \cap DOMAIN map : CanBeRemoved(map[u]) /\ u[1] \notin Parents}

\* The pids whose entry goes with them.
\* (Slip: by pid, without a look at whose entry it is.)
Erased_Unseen(gone) == {p \in DOMAIN byPid : \E u \in gone : u[1] = p}
Erased(gone) == {p \in DOMAIN byPid : byPid[p] \in gone}

Purge ==
  /\ pc = "scan" /\ DOMAIN stats = {}
  /\ pc' = "idle"
  /\ map' = [u \in DOMAIN map \ Purged |->
               [map[u] EXCEPT
                  !.parent = IF @ = Unresolved THEN ParentOf(u) ELSE @,
                  !.mark = IF u \in old THEN MarkForRemoval(@) ELSE @]]
  /\ byPid' = Without(byPid, Erased(Purged))
  /\ old' = {}
  /\ UNCHANGED <<machine, stats>>

\* (Slip: the time stamp is cleared.)
ClearPersistence_Unmarks ==
  /\ pc = "idle"
  /\ map' = [u \in DOMAIN map |-> [map[u] EXCEPT !.mark = NotMarked]]
  /\ UNCHANGED <<machine, byPid, pc, stats, old>>

\* ClearPersistence, for every entry that is found by its pid: due at the next
\* tick.
ClearPersistence ==
  /\ pc = "idle"
  /\ map' = [u \in DOMAIN map |->
               IF map[u].mark # NotMarked /\ (\E p \in DOMAIN byPid : byPid[p] = u)
               THEN [map[u] EXCEPT !.mark = PersistenceTime + 1] ELSE map[u]]
  /\ UNCHANGED <<machine, byPid, pc, stats, old>>
-----------------------------------------------------------------------------
Refresh == Enumerate \/ Purge \/ \E p \in Pids : Keep(p) \/ Add(p) \/ AddVanished(p)
Machine == \/ \E p, q \in Pids, t \in Times : Spawn(p, q, t)
           \/ \E p \in Pids : Exit(p)

Next == Refresh \/ Machine \/ Tick \/ ClearPersistence
Spec == Init /\ [][Next]_vars

\* The refresh timer of the window fires for ever, a refresh comes to its end,
\* and time passes.
FairSpec == Spec /\ WF_vars(Refresh) /\ WF_vars(Tick)
-----------------------------------------------------------------------------
\* The maps hold what their declarations in SystemAPI.h allow.
TypeOK ==
  /\ DOMAIN procs \subseteq Pids
  /\ procs \in [DOMAIN procs -> [start : Times, ppid : Pids \cup {0}]]
  /\ clock \in Times /\ last \in [Pids -> Times \cup {0}]
  /\ DOMAIN map \subseteq UIDs /\ map \in [DOMAIN map -> Process]
  /\ DOMAIN byPid \subseteq Pids /\ byPid \in [DOMAIN byPid -> UIDs]
  /\ pc \in {"idle", "scan"}
  /\ DOMAIN stats \subseteq Pids /\ stats \in [DOMAIN stats -> Times]
  /\ old \subseteq UIDs

\* A process that is running and listed is the one its pid leads to
\* (GetProcessByID), and is not shown as terminated: no refresh, however the
\* machine moves under it, takes a running process for the one that had its pid
\* before, or for one that has ended.
LiveIsShown ==
  \A p \in DOMAIN procs :
    UID(p) \in DOMAIN map =>
      /\ p \in DOMAIN byPid /\ byPid[p] = UID(p)
      /\ map[UID(p)].mark = NotMarked

\* What a pid leads to is an entry of the map with that pid: purging never
\* leaves a process behind that only m_ProcessByPID still knows.
PidsLeadToEntries ==
  \A p \in DOMAIN byPid : byPid[p] \in DOMAIN map /\ byPid[p][1] = p

\* The links the process tree follows (MakeProcPath calls itself along them)
\* form no cycle, although pids come round again, a process may share its start
\* time with its parent and the UID made up for a process without a parent may
\* turn out to be that of a listed one.
TreeHasNoCycle ==
  \A S \in SUBSET DOMAIN map : S # {} => \E u \in S : ~\E v \in S : Under(u, v)

\* No refresh takes a running process out of the list, and none shows a process
\* as running again that it has once shown as terminated, however often pids
\* come round while it works (the marks of CAbstractInfoEx, and OldProcesses,
\* which is a copy of a map that has changed by the time it is used).
Runs(u) == u[1] \in DOMAIN procs /\ UID(u[1]) = u
OnlyEndedLeave ==
  [][\A u \in DOMAIN map :
       /\ Runs(u) => u \in DOMAIN map'
       /\ map[u].mark # NotMarked /\ u \in DOMAIN map' => map'[u].mark # NotMarked]_vars

\* "Keep an exited process listed while it still has live children": an entry
\* is not removed while a running process is listed under it, unless its pid
\* has been given to another process.
HasLiveChild(u) == \E p \in DOMAIN procs : UID(p) \in DOMAIN map /\ Under(UID(p), u)
ParentKept ==
  [][EnableParentRetention =>
       \A u \in DOMAIN map \ DOMAIN map' :
         HasLiveChild(u) => u[1] \notin DOMAIN byPid \/ byPid[u[1]] # u]_vars

\* An entry whose process has ended leaves the list, unless something listed
\* has its pid as parent, or somebody clears the persistence without end.
Ended(u)  == u \in DOMAIN map /\ ~Runs(u)
Needed(u) == \E v \in DOMAIN map : map[v].ppid = u[1]
EndedLeaves ==
  <>[][~ClearPersistence]_vars =>
    \A u \in UIDs : Ended(u) ~> (u \notin DOMAIN map \/ Needed(u))
=============================================================================
