------------------------------ MODULE Cluster ------------------------------
(***************************************************************************)
(* CCluster (src/TaskExplorer/API/Cluster.{h,cpp}): the directory of       *)
(* machines the viewer is, or wants to be, connected to.                   *)
(*                                                                         *)
(* Two threads change it.  The GUI thread runs every user operation, the   *)
(* refresh timer and, one at a time, the slots of signals the systems emit *)
(* from threads of their own; the worker thread of ConnectSavedTargets     *)
(* runs Connect for the machines that were saved.  m_Mutex is released     *)
(* between the parts of an operation, so an action is one locked region    *)
(* together with what follows it up to the next one, and "call" holds the  *)
(* point each thread is at.  StoreTargets holds the lock for reading, so   *)
(* that both threads can be in it at once, and is two: its beginning, and  *)
(* what CXml::Write has done to the file by its end.                       *)
(*                                                                         *)
(* The systems themselves (CRemoteSystem) live in a module that is not in  *)
(* the repository; what is said of them here is what IRemoteSystem and the *)
(* signals of CSystemAPI promise.                                          *)
(***************************************************************************)
EXTENDS Integers, Sequences, FiniteSets

CONSTANTS
  UserNames,      \* names a person types for a machine (case folded)
  Addresses,      \* pipe names and host:port addresses
  Hosts,          \* host names an announcement may claim
  MachineIds,     \* the ids machines answer with
  Systems,        \* handles of CRemoteSystem objects
  Local,          \* theSystem
  NoSystem,       \* a null CSystemPtr
  NoId,           \* an empty MachineId
  NoHost,         \* an empty HostName
  DaemonName,     \* tr("Local daemon")
  DaemonAddress,  \* GetLocalEndpoint()
  SavedList,      \* what Targets.xml holds when the viewer starts
  Keys,           \* names the credential store has a key for
  Announced,      \* announcements discovery may receive
  NewNames,       \* names the edit dialog may give a machine
  Clicks,         \* pointers a row of the tree or of the machine box may hold
  MayRefuse,      \* whether CRemoteLoader::Create may return null
  MayDropEarly,   \* whether a link may die before its signals are connected
  Interval,       \* ReconnectInterval, in refreshes
  MaxRows,        \* bound on the rows of the list
  MaxEvents       \* bound on the signals queued to the GUI thread

eSaved      == "eSaved"
eConnecting == "eConnecting"
eConnected  == "eConnected"
eFailed     == "eFailed"
eLost       == "eLost"
eDiscovered == "eDiscovered"
States == {eSaved, eConnecting, eConnected, eFailed, eLost, eDiscovered}

eRequireSaved == "eRequireSaved"
eAcceptNew    == "eAcceptNew"

Errors == {"TE_Unreachable", "TE_MachineIdMismatch"}
NoError == "0"

Ids   == MachineIds \cup {NoId}
Names == UserNames \cup NewNames \cup {DaemonName} \cup Addresses
           \cup (Hosts \X Addresses)

SavedEntry == [Name : Names, Address : Addresses, MachineId : Ids]

\* STarget.  LastRetry is kept as the refreshes left before another attempt is
\* due: 0 stands for "none yet" and for an attempt that is an Interval old,
\* which RetryLostNodes does not tell apart.
STarget == [Name : Names, Address : Addresses, MachineId : Ids, State : States,
            LastError : Errors \cup {NoError}, pSystem : Systems \cup {NoSystem},
            LastRetry : 0..Interval, bLocalDaemon : BOOLEAN]

Rows    == 1..MaxRows
Threads == {"gui", "worker"}
Events  == {"ConnectionLost", "Reconnected", "ReconnectRefused"} \X Systems

\* A thread's place in an operation: at "store" it is about to run
\* StoreTargets, at "write" it is inside, and goes on at "next".
PCs  == {"idle", "store", "write", "check", "expect", "dial", "commit", "mark", "forget",
         "remove", "ask"}
Call == [pc : PCs, next : {"idle", "check", "mark"}, name : Names,
         address : Addresses, identity : {eRequireSaved, eAcceptNew},
         takeView : BOOLEAN, daemon : BOOLEAN, expected : Ids,
         status : Errors \cup {NoError}, new : Systems \cup {NoSystem}]

Links == {"closed", "up", "down"}

ASSUME ClusterAssumption ==
  /\ NoSystem \notin Systems /\ Local \notin Systems /\ Local # NoSystem
  /\ DaemonAddress \in Addresses
  /\ MaxRows \in Nat /\ MaxEvents \in Nat /\ Interval \in Nat \ {0}
  /\ SavedList \in Seq(SavedEntry) /\ Len(SavedList) <= MaxRows
  /\ Announced \subseteq
       [Address : Addresses, HostName : Hosts \cup {NoHost}, MachineId : Ids]
  /\ Clicks \subseteq Systems \cup {Local}
  /\ MayRefuse \in BOOLEAN /\ MayDropEarly \in BOOLEAN

VARIABLES
  targets,      \* m_Targets: the rows in use, in the order of their numbers
  nodes,        \* m_Nodes
  viewSystem,   \* m_ViewSystem, NoSystem for the local machine
  graphSystem,  \* m_GraphSystem, the same
  clusterMode,  \* m_bClusterMode
  discovering,  \* m_pDiscovery # NULL
  file,         \* the entries Targets.xml holds; none when it is not there
  call,         \* where each thread is
  work,         \* what the worker has left: Names and Work
  phase,        \* how far the window's start has come
  link,         \* the connection of each system object
  machine,      \* the id the far side of each system answered with
  expects,      \* SetExpectedMachineId of each system
  heard,        \* systems whose signals are connected to the cluster
  events,       \* signals queued to the GUI thread
  posted,       \* systems a TryReconnect is queued for
  \* what has happened, for the properties
  overlap,      \* the last StoreTargets to begin did so inside another
  stranded      \* rows that were "connecting" when Create refused a Connect of
                \* them, or they were renamed under one, and not put there anew

list  == <<targets, nodes, viewSystem, graphSystem>>
disk  == <<file, overlap>>
world == <<link, machine, expects, heard, events, posted>>
vars  == <<targets, nodes, viewSystem, graphSystem, clusterMode, discovering,
           file, call, work, phase, link, machine, expects, heard, events,
           posted, overlap, stranded>>
-----------------------------------------------------------------------------
\* The row operators work on.

NewTarget(e) ==
  [Name |-> e.Name, Address |-> e.Address, MachineId |-> e.MachineId,
   State |-> eSaved, LastError |-> NoError, pSystem |-> NoSystem,
   LastRetry |-> 0, bLocalDaemon |-> FALSE]

\* FindTarget: the first row of that name; 0 when there is none.
Named(n) == {r \in DOMAIN targets : targets[r].Name = n}
FindTarget(n) ==
  IF Named(n) = {} THEN 0
  ELSE CHOOSE r \in Named(n) : \A q \in Named(n) : r <= q

\* The row a system is the connection of; 0 when there is none.
RowsOf(s) == {r \in DOMAIN targets : targets[r].pSystem = s}
RowOf(s)  ==
  IF RowsOf(s) = {} THEN 0
  ELSE CHOOSE r \in RowsOf(s) : \A q \in RowsOf(s) : r <= q

Put(r, t)  == [q \in DOMAIN targets \cup {r} |-> IF q = r THEN t ELSE targets[q]]
Drop(gone) == [q \in DOMAIN targets \ gone |-> targets[q]]

\* The number an appended row gets, and whether there is room for it.
NextRow == IF DOMAIN targets = {} THEN 1
           ELSE 1 + (CHOOSE r \in DOMAIN targets : \A q \in DOMAIN targets : q <= r)
HasRoom == NextRow \in Rows

\* StoreTargets: what goes into the file.
Stored ==
  {[Name |-> targets[r].Name, Address |-> targets[r].Address,
    MachineId |-> targets[r].MachineId] :
     r \in {q \in DOMAIN targets : /\ targets[q].State # eDiscovered
                                   /\ ~targets[q].bLocalDaemon}}

\* System objects nobody holds any more, and whether one can be made for every
\* call under way (a bound of the model: Systems is finite).
Unused == {s \in Systems : /\ link[s] = "closed" /\ s \notin posted
                           /\ \A i \in 1..Len(events) : events[i][2] # s}
CanCreate(t) ==
  Cardinality(Unused)
    > Cardinality({u \in Threads \ {t} : call[u].pc \notin {"idle", "commit"}})

NoCall == [pc |-> "idle", next |-> "idle", name |-> DaemonName,
           address |-> DaemonAddress, identity |-> eRequireSaved,
           takeView |-> FALSE, daemon |-> FALSE, expected |-> NoId,
           status |-> NoError, new |-> NoSystem]

\* A row is left "connecting", with nothing on its way that could settle it.
Strand(r) == IF r # 0 /\ targets[r].State = eConnecting THEN stranded \cup {r} ELSE stranded

\* The operation of c ends with StoreTargets.  (Slip: it does not.)
ThenStore_Not(c) == NoCall
ThenStore(c) == [c EXCEPT !.pc = "store", !.next = "idle"]

\* The thread's operation is over; what CRemoteLoader::Destroy or Disconnect
\* leave of a system object.
Done(t)  == call' = [call EXCEPT ![t] = NoCall]
Close(s) ==
  /\ link' = [link EXCEPT ![s] = "closed"]
  /\ machine' = [machine EXCEPT ![s] = NoId]
  /\ expects' = [expects EXCEPT ![s] = NoId]
  /\ heard' = heard \ {s}
-----------------------------------------------------------------------------
\* The constructor and LoadTargets, which EnsureCluster calls one after the
\* other before anything else can reach the object.
Init ==
  /\ targets = [r \in 1..Len(SavedList) |-> NewTarget(SavedList[r])]
  /\ nodes = {Local}
  /\ viewSystem = NoSystem /\ graphSystem = NoSystem
  /\ clusterMode \in BOOLEAN
  /\ discovering = FALSE
  /\ file = {SavedList[r] : r \in 1..Len(SavedList)}
  /\ call = [t \in Threads |-> NoCall]
  /\ work = {} /\ phase = "new"
  /\ link = [s \in Systems |-> "closed"]
  /\ machine = [s \in Systems |-> NoId] /\ expects = [s \in Systems |-> NoId]
  /\ heard = {} /\ events = <<>> /\ posted = {}
  /\ overlap = FALSE /\ stranded = {}

\* m_Mutex can be had for writing: no thread holds it for reading beyond a step.
Unlocked == \A t \in Threads : call[t].pc # "write"

\* A user operation starts only while the GUI thread is not inside another
\* one.  A slot or a timer also runs under the question of a message box.
GuiIdle == phase = "running" /\ call["gui"].pc = "idle"
GuiLoop == phase = "running" /\ call["gui"].pc \in {"idle", "ask"}

\* ConnectSavedTargets: the saved machines there is a key for, handed to the
\* worker.  A locked store offers no key at all.  The order in which the worker
\* takes them is left open.
Pending == {r \in DOMAIN targets :
              /\ targets[r].State = eSaved /\ targets[r].pSystem = NoSystem
              /\ ~targets[r].bLocalDaemon /\ targets[r].Name \in Keys}

ConnectSavedTargets ==
  /\ phase = "new"
  /\ phase' = "loaded"
  /\ \/ work' = {}
     \/ work' = {[name |-> targets[r].Name, address |-> targets[r].Address] : r \in Pending}
  /\ UNCHANGED <<list, clusterMode, discovering, disk, stranded, call, world>>
-----------------------------------------------------------------------------
\* Connect, step by step.

\* AddTarget, up to its StoreTargets: a known name has its address corrected,
\* an unknown one gets a row.  Nothing is stored when nothing changed.  c is the
\* call it is made for.
AddTarget(t, c) ==
  LET r == FindTarget(c.name) IN
  \/ /\ r # 0 /\ targets[r].Address = c.address
     /\ UNCHANGED targets
     /\ call' = [call EXCEPT ![t] = [c EXCEPT !.pc = "check"]]
  \/ /\ r # 0 /\ targets[r].Address # c.address
     /\ targets' = Put(r, [targets[r] EXCEPT !.Address = c.address])
     /\ call' = [call EXCEPT ![t] = [c EXCEPT !.pc = "store", !.next = "check"]]
  \/ /\ r = 0 /\ HasRoom
     /\ targets' = Put(NextRow, NewTarget([Name |-> c.name, Address |-> c.address,
                                           MachineId |-> NoId]))
     /\ call' = [call EXCEPT ![t] = [c EXCEPT !.pc = "store", !.next = "check"]]

BeginConnect(t, c) ==
  /\ CanCreate(t) /\ Unlocked
  /\ AddTarget(t, c)
  /\ UNCHANGED <<nodes, viewSystem, graphSystem, clusterMode, discovering, disk,
                 stranded, world>>

\* The connect dialog.  The name is typed, or picked from the list.
ConnectByUser(n, a) ==
  /\ GuiIdle
  /\ BeginConnect("gui", [NoCall EXCEPT !.name = n, !.address = a, !.takeView = TRUE])
  /\ UNCHANGED <<work, phase>>

\* The answer to "accept this machine under that name?": a second Connect, or
\* back to the dialog.
AcceptNew ==
  /\ call["gui"].pc = "ask"
  /\ BeginConnect("gui", [NoCall EXCEPT !.name = call["gui"].name,
                                        !.address = call["gui"].address,
                                        !.identity = eAcceptNew, !.takeView = TRUE])
  /\ UNCHANGED <<work, phase>>

DeclineNew ==
  /\ call["gui"].pc = "ask"
  /\ Done("gui")
  /\ UNCHANGED <<list, clusterMode, discovering, disk, stranded, work, phase,
                 world>>

\* ConnectLocalDaemon: without the machine layer, the window looks for this
\* machine's own daemon once, as it starts, and connects to it when it is there.
ConnectLocalDaemon ==
  /\ phase = "loaded" /\ ~clusterMode
  /\ BeginConnect("gui", [NoCall EXCEPT !.takeView = TRUE, !.daemon = TRUE])
  /\ phase' = "running"
  /\ UNCHANGED work

NoLocalDaemon ==
  /\ phase = "loaded"
  /\ phase' = "running"
  /\ UNCHANGED <<list, clusterMode, discovering, disk, stranded, call, work,
                 world>>

\* The next machine of the run ConnectSavedTargets started.
ConnectByWorker(w) ==
  /\ call["worker"].pc = "idle" /\ w \in work
  /\ BeginConnect("worker", [NoCall EXCEPT !.name = w.name, !.address = w.address])
  /\ work' = work \ {w}
  /\ UNCHANGED phase

\* StoreTargets: the lock is taken for reading, and CXml::Write begins.
StoreTargets(t) ==
  /\ call[t].pc = "store"
  /\ call' = [call EXCEPT ![t].pc = "write"]
  /\ overlap' = ~Unlocked
  /\ UNCHANGED <<list, clusterMode, discovering, file, stranded, work, phase, world>>

\* What CXml::Write leaves, and the unlock.  Two threads that are in it at once
\* have the same list to write, and leave it or, one having moved away the file
\* of the other, none (XmlStore).
Written(t) ==
  /\ call[t].pc = "write"
  /\ \/ file' = Stored
     \/ overlap /\ file' = {}
  /\ IF call[t].next = "idle" THEN Done(t)
     ELSE call' = [call EXCEPT ![t].pc = call[t].next, ![t].next = "idle"]
  /\ UNCHANGED <<list, clusterMode, discovering, overlap, stranded, work, phase, world>>

\* How Connect returns: ConnectLocalDaemon marks the row it got, or takes back
\* the one that failed; the window asks about a machine that is not the one.
ReturnSystem(t, c) == IF c.daemon THEN [c EXCEPT !.pc = "mark"] ELSE NoCall
ReturnNull(t, c) ==
  CASE c.daemon -> [c EXCEPT !.pc = "forget", !.new = NoSystem]
    [] t = "gui" /\ ~c.daemon /\ c.status = "TE_MachineIdMismatch" ->
         [NoCall EXCEPT !.pc = "ask", !.name = c.name, !.address = c.address]
    [] OTHER -> NoCall

\* Already up, or on its way.  (Slip: the connection is not looked for.)
IsUp_Never(r) == r \notin DOMAIN targets
IsUp(r) == targets[r].pSystem # NoSystem

CheckUp(t) ==
  LET r == FindTarget(call[t].name) IN
  /\ call[t].pc = "check" /\ Unlocked
  /\ \/ /\ r # 0 /\ IsUp(r)
        /\ call' = [call EXCEPT ![t] = ReturnSystem(t, call[t])]
        /\ UNCHANGED <<targets, stranded>>
     \/ /\ r # 0 /\ ~IsUp(r)
        /\ targets' = Put(r, [targets[r] EXCEPT !.State = eConnecting])
        /\ call' = [call EXCEPT ![t].pc = "expect"]
        /\ stranded' = stranded \ {r}
     \/ /\ r = 0
        /\ call' = [call EXCEPT ![t].pc = "expect"]
        /\ UNCHANGED <<targets, stranded>>
  /\ UNCHANGED <<nodes, viewSystem, graphSystem, clusterMode, discovering, disk,
                 work, phase, world>>

\* The id the entry has been answering to, where that is required.
ReadExpected(t) ==
  LET r == FindTarget(call[t].name) IN
  /\ call[t].pc = "expect"
  /\ call' = [call EXCEPT ![t].pc = "dial", ![t].expected =
                IF call[t].identity = eRequireSaved /\ r # 0
                THEN targets[r].MachineId ELSE NoId]
  /\ UNCHANGED <<list, clusterMode, discovering, disk, stranded, work, phase,
                 world>>

\* CRemoteLoader::Create answers null: no module, or no certificate.
CreateRefused(t) ==
  /\ call[t].pc = "dial" /\ MayRefuse
  /\ call' = [call EXCEPT ![t] = ReturnNull(t, call[t])]
  /\ stranded' = Strand(FindTarget(call[t].name))
  /\ UNCHANGED <<list, clusterMode, discovering, disk, work, phase, world>>

\* IRemoteSystem::Connect: nothing answers within the timeout; something
\* answers and is not the machine expected; the machine answers.
HandshakeFails(t) ==
  /\ call[t].pc = "dial"
  /\ \E e \in Errors :
       /\ e = "TE_MachineIdMismatch" => call[t].expected # NoId
       /\ call' = [call EXCEPT ![t].pc = "commit", ![t].status = e]
  /\ UNCHANGED <<list, clusterMode, discovering, disk, stranded, work, phase,
                 world>>

Handshake(t, m) ==
  /\ call[t].pc = "dial"
  /\ call[t].expected \in {NoId, m}
  /\ Unused # {}
  /\ LET s == CHOOSE x \in Unused : TRUE IN
       /\ link' = [link EXCEPT ![s] = "up"]
       /\ machine' = [machine EXCEPT ![s] = m]
       /\ expects' = [expects EXCEPT ![s] = call[t].expected]
       /\ call' = [call EXCEPT ![t].pc = "commit", ![t].new = s]
  /\ UNCHANGED <<list, clusterMode, discovering, disk, stranded, work, phase,
                 heard, events, posted>>

\* What the answer does to the list.  The row is looked up again: it may have
\* gone, and it may not be the row the call began with.
CommitGone(t) ==
  /\ call[t].pc = "commit" /\ Unlocked /\ FindTarget(call[t].name) = 0
  /\ IF call[t].new = NoSystem THEN UNCHANGED <<link, machine, expects, heard>>
     ELSE Close(call[t].new)
  /\ call' = [call EXCEPT ![t] = ReturnNull(t, call[t])]
  /\ UNCHANGED <<list, clusterMode, discovering, disk, stranded, work, phase,
                 events, posted>>

\* (Slip: the error is recorded and the state is not.)
Failed_StateKept(r, e) == [targets[r] EXCEPT !.LastError = e]
Failed(r, e) == [targets[r] EXCEPT !.State = eFailed, !.LastError = e]

CommitFailed(t) ==
  LET r == FindTarget(call[t].name) IN
  /\ call[t].pc = "commit" /\ Unlocked /\ r # 0 /\ call[t].new = NoSystem
  /\ targets' = Put(r, Failed(r, call[t].status))
  /\ call' = [call EXCEPT ![t] = ReturnNull(t, call[t])]
  /\ UNCHANGED <<nodes, viewSystem, graphSystem, clusterMode, discovering, disk,
                 stranded, work, phase, world>>

\* The three connect() calls, and the id a reconnection has to answer with.
\* (Slips: no signal is connected; the id is the one of this attempt.)
Listen_None(s) == UNCHANGED heard
Listen(s) == heard' = heard \cup {s}
Require_Attempt(s) == UNCHANGED expects
Require(s) == expects' = [expects EXCEPT ![s] = machine[s]]

CommitConnected(t) ==
  LET r == FindTarget(call[t].name)
      s == call[t].new
  IN
  /\ call[t].pc = "commit" /\ Unlocked /\ r # 0 /\ s # NoSystem
  /\ targets' = Put(r, [targets[r] EXCEPT !.State = eConnected, !.LastError = NoError,
                                          !.pSystem = s, !.MachineId = machine[s]])
  /\ Listen(s) /\ Require(s)
  /\ nodes' = nodes \cup {s}
  /\ viewSystem' = IF ~clusterMode /\ call[t].takeView THEN s ELSE viewSystem
  /\ call' = [call EXCEPT ![t].pc = "store", ![t].new = NoSystem,
                          ![t].next = IF call[t].daemon THEN "mark" ELSE "idle"]
  /\ UNCHANGED <<graphSystem, clusterMode, discovering, disk, stranded, work,
                 phase, link, machine, events, posted>>

\* The end of ConnectLocalDaemon: the row becomes one that is not written down.
\* (Slip: it does not.)
Mark_Not(r) == targets
Mark(r) == Put(r, [targets[r] EXCEPT !.bLocalDaemon = TRUE])

MarkDaemon(t) ==
  LET r == FindTarget(call[t].name) IN
  /\ call[t].pc = "mark" /\ Unlocked
  /\ targets' = IF r = 0 THEN targets ELSE Mark(r)
  /\ call' = [call EXCEPT ![t] = ThenStore(call[t])]
  /\ UNCHANGED <<nodes, viewSystem, graphSystem, clusterMode, discovering, disk,
                 stranded, work, phase, world>>
-----------------------------------------------------------------------------
\* The other operations of the GUI thread.

\* Neither the panels nor the graphs go on showing a machine that goes.  (Slip:
\* they do.)
Unselect_Not(selected, s) == selected
Unselect(selected, s) == IF selected = s THEN NoSystem ELSE selected

\* Disconnect, in its locked region.
DisconnectName(n) ==
  LET r == FindTarget(n) IN
  IF r = 0 \/ targets[r].pSystem = NoSystem
  THEN UNCHANGED <<list, link, machine, expects, heard>>
  ELSE LET s == targets[r].pSystem IN
       /\ targets' = Put(r, [targets[r] EXCEPT !.pSystem = NoSystem, !.State = eSaved])
       /\ nodes' = nodes \ {s}
       /\ viewSystem' = Unselect(viewSystem, s)
       /\ graphSystem' = Unselect(graphSystem, s)
       /\ Close(s)

\* The menus offer the machines that have a connection.
Disconnect(r) ==
  /\ GuiIdle /\ Unlocked /\ r \in DOMAIN targets /\ targets[r].pSystem # NoSystem
  /\ DisconnectName(targets[r].Name)
  /\ UNCHANGED <<clusterMode, discovering, disk, stranded, call, work, phase,
                 events, posted>>

\* RemoveTarget: Disconnect, then the row, then the file.
RemoveTarget(r) ==
  /\ GuiIdle /\ Unlocked /\ r \in DOMAIN targets
  /\ DisconnectName(targets[r].Name)
  /\ call' = [call EXCEPT !["gui"] = [NoCall EXCEPT !.pc = "remove", !.name = targets[r].Name]]
  /\ UNCHANGED <<clusterMode, discovering, disk, stranded, work, phase, events,
                 posted>>

\* The same for the row of a local daemon that could not be used.
ForgetDaemon(t) ==
  /\ call[t].pc = "forget" /\ Unlocked
  /\ DisconnectName(call[t].name)
  /\ call' = [call EXCEPT ![t] = [NoCall EXCEPT !.pc = "remove", !.name = call[t].name]]
  /\ UNCHANGED <<clusterMode, discovering, disk, stranded, work, phase, events,
                 posted>>

RemoveRow(t) ==
  LET r == FindTarget(call[t].name) IN
  /\ call[t].pc = "remove" /\ Unlocked
  /\ IF r = 0 THEN /\ UNCHANGED targets
                   /\ Done(t)
     ELSE /\ targets' = Drop({r})
          /\ call' = [call EXCEPT ![t] = ThenStore(call[t])]
  /\ UNCHANGED <<nodes, viewSystem, graphSystem, clusterMode, discovering, disk,
                 stranded, work, phase, world>>

\* UpdateTarget, where it succeeds.
UpdateTarget(r, n, a) ==
  /\ GuiIdle /\ Unlocked /\ r \in DOMAIN targets /\ r = FindTarget(targets[r].Name)
  /\ n # targets[r].Name => Named(n) = {}
  /\ targets' = Put(r, [targets[r] EXCEPT !.Name = n, !.Address = a,
                          !.State = IF @ = eDiscovered THEN eSaved ELSE @])
  /\ call' = [call EXCEPT !["gui"] = ThenStore(NoCall)]
  /\ stranded' = IF n # targets[r].Name THEN Strand(r) ELSE stranded
  /\ UNCHANGED <<nodes, viewSystem, graphSystem, clusterMode, discovering, disk,
                 work, phase, world>>

StartDiscovery ==
  /\ GuiIdle /\ ~discovering /\ Announced # {}
  /\ discovering' = TRUE
  /\ UNCHANGED <<list, clusterMode, disk, stranded, call, work, phase, world>>

\* The suggestions go with the listener.
StopDiscovery ==
  /\ GuiIdle /\ Unlocked /\ discovering
  /\ discovering' = FALSE
  /\ targets' = Drop({r \in DOMAIN targets : targets[r].State = eDiscovered})
  /\ UNCHANGED <<nodes, viewSystem, graphSystem, clusterMode, disk, stranded,
                 call, work, phase, world>>

\* OnDiscovered: named for its address, or for its host name with the address
\* in view, unless the machine is known by its id or its address.
Label(a) == IF a.HostName = NoHost THEN a.Address ELSE <<a.HostName, a.Address>>

OnDiscovered(a) ==
  /\ GuiLoop /\ Unlocked /\ discovering /\ HasRoom
  /\ \A r \in DOMAIN targets :
       /\ a.MachineId # NoId => targets[r].MachineId # a.MachineId
       /\ targets[r].Address # a.Address
  /\ targets' = Put(NextRow, [NewTarget([Name |-> Label(a), Address |-> a.Address,
                                         MachineId |-> a.MachineId])
                                EXCEPT !.State = eDiscovered])
  /\ UNCHANGED <<nodes, viewSystem, graphSystem, clusterMode, discovering, disk,
                 stranded, call, work, phase, world>>

\* What SetViewSystem and SetGraphSystem make of a pointer: one that is not a
\* node, and the local machine, are both stored as null.  (Slip: the local machine
\* is stored as itself.)
Resolve_Kept(s) == IF s \in nodes THEN s ELSE NoSystem
Resolve(s) == IF s \in nodes \ {Local} THEN s ELSE NoSystem

SetViewSystem(s) ==
  /\ GuiIdle /\ Unlocked
  /\ viewSystem' = Resolve(s)
  /\ UNCHANGED <<targets, nodes, graphSystem, clusterMode, discovering, disk,
                 stranded, call, work, phase, world>>

\* The machine box, which is the graphs' own with the machine layer on.
SetGraphSystem(s) ==
  /\ GuiIdle /\ Unlocked /\ clusterMode
  /\ graphSystem' = Resolve(s)
  /\ UNCHANGED <<targets, nodes, viewSystem, clusterMode, discovering, disk,
                 stranded, call, work, phase, world>>

SetClusterMode ==
  /\ GuiIdle /\ Unlocked
  /\ graphSystem' = IF clusterMode THEN NoSystem ELSE viewSystem
  /\ clusterMode' = ~clusterMode
  /\ UNCHANGED <<targets, nodes, viewSystem, discovering, disk, stranded, call,
                 work, phase, world>>

\* GetViewSystem and GetActiveSystem.
GetViewSystem   == IF viewSystem = NoSystem THEN Local ELSE viewSystem
GetActiveSystem == IF ~clusterMode THEN GetViewSystem
                   ELSE IF graphSystem = NoSystem THEN Local ELSE graphSystem
-----------------------------------------------------------------------------
\* Losing a connection and getting it back.

Emit(e, s) == events' = Append(events, <<e, s>>)

\* The far side goes away; ConnectionLost reaches whoever is listening.
LinkLost(s) ==
  /\ link[s] = "up"
  /\ link' = [link EXCEPT ![s] = "down"]
  /\ \/ /\ s \in heard /\ Len(events) < MaxEvents
        /\ Emit("ConnectionLost", s)
     \/ /\ s \notin heard /\ MayDropEarly
        /\ UNCHANGED events
  /\ UNCHANGED <<list, clusterMode, discovering, disk, stranded, call, work,
                 phase, machine, expects, heard, posted>>

\* RetryLostNodes, from the refresh timer: one attempt posted, and stamped, for
\* every lost machine whose last one is an Interval old.  (Slip: every lost
\* machine is stamped.)
Due == {r \in DOMAIN targets : /\ targets[r].State = eLost
                               /\ targets[r].pSystem # NoSystem
                               /\ targets[r].LastRetry = 0}
Stamp_Lost(r) == targets[r].State = eLost /\ targets[r].pSystem # NoSystem
Stamp(r) == r \in Due

RetryLostNodes ==
  /\ GuiLoop /\ Unlocked /\ \E r \in DOMAIN targets : Stamp(r)
  /\ targets' = [r \in DOMAIN targets |->
                   IF Stamp(r) THEN [targets[r] EXCEPT !.LastRetry = Interval]
                   ELSE targets[r]]
  /\ posted' = posted \cup {targets[r].pSystem : r \in Due}
  /\ UNCHANGED <<nodes, viewSystem, graphSystem, clusterMode, discovering, disk,
                 stranded, call, work, phase, link, machine, expects, heard,
                 events>>

\* Time passes, for every row alike.
Later(n) == IF n > 0 THEN n - 1 ELSE 0

Tick ==
  /\ \E r \in DOMAIN targets : targets[r].LastRetry > 0
  /\ targets' = [r \in DOMAIN targets |->
                   [targets[r] EXCEPT !.LastRetry = Later(@)]]
  /\ UNCHANGED <<nodes, viewSystem, graphSystem, clusterMode, discovering, disk,
                 stranded, call, work, phase, world>>

\* TryReconnect, in the system's own thread: nothing to do, or nothing answers;
\* the machine answers; what answers is not the machine.
TryReconnectInVain(s) ==
  /\ s \in posted
  /\ posted' = posted \ {s}
  /\ UNCHANGED <<list, clusterMode, discovering, disk, stranded, call, work,
                 phase, link, machine, expects, heard, events>>

TryReconnectAnswered(s, m) ==
  /\ s \in posted /\ link[s] = "down" /\ Len(events) < MaxEvents
  /\ posted' = posted \ {s}
  /\ IF expects[s] \in {NoId, m}
     THEN /\ link' = [link EXCEPT ![s] = "up"]
          /\ machine' = [machine EXCEPT ![s] = m]
          /\ Emit("Reconnected", s)
     ELSE /\ UNCHANGED <<link, machine>>
          /\ Emit("ReconnectRefused", s)
  /\ UNCHANGED <<list, clusterMode, discovering, disk, stranded, call, work,
                 phase, expects, heard>>

\* The slots.  sender() finds its row by the pointer, and there may be none.
OnConnectionLost(s) ==
  LET r == RowOf(s) IN
  IF r = 0 \/ targets[r].State = eLost THEN UNCHANGED targets
  ELSE targets' = Put(r, [targets[r] EXCEPT !.State = eLost])

\* (Slip: only the retry is reset.)
Back_StateKept(r) == [targets[r] EXCEPT !.LastRetry = 0]
Back(r) == [targets[r] EXCEPT !.State = eConnected, !.LastRetry = 0]

OnReconnected(s) ==
  LET r == RowOf(s) IN
  IF r = 0 THEN UNCHANGED targets
  ELSE targets' = Put(r, Back(r))

OnReconnectRefused(s) ==
  LET r == RowOf(s) IN
  IF r = 0 THEN UNCHANGED targets
  ELSE targets' = Put(r, Failed(r, "TE_MachineIdMismatch"))

Deliver(e) ==
  /\ GuiLoop /\ Unlocked /\ events # <<>> /\ Head(events)[1] = e
  /\ events' = Tail(events)
  /\ LET s == Head(events)[2] IN
       CASE e = "ConnectionLost"   -> OnConnectionLost(s)
         [] e = "Reconnected"      -> OnReconnected(s)
         [] e = "ReconnectRefused" -> OnReconnectRefused(s)
  /\ UNCHANGED <<nodes, viewSystem, graphSystem, clusterMode, discovering, disk,
                 stranded, call, work, phase, link, machine, expects, heard,
                 posted>>
-----------------------------------------------------------------------------
ConnectStep(t) ==
  \/ StoreTargets(t) \/ Written(t) \/ CheckUp(t) \/ ReadExpected(t)
  \/ CreateRefused(t) \/ HandshakeFails(t) \/ (\E m \in Ids : Handshake(t, m))
  \/ CommitGone(t) \/ CommitFailed(t) \/ CommitConnected(t)
  \/ MarkDaemon(t) \/ ForgetDaemon(t) \/ RemoveRow(t)

Startup == ConnectSavedTargets \/ ConnectLocalDaemon \/ NoLocalDaemon

Worker == \E w \in work : ConnectByWorker(w)

User ==
  \/ \E n \in UserNames \cup {targets[r].Name : r \in DOMAIN targets}, a \in Addresses :
       ConnectByUser(n, a)
  \/ AcceptNew \/ DeclineNew
  \/ \E r \in Rows : Disconnect(r) \/ RemoveTarget(r)
  \/ \E r \in DOMAIN targets : \E n \in NewNames \cup {targets[r].Name}, a \in Addresses :
       UpdateTarget(r, n, a)
  \/ StartDiscovery \/ StopDiscovery
  \/ \E a \in Announced : OnDiscovered(a)
  \/ \E s \in Clicks : SetViewSystem(s) \/ SetGraphSystem(s)
  \/ Clicks # {} /\ SetClusterMode

Connections ==
  \/ \E s \in Systems : LinkLost(s) \/ TryReconnectInVain(s)
  \/ \E s \in Systems, m \in Ids : TryReconnectAnswered(s, m)
  \/ RetryLostNodes \/ Tick
  \/ \E e \in {"ConnectionLost", "Reconnected", "ReconnectRefused"} : Deliver(e)

Next == Startup \/ Worker \/ User \/ Connections \/ \E t \in Threads : ConnectStep(t)

Spec == Init /\ [][Next]_vars

\* An operation under way comes to its end: a handshake times out, and
\* QReadWriteLock lets no reader past a writer that waits, however often the
\* other thread stores the list.  The event loop delivers what is queued and
\* runs the refresh timer whenever the GUI thread comes back to it, however busy
\* the user keeps it.  A posted attempt is made, and attempts do not miss the
\* machine for ever.
Attempt(s)   == TryReconnectInVain(s) \/ \E m \in Ids : TryReconnectAnswered(s, m)
Reconnect(s) == \E m \in Ids : expects[s] \in {NoId, m} /\ TryReconnectAnswered(s, m)
Fairness ==
  /\ \A t \in Threads : SF_vars(ConnectStep(t))
  /\ SF_vars(\E e \in {"ConnectionLost", "Reconnected", "ReconnectRefused"} : Deliver(e))
  /\ SF_vars(RetryLostNodes)
  /\ WF_vars(Tick)
  /\ \A s \in Systems : WF_vars(Attempt(s)) /\ SF_vars(Reconnect(s))

FairSpec == Spec /\ Fairness
-----------------------------------------------------------------------------
\* The variables hold what the declarations of Cluster.h allow.
TypeOK ==
  /\ DOMAIN targets \in SUBSET Rows
  /\ targets \in [DOMAIN targets -> STarget]
  /\ nodes \subseteq Systems \cup {Local}
  /\ viewSystem \in Systems \cup {NoSystem}
  /\ graphSystem \in Systems \cup {NoSystem}
  /\ clusterMode \in BOOLEAN /\ discovering \in BOOLEAN
  /\ file \subseteq SavedEntry
  /\ call \in [Threads -> Call]
  /\ work \subseteq [name : Names, address : Addresses]
  /\ phase \in {"new", "loaded", "running"}
  /\ link \in [Systems -> Links]
  /\ machine \in [Systems -> Ids] /\ expects \in [Systems -> Ids]
  /\ heard \subseteq Systems /\ posted \subseteq Systems
  /\ events \in Seq(Events)
  /\ overlap \in BOOLEAN /\ stranded \subseteq Rows

\* Whatever the two threads do to the list, the machine the panels show and the
\* machine the graphs report on (GetViewSystem, GetActiveSystem) are machines
\* in the node list: nothing selected outlives its Disconnect.
SelectionIsNode ==
  /\ GetViewSystem \in nodes /\ GetActiveSystem \in nodes
  /\ graphSystem # NoSystem => graphSystem \in nodes /\ clusterMode

\* A row's connection is a node, is open, has its signals connected and is the
\* connection of no other row: no slot can find a row that is not the sender's.
RowsHoldNodes ==
  \A r \in DOMAIN targets :
    LET s == targets[r].pSystem IN
    s # NoSystem => /\ s \in nodes \cap heard
                    /\ link[s] # "closed"
                    /\ \A q \in DOMAIN targets : targets[q].pSystem = s => q = r

\* A row's State agrees with the rest of it: connected and lost rows have a
\* system, rows that are saved, discovered or on their way have none, and a
\* failed row says why (GetTargetError).  A failed row may have one: a reconnection
\* that was refused leaves it, and so does a second Connect that fails after the
\* first has succeeded.
StateAgrees ==
  \A r \in DOMAIN targets :
    /\ targets[r].State \in {eConnected, eLost} => targets[r].pSystem # NoSystem
    /\ targets[r].State \in {eSaved, eConnecting, eDiscovered} =>
         targets[r].pSystem = NoSystem
    /\ targets[r].State = eFailed => targets[r].LastError # NoError

\* The machine behind a row's connection is the one the row names, through any
\* number of automatic reconnections (SetExpectedMachineId after the commit).
IdentityMatches ==
  \A r \in DOMAIN targets :
    LET s == targets[r].pSystem IN
    s # NoSystem /\ targets[r].MachineId # NoId => machine[s] = targets[r].MachineId

\* With no StoreTargets outstanding, Targets.xml holds no machine that is not in
\* the list, and misses none that is configured or has been connected to.  When
\* the last two overlapped it may miss all of them, until the next has it to
\* itself; a machine that has been removed is not in it even then.
Quiet == \A t \in Threads : call[t].pc \notin {"store", "write"}
FileFollowsList ==
  Quiet =>
    /\ file \subseteq Stored
    /\ ~overlap =>
         \A r \in DOMAIN targets :
           /\ targets[r].State \in {eSaved, eConnected, eLost} \/ targets[r].pSystem # NoSystem
           /\ ~targets[r].bLocalDaemon
           => \E e \in file : /\ e.Name = targets[r].Name
                              /\ e.Address = targets[r].Address
                              /\ e.MachineId = targets[r].MachineId

\* This machine's own daemon is not a machine anybody configured: it is in
\* Targets.xml until the ConnectLocalDaemon that put it there is over, and then
\* no more, whatever the worker stores meanwhile and after.  (No machine somebody
\* configured has its name.)
DaemonUnwritten ==
  call["gui"].pc = "idle" => \A e \in file : e.Name # DaemonName

\* What a row says of its connection is true, or the signal that corrects it is
\* on its way to the GUI thread: no machine stays "connected" after it went
\* away, and none stays "lost" after it came back.
LinkShown ==
  \A r \in DOMAIN targets :
    LET s == targets[r].pSystem
        queued(e) == \E i \in 1..Len(events) : events[i] = <<e, s>>
    IN  /\ targets[r].State = eConnected /\ link[s] = "down" => queued("ConnectionLost")
        /\ targets[r].State = eLost /\ link[s] = "up" => queued("Reconnected")

\* A row says "connecting" only while some thread's Connect of it is between the
\* region that put it there and the commit that takes it out again, however the
\* list is edited meanwhile, with two exceptions: Create answered null to a
\* Connect of it, or it was renamed under one.
HasCaller(r) == \E t \in Threads : /\ call[t].pc \in {"expect", "dial", "commit"}
                                   /\ call[t].name = targets[r].Name
ConnectingHasCaller ==
  \A r \in DOMAIN targets :
    targets[r].State = eConnecting => HasCaller(r) \/ r \in stranded

\* Connect leaves the row in eFailed when it does not return a system, so that no
\* row is "connecting" with no Connect of it under way (Cluster.h:118-120).
NoneIsStranded ==
  \A r \in DOMAIN targets : targets[r].State = eConnecting => HasCaller(r)

\* Every machine in the node list other than the local one is the connection of
\* a row, so that there is a row to disconnect it by (GetTargetInfo).
NodesHaveRow ==
  \A s \in nodes \ {Local} : RowsOf(s) # {}

\* A lost machine does not stay lost: the attempts go on until it is back, turns
\* out to be another machine, or is taken out of the list.
Lost(s) == \E r \in DOMAIN targets : targets[r].pSystem = s /\ targets[r].State = eLost
LostIsRetried == \A s \in Systems : Lost(s) ~> ~Lost(s)

\* A row does not stay "connecting", unless Create answered null to a Connect of
\* it, or it was renamed under one.
Connecting(r) == /\ r \in DOMAIN targets /\ targets[r].State = eConnecting
                 /\ r \notin stranded
ConnectSettles == \A r \in Rows : Connecting(r) ~> ~Connecting(r)
=============================================================================
