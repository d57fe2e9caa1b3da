------------------------ MODULE ClusterSafetyProofs ------------------------
(***************************************************************************)
(* The safety invariants of the machine directory, for any constants.      *)
(***************************************************************************)
EXTENDS ClusterStateProofs

-----------------------------------------------------------------------------
\* What is selected.

\* SelectionIsNode, with the local machine, which is a null pointer here and
\* is never taken out of the node list.
SelectionInv ==
  /\ Local \in nodes
  /\ viewSystem \in nodes \cup {NoSystem}
  /\ graphSystem \in nodes \cup {NoSystem}
  /\ graphSystem # NoSystem => clusterMode

LEMMA SelectionInvSuffices == SelectionInv => SelectionIsNode
BY DEF SelectionInv, SelectionIsNode, GetViewSystem, GetActiveSystem

LEMMA SelectionInit == Init => SelectionInv
BY DEF Init, SelectionInv

\* The node list loses a machine only together with the selections of it.
LEMMA DisconnectSelection ==
  ASSUME TypeOK, SelectionInv, NEW n, DisconnectName(n), UNCHANGED clusterMode
  PROVE  SelectionInv'
<1> DEFINE r == FindTarget(n)
           s == targets[r].pSystem
<1>1. CASE r = 0 \/ s = NoSystem
  BY <1>1 DEF DisconnectName, list, SelectionInv
<1>2. CASE ~(r = 0 \/ s = NoSystem)
  <2>1. s # Local
    BY <1>2, FindTargetFinds, ClusterAssumption DEF TypeOK, STarget
  <2>2. /\ nodes' = nodes \ {s}
        /\ viewSystem' = Unselect(viewSystem, s)
        /\ graphSystem' = Unselect(graphSystem, s)
    BY <1>2 DEF DisconnectName
  <2> QED
    BY <2>1, <2>2 DEF SelectionInv, Unselect
<1> QED
  BY <1>1, <1>2

LEMMA SelectionNext ==
  ASSUME TypeOK, SelectionInv, [Next]_vars
  PROVE  SelectionInv'
<1> USE DEF SelectionInv
<1>1. CASE UNCHANGED <<nodes, viewSystem, graphSystem, clusterMode>>
  BY <1>1
<1>2. CASE Startup
  BY <1>2 DEF Startup, ConnectSavedTargets, ConnectLocalDaemon, NoLocalDaemon,
              BeginConnect, list
<1>3. CASE Worker
  BY <1>3 DEF Worker, ConnectByWorker, BeginConnect
<1>4. CASE User
  <2>1. ASSUME NEW r \in Rows, Disconnect(r) \/ RemoveTarget(r)
        PROVE  SelectionInv'
    BY <2>1, DisconnectSelection DEF Disconnect, RemoveTarget
  <2>2. ASSUME NEW s \in Clicks, SetViewSystem(s) \/ SetGraphSystem(s)
        PROVE  SelectionInv'
    BY <2>2 DEF SetViewSystem, SetGraphSystem, Resolve
  <2>3. CASE SetClusterMode
    BY <2>3 DEF SetClusterMode, TypeOK
  <2> QED
    BY <1>4, <2>1, <2>2, <2>3
       DEF User, ConnectByUser, AcceptNew, DeclineNew, BeginConnect, UpdateTarget,
           StartDiscovery, StopDiscovery, OnDiscovered, list
<1>5. CASE Connections
  BY <1>5 DEF Connections, LinkLost, TryReconnectInVain, TryReconnectAnswered,
              RetryLostNodes, Tick, Deliver, list
<1>6. ASSUME NEW t \in Threads, ConnectStep(t)
      PROVE  SelectionInv'
  <2>1. CASE CommitConnected(t)
    BY <2>1 DEF CommitConnected
  <2>2. CASE ForgetDaemon(t)
    BY <2>2, DisconnectSelection DEF ForgetDaemon
  <2> QED
    BY <1>6, <2>1, <2>2
       DEF ConnectStep, StoreTargets, Written, CheckUp, ReadExpected, CreateRefused,
           HandshakeFails, Handshake, CommitGone, CommitFailed, MarkDaemon,
           RemoveRow, list
<1> QED
  BY <1>1, <1>2, <1>3, <1>4, <1>5, <1>6 DEF Next, vars

\* The machine the panels show and the machine the graphs report on are always
\* in the node list: no Disconnect, RemoveTarget, failed ConnectLocalDaemon or
\* change of mode, in any order and with the worker connecting meanwhile, leaves
\* GetViewSystem or GetActiveSystem with a machine that is gone.
THEOREM SelectionSafe == Spec => []SelectionIsNode
<1>1. TypeOK /\ SelectionInv /\ [Next]_vars => SelectionInv'
  BY SelectionNext
<1> QED
  BY <1>1, SelectionInit, SelectionInvSuffices, TypeCorrect, PTL DEF Spec
-----------------------------------------------------------------------------
\* Which row has which connection.

\* A system a Connect has made and not yet handed over is open, and is neither
\* a row's nor the other thread's.
NewIsOwn ==
  \A t \in Threads :
    LET s == call[t].new IN
    s # NoSystem => /\ link[s] # "closed"
                    /\ \A r \in DOMAIN targets : targets[r].pSystem # s
                    /\ \A u \in Threads : call[u].new = s => u = t

\* What a row's connection has to answer with when it comes back is what the
\* row says, if the row says anything.
IdentityKept ==
  \A r \in DOMAIN targets :
    LET s == targets[r].pSystem IN
    s # NoSystem /\ targets[r].MachineId # NoId =>
      machine[s] = targets[r].MachineId /\ expects[s] = targets[r].MachineId

DirectoryInv == RowsHoldNodes /\ NewIsOwn /\ IdentityKept

\* Most steps hand no connection to a row, close none and make none.
NoNewPointer ==
  \A r \in DOMAIN targets' :
    targets'[r].pSystem # NoSystem =>
      /\ r \in DOMAIN targets
      /\ targets'[r].pSystem = targets[r].pSystem
      /\ targets'[r].MachineId = targets[r].MachineId
NoNewCall == \A t \in Threads : call'[t].new \in {call[t].new, NoSystem}
NoneClosed == \A s \in Systems : link[s] # "closed" => link'[s] # "closed"

LEMMA DirectoryKept ==
  ASSUME TypeOK, TypeOK', DirectoryInv, NoNewPointer, NoNewCall, NoneClosed,
         UNCHANGED <<nodes, heard, machine, expects>>
  PROVE  DirectoryInv'
<1>1. \A t \in Threads : call[t].new \in Systems \cup {NoSystem}
  BY DEF TypeOK, Call
<1>2. \A r \in DOMAIN targets : targets[r].pSystem \in Systems \cup {NoSystem}
  BY DEF TypeOK, STarget
<1>3. RowsHoldNodes'
  BY <1>2 DEF DirectoryInv, RowsHoldNodes, NoNewPointer, NoneClosed
<1>4. NewIsOwn'
  BY <1>1 DEF DirectoryInv, NewIsOwn, NoNewPointer, NoNewCall, NoneClosed
<1>5. IdentityKept'
  BY DEF DirectoryInv, IdentityKept, NoNewPointer
<1> QED
  BY <1>3, <1>4, <1>5 DEF DirectoryInv

\* Rows put and dropped, and calls that lose what they had.
LEMMA PutPointer ==
  ASSUME NEW r, NEW x, targets' = Put(r, x),
         \/ x.pSystem = NoSystem
         \/ /\ r \in DOMAIN targets /\ x.pSystem = targets[r].pSystem
            /\ x.MachineId = targets[r].MachineId
  PROVE  NoNewPointer
BY DEF NoNewPointer, Put

LEMMA SamePointer ==
  ASSUME UNCHANGED targets
  PROVE  NoNewPointer
BY DEF NoNewPointer

LEMMA DropPointer ==
  ASSUME NEW gone, targets' = Drop(gone)
  PROVE  NoNewPointer
BY DEF NoNewPointer, Drop

LEMMA CallLoses ==
  ASSUME CallOK, NEW t \in Threads, NEW c, call' = [call EXCEPT ![t] = c],
         c.new \in {call[t].new, NoSystem}
  PROVE  NoNewCall
BY DEF CallOK, NoNewCall

LEMMA NoCallNew == NoCall.new = NoSystem
BY DEF NoCall

LEMMA BeginConnectPointer ==
  ASSUME TypeOK, NEW t \in Threads, NEW c \in Call, c.new = NoSystem, BeginConnect(t, c)
  PROVE  NoNewPointer /\ NoNewCall
<1> DEFINE r == FindTarget(c.name)
           e == [Name |-> c.name, Address |-> c.address, MachineId |-> NoId]
<1>1. TargetsOK /\ CallOK
  BY TypeParts
<1>2. /\ [c EXCEPT !.pc = "check"].new = NoSystem
      /\ [c EXCEPT !.pc = "store", !.next = "check"].new = NoSystem
  BY DEF Call
<1>3. NoNewCall
  BY <1>1, <1>2, CallLoses DEF BeginConnect, AddTarget
<1>4. CASE r # 0 /\ targets[r].Address = c.address
  BY <1>3, <1>4, SamePointer DEF BeginConnect, AddTarget
<1>5. CASE r # 0 /\ targets[r].Address # c.address
  <2> DEFINE x == [targets[r] EXCEPT !.Address = c.address]
  <2>1. r \in DOMAIN targets /\ targets[r] \in STarget
    BY <1>1, <1>5, FindTargetFinds DEF TargetsOK
  <2>2. x.pSystem = targets[r].pSystem /\ x.MachineId = targets[r].MachineId
    BY <2>1 DEF STarget
  <2>3. targets' = Put(r, x)
    BY <1>5 DEF BeginConnect, AddTarget
  <2> QED
    BY <1>3, <2>1, <2>2, <2>3, PutPointer
<1>6. CASE r = 0
  <2>1. targets' = Put(NextRow, NewTarget(e))
    BY <1>6 DEF BeginConnect, AddTarget
  <2>2. NewTarget(e).pSystem = NoSystem
    BY DEF NewTarget
  <2> QED
    BY <1>3, <2>1, <2>2, PutPointer
<1> QED
  BY <1>4, <1>5, <1>6

\* A Disconnect takes the connection from the one row that has it.
LEMMA DisconnectDirectory ==
  ASSUME TypeOK, TypeOK', DirectoryInv, NEW n, DisconnectName(n), NoNewCall
  PROVE  DirectoryInv'
<1> DEFINE r == FindTarget(n)
           s == targets[r].pSystem
           x == [targets[r] EXCEPT !.pSystem = NoSystem, !.State = eSaved]
<1>1. CASE r = 0 \/ s = NoSystem
  BY <1>1, SamePointer, DirectoryKept DEF DisconnectName, list, NoneClosed
<1>2. CASE ~(r = 0 \/ s = NoSystem)
  <2>1. r \in DOMAIN targets /\ targets[r] \in STarget /\ s \in Systems
    BY <1>2, FindTargetFinds DEF TypeOK, STarget
  <2>2. /\ targets' = Put(r, x)
        /\ nodes' = nodes \ {s}
        /\ Close(s)
    BY <1>2 DEF DisconnectName
  <2>3. x.pSystem = NoSystem
    BY <2>1 DEF STarget
  <2>4. NoNewPointer
    BY <2>2, <2>3, PutPointer
  <2>5. \A q \in DOMAIN targets' : targets'[q].pSystem # s
    BY <1>2, <2>1, <2>2, <2>3 DEF Put, DirectoryInv, RowsHoldNodes
  <2>6. \A t \in Threads : call[t].new # s
    BY <1>2, <2>1 DEF DirectoryInv, NewIsOwn
  <2>7. \A q \in Systems \ {s} : link'[q] = link[q] /\ machine'[q] = machine[q]
                                 /\ expects'[q] = expects[q]
    BY <2>1, <2>2 DEF Close, TypeOK
  <2>8. /\ \A q \in DOMAIN targets : targets[q].pSystem \in Systems \cup {NoSystem}
        /\ \A t \in Threads : call[t].new \in Systems \cup {NoSystem}
    BY DEF TypeOK, STarget, Call
  <2>9. RowsHoldNodes'
    BY <2>2, <2>4, <2>5, <2>7, <2>8 DEF Close, DirectoryInv, RowsHoldNodes, NoNewPointer
  <2>10. NewIsOwn'
    BY <2>4, <2>6, <2>7, <2>8 DEF DirectoryInv, NewIsOwn, NoNewPointer, NoNewCall
  <2>11. IdentityKept'
    BY <2>4, <2>5, <2>7, <2>8 DEF DirectoryInv, IdentityKept, NoNewPointer
  <2> QED
    BY <2>9, <2>10, <2>11 DEF DirectoryInv
<1> QED
  BY <1>1, <1>2

LEMMA ConnectStepDirectory ==
  ASSUME TypeOK, TypeOK', DirectoryInv, NEW t \in Threads, ConnectStep(t)
  PROVE  DirectoryInv'
<1> DEFINE c == call[t]
           r == FindTarget(c.name)
<1>1. CallOK /\ c \in Call
  BY TypeParts DEF CallOK
<1>2. r # 0 => r \in DOMAIN targets /\ targets[r] \in STarget
  BY FindTargetFinds DEF TypeOK
<1>3. /\ ReturnSystem(t, c).new \in {c.new, NoSystem}
      /\ ReturnNull(t, c).new = NoSystem
      /\ ThenStore(c).new = c.new
  BY <1>1, NoCallTyped, NoCallNew DEF ReturnSystem, ReturnNull, ThenStore, Call
<1>4. CASE StoreTargets(t) \/ Written(t)
  <2>1. NoNewCall
    BY <1>1, <1>4, NoCallNew DEF StoreTargets, Written, Done, NoNewCall, CallOK, Call
  <2> QED
    BY <1>4, <2>1, SamePointer, DirectoryKept DEF StoreTargets, Written, list, world, NoneClosed
<1>5. CASE CheckUp(t)
  <2>1. NoNewCall
    BY <1>1, <1>3, <1>5 DEF CheckUp, NoNewCall, CallOK, Call
  <2>2. NoNewPointer
    <3>1. r # 0 => /\ [targets[r] EXCEPT !.State = eConnecting].pSystem = targets[r].pSystem
                   /\ [targets[r] EXCEPT !.State = eConnecting].MachineId = targets[r].MachineId
      BY <1>2 DEF STarget
    <3> QED
      BY <1>2, <1>5, <3>1, PutPointer, SamePointer DEF CheckUp
  <2> QED
    BY <1>5, <2>1, <2>2, DirectoryKept DEF CheckUp, world, NoneClosed
<1>6. CASE ReadExpected(t)
  <2>1. NoNewCall
    BY <1>1, <1>6 DEF ReadExpected, NoNewCall, CallOK, Call
  <2> QED
    BY <1>6, <2>1, SamePointer, DirectoryKept DEF ReadExpected, list, world, NoneClosed
<1>7. CASE CreateRefused(t)
  <2>1. NoNewCall
    BY <1>1, <1>3, <1>7, CallLoses DEF CreateRefused
  <2> QED
    BY <1>7, <2>1, SamePointer, DirectoryKept DEF CreateRefused, list, world, NoneClosed
<1>8. CASE HandshakeFails(t)
  <2>1. NoNewCall
    BY <1>1, <1>8 DEF HandshakeFails, NoNewCall, CallOK, Call
  <2> QED
    BY <1>8, <2>1, SamePointer, DirectoryKept DEF HandshakeFails, list, world, NoneClosed
<1>9. ASSUME NEW m \in Ids, Handshake(t, m)
      PROVE  DirectoryInv'
  <2> DEFINE s == CHOOSE x \in Unused : TRUE
  <2>1. s \in Systems /\ link[s] = "closed"
    BY <1>9 DEF Handshake, Unused
  <2>2. /\ link' = [link EXCEPT ![s] = "up"]
        /\ machine' = [machine EXCEPT ![s] = m]
        /\ expects' = [expects EXCEPT ![s] = c.expected]
        /\ UNCHANGED <<targets, nodes, heard>>
    BY <1>9 DEF Handshake, list
  <2>3. \A u \in Threads : call'[u].new = IF u = t THEN s ELSE call[u].new
    BY <1>1, <1>9 DEF Handshake, CallOK, Call
  <2>4. link'[s] # "closed" /\ \A x \in Systems \ {s} : /\ link'[x] = link[x]
                                                       /\ machine'[x] = machine[x]
                                                       /\ expects'[x] = expects[x]
    BY <2>1, <2>2 DEF TypeOK
  <2>5. /\ \A q \in DOMAIN targets : targets[q].pSystem \in (Systems \ {s}) \cup {NoSystem}
        /\ \A u \in Threads : call[u].new \in (Systems \ {s}) \cup {NoSystem}
    BY <2>1 DEF TypeOK, STarget, Call, DirectoryInv, RowsHoldNodes, NewIsOwn
  <2>6. s # NoSystem
    BY <2>1, ClusterAssumption
  <2>7. RowsHoldNodes'
    BY <2>2, <2>4, <2>5 DEF DirectoryInv, RowsHoldNodes
  <2>8. NewIsOwn'
    BY <2>2, <2>3, <2>4, <2>5, <2>6 DEF DirectoryInv, NewIsOwn
  <2>9. IdentityKept'
    BY <2>2, <2>4, <2>5 DEF DirectoryInv, IdentityKept
  <2> QED
    BY <2>7, <2>8, <2>9 DEF DirectoryInv
<1>10. CASE CommitGone(t)
  <2> DEFINE s == c.new
  <2>1. NoNewCall
    BY <1>1, <1>3, <1>10, CallLoses DEF CommitGone
  <2>2. CASE s = NoSystem
    BY <1>10, <2>1, <2>2, SamePointer, DirectoryKept DEF CommitGone, list, NoneClosed
  <2>3. CASE s # NoSystem
    <3>1. s \in Systems
      BY <1>1, <2>3 DEF Call
    <3>2. Close(s) /\ UNCHANGED <<targets, nodes>>
      BY <1>10, <2>3 DEF CommitGone, list
    <3>3. \A x \in Systems \ {s} : /\ link'[x] = link[x] /\ machine'[x] = machine[x]
                                   /\ expects'[x] = expects[x]
      BY <3>1, <3>2 DEF Close, TypeOK
    <3>4. \A q \in DOMAIN targets : targets[q].pSystem \in (Systems \ {s}) \cup {NoSystem}
      BY <2>3 DEF TypeOK, STarget, DirectoryInv, NewIsOwn
    <3>5. \A u \in Threads : /\ call'[u].new \in (Systems \ {s}) \cup {NoSystem}
                             /\ call'[u].new \in {call[u].new, NoSystem}
      <4>1. call'[t].new = NoSystem
        BY <1>1, <1>3, <1>10 DEF CommitGone, CallOK
      <4>2. \A u \in Threads \ {t} : call[u].new \in (Systems \ {s}) \cup {NoSystem}
        BY <2>3 DEF TypeOK, Call, DirectoryInv, NewIsOwn
      <4> QED
        BY <2>1, <4>1, <4>2, ClusterAssumption DEF NoNewCall
    <3>6. RowsHoldNodes'
      BY <3>2, <3>3, <3>4 DEF Close, DirectoryInv, RowsHoldNodes
    <3>7. NewIsOwn'
      BY <3>2, <3>3, <3>5 DEF DirectoryInv, NewIsOwn
    <3>8. IdentityKept'
      BY <3>2, <3>3, <3>4 DEF DirectoryInv, IdentityKept
    <3> QED
      BY <3>6, <3>7, <3>8 DEF DirectoryInv
  <2> QED
    BY <2>2, <2>3
<1>11. CASE CommitFailed(t)
  <2>1. NoNewCall
    BY <1>1, <1>3, <1>11, CallLoses DEF CommitFailed
  <2>2. /\ Failed(r, c.status).pSystem = targets[r].pSystem
        /\ Failed(r, c.status).MachineId = targets[r].MachineId
    BY <1>2, <1>11 DEF CommitFailed, Failed, STarget
  <2>3. NoNewPointer
    BY <1>2, <1>11, <2>2, PutPointer DEF CommitFailed
  <2> QED
    BY <1>11, <2>1, <2>3, DirectoryKept DEF CommitFailed, world, NoneClosed
<1>12. CASE CommitConnected(t)
  <2> DEFINE s == c.new
             x == [targets[r] EXCEPT !.State = eConnected, !.LastError = NoError,
                                     !.pSystem = s, !.MachineId = machine[s]]
  <2>1. s \in Systems /\ s # NoSystem /\ link[s] # "closed" /\ r \in DOMAIN targets
    BY <1>1, <1>2, <1>12 DEF CommitConnected, Call, DirectoryInv, NewIsOwn
  <2>2. /\ targets' = Put(r, x) /\ nodes' = nodes \cup {s} /\ heard' = heard \cup {s}
        /\ expects' = [expects EXCEPT ![s] = machine[s]]
        /\ UNCHANGED <<link, machine>>
    BY <1>12 DEF CommitConnected, Listen, Require
  <2>3. x.pSystem = s /\ x.MachineId = machine[s]
    BY <1>2, <2>1 DEF STarget
  <2>4. \A u \in Threads : call'[u].new = IF u = t THEN NoSystem ELSE call[u].new
    BY <1>1, <1>12 DEF CommitConnected, CallOK, Call
  <2>5. /\ \A q \in DOMAIN targets : targets[q].pSystem \in (Systems \ {s}) \cup {NoSystem}
        /\ \A u \in Threads \ {t} : call[u].new \in (Systems \ {s}) \cup {NoSystem}
    BY <2>1 DEF TypeOK, STarget, Call, DirectoryInv, NewIsOwn
  <2>6. /\ DOMAIN targets' = DOMAIN targets
        /\ \A q \in DOMAIN targets :
             /\ targets'[q].pSystem = IF q = r THEN s ELSE targets[q].pSystem
             /\ targets'[q].MachineId = IF q = r THEN machine[s] ELSE targets[q].MachineId
    BY <2>1, <2>2, <2>3 DEF Put
  <2>7. RowsHoldNodes'
    <3>1. ASSUME NEW q \in DOMAIN targets', targets'[q].pSystem # NoSystem
          PROVE  /\ targets'[q].pSystem \in nodes' \cap heard'
                 /\ link'[targets'[q].pSystem] # "closed"
      BY <2>1, <2>2, <2>6, <3>1 DEF DirectoryInv, RowsHoldNodes
    <3>2. ASSUME NEW q \in DOMAIN targets', NEW p \in DOMAIN targets',
                 targets'[q].pSystem # NoSystem, targets'[p].pSystem = targets'[q].pSystem
          PROVE  p = q
      BY <2>5, <2>6, <3>2 DEF DirectoryInv, RowsHoldNodes
    <3> QED
      BY <3>1, <3>2 DEF RowsHoldNodes
  <2>8. NewIsOwn'
    <3> SUFFICES ASSUME NEW u \in Threads, call'[u].new # NoSystem
                 PROVE  /\ link'[call'[u].new] # "closed"
                        /\ \A q \in DOMAIN targets' : targets'[q].pSystem # call'[u].new
                        /\ \A w \in Threads : call'[w].new = call'[u].new => w = u
      BY DEF NewIsOwn
    <3>1. u # t /\ call'[u].new = call[u].new /\ call[u].new # s
      BY <2>4, <2>5
    <3>2. /\ link[call[u].new] # "closed"
          /\ \A q \in DOMAIN targets : targets[q].pSystem # call[u].new
          /\ \A w \in Threads : call[w].new = call[u].new => w = u
      BY <3>1 DEF DirectoryInv, NewIsOwn
    <3>3. \A q \in DOMAIN targets' : targets'[q].pSystem # call'[u].new
      BY <2>6, <3>1, <3>2
    <3>4. \A w \in Threads : call'[w].new = call'[u].new => w = u
      BY <2>4, <3>1, <3>2
    <3> QED BY <2>2, <3>1, <3>2, <3>3, <3>4
  <2>9. expects'[s] = machine[s] /\ \A q \in Systems \ {s} : expects'[q] = expects[q]
    BY <2>1, <2>2 DEF TypeOK
  <2>10. IdentityKept'
    <3> SUFFICES ASSUME NEW q \in DOMAIN targets', targets'[q].pSystem # NoSystem,
                        targets'[q].MachineId # NoId
                 PROVE  /\ machine'[targets'[q].pSystem] = targets'[q].MachineId
                        /\ expects'[targets'[q].pSystem] = targets'[q].MachineId
      BY DEF IdentityKept
    <3>1. CASE q = r
      BY <2>2, <2>6, <2>9, <3>1
    <3>2. CASE q # r
      <4>1. /\ targets'[q].pSystem = targets[q].pSystem
            /\ targets'[q].MachineId = targets[q].MachineId /\ q \in DOMAIN targets
        BY <2>6, <3>2
      <4>2. /\ machine[targets[q].pSystem] = targets[q].MachineId
            /\ expects[targets[q].pSystem] = targets[q].MachineId
        BY <4>1 DEF DirectoryInv, IdentityKept
      <4>3. targets[q].pSystem \in Systems \ {s}
        BY <2>5, <4>1
      <4> QED BY <2>2, <2>9, <4>1, <4>2, <4>3
    <3> QED BY <3>1, <3>2
  <2> QED
    BY <2>7, <2>8, <2>10 DEF DirectoryInv
<1>13. CASE MarkDaemon(t)
  <2>1. NoNewCall
    BY <1>1, <1>3, <1>13, CallLoses DEF MarkDaemon, Mark
  <2>2. r # 0 => /\ [targets[r] EXCEPT !.bLocalDaemon = TRUE].pSystem = targets[r].pSystem
                 /\ [targets[r] EXCEPT !.bLocalDaemon = TRUE].MachineId = targets[r].MachineId
    BY <1>2 DEF STarget
  <2>3. NoNewPointer
    BY <1>2, <1>13, <2>2, PutPointer, SamePointer DEF MarkDaemon, Mark
  <2> QED
    BY <1>13, <2>1, <2>3, DirectoryKept DEF MarkDaemon, Mark, world, NoneClosed
<1>14. CASE ForgetDaemon(t)
  <2>1. [NoCall EXCEPT !.pc = "remove", !.name = c.name].new = NoSystem
    BY NoCallTyped, NoCallNew DEF Call
  <2>2. NoNewCall
    BY <1>1, <1>14, <2>1, CallLoses DEF ForgetDaemon
  <2> QED
    BY <1>14, <2>2, DisconnectDirectory DEF ForgetDaemon
<1>15. CASE RemoveRow(t)
  <2>1. NoNewCall
    BY <1>1, <1>3, <1>15, CallLoses, NoCallNew DEF RemoveRow, Done
  <2>2. NoNewPointer
    BY <1>15, SamePointer, DropPointer DEF RemoveRow
  <2> QED
    BY <1>15, <2>1, <2>2, DirectoryKept DEF RemoveRow, world, NoneClosed
<1> QED
  BY <1>4, <1>5, <1>6, <1>7, <1>8, <1>9, <1>10, <1>11, <1>12, <1>13, <1>14, <1>15
     DEF ConnectStep

LEMMA StartupDirectory ==
  ASSUME TypeOK, TypeOK', DirectoryInv, Startup \/ Worker
  PROVE  DirectoryInv'
<1>1. CASE ConnectSavedTargets \/ NoLocalDaemon
  BY <1>1, SamePointer, DirectoryKept
     DEF ConnectSavedTargets, NoLocalDaemon, list, world, NoNewCall, NoneClosed
<1>2. ASSUME NEW t \in Threads, NEW c \in Call, c.new = NoSystem, BeginConnect(t, c)
      PROVE  DirectoryInv'
  BY <1>2, BeginConnectPointer, DirectoryKept DEF BeginConnect, world, NoneClosed
<1>3. CASE ConnectLocalDaemon
  <2> DEFINE c == [NoCall EXCEPT !.takeView = TRUE, !.daemon = TRUE]
  <2>1. c \in Call /\ c.new = NoSystem
    BY NoCallTyped, NoCallNew DEF Call
  <2> QED
    BY <1>2, <1>3, <2>1 DEF ConnectLocalDaemon, Threads
<1>4. ASSUME NEW w \in work, ConnectByWorker(w)
      PROVE  DirectoryInv'
  <2> DEFINE c == [NoCall EXCEPT !.name = w.name, !.address = w.address]
  <2>1. c \in Call /\ c.new = NoSystem
    BY NoCallTyped, NoCallNew DEF Call, TypeOK
  <2> QED
    BY <1>2, <1>4, <2>1 DEF ConnectByWorker, Threads
<1> QED
  BY <1>1, <1>3, <1>4 DEF Startup, Worker

LEMMA UserDirectory ==
  ASSUME TypeOK, TypeOK', DirectoryInv, User
  PROVE  DirectoryInv'
<1>1. CallOK /\ "gui" \in Threads /\ call["gui"] \in Call
  BY TypeParts DEF CallOK, Threads
<1>2. \A r \in DOMAIN targets : targets[r] \in STarget
  BY DEF TypeOK
<1>3. ASSUME NEW c \in Call, c.new = NoSystem, BeginConnect("gui", c)
      PROVE  DirectoryInv'
  BY <1>1, <1>3, BeginConnectPointer, DirectoryKept DEF BeginConnect, world, NoneClosed
<1>4. ASSUME NEW n \in UserNames \cup {targets[r].Name : r \in DOMAIN targets},
             NEW a \in Addresses, ConnectByUser(n, a)
      PROVE  DirectoryInv'
  <2> DEFINE c == [NoCall EXCEPT !.name = n, !.address = a, !.takeView = TRUE]
  <2>1. n \in Names
    BY <1>2, <1>4 DEF STarget, Names
  <2>2. c \in Call /\ c.new = NoSystem
    BY <2>1, NoCallTyped, NoCallNew DEF Call
  <2> QED
    BY <1>3, <1>4, <2>2 DEF ConnectByUser
<1>5. CASE AcceptNew
  <2> DEFINE c == [NoCall EXCEPT !.name = call["gui"].name, !.address = call["gui"].address,
                                 !.identity = eAcceptNew, !.takeView = TRUE]
  <2>1. c \in Call /\ c.new = NoSystem
    BY <1>1, NoCallTyped, NoCallNew DEF Call
  <2> QED
    BY <1>3, <1>5, <2>1 DEF AcceptNew
<1>6. CASE DeclineNew
  <2>1. NoNewCall
    BY <1>1, <1>6, NoCallNew, CallLoses DEF DeclineNew, Done
  <2> QED
    BY <1>6, <2>1, SamePointer, DirectoryKept DEF DeclineNew, list, world, NoneClosed
<1>7. ASSUME NEW r \in Rows, Disconnect(r)
      PROVE  DirectoryInv'
  BY <1>7, DisconnectDirectory DEF Disconnect, NoNewCall
<1>8. ASSUME NEW r \in Rows, RemoveTarget(r)
      PROVE  DirectoryInv'
  <2>1. [NoCall EXCEPT !.pc = "remove", !.name = targets[r].Name].new = NoSystem
    BY NoCallTyped, NoCallNew DEF Call
  <2>2. NoNewCall
    BY <1>1, <1>8, <2>1, CallLoses DEF RemoveTarget
  <2> QED
    BY <1>8, <2>2, DisconnectDirectory DEF RemoveTarget
<1>9. ASSUME NEW r \in DOMAIN targets, NEW n \in NewNames \cup {targets[r].Name},
             NEW a \in Addresses, UpdateTarget(r, n, a)
      PROVE  DirectoryInv'
  <2> DEFINE x == [targets[r] EXCEPT !.Name = n, !.Address = a,
                                     !.State = IF @ = eDiscovered THEN eSaved ELSE @]
  <2>1. x.pSystem = targets[r].pSystem /\ x.MachineId = targets[r].MachineId
    BY <1>2 DEF STarget
  <2>2. targets' = Put(r, x)
    BY <1>9 DEF UpdateTarget
  <2>3. NoNewPointer
    BY <2>1, <2>2, PutPointer
  <2>4. ThenStore(NoCall).new = NoSystem
    BY NoCallTyped, NoCallNew DEF ThenStore, Call
  <2>5. NoNewCall
    BY <1>1, <1>9, <2>4, CallLoses DEF UpdateTarget
  <2> QED
    BY <1>9, <2>3, <2>5, DirectoryKept DEF UpdateTarget, world, NoneClosed
<1>10. CASE StartDiscovery
  BY <1>10, SamePointer, DirectoryKept DEF StartDiscovery, list, world, NoNewCall, NoneClosed
<1>11. CASE StopDiscovery
  BY <1>11, DropPointer, DirectoryKept DEF StopDiscovery, world, NoNewCall, NoneClosed
<1>12. ASSUME NEW a \in Announced, OnDiscovered(a)
       PROVE  DirectoryInv'
  <2> DEFINE e == [Name |-> Label(a), Address |-> a.Address, MachineId |-> a.MachineId]
             x == [NewTarget(e) EXCEPT !.State = eDiscovered]
  <2>1. x.pSystem = NoSystem
    BY DEF NewTarget
  <2>2. targets' = Put(NextRow, x)
    BY <1>12 DEF OnDiscovered
  <2>3. NoNewPointer
    BY <2>1, <2>2, PutPointer
  <2> QED
    BY <1>12, <2>3, DirectoryKept DEF OnDiscovered, world, NoNewCall, NoneClosed
<1>13. ASSUME NEW s \in Clicks, SetViewSystem(s) \/ SetGraphSystem(s)
       PROVE  DirectoryInv'
  BY <1>13, SamePointer, DirectoryKept
     DEF SetViewSystem, SetGraphSystem, world, NoNewCall, NoneClosed
<1>14. CASE SetClusterMode
  BY <1>14, SamePointer, DirectoryKept DEF SetClusterMode, world, NoNewCall, NoneClosed
<1> QED
  BY <1>4, <1>5, <1>6, <1>7, <1>8, <1>9, <1>10, <1>11, <1>12, <1>13, <1>14 DEF User

LEMMA ConnectionsDirectory ==
  ASSUME TypeOK, TypeOK', DirectoryInv, Connections
  PROVE  DirectoryInv'
<1>1. \A r \in DOMAIN targets : targets[r] \in STarget
  BY DEF TypeOK
<1>2. ASSUME NEW s \in Systems, LinkLost(s)
      PROVE  DirectoryInv'
  <2>1. NoneClosed
    BY <1>2 DEF LinkLost, NoneClosed, TypeOK
  <2> QED
    BY <1>2, <2>1, SamePointer, DirectoryKept DEF LinkLost, list, NoNewCall
<1>3. ASSUME NEW s \in Systems, TryReconnectInVain(s)
      PROVE  DirectoryInv'
  BY <1>3, SamePointer, DirectoryKept DEF TryReconnectInVain, list, NoNewCall, NoneClosed
<1>4. ASSUME NEW s \in Systems, NEW m \in Ids, TryReconnectAnswered(s, m)
      PROVE  DirectoryInv'
  <2>1. UNCHANGED <<targets, nodes, heard, expects, call>>
    BY <1>4 DEF TryReconnectAnswered, list
  <2>2. NoneClosed
    BY <1>4 DEF TryReconnectAnswered, NoneClosed, TypeOK
  <2>3. CASE expects[s] \in {NoId, m}
    <3>1. machine' = [machine EXCEPT ![s] = m]
      BY <1>4, <2>3 DEF TryReconnectAnswered
    <3>2. \A x \in Systems : machine'[x] = IF x = s THEN m ELSE machine[x]
      BY <3>1 DEF TypeOK
    <3>3. \A r \in DOMAIN targets : targets[r].pSystem \in Systems \cup {NoSystem}
      BY <1>1 DEF STarget
    <3>4. RowsHoldNodes' /\ NewIsOwn'
      <4>1. \A t \in Threads : call[t].new \in Systems \cup {NoSystem}
        BY DEF TypeOK, Call
      <4> QED
        BY <2>1, <2>2, <3>3, <4>1 DEF DirectoryInv, RowsHoldNodes, NewIsOwn, NoneClosed
    <3>5. IdentityKept'
      BY <2>1, <2>3, <3>2, <3>3 DEF DirectoryInv, IdentityKept
    <3> QED
      BY <3>4, <3>5 DEF DirectoryInv
  <2>4. CASE expects[s] \notin {NoId, m}
    BY <1>4, <2>1, <2>2, <2>4, SamePointer, DirectoryKept DEF TryReconnectAnswered, NoNewCall
  <2> QED
    BY <2>3, <2>4
<1>5. CASE RetryLostNodes
  <2>1. NoNewPointer
    BY <1>1, <1>5 DEF RetryLostNodes, NoNewPointer, STarget
  <2> QED
    BY <1>5, <2>1, DirectoryKept DEF RetryLostNodes, NoNewCall, NoneClosed
<1>6. CASE Tick
  <2>1. NoNewPointer
    BY <1>1, <1>6 DEF Tick, NoNewPointer, STarget
  <2> QED
    BY <1>6, <2>1, DirectoryKept DEF Tick, world, NoNewCall, NoneClosed
<1>7. ASSUME NEW e \in {"ConnectionLost", "Reconnected", "ReconnectRefused"}, Deliver(e)
      PROVE  DirectoryInv'
  <2> DEFINE r == RowOf(Head(events)[2])
  <2>1. r # 0 => r \in DOMAIN targets /\ targets[r] \in STarget
    BY <1>1, RowOfFinds
  <2>2. \/ UNCHANGED targets
        \/ \E x : /\ r # 0 /\ targets' = Put(r, x)
                  /\ x \in {[targets[r] EXCEPT !.State = eLost], Back(r),
                            Failed(r, "TE_MachineIdMismatch")}
    BY <1>7 DEF Deliver, OnConnectionLost, OnReconnected, OnReconnectRefused
  <2>3. ASSUME NEW x \in {[targets[r] EXCEPT !.State = eLost], Back(r),
                          Failed(r, "TE_MachineIdMismatch")}, r # 0
        PROVE  x.pSystem = targets[r].pSystem /\ x.MachineId = targets[r].MachineId
    BY <2>1, <2>3 DEF Back, Failed, STarget
  <2>4. NoNewPointer
    BY <2>1, <2>2, <2>3, PutPointer, SamePointer
  <2> QED
    BY <1>7, <2>4, DirectoryKept DEF Deliver, NoNewCall, NoneClosed
<1> QED
  BY <1>2, <1>3, <1>4, <1>5, <1>6, <1>7 DEF Connections

LEMMA DirectoryInit == Init => DirectoryInv
BY NoCallNew
   DEF Init, NewTarget, DirectoryInv, RowsHoldNodes, NewIsOwn, IdentityKept

LEMMA DirectoryNext ==
  ASSUME TypeOK, TypeOK', DirectoryInv, [Next]_vars
  PROVE  DirectoryInv'
<1>1. CASE UNCHANGED vars
  BY <1>1, SamePointer, DirectoryKept DEF vars, NoNewCall, NoneClosed
<1> QED
  BY <1>1, StartupDirectory, UserDirectory, ConnectionsDirectory, ConnectStepDirectory
     DEF Next

LEMMA DirectoryAlways == Spec => []DirectoryInv
<1>1. TypeOK /\ TypeOK' /\ DirectoryInv /\ [Next]_vars => DirectoryInv'
  BY DirectoryNext
<1> QED
  BY <1>1, DirectoryInit, TypeCorrect, PTL DEF Spec

\* A row's connection is a node, is open, has its signals connected and belongs
\* to no other row, whichever way two Connects, a Disconnect and a removal
\* interleave: a slot that looks its sender up finds the sender's row.
THEOREM RowsSafe == Spec => []RowsHoldNodes
BY DirectoryAlways, PTL DEF DirectoryInv

\* The machine behind a row's connection is the one the row names, through any
\* number of lost connections and automatic reconnections.
THEOREM IdentitySafe == Spec => []IdentityMatches
<1>1. DirectoryInv => IdentityMatches
  BY DEF DirectoryInv, IdentityKept, IdentityMatches
<1> QED
  BY <1>1, DirectoryAlways, PTL
-----------------------------------------------------------------------------
\* What a row says of its connection.

\* The last word the queue has on whether s is up is e and not o; o is nowhere in
\* the queue.
Pend(e, o, s) == \E i \in 1..Len(events) :
                   /\ events[i] = <<e, s>>
                   /\ \A j \in 1..Len(events) : j > i => events[j] # <<o, s>>
Unsaid(o, s)  == \A i \in 1..Len(events) : events[i] # <<o, s>>

\* LinkShown says that a row that is wrong has a signal coming.  That is not
\* inductive: the signal must also be the last of its kind, or one behind it would
\* make the row wrong again, and a row that is right may not have a signal coming
\* that makes it wrong.
Corrected(x, wrong, e, o) == \/ x.State # wrong /\ Unsaid(o, x.pSystem)
                             \/ Pend(e, o, x.pSystem)
RowShown(x) ==
  /\ link[x.pSystem] = "down" => Corrected(x, eConnected, "ConnectionLost", "Reconnected")
  /\ link[x.pSystem] = "up" => Corrected(x, eLost, "Reconnected", "ConnectionLost")
QueueInv == \A r \in DOMAIN targets : targets[r].pSystem # NoSystem => RowShown(targets[r])

\* A system that is listened to is open, and one a Connect has not handed over yet
\* is up, with nothing queued, posted or connected.
HeardIsOpen == \A s \in heard : link[s] # "closed"
NewIsFresh  ==
  \A t \in Threads :
    LET s == call[t].new IN
    s # NoSystem => /\ link[s] = "up" /\ s \notin heard /\ s \notin posted
                    /\ \A i \in 1..Len(events) : events[i][2] # s

LinkInv == QueueInv /\ HeardIsOpen /\ NewIsFresh

LEMMA LinkInvSuffices ==
  ASSUME TypeOK, DirectoryInv, LinkInv, \A r \in DOMAIN targets : targets[r].State \in
           {eConnected, eLost} => targets[r].pSystem # NoSystem
  PROVE  LinkShown
BY DEF LinkInv, QueueInv, RowShown, Corrected, Pend, LinkShown, eConnected, eLost

\* What Append and Tail do to the queue's last word.
LEMMA AppendPend ==
  ASSUME TypeOK, NEW x, NEW q, events' = Append(events, <<x, q>>)
  PROVE  /\ \A e, o, s : Pend(e, o, s) /\ <<x, q>> # <<o, s>> => Pend(e, o, s)'
         /\ \A o, s : Unsaid(o, s) /\ <<x, q>> # <<o, s>> => Unsaid(o, s)'
         /\ \A o : Pend(x, o, q)'
<1> DEFINE n == Len(events)
<1>1. n \in Nat /\ Len(events') = n + 1 /\ events'[n + 1] = <<x, q>>
      /\ \A i \in 1..n : events'[i] = events[i]
  BY DEF TypeOK
<1> HIDE DEF n
<1>2. \A e, o, s : Pend(e, o, s) /\ <<x, q>> # <<o, s>> => Pend(e, o, s)'
  <2> SUFFICES ASSUME NEW e, NEW o, NEW s, Pend(e, o, s), <<x, q>> # <<o, s>>
               PROVE  Pend(e, o, s)'
    OBVIOUS
  <2>1. PICK i \in 1..n : /\ events[i] = <<e, s>>
                          /\ \A j \in 1..n : j > i => events[j] # <<o, s>>
    BY DEF Pend, n
  <2>2. i \in 1..(n + 1) /\ events'[i] = <<e, s>>
    BY <1>1, <2>1
  <2>3. \A j \in 1..(n + 1) : j > i => events'[j] # <<o, s>>
    <3> SUFFICES ASSUME NEW j \in 1..(n + 1), j > i PROVE events'[j] # <<o, s>>
      OBVIOUS
    <3>1. j \in 1..n \/ j = n + 1
      BY <1>1
    <3> QED
      BY <1>1, <2>1, <3>1
  <2> QED
    BY <1>1, <2>2, <2>3 DEF Pend
<1>3. \A o, s : Unsaid(o, s) /\ <<x, q>> # <<o, s>> => Unsaid(o, s)'
  <2> SUFFICES ASSUME NEW o, NEW s, Unsaid(o, s), <<x, q>> # <<o, s>>,
                      NEW j \in 1..(n + 1)
               PROVE  events'[j] # <<o, s>>
    BY <1>1 DEF Unsaid
  <2>1. j \in 1..n \/ j = n + 1
    BY <1>1
  <2> QED
    BY <1>1, <2>1 DEF Unsaid, n
<1>4. \A o : Pend(x, o, q)'
  <2>1. n + 1 \in 1..(n + 1) /\ \A j \in 1..(n + 1) : ~(j > n + 1)
    BY <1>1
  <2> QED
    BY <1>1, <2>1 DEF Pend
<1> QED
  BY <1>2, <1>3, <1>4

LEMMA TailPend ==
  ASSUME TypeOK, events # <<>>, events' = Tail(events)
  PROVE  /\ \A e, o, s : Pend(e, o, s) => Pend(e, o, s)' \/ (Head(events) = <<e, s>> /\ Unsaid(o, s)')
         /\ \A o, s : Unsaid(o, s) => Unsaid(o, s)' /\ Head(events) # <<o, s>>
<1> DEFINE n == Len(events)
<1>1. n \in Nat \ {0} /\ Len(events') = n - 1 /\ events[1] = Head(events)
      /\ \A i \in 1..(n - 1) : events'[i] = events[i + 1]
  BY DEF TypeOK
<1> HIDE DEF n
<1>2. \A o, s : Unsaid(o, s) => Unsaid(o, s)' /\ Head(events) # <<o, s>>
  <2> SUFFICES ASSUME NEW o, NEW s, Unsaid(o, s)
               PROVE  Unsaid(o, s)' /\ Head(events) # <<o, s>>
    OBVIOUS
  <2>1. 1 \in 1..n /\ \A i \in 1..(n - 1) : i + 1 \in 1..n
    BY <1>1
  <2> QED
    BY <1>1, <2>1 DEF Unsaid, n
<1>3. ASSUME NEW e, NEW o, NEW s, Pend(e, o, s)
      PROVE  Pend(e, o, s)' \/ (Head(events) = <<e, s>> /\ Unsaid(o, s)')
  <2>1. PICK i \in 1..n : /\ events[i] = <<e, s>>
                          /\ \A j \in 1..n : j > i => events[j] # <<o, s>>
    BY <1>3 DEF Pend, n
  <2>2. \A j \in 1..(n - 1) : j + 1 \in 1..n /\ (j + 1 > i => events'[j] # <<o, s>>)
    BY <1>1, <2>1
  <2>3. CASE i = 1
    <3>1. \A j \in 1..(n - 1) : events'[j] # <<o, s>>
      BY <1>1, <2>2, <2>3
    <3> QED
      BY <1>1, <2>1, <2>3, <3>1 DEF Unsaid
  <2>4. CASE i # 1
    <3>1. i - 1 \in 1..(n - 1) /\ (i - 1) + 1 = i
      BY <1>1, <2>4
    <3>2. events'[i - 1] = <<e, s>>
      BY <1>1, <2>1, <3>1
    <3>3. \A j \in 1..(n - 1) : j > i - 1 => events'[j] # <<o, s>>
      BY <1>1, <2>2
    <3> QED
      BY <1>1, <3>1, <3>2, <3>3 DEF Pend
  <2> QED
    BY <2>3, <2>4
<1> QED
  BY <1>2, <1>3

\* Steps that hand no connection to a row and say nothing new of one.
Silent(x, y) == /\ x.pSystem = y.pSystem
                /\ x.State = y.State \/ x.State \notin {eConnected, eLost}
Steady ==
  \A r \in DOMAIN targets' :
    targets'[r].pSystem # NoSystem => r \in DOMAIN targets /\ Silent(targets'[r], targets[r])

LEMMA SameSteady ==
  ASSUME UNCHANGED targets
  PROVE  Steady
BY DEF Steady, Silent

LEMMA PutSteady ==
  ASSUME NEW r, NEW x, targets' = Put(r, x),
         x.pSystem = NoSystem \/ (r \in DOMAIN targets /\ Silent(x, targets[r]))
  PROVE  Steady
BY DEF Steady, Silent, Put

LEMMA DropSteady ==
  ASSUME NEW gone, targets' = Drop(gone)
  PROVE  Steady
BY DEF Steady, Silent, Drop

LEMMA QueueKept ==
  ASSUME QueueInv, Steady, UNCHANGED events,
         \A r \in DOMAIN targets' : LET s == targets'[r].pSystem IN
           s # NoSystem => link'[s] = link[s]
  PROVE  QueueInv'
<1> SUFFICES ASSUME NEW r \in DOMAIN targets', targets'[r].pSystem # NoSystem
             PROVE  RowShown(targets[r])'
  BY DEF QueueInv
<1> DEFINE s == targets[r].pSystem
<1>1. /\ r \in DOMAIN targets /\ targets'[r].pSystem = s
      /\ targets'[r].State = targets[r].State \/ targets'[r].State \notin {eConnected, eLost}
  BY DEF Steady, Silent
<1>2. link'[s] = link[s] /\ RowShown(targets[r])
  BY <1>1 DEF QueueInv
<1>3. ASSUME NEW e, NEW o
      PROVE  /\ Pend(e, o, s) => Pend(e, o, targets[r].pSystem)'
             /\ Unsaid(o, s) => Unsaid(o, targets[r].pSystem)'
  <2> HIDE DEF s
  <2>1. targets'[r].pSystem = s /\ events' = events
    BY <1>1
  <2>2. Pend(e, o, s) => Pend(e, o, targets[r].pSystem)'
    BY <2>1 DEF Pend
  <2>3. Unsaid(o, s) => Unsaid(o, targets[r].pSystem)'
    BY <2>1 DEF Unsaid
  <2> QED BY <2>2, <2>3
<1>4. ASSUME NEW wrong \in {eConnected, eLost}, NEW e, NEW o, Corrected(targets[r], wrong, e, o)
      PROVE  Corrected(targets[r], wrong, e, o)'
  BY <1>1, <1>3, <1>4 DEF Corrected
<1> QED
  BY <1>1, <1>2, <1>4 DEF RowShown

LEMMA FreshKept ==
  ASSUME TypeOK, HeardIsOpen, NewIsFresh, NoNewCall, UNCHANGED <<events, link>>,
         heard' \subseteq heard, posted' \subseteq posted
  PROVE  HeardIsOpen' /\ NewIsFresh'
BY DEF HeardIsOpen, NewIsFresh, NoNewCall

\* A step that leaves the outside as it is.
LEMMA LinkKept ==
  ASSUME TypeOK, LinkInv, Steady, NoNewCall, UNCHANGED <<link, heard, events, posted>>
  PROVE  LinkInv'
BY QueueKept, FreshKept DEF LinkInv

\* A Connect that begins says nothing of a connection.
LEMMA BeginConnectLink ==
  ASSUME TypeOK, LinkInv, NEW t \in Threads, NEW c \in Call, c.new = NoSystem,
         BeginConnect(t, c)
  PROVE  LinkInv'
<1> DEFINE r == FindTarget(c.name)
           x == [targets[r] EXCEPT !.Address = c.address]
           e == [Name |-> c.name, Address |-> c.address, MachineId |-> NoId]
<1>1. NoNewCall /\ UNCHANGED <<link, heard, events, posted>>
  BY BeginConnectPointer DEF BeginConnect, world
<1>2. CASE r # 0 /\ targets[r].Address = c.address
  BY <1>1, <1>2, SameSteady, LinkKept DEF BeginConnect, AddTarget
<1>3. CASE r # 0 /\ targets[r].Address # c.address
  <2>1. r \in DOMAIN targets /\ targets[r] \in STarget
    BY <1>3, FindTargetFinds DEF TypeOK
  <2>2. Silent(x, targets[r])
    BY <2>1 DEF STarget, Silent
  <2>3. targets' = Put(r, x)
    BY <1>3 DEF BeginConnect, AddTarget
  <2> QED
    BY <1>1, <2>1, <2>2, <2>3, PutSteady, LinkKept
<1>4. CASE r = 0
  <2>1. targets' = Put(NextRow, NewTarget(e))
    BY <1>4 DEF BeginConnect, AddTarget
  <2>2. NewTarget(e).pSystem = NoSystem
    BY DEF NewTarget
  <2> QED
    BY <1>1, <2>1, <2>2, PutSteady, LinkKept
<1> QED
  BY <1>2, <1>3, <1>4

\* Closing a system no row and no call has any more.
LEMMA CloseLink ==
  ASSUME TypeOK, LinkInv, NEW s \in Systems, Close(s), Steady, NoNewCall,
         UNCHANGED <<events, posted>>,
         \A r \in DOMAIN targets' : targets'[r].pSystem # s,
         \A t \in Threads : call'[t].new # s
  PROVE  LinkInv'
<1>1. \A q \in Systems \ {s} : link'[q] = link[q]
  BY DEF Close, TypeOK
<1>2. /\ \A r \in DOMAIN targets : targets[r].pSystem \in Systems \cup {NoSystem}
      /\ \A t \in Threads : call[t].new \in Systems \cup {NoSystem}
      /\ heard \subseteq Systems
  BY DEF TypeOK, STarget, Call
<1>3. QueueInv'
  BY <1>1, <1>2, QueueKept DEF LinkInv, Steady, Silent
<1>4. HeardIsOpen'
  BY <1>1, <1>2 DEF LinkInv, HeardIsOpen, Close
<1>5. NewIsFresh'
  BY <1>1, <1>2 DEF LinkInv, NewIsFresh, NoNewCall, Close
<1> QED
  BY <1>3, <1>4, <1>5 DEF LinkInv

LEMMA DisconnectLink ==
  ASSUME TypeOK, DirectoryInv, LinkInv, NEW n, DisconnectName(n), NoNewCall,
         UNCHANGED <<events, posted>>
  PROVE  LinkInv'
<1> DEFINE r == FindTarget(n)
           s == targets[r].pSystem
           x == [targets[r] EXCEPT !.pSystem = NoSystem, !.State = eSaved]
<1>1. CASE r = 0 \/ s = NoSystem
  BY <1>1, SameSteady, LinkKept DEF DisconnectName, list
<1>2. CASE ~(r = 0 \/ s = NoSystem)
  <2>1. r \in DOMAIN targets /\ targets[r] \in STarget /\ s \in Systems
    BY <1>2, FindTargetFinds DEF TypeOK, STarget
  <2>2. targets' = Put(r, x) /\ Close(s)
    BY <1>2 DEF DisconnectName
  <2>3. x.pSystem = NoSystem
    BY <2>1 DEF STarget
  <2>4. Steady
    BY <2>2, <2>3, PutSteady
  <2>5. \A q \in DOMAIN targets' : targets'[q].pSystem # s
    BY <1>2, <2>1, <2>2, <2>3 DEF Put, DirectoryInv, RowsHoldNodes
  <2>6. \A t \in Threads : call'[t].new # s
    BY <1>2, <2>1 DEF DirectoryInv, NewIsOwn, NoNewCall
  <2> QED
    BY <2>1, <2>2, <2>4, <2>5, <2>6, CloseLink
<1> QED
  BY <1>1, <1>2

\* The steps of a Connect other than the handshake hand no new system to a call.
LEMMA ConnectStepCalls ==
  ASSUME TypeOK, NEW t \in Threads, ConnectStep(t)
  PROVE  NoNewCall \/ \E m \in Ids : Handshake(t, m)
<1> DEFINE c == call[t]
<1>1. CallOK /\ c \in Call
  BY TypeParts DEF CallOK
<1>2. /\ ReturnSystem(t, c).new \in {c.new, NoSystem} /\ ReturnNull(t, c).new = NoSystem
      /\ ThenStore(c).new = c.new
      /\ [NoCall EXCEPT !.pc = "remove", !.name = c.name].new = NoSystem
  BY <1>1, NoCallTyped, NoCallNew DEF ReturnSystem, ReturnNull, ThenStore, Call
<1>3. CASE StoreTargets(t) \/ Written(t) \/ CheckUp(t) \/ ReadExpected(t)
  BY <1>1, <1>2, <1>3, NoCallNew
     DEF StoreTargets, Written, CheckUp, ReadExpected, Done, NoNewCall, CallOK, Call
<1>4. CASE HandshakeFails(t)
  BY <1>1, <1>4 DEF HandshakeFails, NoNewCall, CallOK, Call
<1>5. CASE CommitConnected(t)
  BY <1>1, <1>5 DEF CommitConnected, NoNewCall, CallOK, Call
<1>6. CASE CreateRefused(t) \/ CommitGone(t) \/ CommitFailed(t)
  BY <1>1, <1>2, <1>6, CallLoses DEF CreateRefused, CommitGone, CommitFailed
<1>7. CASE MarkDaemon(t) \/ ForgetDaemon(t) \/ RemoveRow(t)
  BY <1>1, <1>2, <1>7, CallLoses, NoCallNew DEF MarkDaemon, Mark, ForgetDaemon, RemoveRow, Done
<1> QED
  BY <1>3, <1>4, <1>5, <1>6, <1>7 DEF ConnectStep

\* A row that is handed a fresh system is right about it.
LEMMA CommitQueue ==
  ASSUME QueueInv, NEW r \in DOMAIN targets, NEW s, link[s] = "up",
         \A i \in 1..Len(events) : events[i][2] # s,
         DOMAIN targets' = DOMAIN targets,
         targets'[r].pSystem = s, targets'[r].State = eConnected,
         \A q \in DOMAIN targets \ {r} : targets'[q] = targets[q],
         UNCHANGED <<link, events>>
  PROVE  QueueInv'
<1>1. RowShown(targets[r])'
  <2>1. \A i \in 1..Len(events) : events[i] # <<"ConnectionLost", s>>
    OBVIOUS
  <2>2. Unsaid("ConnectionLost", targets[r].pSystem)'
    BY <2>1 DEF Unsaid
  <2> QED
    BY <2>2 DEF RowShown, Corrected, eConnected, eLost
<1>2. ASSUME NEW q \in DOMAIN targets \ {r}, targets'[q].pSystem # NoSystem
      PROVE  RowShown(targets[q])'
  <2>1. targets'[q] = targets[q] /\ RowShown(targets[q])
    BY <1>2 DEF QueueInv
  <2> DEFINE s1 == targets[q].pSystem
  <2>2. targets'[q].pSystem = s1 /\ events' = events
    BY <2>1
  <2>3. \A e, o : Pend(e, o, s1) => Pend(e, o, targets[q].pSystem)'
    BY <2>2 DEF Pend
  <2>4. \A o : Unsaid(o, s1) => Unsaid(o, targets[q].pSystem)'
    BY <2>2 DEF Unsaid
  <2> QED
    BY <2>1, <2>3, <2>4 DEF RowShown, Corrected
<1> QED
  BY <1>1, <1>2 DEF QueueInv

LEMMA ConnectStepLink ==
  ASSUME TypeOK, DirectoryInv, LinkInv, NEW t \in Threads, ConnectStep(t)
  PROVE  LinkInv'
<1> DEFINE c == call[t]
           r == FindTarget(c.name)
<1>1. CallOK /\ c \in Call
  BY TypeParts DEF CallOK
<1>2. r # 0 => r \in DOMAIN targets /\ targets[r] \in STarget
  BY FindTargetFinds DEF TypeOK
<1>3. ASSUME NEW m \in Ids, Handshake(t, m)
      PROVE  LinkInv'
  <2> DEFINE s == CHOOSE x \in Unused : TRUE
  <2>1. /\ s \in Systems /\ link[s] = "closed" /\ s \notin posted
        /\ \A i \in 1..Len(events) : events[i][2] # s
    BY <1>3 DEF Handshake, Unused
  <2>2. /\ link' = [link EXCEPT ![s] = "up"]
        /\ UNCHANGED <<targets, heard, events, posted>>
    BY <1>3 DEF Handshake, list
  <2>3. \A u \in Threads : call'[u].new = IF u = t THEN s ELSE call[u].new
    BY <1>1, <1>3 DEF Handshake, CallOK, Call
  <2> HIDE DEF s
  <2>4. link'[s] = "up" /\ \A x \in Systems \ {s} : link'[x] = link[x]
    BY <2>1, <2>2 DEF TypeOK
  <2>5. /\ \A q \in DOMAIN targets : targets[q].pSystem \in (Systems \ {s}) \cup {NoSystem}
        /\ \A u \in Threads : call[u].new \in (Systems \ {s}) \cup {NoSystem}
        /\ heard \subseteq Systems \ {s}
    BY <2>1 DEF TypeOK, STarget, Call, DirectoryInv, RowsHoldNodes, NewIsOwn, LinkInv, HeardIsOpen
  <2>6. QueueInv'
    BY <2>2, <2>4, <2>5, SameSteady, QueueKept DEF LinkInv
  <2>7. HeardIsOpen'
    BY <2>2, <2>4, <2>5 DEF LinkInv, HeardIsOpen
  <2>8. NewIsFresh'
    BY <2>1, <2>2, <2>3, <2>4, <2>5 DEF LinkInv, NewIsFresh
  <2> QED
    BY <2>6, <2>7, <2>8 DEF LinkInv
<1>4. CASE ~\E m \in Ids : Handshake(t, m)
  <2>1. NoNewCall
    BY <1>4, ConnectStepCalls
  <2>2. CASE StoreTargets(t) \/ Written(t) \/ ReadExpected(t) \/ CreateRefused(t) \/ HandshakeFails(t)
    BY <2>1, <2>2, SameSteady, LinkKept
       DEF StoreTargets, Written, ReadExpected, CreateRefused, HandshakeFails, list, world
  <2>3. CASE CheckUp(t)
    <3>1. r # 0 => Silent([targets[r] EXCEPT !.State = eConnecting], targets[r])
      BY <1>2 DEF STarget, Silent, eConnecting, eConnected, eLost
    <3>2. Steady
      BY <1>2, <2>3, <3>1, PutSteady, SameSteady DEF CheckUp
    <3> QED
      BY <2>1, <2>3, <3>2, LinkKept DEF CheckUp, world
  <2>4. CASE CommitGone(t)
    <3> DEFINE s == c.new
    <3>1. CASE s = NoSystem
      BY <2>1, <2>4, <3>1, SameSteady, LinkKept DEF CommitGone, list
    <3>2. CASE s # NoSystem
      <4>1. s \in Systems /\ Close(s) /\ UNCHANGED <<targets, events, posted>>
        BY <1>1, <2>4, <3>2 DEF CommitGone, list, Call
      <4>2. \A q \in DOMAIN targets' : targets'[q].pSystem # s
        BY <3>2, <4>1 DEF DirectoryInv, NewIsOwn
      <4>3. \A u \in Threads : call'[u].new # s
        <5>1. ReturnNull(t, c).new = NoSystem
          BY <1>1, NoCallTyped, NoCallNew DEF ReturnNull, Call
        <5>2. call'[t].new = NoSystem
          BY <1>1, <2>4, <5>1 DEF CommitGone, CallOK
        <5>3. \A u \in Threads \ {t} : call[u].new # s
          BY <3>2 DEF DirectoryInv, NewIsOwn
        <5> QED
          BY <2>1, <3>2, <5>2, <5>3 DEF NoNewCall
      <4> QED
        BY <2>1, <4>1, <4>2, <4>3, SameSteady, CloseLink
    <3> QED
      BY <3>1, <3>2
  <2>5. CASE CommitFailed(t)
    <3>1. r # 0 /\ targets' = Put(r, Failed(r, c.status))
      BY <2>5 DEF CommitFailed
    <3>2. Silent(Failed(r, c.status), targets[r])
      BY <1>2, <3>1 DEF Failed, STarget, Silent, eFailed, eConnected, eLost
    <3> QED
      BY <1>2, <2>1, <2>5, <3>1, <3>2, PutSteady, LinkKept DEF CommitFailed, world
  <2>6. CASE CommitConnected(t)
    <3> DEFINE s == c.new
               x == [targets[r] EXCEPT !.State = eConnected, !.LastError = NoError,
                                       !.pSystem = s, !.MachineId = machine[s]]
    <3>1. /\ r \in DOMAIN targets /\ s # NoSystem
          /\ targets' = Put(r, x) /\ heard' = heard \cup {s}
          /\ UNCHANGED <<link, events, posted>>
      BY <1>2, <2>6 DEF CommitConnected, Listen
    <3>2. x.pSystem = s /\ x.State = eConnected
      BY <1>2, <3>1 DEF STarget
    <3>3. /\ DOMAIN targets' = DOMAIN targets
          /\ targets'[r].pSystem = s /\ targets'[r].State = eConnected
          /\ \A q \in DOMAIN targets \ {r} : targets'[q] = targets[q]
      BY <3>1, <3>2 DEF Put
    <3> HIDE DEF x
    <3>4. /\ link[s] = "up" /\ s \notin heard /\ s \notin posted
          /\ \A i \in 1..Len(events) : events[i][2] # s
      BY <3>1 DEF LinkInv, NewIsFresh
    <3>5. QueueInv'
      BY <3>1, <3>3, <3>4, CommitQueue DEF LinkInv
    <3>6. HeardIsOpen'
      BY <3>1, <3>4 DEF LinkInv, HeardIsOpen
    <3>7. NewIsFresh'
      <4>1. \A u \in Threads : call'[u].new = IF u = t THEN NoSystem ELSE call[u].new
        BY <1>1, <2>6 DEF CommitConnected, CallOK, Call
      <4>2. \A u \in Threads \ {t} : call[u].new # s
        BY <3>1 DEF DirectoryInv, NewIsOwn
      <4> QED
        BY <3>1, <4>1, <4>2 DEF LinkInv, NewIsFresh
    <3> QED
      BY <3>5, <3>6, <3>7 DEF LinkInv
  <2>7. CASE MarkDaemon(t)
    <3>1. r # 0 => Silent([targets[r] EXCEPT !.bLocalDaemon = TRUE], targets[r])
      BY <1>2 DEF STarget, Silent
    <3>2. Steady
      BY <1>2, <2>7, <3>1, PutSteady, SameSteady DEF MarkDaemon, Mark
    <3> QED
      BY <2>1, <2>7, <3>2, LinkKept DEF MarkDaemon, Mark, world
  <2>8. CASE ForgetDaemon(t)
    BY <2>1, <2>8, DisconnectLink DEF ForgetDaemon
  <2>9. CASE RemoveRow(t)
    <3>1. Steady
      BY <2>9, SameSteady, DropSteady DEF RemoveRow
    <3> QED
      BY <2>1, <2>9, <3>1, LinkKept DEF RemoveRow, world
  <2> QED
    BY <1>4, <2>2, <2>3, <2>4, <2>5, <2>6, <2>7, <2>8, <2>9 DEF ConnectStep
<1> QED
  BY <1>3, <1>4

LEMMA StartupLink ==
  ASSUME TypeOK, LinkInv, Startup \/ Worker
  PROVE  LinkInv'
<1>1. CASE ConnectSavedTargets \/ NoLocalDaemon
  BY <1>1, SameSteady, LinkKept DEF ConnectSavedTargets, NoLocalDaemon, list, world, NoNewCall
<1>2. CASE ConnectLocalDaemon
  <2> DEFINE c == [NoCall EXCEPT !.takeView = TRUE, !.daemon = TRUE]
  <2>1. c \in Call /\ c.new = NoSystem
    BY NoCallTyped, NoCallNew DEF Call
  <2> QED
    BY <1>2, <2>1, BeginConnectLink DEF ConnectLocalDaemon, Threads
<1>3. ASSUME NEW w \in work, ConnectByWorker(w)
      PROVE  LinkInv'
  <2> DEFINE c == [NoCall EXCEPT !.name = w.name, !.address = w.address]
  <2>1. c \in Call /\ c.new = NoSystem
    BY NoCallTyped, NoCallNew DEF Call, TypeOK
  <2> QED
    BY <1>3, <2>1, BeginConnectLink DEF ConnectByWorker, Threads
<1> QED
  BY <1>1, <1>2, <1>3 DEF Startup, Worker

LEMMA UserLink ==
  ASSUME TypeOK, DirectoryInv, LinkInv, User
  PROVE  LinkInv'
<1>1. CallOK /\ "gui" \in Threads /\ call["gui"] \in Call
  BY TypeParts DEF CallOK, Threads
<1>2. \A r \in DOMAIN targets : targets[r] \in STarget
  BY DEF TypeOK
<1>3. ASSUME NEW n \in UserNames \cup {targets[r].Name : r \in DOMAIN targets},
             NEW a \in Addresses, ConnectByUser(n, a)
      PROVE  LinkInv'
  <2> DEFINE c == [NoCall EXCEPT !.name = n, !.address = a, !.takeView = TRUE]
  <2>1. n \in Names
    BY <1>2, <1>3 DEF STarget, Names
  <2>2. c \in Call /\ c.new = NoSystem
    BY <2>1, NoCallTyped, NoCallNew DEF Call
  <2> QED
    BY <1>1, <1>3, <2>2, BeginConnectLink DEF ConnectByUser
<1>4. CASE AcceptNew
  <2> DEFINE c == [NoCall EXCEPT !.name = call["gui"].name, !.address = call["gui"].address,
                                 !.identity = eAcceptNew, !.takeView = TRUE]
  <2>1. c \in Call /\ c.new = NoSystem
    BY <1>1, NoCallTyped, NoCallNew DEF Call
  <2> QED
    BY <1>1, <1>4, <2>1, BeginConnectLink DEF AcceptNew
<1>5. CASE DeclineNew
  <2>1. NoNewCall
    BY <1>1, <1>5, NoCallNew, CallLoses DEF DeclineNew, Done
  <2> QED
    BY <1>5, <2>1, SameSteady, LinkKept DEF DeclineNew, list, world
<1>6. ASSUME NEW r \in Rows, Disconnect(r)
      PROVE  LinkInv'
  BY <1>6, DisconnectLink DEF Disconnect, NoNewCall
<1>7. ASSUME NEW r \in Rows, RemoveTarget(r)
      PROVE  LinkInv'
  <2>1. [NoCall EXCEPT !.pc = "remove", !.name = targets[r].Name].new = NoSystem
    BY NoCallTyped, NoCallNew DEF Call
  <2>2. NoNewCall
    BY <1>1, <1>7, <2>1, CallLoses DEF RemoveTarget
  <2> QED
    BY <1>7, <2>2, DisconnectLink DEF RemoveTarget
<1>8. ASSUME NEW r \in DOMAIN targets, NEW n \in NewNames \cup {targets[r].Name},
             NEW a \in Addresses, UpdateTarget(r, n, a)
      PROVE  LinkInv'
  <2> DEFINE x == [targets[r] EXCEPT !.Name = n, !.Address = a,
                                     !.State = IF @ = eDiscovered THEN eSaved ELSE @]
  <2>1. Silent(x, targets[r])
    BY <1>2 DEF STarget, Silent, eDiscovered, eSaved, eConnected, eLost
  <2>2. targets' = Put(r, x)
    BY <1>8 DEF UpdateTarget
  <2>3. Steady
    BY <2>1, <2>2, PutSteady
  <2>4. ThenStore(NoCall).new = NoSystem
    BY NoCallTyped, NoCallNew DEF ThenStore, Call
  <2>5. NoNewCall
    BY <1>1, <1>8, <2>4, CallLoses DEF UpdateTarget
  <2> QED
    BY <1>8, <2>3, <2>5, LinkKept DEF UpdateTarget, world
<1>9. CASE StartDiscovery \/ SetClusterMode \/ \E s \in Clicks : SetViewSystem(s) \/ SetGraphSystem(s)
  BY <1>9, SameSteady, LinkKept
     DEF StartDiscovery, SetClusterMode, SetViewSystem, SetGraphSystem, list, world, NoNewCall
<1>10. CASE StopDiscovery
  BY <1>10, DropSteady, LinkKept DEF StopDiscovery, world, NoNewCall
<1>11. ASSUME NEW a \in Announced, OnDiscovered(a)
       PROVE  LinkInv'
  <2> DEFINE e == [Name |-> Label(a), Address |-> a.Address, MachineId |-> a.MachineId]
             x == [NewTarget(e) EXCEPT !.State = eDiscovered]
  <2>1. x.pSystem = NoSystem
    BY DEF NewTarget
  <2>2. targets' = Put(NextRow, x)
    BY <1>11 DEF OnDiscovered
  <2>3. Steady
    BY <2>1, <2>2, PutSteady
  <2> QED
    BY <1>11, <2>3, LinkKept DEF OnDiscovered, world, NoNewCall
<1> QED
  BY <1>3, <1>4, <1>5, <1>6, <1>7, <1>8, <1>9, <1>10, <1>11 DEF User

\* A signal about s is queued, or a signal is taken from the queue: what that does
\* to a row of another system, and to the row of s.
LEMMA OtherShown ==
  ASSUME TypeOK, NEW x, NEW y, RowShown(x), x.pSystem # y, link'[x.pSystem] = link[x.pSystem],
         \/ \E e : events' = Append(events, <<e, y>>)
         \/ events # <<>> /\ events' = Tail(events) /\ Head(events)[2] = y
  PROVE  RowShown(x)'
<1> DEFINE s == x.pSystem
<1>1. \A e : <<e, y>> # <<e, s>>
  OBVIOUS
<1>2. \A e, o : Pend(e, o, s) => Pend(e, o, s)'
  <2>1. CASE \E e : events' = Append(events, <<e, y>>)
    BY <2>1, AppendPend
  <2>2. CASE events # <<>> /\ events' = Tail(events) /\ Head(events)[2] = y
    BY <2>2, TailPend
  <2> QED
    BY <2>1, <2>2
<1>3. \A o : Unsaid(o, s) => Unsaid(o, s)'
  <2>1. CASE \E e : events' = Append(events, <<e, y>>)
    BY <2>1, AppendPend
  <2>2. CASE events # <<>> /\ events' = Tail(events) /\ Head(events)[2] = y
    BY <2>2, TailPend
  <2> QED
    BY <2>1, <2>2
<1> QED
  BY <1>2, <1>3 DEF RowShown, Corrected

\* A signal emitted as the link changes is the queue's last word on it.
LEMMA EmitShown ==
  ASSUME TypeOK, NEW x, x.pSystem \in Systems, NEW e, Emit(e, x.pSystem),
         \/ e = "ConnectionLost" /\ link'[x.pSystem] = "down"
         \/ e = "Reconnected" /\ link'[x.pSystem] = "up"
         \/ e = "ReconnectRefused" /\ link'[x.pSystem] = link[x.pSystem] /\ RowShown(x)
  PROVE  RowShown(x)'
<1> DEFINE s == x.pSystem
<1>1. events' = Append(events, <<e, s>>)
  BY DEF Emit
<1>2. \A o : Pend(e, o, s)'
  BY <1>1, AppendPend
<1>3. CASE e # "ReconnectRefused"
  BY <1>2, <1>3 DEF RowShown, Corrected
<1>4. CASE e = "ReconnectRefused"
  <2>1. \A o \in {"ConnectionLost", "Reconnected"} : <<e, s>> # <<o, s>>
    BY <1>4
  <2>2. \A o \in {"ConnectionLost", "Reconnected"} :
          /\ \A f : Pend(f, o, s) => Pend(f, o, s)'
          /\ Unsaid(o, s) => Unsaid(o, s)'
    BY <1>1, <2>1, AppendPend
  <2> QED
    BY <1>4, <2>2 DEF RowShown, Corrected
<1> QED
  BY <1>3, <1>4

\* A slot leaves its row right, or still to be corrected by a later signal.
LEMMA SlotShown ==
  ASSUME TypeOK, NEW x, NEW y, NEW e, RowShown(x), y.pSystem = x.pSystem, UNCHANGED link,
         events # <<>>, events' = Tail(events), Head(events) = <<e, x.pSystem>>,
         \/ e = "ConnectionLost" /\ y.State = eLost
         \/ e = "Reconnected" /\ y.State = eConnected
         \/ e = "ReconnectRefused" /\ y.State = eFailed
  PROVE  RowShown(y)'
<1> DEFINE s == x.pSystem
<1>1. /\ \A f, o : Pend(f, o, s) => Pend(f, o, s)' \/ (<<e, s>> = <<f, s>> /\ Unsaid(o, s)')
      /\ \A o : Unsaid(o, s) => Unsaid(o, s)' /\ <<e, s>> # <<o, s>>
  BY TailPend
<1>2. /\ \A f, o : Pend(f, o, s) => Pend(f, o, s)' \/ (e = f /\ Unsaid(o, s)')
      /\ \A o : Unsaid(o, s) => Unsaid(o, s)' /\ e # o
  BY <1>1
<1>3. /\ link[s] = "down" => \/ Unsaid("Reconnected", s)
                             \/ Pend("ConnectionLost", "Reconnected", s)
      /\ link[s] = "up" => \/ Unsaid("ConnectionLost", s)
                           \/ Pend("Reconnected", "ConnectionLost", s)
  BY DEF RowShown, Corrected
<1>4. /\ link'[s] = "down" => \/ y.State # eConnected /\ Unsaid("Reconnected", s)'
                              \/ Pend("ConnectionLost", "Reconnected", s)'
      /\ link'[s] = "up" => \/ y.State # eLost /\ Unsaid("ConnectionLost", s)'
                            \/ Pend("Reconnected", "ConnectionLost", s)'
  BY <1>2, <1>3 DEF eConnected, eLost, eFailed
<1> QED
  BY <1>4 DEF RowShown, Corrected

LEMMA RowByRow ==
  ASSUME \A r \in DOMAIN targets' : \A x :
           x = targets'[r] /\ x.pSystem # NoSystem => RowShown(x)'
  PROVE  QueueInv'
BY DEF QueueInv

LEMMA ConnectionsLink ==
  ASSUME TypeOK, DirectoryInv, LinkInv, ~MayDropEarly, Connections
  PROVE  LinkInv'
<1>1. /\ \A r \in DOMAIN targets : targets[r] \in STarget
      /\ \A r \in DOMAIN targets : targets[r].pSystem \in Systems \cup {NoSystem}
  BY DEF TypeOK, STarget
<1>2. UNCHANGED <<call, heard>>
  BY DEF Connections, LinkLost, TryReconnectInVain, TryReconnectAnswered, RetryLostNodes, Tick,
         Deliver, world
<1>3. NoNewCall
  BY <1>2 DEF NoNewCall
<1>4. /\ QueueInv /\ HeardIsOpen /\ NewIsFresh
      /\ \A r \in DOMAIN targets : targets[r].pSystem # NoSystem => RowShown(targets[r])
  BY DEF LinkInv, QueueInv
<1>5. ASSUME NEW s \in Systems, NEW e, events' = Append(events, <<e, s>>),
             \A t \in Threads : call[t].new # s, posted' \subseteq posted,
             \A q \in Systems \ {s} : link'[q] = link[q]
      PROVE  NewIsFresh'
  <2>1. \A i \in 1..Len(events') : events'[i][2] = s \/ (i \in 1..Len(events) /\ events'[i] = events[i])
    BY <1>5 DEF TypeOK
  <2>2. \A t \in Threads : call[t].new \in (Systems \ {s}) \cup {NoSystem}
    BY <1>5 DEF TypeOK, Call
  <2> QED
    BY <1>2, <1>4, <1>5, <2>1, <2>2 DEF NewIsFresh
<1>6. ASSUME NEW s \in Systems, LinkLost(s)
      PROVE  LinkInv'
  <2>1. /\ s \in heard /\ events' = Append(events, <<"ConnectionLost", s>>)
        /\ UNCHANGED <<targets, posted>> /\ link' = [link EXCEPT ![s] = "down"]
    BY <1>6 DEF LinkLost, Emit, list
  <2>2. link'[s] = "down" /\ \A q \in Systems \ {s} : link'[q] = link[q]
    BY <2>1 DEF TypeOK
  <2>3. \A t \in Threads : call[t].new # s
    BY <1>4, <2>1, ClusterAssumption DEF NewIsFresh
  <2>4. NewIsFresh'
    BY <1>5, <2>1, <2>2, <2>3
  <2>5. HeardIsOpen'
    BY <1>2, <1>4, <2>1, <2>2 DEF HeardIsOpen, TypeOK
  <2>6. ASSUME NEW r \in DOMAIN targets', NEW x, x = targets'[r], x.pSystem # NoSystem
        PROVE  RowShown(x)'
    <3>1. x = targets[r] /\ r \in DOMAIN targets /\ x.pSystem \in Systems
      BY <1>1, <2>1, <2>6
    <3>2. RowShown(x)
      BY <1>4, <2>6, <3>1
    <3>3. CASE x.pSystem = s
      BY <2>1, <2>2, <3>3, EmitShown DEF Emit
    <3>4. CASE x.pSystem # s
      BY <2>1, <2>2, <3>1, <3>2, <3>4, OtherShown
    <3> QED
      BY <3>3, <3>4
  <2>7. QueueInv'
    BY <2>6, RowByRow
  <2> QED
    BY <2>4, <2>5, <2>7 DEF LinkInv
<1>7. ASSUME NEW s \in Systems, TryReconnectInVain(s)
      PROVE  LinkInv'
  <2>1. UNCHANGED <<targets, link, events>> /\ posted' \subseteq posted
    BY <1>7 DEF TryReconnectInVain, list
  <2>2. QueueInv'
    BY <1>4, <2>1, SameSteady, QueueKept
  <2> QED
    BY <1>2, <1>3, <1>4, <2>1, <2>2, FreshKept DEF LinkInv
<1>8. ASSUME NEW s \in Systems, NEW m \in Ids, TryReconnectAnswered(s, m)
      PROVE  LinkInv'
  <2>1. PICK e \in {"Reconnected", "ReconnectRefused"} :
          /\ events' = Append(events, <<e, s>>)
          /\ link' = IF e = "Reconnected" THEN [link EXCEPT ![s] = "up"] ELSE link
    BY <1>8 DEF TryReconnectAnswered, Emit
  <2>2. s \in posted /\ posted' \subseteq posted /\ UNCHANGED targets
    BY <1>8 DEF TryReconnectAnswered, list
  <2>3. /\ link'[s] = IF e = "Reconnected" THEN "up" ELSE link[s]
        /\ \A q \in Systems \ {s} : link'[q] = link[q]
    BY <2>1 DEF TypeOK
  <2>4. \A t \in Threads : call[t].new # s
    BY <1>4, <2>2, ClusterAssumption DEF NewIsFresh
  <2>5. NewIsFresh'
    BY <1>5, <2>1, <2>2, <2>3, <2>4
  <2>6. HeardIsOpen'
    BY <1>2, <1>4, <2>3 DEF HeardIsOpen, TypeOK
  <2>7. ASSUME NEW r \in DOMAIN targets', NEW x, x = targets'[r], x.pSystem # NoSystem
        PROVE  RowShown(x)'
    <3>1. x = targets[r] /\ r \in DOMAIN targets /\ x.pSystem \in Systems
      BY <1>1, <2>2, <2>7
    <3>2. RowShown(x)
      BY <1>4, <2>7, <3>1
    <3>3. CASE x.pSystem = s
      <4>1. Emit(e, x.pSystem)
        BY <2>1, <3>3 DEF Emit
      <4> QED
        BY <2>3, <3>1, <3>2, <3>3, <4>1, EmitShown
    <3>4. CASE x.pSystem # s
      BY <2>1, <2>3, <3>1, <3>2, <3>4, OtherShown
    <3> QED
      BY <3>3, <3>4
  <2>8. QueueInv'
    BY <2>7, RowByRow
  <2> QED
    BY <2>5, <2>6, <2>8 DEF LinkInv
<1>9. CASE RetryLostNodes
  <2>1. Steady
    BY <1>1, <1>9 DEF RetryLostNodes, Steady, Silent, STarget
  <2>2. UNCHANGED <<link, events>> /\ posted' = posted \cup {targets[r].pSystem : r \in Due}
    BY <1>9 DEF RetryLostNodes
  <2>3. QueueInv'
    BY <1>4, <2>1, <2>2, QueueKept
  <2>4. HeardIsOpen'
    BY <1>2, <1>4, <2>2 DEF HeardIsOpen
  <2>5. NewIsFresh'
    <3>1. \A t \in Threads : call[t].new # NoSystem =>
            call[t].new \notin {targets[r].pSystem : r \in Due}
      BY DEF DirectoryInv, NewIsOwn, Due
    <3> QED
      BY <1>2, <1>4, <2>2, <3>1 DEF NewIsFresh
  <2> QED
    BY <2>3, <2>4, <2>5 DEF LinkInv
<1>10. CASE Tick
  <2>1. Steady
    BY <1>1, <1>10 DEF Tick, Steady, Silent, STarget
  <2> QED
    BY <1>3, <1>10, <2>1, LinkKept DEF Tick, world
<1>11. ASSUME NEW e \in {"ConnectionLost", "Reconnected", "ReconnectRefused"}, Deliver(e)
       PROVE  LinkInv'
  <2>1. /\ events # <<>> /\ events' = Tail(events) /\ Head(events)[1] = e
        /\ UNCHANGED <<link, posted>>
    BY <1>11 DEF Deliver
  <2>2. PICK s \in Systems : Head(events) = <<e, s>>
    BY <2>1 DEF TypeOK, Events
  <2>3. s # NoSystem /\ Head(events)[2] = s
    BY <2>2, ClusterAssumption
  <2>4. NewIsFresh' /\ HeardIsOpen'
    <3>1. \A i \in 1..Len(events') : i + 1 \in 1..Len(events) /\ events'[i] = events[i + 1]
      BY <2>1 DEF TypeOK
    <3> QED
      BY <1>2, <1>4, <2>1, <3>1 DEF NewIsFresh, HeardIsOpen
  <2> DEFINE p == RowOf(s)
  <2>5. p # 0 => p \in DOMAIN targets /\ targets[p].pSystem = s /\ targets[p] \in STarget
    BY <1>1, RowOfFinds
  <2>6. \A q \in DOMAIN targets : targets[q].pSystem = s => p # 0 /\ q = p
    <3> SUFFICES ASSUME NEW q \in DOMAIN targets, targets[q].pSystem = s PROVE p # 0 /\ q = p
      OBVIOUS
    <3>1. RowsOf(s) # {} /\ RowsOf(s) \subseteq Nat \ {0}
      BY DEF RowsOf, TypeOK, Rows
    <3>2. \E r \in RowsOf(s) : \A z \in RowsOf(s) : r <= z
      BY <3>1, LeastExists
    <3>3. p \in RowsOf(s)
      BY <3>1, <3>2 DEF RowOf
    <3>4. p # 0
      BY <3>1, <3>3
    <3>5. p \in DOMAIN targets /\ targets[p].pSystem = s
      BY <2>5, <3>4
    <3> QED
      BY <2>3, <3>4, <3>5 DEF DirectoryInv, RowsHoldNodes
  <2>7. /\ DOMAIN targets' = DOMAIN targets
        /\ \A q \in DOMAIN targets : q # p => targets'[q] = targets[q]
        /\ p # 0 => /\ targets'[p].pSystem = s
                    /\ \/ e = "ConnectionLost" /\ targets'[p].State = eLost
                       \/ e = "Reconnected" /\ targets'[p].State = eConnected
                       \/ e = "ReconnectRefused" /\ targets'[p].State = eFailed
    <3>1. CASE e = "ConnectionLost"
      <4>1. OnConnectionLost(s)
        BY <1>11, <2>3, <3>1 DEF Deliver
      <4>2. p # 0 => /\ [targets[p] EXCEPT !.State = eLost].pSystem = s
                     /\ [targets[p] EXCEPT !.State = eLost].State = eLost
        BY <2>5 DEF STarget
      <4> QED
        BY <2>5, <3>1, <4>1, <4>2 DEF OnConnectionLost, Put
    <3>2. CASE e = "Reconnected"
      <4>1. OnReconnected(s)
        BY <1>11, <2>3, <3>2 DEF Deliver
      <4>2. p # 0 => Back(p).pSystem = s /\ Back(p).State = eConnected
        BY <2>5 DEF STarget, Back
      <4> QED
        BY <2>5, <3>2, <4>1, <4>2 DEF OnReconnected, Put
    <3>3. CASE e = "ReconnectRefused"
      <4>1. OnReconnectRefused(s)
        BY <1>11, <2>3, <3>3 DEF Deliver
      <4>2. p # 0 => /\ Failed(p, "TE_MachineIdMismatch").pSystem = s
                     /\ Failed(p, "TE_MachineIdMismatch").State = eFailed
        BY <2>5 DEF STarget, Failed
      <4> QED
        BY <2>5, <3>3, <4>1, <4>2 DEF OnReconnectRefused, Put
    <3> QED
      BY <3>1, <3>2, <3>3
  <2> HIDE DEF p
  <2>8. ASSUME NEW r \in DOMAIN targets', NEW y, y = targets'[r], y.pSystem # NoSystem
        PROVE  RowShown(y)'
    <3>1. r \in DOMAIN targets
      BY <2>7
    <3>2. CASE p # 0 /\ r = p
      <4>1. PICK x : x = targets[p]
        OBVIOUS
      <4>2. x.pSystem = s /\ RowShown(x)
        BY <1>4, <2>3, <2>5, <3>2, <4>1
      <4>3. /\ y.pSystem = x.pSystem
            /\ \/ e = "ConnectionLost" /\ y.State = eLost
               \/ e = "Reconnected" /\ y.State = eConnected
               \/ e = "ReconnectRefused" /\ y.State = eFailed
        BY <2>7, <2>8, <3>2, <4>2
      <4> QED
        BY <2>1, <2>2, <4>2, <4>3, SlotShown
    <3>3. CASE ~(p # 0 /\ r = p)
      <4>1. r # p
        BY <2>6, <3>1, <3>3 DEF TypeOK, Rows
      <4>2. y = targets[r] /\ y.pSystem # s
        BY <2>6, <2>7, <2>8, <3>1, <3>3, <4>1
      <4>3. RowShown(y)
        BY <1>4, <2>8, <3>1, <4>2
      <4> QED
        BY <2>1, <2>3, <4>2, <4>3, OtherShown
    <3> QED
      BY <3>2, <3>3
  <2>9. QueueInv'
    BY <2>8, RowByRow
  <2> QED
    BY <2>4, <2>9 DEF LinkInv
<1> QED
  BY <1>6, <1>7, <1>8, <1>9, <1>10, <1>11 DEF Connections

LEMMA LinkInit == Init => LinkInv
<1> SUFFICES ASSUME Init PROVE LinkInv
  OBVIOUS
<1>1. \A r \in DOMAIN targets : targets[r].pSystem = NoSystem
  BY DEF Init, NewTarget
<1>2. heard = {} /\ call = [t \in Threads |-> NoCall]
  BY DEF Init
<1> QED
  BY <1>1, <1>2, NoCallNew DEF LinkInv, QueueInv, HeardIsOpen, NewIsFresh

\* What a row says of its connection is true, or the signal that corrects it is
\* queued, through any number of losses and reconnections and any delay of the
\* slots: no machine stays "connected" after it went away, none stays "lost" after
\* it came back.  The signals of a system are connected after its handshake, so
\* that a link that dies in between is never reported: the code promises this only
\* of links that last until then.
THEOREM LinkSafe ==
  ASSUME ~MayDropEarly
  PROVE  Spec => []LinkShown
<1>1. TypeOK /\ DirectoryInv /\ LinkInv /\ [Next]_vars => LinkInv'
  <2> SUFFICES ASSUME TypeOK, DirectoryInv, LinkInv, [Next]_vars PROVE LinkInv'
    OBVIOUS
  <2>1. CASE UNCHANGED vars
    BY <2>1, SameSteady, LinkKept DEF vars, NoNewCall
  <2> QED
    BY <2>1, StartupLink, UserLink, ConnectionsLink, ConnectStepLink DEF Next
<1>2. TypeOK /\ DirectoryInv /\ LinkInv /\ StateInv => LinkShown
  BY LinkInvSuffices DEF StateInv, RowAgrees
<1> QED
  BY <1>1, <1>2, LinkInit, DirectoryAlways, StateAlways, TypeCorrect, PTL DEF Spec
=============================================================================
