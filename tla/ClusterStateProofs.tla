------------------------- MODULE ClusterStateProofs -------------------------
(***************************************************************************)
(* StateAgrees, FileFollowsList and ConnectingHasCaller: what a row says   *)
(* of itself agrees with the rest of it, with Targets.xml and with the     *)
(* calls under way after every locked region.                              *)
(***************************************************************************)
EXTENDS ClusterProofs

\* StateAgrees of one row.
RowAgrees(x) ==
  /\ x.State \in {eConnected, eLost} => x.pSystem # NoSystem
  /\ x.State \in {eSaved, eConnecting, eDiscovered} => x.pSystem = NoSystem
  /\ x.State = eFailed => x.LastError # NoError

\* A Connect that comes to its commit without a system knows why.
FailureExplained ==
  \A t \in Threads : call[t].pc = "commit" /\ call[t].new = NoSystem
                       => call[t].status # NoError

StateInv == (\A r \in DOMAIN targets : RowAgrees(targets[r])) /\ FailureExplained

LEMMA StateInvSuffices == StateInv => StateAgrees
BY DEF StateInv, StateAgrees, RowAgrees

\* Steps that leave the rows as they are, put one that agrees, or drop some; and
\* steps that bring no call to its commit.
RowsAgree == \A r \in DOMAIN targets' : RowAgrees(targets'[r])
NoNewCommit == \A t \in Threads : call'[t].pc = "commit" => call'[t] = call[t]

LEMMA SameAgrees ==
  ASSUME StateInv, UNCHANGED targets
  PROVE  RowsAgree
BY DEF StateInv, RowsAgree

LEMMA PutAgrees ==
  ASSUME StateInv, NEW r, NEW x, RowAgrees(x), targets' = Put(r, x)
  PROVE  RowsAgree
BY DEF StateInv, RowsAgree, Put

LEMMA DropAgrees ==
  ASSUME StateInv, NEW gone, targets' = Drop(gone)
  PROVE  RowsAgree
BY DEF StateInv, RowsAgree, Drop

LEMMA CallMoves ==
  ASSUME CallOK, NEW t \in Threads, NEW c, call' = [call EXCEPT ![t] = c], c.pc # "commit"
  PROVE  NoNewCommit
BY DEF CallOK, NoNewCommit

LEMMA StateKept ==
  ASSUME StateInv, RowsAgree, NoNewCommit
  PROVE  StateInv'
BY DEF StateInv, RowsAgree, NoNewCommit, FailureExplained

LEMMA NewTargetAgrees ==
  ASSUME NEW e
  PROVE  /\ RowAgrees(NewTarget(e))
         /\ RowAgrees([NewTarget(e) EXCEPT !.State = eDiscovered])
BY DEF NewTarget, RowAgrees, eSaved, eConnecting, eConnected, eFailed, eLost, eDiscovered

\* A change of name, address, stamp or daemon mark does not touch what RowAgrees
\* is about.
LEMMA BeginConnectState ==
  ASSUME TypeOK, StateInv, NEW t \in Threads, NEW c \in Call, BeginConnect(t, c)
  PROVE  StateInv'
<1> DEFINE r == FindTarget(c.name)
           x == [targets[r] EXCEPT !.Address = c.address]
           e == [Name |-> c.name, Address |-> c.address, MachineId |-> NoId]
<1>1. CallOK
  BY TypeParts
<1>2. /\ [c EXCEPT !.pc = "check"].pc # "commit"
      /\ [c EXCEPT !.pc = "store", !.next = "check"].pc # "commit"
  BY DEF Call
<1>3. NoNewCommit
  BY <1>1, <1>2, CallMoves DEF BeginConnect, AddTarget
<1>4. CASE r # 0 /\ targets[r].Address = c.address
  BY <1>3, <1>4, SameAgrees, StateKept DEF BeginConnect, AddTarget
<1>5. CASE r # 0 /\ targets[r].Address # c.address
  <2>1. r \in DOMAIN targets /\ targets[r] \in STarget
    BY <1>5, FindTargetFinds DEF TypeOK
  <2>2. RowAgrees(x)
    BY <2>1 DEF STarget, StateInv, RowAgrees
  <2>3. targets' = Put(r, x)
    BY <1>5 DEF BeginConnect, AddTarget
  <2> QED
    BY <1>3, <2>2, <2>3, PutAgrees, StateKept
<1>6. CASE r = 0
  <2>1. targets' = Put(NextRow, NewTarget(e))
    BY <1>6 DEF BeginConnect, AddTarget
  <2> QED
    BY <1>3, <2>1, NewTargetAgrees, PutAgrees, StateKept
<1> QED
  BY <1>4, <1>5, <1>6

LEMMA DisconnectState ==
  ASSUME TypeOK, StateInv, NEW n, DisconnectName(n), NoNewCommit
  PROVE  StateInv'
<1> DEFINE r == FindTarget(n)
           x == [targets[r] EXCEPT !.pSystem = NoSystem, !.State = eSaved]
<1>1. CASE r = 0 \/ targets[r].pSystem = NoSystem
  BY <1>1, SameAgrees, StateKept DEF DisconnectName, list
<1>2. CASE ~(r = 0 \/ targets[r].pSystem = NoSystem)
  <2>1. r \in DOMAIN targets /\ targets[r] \in STarget
    BY <1>2, FindTargetFinds DEF TypeOK
  <2>2. RowAgrees(x)
    BY <2>1 DEF STarget, RowAgrees, eSaved, eConnecting, eConnected, eFailed, eLost, eDiscovered
  <2>3. targets' = Put(r, x)
    BY <1>2 DEF DisconnectName
  <2> QED
    BY <2>2, <2>3, PutAgrees, StateKept
<1> QED
  BY <1>1, <1>2

LEMMA ConnectStepState ==
  ASSUME TypeOK, StateInv, NEW t \in Threads, ConnectStep(t)
  PROVE  StateInv'
<1> DEFINE c == call[t]
           r == FindTarget(c.name)
<1>1. CallOK /\ c \in Call
  BY TypeParts DEF CallOK
<1>2. r # 0 => r \in DOMAIN targets /\ targets[r] \in STarget /\ RowAgrees(targets[r])
  BY FindTargetFinds DEF TypeOK, StateInv
<1>3. /\ ReturnSystem(t, c).pc # "commit" /\ ReturnNull(t, c).pc # "commit"
      /\ ThenStore(c).pc # "commit" /\ NoCall.pc # "commit"
  BY <1>1, NoCallTyped DEF ReturnSystem, ReturnNull, ThenStore, Call, NoCall
<1>4. CASE StoreTargets(t) \/ Written(t)
  <2>1. NoNewCommit
    BY <1>1, <1>3, <1>4 DEF StoreTargets, Written, Done, NoNewCommit, CallOK, Call
  <2> QED
    BY <1>4, <2>1, SameAgrees, StateKept DEF StoreTargets, Written, list
<1>5. CASE CheckUp(t)
  <2>1. NoNewCommit
    BY <1>1, <1>3, <1>5 DEF CheckUp, NoNewCommit, CallOK, Call
  <2>2. r # 0 /\ ~IsUp(r) => RowAgrees([targets[r] EXCEPT !.State = eConnecting])
    BY <1>2 DEF IsUp, STarget, RowAgrees, eSaved, eConnecting, eConnected, eFailed, eLost,
                eDiscovered
  <2>3. RowsAgree
    BY <1>5, <2>2, PutAgrees, SameAgrees DEF CheckUp
  <2> QED
    BY <2>1, <2>3, StateKept
<1>6. CASE ReadExpected(t)
  <2>1. NoNewCommit
    BY <1>1, <1>6 DEF ReadExpected, NoNewCommit, CallOK, Call
  <2> QED
    BY <1>6, <2>1, SameAgrees, StateKept DEF ReadExpected, list
<1>7. CASE CreateRefused(t)
  BY <1>1, <1>3, <1>7, CallMoves, SameAgrees, StateKept DEF CreateRefused, list
<1>8. CASE HandshakeFails(t)
  <2>1. FailureExplained'
    BY <1>1, <1>8 DEF HandshakeFails, StateInv, FailureExplained, CallOK, Call, Errors, NoError
  <2> QED
    BY <1>8, <2>1, SameAgrees DEF HandshakeFails, list, StateInv, RowsAgree
<1>9. ASSUME NEW m \in Ids, Handshake(t, m)
      PROVE  StateInv'
  <2>1. (CHOOSE x \in Unused : TRUE) # NoSystem
    BY <1>9, ClusterAssumption DEF Handshake, Unused
  <2>2. FailureExplained'
    BY <1>1, <1>9, <2>1 DEF Handshake, StateInv, FailureExplained, CallOK, Call
  <2> QED
    BY <1>9, <2>2, SameAgrees DEF Handshake, list, StateInv, RowsAgree
<1>10. CASE CommitGone(t)
  BY <1>1, <1>3, <1>10, CallMoves, SameAgrees, StateKept DEF CommitGone, list
<1>11. CASE CommitFailed(t)
  <2>1. RowAgrees(Failed(r, c.status))
    BY <1>2, <1>11 DEF CommitFailed, Failed, StateInv, FailureExplained, STarget, RowAgrees,
                       eSaved, eConnecting, eConnected, eFailed, eLost, eDiscovered
  <2> QED
    BY <1>1, <1>3, <1>11, <2>1, CallMoves, PutAgrees, StateKept DEF CommitFailed
<1>12. CASE CommitConnected(t)
  <2> DEFINE s == c.new
             x == [targets[r] EXCEPT !.State = eConnected, !.LastError = NoError,
                                     !.pSystem = s, !.MachineId = machine[s]]
  <2>1. RowAgrees(x)
    BY <1>2, <1>12 DEF CommitConnected, STarget, RowAgrees, eSaved, eConnecting, eConnected,
                       eFailed, eLost, eDiscovered
  <2>2. NoNewCommit
    BY <1>1, <1>12 DEF CommitConnected, NoNewCommit, CallOK, Call
  <2>3. targets' = Put(r, x)
    BY <1>12 DEF CommitConnected
  <2> QED
    BY <2>1, <2>2, <2>3, PutAgrees, StateKept
<1>13. CASE MarkDaemon(t)
  <2>1. r # 0 => RowAgrees([targets[r] EXCEPT !.bLocalDaemon = TRUE])
    BY <1>2 DEF STarget, RowAgrees
  <2>2. RowsAgree
    BY <1>13, <2>1, PutAgrees, SameAgrees DEF MarkDaemon, Mark
  <2> QED
    BY <1>1, <1>3, <1>13, <2>2, CallMoves, StateKept DEF MarkDaemon, Mark
<1>14. CASE ForgetDaemon(t)
  <2>1. [NoCall EXCEPT !.pc = "remove", !.name = c.name].pc # "commit"
    BY NoCallTyped DEF Call
  <2> QED
    BY <1>1, <1>14, <2>1, CallMoves, DisconnectState DEF ForgetDaemon
<1>15. CASE RemoveRow(t)
  BY <1>1, <1>3, <1>15, CallMoves, SameAgrees, DropAgrees, StateKept DEF RemoveRow, Done
<1> QED
  BY <1>4, <1>5, <1>6, <1>7, <1>8, <1>9, <1>10, <1>11, <1>12, <1>13, <1>14, <1>15
     DEF ConnectStep

LEMMA StartupState ==
  ASSUME TypeOK, StateInv, Startup \/ Worker
  PROVE  StateInv'
<1>1. CASE ConnectSavedTargets \/ NoLocalDaemon
  BY <1>1, SameAgrees, StateKept DEF ConnectSavedTargets, NoLocalDaemon, list, NoNewCommit
<1>2. CASE ConnectLocalDaemon
  <2>1. [NoCall EXCEPT !.takeView = TRUE, !.daemon = TRUE] \in Call
    BY NoCallTyped DEF Call
  <2> QED
    BY <1>2, <2>1, BeginConnectState DEF ConnectLocalDaemon, Threads
<1>3. ASSUME NEW w \in work, ConnectByWorker(w)
      PROVE  StateInv'
  <2>1. [NoCall EXCEPT !.name = w.name, !.address = w.address] \in Call
    BY NoCallTyped DEF Call, TypeOK
  <2> QED
    BY <1>3, <2>1, BeginConnectState DEF ConnectByWorker, Threads
<1> QED
  BY <1>1, <1>2, <1>3 DEF Startup, Worker

LEMMA UserState ==
  ASSUME TypeOK, StateInv, User
  PROVE  StateInv'
<1>1. CallOK /\ "gui" \in Threads /\ call["gui"] \in Call
  BY TypeParts DEF CallOK, Threads
<1>2. \A r \in DOMAIN targets : targets[r] \in STarget /\ RowAgrees(targets[r])
  BY DEF TypeOK, StateInv
<1>3. ASSUME NEW n \in UserNames \cup {targets[r].Name : r \in DOMAIN targets},
             NEW a \in Addresses, ConnectByUser(n, a)
      PROVE  StateInv'
  <2>1. n \in Names
    BY <1>2, <1>3 DEF STarget, Names
  <2>2. [NoCall EXCEPT !.name = n, !.address = a, !.takeView = TRUE] \in Call
    BY <2>1, NoCallTyped DEF Call
  <2> QED
    BY <1>1, <1>3, <2>2, BeginConnectState DEF ConnectByUser
<1>4. CASE AcceptNew
  <2>1. [NoCall EXCEPT !.name = call["gui"].name, !.address = call["gui"].address,
                       !.identity = eAcceptNew, !.takeView = TRUE] \in Call
    BY <1>1, NoCallTyped DEF Call
  <2> QED
    BY <1>1, <1>4, <2>1, BeginConnectState DEF AcceptNew
<1>5. CASE DeclineNew
  <2>1. NoCall.pc # "commit"
    BY DEF NoCall
  <2> QED
    BY <1>1, <1>5, <2>1, CallMoves, SameAgrees, StateKept DEF DeclineNew, Done, list
<1>6. ASSUME NEW r \in Rows, Disconnect(r)
      PROVE  StateInv'
  BY <1>6, DisconnectState DEF Disconnect, NoNewCommit
<1>7. ASSUME NEW r \in Rows, RemoveTarget(r)
      PROVE  StateInv'
  <2>1. [NoCall EXCEPT !.pc = "remove", !.name = targets[r].Name].pc # "commit"
    BY NoCallTyped DEF Call
  <2> QED
    BY <1>1, <1>7, <2>1, CallMoves, DisconnectState DEF RemoveTarget
<1>8. ASSUME NEW r \in DOMAIN targets, NEW n \in NewNames \cup {targets[r].Name},
             NEW a \in Addresses, UpdateTarget(r, n, a)
      PROVE  StateInv'
  <2> DEFINE x == [targets[r] EXCEPT !.Name = n, !.Address = a,
                                     !.State = IF @ = eDiscovered THEN eSaved ELSE @]
  <2>1. RowAgrees(x)
    BY <1>2 DEF STarget, RowAgrees, eSaved, eConnecting, eConnected, eFailed, eLost, eDiscovered
  <2>2. targets' = Put(r, x)
    BY <1>8 DEF UpdateTarget
  <2>3. ThenStore(NoCall).pc # "commit"
    BY NoCallTyped DEF ThenStore, Call
  <2>4. NoNewCommit
    BY <1>1, <1>8, <2>3, CallMoves DEF UpdateTarget
  <2> QED
    BY <2>1, <2>2, <2>4, PutAgrees, StateKept
<1>9. CASE StartDiscovery
  BY <1>9, SameAgrees, StateKept DEF StartDiscovery, list, NoNewCommit
<1>10. CASE StopDiscovery
  BY <1>10, DropAgrees, StateKept DEF StopDiscovery, NoNewCommit
<1>11. ASSUME NEW a \in Announced, OnDiscovered(a)
       PROVE  StateInv'
  BY <1>11, NewTargetAgrees, PutAgrees, StateKept DEF OnDiscovered, NoNewCommit
<1>12. CASE SetClusterMode \/ \E s \in Clicks : SetViewSystem(s) \/ SetGraphSystem(s)
  BY <1>12, SameAgrees, StateKept DEF SetClusterMode, SetViewSystem, SetGraphSystem, NoNewCommit
<1> QED
  BY <1>3, <1>4, <1>5, <1>6, <1>7, <1>8, <1>9, <1>10, <1>11, <1>12 DEF User

\* A slot finds its row by the sender's pointer, so the row has a system.
LEMMA ConnectionsState ==
  ASSUME TypeOK, StateInv, Connections
  PROVE  StateInv'
<1>1. \A r \in DOMAIN targets : targets[r] \in STarget /\ RowAgrees(targets[r])
  BY DEF TypeOK, StateInv
<1>2. ASSUME NEW s \in Systems,
             LinkLost(s) \/ TryReconnectInVain(s) \/ \E m \in Ids : TryReconnectAnswered(s, m)
      PROVE  StateInv'
  BY <1>2, SameAgrees, StateKept
     DEF LinkLost, TryReconnectInVain, TryReconnectAnswered, list, NoNewCommit
<1>3. CASE RetryLostNodes
  <2>1. RowsAgree
    BY <1>1, <1>3 DEF RetryLostNodes, RowsAgree, RowAgrees, STarget
  <2> QED
    BY <1>3, <2>1, StateKept DEF RetryLostNodes, NoNewCommit
<1>4. CASE Tick
  <2>1. RowsAgree
    BY <1>1, <1>4 DEF Tick, RowsAgree, RowAgrees, STarget
  <2> QED
    BY <1>4, <2>1, StateKept DEF Tick, world, NoNewCommit
<1>5. ASSUME NEW e \in {"ConnectionLost", "Reconnected", "ReconnectRefused"}, Deliver(e)
      PROVE  StateInv'
  <2> DEFINE s == Head(events)[2]
             r == RowOf(s)
  <2>1. s # NoSystem
    BY <1>5, ClusterAssumption DEF Deliver, TypeOK, Events
  <2>2. r # 0 => r \in DOMAIN targets /\ targets[r] \in STarget /\ targets[r].pSystem # NoSystem
    BY <1>1, <2>1, RowOfFinds
  <2>3. r # 0 => /\ RowAgrees([targets[r] EXCEPT !.State = eLost])
                 /\ RowAgrees(Back(r))
                 /\ RowAgrees(Failed(r, "TE_MachineIdMismatch"))
    BY <2>2 DEF Back, Failed, STarget, RowAgrees, NoError, eSaved, eConnecting, eConnected,
                eFailed, eLost, eDiscovered
  <2>4. RowsAgree
    BY <1>5, <2>3, PutAgrees, SameAgrees
       DEF Deliver, OnConnectionLost, OnReconnected, OnReconnectRefused
  <2> QED
    BY <1>5, <2>4, StateKept DEF Deliver, NoNewCommit
<1> QED
  BY <1>2, <1>3, <1>4, <1>5 DEF Connections

LEMMA StateInit == Init => StateInv
<1> SUFFICES ASSUME Init PROVE StateInv
  OBVIOUS
<1>1. \A e : RowAgrees(NewTarget(e))
  BY NewTargetAgrees
<1>2. targets = [r \in 1..Len(SavedList) |-> NewTarget(SavedList[r])]
  BY DEF Init
<1>3. \A r \in DOMAIN targets : RowAgrees(targets[r])
  BY <1>1, <1>2
<1>4. FailureExplained
  BY DEF Init, FailureExplained, NoCall
<1> QED
  BY <1>3, <1>4 DEF StateInv

LEMMA StateNext ==
  ASSUME TypeOK, StateInv, [Next]_vars
  PROVE  StateInv'
<1>1. CASE UNCHANGED vars
  BY <1>1, SameAgrees, StateKept DEF vars, NoNewCommit
<1> QED
  BY <1>1, StartupState, UserState, ConnectionsState, ConnectStepState DEF Next

\* After every locked region a row that is connected or lost has a system, one
\* that is saved, discovered or on its way has none, and a failed one says why,
\* whatever the other thread did between the regions of a Connect.
THEOREM StateSafe == Spec => []StateAgrees
<1>1. TypeOK /\ StateInv /\ [Next]_vars => StateInv'
  BY StateNext
<1> QED
  BY <1>1, StateInit, StateInvSuffices, TypeCorrect, PTL DEF Spec

LEMMA StateAlways == Spec => []StateInv
<1>1. TypeOK /\ StateInv /\ [Next]_vars => StateInv'
  BY StateNext
<1> QED
  BY <1>1, StateInit, TypeCorrect, PTL DEF Spec
-----------------------------------------------------------------------------
\* What is in the file.

\* The window starts no operation before it runs.
GuiStart == phase # "running" => call["gui"].pc = "idle"

\* FileFollowsList row by row: what StoreTargets writes of a row, the rows it
\* writes, and the rows the file may not miss.
Entry(x)  == [Name |-> x.Name, Address |-> x.Address, MachineId |-> x.MachineId]
InFile(x) == x.State # eDiscovered /\ ~x.bLocalDaemon
Must(x)   == /\ x.State \in {eSaved, eConnected, eLost} \/ x.pSystem # NoSystem
             /\ ~x.bLocalDaemon

FileInv == Quiet => /\ \A e \in file : \E r \in DOMAIN targets :
                                          InFile(targets[r]) /\ e = Entry(targets[r])
                    /\ ~overlap => \A r \in DOMAIN targets :
                                     Must(targets[r]) => Entry(targets[r]) \in file

LEMMA FileInvSuffices == FileInv => FileFollowsList
BY DEF FileInv, FileFollowsList, Stored, Entry, InFile, Must

\* A row that may not be missing is one that is written.
LEMMA MustIsInFile ==
  ASSUME NEW x, RowAgrees(x), Must(x)
  PROVE  InFile(x)
BY DEF RowAgrees, Must, InFile, eSaved, eConnecting, eConnected, eFailed, eLost, eDiscovered

\* Steps after which every row that was written still is, as it was, and none
\* has to be that did not have to be before.
RowsStay ==
  /\ \A r \in DOMAIN targets :
       InFile(targets[r]) => /\ r \in DOMAIN targets' /\ InFile(targets'[r])
                             /\ Entry(targets'[r]) = Entry(targets[r])
  /\ \A r \in DOMAIN targets' :
       Must(targets'[r]) => /\ r \in DOMAIN targets /\ Must(targets[r])
                            /\ Entry(targets'[r]) = Entry(targets[r])

LEMMA FileKept ==
  ASSUME FileInv, UNCHANGED disk, Quiet' => Quiet, RowsStay
  PROVE  FileInv'
BY DEF FileInv, RowsStay, disk

LEMMA SameStay ==
  ASSUME UNCHANGED targets
  PROVE  RowsStay
BY DEF RowsStay

\* Putting a row in the place of one that is there.
LEMMA PutStay ==
  ASSUME NEW r \in DOMAIN targets, NEW x, targets' = Put(r, x),
         Entry(x) = Entry(targets[r]),
         InFile(targets[r]) => InFile(x), Must(x) => Must(targets[r])
  PROVE  RowsStay
BY DEF RowsStay, Put

\* A thread that was at StoreTargets and is not any more has been there.
LEMMA StillStoring ==
  ASSUME CallOK, NEW t \in Threads, call[t].pc \notin {"store", "write"},
         \A u \in Threads \ {t} : call'[u] = call[u], Quiet'
  PROVE  Quiet
BY DEF Quiet, CallOK

LEMMA NowStoring ==
  ASSUME NEW t \in Threads, call'[t].pc \in {"store", "write"}
  PROVE  FileInv'
BY DEF FileInv, Quiet

\* The number an appended row gets is past every row's.
LEMMA NextRowIsLast ==
  ASSUME TypeOK
  PROVE  \A r \in DOMAIN targets : r \in Nat /\ NextRow \in Nat /\ r < NextRow
<1> DEFINE D == DOMAIN targets
           B == {MaxRows - r : r \in D}
<1>1. D \subseteq 1..MaxRows /\ MaxRows \in Nat
  BY ClusterAssumption DEF TypeOK, Rows
<1>2. CASE D # {}
  <2>1. B \subseteq Nat /\ B # {}
    BY <1>1, <1>2
  <2>2. PICK b \in B : \A q \in B : b <= q
    BY <2>1, LeastExists
  <2>3. PICK m \in D : b = MaxRows - m
    BY <2>2
  <2>4. \A q \in D : MaxRows - q \in B
    OBVIOUS
  <2>5. \A q \in D : q <= m
    BY <1>1, <2>2, <2>3, <2>4
  <2> DEFINE g == CHOOSE r \in D : \A q \in D : q <= r
  <2>6. g \in D /\ \A q \in D : q <= g
    BY <2>3, <2>5
  <2>7. NextRow = 1 + g
    BY <1>2 DEF NextRow
  <2> HIDE DEF g
  <2> QED
    BY <1>1, <2>6, <2>7
<1> QED
  BY <1>2

LEMMA BeginConnectFile ==
  ASSUME TypeOK, FileInv, NEW t \in Threads, NEW c \in Call, BeginConnect(t, c),
         call[t].pc \notin {"store", "write"}
  PROVE  FileInv'
<1> DEFINE r == FindTarget(c.name)
<1>1. CallOK
  BY TypeParts
<1>2. CASE r # 0 /\ targets[r].Address = c.address
  <2>1. UNCHANGED targets /\ call' = [call EXCEPT ![t] = [c EXCEPT !.pc = "check"]]
    BY <1>2 DEF BeginConnect, AddTarget
  <2>2. Quiet' => Quiet
    BY <1>1, <2>1, StillStoring DEF CallOK
  <2> QED
    BY <2>1, <2>2, SameStay, FileKept DEF BeginConnect
<1>3. CASE ~(r # 0 /\ targets[r].Address = c.address)
  <2>1. call' = [call EXCEPT ![t] = [c EXCEPT !.pc = "store", !.next = "check"]]
    BY <1>3 DEF BeginConnect, AddTarget
  <2>2. call'[t].pc = "store"
    BY <1>1, <2>1 DEF CallOK, Call
  <2> QED
    BY <2>2, NowStoring
<1> QED
  BY <1>2, <1>3

\* A Disconnect leaves a row that was written, written.
LEMMA DisconnectStay ==
  ASSUME TypeOK, StateInv, NEW n, DisconnectName(n)
  PROVE  RowsStay
<1> DEFINE r == FindTarget(n)
           x == [targets[r] EXCEPT !.pSystem = NoSystem, !.State = eSaved]
<1>1. CASE r = 0 \/ targets[r].pSystem = NoSystem
  BY <1>1, SameStay DEF DisconnectName, list
<1>2. CASE ~(r = 0 \/ targets[r].pSystem = NoSystem)
  <2>1. r \in DOMAIN targets /\ targets[r] \in STarget
    BY <1>2, FindTargetFinds DEF TypeOK
  <2>2. /\ Entry(x) = Entry(targets[r])
        /\ InFile(targets[r]) => InFile(x)
        /\ Must(x) => Must(targets[r])
    BY <1>2, <2>1 DEF STarget, Entry, InFile, Must, eSaved, eDiscovered
  <2>3. targets' = Put(r, x)
    BY <1>2 DEF DisconnectName
  <2> QED
    BY <2>1, <2>2, <2>3, PutStay
<1> QED
  BY <1>1, <1>2

LEMMA ConnectStepFile ==
  ASSUME TypeOK, StateInv, FileInv, NEW t \in Threads, ConnectStep(t)
  PROVE  FileInv'
<1> DEFINE c == call[t]
           r == FindTarget(c.name)
<1>1. CallOK /\ c \in Call
  BY TypeParts DEF CallOK
<1>2. r # 0 => r \in DOMAIN targets /\ targets[r] \in STarget /\ RowAgrees(targets[r])
  BY FindTargetFinds DEF TypeOK, StateInv
<1>3. ASSUME c.pc \notin {"store", "write"}, NEW d, call' = [call EXCEPT ![t] = d]
      PROVE  Quiet' => Quiet
  BY <1>1, <1>3, StillStoring DEF CallOK
<1>4. CASE StoreTargets(t)
  <2>1. call'[t].pc = "write"
    BY <1>1, <1>4 DEF StoreTargets, CallOK, Call
  <2> QED
    BY <2>1, NowStoring
<1>5. CASE CheckUp(t)
  <2>1. Quiet' => Quiet
    <3>1. \A u \in Threads \ {t} : call'[u] = call[u]
      BY <1>1, <1>5 DEF CheckUp, CallOK
    <3> QED
      BY <1>1, <1>5, <3>1, StillStoring DEF CheckUp
  <2> DEFINE x == [targets[r] EXCEPT !.State = eConnecting]
  <2>2. r # 0 /\ ~IsUp(r) => /\ Entry(x) = Entry(targets[r])
                             /\ InFile(targets[r]) => InFile(x)
                             /\ Must(x) => Must(targets[r])
    BY <1>2 DEF IsUp, STarget, Entry, InFile, Must, eSaved, eConnecting, eConnected, eLost,
                eDiscovered
  <2>3. RowsStay
    BY <1>2, <1>5, <2>2, PutStay, SameStay DEF CheckUp
  <2> QED
    BY <1>5, <2>1, <2>3, FileKept DEF CheckUp
<1>6. CASE ReadExpected(t) \/ HandshakeFails(t) \/ \E m \in Ids : Handshake(t, m)
  <2>1. \A u \in Threads \ {t} : call'[u] = call[u]
    BY <1>1, <1>6 DEF ReadExpected, HandshakeFails, Handshake, CallOK
  <2>2. Quiet' => Quiet
    BY <1>1, <1>6, <2>1, StillStoring DEF ReadExpected, HandshakeFails, Handshake
  <2> QED
    BY <1>6, <2>2, SameStay, FileKept DEF ReadExpected, HandshakeFails, Handshake, list
<1>7. CASE CreateRefused(t) \/ CommitGone(t)
  <2>1. Quiet' => Quiet
    BY <1>3, <1>7 DEF CreateRefused, CommitGone
  <2> QED
    BY <1>7, <2>1, SameStay, FileKept DEF CreateRefused, CommitGone, list
<1>8. CASE CommitFailed(t)
  <2>1. Quiet' => Quiet
    BY <1>3, <1>8 DEF CommitFailed
  <2>2. /\ Entry(Failed(r, c.status)) = Entry(targets[r])
        /\ InFile(targets[r]) => InFile(Failed(r, c.status))
        /\ Must(Failed(r, c.status)) => Must(targets[r])
    BY <1>2, <1>8 DEF CommitFailed, Failed, STarget, Entry, InFile, Must, eSaved, eConnected,
                      eLost, eFailed, eDiscovered
  <2>3. RowsStay
    BY <1>2, <1>8, <2>2, PutStay DEF CommitFailed
  <2> QED
    BY <1>8, <2>1, <2>3, FileKept DEF CommitFailed
<1>9. CASE CommitConnected(t) \/ MarkDaemon(t)
  <2>1. CommitConnected(t) => call'[t].pc = "store"
    BY <1>1 DEF CommitConnected, CallOK, Call
  <2>2. MarkDaemon(t) => call'[t].pc = "store"
    BY <1>1 DEF MarkDaemon, Mark, ThenStore, CallOK, Call
  <2> QED
    BY <1>9, <2>1, <2>2, NowStoring
<1>10. CASE ForgetDaemon(t)
  <2>1. Quiet' => Quiet
    BY <1>3, <1>10 DEF ForgetDaemon
  <2>2. RowsStay
    BY <1>10, DisconnectStay DEF ForgetDaemon
  <2> QED
    BY <1>10, <2>1, <2>2, FileKept DEF ForgetDaemon
<1>11. CASE RemoveRow(t)
  <2>1. CASE r = 0
    <3>1. Quiet' => Quiet
      BY <1>3, <1>11, <2>1 DEF RemoveRow, Done
    <3> QED
      BY <1>11, <2>1, <3>1, SameStay, FileKept DEF RemoveRow
  <2>2. CASE r # 0
    <3>1. call'[t].pc = "store"
      BY <1>1, <1>11, <2>2 DEF RemoveRow, ThenStore, CallOK, Call
    <3> QED
      BY <3>1, NowStoring
  <2> QED
    BY <2>1, <2>2
<1>12. CASE Written(t)
  <2>1. targets' = targets /\ overlap' = overlap
    BY <1>12 DEF Written, list
  <2>2. \A q \in DOMAIN targets : Must(targets[q]) => InFile(targets[q])
    BY MustIsInFile DEF StateInv
  <2>3. CASE file' = Stored
    BY <2>1, <2>2, <2>3 DEF FileInv, Stored, Entry, InFile
  <2>4. CASE overlap /\ file' = {}
    BY <2>1, <2>4 DEF FileInv
  <2> QED
    BY <1>12, <2>3, <2>4 DEF Written
<1> QED
  BY <1>4, <1>5, <1>6, <1>7, <1>8, <1>9, <1>10, <1>11, <1>12 DEF ConnectStep

LEMMA StartupFile ==
  ASSUME TypeOK, GuiStart, FileInv, Startup \/ Worker
  PROVE  FileInv'
<1>1. CASE ConnectSavedTargets \/ NoLocalDaemon
  <2>1. UNCHANGED <<targets, disk, call>>
    BY <1>1 DEF ConnectSavedTargets, NoLocalDaemon, list
  <2>2. Quiet' => Quiet
    BY <2>1 DEF Quiet
  <2> QED
    BY <2>1, <2>2, SameStay, FileKept
<1>2. CASE ConnectLocalDaemon
  <2>1. [NoCall EXCEPT !.takeView = TRUE, !.daemon = TRUE] \in Call
    BY NoCallTyped DEF Call
  <2>2. call["gui"].pc \notin {"store", "write"}
    BY <1>2 DEF ConnectLocalDaemon, GuiStart
  <2> QED
    BY <1>2, <2>1, <2>2, BeginConnectFile DEF ConnectLocalDaemon, Threads
<1>3. ASSUME NEW w \in work, ConnectByWorker(w)
      PROVE  FileInv'
  <2>1. [NoCall EXCEPT !.name = w.name, !.address = w.address] \in Call
    BY NoCallTyped DEF Call, TypeOK
  <2>2. call["worker"].pc \notin {"store", "write"}
    BY <1>3 DEF ConnectByWorker
  <2> QED
    BY <1>3, <2>1, <2>2, BeginConnectFile DEF ConnectByWorker, Threads
<1> QED
  BY <1>1, <1>2, <1>3 DEF Startup, Worker

LEMMA UserFile ==
  ASSUME TypeOK, StateInv, FileInv, User
  PROVE  FileInv'
<1>1. CallOK /\ "gui" \in Threads /\ call["gui"] \in Call
  BY TypeParts DEF CallOK, Threads
<1>2. \A r \in DOMAIN targets : targets[r] \in STarget /\ RowAgrees(targets[r])
  BY DEF TypeOK, StateInv
<1>3. ASSUME NEW n \in UserNames \cup {targets[r].Name : r \in DOMAIN targets},
             NEW a \in Addresses, ConnectByUser(n, a)
      PROVE  FileInv'
  <2>1. n \in Names
    BY <1>2, <1>3 DEF STarget, Names
  <2>2. [NoCall EXCEPT !.name = n, !.address = a, !.takeView = TRUE] \in Call
    BY <2>1, NoCallTyped DEF Call
  <2> QED
    BY <1>1, <1>3, <2>2, BeginConnectFile DEF ConnectByUser, GuiIdle
<1>4. CASE AcceptNew
  <2>1. [NoCall EXCEPT !.name = call["gui"].name, !.address = call["gui"].address,
                       !.identity = eAcceptNew, !.takeView = TRUE] \in Call
    BY <1>1, NoCallTyped DEF Call
  <2> QED
    BY <1>1, <1>4, <2>1, BeginConnectFile DEF AcceptNew
<1>5. ASSUME UNCHANGED disk, RowsStay, call["gui"].pc \notin {"store", "write"},
             UNCHANGED call \/ \E d : call' = [call EXCEPT !["gui"] = d]
      PROVE  FileInv'
  <2>1. \A u \in Threads \ {"gui"} : call'[u] = call[u]
    BY <1>1, <1>5 DEF CallOK
  <2>2. Quiet' => Quiet
    BY <1>1, <1>5, <2>1, StillStoring
  <2> QED
    BY <1>5, <2>2, FileKept
<1>6. CASE DeclineNew
  BY <1>5, <1>6, SameStay DEF DeclineNew, Done, list
<1>7. ASSUME NEW r \in Rows, Disconnect(r) \/ RemoveTarget(r)
      PROVE  FileInv'
  BY <1>5, <1>7, DisconnectStay DEF Disconnect, RemoveTarget, GuiIdle
<1>8. ASSUME NEW r \in DOMAIN targets, NEW n \in NewNames \cup {targets[r].Name},
             NEW a \in Addresses, UpdateTarget(r, n, a)
      PROVE  FileInv'
  <2>1. ThenStore(NoCall).pc = "store"
    BY NoCallTyped DEF ThenStore, Call
  <2>2. call'["gui"].pc = "store"
    BY <1>1, <1>8, <2>1 DEF UpdateTarget, CallOK
  <2> QED
    BY <1>1, <2>2, NowStoring
<1>9. CASE StartDiscovery \/ SetClusterMode \/ \E s \in Clicks : SetViewSystem(s) \/ SetGraphSystem(s)
  BY <1>5, <1>9, SameStay
     DEF StartDiscovery, SetClusterMode, SetViewSystem, SetGraphSystem, list, GuiIdle
<1>10. CASE StopDiscovery
  <2>1. RowsStay
    BY <1>10 DEF StopDiscovery, Drop, RowsStay, InFile
  <2> QED
    BY <1>5, <1>10, <2>1 DEF StopDiscovery, GuiIdle
<1>11. ASSUME NEW a \in Announced, OnDiscovered(a)
       PROVE  FileInv'
  <2> DEFINE e == [Name |-> Label(a), Address |-> a.Address, MachineId |-> a.MachineId]
             x == [NewTarget(e) EXCEPT !.State = eDiscovered]
  <2>1. targets' = Put(NextRow, x)
    BY <1>11 DEF OnDiscovered
  <2>2. ~Must(x)
    BY DEF NewTarget, Must, eSaved, eConnected, eLost, eDiscovered
  <2>3. RowsStay
    BY <2>1, <2>2, NextRowIsLast DEF Put, RowsStay
  <2> QED
    BY <1>5, <1>11, <2>3 DEF OnDiscovered, GuiLoop
<1> QED
  BY <1>3, <1>4, <1>6, <1>7, <1>8, <1>9, <1>10, <1>11 DEF User

\* A slot changes the state of a row that has a system, which is written whatever
\* its state.
LEMMA ConnectionsFile ==
  ASSUME TypeOK, StateInv, FileInv, Connections
  PROVE  FileInv'
<1>1. \A r \in DOMAIN targets : targets[r] \in STarget /\ RowAgrees(targets[r])
  BY DEF TypeOK, StateInv
<1>2. UNCHANGED <<disk, call>>
  BY DEF Connections, LinkLost, TryReconnectInVain, TryReconnectAnswered, RetryLostNodes, Tick,
         Deliver
<1>3. Quiet' => Quiet
  BY <1>2 DEF Quiet
<1>4. ASSUME NEW s \in Systems,
             LinkLost(s) \/ TryReconnectInVain(s) \/ \E m \in Ids : TryReconnectAnswered(s, m)
      PROVE  RowsStay
  BY <1>4, SameStay DEF LinkLost, TryReconnectInVain, TryReconnectAnswered, list
<1>5. ASSUME RetryLostNodes PROVE RowsStay
  BY <1>1, <1>5 DEF RetryLostNodes, RowsStay, InFile, Must, Entry, STarget
<1>6. ASSUME Tick PROVE RowsStay
  BY <1>1, <1>6 DEF Tick, RowsStay, InFile, Must, Entry, STarget
<1>7. ASSUME NEW e \in {"ConnectionLost", "Reconnected", "ReconnectRefused"}, Deliver(e)
      PROVE  RowsStay
  <2> DEFINE s == Head(events)[2]
             r == RowOf(s)
             Fine(x) == /\ Entry(x) = Entry(targets[r])
                        /\ InFile(targets[r]) => InFile(x)
                        /\ Must(x) => Must(targets[r])
  <2>1. s # NoSystem
    BY <1>7, ClusterAssumption DEF Deliver, TypeOK, Events
  <2>2. r # 0 => r \in DOMAIN targets /\ targets[r] \in STarget /\ targets[r].pSystem # NoSystem
    BY <1>1, <2>1, RowOfFinds
  <2>3. r # 0 => /\ Fine([targets[r] EXCEPT !.State = eLost])
                 /\ Fine(Back(r))
                 /\ Fine(Failed(r, "TE_MachineIdMismatch"))
    BY <2>2 DEF Back, Failed, STarget, Entry, InFile, Must, eSaved, eConnected, eFailed, eLost,
                eDiscovered
  <2>4. \/ UNCHANGED targets
        \/ r # 0 /\ \E x : targets' = Put(r, x) /\ Fine(x)
    BY <1>7, <2>3 DEF Deliver, OnConnectionLost, OnReconnected, OnReconnectRefused
  <2> QED
    BY <2>2, <2>4, PutStay, SameStay
<1>8. RowsStay
  BY <1>4, <1>5, <1>6, <1>7 DEF Connections
<1> QED
  BY <1>2, <1>3, <1>8, FileKept

LEMMA FileInit == Init => GuiStart /\ FileInv
<1> SUFFICES ASSUME Init PROVE GuiStart /\ FileInv
  OBVIOUS
<1> DEFINE L == Len(SavedList)
<1>1. GuiStart
  BY DEF Init, GuiStart, NoCall, Threads
<1>2. /\ DOMAIN targets = 1..L
      /\ \A r \in 1..L : targets[r] = NewTarget(SavedList[r])
      /\ file = {SavedList[r] : r \in 1..L}
  BY DEF Init
<1>3. \A r \in 1..L : SavedList[r] \in SavedEntry
  BY ClusterAssumption
<1>4. \A r \in 1..L : InFile(targets[r]) /\ Entry(targets[r]) = SavedList[r]
  BY <1>2, <1>3 DEF NewTarget, InFile, Entry, SavedEntry, eSaved, eDiscovered
<1>5. FileInv
  BY <1>2, <1>4 DEF FileInv
<1> QED
  BY <1>1, <1>5

LEMMA GuiStartNext ==
  ASSUME TypeOK, GuiStart, [Next]_vars
  PROVE  GuiStart'
<1>1. call \in [Threads -> Call] /\ "gui" \in Threads
  BY DEF TypeOK, Threads
<1>2. CASE UNCHANGED vars
  BY <1>2 DEF vars, GuiStart
<1>3. CASE Startup
  BY <1>3 DEF Startup, ConnectSavedTargets, ConnectLocalDaemon, NoLocalDaemon, GuiStart
<1>4. ASSUME NEW w \in work, ConnectByWorker(w)
      PROVE  GuiStart'
  BY <1>1, <1>4 DEF ConnectByWorker, BeginConnect, AddTarget, GuiStart
<1>5. CASE User
  <2>1. GuiIdle \/ GuiLoop \/ call["gui"].pc = "ask"
    BY <1>5 DEF User, ConnectByUser, AcceptNew, DeclineNew, Disconnect, RemoveTarget, UpdateTarget,
                StartDiscovery, StopDiscovery, OnDiscovered, SetViewSystem, SetGraphSystem,
                SetClusterMode
  <2>2. phase = "running"
    BY <2>1 DEF GuiIdle, GuiLoop, GuiStart
  <2>3. phase' = phase
    BY <1>5 DEF User, ConnectByUser, AcceptNew, DeclineNew, Disconnect, RemoveTarget, UpdateTarget,
                StartDiscovery, StopDiscovery, OnDiscovered, SetViewSystem, SetGraphSystem,
                SetClusterMode
  <2> QED
    BY <2>2, <2>3 DEF GuiStart
<1>6. CASE Connections
  BY <1>6 DEF Connections, LinkLost, TryReconnectInVain, TryReconnectAnswered, RetryLostNodes,
              Tick, Deliver, GuiStart
<1>7. ASSUME NEW t \in Threads, ConnectStep(t)
      PROVE  GuiStart'
  <2>1. phase' = phase /\ call[t].pc # "idle"
    BY <1>7 DEF ConnectStep, StoreTargets, Written, CheckUp, ReadExpected, CreateRefused, HandshakeFails,
                Handshake, CommitGone, CommitFailed, CommitConnected, MarkDaemon, Mark, ForgetDaemon,
                RemoveRow
  <2>2. \A u \in Threads \ {t} : call'[u] = call[u]
    BY <1>1, <1>7 DEF ConnectStep, StoreTargets, Written, CheckUp, ReadExpected, CreateRefused,
                HandshakeFails, Handshake, CommitGone, CommitFailed, CommitConnected, MarkDaemon, Mark,
                ForgetDaemon, RemoveRow, Done
  <2> QED
    BY <1>1, <2>1, <2>2 DEF GuiStart
<1> QED
  BY <1>2, <1>3, <1>4, <1>5, <1>6, <1>7 DEF Next, Worker

LEMMA FileNext ==
  ASSUME TypeOK, StateInv, GuiStart, FileInv, [Next]_vars
  PROVE  FileInv'
<1>1. CASE UNCHANGED vars
  BY <1>1 DEF vars, disk, FileInv, Quiet
<1> QED
  BY <1>1, StartupFile, UserFile, ConnectionsFile, ConnectStepFile DEF Next

\* Whenever neither thread has a StoreTargets outstanding, Targets.xml holds no
\* machine that has left the list and misses none that is configured or has been
\* connected to: the regions between an edit and its StoreTargets may interleave
\* with the other thread's in any way.  The lock StoreTargets holds lets two in at
\* once; what they leave may then be no file at all, and that is made good by the
\* next that is alone.
THEOREM FileSafe == Spec => []FileFollowsList
<1>1. TypeOK /\ StateInv /\ (GuiStart /\ FileInv) /\ [Next]_vars => (GuiStart /\ FileInv)'
  BY GuiStartNext, FileNext
<1> QED
  BY <1>1, FileInit, FileInvSuffices, StateAlways, TypeCorrect, PTL DEF Spec
-----------------------------------------------------------------------------
\* Who takes a row out of "connecting".

\* A Connect that is past its check, and is not yet back in the list.
Dialling(t) == call[t].pc \in {"expect", "dial", "commit"}

\* ConnectingHasCaller by itself is not inductive: names are not unique, and the
\* commit finds the first row of a name.  So a connecting row is that one, unless
\* it is stranded.
ConnInv ==
  \A r \in DOMAIN targets :
    targets[r].State = eConnecting /\ r \notin stranded =>
      /\ \A q \in DOMAIN targets : targets[q].Name = targets[r].Name => r <= q
      /\ \E t \in Threads : Dialling(t) /\ call[t].name = targets[r].Name

LEMMA ConnInvSuffices == ConnInv => ConnectingHasCaller
BY DEF ConnInv, ConnectingHasCaller, HasCaller, Dialling

\* FindTarget finds the first row of a name, if there is one.
LEMMA FindTargetIsFirst ==
  ASSUME TypeOK, NEW q \in DOMAIN targets
  PROVE  FindTarget(targets[q].Name) # 0 /\ FindTarget(targets[q].Name) <= q
<1> DEFINE n == targets[q].Name
<1>1. Named(n) \subseteq Nat \ {0} /\ q \in Named(n)
  BY DEF TypeOK, Rows, Named
<1>2. \E r \in Named(n) : \A p \in Named(n) : r <= p
  BY <1>1, LeastExists
<1>3. FindTarget(n) \in Named(n) /\ \A p \in Named(n) : FindTarget(n) <= p
  BY <1>1, <1>2 DEF FindTarget
<1> QED
  BY <1>1, <1>3

\* The rows keep their names and new ones come last; the connecting rows are old
\* ones; and a call that is dialling goes on, or leaves no connecting row behind.
NamesStay ==
  \A r \in DOMAIN targets' :
    \/ r \in DOMAIN targets /\ targets'[r].Name = targets[r].Name
    \/ \A q \in DOMAIN targets : r \in Nat /\ q < r
NoneConnecting(r) ==
  targets'[r].State = eConnecting => r \in DOMAIN targets /\ targets[r].State = eConnecting
NoNewConnecting == \A r \in DOMAIN targets' : NoneConnecting(r)
CallersStay == \A t \in Threads : Dialling(t) => Dialling(t)' /\ call'[t].name = call[t].name

LEMMA ConnKept ==
  ASSUME TypeOK, ConnInv, NamesStay, NoNewConnecting, CallersStay, UNCHANGED stranded
  PROVE  ConnInv'
<1> SUFFICES ASSUME NEW r \in DOMAIN targets', targets'[r].State = eConnecting, r \notin stranded
             PROVE  /\ \A q \in DOMAIN targets' : targets'[q].Name = targets'[r].Name => r <= q
                    /\ \E t \in Threads : Dialling(t)' /\ call'[t].name = targets'[r].Name
  BY DEF ConnInv
<1>1. r \in DOMAIN targets /\ targets[r].State = eConnecting
  BY DEF NoNewConnecting, NoneConnecting
<1>2. DOMAIN targets \subseteq Nat
  BY DEF TypeOK, Rows
<1>3. targets'[r].Name = targets[r].Name
  BY <1>1, <1>2 DEF NamesStay
<1>4. \E t \in Threads : Dialling(t)' /\ call'[t].name = targets'[r].Name
  BY <1>1, <1>3 DEF ConnInv, CallersStay
<1>5. ASSUME NEW q \in DOMAIN targets', targets'[q].Name = targets'[r].Name
      PROVE  r <= q
  <2>1. CASE q \in DOMAIN targets /\ targets'[q].Name = targets[q].Name
    BY <1>1, <1>3, <1>5, <2>1 DEF ConnInv
  <2>2. CASE \A p \in DOMAIN targets : q \in Nat /\ p < q
    <3>1. q \in Nat /\ r < q
      BY <1>1, <2>2
    <3>2. r \in Nat
      BY <1>1, <1>2
    <3> QED
      BY <3>1, <3>2
  <2> QED
    BY <2>1, <2>2 DEF NamesStay
<1> QED
  BY <1>4, <1>5

LEMMA SameNames ==
  ASSUME UNCHANGED targets
  PROVE  NamesStay /\ NoNewConnecting
BY DEF NamesStay, NoNewConnecting, NoneConnecting

LEMMA PutNames ==
  ASSUME NEW r \in DOMAIN targets, NEW x, targets' = Put(r, x), x.Name = targets[r].Name,
         x.State = eConnecting => targets[r].State = eConnecting
  PROVE  NamesStay /\ NoNewConnecting
BY DEF NamesStay, NoNewConnecting, NoneConnecting, Put

LEMMA AppendNames ==
  ASSUME TypeOK, NEW x, targets' = Put(NextRow, x), x.State # eConnecting
  PROVE  NamesStay /\ NoNewConnecting
<1>1. \A q \in DOMAIN targets : NextRow \in Nat /\ q < NextRow
  BY NextRowIsLast
<1> QED
  BY <1>1 DEF NamesStay, NoNewConnecting, NoneConnecting, Put

LEMMA DropNames ==
  ASSUME NEW gone, targets' = Drop(gone)
  PROVE  NamesStay /\ NoNewConnecting
BY DEF NamesStay, NoNewConnecting, NoneConnecting, Drop

LEMMA OthersDial ==
  ASSUME CallOK, NEW t \in Threads, ~Dialling(t), \A u \in Threads \ {t} : call'[u] = call[u]
  PROVE  CallersStay
BY DEF CallersStay, Dialling, CallOK

LEMMA BeginConnectConn ==
  ASSUME TypeOK, ConnInv, NEW t \in Threads, NEW c \in Call, BeginConnect(t, c), ~Dialling(t)
  PROVE  ConnInv'
<1> DEFINE r == FindTarget(c.name)
           x == [targets[r] EXCEPT !.Address = c.address]
           e == [Name |-> c.name, Address |-> c.address, MachineId |-> NoId]
<1>1. CallOK
  BY TypeParts
<1>2. \A u \in Threads \ {t} : call'[u] = call[u]
  BY <1>1 DEF BeginConnect, AddTarget, CallOK
<1>3. CallersStay
  BY <1>1, <1>2, OthersDial
<1>4. CASE r # 0 /\ targets[r].Address = c.address
  BY <1>3, <1>4, SameNames, ConnKept DEF BeginConnect, AddTarget
<1>5. CASE r # 0 /\ targets[r].Address # c.address
  <2>1. r \in DOMAIN targets /\ targets[r] \in STarget
    BY <1>5, FindTargetFinds DEF TypeOK
  <2>2. x.Name = targets[r].Name /\ x.State = targets[r].State
    BY <2>1 DEF STarget
  <2>3. targets' = Put(r, x)
    BY <1>5 DEF BeginConnect, AddTarget
  <2> QED
    BY <1>3, <2>1, <2>2, <2>3, PutNames, ConnKept DEF BeginConnect
<1>6. CASE r = 0
  <2>1. targets' = Put(NextRow, NewTarget(e))
    BY <1>6 DEF BeginConnect, AddTarget
  <2>2. NewTarget(e).State # eConnecting
    BY DEF NewTarget, eSaved, eConnecting
  <2> QED
    BY <1>3, <2>1, <2>2, AppendNames, ConnKept DEF BeginConnect
<1> QED
  BY <1>4, <1>5, <1>6

LEMMA DisconnectNames ==
  ASSUME TypeOK, NEW n, DisconnectName(n)
  PROVE  NamesStay /\ NoNewConnecting
<1> DEFINE r == FindTarget(n)
           x == [targets[r] EXCEPT !.pSystem = NoSystem, !.State = eSaved]
<1>1. CASE r = 0 \/ targets[r].pSystem = NoSystem
  BY <1>1, SameNames DEF DisconnectName, list
<1>2. CASE ~(r = 0 \/ targets[r].pSystem = NoSystem)
  <2>1. r \in DOMAIN targets /\ targets[r] \in STarget
    BY <1>2, FindTargetFinds DEF TypeOK
  <2>2. x.Name = targets[r].Name /\ x.State # eConnecting
    BY <2>1 DEF STarget, eSaved, eConnecting
  <2>3. targets' = Put(r, x)
    BY <1>2 DEF DisconnectName
  <2> QED
    BY <2>1, <2>2, <2>3, PutNames
<1> QED
  BY <1>1, <1>2

\* Of the rows that have a Connect, only the one FindTarget finds can be without
\* when that of t ends.
LEMMA OtherDials ==
  ASSUME TypeOK, ConnInv, NEW t \in Threads, NEW q \in DOMAIN targets,
         targets[q].State = eConnecting, q \notin stranded, q # FindTarget(call[t].name)
  PROVE  \E u \in Threads \ {t} : Dialling(u) /\ call[u].name = targets[q].Name
<1> DEFINE r == FindTarget(call[t].name)
<1>1. PICK u \in Threads : Dialling(u) /\ call[u].name = targets[q].Name
  BY DEF ConnInv
<1>2. ASSUME u = t PROVE FALSE
  <2>1. r # 0 /\ r <= q
    BY <1>1, <1>2, FindTargetIsFirst
  <2>2. r \in DOMAIN targets /\ targets[r].Name = targets[q].Name
    BY <1>1, <1>2, <2>1, FindTargetFinds
  <2>3. q <= r
    BY <2>2 DEF ConnInv
  <2>4. q \in Nat /\ r \in Nat
    BY <2>2 DEF TypeOK, Rows
  <2> QED
    BY <2>1, <2>3, <2>4
<1> QED
  BY <1>1, <1>2

\* So the invariant holds when t's Connect ends, if that row is not "connecting"
\* any more, or stranded.
LEMMA EndConn ==
  ASSUME TypeOK, ConnInv, NEW t \in Threads, stranded \subseteq stranded',
         DOMAIN targets' = DOMAIN targets,
         \A q \in DOMAIN targets :
           /\ targets'[q].Name = targets[q].Name
           /\ targets'[q].State = eConnecting /\ q \notin stranded' =>
                targets[q].State = eConnecting /\ q # FindTarget(call[t].name),
         \A u \in Threads \ {t} : call'[u] = call[u]
  PROVE  ConnInv'
<1> SUFFICES ASSUME NEW q \in DOMAIN targets, targets'[q].State = eConnecting, q \notin stranded'
             PROVE  /\ \A p \in DOMAIN targets' : targets'[p].Name = targets'[q].Name => q <= p
                    /\ \E u \in Threads : Dialling(u)' /\ call'[u].name = targets'[q].Name
  BY DEF ConnInv
<1>1. targets[q].State = eConnecting /\ q \notin stranded /\ q # FindTarget(call[t].name)
  OBVIOUS
<1>2. PICK u \in Threads \ {t} : Dialling(u) /\ call[u].name = targets[q].Name
  BY <1>1, OtherDials
<1>3. \A p \in DOMAIN targets : targets[p].Name = targets[q].Name => q <= p
  BY <1>1 DEF ConnInv
<1> QED
  BY <1>2, <1>3 DEF Dialling

\* The commit takes the row it finds out of "connecting".
LEMMA CommitConn ==
  ASSUME TypeOK, ConnInv, NEW t \in Threads, NEW r, r = FindTarget(call[t].name), r # 0,
         NEW x, targets' = Put(r, x), x.Name = targets[r].Name, x.State # eConnecting,
         \A u \in Threads \ {t} : call'[u] = call[u], UNCHANGED stranded
  PROVE  ConnInv'
<1>1. r \in DOMAIN targets
  BY FindTargetFinds
<1>2. /\ DOMAIN targets' = DOMAIN targets
      /\ \A q \in DOMAIN targets : /\ targets'[q].Name = targets[q].Name
                                   /\ q # r => targets'[q] = targets[q]
      /\ targets'[r].State # eConnecting
  BY <1>1 DEF Put
<1> QED
  BY <1>2, EndConn

LEMMA ConnectStepConn ==
  ASSUME TypeOK, ConnInv, NEW t \in Threads, ConnectStep(t)
  PROVE  ConnInv'
<1> DEFINE c == call[t]
           r == FindTarget(c.name)
<1>1. CallOK /\ c \in Call
  BY TypeParts DEF CallOK
<1>2. r # 0 => r \in DOMAIN targets /\ targets[r] \in STarget /\ targets[r].Name = c.name
  BY FindTargetFinds DEF TypeOK
<1>3. \A u \in Threads \ {t} : call'[u] = call[u]
  BY <1>1 DEF ConnectStep, StoreTargets, Written, CheckUp, ReadExpected, CreateRefused,
              HandshakeFails, Handshake, CommitGone, CommitFailed, CommitConnected, MarkDaemon, Mark,
              ForgetDaemon, RemoveRow, Done, CallOK
<1>4. CASE StoreTargets(t) \/ Written(t)
  <2>1. CallersStay
    BY <1>1, <1>3, <1>4, OthersDial DEF StoreTargets, Written, Dialling
  <2> QED
    BY <1>4, <2>1, SameNames, ConnKept DEF StoreTargets, Written, list
<1>5. CASE CheckUp(t)
  <2>1. CallersStay
    BY <1>1, <1>3, <1>5, OthersDial DEF CheckUp, Dialling
  <2>2. CASE r = 0 \/ IsUp(r)
    <3>1. UNCHANGED <<targets, stranded>>
      BY <1>5, <2>2 DEF CheckUp
    <3> QED
      BY <2>1, <3>1, SameNames, ConnKept
  <2>3. CASE r # 0 /\ ~IsUp(r)
    <3> DEFINE x == [targets[r] EXCEPT !.State = eConnecting]
    <3>1. /\ targets' = Put(r, x) /\ call' = [call EXCEPT ![t].pc = "expect"]
          /\ stranded' = stranded \ {r}
      BY <1>5, <2>3 DEF CheckUp
    <3>2. x.Name = c.name
      BY <1>2, <2>3 DEF STarget
    <3>3. /\ DOMAIN targets' = DOMAIN targets
          /\ \A q \in DOMAIN targets : /\ targets'[q].Name = targets[q].Name
                                       /\ q # r => targets'[q] = targets[q]
      BY <1>2, <2>3, <3>1, <3>2 DEF Put
    <3>4. Dialling(t)' /\ call'[t].name = c.name
      BY <1>1, <3>1 DEF Dialling, CallOK, Call
    <3>5. ASSUME NEW q \in DOMAIN targets, targets'[q].State = eConnecting, q \notin stranded'
          PROVE  /\ \A p \in DOMAIN targets' : targets'[p].Name = targets'[q].Name => q <= p
                 /\ \E u \in Threads : Dialling(u)' /\ call'[u].name = targets'[q].Name
      <4>1. CASE q = r
        <5>1. \A p \in DOMAIN targets : targets[p].Name = c.name => r <= p
          BY FindTargetIsFirst
        <5> QED
          BY <1>2, <2>3, <3>3, <3>4, <4>1, <5>1
      <4>2. CASE q # r
        <5>1. targets'[q] = targets[q] /\ targets[q].State = eConnecting /\ q \notin stranded
          BY <3>1, <3>3, <3>5, <4>2
        <5>2. \A p \in DOMAIN targets' : targets'[p].Name = targets'[q].Name => q <= p
          BY <3>3, <5>1 DEF ConnInv
        <5>3. PICK u \in Threads : Dialling(u) /\ call[u].name = targets[q].Name
          BY <5>1 DEF ConnInv
        <5> QED
          BY <2>1, <5>1, <5>2, <5>3 DEF CallersStay
      <4> QED
        BY <4>1, <4>2
    <3> QED
      BY <3>3, <3>5 DEF ConnInv
  <2> QED
    BY <2>2, <2>3
<1>6. CASE ReadExpected(t) \/ HandshakeFails(t) \/ \E m \in Ids : Handshake(t, m)
  <2>1. Dialling(t)' /\ call'[t].name = c.name
    <3>1. ReadExpected(t) => call'[t].pc = "dial" /\ call'[t].name = c.name
      BY <1>1 DEF ReadExpected, CallOK, Call
    <3>2. HandshakeFails(t) => call'[t].pc = "commit" /\ call'[t].name = c.name
      BY <1>1 DEF HandshakeFails, CallOK, Call
    <3>3. ASSUME NEW m \in Ids, Handshake(t, m)
          PROVE  call'[t].pc = "commit" /\ call'[t].name = c.name
      BY <1>1, <3>3 DEF Handshake, CallOK, Call
    <3> QED
      BY <1>6, <3>1, <3>2, <3>3 DEF Dialling
  <2>2. CallersStay
    BY <1>3, <2>1 DEF CallersStay, Dialling
  <2> QED
    BY <1>6, <2>2, SameNames, ConnKept DEF ReadExpected, HandshakeFails, Handshake, list
<1>7. CASE CreateRefused(t)
  <2>1. UNCHANGED targets /\ stranded' = Strand(r)
    BY <1>7 DEF CreateRefused, list
  <2>2. stranded \subseteq stranded' /\ (r # 0 /\ targets[r].State = eConnecting => r \in stranded')
    BY <2>1 DEF Strand
  <2>3. 0 \notin DOMAIN targets
    BY DEF TypeOK, Rows
  <2> QED
    BY <1>3, <2>1, <2>2, <2>3, EndConn
<1>8. CASE CommitGone(t)
  <2>1. UNCHANGED <<targets, stranded>> /\ r = 0
    BY <1>8 DEF CommitGone, list
  <2>2. 0 \notin DOMAIN targets
    BY DEF TypeOK, Rows
  <2> QED
    BY <1>3, <2>1, <2>2, EndConn
<1>9. CASE CommitFailed(t)
  <2>1. r # 0 /\ targets' = Put(r, Failed(r, c.status)) /\ UNCHANGED stranded
    BY <1>9 DEF CommitFailed
  <2>2. Failed(r, c.status).Name = targets[r].Name /\ Failed(r, c.status).State # eConnecting
    BY <1>2, <2>1 DEF Failed, STarget, eFailed, eConnecting
  <2> QED
    BY <1>3, <2>1, <2>2, CommitConn
<1>10. CASE CommitConnected(t)
  <2> DEFINE s == c.new
             x == [targets[r] EXCEPT !.State = eConnected, !.LastError = NoError,
                                     !.pSystem = s, !.MachineId = machine[s]]
  <2>1. r # 0 /\ targets' = Put(r, x) /\ UNCHANGED stranded
    BY <1>10 DEF CommitConnected
  <2>2. x.Name = targets[r].Name /\ x.State # eConnecting
    BY <1>2, <2>1 DEF STarget, eConnected, eConnecting
  <2> QED
    BY <1>3, <2>1, <2>2, CommitConn
<1>11. CASE MarkDaemon(t)
  <2>1. CallersStay
    BY <1>1, <1>3, <1>11, OthersDial DEF MarkDaemon, Mark, Dialling
  <2> DEFINE x == [targets[r] EXCEPT !.bLocalDaemon = TRUE]
  <2>2. r # 0 => x.Name = targets[r].Name /\ x.State = targets[r].State
    BY <1>2 DEF STarget
  <2>3. NamesStay /\ NoNewConnecting
    BY <1>2, <1>11, <2>2, PutNames, SameNames DEF MarkDaemon, Mark
  <2> QED
    BY <1>11, <2>1, <2>3, ConnKept DEF MarkDaemon, Mark
<1>12. CASE ForgetDaemon(t)
  <2>1. CallersStay
    BY <1>1, <1>3, <1>12, OthersDial DEF ForgetDaemon, Dialling
  <2> QED
    BY <1>12, <2>1, DisconnectNames, ConnKept DEF ForgetDaemon
<1>13. CASE RemoveRow(t)
  <2>1. CallersStay
    BY <1>1, <1>3, <1>13, OthersDial DEF RemoveRow, Dialling
  <2> QED
    BY <1>13, <2>1, SameNames, DropNames, ConnKept DEF RemoveRow
<1> QED
  BY <1>4, <1>5, <1>6, <1>7, <1>8, <1>9, <1>10, <1>11, <1>12, <1>13 DEF ConnectStep

LEMMA StartupConn ==
  ASSUME TypeOK, GuiStart, ConnInv, Startup \/ Worker
  PROVE  ConnInv'
<1>1. CASE ConnectSavedTargets \/ NoLocalDaemon
  <2>1. UNCHANGED <<targets, call, stranded>>
    BY <1>1 DEF ConnectSavedTargets, NoLocalDaemon, list
  <2> QED
    BY <2>1 DEF ConnInv, Dialling
<1>2. CASE ConnectLocalDaemon
  <2>1. [NoCall EXCEPT !.takeView = TRUE, !.daemon = TRUE] \in Call
    BY NoCallTyped DEF Call
  <2>2. ~Dialling("gui")
    BY <1>2 DEF ConnectLocalDaemon, GuiStart, Dialling
  <2> QED
    BY <1>2, <2>1, <2>2, BeginConnectConn DEF ConnectLocalDaemon, Threads
<1>3. ASSUME NEW w \in work, ConnectByWorker(w)
      PROVE  ConnInv'
  <2>1. [NoCall EXCEPT !.name = w.name, !.address = w.address] \in Call
    BY NoCallTyped DEF Call, TypeOK
  <2>2. ~Dialling("worker")
    BY <1>3 DEF ConnectByWorker, Dialling
  <2> QED
    BY <1>3, <2>1, <2>2, BeginConnectConn DEF ConnectByWorker, Threads
<1> QED
  BY <1>1, <1>2, <1>3 DEF Startup, Worker

LEMMA UserConn ==
  ASSUME TypeOK, ConnInv, User
  PROVE  ConnInv'
<1>1. CallOK /\ "gui" \in Threads /\ call["gui"] \in Call
  BY TypeParts DEF CallOK, Threads
<1>2. \A r \in DOMAIN targets : targets[r] \in STarget
  BY DEF TypeOK
<1>3. ASSUME NEW n \in UserNames \cup {targets[r].Name : r \in DOMAIN targets},
             NEW a \in Addresses, ConnectByUser(n, a)
      PROVE  ConnInv'
  <2>1. n \in Names
    BY <1>2, <1>3 DEF STarget, Names
  <2>2. [NoCall EXCEPT !.name = n, !.address = a, !.takeView = TRUE] \in Call
    BY <2>1, NoCallTyped DEF Call
  <2> QED
    BY <1>1, <1>3, <2>2, BeginConnectConn DEF ConnectByUser, GuiIdle, Dialling
<1>4. CASE AcceptNew
  <2>1. [NoCall EXCEPT !.name = call["gui"].name, !.address = call["gui"].address,
                       !.identity = eAcceptNew, !.takeView = TRUE] \in Call
    BY <1>1, NoCallTyped DEF Call
  <2> QED
    BY <1>1, <1>4, <2>1, BeginConnectConn DEF AcceptNew, Dialling
<1>5. ASSUME NamesStay, NoNewConnecting, UNCHANGED stranded, call["gui"].pc \in {"idle", "ask"},
             UNCHANGED call \/ \E d : call' = [call EXCEPT !["gui"] = d]
      PROVE  ConnInv'
  <2>1. \A u \in Threads \ {"gui"} : call'[u] = call[u]
    BY <1>1, <1>5 DEF CallOK
  <2>2. CallersStay
    BY <1>1, <1>5, <2>1, OthersDial DEF Dialling
  <2> QED
    BY <1>5, <2>2, ConnKept
<1>6. CASE DeclineNew
  BY <1>5, <1>6, SameNames DEF DeclineNew, Done, list
<1>7. ASSUME NEW r \in Rows, Disconnect(r) \/ RemoveTarget(r)
      PROVE  ConnInv'
  BY <1>5, <1>7, DisconnectNames DEF Disconnect, RemoveTarget, GuiIdle
<1>8. ASSUME NEW r \in DOMAIN targets, NEW n \in NewNames \cup {targets[r].Name},
             NEW a \in Addresses, UpdateTarget(r, n, a)
      PROVE  ConnInv'
  <2> DEFINE x == [targets[r] EXCEPT !.Name = n, !.Address = a,
                                     !.State = IF @ = eDiscovered THEN eSaved ELSE @]
  <2>1. targets[r] \in STarget /\ targets' = Put(r, x)
    BY <1>2, <1>8 DEF UpdateTarget
  <2>2. x.Name = n /\ (x.State = eConnecting => targets[r].State = eConnecting)
    BY <2>1 DEF STarget, eSaved, eConnecting
  <2>3. CASE n = targets[r].Name
    <3>1. NamesStay /\ NoNewConnecting
      BY <2>1, <2>2, <2>3, PutNames
    <3> QED
      BY <1>5, <1>8, <2>3, <3>1 DEF UpdateTarget, GuiIdle
  <2>4. CASE n # targets[r].Name
    <3>1. /\ DOMAIN targets' = DOMAIN targets /\ targets'[r] = x
          /\ \A q \in DOMAIN targets : q # r => targets'[q] = targets[q]
      BY <2>1 DEF Put
    <3>2. stranded \subseteq stranded' /\ (targets[r].State = eConnecting => r \in stranded')
      <4>1. stranded' = Strand(r) /\ r # 0
        BY <1>8, <2>4 DEF UpdateTarget, TypeOK, Rows
      <4> QED
        BY <4>1 DEF Strand
    <3>3. \A q \in DOMAIN targets : targets[q].Name # n
      BY <1>8, <2>4 DEF UpdateTarget, Named
    <3>4. \A u \in Threads : Dialling(u) => call'[u] = call[u]
      BY <1>1, <1>8 DEF UpdateTarget, GuiIdle, Dialling, CallOK
    <3>5. ASSUME NEW q \in DOMAIN targets, targets'[q].State = eConnecting, q \notin stranded'
          PROVE  /\ \A p \in DOMAIN targets' : targets'[p].Name = targets'[q].Name => q <= p
                 /\ \E u \in Threads : Dialling(u)' /\ call'[u].name = targets'[q].Name
      <4>1. q # r /\ targets'[q] = targets[q] /\ q \notin stranded
        BY <2>2, <3>1, <3>2, <3>5
      <4>2. \A p \in DOMAIN targets' : targets'[p].Name = targets'[q].Name => q <= p
        <5> HIDE DEF x
        <5>1. \A p \in DOMAIN targets : targets[p].Name = targets[q].Name => q <= p
          BY <3>5, <4>1 DEF ConnInv
        <5>2. \A p \in DOMAIN targets :
                targets'[p].Name = targets'[q].Name => targets[p].Name = targets[q].Name
          BY <2>2, <3>1, <3>3, <4>1
        <5> QED
          BY <3>1, <5>1, <5>2
      <4>3. PICK u \in Threads : Dialling(u) /\ call[u].name = targets[q].Name
        BY <3>5, <4>1 DEF ConnInv
      <4> QED
        BY <3>4, <4>1, <4>2, <4>3 DEF Dialling
    <3> QED
      BY <3>1, <3>5 DEF ConnInv
  <2> QED
    BY <2>3, <2>4
<1>9. CASE StartDiscovery \/ SetClusterMode \/ \E s \in Clicks : SetViewSystem(s) \/ SetGraphSystem(s)
  BY <1>5, <1>9, SameNames
     DEF StartDiscovery, SetClusterMode, SetViewSystem, SetGraphSystem, list, GuiIdle
<1>10. CASE StopDiscovery
  BY <1>5, <1>10, DropNames DEF StopDiscovery, GuiIdle
<1>11. ASSUME NEW a \in Announced, OnDiscovered(a)
       PROVE  ConnInv'
  <2> DEFINE e == [Name |-> Label(a), Address |-> a.Address, MachineId |-> a.MachineId]
             x == [NewTarget(e) EXCEPT !.State = eDiscovered]
  <2>1. targets' = Put(NextRow, x)
    BY <1>11 DEF OnDiscovered
  <2>2. x.State # eConnecting
    BY DEF NewTarget, eConnecting, eDiscovered
  <2>3. NamesStay /\ NoNewConnecting
    BY <2>1, <2>2, AppendNames
  <2> QED
    BY <1>5, <1>11, <2>3 DEF OnDiscovered, GuiLoop
<1> QED
  BY <1>3, <1>4, <1>6, <1>7, <1>8, <1>9, <1>10, <1>11 DEF User

LEMMA ConnectionsConn ==
  ASSUME TypeOK, ConnInv, Connections
  PROVE  ConnInv'
<1>1. \A r \in DOMAIN targets : targets[r] \in STarget
  BY DEF TypeOK
<1>2. UNCHANGED <<call, stranded>>
  BY DEF Connections, LinkLost, TryReconnectInVain, TryReconnectAnswered, RetryLostNodes, Tick,
         Deliver
<1>3. CallersStay
  BY <1>2 DEF CallersStay, Dialling
<1>4. ASSUME NEW s \in Systems,
             LinkLost(s) \/ TryReconnectInVain(s) \/ \E m \in Ids : TryReconnectAnswered(s, m)
      PROVE  NamesStay /\ NoNewConnecting
  BY <1>4, SameNames DEF LinkLost, TryReconnectInVain, TryReconnectAnswered, list
<1>5. ASSUME RetryLostNodes PROVE NamesStay /\ NoNewConnecting
  BY <1>1, <1>5 DEF RetryLostNodes, NamesStay, NoNewConnecting, NoneConnecting, STarget
<1>6. ASSUME Tick PROVE NamesStay /\ NoNewConnecting
  BY <1>1, <1>6 DEF Tick, NamesStay, NoNewConnecting, NoneConnecting, STarget
<1>7. ASSUME NEW e \in {"ConnectionLost", "Reconnected", "ReconnectRefused"}, Deliver(e)
      PROVE  NamesStay /\ NoNewConnecting
  <2> DEFINE s == Head(events)[2]
             r == RowOf(s)
             Fine(x) == x.Name = targets[r].Name /\ x.State # eConnecting
  <2>1. r # 0 => r \in DOMAIN targets /\ targets[r] \in STarget
    BY <1>1, RowOfFinds
  <2>2. r # 0 => /\ Fine([targets[r] EXCEPT !.State = eLost])
                 /\ Fine(Back(r))
                 /\ Fine(Failed(r, "TE_MachineIdMismatch"))
    BY <2>1 DEF Back, Failed, STarget, eConnecting, eConnected, eFailed, eLost
  <2>3. \/ UNCHANGED targets
        \/ r # 0 /\ \E x : targets' = Put(r, x) /\ Fine(x)
    BY <1>7, <2>2 DEF Deliver, OnConnectionLost, OnReconnected, OnReconnectRefused
  <2> QED
    BY <2>1, <2>3, PutNames, SameNames
<1>8. NamesStay /\ NoNewConnecting
  BY <1>4, <1>5, <1>6, <1>7 DEF Connections
<1> QED
  BY <1>2, <1>3, <1>8, ConnKept

LEMMA ConnInit == Init => ConnInv
<1> SUFFICES ASSUME Init, NEW r \in DOMAIN targets PROVE targets[r].State # eConnecting
  BY DEF ConnInv
<1>1. targets[r] = NewTarget(SavedList[r])
  BY DEF Init
<1> QED
  BY <1>1 DEF NewTarget, eSaved, eConnecting

\* A row is "connecting" only while a Connect of it is between its check and its
\* commit, however the worker and the user work on the same name and whatever
\* other rows share it, but for two kinds of row: one whose Connect was given no
\* system object, since Connect then returns without a word to the row, and one
\* that was renamed, since the commit looks for the name it had.
THEOREM ConnectingSafe == Spec => []ConnectingHasCaller
<1>1. TypeOK /\ (GuiStart /\ ConnInv) /\ [Next]_vars => (GuiStart /\ ConnInv)'
  <2> SUFFICES ASSUME TypeOK, GuiStart, ConnInv, [Next]_vars PROVE (GuiStart /\ ConnInv)'
    OBVIOUS
  <2>1. CASE UNCHANGED vars
    BY <2>1 DEF vars, ConnInv, Dialling, GuiStart
  <2> QED
    BY <2>1, GuiStartNext, StartupConn, UserConn, ConnectionsConn, ConnectStepConn DEF Next
<1> QED
  BY <1>1, FileInit, ConnInit, ConnInvSuffices, TypeCorrect, PTL DEF Spec
=============================================================================
