--------------------------- MODULE ClusterProofs ---------------------------
(***************************************************************************)
(* What is proved of Cluster, for any number of rows, machines, systems    *)
(* and queued signals.                                                     *)
(***************************************************************************)
EXTENDS Cluster, WellFoundedInduction, TLAPS

-----------------------------------------------------------------------------
\* Rows.

\* A set of numbers that is not empty has a least one.
LEMMA LeastExists ==
  ASSUME NEW S, S \subseteq Nat, S # {}
  PROVE  \E r \in S : \A q \in S : r <= q
<1> DEFINE Less == {ss \in Nat \X Nat : ss[1] < ss[2]}
<1>1. IsWellFoundedOn(Less, Nat)
  BY NatLessThanWellFounded, Zenon DEF OpToRel
<1>2. \A x, y \in Nat : x < y => <<x, y>> \in Less
  OBVIOUS
<1> HIDE DEF Less
<1>3. PICK r \in S : \A q \in S : ~(<<q, r>> \in Less)
  BY <1>1, WFMin
<1>4. \A q \in S : ~(q < r)
  BY <1>2, <1>3, Zenon
<1>5. \A q \in S : r <= q
  BY <1>4
<1> QED
  BY <1>5

\* FindTarget, when it finds a row, finds one that is in use and has the name.
LEMMA FindTargetFinds ==
  ASSUME TypeOK, NEW n, FindTarget(n) # 0
  PROVE  /\ FindTarget(n) \in DOMAIN targets
         /\ targets[FindTarget(n)].Name = n
<1>1. Named(n) \subseteq Nat /\ Named(n) # {}
  BY DEF TypeOK, Rows, FindTarget, Named
<1>2. \E r \in Named(n) : \A q \in Named(n) : r <= q
  BY <1>1, LeastExists
<1>3. FindTarget(n) \in Named(n)
  BY <1>1, <1>2 DEF FindTarget
<1> QED
  BY <1>3 DEF Named

\* The same of the row of a system.
LEMMA RowOfFinds ==
  ASSUME TypeOK, NEW s, RowOf(s) # 0
  PROVE  /\ RowOf(s) \in DOMAIN targets
         /\ targets[RowOf(s)].pSystem = s
<1>1. RowsOf(s) \subseteq Nat /\ RowsOf(s) # {}
  BY DEF TypeOK, Rows, RowOf, RowsOf
<1>2. \E r \in RowsOf(s) : \A q \in RowsOf(s) : r <= q
  BY <1>1, LeastExists
<1>3. RowOf(s) \in RowsOf(s)
  BY <1>1, <1>2 DEF RowOf
<1> QED
  BY <1>3 DEF RowsOf

\* Put and Drop leave a list of rows.
TargetsOK == /\ DOMAIN targets \in SUBSET Rows
             /\ targets \in [DOMAIN targets -> STarget]

LEMMA PutTyped ==
  ASSUME TargetsOK, NEW r \in Rows, NEW t \in STarget, targets' = Put(r, t)
  PROVE  TargetsOK'
BY DEF TargetsOK, Put

LEMMA DropTyped ==
  ASSUME TargetsOK, NEW gone, targets' = Drop(gone)
  PROVE  TargetsOK'
BY DEF TargetsOK, Drop

LEMMA NewTargetTyped ==
  ASSUME NEW e \in SavedEntry
  PROVE  NewTarget(e) \in STarget
BY ClusterAssumption DEF NewTarget, SavedEntry, STarget, States, eSaved, NoError, Ids
-----------------------------------------------------------------------------
\* Type correctness.

\* TypeOK in the parts an action disturbs separately.
CallOK  == call \in [Threads -> Call]
WorldOK == /\ link \in [Systems -> Links]
           /\ machine \in [Systems -> Ids] /\ expects \in [Systems -> Ids]
           /\ heard \subseteq Systems /\ posted \subseteq Systems
           /\ events \in Seq(Events)
RestOK  == /\ nodes \subseteq Systems \cup {Local}
           /\ viewSystem \in Systems \cup {NoSystem}
           /\ graphSystem \in Systems \cup {NoSystem}
           /\ clusterMode \in BOOLEAN /\ discovering \in BOOLEAN
           /\ file \subseteq SavedEntry
           /\ work \subseteq [name : Names, address : Addresses]
           /\ phase \in {"new", "loaded", "running"}
           /\ overlap \in BOOLEAN /\ stranded \subseteq Rows

LEMMA TypeParts == TypeOK <=> TargetsOK /\ CallOK /\ WorldOK /\ RestOK
BY DEF TypeOK, TargetsOK, CallOK, WorldOK, RestOK

LEMMA TypePartsNext == TypeOK' <=> TargetsOK' /\ CallOK' /\ WorldOK' /\ RestOK'
BY DEF TypeOK, TargetsOK, CallOK, WorldOK, RestOK

\* A call not yet begun, and one that replaces another.
LEMMA NoCallTyped == NoCall \in Call
BY ClusterAssumption
   DEF NoCall, Call, PCs, Names, Ids, eRequireSaved, NoError

LEMMA CallTyped ==
  ASSUME CallOK, NEW t \in Threads, NEW c \in Call,
         call' = [call EXCEPT ![t] = c]
  PROVE  CallOK'
BY DEF CallOK

LEMMA ReturnTyped ==
  ASSUME NEW t, NEW c \in Call
  PROVE  ReturnSystem(t, c) \in Call /\ ReturnNull(t, c) \in Call
<1>1. [c EXCEPT !.pc = "mark"] \in Call
  BY DEF Call, PCs
<1>2. [c EXCEPT !.pc = "forget", !.new = NoSystem] \in Call
  BY DEF Call, PCs
<1>3. [NoCall EXCEPT !.pc = "ask", !.name = c.name, !.address = c.address] \in Call
  BY NoCallTyped DEF Call, PCs
<1> QED
  BY <1>1, <1>2, <1>3, NoCallTyped DEF ReturnSystem, ReturnNull

\* What Stored collects are entries of the file.
LEMMA StoredTyped ==
  ASSUME TargetsOK
  PROVE  Stored \subseteq SavedEntry
BY DEF TargetsOK, Stored, SavedEntry, STarget

\* The operations that begin a Connect.
LEMMA BeginConnectTyped ==
  ASSUME TypeOK, NEW t \in Threads, NEW c \in Call, BeginConnect(t, c)
  PROVE  TargetsOK' /\ CallOK' /\ WorldOK'
<1> DEFINE r == FindTarget(c.name)
<1>1. TargetsOK /\ CallOK /\ WorldOK
  BY TypeParts
<1>2. WorldOK'
  BY <1>1 DEF BeginConnect, world, WorldOK
<1>3. [c EXCEPT !.pc = "check"] \in Call
  BY DEF Call, PCs
<1>4. [c EXCEPT !.pc = "store", !.next = "check"] \in Call
  BY DEF Call, PCs
<1>5. CASE r # 0 /\ targets[r].Address = c.address
  BY <1>1, <1>2, <1>3, <1>5, CallTyped DEF BeginConnect, AddTarget, TargetsOK
<1>6. CASE r # 0 /\ targets[r].Address # c.address
  <2>1. targets' = Put(r, [targets[r] EXCEPT !.Address = c.address])
    BY <1>6 DEF BeginConnect, AddTarget
  <2>2. r \in DOMAIN targets /\ r \in Rows
    BY <1>6, <1>1, FindTargetFinds DEF TargetsOK
  <2>3. [targets[r] EXCEPT !.Address = c.address] \in STarget
    BY <2>2, <1>1 DEF TargetsOK, STarget, Call
  <2>4. TargetsOK'
    BY <1>1, <2>1, <2>2, <2>3, PutTyped
  <2> QED
    BY <1>1, <1>2, <1>4, <1>6, <2>4, CallTyped DEF BeginConnect, AddTarget
<1>7. CASE r = 0
  <2> DEFINE e == [Name |-> c.name, Address |-> c.address, MachineId |-> NoId]
  <2>1. targets' = Put(NextRow, NewTarget(e)) /\ NextRow \in Rows
    BY <1>7 DEF BeginConnect, AddTarget, HasRoom
  <2>2. e \in SavedEntry
    BY DEF Call, SavedEntry, Ids
  <2>3. TargetsOK'
    BY <1>1, <2>1, <2>2, NewTargetTyped, PutTyped
  <2> QED
    BY <1>1, <1>2, <1>4, <1>7, <2>3, CallTyped DEF BeginConnect, AddTarget
<1> QED
  BY <1>5, <1>6, <1>7

\* Disconnect's locked region, which three operations run.
LEMMA DisconnectTyped ==
  ASSUME TypeOK, NEW n, DisconnectName(n), UNCHANGED <<events, posted>>
  PROVE  /\ TargetsOK' /\ WorldOK'
         /\ nodes' \subseteq Systems \cup {Local}
         /\ viewSystem' \in Systems \cup {NoSystem}
         /\ graphSystem' \in Systems \cup {NoSystem}
<1> DEFINE r == FindTarget(n)
           s == targets[r].pSystem
<1>1. TargetsOK /\ WorldOK /\ RestOK
  BY TypeParts
<1>2. CASE r = 0 \/ s = NoSystem
  BY <1>1, <1>2 DEF DisconnectName, list, TargetsOK, WorldOK, RestOK, disk
<1>3. CASE ~(r = 0 \/ s = NoSystem)
  <2>1. r \in DOMAIN targets /\ r \in Rows
    BY <1>3, <1>1, FindTargetFinds DEF TargetsOK
  <2>2. s \in Systems
    BY <1>1, <1>3, <2>1 DEF TargetsOK, STarget
  <2>3. /\ targets' = Put(r, [targets[r] EXCEPT !.pSystem = NoSystem, !.State = eSaved])
        /\ nodes' = nodes \ {s}
        /\ viewSystem' = Unselect(viewSystem, s)
        /\ graphSystem' = Unselect(graphSystem, s)
        /\ Close(s)
    BY <1>3 DEF DisconnectName
  <2>4. [targets[r] EXCEPT !.pSystem = NoSystem, !.State = eSaved] \in STarget
    BY <1>1, <2>1 DEF TargetsOK, STarget, States
  <2>5. TargetsOK'
    BY <1>1, <2>1, <2>3, <2>4, PutTyped
  <2>6. WorldOK'
    BY <1>1, <2>2, <2>3 DEF WorldOK, Close, Links, Ids
  <2> QED
    BY <1>1, <2>3, <2>5, <2>6 DEF RestOK, Unselect
<1> QED
  BY <1>2, <1>3

\* Startup and the worker.
LEMMA StartupTyped ==
  ASSUME TypeOK, Startup \/ Worker
  PROVE  TypeOK'
<1>1. TargetsOK /\ CallOK /\ WorldOK /\ RestOK
  BY TypeParts
<1>2. CASE ConnectSavedTargets
  <2>1. work' \subseteq [name : Names, address : Addresses]
    BY <1>1, <1>2 DEF ConnectSavedTargets, Pending, TargetsOK, STarget
  <2> QED
    BY <1>1, <1>2, <2>1, TypePartsNext
       DEF ConnectSavedTargets, list, world, TargetsOK, CallOK, WorldOK, RestOK, disk
<1>3. CASE ConnectLocalDaemon
  <2> DEFINE c == [NoCall EXCEPT !.takeView = TRUE, !.daemon = TRUE]
  <2>1. c \in Call
    BY NoCallTyped DEF Call
  <2>2. BeginConnect("gui", c)
    BY <1>3 DEF ConnectLocalDaemon
  <2>3. TargetsOK' /\ CallOK' /\ WorldOK'
    BY <2>1, <2>2, BeginConnectTyped DEF Threads
  <2>4. RestOK'
    BY <1>1, <1>3 DEF ConnectLocalDaemon, BeginConnect, RestOK, disk
  <2> QED
    BY <2>3, <2>4, TypePartsNext
<1>4. CASE NoLocalDaemon
  BY <1>1, <1>4, TypePartsNext
     DEF NoLocalDaemon, list, world, TargetsOK, CallOK, WorldOK, RestOK, disk
<1>5. ASSUME NEW w \in work, ConnectByWorker(w)
      PROVE  TypeOK'
  <2> DEFINE c == [NoCall EXCEPT !.name = w.name, !.address = w.address]
  <2>1. c \in Call
    BY <1>1, NoCallTyped DEF Call, RestOK
  <2>2. BeginConnect("worker", c)
    BY <1>5 DEF ConnectByWorker
  <2>3. TargetsOK' /\ CallOK' /\ WorldOK'
    BY <2>1, <2>2, BeginConnectTyped DEF Threads
  <2>4. RestOK'
    BY <1>1, <1>5 DEF ConnectByWorker, BeginConnect, RestOK, disk
  <2> QED
    BY <2>3, <2>4, TypePartsNext
<1> QED
  BY <1>2, <1>3, <1>4, <1>5 DEF Startup, Worker

\* The steps of a Connect, of a removal and of a store, in either thread.
LEMMA ConnectStepTyped ==
  ASSUME TypeOK, NEW t \in Threads, ConnectStep(t)
  PROVE  TypeOK'
<1> DEFINE c == call[t]
           r == FindTarget(c.name)
<1>1. TargetsOK /\ CallOK /\ WorldOK /\ RestOK
  BY TypeParts
<1>2. c \in Call
  BY <1>1 DEF CallOK
<1>3. r # 0 => r \in DOMAIN targets /\ r \in Rows /\ targets[r] \in STarget
  BY <1>1, FindTargetFinds DEF TargetsOK
<1>4. ReturnSystem(t, c) \in Call /\ ReturnNull(t, c) \in Call /\ ThenStore(c) \in Call
  BY <1>2, ReturnTyped DEF ThenStore, Call, PCs
<1>5. CASE StoreTargets(t)
  <2>1. call' = [call EXCEPT ![t] = [c EXCEPT !.pc = "write"]]
    BY <1>1, <1>5 DEF StoreTargets, CallOK, Call
  <2>2. [c EXCEPT !.pc = "write"] \in Call
    BY <1>2 DEF Call, PCs
  <2>3. CallOK'
    BY <1>1, <2>1, <2>2, CallTyped
  <2>4. RestOK'
    BY <1>1, <1>5 DEF StoreTargets, list, RestOK, Unlocked
  <2> QED
    BY <1>1, <1>5, <2>3, <2>4, TypePartsNext DEF StoreTargets, list, world, TargetsOK, WorldOK
<1>6. CASE CheckUp(t)
  <2>1. CallOK'
    <3>1. [c EXCEPT !.pc = "expect"] \in Call
      BY <1>2 DEF Call, PCs
    <3>2. \/ call' = [call EXCEPT ![t] = ReturnSystem(t, c)]
          \/ call' = [call EXCEPT ![t] = [c EXCEPT !.pc = "expect"]]
      BY <1>1, <1>6 DEF CheckUp, CallOK, Call
    <3> QED
      BY <1>1, <1>4, <3>1, <3>2, CallTyped
  <2>2. TargetsOK'
    <3>1. r # 0 => [targets[r] EXCEPT !.State = eConnecting] \in STarget
      BY <1>3 DEF STarget, States
    <3>2. \/ r # 0 /\ targets' = Put(r, [targets[r] EXCEPT !.State = eConnecting])
          \/ UNCHANGED targets
      BY <1>6 DEF CheckUp
    <3>3. CASE UNCHANGED targets
      BY <1>1, <3>3 DEF TargetsOK
    <3> QED
      BY <1>1, <1>3, <3>1, <3>2, <3>3, PutTyped
  <2> QED
    BY <1>1, <1>6, <2>1, <2>2, TypePartsNext DEF CheckUp, world, WorldOK, RestOK, disk
<1>7. CASE ReadExpected(t)
  <2> DEFINE x == IF c.identity = eRequireSaved /\ r # 0 THEN targets[r].MachineId ELSE NoId
  <2>1. x \in Ids
    BY <1>3 DEF STarget, Ids
  <2>2. call' = [call EXCEPT ![t] = [c EXCEPT !.pc = "dial", !.expected = x]]
    BY <1>1, <1>7 DEF ReadExpected, CallOK, Call
  <2>3. [c EXCEPT !.pc = "dial", !.expected = x] \in Call
    BY <1>2, <2>1 DEF Call, PCs
  <2>4. CallOK'
    BY <1>1, <2>2, <2>3, CallTyped
  <2> QED
    BY <1>1, <1>7, <2>4, TypePartsNext DEF ReadExpected, list, world, TargetsOK, WorldOK, RestOK, disk
<1>8. CASE CreateRefused(t)
  <2>1. CallOK'
    BY <1>1, <1>4, <1>8, CallTyped DEF CreateRefused
  <2> QED
    BY <1>1, <1>3, <1>8, <2>1, TypePartsNext
       DEF CreateRefused, Strand, list, world, TargetsOK, WorldOK, RestOK, disk
<1>9. CASE HandshakeFails(t)
  <2>1. PICK e \in Errors : call' = [call EXCEPT ![t] = [c EXCEPT !.pc = "commit", !.status = e]]
    BY <1>1, <1>9 DEF HandshakeFails, CallOK, Call
  <2>2. [c EXCEPT !.pc = "commit", !.status = e] \in Call
    BY <1>2 DEF Call, PCs
  <2>3. CallOK'
    BY <1>1, <2>1, <2>2, CallTyped
  <2> QED
    BY <1>1, <1>9, <2>3, TypePartsNext DEF HandshakeFails, list, world, TargetsOK, WorldOK, RestOK, disk
<1>10. ASSUME NEW m \in Ids, Handshake(t, m)
       PROVE  TypeOK'
  <2> DEFINE s == CHOOSE x \in Unused : TRUE
  <2>1. s \in Systems
    BY <1>10 DEF Handshake, Unused
  <2>2. call' = [call EXCEPT ![t] = [c EXCEPT !.pc = "commit", !.new = s]]
    BY <1>1, <1>10 DEF Handshake, CallOK, Call
  <2>3. [c EXCEPT !.pc = "commit", !.new = s] \in Call
    BY <1>2, <2>1 DEF Call, PCs
  <2>4. CallOK'
    BY <1>1, <2>2, <2>3, CallTyped
  <2>5. WorldOK'
    BY <1>1, <1>2, <1>10, <2>1 DEF Handshake, WorldOK, Links, Call
  <2> QED
    BY <1>1, <1>10, <2>4, <2>5, TypePartsNext DEF Handshake, list, TargetsOK, RestOK, disk
<1>11. CASE CommitGone(t)
  <2>1. CallOK'
    BY <1>1, <1>4, <1>11, CallTyped DEF CommitGone
  <2>2. WorldOK'
    BY <1>1, <1>2, <1>11 DEF CommitGone, WorldOK, Close, Links, Ids, Call
  <2> QED
    BY <1>1, <1>11, <2>1, <2>2, TypePartsNext DEF CommitGone, list, TargetsOK, RestOK, disk
<1>12. CASE CommitFailed(t)
  <2>1. CallOK'
    BY <1>1, <1>4, <1>12, CallTyped DEF CommitFailed
  <2>2. Failed(r, c.status) \in STarget
    BY <1>2, <1>3, <1>12 DEF CommitFailed, Failed, STarget, States, Call
  <2>3. TargetsOK'
    BY <1>1, <1>3, <1>12, <2>2, PutTyped DEF CommitFailed
  <2> QED
    BY <1>1, <1>12, <2>1, <2>3, TypePartsNext DEF CommitFailed, world, WorldOK, RestOK, disk
<1>13. CASE CommitConnected(t)
  <2> DEFINE s == c.new
             n == IF c.daemon THEN "mark" ELSE "idle"
             d == [c EXCEPT !.pc = "store", !.new = NoSystem, !.next = n]
             x == [targets[r] EXCEPT !.State = eConnected, !.LastError = NoError,
                                     !.pSystem = s, !.MachineId = machine[s]]
  <2>1. s \in Systems
    BY <1>2, <1>13 DEF CommitConnected, Call
  <2>2. call' = [call EXCEPT ![t] = d]
    BY <1>1, <1>13 DEF CommitConnected, CallOK, Call
  <2>3. d \in Call
    BY <1>2 DEF Call, PCs
  <2>4. CallOK'
    BY <1>1, <2>2, <2>3, CallTyped
  <2>5. x \in STarget
    BY <1>1, <1>3, <1>13, <2>1 DEF CommitConnected, WorldOK, STarget, States
  <2>6. r \in Rows /\ targets' = Put(r, x)
    BY <1>3, <1>13 DEF CommitConnected
  <2>7. TargetsOK'
    BY <1>1, <2>5, <2>6, PutTyped
  <2>8. WorldOK'
    BY <1>1, <1>13, <2>1 DEF CommitConnected, Listen, Require, WorldOK
  <2>9. RestOK'
    BY <1>1, <1>13, <2>1 DEF CommitConnected, RestOK, disk
  <2> QED
    BY <2>4, <2>7, <2>8, <2>9, TypePartsNext
<1>14. CASE MarkDaemon(t)
  <2>1. CallOK'
    BY <1>1, <1>4, <1>14, CallTyped DEF MarkDaemon, Mark
  <2>2. r # 0 => [targets[r] EXCEPT !.bLocalDaemon = TRUE] \in STarget
    BY <1>3 DEF STarget
  <2>3. CASE r = 0
    BY <1>1, <1>14, <2>1, <2>3, TypePartsNext DEF MarkDaemon, Mark, world, TargetsOK, WorldOK, RestOK, disk
  <2>4. CASE r # 0
    <3>1. TargetsOK'
      BY <1>1, <1>3, <1>14, <2>2, <2>4, PutTyped DEF MarkDaemon, Mark
    <3> QED
      BY <1>1, <1>14, <2>1, <3>1, TypePartsNext DEF MarkDaemon, Mark, world, WorldOK, RestOK, disk
  <2> QED
    BY <2>3, <2>4
<1>15. CASE ForgetDaemon(t)
  <2> DEFINE d == [NoCall EXCEPT !.pc = "remove", !.name = c.name]
  <2>1. d \in Call
    BY <1>2, NoCallTyped DEF Call, PCs
  <2>2. CallOK'
    BY <1>1, <1>15, <2>1, CallTyped DEF ForgetDaemon
  <2> QED
    BY <1>1, <1>15, <2>2, DisconnectTyped, TypePartsNext DEF ForgetDaemon, RestOK, disk
<1>16. CASE RemoveRow(t)
  <2>1. CASE r = 0
    <3>1. CallOK'
      BY <1>1, <1>16, <2>1, NoCallTyped, CallTyped DEF RemoveRow, Done
    <3> QED
      BY <1>1, <1>16, <2>1, <3>1, TypePartsNext DEF RemoveRow, world, TargetsOK, WorldOK, RestOK, disk
  <2>2. CASE r # 0
    <3>1. CallOK'
      BY <1>1, <1>4, <1>16, <2>2, CallTyped DEF RemoveRow
    <3>2. TargetsOK'
      BY <1>1, <1>16, <2>2, DropTyped DEF RemoveRow
    <3> QED
      BY <1>1, <1>16, <3>1, <3>2, TypePartsNext DEF RemoveRow, world, WorldOK, RestOK, disk
  <2> QED
    BY <2>1, <2>2
<1>17. CASE Written(t)
  <2>1. CallOK'
    <3>1. CASE c.next = "idle"
      BY <1>1, <1>17, <3>1, NoCallTyped, CallTyped DEF Written, Done
    <3>2. CASE c.next # "idle"
      <4>1. call' = [call EXCEPT ![t] = [c EXCEPT !.pc = c.next, !.next = "idle"]]
        BY <1>1, <1>17, <3>2 DEF Written, CallOK, Call
      <4>2. [c EXCEPT !.pc = c.next, !.next = "idle"] \in Call
        BY <1>2 DEF Call, PCs
      <4> QED
        BY <1>1, <4>1, <4>2, CallTyped
    <3> QED
      BY <3>1, <3>2
  <2>2. RestOK'
    BY <1>1, <1>17, StoredTyped DEF Written, list, RestOK
  <2> QED
    BY <1>1, <1>17, <2>1, <2>2, TypePartsNext DEF Written, list, world, TargetsOK, WorldOK
<1> QED
  BY <1>5, <1>6, <1>7, <1>8, <1>9, <1>10, <1>11, <1>12, <1>13, <1>14, <1>15, <1>16, <1>17
     DEF ConnectStep

\* What a person does.
LEMMA UserTyped ==
  ASSUME TypeOK, User
  PROVE  TypeOK'
<1>1. TargetsOK /\ CallOK /\ WorldOK /\ RestOK
  BY TypeParts
<1>2. "gui" \in Threads /\ call["gui"] \in Call
  BY <1>1 DEF Threads, CallOK
<1>3. \A r \in DOMAIN targets : r \in Rows /\ targets[r] \in STarget
  BY <1>1 DEF TargetsOK
<1>4. ASSUME NEW n \in UserNames \cup {targets[r].Name : r \in DOMAIN targets},
             NEW a \in Addresses, ConnectByUser(n, a)
      PROVE  TypeOK'
  <2> DEFINE c == [NoCall EXCEPT !.name = n, !.address = a, !.takeView = TRUE]
  <2>1. n \in Names
    BY <1>3, <1>4 DEF STarget, Names
  <2>2. c \in Call
    BY <2>1, NoCallTyped DEF Call
  <2>3. TargetsOK' /\ CallOK' /\ WorldOK'
    BY <1>2, <1>4, <2>2, BeginConnectTyped DEF ConnectByUser
  <2>4. RestOK'
    BY <1>1, <1>4 DEF ConnectByUser, BeginConnect, RestOK, disk
  <2> QED
    BY <2>3, <2>4, TypePartsNext
<1>5. CASE AcceptNew
  <2> DEFINE c == [NoCall EXCEPT !.name = call["gui"].name, !.address = call["gui"].address,
                                 !.identity = eAcceptNew, !.takeView = TRUE]
  <2>1. c \in Call
    BY <1>2, NoCallTyped DEF Call
  <2>2. TargetsOK' /\ CallOK' /\ WorldOK'
    BY <1>2, <1>5, <2>1, BeginConnectTyped DEF AcceptNew
  <2>3. RestOK'
    BY <1>1, <1>5 DEF AcceptNew, BeginConnect, RestOK, disk
  <2> QED
    BY <2>2, <2>3, TypePartsNext
<1>6. CASE DeclineNew
  <2>1. CallOK'
    BY <1>1, <1>2, <1>6, NoCallTyped, CallTyped DEF DeclineNew, Done
  <2> QED
    BY <1>1, <1>6, <2>1, TypePartsNext DEF DeclineNew, list, world, TargetsOK, WorldOK, RestOK, disk
<1>7. ASSUME NEW r \in Rows, Disconnect(r)
      PROVE  TypeOK'
  BY <1>1, <1>7, DisconnectTyped, TypePartsNext DEF Disconnect, RestOK, disk, CallOK
<1>8. ASSUME NEW r \in Rows, RemoveTarget(r)
      PROVE  TypeOK'
  <2> DEFINE d == [NoCall EXCEPT !.pc = "remove", !.name = targets[r].Name]
  <2>1. d \in Call
    BY <1>3, <1>8, NoCallTyped DEF RemoveTarget, Call, PCs, STarget
  <2>2. CallOK'
    BY <1>1, <1>2, <1>8, <2>1, CallTyped DEF RemoveTarget
  <2> QED
    BY <1>1, <1>8, <2>2, DisconnectTyped, TypePartsNext DEF RemoveTarget, RestOK, disk
<1>9. ASSUME NEW r \in DOMAIN targets, NEW n \in NewNames \cup {targets[r].Name},
             NEW a \in Addresses, UpdateTarget(r, n, a)
      PROVE  TypeOK'
  <2> DEFINE x == [targets[r] EXCEPT !.Name = n, !.Address = a,
                                     !.State = IF @ = eDiscovered THEN eSaved ELSE @]
  <2>1. n \in Names
    BY <1>3, <1>9 DEF STarget, Names
  <2>2. x \in STarget
    BY <1>3, <2>1 DEF STarget, States
  <2>3. TargetsOK'
    BY <1>1, <1>3, <1>9, <2>2, PutTyped DEF UpdateTarget
  <2>4. ThenStore(NoCall) \in Call
    BY NoCallTyped DEF ThenStore, Call, PCs
  <2>5. CallOK'
    BY <1>1, <1>2, <1>9, <2>4, CallTyped DEF UpdateTarget
  <2> QED
    BY <1>1, <1>3, <1>9, <2>3, <2>5, TypePartsNext
       DEF UpdateTarget, Strand, world, WorldOK, RestOK, disk
<1>10. CASE StartDiscovery
  BY <1>1, <1>10, TypePartsNext
     DEF StartDiscovery, list, world, TargetsOK, CallOK, WorldOK, RestOK, disk
<1>11. CASE StopDiscovery
  <2>1. TargetsOK'
    BY <1>1, <1>11, DropTyped DEF StopDiscovery
  <2> QED
    BY <1>1, <1>11, <2>1, TypePartsNext DEF StopDiscovery, world, CallOK, WorldOK, RestOK, disk
<1>12. ASSUME NEW a \in Announced, OnDiscovered(a)
       PROVE  TypeOK'
  <2> DEFINE e == [Name |-> Label(a), Address |-> a.Address, MachineId |-> a.MachineId]
             x == [NewTarget(e) EXCEPT !.State = eDiscovered]
  <2>1. a \in [Address : Addresses, HostName : Hosts \cup {NoHost}, MachineId : Ids]
    BY <1>12, ClusterAssumption
  <2>2. Label(a) \in Names
    BY <2>1 DEF Label, Names
  <2>3. e \in SavedEntry
    BY <2>1, <2>2 DEF SavedEntry
  <2>4. x \in STarget
    BY <2>3, NewTargetTyped DEF STarget, States
  <2>5. TargetsOK'
    BY <1>1, <1>12, <2>4, PutTyped DEF OnDiscovered, HasRoom
  <2> QED
    BY <1>1, <1>12, <2>5, TypePartsNext DEF OnDiscovered, world, CallOK, WorldOK, RestOK, disk
<1>13. ASSUME NEW s \in Clicks, SetViewSystem(s) \/ SetGraphSystem(s)
       PROVE  TypeOK'
  <2>1. Resolve(s) \in Systems \cup {NoSystem}
    BY <1>1 DEF Resolve, RestOK
  <2> QED
    BY <1>1, <1>13, <2>1, TypePartsNext
       DEF SetViewSystem, SetGraphSystem, world, TargetsOK, CallOK, WorldOK, RestOK, disk
<1>14. CASE SetClusterMode
  BY <1>1, <1>14, TypePartsNext
     DEF SetClusterMode, world, TargetsOK, CallOK, WorldOK, RestOK, disk
<1> QED
  BY <1>4, <1>5, <1>6, <1>7, <1>8, <1>9, <1>10, <1>11, <1>12, <1>13, <1>14 DEF User

\* A signal is put at the end of the queue.
LEMMA EmitTyped ==
  ASSUME events \in Seq(Events), NEW s \in Systems,
         NEW e \in {"ConnectionLost", "Reconnected", "ReconnectRefused"}, Emit(e, s)
  PROVE  events' \in Seq(Events)
<1>1. <<e, s>> \in Events
  BY DEF Events
<1> QED
  BY <1>1 DEF Emit

\* What happens to the connections.
LEMMA ConnectionsTyped ==
  ASSUME TypeOK, Connections
  PROVE  TypeOK'
<1>1. TargetsOK /\ CallOK /\ WorldOK /\ RestOK
  BY TypeParts
<1>2. \A r \in DOMAIN targets : r \in Rows /\ targets[r] \in STarget
  BY <1>1 DEF TargetsOK
<1>3. ASSUME NEW s \in Systems, LinkLost(s)
      PROVE  TypeOK'
  <2>1. events' \in Seq(Events)
    BY <1>1, <1>3, EmitTyped DEF LinkLost, WorldOK
  <2>2. WorldOK'
    BY <1>1, <1>3, <2>1 DEF LinkLost, WorldOK, Links
  <2> QED
    BY <1>1, <1>3, <2>2, TypePartsNext DEF LinkLost, list, TargetsOK, CallOK, RestOK, disk
<1>4. ASSUME NEW s \in Systems, TryReconnectInVain(s)
      PROVE  TypeOK'
  BY <1>1, <1>4, TypePartsNext
     DEF TryReconnectInVain, list, TargetsOK, CallOK, WorldOK, RestOK, disk
<1>5. ASSUME NEW s \in Systems, NEW m \in Ids, TryReconnectAnswered(s, m)
      PROVE  TypeOK'
  <2>1. events' \in Seq(Events)
    BY <1>1, <1>5, EmitTyped DEF TryReconnectAnswered, WorldOK
  <2>2. WorldOK'
    BY <1>1, <1>5, <2>1 DEF TryReconnectAnswered, WorldOK, Links
  <2> QED
    BY <1>1, <1>5, <2>2, TypePartsNext DEF TryReconnectAnswered, list, TargetsOK, CallOK, RestOK, disk
<1>6. CASE RetryLostNodes
  <2>1. \A r \in DOMAIN targets : [targets[r] EXCEPT !.LastRetry = Interval] \in STarget
    BY <1>2, ClusterAssumption DEF STarget
  <2>2. TargetsOK'
    BY <1>1, <1>6, <2>1 DEF RetryLostNodes, TargetsOK
  <2>3. WorldOK'
    BY <1>1, <1>2, <1>6 DEF RetryLostNodes, Due, WorldOK, STarget
  <2> QED
    BY <1>1, <1>6, <2>2, <2>3, TypePartsNext DEF RetryLostNodes, CallOK, RestOK, disk
<1>7. CASE Tick
  <2>1. \A r \in DOMAIN targets :
          [targets[r] EXCEPT !.LastRetry = Later(@)] \in STarget
    BY <1>2, ClusterAssumption DEF STarget, Later
  <2>2. TargetsOK'
    BY <1>1, <1>7, <2>1 DEF Tick, TargetsOK
  <2> QED
    BY <1>1, <1>7, <2>2, TypePartsNext DEF Tick, world, CallOK, WorldOK, RestOK, disk
<1>8. ASSUME NEW e \in {"ConnectionLost", "Reconnected", "ReconnectRefused"}, Deliver(e)
      PROVE  TypeOK'
  <2> DEFINE s == Head(events)[2]
             r == RowOf(s)
  <2>1. WorldOK'
    BY <1>1, <1>8 DEF Deliver, WorldOK
  <2>2. r # 0 => r \in DOMAIN targets /\ r \in Rows /\ targets[r] \in STarget
    BY <1>2, RowOfFinds
  <2>3. r # 0 => /\ [targets[r] EXCEPT !.State = eLost] \in STarget
                 /\ Back(r) \in STarget
                 /\ Failed(r, "TE_MachineIdMismatch") \in STarget
    <3>1. 0 \in 0..Interval /\ "TE_MachineIdMismatch" \in Errors
      BY ClusterAssumption DEF Errors
    <3> QED
      BY <2>2, <3>1 DEF STarget, States, Back, Failed
  <2>4. \/ UNCHANGED targets
        \/ r # 0 /\ targets' = Put(r, [targets[r] EXCEPT !.State = eLost])
        \/ r # 0 /\ targets' = Put(r, Back(r))
        \/ r # 0 /\ targets' = Put(r, Failed(r, "TE_MachineIdMismatch"))
    BY <1>8 DEF Deliver, OnConnectionLost, OnReconnected, OnReconnectRefused
  <2>5. TargetsOK'
    <3>1. CASE UNCHANGED targets
      BY <1>1, <3>1 DEF TargetsOK
    <3> QED
      BY <1>1, <2>2, <2>3, <2>4, <3>1, PutTyped
  <2> QED
    BY <1>1, <1>8, <2>1, <2>5, TypePartsNext DEF Deliver, CallOK, RestOK, disk
<1> QED
  BY <1>3, <1>4, <1>5, <1>6, <1>7, <1>8 DEF Connections

LEMMA InitTyped == Init => TypeOK
<1> SUFFICES ASSUME Init PROVE TypeOK
  OBVIOUS
<1>1. TargetsOK
  <2>1. \A r \in 1..Len(SavedList) : r \in Rows /\ SavedList[r] \in SavedEntry
    BY ClusterAssumption DEF Rows
  <2>2. \A r \in 1..Len(SavedList) : NewTarget(SavedList[r]) \in STarget
    BY <2>1, NewTargetTyped
  <2> QED
    BY <2>1, <2>2 DEF Init, TargetsOK
<1>2. CallOK
  BY NoCallTyped DEF Init, CallOK
<1>3. WorldOK
  BY DEF Init, WorldOK, Links, Ids
<1>4. RestOK
  <2>1. {SavedList[r] : r \in 1..Len(SavedList)} \subseteq SavedEntry
    BY ClusterAssumption
  <2> QED
    BY <2>1 DEF Init, RestOK
<1> QED
  BY <1>1, <1>2, <1>3, <1>4, TypeParts

LEMMA NextTyped == TypeOK /\ [Next]_vars => TypeOK'
<1> SUFFICES ASSUME TypeOK, [Next]_vars PROVE TypeOK'
  OBVIOUS
<1>1. CASE UNCHANGED vars
  BY <1>1 DEF vars, TypeOK
<1> QED
  BY <1>1, StartupTyped, UserTyped, ConnectionsTyped, ConnectStepTyped DEF Next

\* Every variable keeps its type, for any constants: in particular the row a
\* Connect or a slot looks up again after it let go of the lock is one that is
\* in use, and no retry stamp leaves its range.
THEOREM TypeCorrect == Spec => []TypeOK
BY InitTyped, NextTyped, PTL DEF Spec
=============================================================================
