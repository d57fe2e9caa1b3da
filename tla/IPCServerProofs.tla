-------------------------- MODULE IPCServerProofs --------------------------
(***************************************************************************)
(* The life of the server's connections, and its limit on failed           *)
(* handshakes, for any number of sockets and addresses and any limits.     *)
(***************************************************************************)
EXTENDS IPCServer, FiniteSetTheorems, FunctionTheorems, TLAPS

\* The types of what the argument is about.
SocketTypes ==
  /\ obj \in [Sockets -> {"none", "raw", "ipc"}]
  /\ link \in [Sockets -> {"up", "closing", "down"}]
  /\ doomed \subseteq Sockets /\ connections \subseteq Sockets

\* What was given to deleteLater is still there and has lost its connection:
\* without it a socket could be adopted, or its place be taken by a new one,
\* while a deletion is pending.
DoomedIsDown == \A s \in doomed : obj[s] # "none" /\ link[s] = "down"

Inv == SocketTypes /\ ListedAreLive /\ DoomedIsDown /\ ReaderIsThere

\* What a handler or the loop may do to a connection keeps the list right.
LEMMA GoneInv ==
  ASSUME NEW s \in Sockets, Inv, obj[s] = "ipc", Gone(s), loop' \in {loop, NoSocket}
  PROVE  Inv'
<1> USE DEF Inv
<1>1. SocketTypes'
  BY DEF SocketTypes, Gone, OnDisconnected
<1>2. ListedAreLive'
  BY DEF SocketTypes, Gone, OnDisconnected, ListedAreLive
<1>3. DoomedIsDown'
  BY DEF SocketTypes, Gone, OnDisconnected, DoomedIsDown
<1>4. ReaderIsThere'
  BY DEF Gone, OnDisconnected, ReaderIsThere
<1> QED BY <1>1, <1>2, <1>3, <1>4

LEMMA ClosingInv ==
  ASSUME NEW s \in Sockets, Inv, obj[s] = "ipc", Closing(s), loop' = loop
  PROVE  Inv'
<1>1. CASE Gone(s)
  BY <1>1, GoneInv
<1>2. CASE /\ link[s] = "up" /\ link' = [link EXCEPT ![s] = "closing"]
           /\ UNCHANGED <<obj, doomed, connections>>
  BY <1>2 DEF Inv, SocketTypes, ListedAreLive, DoomedIsDown, ReaderIsThere
<1> QED BY <1>1, <1>2 DEF Closing

LEMMA UnchangedInv ==
  ASSUME Inv, UNCHANGED <<obj, doomed, link, connections>>, loop' \in {loop, NoSocket}
  PROVE  Inv'
  BY DEF Inv, SocketTypes, ListedAreLive, DoomedIsDown, ReaderIsThere

LEMMA InitInv == Init => Inv
  BY IPCServerAssumption
  DEF Init, Inv, SocketTypes, ListedAreLive, DoomedIsDown, ReaderIsThere

LEMMA StepInv == Inv /\ [Next]_vars => Inv'
<1> SUFFICES ASSUME Inv, [Next]_vars PROVE Inv'
  OBVIOUS
<1> USE IPCServerAssumption
<1>1. CASE Listen \/ ListenTcp \/ Tick
  BY <1>1, UnchangedInv DEF Listen, ListenTcp, Tick, sockets, reading
<1>2. CASE Close
  BY <1>2 DEF Close, EventLoop, reading, Inv, SocketTypes, ListedAreLive, DoomedIsDown,
              ReaderIsThere
<1>3. ASSUME NEW s \in Sockets, NEW a \in Addresses, Accept(s, a) PROVE Inv'
  BY <1>3 DEF Accept, EventLoop, reading, Inv, SocketTypes, ListedAreLive, DoomedIsDown,
              ReaderIsThere
<1>4. ASSUME NEW a \in Addresses, Refuse(a) PROVE Inv'
  BY <1>4, UnchangedInv DEF Refuse, sockets, reading
<1>5. ASSUME NEW s \in Sockets, Encrypted(s) PROVE Inv'
  BY <1>5 DEF Encrypted, EventLoop, reading, Inv, SocketTypes, ListedAreLive, DoomedIsDown,
              ReaderIsThere
<1>6. ASSUME NEW s \in Sockets, HandshakeError(s) PROVE Inv'
  BY <1>6 DEF HandshakeError, EventLoop, reading, Inv, SocketTypes, ListedAreLive,
              DoomedIsDown, ReaderIsThere
<1>7. ASSUME NEW s \in Sockets, AdoptedError(s) PROVE Inv'
  BY <1>7, UnchangedInv DEF AdoptedError, reading
<1>8. ASSUME NEW s \in Sockets, NewLocal(s) PROVE Inv'
  BY <1>8 DEF NewLocal, EventLoop, reading, Inv, SocketTypes, ListedAreLive, DoomedIsDown,
              ReaderIsThere
<1>9. ASSUME NEW s \in Sockets, Disconnect(s) PROVE Inv'
  BY <1>9, ClosingInv DEF Disconnect, reading
<1>10. ASSUME NEW s \in Sockets, PeerGone(s) PROVE Inv'
  BY <1>10, GoneInv DEF PeerGone, reading
<1>11. ASSUME NEW s \in Sockets, Deleted(s) PROVE Inv'
  BY <1>11 DEF Deleted, EventLoop, reading, Inv, SocketTypes, ListedAreLive, DoomedIsDown,
              ReaderIsThere
<1>12. CASE Dispatch
  <2>1. ASSUME NEW s \in connections, Closing(s) PROVE Inv'
    <3>1. s \in Sockets /\ obj[s] = "ipc"
      BY DEF Inv, SocketTypes, ListedAreLive
    <3> QED BY <1>12, <2>1, <3>1, ClosingInv DEF Dispatch
  <2>2. CASE UNCHANGED <<obj, link, doomed, connections>>
    BY <1>12, <2>2, UnchangedInv DEF Dispatch
  <2> QED BY <1>12, <2>1, <2>2 DEF Dispatch, Handled
<1>13. CASE Fail
  <2>1. loop \in Sockets /\ obj[loop] = "ipc"
    BY <1>13 DEF Fail, Inv, ReaderIsThere
  <2> QED BY <1>13, <2>1, GoneInv DEF Fail
<1>14. CASE ReadDone
  BY <1>14, UnchangedInv DEF ReadDone, sockets
<1>15. ASSUME NEW s \in Sockets, NEW n \in 1..MaxFrames, ReadyRead(s, n) PROVE Inv'
  BY <1>15 DEF ReadyRead, sockets, Inv, SocketTypes, ListedAreLive, DoomedIsDown,
              ReaderIsThere
<1>16. CASE UNCHANGED vars
  BY <1>16, UnchangedInv DEF vars
<1> QED BY <1>1, <1>2, <1>3, <1>4, <1>5, <1>6, <1>7, <1>8, <1>9, <1>10, <1>11, <1>12, <1>13,
           <1>14, <1>15, <1>16 DEF Next, Handshakes, Life, Reading

LEMMA SpecInv == Spec => []Inv
  BY InitInv, StepInv, PTL DEF Spec

\* Dropping old failures leaves a list of failures.
LEMMA DropType ==
  ASSUME NEW q \in Seq(Ages)
  PROVE  DropOlderThan(q) \in Seq(Ages)
<1> DEFINE E == {i \in 1..Len(q) : \A j \in 1..i : q[j] > Window}
<1>1. IsFiniteSet(1..Len(q)) /\ E \subseteq 1..Len(q)
  BY FS_Interval
<1>2. Expired(q) \in Nat
  BY <1>1, FS_Subset, FS_CardinalityType DEF Expired
<1> QED BY <1>2 DEF DropOlderThan

\* The types of the rest.
OtherTypes ==
  /\ server \in BOOLEAN /\ tls \in BOOLEAN
  /\ from \in [Sockets -> Addresses] /\ reports \in [Sockets -> 0..MaxReports]
  /\ loop \in Sockets \cup {NoSocket} /\ buffer \in 0..MaxFrames
LimitTypes == failures \in [Addresses -> Seq(Ages)] /\ allFailures \in Seq(Ages)

LEMMA LookedType ==
  ASSUME NEW a \in Addresses, LimitTypes, Looked(a)
  PROVE  LimitTypes'
<1>1. DropOlderThan(allFailures) \in Seq(Ages) /\ DropOlderThan(failures[a]) \in Seq(Ages)
  BY DropType DEF LimitTypes
<1> QED BY <1>1 DEF Looked, LimitTypes

LEMMA NoteType ==
  ASSUME NEW a \in Addresses, LimitTypes, NoteHandshakeFailure(a)
  PROVE  LimitTypes'
<1>1. 0 \in Ages
  BY IPCServerAssumption DEF Ages
<1>2. Append(allFailures, 0) \in Seq(Ages) /\ Append(failures[a], 0) \in Seq(Ages)
  BY <1>1 DEF LimitTypes
<1> QED BY <1>2 DEF NoteHandshakeFailure, LimitTypes

LEMMA OlderType ==
  ASSUME NEW q \in Seq(Ages)
  PROVE  [i \in DOMAIN q |-> IF q[i] > Window THEN q[i] ELSE q[i] + 1] \in Seq(Ages)
<1> DEFINE o == [i \in DOMAIN q |-> IF q[i] > Window THEN q[i] ELSE q[i] + 1]
<1>1. DOMAIN q = 1..Len(q) /\ Len(q) \in Nat
  OBVIOUS
<1>2. \A i \in 1..Len(q) : q[i] \in Ages
  OBVIOUS
<1>3. \A i \in 1..Len(q) : (IF q[i] > Window THEN q[i] ELSE q[i] + 1) \in Ages
  BY <1>2, IPCServerAssumption DEF Ages
<1>4. o \in [1..Len(q) -> Ages]
  BY <1>1, <1>3
<1> QED BY <1>1, <1>4

LEMMA TypesStep ==
  ASSUME Inv, OtherTypes, LimitTypes, [Next]_vars
  PROVE  OtherTypes' /\ LimitTypes'
<1> USE IPCServerAssumption
<1>1. CASE Listen \/ ListenTcp
  BY <1>1 DEF Listen, ListenTcp, sockets, reading, limits, OtherTypes, LimitTypes
<1>2. CASE Tick
  <2>1. LimitTypes'
    BY <1>2, OlderType DEF Tick, LimitTypes
  <2> QED BY <1>2, <2>1 DEF Tick, listeners, sockets, reading, OtherTypes
<1>3. CASE Close
  BY <1>3 DEF Close, reading, limits, OtherTypes, LimitTypes
<1>4. ASSUME NEW s \in Sockets, NEW a \in Addresses, Accept(s, a)
      PROVE  OtherTypes' /\ LimitTypes'
  <2>1. LimitTypes'
    BY <1>4, LookedType DEF Accept
  <2> QED BY <1>4, <2>1 DEF Accept, listeners, reading, OtherTypes
<1>5. ASSUME NEW a \in Addresses, Refuse(a) PROVE OtherTypes' /\ LimitTypes'
  <2>1. LimitTypes'
    BY <1>5, LookedType DEF Refuse
  <2> QED BY <1>5, <2>1 DEF Refuse, listeners, sockets, reading, OtherTypes
<1>6. ASSUME NEW s \in Sockets, HandshakeError(s) PROVE OtherTypes' /\ LimitTypes'
  <2>1. from[s] \in Addresses
    BY DEF OtherTypes
  <2>2. LimitTypes'
    BY <1>6, <2>1, NoteType DEF HandshakeError
  <2> QED BY <1>6, <2>2 DEF HandshakeError, listeners, reading, OtherTypes
<1>7. ASSUME NEW s \in Sockets, AdoptedError(s) \/ Encrypted(s) \/ NewLocal(s)
      PROVE  OtherTypes' /\ LimitTypes'
  <2>1. UNCHANGED <<server, tls, from, loop, buffer, failures, allFailures>>
    BY <1>7 DEF AdoptedError, Encrypted, NewLocal, listeners, reading, limits
  <2>2. reports' \in [Sockets -> 0..MaxReports]
    <3>1. CASE AdoptedError(s)
      BY <3>1 DEF AdoptedError, OtherTypes
    <3>2. CASE Encrypted(s)
      BY <3>2 DEF Encrypted, OtherTypes
    <3>3. CASE NewLocal(s)
      BY <3>3 DEF NewLocal, OtherTypes
    <3> QED BY <1>7, <3>1, <3>2, <3>3
  <2> QED BY <2>1, <2>2 DEF OtherTypes, LimitTypes
<1>8. ASSUME NEW s \in Sockets, Disconnect(s) \/ PeerGone(s) \/ Deleted(s)
      PROVE  OtherTypes' /\ LimitTypes'
  BY <1>8 DEF Disconnect, PeerGone, Deleted, listeners, reading, limits, OtherTypes, LimitTypes
<1>9. CASE Dispatch \/ Fail
  <2>1. buffer' \in 0..MaxFrames /\ loop' \in Sockets \cup {NoSocket}
    BY <1>9 DEF Dispatch, Fail, OtherTypes
  <2>2. UNCHANGED <<server, tls, from, reports, failures, allFailures>>
    BY <1>9 DEF Dispatch, Fail, listeners, limits
  <2> QED BY <2>1, <2>2 DEF OtherTypes, LimitTypes
<1>10. CASE ReadDone
  BY <1>10 DEF ReadDone, listeners, sockets, limits, OtherTypes, LimitTypes
<1>11. ASSUME NEW s \in Sockets, NEW n \in 1..MaxFrames, ReadyRead(s, n)
       PROVE  OtherTypes' /\ LimitTypes'
  BY <1>11 DEF ReadyRead, listeners, sockets, limits, OtherTypes, LimitTypes
<1>12. CASE UNCHANGED vars
  BY <1>12 DEF vars, OtherTypes, LimitTypes
<1> QED BY <1>1, <1>2, <1>3, <1>4, <1>5, <1>6, <1>7, <1>8, <1>9, <1>10, <1>11, <1>12
        DEF Next, Handshakes, Life, Reading

\* Every list and flag keeps its type; the lists of failures stay lists of ages
\* whatever is dropped and appended.
THEOREM ServerTypes == Spec => []TypeOK
<1>1. Init => OtherTypes /\ LimitTypes
  <2> SUFFICES ASSUME Init PROVE OtherTypes /\ LimitTypes
    OBVIOUS
  <2>1. (CHOOSE a \in Addresses : TRUE) \in Addresses
    BY IPCServerAssumption
  <2>2. from \in [Sockets -> Addresses]
    BY <2>1 DEF Init
  <2>3. reports \in [Sockets -> 0..MaxReports] /\ buffer \in 0..MaxFrames
    BY IPCServerAssumption DEF Init
  <2>4. LimitTypes
    BY DEF Init, LimitTypes
  <2> QED BY <2>2, <2>3, <2>4 DEF Init, OtherTypes
<1>2. Inv /\ OtherTypes /\ LimitTypes /\ [Next]_vars => (OtherTypes /\ LimitTypes)'
  BY TypesStep
<1>3. Inv /\ OtherTypes /\ LimitTypes => TypeOK
  BY DEF Inv, SocketTypes, OtherTypes, LimitTypes, TypeOK
<1> QED BY <1>1, <1>2, <1>3, SpecInv, PTL DEF Spec

\* m_Connections is the adopted sockets that are connected, none of them about
\* to be deleted, for any number of sockets and any order of the handlers.
THEOREM ListSafe == Spec => []ListedAreLive
  BY SpecInv, PTL DEF Inv

\* OnReadyRead never works on a socket that was freed by a handler it called.
THEOREM ReaderSafe == Spec => []ReaderIsThere
  BY SpecInv, PTL DEF Inv
-----------------------------------------------------------------------------
\* The two records of failures.

LEMMA LeastNumber ==
  ASSUME NEW S, S \subseteq Nat, S # {}
  PROVE  \E r \in S : \A q \in S : ~(q < r)
<1> DEFINE Before == {ss \in Nat \X Nat : ss[1] < ss[2]}
<1>1. IsWellFoundedOn(Before, Nat)
  BY NatLessThanWellFounded, Zenon DEF OpToRel
<1>2. \A x, y \in Nat : x < y => <<x, y>> \in Before
  OBVIOUS
<1> HIDE DEF Before
<1>3. PICK r \in S : \A q \in S : ~(<<q, r>> \in Before)
  BY <1>1, WFMin
<1>4. \A q \in S : ~(q < r)
  BY <1>2, <1>3, Zenon
<1> QED BY <1>3, <1>4

\* What DropOlderThan drops is the longest beginning that is past the window.
LEMMA ExpiredPrefix ==
  ASSUME NEW q \in Seq(Ages)
  PROVE  /\ Expired(q) \in 0..Len(q)
         /\ \A j \in 1..Expired(q) : q[j] > Window
<1> DEFINE E == {i \in 1..Len(q) : \A j \in 1..i : q[j] > Window}
           T == {k \in 0..Len(q) : k + 1 \notin E}
<1>1. Len(q) \in Nat
  OBVIOUS
<1>2. Len(q) \in T /\ T \subseteq Nat
  BY <1>1
<1>3. PICK m \in T : \A k \in T : ~(k < m)
  BY <1>2, LeastNumber
<1>4. m \in 0..Len(q) /\ m \in Nat /\ m + 1 \notin E
  BY <1>1, <1>3
<1>5. ASSUME NEW i \in 1..m PROVE i \in E
  <2>1. i - 1 \in 0..Len(q) /\ i - 1 < m
    BY <1>1, <1>4
  <2>2. i - 1 \notin T
    BY <1>3, <2>1
  <2>3. (i - 1) + 1 = i
    BY <1>4
  <2> QED BY <2>1, <2>2, <2>3
<1>6. ASSUME NEW i \in E PROVE i \in 1..m
  <2>1. i \in 1..Len(q) /\ \A j \in 1..i : q[j] > Window
    OBVIOUS
  <2>2. SUFFICES ASSUME i > m PROVE FALSE
    BY <1>1, <1>4, <2>1
  <2>3. m + 1 \in 1..Len(q) /\ \A j \in 1..(m + 1) : j \in 1..i
    BY <1>1, <1>4, <2>1, <2>2
  <2> QED BY <1>4, <2>1, <2>3
<1>7. E = 1..m
  <2> HIDE DEF E
  <2> QED BY <1>5, <1>6
<1>8. Cardinality(1..m) = m
  BY <1>4, FS_Interval
<1>9. Expired(q) = m
  BY <1>7, <1>8 DEF Expired
<1>10. \A j \in 1..m : j \in E
  BY <1>5
<1>11. \A j \in 1..m : q[j] > Window
  BY <1>4, <1>10
<1> QED BY <1>4, <1>9, <1>11

\* The rest moves up by as many places.
LEMMA DropShifts ==
  ASSUME NEW q \in Seq(Ages)
  PROVE  /\ DropOlderThan(q) \in Seq(Ages)
         /\ Len(DropOlderThan(q)) = Len(q) - Expired(q)
         /\ \A i \in 1..Len(DropOlderThan(q)) : DropOlderThan(q)[i] = q[i + Expired(q)]
<1> DEFINE k == Expired(q)
<1>1. k \in 0..Len(q) /\ Len(q) \in Nat
  BY ExpiredPrefix
<1> HIDE DEF k
<1>2. Len(SubSeq(q, k + 1, Len(q))) = Len(q) - k
  BY <1>1
<1>3. \A i \in 1..(Len(q) - k) : SubSeq(q, k + 1, Len(q))[i] = q[i + k]
  BY <1>1
<1>4. DropOlderThan(q) = SubSeq(q, k + 1, Len(q))
  BY DEF DropOlderThan, k
<1>5. DropOlderThan(q) \in Seq(Ages)
  BY DropType
<1> QED BY <1>2, <1>3, <1>4, <1>5 DEF k

\* So a record keeps as many failures of each age within the window.
LEMMA DropKeeps ==
  ASSUME NEW q \in Seq(Ages), NEW P \in SUBSET (0..Window)
  PROVE  LET S == {i \in 1..Len(q) : q[i] \in P}
             T == {i \in 1..Len(DropOlderThan(q)) : DropOlderThan(q)[i] \in P}
         IN  IsFiniteSet(S) /\ IsFiniteSet(T) /\ Cardinality(T) = Cardinality(S)
<1> DEFINE k == Expired(q)
           d == DropOlderThan(q)
           S == {i \in 1..Len(q) : q[i] \in P}
           T == {i \in 1..Len(d) : d[i] \in P}
           f == [i \in S |-> i - k]
<1> HIDE DEF k, d
<1>0. /\ Len(d) = Len(q) - k
      /\ \A i \in 1..Len(d) : d[i] = q[i + k]
  BY DropShifts DEF k, d
<1>1. /\ k \in 0..Len(q) /\ Len(q) \in Nat /\ Len(d) = Len(q) - k
      /\ \A j \in 1..k : q[j] > Window
      /\ \A i \in 1..Len(d) : d[i] = q[i + k]
  BY <1>0, ExpiredPrefix DEF k
<1>2. ASSUME NEW i \in S PROVE i - k \in T
  <2>0. i \in 1..Len(q) /\ q[i] \in P
    OBVIOUS
  <2>1. i \in 1..Len(q) /\ q[i] \in P /\ ~(q[i] > Window)
    <3>1. q[i] \in 0..Window
      BY <2>0
    <3> QED BY <2>0, <3>1, IPCServerAssumption
  <2>2. i > k
    BY <1>1, <2>1
  <2>3. i - k \in 1..Len(d) /\ (i - k) + k = i
    BY <1>1, <2>1, <2>2
  <2>4. d[i - k] = q[i]
    BY <1>1, <2>3
  <2> QED BY <2>1, <2>3, <2>4
<1>3. ASSUME NEW t \in T PROVE t + k \in S /\ (t + k) - k = t
  BY <1>1
<1>4. \A a, b \in S : a - k = b - k => a = b
  BY <1>1
<1>5. IsFiniteSet(S)
  <2>1. IsFiniteSet(1..Len(q)) /\ S \in SUBSET (1..Len(q))
    BY <1>1, FS_Interval
  <2> QED BY <2>1, FS_Subset
<1> HIDE DEF S, T
<1>6. f \in [S -> T] /\ \A a, b \in S : f[a] = f[b] => a = b
  BY <1>2, <1>4
<1>7. \A t \in T : \E i \in S : f[i] = t
  BY <1>3
<1> HIDE DEF f
<1>8. f \in Bijection(S, T)
  BY <1>6, <1>7, Fun_IsBij
<1>9. ExistsBijection(S, T)
  BY <1>8 DEF ExistsBijection
<1>10. IsFiniteSet(T) /\ Cardinality(T) = Cardinality(S)
  BY <1>5, <1>9, FS_Bijection
<1> QED BY <1>5, <1>10 DEF S, T, d

\* The failures of an age in the global record, and in those of the addresses.
Aged(q, age) == {i \in 1..Len(q) : q[i] = age}
Entries(f, age) == {e \in UNION {{a} \X (1..Len(f[a])) : a \in Addresses} : f[e[1]][e[2]] = age}

Records == [Addresses -> Seq(Ages)]

LEMMA EntryIs ==
  ASSUME NEW f, NEW age, NEW e
  PROVE  e \in Entries(f, age)
           <=> \E a \in Addresses : \E i \in 1..Len(f[a]) : e = <<a, i>> /\ f[a][i] = age
<1>1. ASSUME e \in Entries(f, age)
      PROVE  \E a \in Addresses : \E i \in 1..Len(f[a]) : e = <<a, i>> /\ f[a][i] = age
  <2>1. PICK a \in Addresses : e \in {a} \X (1..Len(f[a]))
    BY <1>1 DEF Entries
  <2>2. e = <<a, e[2]>> /\ e[2] \in 1..Len(f[a]) /\ e[1] = a
    BY <2>1
  <2>3. f[a][e[2]] = age
    BY <1>1, <2>2 DEF Entries
  <2> QED BY <2>2, <2>3
<1>2. ASSUME NEW a \in Addresses, NEW i \in 1..Len(f[a]), e = <<a, i>>, f[a][i] = age
      PROVE  e \in Entries(f, age)
  BY <1>2 DEF Entries
<1> QED BY <1>1, <1>2

\* IsRateLimited's trimming of an address keeps the failures of each age within
\* the window.
LEMMA DropEntries ==
  ASSUME NEW f \in Records, NEW a \in Addresses, NEW age \in 0..Window,
         IsFiniteSet(Entries(f, age))
  PROVE  LET g == [f EXCEPT ![a] = DropOlderThan(@)]
         IN  /\ IsFiniteSet(Entries(g, age))
             /\ Cardinality(Entries(g, age)) = Cardinality(Entries(f, age))
<1> DEFINE g == [f EXCEPT ![a] = DropOlderThan(@)]
           k == Expired(f[a])
           F == Entries(f, age)
           G == Entries(g, age)
           move == [e \in F |-> IF e[1] = a THEN <<a, e[2] - k>> ELSE e]
<1>1. f[a] \in Seq(Ages)
  BY DEF Records
<1>2. /\ k \in 0..Len(f[a]) /\ Len(f[a]) \in Nat
      /\ \A j \in 1..k : f[a][j] > Window
  BY <1>1, ExpiredPrefix
<1>3. g[a] = DropOlderThan(f[a]) /\ \A b \in Addresses : b # a => g[b] = f[b]
  BY DEF Records
<1>4. /\ Len(g[a]) = Len(f[a]) - k
      /\ \A i \in 1..Len(g[a]) : g[a][i] = f[a][i + k]
  BY <1>1, <1>3, DropShifts
<1> HIDE DEF g, k
<1>5. ASSUME NEW i \in 1..Len(f[a]), f[a][i] = age
      PROVE  i - k \in 1..Len(g[a]) /\ g[a][i - k] = age /\ i \in Nat
  <2>1. ~(f[a][i] > Window)
    BY <1>5, IPCServerAssumption
  <2>2. i > k
    BY <1>2, <2>1
  <2>3. i - k \in 1..Len(g[a]) /\ (i - k) + k = i
    BY <1>2, <1>4, <2>2
  <2> QED BY <1>2, <1>4, <1>5, <2>3
<1>6. ASSUME NEW e \in F
      PROVE  /\ e[1] = a => e[2] \in Nat /\ e = <<a, e[2]>> /\ <<a, e[2] - k>> \in G
             /\ e[1] # a => e \in G
  <2>0. PICK b \in Addresses : \E i \in 1..Len(f[b]) : e = <<b, i>> /\ f[b][i] = age
    BY EntryIs
  <2>1. PICK i \in 1..Len(f[b]) : e = <<b, i>> /\ f[b][i] = age
    BY <2>0
  <2>2. e[1] = b /\ e[2] = i
    BY <2>1
  <2>3. CASE b = a
    <3>1. i - k \in 1..Len(g[a]) /\ g[a][i - k] = age /\ i \in Nat
      BY <1>5, <2>1, <2>3
    <3>2. <<a, i - k>> \in G
      BY <3>1, EntryIs
    <3> QED BY <2>1, <2>2, <2>3, <3>1, <3>2
  <2>4. CASE b # a
    <3>1. e \in G
      BY <1>3, <2>1, <2>4, EntryIs
    <3> QED BY <2>2, <2>4, <3>1
  <2> QED BY <2>3, <2>4
<1>7. ASSUME NEW t \in G PROVE \E e \in F : move[e] = t
  <2>0. PICK b \in Addresses : \E i \in 1..Len(g[b]) : t = <<b, i>> /\ g[b][i] = age
    BY EntryIs
  <2>1. PICK i \in 1..Len(g[b]) : t = <<b, i>> /\ g[b][i] = age
    BY <2>0
  <2>2. CASE b = a
    <3>1. i + k \in 1..Len(f[a]) /\ (i + k) - k = i
      BY <1>2, <1>4, <2>1, <2>2
    <3>2. f[a][i + k] = age
      BY <1>4, <2>1, <2>2
    <3>3. <<a, i + k>> \in F
      BY <3>1, <3>2, EntryIs
    <3>4. move[<<a, i + k>>] = <<a, (i + k) - k>>
      BY <3>3
    <3> QED BY <2>1, <2>2, <3>1, <3>3, <3>4
  <2>3. CASE b # a
    <3>1. t \in F
      BY <1>3, <2>1, <2>3, EntryIs
    <3>2. t[1] # a
      BY <2>1, <2>3
    <3>3. move[t] = t
      BY <3>1, <3>2
    <3> QED BY <3>1, <3>3
  <2> QED BY <2>2, <2>3
<1> HIDE DEF F, G
<1>8. move \in [F -> G]
  BY <1>6
<1>9. ASSUME NEW x \in F, NEW y \in F, move[x] = move[y] PROVE x = y
  <2>1. CASE x[1] = a /\ y[1] = a
    <3>1. <<a, x[2] - k>> = <<a, y[2] - k>>
      BY <1>9, <2>1
    <3>2. x[2] - k = y[2] - k
      BY <3>1
    <3>0. x[2] \in Nat /\ y[2] \in Nat
      BY <1>6, <2>1
    <3>3. x[2] = y[2]
      BY <1>2, <3>0, <3>2
    <3>4. x = <<a, x[2]>> /\ y = <<a, y[2]>>
      BY <1>6, <2>1
    <3> QED BY <3>3, <3>4
  <2>2. CASE x[1] = a /\ y[1] # a
    <3>1. <<a, x[2] - k>> = y
      BY <1>9, <2>2
    <3> QED BY <2>2, <3>1
  <2>3. CASE x[1] # a /\ y[1] = a
    <3>1. <<a, y[2] - k>> = x
      BY <1>9, <2>3
    <3> QED BY <2>3, <3>1
  <2>4. CASE x[1] # a /\ y[1] # a
    BY <1>9, <2>4
  <2> QED BY <2>1, <2>2, <2>3, <2>4
<1> HIDE DEF move
<1>10. \A t \in G : \E e \in F : move[e] = t
  BY <1>7
<1>11. move \in Bijection(F, G)
  BY <1>8, <1>9, <1>10, Fun_IsBij
<1>12. ExistsBijection(F, G)
  BY <1>11 DEF ExistsBijection
<1>13. IsFiniteSet(F)
  BY DEF F
<1>14. IsFiniteSet(G) /\ Cardinality(G) = Cardinality(F)
  BY <1>12, <1>13, FS_Bijection
<1> QED BY <1>14 DEF F, G, g

\* The same of the global record.
LEMMA DropAged ==
  ASSUME NEW q \in Seq(Ages), NEW age \in 0..Window
  PROVE  Cardinality(Aged(DropOlderThan(q), age)) = Cardinality(Aged(q, age))
<1>1. {age} \in SUBSET (0..Window)
  OBVIOUS
<1>2. Cardinality({i \in 1..Len(DropOlderThan(q)) : DropOlderThan(q)[i] \in {age}})
        = Cardinality({i \in 1..Len(q) : q[i] \in {age}})
  BY <1>1, DropKeeps
<1>3. ASSUME NEW s PROVE Aged(s, age) = {i \in 1..Len(s) : s[i] \in {age}}
  BY DEF Aged
<1> QED BY <1>2, <1>3

LEMMA AgedFinite ==
  ASSUME NEW q \in Seq(Ages), NEW age
  PROVE  IsFiniteSet(Aged(q, age))
<1>1. IsFiniteSet(1..Len(q)) /\ Aged(q, age) \in SUBSET (1..Len(q))
  BY FS_Interval DEF Aged
<1> QED BY <1>1, FS_Subset

\* A failure is one more of age 0 in both.
LEMMA NoteAged ==
  ASSUME NEW q \in Seq(Ages), NEW age
  PROVE  Aged(Append(q, 0), age)
           = IF age = 0 THEN Aged(q, age) \cup {Len(q) + 1} ELSE Aged(q, age)
<1> DEFINE p == Append(q, 0)
<1>1. /\ Len(q) \in Nat /\ Len(p) = Len(q) + 1 /\ p[Len(q) + 1] = 0
      /\ \A i \in 1..Len(q) : p[i] = q[i]
  OBVIOUS
<1> HIDE DEF p
<1>2. 1..Len(p) = (1..Len(q)) \cup {Len(q) + 1}
  BY <1>1
<1>3. Len(q) + 1 \notin 1..Len(q)
  BY <1>1
<1>4. Aged(p, age) = IF age = 0 THEN Aged(q, age) \cup {Len(q) + 1} ELSE Aged(q, age)
  BY <1>1, <1>2, <1>3 DEF Aged
<1> QED BY <1>4 DEF p

LEMMA NoteEntries ==
  ASSUME NEW f \in Records, NEW a \in Addresses, NEW age
  PROVE  LET g == [f EXCEPT ![a] = Append(@, 0)]
         IN  Entries(g, age) = IF age = 0 THEN Entries(f, age) \cup {<<a, Len(f[a]) + 1>>}
                               ELSE Entries(f, age)
<1> DEFINE g == [f EXCEPT ![a] = Append(@, 0)]
           n == Len(f[a])
<1>1. f[a] \in Seq(Ages) /\ n \in Nat
  BY DEF Records
<1>2. g[a] = Append(f[a], 0) /\ \A b \in Addresses : b # a => g[b] = f[b]
  BY DEF Records
<1>3. /\ Len(g[a]) = n + 1 /\ g[a][n + 1] = 0
      /\ \A i \in 1..n : g[a][i] = f[a][i]
  BY <1>1, <1>2
<1> HIDE DEF g, n
<1>4. 1..Len(g[a]) = (1..n) \cup {n + 1}
  BY <1>1, <1>3
<1>5. ASSUME NEW b \in Addresses, NEW i \in 1..Len(f[b]), f[b][i] = age
      PROVE  i \in 1..Len(g[b]) /\ g[b][i] = age
  <2>1. CASE b = a
    BY <1>3, <1>4, <1>5, <2>1 DEF n
  <2>2. CASE b # a
    BY <1>2, <1>5, <2>2
  <2> QED BY <2>1, <2>2
<1>6. ASSUME NEW b \in Addresses, NEW i \in 1..Len(g[b]), g[b][i] = age
      PROVE  \/ i \in 1..Len(f[b]) /\ f[b][i] = age
             \/ age = 0 /\ b = a /\ i = n + 1
  <2>1. CASE b = a
    BY <1>3, <1>4, <1>6, <2>1 DEF n
  <2>2. CASE b # a
    BY <1>2, <1>6, <2>2
  <2> QED BY <2>1, <2>2
<1>7. ASSUME NEW e \in Entries(f, age) PROVE e \in Entries(g, age)
  <2>1. PICK b \in Addresses : \E i \in 1..Len(f[b]) : e = <<b, i>> /\ f[b][i] = age
    BY EntryIs
  <2> QED BY <1>5, <2>1, EntryIs
<1>8. ASSUME NEW e \in Entries(g, age)
      PROVE  e \in Entries(f, age) \/ (age = 0 /\ e = <<a, n + 1>>)
  <2>1. PICK b \in Addresses : \E i \in 1..Len(g[b]) : e = <<b, i>> /\ g[b][i] = age
    BY EntryIs
  <2>2. PICK i \in 1..Len(g[b]) : e = <<b, i>> /\ g[b][i] = age
    BY <2>1
  <2>3. CASE i \in 1..Len(f[b]) /\ f[b][i] = age
    BY <2>2, <2>3, EntryIs
  <2>4. CASE age = 0 /\ b = a /\ i = n + 1
    BY <2>2, <2>4
  <2> QED BY <1>6, <2>2, <2>3, <2>4
<1>9. age = 0 => <<a, n + 1>> \in Entries(g, age)
  <2>1. n + 1 \in 1..Len(g[a])
    BY <1>1, <1>4
  <2> QED BY <1>3, <2>1, EntryIs
<1>10. Entries(g, age) = IF age = 0 THEN Entries(f, age) \cup {<<a, n + 1>>}
                         ELSE Entries(f, age)
  BY <1>7, <1>8, <1>9
<1> QED BY <1>10 DEF g, n

\* As time passes the failures of an age are those that were a tick younger.
Older(q) == [i \in DOMAIN q |-> IF q[i] > Window THEN q[i] ELSE q[i] + 1]

LEMMA OlderIs ==
  ASSUME NEW q \in Seq(Ages)
  PROVE  /\ Len(Older(q)) = Len(q) /\ Len(q) \in Nat
         /\ \A i \in 1..Len(q), age \in 0..Window :
              Older(q)[i] = age <=> age > 0 /\ q[i] = age - 1
<1>1. DOMAIN q = 1..Len(q) /\ Len(q) \in Nat
  OBVIOUS
<1>2. Older(q) \in Seq(Ages) /\ DOMAIN Older(q) = 1..Len(q)
  BY <1>1, OlderType DEF Older
<1>3. Len(Older(q)) = Len(q)
  BY <1>1, <1>2
<1>4. ASSUME NEW i \in 1..Len(q), NEW age \in 0..Window
      PROVE  Older(q)[i] = age <=> age > 0 /\ q[i] = age - 1
  <2>0. q[i] \in Ages
    OBVIOUS
  <2>1. q[i] \in 0..(Window + 1)
    BY <2>0 DEF Ages
  <2>2. Older(q)[i] = IF q[i] > Window THEN q[i] ELSE q[i] + 1
    BY <1>1 DEF Older
  <2> QED BY <2>1, <2>2, IPCServerAssumption
<1> QED BY <1>1, <1>3, <1>4

LEMMA TickAged ==
  ASSUME NEW q \in Seq(Ages), NEW age \in 0..Window
  PROVE  Aged(Older(q), age) = IF age = 0 THEN {} ELSE Aged(q, age - 1)
<1>1. age \in Nat /\ (age > 0 <=> age # 0)
  BY IPCServerAssumption
<1> QED BY <1>1, OlderIs DEF Aged

LEMMA TickEntries ==
  ASSUME NEW f \in Records, NEW age \in 0..Window
  PROVE  Entries([a \in Addresses |-> Older(f[a])], age)
           = IF age = 0 THEN {} ELSE Entries(f, age - 1)
<1> DEFINE g == [a \in Addresses |-> Older(f[a])]
<1>1. age \in Nat /\ (age > 0 <=> age # 0)
  BY IPCServerAssumption
<1>2. ASSUME NEW b \in Addresses
      PROVE  /\ Len(g[b]) = Len(f[b])
             /\ \A i \in 1..Len(f[b]) : g[b][i] = age <=> age > 0 /\ f[b][i] = age - 1
  BY OlderIs DEF Records
<1> HIDE DEF g
<1>3. ASSUME NEW e PROVE e \in Entries(g, age) <=> age # 0 /\ e \in Entries(f, age - 1)
  <2>1. ASSUME e \in Entries(g, age) PROVE age # 0 /\ e \in Entries(f, age - 1)
    <3>1. PICK b \in Addresses : \E i \in 1..Len(g[b]) : e = <<b, i>> /\ g[b][i] = age
      BY <2>1, EntryIs
    <3>2. PICK i \in 1..Len(g[b]) : e = <<b, i>> /\ g[b][i] = age
      BY <3>1
    <3>3. age # 0 /\ i \in 1..Len(f[b]) /\ f[b][i] = age - 1
      BY <1>1, <1>2, <3>2
    <3> QED BY <3>2, <3>3, EntryIs
  <2>2. ASSUME age # 0, e \in Entries(f, age - 1) PROVE e \in Entries(g, age)
    <3>1. PICK b \in Addresses : \E i \in 1..Len(f[b]) : e = <<b, i>> /\ f[b][i] = age - 1
      BY <2>2, EntryIs
    <3>2. PICK i \in 1..Len(f[b]) : e = <<b, i>> /\ f[b][i] = age - 1
      BY <3>1
    <3>3. i \in 1..Len(g[b]) /\ g[b][i] = age
      BY <1>1, <1>2, <2>2, <3>2
    <3> QED BY <3>2, <3>3, EntryIs
  <2> QED BY <2>1, <2>2
<1>4. Entries(g, age) = IF age = 0 THEN {} ELSE Entries(f, age - 1)
  BY <1>3
<1> QED BY <1>4 DEF g

\* Both records hold as many failures of every age within the window; that they
\* are finitely many, whatever the number of addresses, is part of the argument.
RecordsInv ==
  \A age \in 0..Window :
    /\ IsFiniteSet(Entries(failures, age))
    /\ Cardinality(Aged(allFailures, age)) = Cardinality(Entries(failures, age))

\* What a step may do to the records.
LEMMA LimitCases ==
  ASSUME OtherTypes, [Next]_vars
  PROVE  \/ UNCHANGED <<failures, allFailures>>
         \/ Tick
         \/ \E a \in Addresses : Looked(a)
         \/ \E a \in Addresses : NoteHandshakeFailure(a)
<1>1. CASE Listen \/ ListenTcp \/ Close
  BY <1>1 DEF Listen, ListenTcp, Close, limits
<1>2. CASE Handshakes
  <2>1. ASSUME NEW s \in Sockets, HandshakeError(s)
        PROVE  \E a \in Addresses : NoteHandshakeFailure(a)
    <3>1. from[s] \in Addresses
      BY DEF OtherTypes
    <3> QED BY <2>1, <3>1 DEF HandshakeError
  <2> QED BY <1>2, <2>1 DEF Handshakes, Accept, Refuse, Encrypted, AdoptedError, limits
<1>3. CASE Life
  BY <1>3 DEF Life, NewLocal, Disconnect, PeerGone, Deleted, limits
<1>4. CASE Reading
  BY <1>4 DEF Reading, Dispatch, Fail, ReadDone, limits
<1>5. CASE \E s \in Sockets, n \in 1..MaxFrames : ReadyRead(s, n)
  BY <1>5 DEF ReadyRead, limits
<1>6. CASE UNCHANGED vars
  BY <1>6 DEF vars
<1> QED BY <1>1, <1>2, <1>3, <1>4, <1>5, <1>6 DEF Next

LEMMA RecordsStep ==
  ASSUME OtherTypes, LimitTypes, RecordsInv, [Next]_vars
  PROVE  RecordsInv'
<1>1. failures \in Records /\ allFailures \in Seq(Ages)
  BY DEF LimitTypes, Records
<1> SUFFICES ASSUME NEW age \in 0..Window
             PROVE  /\ IsFiniteSet(Entries(failures', age))
                    /\ Cardinality(Aged(allFailures', age)) = Cardinality(Entries(failures', age))
  BY DEF RecordsInv, Entries, Aged
<1>2. /\ IsFiniteSet(Entries(failures, age))
      /\ Cardinality(Aged(allFailures, age)) = Cardinality(Entries(failures, age))
  BY DEF RecordsInv
<1>3. CASE UNCHANGED <<failures, allFailures>>
  BY <1>2, <1>3
<1>4. CASE Tick
  <2>1. allFailures' = Older(allFailures) /\ failures' = [a \in Addresses |-> Older(failures[a])]
    BY <1>4 DEF Tick, Older
  <2>2. CASE age = 0
    <3>1. Aged(allFailures', age) = {} /\ Entries(failures', age) = {}
      BY <1>1, <2>1, <2>2, TickAged, TickEntries
    <3> QED BY <3>1, FS_EmptySet
  <2>3. CASE age # 0
    <3>1. /\ Aged(allFailures', age) = Aged(allFailures, age - 1)
          /\ Entries(failures', age) = Entries(failures, age - 1)
      BY <1>1, <2>1, <2>3, TickAged, TickEntries
    <3>2. age - 1 \in 0..Window
      BY <2>3, IPCServerAssumption
    <3> QED BY <3>1, <3>2 DEF RecordsInv
  <2> QED BY <2>2, <2>3
<1>5. ASSUME NEW a \in Addresses, Looked(a)
      PROVE  /\ IsFiniteSet(Entries(failures', age))
             /\ Cardinality(Aged(allFailures', age)) = Cardinality(Entries(failures', age))
  <2>1. Cardinality(Aged(allFailures', age)) = Cardinality(Aged(allFailures, age))
    BY <1>1, <1>5, DropAged DEF Looked
  <2>2. CASE GlobalLimit
    BY <1>2, <1>5, <2>1, <2>2 DEF Looked
  <2>3. CASE ~GlobalLimit
    <3>1. failures' = [failures EXCEPT ![a] = DropOlderThan(@)]
      BY <1>5, <2>3 DEF Looked
    <3>2. /\ IsFiniteSet(Entries(failures', age))
          /\ Cardinality(Entries(failures', age)) = Cardinality(Entries(failures, age))
      BY <1>1, <1>2, <3>1, DropEntries
    <3> QED BY <1>2, <2>1, <3>2
  <2> QED BY <2>2, <2>3
<1>6. ASSUME NEW a \in Addresses, NoteHandshakeFailure(a)
      PROVE  /\ IsFiniteSet(Entries(failures', age))
             /\ Cardinality(Aged(allFailures', age)) = Cardinality(Entries(failures', age))
  <2>1. /\ allFailures' = Append(allFailures, 0)
        /\ failures' = [failures EXCEPT ![a] = Append(@, 0)]
    BY <1>6 DEF NoteHandshakeFailure
  <2>2. CASE age # 0
    <3>1. /\ Aged(allFailures', age) = Aged(allFailures, age)
          /\ Entries(failures', age) = Entries(failures, age)
      BY <1>1, <2>1, <2>2, NoteAged, NoteEntries
    <3> QED BY <1>2, <3>1
  <2>3. CASE age = 0
    <3>1. /\ Aged(allFailures', age) = Aged(allFailures, age) \cup {Len(allFailures) + 1}
          /\ Entries(failures', age) = Entries(failures, age) \cup {<<a, Len(failures[a]) + 1>>}
      BY <1>1, <2>1, <2>3, NoteAged, NoteEntries
    <3>2. Len(allFailures) + 1 \notin Aged(allFailures, age)
      <4>1. Len(allFailures) \in Nat
        BY <1>1
      <4> QED BY <4>1 DEF Aged
    <3>3. <<a, Len(failures[a]) + 1>> \notin Entries(failures, age)
      <4>1. Len(failures[a]) \in Nat
        BY <1>1 DEF Records
      <4>2. SUFFICES ASSUME <<a, Len(failures[a]) + 1>> \in Entries(failures, age) PROVE FALSE
        OBVIOUS
      <4>3. PICK b \in Addresses : \E i \in 1..Len(failures[b]) :
              <<a, Len(failures[a]) + 1>> = <<b, i>> /\ failures[b][i] = age
        BY <4>2, EntryIs
      <4>4. b = a
        BY <4>3
      <4>5. Len(failures[a]) + 1 \in 1..Len(failures[a])
        BY <4>3, <4>4
      <4> QED BY <4>1, <4>5
    <3>4. IsFiniteSet(Aged(allFailures, age))
      BY <1>1, AgedFinite
    <3>5. Cardinality(Aged(allFailures', age)) = Cardinality(Aged(allFailures, age)) + 1
      BY <3>1, <3>2, <3>4, FS_AddElement
    <3>6. /\ IsFiniteSet(Entries(failures', age))
          /\ Cardinality(Entries(failures', age)) = Cardinality(Entries(failures, age)) + 1
      BY <1>2, <3>1, <3>3, FS_AddElement
    <3> QED BY <1>2, <3>5, <3>6
  <2> QED BY <2>2, <2>3
<1> QED BY <1>3, <1>4, <1>5, <1>6, LimitCases

LEMMA RecordsInit == Init => RecordsInv
<1> SUFFICES ASSUME Init, NEW age \in 0..Window
             PROVE  /\ IsFiniteSet(Entries(failures, age))
                    /\ Cardinality(Aged(allFailures, age)) = Cardinality(Entries(failures, age))
  BY DEF RecordsInv
<1>1. Aged(allFailures, age) = {}
  BY DEF Init, Aged
<1>2. Entries(failures, age) = {}
  <2> SUFFICES ASSUME NEW e \in Entries(failures, age) PROVE FALSE
    OBVIOUS
  <2>1. PICK a \in Addresses : \E i \in 1..Len(failures[a]) : e = <<a, i>> /\ failures[a][i] = age
    BY EntryIs
  <2>2. failures[a] = <<>>
    BY DEF Init
  <2> QED BY <2>1, <2>2
<1> QED BY <1>1, <1>2, FS_EmptySet

LEMMA SpecTypes == Spec => [](OtherTypes /\ LimitTypes)
<1>1. TypeOK => OtherTypes /\ LimitTypes
  BY DEF TypeOK, OtherTypes, LimitTypes
<1> QED BY <1>1, ServerTypes, PTL

\* Within the window m_AllFailures and the lists of m_Failures hold the same
\* failures, for any number of addresses and any window, although IsRateLimited
\* trims them at different times.
THEOREM RecordsSafe == Spec => []RecordsAgree
<1>1. OtherTypes /\ LimitTypes /\ RecordsInv /\ [Next]_vars => RecordsInv'
  BY RecordsStep
<1>2. RecordsInv => RecordsAgree
  BY DEF RecordsInv, RecordsAgree, Aged, Entries
<1> QED BY <1>1, <1>2, RecordsInit, SpecTypes, PTL DEF Spec
-----------------------------------------------------------------------------
\* How far the limit of an address is passed.

LEMMA RecentIs ==
  ASSUME NEW q \in Seq(Ages)
  PROVE  /\ Recent(q) = {i \in 1..Len(q) : q[i] \in 0..Window}
         /\ IsFiniteSet(Recent(q)) /\ Cardinality(Recent(q)) \in Nat
         /\ Cardinality(Recent(q)) <= Len(q)
<1>1. \A i \in 1..Len(q) : q[i] \in Ages
  OBVIOUS
<1>2. \A i \in 1..Len(q) : q[i] <= Window <=> q[i] \in 0..Window
  BY <1>1, IPCServerAssumption DEF Ages
<1>3. Recent(q) = {i \in 1..Len(q) : q[i] \in 0..Window}
  BY <1>2 DEF Recent
<1>4. IsFiniteSet(1..Len(q)) /\ Cardinality(1..Len(q)) = Len(q)
  <2>1. Len(q) \in Nat
    OBVIOUS
  <2> QED BY <2>1, FS_Interval
<1>5. Recent(q) \in SUBSET (1..Len(q))
  BY DEF Recent
<1>6. IsFiniteSet(Recent(q)) /\ Cardinality(Recent(q)) <= Len(q)
  BY <1>4, <1>5, FS_Subset
<1> QED BY <1>3, <1>6, FS_CardinalityType

\* Trimming drops none of the recent failures.
LEMMA DropRecent ==
  ASSUME NEW q \in Seq(Ages)
  PROVE  Cardinality(Recent(DropOlderThan(q))) = Cardinality(Recent(q))
<1>1. DropOlderThan(q) \in Seq(Ages)
  BY DropType
<1>2. 0..Window \in SUBSET (0..Window)
  OBVIOUS
<1>3. Cardinality({i \in 1..Len(DropOlderThan(q)) : DropOlderThan(q)[i] \in 0..Window})
        = Cardinality({i \in 1..Len(q) : q[i] \in 0..Window})
  BY <1>2, DropKeeps
<1> QED BY <1>1, <1>3, RecentIs

LEMMA NoteRecent ==
  ASSUME NEW q \in Seq(Ages)
  PROVE  Cardinality(Recent(Append(q, 0))) = Cardinality(Recent(q)) + 1
<1> DEFINE p == Append(q, 0)
<1>1. /\ Len(q) \in Nat /\ Len(p) = Len(q) + 1 /\ p[Len(q) + 1] = 0
      /\ \A i \in 1..Len(q) : p[i] = q[i]
  OBVIOUS
<1> HIDE DEF p
<1>2. 1..Len(p) = (1..Len(q)) \cup {Len(q) + 1} /\ Len(q) + 1 \notin 1..Len(q)
  BY <1>1
<1>3. 0 <= Window
  BY IPCServerAssumption
<1>4. Recent(p) = Recent(q) \cup {Len(q) + 1} /\ Len(q) + 1 \notin Recent(q)
  BY <1>1, <1>2, <1>3 DEF Recent
<1>5. Cardinality(Recent(p)) = Cardinality(Recent(q)) + 1
  BY <1>4, RecentIs, FS_AddElement
<1> QED BY <1>5 DEF p

LEMMA TickRecent ==
  ASSUME NEW q \in Seq(Ages)
  PROVE  Cardinality(Recent(Older(q))) <= Cardinality(Recent(q))
<1>1. DOMAIN q = 1..Len(q) /\ Len(Older(q)) = Len(q)
  BY OlderIs
<1>2. ASSUME NEW i \in 1..Len(q), Older(q)[i] <= Window PROVE q[i] <= Window
  <2>1. q[i] \in Ages
    OBVIOUS
  <2>2. q[i] \in Int
    BY <2>1, IPCServerAssumption DEF Ages
  <2>3. Older(q)[i] = IF q[i] > Window THEN q[i] ELSE q[i] + 1
    BY <1>1 DEF Older
  <2> QED BY <1>2, <2>2, <2>3, IPCServerAssumption
<1>3. Recent(Older(q)) \in SUBSET Recent(q)
  BY <1>1, <1>2 DEF Recent
<1> QED BY <1>3, RecentIs, FS_Subset

\* The handshakes under way are at most as many as the sockets can report.
LEMMA UnderWayBound ==
  ASSUME IsFiniteSet(Sockets), NEW a
  PROVE  /\ IsFiniteSet(UnderWay(a)) /\ Cardinality(UnderWay(a)) \in Nat
         /\ Cardinality(Sockets) * MaxReports \in Nat
         /\ Cardinality(UnderWay(a)) <= Cardinality(Sockets) * MaxReports
<1>1. IsFiniteSet(1..MaxReports) /\ Cardinality(1..MaxReports) = MaxReports
  BY FS_Interval, IPCServerAssumption
<1> DEFINE All == Sockets \X (1..MaxReports)
<1>2. IsFiniteSet(All) /\ Cardinality(All) = Cardinality(Sockets) * MaxReports
  BY <1>1, FS_Product
<1>3. UnderWay(a) \in SUBSET All
  BY DEF UnderWay
<1> HIDE DEF All
<1>4. IsFiniteSet(UnderWay(a)) /\ Cardinality(UnderWay(a)) <= Cardinality(All)
  BY <1>2, <1>3, FS_Subset
<1> QED BY <1>2, <1>4, FS_CardinalityType

\* The bound for one address.
Bounded(a) == Cardinality(Recent(failures[a])) + Cardinality(UnderWay(a))
                < MaxPerAddress + Cardinality(Sockets) * MaxReports

\* Where no handshake begins and none of an address fails, its bound stays.
LEMMA NoWorse ==
  ASSUME IsFiniteSet(Sockets), NEW a \in Addresses, LimitTypes, LimitTypes', Bounded(a),
         Cardinality(Recent(failures'[a])) <= Cardinality(Recent(failures[a])),
         \A s \in Sockets : obj'[s] = "raw" =>
           obj[s] = "raw" /\ from'[s] = from[s] /\ reports'[s] \in Nat /\ reports[s] \in Nat
             /\ reports[s] <= reports'[s]
  PROVE  Bounded(a)'
<1> DEFINE U  == UnderWay(a)
           U2 == {e \in Sockets \X (1..MaxReports) :
                    obj'[e[1]] = "raw" /\ from'[e[1]] = a /\ reports'[e[1]] < e[2]}
<1>1. U2 \in SUBSET U
  <2> SUFFICES ASSUME NEW e \in U2 PROVE e \in U
    OBVIOUS
  <2>1. e \in Sockets \X (1..MaxReports) /\ e[1] \in Sockets /\ e[2] \in Nat
    BY IPCServerAssumption
  <2>2. reports[e[1]] < e[2]
    BY <2>1, IPCServerAssumption
  <2> QED BY <2>1, <2>2 DEF UnderWay
<1>2. UnderWay(a)' = U2
  BY DEF UnderWay
<1>3. /\ Cardinality(U) \in Nat /\ IsFiniteSet(U)
      /\ Cardinality(Sockets) * MaxReports \in Nat
  BY UnderWayBound
<1> HIDE DEF U, U2
<1>4. Cardinality(U2) \in Nat /\ Cardinality(U2) <= Cardinality(U)
  BY <1>1, <1>3, FS_Subset, FS_CardinalityType
<1>5. /\ Cardinality(Recent(failures[a])) \in Nat
      /\ Cardinality(Recent(failures'[a])) \in Nat
  BY RecentIs DEF LimitTypes
<1>6. Cardinality(Recent(failures[a])) + Cardinality(U)
        < MaxPerAddress + Cardinality(Sockets) * MaxReports
  BY DEF Bounded, U
<1>7. Cardinality(Recent(failures'[a])) + Cardinality(U2)
        < MaxPerAddress + Cardinality(Sockets) * MaxReports
  BY <1>3, <1>4, <1>5, <1>6, IPCServerAssumption
<1> QED BY <1>2, <1>7 DEF Bounded, Recent

\* A handshake begins only when fewer failures than the limit are left.
LEMMA AcceptBounded ==
  ASSUME IsFiniteSet(Sockets), SocketTypes, OtherTypes, LimitTypes, LimitTypes',
         NEW s \in Sockets, NEW a \in Addresses, Accept(s, a), NEW b \in Addresses, Bounded(b)
  PROVE  Bounded(b)'
<1>1. /\ ~GlobalLimit /\ ~AddressLimit(a)
      /\ failures' = [failures EXCEPT ![a] = DropOlderThan(@)]
  BY DEF Accept, IsRateLimited, Looked
<1>2. CASE b = a
  <2>1. failures[a] \in Seq(Ages) /\ failures'[a] \in Seq(Ages)
        /\ failures'[a] = DropOlderThan(failures[a])
    BY <1>1 DEF LimitTypes
  <2>2. Len(failures'[a]) < MaxPerAddress /\ Len(failures'[a]) \in Nat
    BY <1>1, <2>1, IPCServerAssumption DEF AddressLimit
  <2>3. /\ Cardinality(Recent(failures'[a])) \in Nat
        /\ Cardinality(Recent(failures'[a])) <= Len(failures'[a])
    BY <2>1, RecentIs
  <2>4. /\ Cardinality(UnderWay(a)') \in Nat
        /\ Cardinality(Sockets) * MaxReports \in Nat
        /\ Cardinality(UnderWay(a)') <= Cardinality(Sockets) * MaxReports
    <3> DEFINE All == Sockets \X (1..MaxReports)
    <3>1. IsFiniteSet(1..MaxReports) /\ Cardinality(1..MaxReports) = MaxReports
      BY FS_Interval, IPCServerAssumption
    <3>2. IsFiniteSet(All) /\ Cardinality(All) = Cardinality(Sockets) * MaxReports
      BY <3>1, FS_Product
    <3>3. UnderWay(a)' \in SUBSET All
      BY DEF UnderWay
    <3> HIDE DEF All
    <3> QED BY <3>2, <3>3, FS_Subset, FS_CardinalityType
  <2>5. Cardinality(Recent(failures'[a])) + Cardinality(UnderWay(a)')
          < MaxPerAddress + Cardinality(Sockets) * MaxReports
    BY <2>2, <2>3, <2>4, IPCServerAssumption
  <2> QED BY <1>2, <2>5 DEF Bounded, Recent
<1>3. CASE b # a
  <2>1. failures'[b] = failures[b]
    BY <1>1, <1>3 DEF LimitTypes
  <2>2. Cardinality(Recent(failures'[b])) <= Cardinality(Recent(failures[b]))
    BY <2>1, RecentIs DEF LimitTypes
  <2> DEFINE U == UnderWay(b)
             U2 == {e \in Sockets \X (1..MaxReports) :
                      obj'[e[1]] = "raw" /\ from'[e[1]] = b /\ reports'[e[1]] < e[2]}
  <2>3. U2 = U
    <3>1. ASSUME NEW t \in Sockets, t # s
          PROVE  obj'[t] = obj[t] /\ from'[t] = from[t] /\ reports'[t] = reports[t]
      BY <3>1 DEF Accept, SocketTypes, OtherTypes
    <3>2. obj[s] # "raw" /\ from'[s] # b
      BY <1>3 DEF Accept, OtherTypes
    <3>3. ASSUME NEW e \in Sockets \X (1..MaxReports)
          PROVE  (obj'[e[1]] = "raw" /\ from'[e[1]] = b /\ reports'[e[1]] < e[2])
                   <=> (obj[e[1]] = "raw" /\ from[e[1]] = b /\ reports[e[1]] < e[2])
      BY <3>1, <3>2
    <3> QED BY <3>3 DEF UnderWay
  <2>4. UnderWay(b)' = U2
    BY DEF UnderWay
  <2> HIDE DEF U, U2
  <2> QED BY <2>1, <2>3, <2>4 DEF Bounded, U, Recent
<1> QED BY <1>2, <1>3

\* A handshake that fails was counted as under way before.
LEMMA ErrorBounded ==
  ASSUME IsFiniteSet(Sockets), OtherTypes, LimitTypes, LimitTypes',
         NEW s \in Sockets, HandshakeError(s), NEW b \in Addresses, Bounded(b)
  PROVE  Bounded(b)'
<1>1. /\ obj' = obj /\ from' = from /\ reports' = [reports EXCEPT ![s] = @ + 1]
      /\ obj[s] = "raw" /\ reports[s] < MaxReports
      /\ failures' = [failures EXCEPT ![from[s]] = Append(@, 0)]
  BY DEF HandshakeError, NoteHandshakeFailure
<1>2. \A t \in Sockets : reports[t] \in Nat
  BY DEF OtherTypes
<1>3. reports'[s] = reports[s] + 1 /\ \A t \in Sockets : t # s => reports'[t] = reports[t]
  BY <1>1 DEF OtherTypes
<1>4. CASE b # from[s]
  <2>1. failures'[b] = failures[b]
    BY <1>1, <1>4 DEF LimitTypes
  <2>2. Cardinality(Recent(failures'[b])) <= Cardinality(Recent(failures[b]))
    BY <2>1, RecentIs DEF LimitTypes
  <2>3. \A t \in Sockets : reports'[t] \in Nat /\ reports[t] \in Nat /\ reports[t] <= reports'[t]
    BY <1>2, <1>3
  <2> QED BY <1>1, <2>2, <2>3, NoWorse
<1>5. CASE b = from[s]
  <2> DEFINE U  == UnderWay(b)
             x  == <<s, reports[s] + 1>>
             U2 == {e \in Sockets \X (1..MaxReports) :
                      obj'[e[1]] = "raw" /\ from'[e[1]] = b /\ reports'[e[1]] < e[2]}
  <2>1. x \in U
    <3>1. reports[s] + 1 \in 1..MaxReports /\ reports[s] < reports[s] + 1
      BY <1>1, <1>2, IPCServerAssumption
    <3> QED BY <1>1, <1>5, <3>1 DEF UnderWay
  <2>2. U2 \in SUBSET (U \ {x})
    <3> SUFFICES ASSUME NEW e \in U2 PROVE e \in U /\ e # x
      OBVIOUS
    <3>1. e \in Sockets \X (1..MaxReports) /\ e[1] \in Sockets /\ e[2] \in Nat
      BY IPCServerAssumption
    <3>2. reports'[e[1]] < e[2] /\ obj[e[1]] = "raw" /\ from[e[1]] = b
      BY <1>1
    <3>3. reports[e[1]] < e[2] /\ ~(e[1] = s /\ e[2] = reports[s] + 1)
      BY <1>2, <1>3, <3>1, <3>2
    <3>4. e \in U
      BY <3>1, <3>2, <3>3 DEF UnderWay
    <3> QED BY <3>3, <3>4
  <2>3. UnderWay(b)' = U2
    BY DEF UnderWay
  <2>4. /\ Cardinality(U) \in Nat /\ IsFiniteSet(U)
        /\ Cardinality(Sockets) * MaxReports \in Nat
    BY UnderWayBound
  <2> HIDE DEF U, U2, x
  <2>5. IsFiniteSet(U \ {x}) /\ Cardinality(U \ {x}) = Cardinality(U) - 1
    BY <2>1, <2>4, FS_RemoveElement
  <2>6. Cardinality(U2) \in Nat /\ Cardinality(U2) <= Cardinality(U) - 1
    BY <2>2, <2>5, FS_Subset, FS_CardinalityType
  <2>7. failures[b] \in Seq(Ages) /\ failures'[b] = Append(failures[b], 0)
    BY <1>1, <1>5 DEF LimitTypes
  <2>8. /\ Cardinality(Recent(failures[b])) \in Nat
        /\ Cardinality(Recent(failures'[b])) = Cardinality(Recent(failures[b])) + 1
    BY <2>7, RecentIs, NoteRecent
  <2>9. Cardinality(Recent(failures[b])) + Cardinality(U)
          < MaxPerAddress + Cardinality(Sockets) * MaxReports
    BY DEF Bounded, U
  <2>10. Cardinality(Recent(failures'[b])) + Cardinality(U2)
           < MaxPerAddress + Cardinality(Sockets) * MaxReports
    BY <2>4, <2>6, <2>8, <2>9, IPCServerAssumption
  <2> QED BY <2>3, <2>10 DEF Bounded, Recent
<1> QED BY <1>4, <1>5

LEMMA OvershootStep ==
  ASSUME IsFiniteSet(Sockets), Inv, OtherTypes, LimitTypes, LimitTypes', OvershootBounded,
         [Next]_vars
  PROVE  OvershootBounded'
<1> SUFFICES ASSUME NEW b \in Addresses PROVE Bounded(b)'
  BY DEF OvershootBounded, Bounded
<1> USE IPCServerAssumption
<1>1. Bounded(b)
  BY DEF OvershootBounded, Bounded
<1>2. /\ SocketTypes
      /\ failures[b] \in Seq(Ages) /\ Cardinality(Recent(failures[b])) \in Nat
      /\ \A s \in Sockets : reports[s] \in Nat
  BY RecentIs DEF Inv, LimitTypes, OtherTypes
<1>3. ASSUME UNCHANGED failures,
             \A s \in Sockets : obj'[s] = "raw" =>
               obj[s] = "raw" /\ from'[s] = from[s] /\ reports'[s] = reports[s]
      PROVE  Bounded(b)'
  BY <1>1, <1>2, <1>3, NoWorse
<1>4. CASE Listen \/ ListenTcp
  BY <1>3, <1>4 DEF Listen, ListenTcp, sockets, limits
<1>5. CASE Tick
  <2>1. failures'[b] = Older(failures[b])
    BY <1>5 DEF Tick, Older
  <2>2. Cardinality(Recent(failures'[b])) <= Cardinality(Recent(failures[b]))
    BY <1>2, <2>1, TickRecent
  <2> QED BY <1>1, <1>2, <1>5, <2>2, NoWorse DEF Tick, sockets
<1>6. CASE Close
  <2>1. \A s \in Sockets : obj'[s] = "raw" => obj[s] = "raw"
    BY <1>6 DEF Close
  <2> QED BY <1>3, <1>6, <2>1 DEF Close, limits
<1>7. ASSUME NEW s \in Sockets, NEW a \in Addresses, Accept(s, a) PROVE Bounded(b)'
  BY <1>1, <1>2, <1>7, AcceptBounded
<1>8. ASSUME NEW a \in Addresses, Refuse(a) PROVE Bounded(b)'
  <2>1. failures'[b] \in {failures[b], DropOlderThan(failures[b])}
    BY <1>8 DEF Refuse, Looked, LimitTypes
  <2>2. Cardinality(Recent(failures'[b])) <= Cardinality(Recent(failures[b]))
    BY <1>2, <2>1, DropRecent
  <2> QED BY <1>1, <1>2, <1>8, <2>2, NoWorse DEF Refuse, sockets
<1>9. ASSUME NEW s \in Sockets, HandshakeError(s) PROVE Bounded(b)'
  BY <1>1, <1>9, ErrorBounded
<1>10. ASSUME NEW s \in Sockets,
              Encrypted(s) \/ AdoptedError(s) \/ NewLocal(s) \/ Deleted(s)
       PROVE  Bounded(b)'
  <2>1. CASE Encrypted(s)
    BY <1>2, <1>3, <2>1 DEF Encrypted, limits, SocketTypes
  <2>2. CASE AdoptedError(s)
    <3>1. \A t \in Sockets : obj'[t] = "raw" => t # s
      BY <2>2 DEF AdoptedError
    <3> QED BY <1>3, <2>2, <3>1 DEF AdoptedError, limits, OtherTypes
  <2>3. CASE NewLocal(s)
    <3>1. \A t \in Sockets : obj'[t] = "raw" => t # s /\ obj[t] = "raw"
      BY <1>2, <2>3 DEF NewLocal, SocketTypes
    <3> QED BY <1>3, <2>3, <3>1 DEF NewLocal, limits, OtherTypes
  <2>4. CASE Deleted(s)
    BY <1>2, <1>3, <2>4 DEF Deleted, limits, SocketTypes
  <2> QED BY <1>10, <2>1, <2>2, <2>3, <2>4
<1>11. ASSUME NEW s \in Sockets, Disconnect(s) \/ PeerGone(s) PROVE Bounded(b)'
  BY <1>3, <1>11 DEF Disconnect, PeerGone, Closing, Gone, OnDisconnected, limits
<1>12. CASE Reading
  <2>1. obj' = obj /\ UNCHANGED <<from, reports, failures>>
    BY <1>12 DEF Reading, Dispatch, Handled, Fail, ReadDone, Closing, Gone, OnDisconnected,
                 sockets, limits
  <2> QED BY <1>3, <2>1
<1>13. ASSUME NEW s \in Sockets, NEW n \in 1..MaxFrames, ReadyRead(s, n) PROVE Bounded(b)'
  BY <1>3, <1>13 DEF ReadyRead, sockets, limits
<1>14. CASE UNCHANGED vars
  BY <1>3, <1>14 DEF vars
<1> QED BY <1>4, <1>5, <1>6, <1>7, <1>8, <1>9, <1>10, <1>11, <1>12, <1>13, <1>14
        DEF Next, Handshakes, Life

LEMMA OvershootInit ==
  ASSUME IsFiniteSet(Sockets), Init
  PROVE  OvershootBounded
<1> SUFFICES ASSUME NEW a \in Addresses PROVE Bounded(a)
  BY DEF OvershootBounded, Bounded
<1>1. Recent(failures[a]) = {}
  <2>1. failures[a] = <<>>
    BY DEF Init
  <2> QED BY <2>1 DEF Recent
<1>2. UnderWay(a) = {}
  BY DEF Init, UnderWay
<1>3. Cardinality(Sockets) * MaxReports \in Nat
  BY UnderWayBound
<1> QED BY <1>1, <1>2, <1>3, FS_EmptySet, IPCServerAssumption DEF Bounded

\* An address passes its limit by no more than the handshakes that were under
\* way when it was reached, for any number of sockets a process can have and
\* any limits.
THEOREM OvershootSafe ==
  ASSUME IsFiniteSet(Sockets)
  PROVE  Spec => []OvershootBounded
<1>1. Init => OvershootBounded
  BY OvershootInit
<1>2. /\ Inv /\ OtherTypes /\ LimitTypes /\ LimitTypes' /\ OvershootBounded
      /\ [Next]_vars
      => OvershootBounded'
  BY OvershootStep
<1> QED BY <1>1, <1>2, SpecInv, SpecTypes, PTL DEF Spec
-----------------------------------------------------------------------------
\* Whether the limit counts what it is meant to count.

\* A record is in the order in which its failures happened.
Ordered(q) == \A i, j \in 1..Len(q) : i <= j => q[j] <= q[i]

LEMMA OrderedDrop ==
  ASSUME NEW q \in Seq(Ages), Ordered(q)
  PROVE  Ordered(DropOlderThan(q))
<1> DEFINE k == Expired(q)
           d == DropOlderThan(q)
<1>1. k \in 0..Len(q) /\ Len(q) \in Nat
  BY ExpiredPrefix
<1>2. /\ Len(d) = Len(q) - k
      /\ \A i \in 1..Len(d) : d[i] = q[i + k]
  BY DropShifts
<1> HIDE DEF k, d
<1>3. ASSUME NEW i \in 1..Len(d), NEW j \in 1..Len(d), i <= j PROVE d[j] <= d[i]
  <2>1. i + k \in 1..Len(q) /\ j + k \in 1..Len(q) /\ i + k <= j + k
    BY <1>1, <1>2, <1>3
  <2>2. q[j + k] <= q[i + k]
    BY <2>1 DEF Ordered
  <2> QED BY <1>2, <2>2
<1> QED BY <1>3 DEF Ordered, d

LEMMA OrderedNote ==
  ASSUME NEW q \in Seq(Ages), Ordered(q)
  PROVE  Ordered(Append(q, 0))
<1> DEFINE p == Append(q, 0)
<1>1. /\ Len(q) \in Nat /\ Len(p) = Len(q) + 1 /\ p[Len(q) + 1] = 0
      /\ \A i \in 1..Len(q) : p[i] = q[i]
  OBVIOUS
<1> HIDE DEF p
<1>2. ASSUME NEW i \in 1..Len(q) PROVE q[i] \in Nat
  <2>1. q[i] \in Ages
    OBVIOUS
  <2> QED BY <2>1, IPCServerAssumption DEF Ages
<1>3. ASSUME NEW i \in 1..Len(p), NEW j \in 1..Len(p), i <= j PROVE p[j] <= p[i]
  <2>1. CASE j = Len(q) + 1
    <3>1. p[i] \in Nat
      BY <1>1, <1>2
    <3> QED BY <1>1, <2>1, <3>1
  <2>2. CASE j # Len(q) + 1
    <3>1. i \in 1..Len(q) /\ j \in 1..Len(q)
      BY <1>1, <1>3, <2>2
    <3>2. q[j] <= q[i]
      BY <1>3, <3>1 DEF Ordered
    <3> QED BY <1>1, <3>1, <3>2
  <2> QED BY <2>1, <2>2
<1> QED BY <1>3 DEF Ordered, p

LEMMA OrderedTick ==
  ASSUME NEW q \in Seq(Ages), Ordered(q)
  PROVE  Ordered(Older(q))
<1>1. DOMAIN q = 1..Len(q) /\ Len(Older(q)) = Len(q)
  BY OlderIs
<1>2. ASSUME NEW i \in 1..Len(q)
      PROVE  q[i] \in Int /\ q[i] <= Window + 1
             /\ Older(q)[i] = IF q[i] > Window THEN q[i] ELSE q[i] + 1
  <2>1. q[i] \in Ages
    OBVIOUS
  <2>2. Older(q)[i] = IF q[i] > Window THEN q[i] ELSE q[i] + 1
    BY <1>1 DEF Older
  <2> QED BY <2>1, <2>2, IPCServerAssumption DEF Ages
<1>3. ASSUME NEW i \in 1..Len(q), NEW j \in 1..Len(q), i <= j
      PROVE  Older(q)[j] <= Older(q)[i]
  <2>1. q[j] <= q[i]
    BY <1>3 DEF Ordered
  <2> QED BY <1>2, <2>1, IPCServerAssumption
<1> QED BY <1>1, <1>3 DEF Ordered

\* What is left of a record in order, once the front is dropped, is what is
\* within the window.
LEMMA DropExact ==
  ASSUME NEW q \in Seq(Ages), Ordered(q)
  PROVE  Len(DropOlderThan(q)) = Cardinality(Recent(q))
<1> DEFINE d == DropOlderThan(q)
<1>1. d \in Seq(Ages) /\ Ordered(d) /\ Len(d) \in Nat
  BY DropType, OrderedDrop
<1>2. Len(d) > 0 => d[1] <= Window
  <2> SUFFICES ASSUME Len(d) > 0, ~(d[1] <= Window) PROVE FALSE
    OBVIOUS
  <2> DEFINE k == Expired(q)
             E == {i \in 1..Len(q) : \A j \in 1..i : q[j] > Window}
  <2>1. k \in 0..Len(q) /\ Len(q) \in Nat /\ \A j \in 1..k : q[j] > Window
    BY ExpiredPrefix
  <2>2. Len(d) = Len(q) - k /\ d[1] = q[1 + k]
    BY <1>1, DropShifts
  <2>3. E \in SUBSET (1..Len(q)) /\ IsFiniteSet(E) /\ Cardinality(E) = k
    <3>1. IsFiniteSet(1..Len(q))
      BY <2>1, FS_Interval
    <3> QED BY <3>1, FS_Subset DEF Expired
  <2> HIDE DEF k, d
  <2>4. k + 1 \in 1..Len(q)
    BY <1>1, <2>1, <2>2
  <2>5. q[k + 1] > Window
    <3>1. q[k + 1] \in Ages
      BY <2>4
    <3> QED BY <2>1, <2>2, <3>1, IPCServerAssumption DEF Ages
  <2>6. ASSUME NEW i \in 1..(k + 1) PROVE i \in E
    BY <2>1, <2>4, <2>5
  <2> HIDE DEF E
  <2>7. 1..(k + 1) \in SUBSET E /\ Cardinality(1..(k + 1)) = k + 1
    BY <2>1, <2>6, FS_Interval
  <2>8. Cardinality(1..(k + 1)) <= Cardinality(E)
    BY <2>3, <2>7, FS_Subset
  <2> QED BY <2>1, <2>3, <2>7, <2>8
<1> HIDE DEF d
<1>3. ASSUME NEW i \in 1..Len(d) PROVE d[i] <= Window
  <2>1. d[1] \in Ages /\ d[i] \in Ages /\ 1 \in 1..Len(d)
    BY <1>1
  <2>2. d[i] <= d[1] /\ d[1] <= Window
    BY <1>1, <1>2, <2>1 DEF Ordered
  <2> QED BY <2>1, <2>2, IPCServerAssumption DEF Ages
<1>4. Recent(d) = 1..Len(d)
  BY <1>3 DEF Recent
<1>5. Cardinality(Recent(d)) = Len(d)
  <2>1. \A n \in Nat : Cardinality(1..n) = n
    BY FS_Interval
  <2>2. Len(d) \in Nat
    BY <1>1
  <2>3. Cardinality(1..Len(d)) = Len(d)
    BY <2>1, <2>2, Zenon
  <2> QED BY <1>4, <2>3
<1>6. Cardinality(Recent(d)) = Cardinality(Recent(q))
  BY DropRecent DEF d
<1> QED BY <1>5, <1>6 DEF d

OrderInv == Ordered(allFailures) /\ \A a \in Addresses : Ordered(failures[a])

LEMMA OrderStep ==
  ASSUME OtherTypes, LimitTypes, OrderInv, [Next]_vars
  PROVE  OrderInv'
<1>1. failures \in [Addresses -> Seq(Ages)] /\ allFailures \in Seq(Ages)
  BY DEF LimitTypes
<1>2. Ordered(allFailures) /\ \A b \in Addresses : Ordered(failures[b])
  BY DEF OrderInv
<1> SUFFICES Ordered(allFailures') /\ \A b \in Addresses : Ordered(failures'[b])
  BY DEF OrderInv, Ordered
<1>3. CASE UNCHANGED <<failures, allFailures>>
  BY <1>2, <1>3
<1>4. CASE Tick
  <2>1. allFailures' = Older(allFailures) /\ \A b \in Addresses : failures'[b] = Older(failures[b])
    BY <1>4 DEF Tick, Older
  <2> QED BY <1>1, <1>2, <2>1, OrderedTick
<1>5. ASSUME NEW a \in Addresses, Looked(a)
      PROVE  Ordered(allFailures') /\ \A b \in Addresses : Ordered(failures'[b])
  <2>1. allFailures' = DropOlderThan(allFailures)
    BY <1>5 DEF Looked
  <2>2. \A b \in Addresses :
          failures'[b] = failures[b] \/ failures'[b] = DropOlderThan(failures[b])
    BY <1>1, <1>5 DEF Looked
  <2> QED BY <1>1, <1>2, <2>1, <2>2, OrderedDrop
<1>6. ASSUME NEW a \in Addresses, NoteHandshakeFailure(a)
      PROVE  Ordered(allFailures') /\ \A b \in Addresses : Ordered(failures'[b])
  <2>1. allFailures' = Append(allFailures, 0)
    BY <1>6 DEF NoteHandshakeFailure
  <2>2. \A b \in Addresses :
          failures'[b] = failures[b] \/ failures'[b] = Append(failures[b], 0)
    BY <1>1, <1>6 DEF NoteHandshakeFailure
  <2> QED BY <1>1, <1>2, <2>1, <2>2, OrderedNote
<1> QED BY <1>3, <1>4, <1>5, <1>6, LimitCases

\* For any limits, any window and any number of addresses, IsRateLimited answers
\* what counting the failures within the window would: since every record stays
\* in the order of time, dropping from its front is enough.
THEOREM LimitExact == Spec => []LimitIsExact
<1>1. Init => OrderInv
  BY DEF Init, OrderInv, Ordered
<1>2. OtherTypes /\ LimitTypes /\ OrderInv /\ [Next]_vars => OrderInv'
  BY OrderStep
<1>3. LimitTypes /\ OrderInv => LimitIsExact
  <2> SUFFICES ASSUME LimitTypes, OrderInv, NEW a \in Addresses
               PROVE  IsRateLimited(a) <=> \/ Cardinality(Recent(allFailures)) >= MaxGlobal
                                           \/ Cardinality(Recent(failures[a])) >= MaxPerAddress
    BY DEF LimitIsExact
  <2>1. Len(DropOlderThan(allFailures)) = Cardinality(Recent(allFailures))
    BY DropExact DEF LimitTypes, OrderInv
  <2>2. Len(DropOlderThan(failures[a])) = Cardinality(Recent(failures[a]))
    BY DropExact DEF LimitTypes, OrderInv
  <2> QED BY <2>1, <2>2 DEF IsRateLimited, GlobalLimit, AddressLimit
<1> QED BY <1>1, <1>2, <1>3, SpecTypes, PTL DEF Spec
=============================================================================
