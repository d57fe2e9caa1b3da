----------------------------- MODULE IPCServer -----------------------------
(***************************************************************************)
(* The listening side of the transport: CIPCServer and its CTlsServer      *)
(* (src/MiscHelpers/Common/IPC/IPCServer.cpp) with what CIPCSocket         *)
(* (IPCSocket.cpp) does on that side.                                      *)
(*                                                                         *)
(* Everything runs in one thread and its event loop, so a step is one      *)
(* signal handler.  OnReadyRead is the exception: it calls the handlers of *)
(* its signals between two frames, and these may disconnect the very       *)
(* socket it works on, so it is one step a frame, during which the event   *)
(* loop does not turn.  An object that was given to deleteLater is freed   *)
(* by the event loop.                                                      *)
(*                                                                         *)
(* A frame is whole or it is not there: what it says, and where the bytes  *)
(* were cut, is left out.  Times are ages, up to the first that is past    *)
(* the window.  What is above the server, and Qt's sockets, are external:  *)
(* ListenTcp is called again only after Close.                             *)
(***************************************************************************)
EXTENDS Integers, Sequences, FiniteSets

CONSTANTS
  Sockets,        \* the socket objects there may be at one time
  NoSocket,
  Addresses,      \* where network peers come from
  MaxPerAddress,  \* m_MaxPerAddress
  MaxGlobal,      \* m_MaxGlobal
  Window,         \* m_LimitWindowMs, in ticks
  MaxFrames,      \* bound on the frames one read finds in the buffer
  MaxReports      \* bound on the errors one socket reports

ASSUME IPCServerAssumption ==
  /\ NoSocket \notin Sockets /\ Addresses # {}
  /\ MaxPerAddress \in Nat \ {0} /\ MaxGlobal \in Nat \ {0} /\ Window \in Nat
  /\ MaxFrames \in Nat \ {0} /\ MaxReports \in Nat \ {0}

Ages == 0..(Window + 1)

VARIABLES
  server,       \* m_pServer is listening
  tls,          \* m_pTlsServer is listening
  obj,          \* "none", "raw": a QSslSocket in its handshake, "ipc": a CIPCSocket
  doomed,       \* the objects given to deleteLater
  link,         \* their connections: "up", "closing" or "down"
  from,         \* the address of a network peer
  reports,      \* how often its errorOccurred was emitted
  connections,  \* m_Connections
  loop,         \* the socket whose OnReadyRead runs
  buffer,       \* the frames in its m_ReadBuffer
  failures,     \* m_Failures, as ages
  allFailures   \* m_AllFailures, as ages

listeners == <<server, tls>>
sockets   == <<obj, doomed, link, from, reports, connections>>
reading   == <<loop, buffer>>
limits    == <<failures, allFailures>>
vars      == <<server, tls, obj, doomed, link, from, reports, connections, loop, buffer,
               failures, allFailures>>

Init ==
  /\ server = FALSE /\ tls = FALSE
  /\ obj = [s \in Sockets |-> "none"] /\ doomed = {}
  /\ link = [s \in Sockets |-> "down"]
  /\ from = [s \in Sockets |-> CHOOSE a \in Addresses : TRUE]
  /\ reports = [s \in Sockets |-> 0]
  /\ connections = {}
  /\ loop = NoSocket /\ buffer = 0
  /\ failures = [a \in Addresses |-> <<>>] /\ allFailures = <<>>
-----------------------------------------------------------------------------
\* The limit on failed handshakes.

\* How many of the first are past the window, and what is left without them.
\* (Slip: nothing is dropped.)
Expired_Never(q) == 0
\* (Slip: at the window, not past it.)
Expired_AtWindow(q) == Cardinality({i \in 1..Len(q) : \A j \in 1..i : q[j] >= Window})
Expired(q) == Cardinality({i \in 1..Len(q) : \A j \in 1..i : q[j] > Window})
DropOlderThan(q) == SubSeq(q, Expired(q) + 1, Len(q))

GlobalLimit     == Len(DropOlderThan(allFailures)) >= MaxGlobal
AddressLimit(a) == Len(DropOlderThan(failures[a])) >= MaxPerAddress
\* (Slip: only the total counts.)
IsRateLimited_InTotal(a) == GlobalLimit
IsRateLimited(a) == GlobalLimit \/ AddressLimit(a)

\* IsRateLimited drops old failures as it looks; the global limit returns first.
Looked(a) ==
  /\ allFailures' = DropOlderThan(allFailures)
  /\ failures' = IF GlobalLimit THEN failures
                 ELSE [failures EXCEPT ![a] = DropOlderThan(@)]

\* (Slip: the newest comes first.)
NoteHandshakeFailure_First(a) ==
  /\ allFailures' = <<0>> \o allFailures
  /\ failures' = [failures EXCEPT ![a] = <<0>> \o @]
NoteHandshakeFailure(a) ==
  /\ allFailures' = Append(allFailures, 0)
  /\ failures' = [failures EXCEPT ![a] = Append(@, 0)]

Tick ==
  LET Older(q) == [i \in DOMAIN q |-> IF q[i] > Window THEN q[i] ELSE q[i] + 1]
  IN  /\ \E q \in {failures[a] : a \in Addresses} \cup {allFailures} :
           \E i \in DOMAIN q : q[i] <= Window
      /\ failures' = [a \in Addresses |-> Older(failures[a])]
      /\ allFailures' = Older(allFailures)
      /\ UNCHANGED <<listeners, sockets, reading>>
-----------------------------------------------------------------------------
\* The listeners.

EventLoop == loop = NoSocket

\* Another process may serve the name, or the system refuse it.
Listen ==
  /\ EventLoop
  /\ server' \in BOOLEAN
  /\ UNCHANGED <<tls, sockets, reading, limits>>

ListenTcp ==
  /\ EventLoop /\ ~tls
  /\ tls' \in BOOLEAN
  /\ UNCHANGED <<server, sockets, reading, limits>>

\* The connections are deleted, and with the TLS listener the sockets that are
\* still its children.
Close ==
  LET gone == connections \cup {s \in Sockets : obj[s] = "raw"} IN
  /\ EventLoop /\ (server \/ tls \/ connections # {})
  /\ server' = FALSE /\ tls' = FALSE
  /\ obj' = [s \in Sockets |-> IF s \in gone THEN "none" ELSE obj[s]]
  /\ link' = [s \in Sockets |-> IF s \in gone THEN "down" ELSE link[s]]
  /\ doomed' = doomed \ gone
  /\ connections' = {}
  /\ UNCHANGED <<from, reports, reading, limits>>
-----------------------------------------------------------------------------
\* Network connections: CTlsServer::incomingConnection and its handlers.

Accept(s, a) ==
  /\ EventLoop /\ tls /\ obj[s] = "none" /\ ~IsRateLimited(a)
  /\ Looked(a)
  /\ obj' = [obj EXCEPT ![s] = "raw"] /\ link' = [link EXCEPT ![s] = "up"]
  /\ from' = [from EXCEPT ![s] = a] /\ reports' = [reports EXCEPT ![s] = 0]
  /\ UNCHANGED <<listeners, doomed, connections, reading>>

Refuse(a) ==
  /\ EventLoop /\ tls /\ IsRateLimited(a)
  /\ Looked(a)
  /\ UNCHANGED <<listeners, sockets, reading>>

\* The socket becomes a CIPCSocket's and bAdopted is set.
Encrypted(s) ==
  /\ EventLoop /\ obj[s] = "raw" /\ link[s] = "up"
  /\ obj' = [obj EXCEPT ![s] = "ipc"]
  /\ connections' = connections \cup {s}
  /\ UNCHANGED <<listeners, doomed, link, from, reports, reading, limits>>

\* (Slip: the socket is not deleted.)
HandshakeError_Kept(s) ==
  /\ EventLoop /\ obj[s] = "raw" /\ reports[s] < MaxReports
  /\ reports' = [reports EXCEPT ![s] = @ + 1]
  /\ link' = [link EXCEPT ![s] = "down"]
  /\ NoteHandshakeFailure(from[s])
  /\ UNCHANGED <<listeners, obj, doomed, from, connections, reading>>

\* errorOccurred before the handshake was complete.
HandshakeError(s) ==
  /\ EventLoop /\ obj[s] = "raw" /\ reports[s] < MaxReports
  /\ reports' = [reports EXCEPT ![s] = @ + 1]
  /\ link' = [link EXCEPT ![s] = "down"]
  /\ NoteHandshakeFailure(from[s])
  /\ doomed' = doomed \cup {s}
  /\ UNCHANGED <<listeners, obj, from, connections, reading>>

\* (Slip: as it once was, bAdopted is not looked at.)
AdoptedError_AsBefore(s) ==
  /\ EventLoop /\ obj[s] = "ipc" /\ reports[s] < MaxReports
  /\ reports' = [reports EXCEPT ![s] = @ + 1]
  /\ NoteHandshakeFailure(from[s])
  /\ doomed' = doomed \cup {s}
  /\ UNCHANGED <<listeners, obj, link, from, connections, reading>>

\* And after it: bAdopted makes the handler return.
AdoptedError(s) ==
  /\ EventLoop /\ obj[s] = "ipc" /\ reports[s] < MaxReports
  /\ reports' = [reports EXCEPT ![s] = @ + 1]
  /\ UNCHANGED <<listeners, obj, doomed, link, from, connections, reading, limits>>
-----------------------------------------------------------------------------
\* Local connections: OnNewConnection.  A peer the kernel does not know, or of
\* another account than the one allowed, is deleted before anybody hears of it.

NewLocal(s) ==
  /\ EventLoop /\ server /\ obj[s] = "none"
  /\ obj' = [obj EXCEPT ![s] = "ipc"] /\ link' = [link EXCEPT ![s] = "up"]
  /\ reports' = [reports EXCEPT ![s] = MaxReports]
  /\ connections' = connections \cup {s}
  /\ UNCHANGED <<listeners, doomed, from, reading, limits>>
-----------------------------------------------------------------------------
\* The life of a connection.

\* (Slip: delete, not deleteLater.)
OnDisconnected_AtOnce(s) ==
  /\ connections' = connections \ {s}
  /\ doomed' = doomed
  /\ obj' = [obj EXCEPT ![s] = "none"]

\* Disconnected() reaches CIPCServer::OnDisconnected, which lets the event loop
\* delete the socket; it may come twice.
OnDisconnected(s) ==
  /\ connections' = connections \ {s}
  /\ doomed' = doomed \cup {s}
  /\ obj' = obj

Gone(s) == link' = [link EXCEPT ![s] = "down"] /\ OnDisconnected(s)

\* Disconnect() closes at once when nothing is left to be written.
Closing(s) ==
  \/ link[s] = "up" /\ Gone(s)
  \/ /\ link[s] = "up" /\ link' = [link EXCEPT ![s] = "closing"]
     /\ UNCHANGED <<obj, doomed, connections>>

Disconnect(s) ==
  /\ EventLoop /\ obj[s] = "ipc" /\ Closing(s)
  /\ UNCHANGED <<listeners, from, reports, reading, limits>>

\* The peer closes, or what was left has been written.
PeerGone(s) ==
  /\ EventLoop /\ obj[s] = "ipc" /\ link[s] # "down" /\ Gone(s)
  /\ UNCHANGED <<listeners, from, reports, reading, limits>>

Deleted(s) ==
  /\ EventLoop /\ s \in doomed
  /\ obj' = [obj EXCEPT ![s] = "none"] /\ doomed' = doomed \ {s}
  /\ UNCHANGED <<listeners, link, from, reports, connections, reading, limits>>
-----------------------------------------------------------------------------
\* OnReadyRead.

ReadyRead(s, n) ==
  /\ EventLoop /\ obj[s] = "ipc" /\ link[s] # "down"
  /\ loop' = s /\ buffer' = n
  /\ UNCHANGED <<listeners, sockets, limits>>

\* What a handler may do to a connection, this one or another.
Handled == \/ \E s \in connections : Closing(s)
           \/ UNCHANGED <<obj, link, doomed, connections>>

\* (Slip: the length is not compared with what has arrived.)
Dispatch_Incomplete ==
  /\ loop \in Sockets
  /\ buffer' = buffer - 1
  /\ Handled
  /\ UNCHANGED <<listeners, from, reports, loop, limits>>

\* A frame is out of the buffer before its signal is emitted; when the handler
\* disconnects this socket, the loop goes on.
Dispatch ==
  /\ loop \in Sockets /\ buffer > 0
  /\ buffer' = buffer - 1
  /\ Handled
  /\ UNCHANGED <<listeners, from, reports, loop, limits>>

\* A frame too long, malformed or of no known type: Fail.
Fail ==
  /\ loop \in Sockets /\ buffer > 0
  /\ buffer' = 0 /\ loop' = NoSocket
  /\ Gone(loop)
  /\ UNCHANGED <<listeners, from, reports, limits>>

ReadDone ==
  /\ loop \in Sockets /\ buffer = 0
  /\ loop' = NoSocket
  /\ UNCHANGED <<listeners, sockets, buffer, limits>>
-----------------------------------------------------------------------------
Handshakes == \/ \E s \in Sockets, a \in Addresses : Accept(s, a)
              \/ \E a \in Addresses : Refuse(a)
              \/ \E s \in Sockets : Encrypted(s) \/ HandshakeError(s) \/ AdoptedError(s)
Life == \E s \in Sockets : NewLocal(s) \/ Disconnect(s) \/ PeerGone(s) \/ Deleted(s)
Reading == Dispatch \/ Fail \/ ReadDone

Next == \/ Listen \/ ListenTcp \/ Close \/ Tick
        \/ Handshakes \/ Life \/ Reading
        \/ \E s \in Sockets, n \in 1..MaxFrames : ReadyRead(s, n)
Spec == Init /\ [][Next]_vars

\* OnReadyRead comes to its end, the event loop gets round to its deletions
\* whatever else happens, and time passes.
FairSpec == /\ Spec /\ WF_vars(Reading) /\ WF_vars(Tick)
            /\ \A s \in Sockets : SF_vars(Deleted(s))
-----------------------------------------------------------------------------
\* The lists and flags hold what their declarations allow.
TypeOK ==
  /\ server \in BOOLEAN /\ tls \in BOOLEAN
  /\ obj \in [Sockets -> {"none", "raw", "ipc"}] /\ doomed \subseteq Sockets
  /\ link \in [Sockets -> {"up", "closing", "down"}]
  /\ from \in [Sockets -> Addresses] /\ reports \in [Sockets -> 0..MaxReports]
  /\ connections \subseteq Sockets
  /\ loop \in Sockets \cup {NoSocket} /\ buffer \in 0..MaxFrames
  /\ failures \in [Addresses -> Seq(Ages)] /\ allFailures \in Seq(Ages)

\* What GetConnections hands out can be used: exactly the adopted sockets whose
\* connection is not down are listed, and none of them is about to be deleted,
\* whichever handlers ran in which order.
ListedAreLive ==
  /\ connections = {s \in Sockets : obj[s] = "ipc" /\ link[s] # "down"}
  /\ connections \cap doomed = {}

\* The socket that OnReadyRead works on is there until it is through, although
\* the handlers it calls may disconnect it ("the socket is still on the stack
\* above us").
ReaderIsThere == loop # NoSocket => obj[loop] = "ipc"

\* Within the window both records of failures know the same ones, although they
\* are trimmed at different times and the global limit returns before the
\* address is looked at.
Recent(q) == {i \in 1..Len(q) : q[i] <= Window}
RecordsAgree ==
  \A age \in 0..Window :
    Cardinality({i \in 1..Len(allFailures) : allFailures[i] = age})
      = Cardinality({e \in UNION {{a} \X (1..Len(failures[a])) : a \in Addresses} :
                       failures[e[1]][e[2]] = age})

\* An address is limited exactly while that many failures are within the window:
\* IsRateLimited counts what is left of a record after dropping from its front,
\* and never counts a failure that is past the window nor misses one that is not
\* (DropOlderThan; "the window slides").
LimitIsExact ==
  \A a \in Addresses :
    IsRateLimited(a) <=> \/ Cardinality(Recent(allFailures)) >= MaxGlobal
                         \/ Cardinality(Recent(failures[a])) >= MaxPerAddress

\* The limit is passed only by handshakes that were under way when it was
\* reached: those that wait for their end are counted against it here.
UnderWay(a) == {e \in Sockets \X (1..MaxReports) :
                  obj[e[1]] = "raw" /\ from[e[1]] = a /\ reports[e[1]] < e[2]}
OvershootBounded ==
  \A a \in Addresses :
    Cardinality(Recent(failures[a])) + Cardinality(UnderWay(a))
      < MaxPerAddress + Cardinality(Sockets) * MaxReports

\* What has lost its connection is deleted at some time.
LostIsDeleted ==
  \A s \in Sockets : (obj[s] # "none" /\ link[s] = "down") ~> (obj[s] = "none")

\* An address is let in again once its handshakes stop failing, however often
\* it was refused meanwhile ("the window slides instead of needing to be reset
\* by something").
LimitLifts ==
  (<>[][\A s \in Sockets : ~HandshakeError(s)]_vars)
    => \A a \in Addresses : []<>~IsRateLimited(a)
=============================================================================
