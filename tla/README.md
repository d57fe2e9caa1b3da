# TaskExplorer: specifications, checks and proofs

TaskExplorer shows the processes, threads, handles, sockets and services of a
machine, and of other machines that run its server. Most of the repository
copies what an operating system reports into objects and draws them. What is
specified here is the part that can go wrong in ways a test hardly reaches:
the directory of machines that two threads and a set of network connections
change together, the protocol that keeps a copy of a list at the far end of a
connection, the way the configuration reaches the disk, the list of processes
that is refreshed while the machine goes on, the listening side of the
transport, and the threads that look names up.

## 1. Inventory

| Part | Source | State it keeps | Operations |
|---|---|---|---|
| Machine directory `CCluster` | `TaskExplorer/API/Cluster.{h,cpp}` | `m_Targets` (rows), `m_Nodes`, the two selections, the machine layer's switch, the discovery listener, `Targets.xml` | load and store, connect (by hand, by the worker, to the local daemon), disconnect, add, edit, remove, discover, select, lose, retry, reconnect |
| Delta cache `CVariantCacheT` | `MiscHelpers/Common/IPC/VariantCache.h` | what was last sent of each entry, its wire key, the round under way | `BeginRound`, `Keep`, `Write`, `FinishRound`, `Clear`, `Clear(Scope)` |
| XML files `CXml` | `MiscHelpers/Common/Xml.cpp` | `X`, `X.tmp`, `X.bak` | `Write`, `Read` |
| Process list of `CLinuxAPI` | `TaskExplorer/API/Linux/LinuxAPI.cpp`, `LinuxProcess.cpp` | `m_ProcessMap`, `m_ProcessByPID` | `UpdateProcessList`, `ClearPersistence` |
| IPC server `CIPCServer`, `CTlsServer` | `MiscHelpers/Common/IPC/IPCServer.cpp` | listeners, connections, failure times by address | listen, accept, handshake, adopt, refuse, close |
| IPC socket `CIPCSocket` | `MiscHelpers/Common/IPC/IPCSocket.cpp` | receive buffer, pending requests, connection state | send a frame, read frames, dispatch, fail |
| Name resolvers `CSidResolver`, `CDnsResolver` | `TaskExplorer/API/Windows/` | caches, a map of jobs, a thread | ask, look up, answer, go idle, start again |
| Discovery | `MiscHelpers/Common/IPC/Discovery.cpp` | UDP socket, announcements seen | announce, listen |
| Credential store | `MiscHelpers/Common/CredentialStore.cpp` | an encrypted file of keys | unlock, look up, store |
| Listed things `CAbstractInfoEx` | `TaskExplorer/API/AbstractInfo.cpp` | creation and removal stamps | mark new, mark removed, expire |
| Task service, Linux helper | `TaskExplorer/SVC/TaskService.cpp`, `TaskExplorer/API/Linux/LinuxHelper.cpp` | a privileged process and a pipe to it | start, request, time out |
| Symbol provider, memory dumper | `TaskExplorer/API/Windows/`, `TaskExplorer/API/MemDumper.cpp` | a queue and a worker | queue, resolve, deliver |
| Rest of the collectors | `TaskExplorer/API/Linux/`, `TaskExplorer/API/Windows/` | what the operating system last reported | refresh |
| Models, views, dialogs, updater | `TaskExplorer/GUI/` | what is on the screen | show |
| Remote access | `TaskExplorer/API/RemoteApi.cpp`, a module not in the repository | a connection to a server | connect, reconnect, ask |
| Vendored | `ProcessHacker`, `KSystemHacker`, `MiniDump`, `qwt`, `qhexedit`, `qtservice`, `qtsingleapp`, ... | - | - |

How the parts meet. The window (`GUI/TaskExplorer.cpp`) makes one `CCluster`,
loads the saved machines, starts a worker that connects those there is a key
for, and from then on calls it from menus, dialogs and the refresh timer. A
connected machine is a `CRemoteSystem` from a module that is loaded at run time;
it lives in a thread of its own and reports `ConnectionLost`, `Reconnected` and
`ReconnectRefused` by signals queued to the GUI thread. A server answers a
viewer's request for a list with a delta from a `CVariantCacheT`, which the viewer
applies to its copy. `CCluster` stores its rows through `CXml`, under a lock it
holds for reading. A collector runs in a thread of its own and fills maps that the
models copy under a lock; the ended processes in them are held for a while by the
stamps of `CAbstractInfoEx`. A server hands the sockets of `CIPCServer` to a handler
and is told of their end by signals, all in one event loop. The views ask the
resolvers for names and get them later, by a queued call.

What is hard in it:

- *Interleaving.* `Connect` releases `m_Mutex` three times, once for a
  handshake of up to seconds. The GUI thread and the worker may be inside it for
  the same row, and the row may be edited, removed or reconnected meanwhile.
- *Ordering.* Signals are applied after they were emitted, to a row found by a
  pointer; the file is written after the list has changed, by either thread.
- *Failure.* Every step of a `Connect` may fail, a connection may be lost at any
  time, another machine may answer at the old address, the program may be ended
  in the middle of a `Write`.
- *Liveness.* A lost machine is found again only by the timer, the stamp of the
  last attempt and a posted call working together.
- *A machine that moves.* A refresh of the process list reads `/proc` twice;
  processes start, end and pass on their pids in between, and after the second.
- *Reentrance.* `OnReadyRead` calls handlers that may disconnect, and so delete, the
  socket it works on. Errors are reported to handlers that outlive their purpose.
- *Threads that end by themselves.* A resolver's thread decides to end while
  somebody decides that it need not be started.
- *Identity.* Handles start again from one with every connection; names are keys
  that people edit.

`PROJECT.json` lists each of these hazards at its line, with the properties that
watch it.

## 2. Modules

| Module | What it is |
|---|---|
| `Cluster` | `CCluster`, the two threads in it and the connections it listens to |
| `MCCluster` | its instances |
| `ClusterProofs` | lemmas about rows and look-ups, type correctness |
| `ClusterStateProofs` | the rows' states, the file, and who is connecting (extends `ClusterProofs`) |
| `ClusterSafetyProofs` | the selections, the rows' connections, the machines' identity, and what rows say of their links (extends `ClusterStateProofs`) |
| `VariantCache` | `CVariantCacheT`, its caller's rounds and its reader |
| `ListMirror` | what it promises: a list and a mirror of it |
| `MCVariantCache`, `VariantCacheProofs` | its instance, and its theorems with the refinement |
| `XmlStore` | `CXml::Write` on a POSIX disk, with crashes |
| `MCXmlStore`, `XmlStoreProofs` | its instances and its theorems |
| `ProcessList` | `UpdateProcessList` and `ClearPersistence` over a machine that moves |
| `MCProcessList`, `ProcessListProofs` | its instance and its theorems |
| `IPCServer` | `CIPCServer`, `CTlsServer` and the server's side of `CIPCSocket` |
| `MCIPCServer`, `IPCServerProofs` | its instance and its theorems |
| `Resolver` | `CSidResolver`, and the reverse lookups of `CDnsResolver` |
| `MCResolver`, `ResolverProofs` | its instances and its theorems |

### Cluster

*State.* `targets` is `m_Targets`, a function from row numbers to `STarget`
records; the numbers are only the order of the list, so an appended row gets the
next one and a removed one leaves a gap. `nodes`, `viewSystem`, `graphSystem`,
`clusterMode` and `discovering` are the members of those names, `file` is the set
of entries in `Targets.xml`. `call[t]` is where thread `t` is in an operation
and the arguments and locals it carries over the unlocked stretches. `work` is
what the worker has left. `link`, `machine`, `expects`, `heard`, `events` and
`posted` stand for the system objects: the connection, the id that answered,
`SetExpectedMachineId`, whether `connect()` has been called, the signals queued
to the GUI thread in order, and the posted `TryReconnect` calls. Two variables are there
for the properties: `overlap` says that the last `StoreTargets` to begin did so inside
another, and `stranded` holds the rows that were "connecting" when `Create` refused a
`Connect` of them or they were renamed under one, until something puts them there anew.

*Actions.* One action is one locked region with what follows it up to the next, except
`StoreTargets`: its lock is for reading, so that both threads can be inside it, and it is
two, its beginning (`StoreTargets`) and what `CXml::Write` has left by its end (`Written`).
In between no region that writes the list can start (`Unlocked`). Two that overlap write the
same list and leave it, or no file, which is what `XmlStore` shows of two writers (its
`WriteTakesEffect`, and `store_race`). `Connect` is `AddTarget`, `StoreTargets`, `CheckUp`, `ReadExpected`, then
`CreateRefused`, `HandshakeFails` or `Handshake`, then `CommitGone`,
`CommitFailed` or `CommitConnected` and another `StoreTargets`.
`ConnectLocalDaemon` adds `MarkDaemon`, or `ForgetDaemon` and `RemoveRow`;
`RemoveTarget` is `Disconnect`'s region and `RemoveRow`. The user's actions need
`GuiIdle`; slots and the timer also run under the message box of `AcceptNew`
(`GuiLoop`). `LastRetry` is kept as the time left, so that time is a countdown
(`Tick`) and not a growing clock.

*External.* `CRemoteSystem` and `CRemoteLoader` are not in the repository. A
system is made or refused, connects or fails within its timeout, answers with an
id, refuses an id it does not expect, reports its loss once, and reconnects or
refuses when asked. That is what `Cluster.cpp` relies on.

*Callers.* `GUI/TaskExplorer.cpp` is in the model as the directory's caller:
`OnConnect` (lines 1015-1082) is `ConnectByUser`, the message box under which slots
and the timer still run, and `AcceptNew` or `DeclineNew`; `EnsureCluster` is the order
constructor, `LoadTargets`, `ConnectSavedTargets`; `TryLocalDaemon` is
`ConnectLocalDaemon` or `NoLocalDaemon`; `OnDisconnect` offers rows that have a
connection.

*Left out.* `AddNode` and `RemoveNode`, which nothing calls; the getters; what is
logged and translated. Names are compared case-folded in the code and are
model values here. The order in which the worker takes the saved machines is
left open.

### VariantCache and ListMirror

`entries`, `wireKeys`, `nextKey`, `changed`, `scope` and `inRound` are the members
of the cache. A caller lists each thing under its scope and each field once per
round. `sent` is the one message under way (the viewer asks for a list and waits),
`copy` is the reader's copy by wire key. `said` and `listed` are the reference: what
the caller has said in this round, and what the list is at the end of the last.
`NewSession` replaces the connection, and with it the cache, while the reader keeps
its copy; the `fresh` bit of the next message (`IsEmpty` before the round) tells it
to start again. `ListMirror` knows no keys, scopes or deltas: a list is published
and then shown whole.

### XmlStore

A path names an inode, an open file keeps its inode when the path moves, data
reaches the inode when the file is closed, and `rename` does nothing when its
destination exists; no result is looked at. `File.rename` closes the file when it can
move it (`Close`, then `In`); when it cannot (`RenameRefused`), the file is closed as `Write`
returns (`Return`). Any number of threads may be inside: both callers of `Write` hold a read
lock, so that those inside together have the same document. `Crash` ends the program at any
step, and a document on its way to the disk may be torn. `last`, `crashed` and `overlap`
are for the properties: the document of the `Write` that last returned, how many `Write`s
are to be completed before a crash inside one is of no consequence, and whether `Write`s
have overlapped and none that was alone has made good for it since.

### ProcessList

`procs`, `clock` and `last` are the machine: what runs, the latest start time, and
when each pid was last given out or freed. `map` is `m_ProcessMap`, `byPid` is
`m_ProcessByPID`, `stats` and `old` are the locals `Stats` and `OldProcesses`. A refresh
is `Enumerate` (the sweep), then for each pid in order `Keep`, `Add` or `AddVanished`,
then `Purge`, which resolves parents, counts children and removes or marks what is
left. The machine may move between any two of these. The sweep itself is one step, while
the code reads pid by pid: a process that starts or ends during it is one that starts or
ends before or after it, but a sweep that saw one pid before and another pid after such
changes is not in the model. An entry has the start time that
its own read of `/proc` found, which need not be the one it is filed under.
`m_RemoveTimeStamp` is kept as the time since it was set, up to the first that is past
the persistence time. `Under` is the rule by which the tree's `MakeProcPath` goes from
a process to its parent.

*Machine.* Start times are in clock ticks, so that a child can share its parent's. The
kernel gives a free pid out again after all the others, so the model does not reuse a
pid within the tick in which it was freed; with that reuse two processes would have the
same `SProcessUID`, and nothing in the program tells them apart.

*Left out.* Counters, the grouping of kernel threads, windows. The lists of sockets,
open files, services and drivers have the same purge with other keys.

### IPCServer

Everything is in one thread, so a step is one signal handler, except in `OnReadyRead`,
which is a step a frame (`ReadyRead`, `Dispatch`, `Fail`, `ReadDone`) because the handlers
it calls may disconnect sockets, its own too; the event loop does not turn meanwhile
(`EventLoop`). `obj` says what a socket object is, `doomed` what was given to
`deleteLater`, `link` what its connection is, `reports` how often it has emitted
`errorOccurred`. `failures` and `allFailures` are the two records of failed handshakes,
as ages. Which key a handshake gets and which local peer is refused are outcomes here:
a handshake succeeds or fails, and a refused peer is deleted before anybody knows of it.

*External.* Qt's sockets, and the server program above: `ListenTcp` is called again only
after `Close`. The code has no guard for that, and a second call would leave the first
listener serving with nothing to close it by.

### Resolver

`CSidResolver` and the reverse lookups of `CDnsResolver` are the same design, line by line
in most of it; `kind` is which of the two a behaviour is. `queue` is `m_JobQueue` with who
is connected to each job, `running` is `m_bRunning`, `thread` is where the thread is,
`waiting` is who was promised a call. `Look` and `Ask` are the two locked regions of a
question; `Pick`, `Lookup` and `Finish` those of a round of `run()`. A SID's name goes into
the cache by a queued call after the answer, a host's before it; a host without a name
is not asked for again for a while, and who waits for it is told nothing. In the destructor
`terminate()` and the clearing of the queue are one step (`Cleanup`): the thread is taken to
be gone when `terminate()` has returned.

*External.* `QThread`: between the return of `run()` and QThread's own bookkeeping
(`"finishing"`), `start()` does nothing. `missed` records that it happened.

## 3. Runs

| Run | Question | States |
|---|---|---|
| `cluster_links` | Is what a row says of its connection true, is it the right machine, is what is selected connected, is a lost machine retried until it is back, and does every `Connect` settle that was neither refused a system object nor had its row renamed? | 218 k |
| `cluster_edit` | While the worker and the user work on one entry, this machine's daemon is connected, rows are renamed, corrected, removed and discovered, system objects are refused and stores overlap: do rows and nodes stay consistent, does every connecting row have its caller, does the file follow the list, and does the daemon stay out of it? | 4.9 M |
| `cache_rounds` | Is the reader's copy the list, and does the cache implement `ListMirror`? | 2.2 M |
| `xml_crash` | Does a document survive a crash, does a `Write` take effect, and from which `Write` after a crash, or after two that overlapped, on? | 1.5 M |
| `process_list` | Is a running process ever taken for another or for an ended one, does the tree stay a tree, do parents stay, does only what has ended leave, and does it leave? | 54 k |
| `ipc_server` | Is what is listed usable, is nothing freed under its reader, does the limit count what it should, how far is it passed, and does it lift? | 187 k |
| `names` | Does everybody who was promised a name get it, and does every job have a thread? | 151 k |
| `node_orphaned`, `loss_unheard`, `connect_stuck`, `store_race`, `names_stalled` | the disagreements of section 6 | stop at the first |

*Bounds.* Two rows are one saved machine and one more (the daemon, a typed name,
a discovered one): operations touch one row, found by name, and the second is
there to be taken for it. Two systems are what two threads can have under way for
the same row. `cluster_links` has one row, one system and two answers, an id and none, instead, and
a queue of two signals, so that a loss and a reconnection can both be waiting. An
`Interval` of 2 refreshes is the least in which an attempt can be due, not yet
due and half way. `MaxHandle = 3` lets a thing go and come back under another key while a second
thing keeps its own; the real bound is 2^32.
Three things are two in one scope and one in another, with two fields of two
values: a field may change while the other stays. `xml_crash` has the two threads
that store the list, and as many inodes as can be in use: when a file is made, there are
at most `FileName`, `FileName.bak` and what the other thread has open. In `cluster_edit` no link is lost
(`MaxEvents = 0`): the losses are in `cluster_links`, and the theorems have both together.
`process_list` has the first process and two pids that come and go, so that one can be
the other's parent, outlive it and follow it, over two start times; a persistence of
one tick has a mark that is new, due and past. The safety properties were also checked
once over three start times and no persistence (858 k states). `ipc_server` has two sockets, so that one
can be disconnected from the other's handler and two handshakes of an address can be
under way at its limit of one; two frames, so that the loop goes on after a handler
disconnected it. `names` has two receivers for one name and a second name that has to
wait, and an idle limit of 0, with which the thread ends as soon as it may.
Deadlock is not checked for `Cluster`, since a user may stop and the numbers of rows and
systems are bounds, nor for `Resolver`, which ends with its destructor; it is for the
others.

*Fairness.* In `Cluster`: a step of an operation under
way is taken eventually: its waits are the handshake's, which end with its timeout, and
those for the lock. The latter make it strong fairness: the other thread may store
the list again and again, but `QReadWriteLock` lets no reader past a writer that waits.
Delivery of queued signals and the refresh timer are strongly fair, since the
event loop runs them whenever the GUI thread returns to it, and the user can keep
it away only for the length of one operation at a time. Time passes. A posted
attempt is made, and attempts do not miss a machine that is there for ever; the
last is an assumption about the network, without which a lost machine may
rightly stay lost. In `ProcessList`: the refresh timer fires for ever, a refresh comes to
its end, and time passes. In `IPCServer`: `OnReadyRead` comes to its end, time passes, and
deferred deletions are strongly fair, since every turn of the event loop makes them and
only a running `OnReadyRead` keeps it from turning. In `Resolver`: a thread that can run
does, which includes that a lookup ends (the system calls it makes have timeouts), and
event loops deliver what is queued. `AnswersCome` and `EndedLeaves` are stated for
behaviours in which records do not expire, and nobody clears the persistence, for ever.

Every property of a passing run has a slip of the code, kept beside the
definition it alters and marked "Slip", under which the property fails.

## 4. Theorems

All are proved with TLAPS for every value of the constants that satisfies the
`ASSUME`s: any names, machines, list, number of rows and length of queue. Where a
theorem needs more, its statement says so, and the entry below why the code promises
no more. Every invariant that a passing run checks has a theorem, except `DaemonUnwritten`,
and so have the action properties and the refinement.

`Cluster`:

- `TypeCorrect`: `Spec => []TypeOK`. The look-ups by name and by pointer return a
  row of the list or 0 (`FindTargetFinds`, `RowOfFinds`), which needs that a
  non-empty set of row numbers has a least element (`LeastExists`).
- `SelectionSafe`: `SelectionIsNode`. Its invariant says of the two pointers what
  the getters turn into a machine: each is null or a node, and the graphs' is
  null with the machine layer off.
- `RowsSafe` and `IdentitySafe`: `RowsHoldNodes` and `IdentityMatches`, from one
  invariant. Neither is inductive: a commit could be handed a system that some
  row already has. `NewIsOwn` adds that a system on its way in a `call` is open,
  belongs to no row and to no other call; `IdentityKept` adds that a row's system
  expects the very id the row shows, which is what makes a reconnection harmless.
- `StateSafe`: `StateAgrees`, by an invariant on each row (`RowAgrees`) and one on
  the calls (`FailureExplained`: a commit without a system carries an error).
- `FileSafe`: `FileFollowsList`, with no further assumption. `FileInv` states it row by row.
  It speaks of moments at which no `StoreTargets` is outstanding, so a step out of
  another moment must be a `Written`, which leaves the whole list or, when two overlapped,
  nothing, and any other step must leave what the rows write alone or have a `StoreTargets`
  ahead of it. That a machine which has left the list is not in the file holds in either
  case; that none is missing is claimed unless the last two stores overlapped, and the next
  one alone restores it. The proof needs `StateInv` (a row with a connection is one that is
  written) and that the window starts no operation before the list is loaded (`GuiStart`).
- `ConnectingSafe`: `ConnectingHasCaller`, with no further assumption: system objects may be
  refused and rows renamed. A `Connect` that is refused a system object returns without a
  word to the row, and a rename hides the row from the commit (section 6); the statement
  excepts exactly the rows these happened to (`stranded`). The invariant is on the row's
  name, which is all a call carries: a connecting row that is not stranded is the first of
  its name, the one `FindTarget` finds, and some thread is on its way with that name. That
  names are unique is not assumed; `OnDiscovered` and renames can make them not so. A call
  that ends, whichever way, settles or strands the row its name leads to, and every other
  connecting row has another thread on its way (`OtherDials`, `EndConn`).
- `LinkSafe`: `LinkShown`, assuming `~MayDropEarly`. A link that dies between the
  handshake and `connect()` is never reported (section 6). `LinkShown` asks for a signal that
  corrects a row that is wrong; `LinkInv` adds that the signal is the queue's last word on
  the system, and that no signal is coming that makes a right row wrong (`QueueInv`). A
  system that is listened to is open (`HeardIsOpen`), and one on its way in a `call` is up
  with nothing queued, or an old signal would be taken for its own (`NewIsFresh`).

`VariantCache`, for any things, fields, values and scopes:

- `TypeCorrect`, `CopyIsTheList`, `ChangesTravel`, `KeysMeanTheSame`, `RemovedAreKnown`:
  `TypeOK`, `CopyIsList`, `OnlyChangesTravel`, `KeysAgree` and `RemovedIsKnown`, from one
  invariant, with numbers and with names; `RemovedIsKnown` is stated for numbers
  (`~Named`), since a cache keyed by names also reports the end of what never travelled
  (section 6). The invariant relates three things the code never has in one place: an
  entry is the row last listed, overwritten by what this round has said (`EntriesInv`);
  what is marked as changed is exactly where the two differ (`ChangedInv`); and the
  reader's copy, once it will have applied what is under way (`After`), is the list
  (`ReaderInv`). `RoundInv` and `NumberedInv` tie the marks of a round and the numbers to
  these. `CopyIsList` itself says nothing while a message is under way.
- `ImplementsMirror`: `Spec => MirrorSpec`. Each step is mapped to a step of `ListMirror` or
  to none: `FinishRound` is a `Round`, `Apply` is `Show`, the two `Clear`s are `Forget` and
  `NewSession` is `Lose`; all others stutter. That `Apply`, which knows only keys and differences, is the
  mirror's whole replacement is `ReaderInv` again.

`ProcessList`, for any set of pids and any persistence:

- `ListTypes`, `PidsAreSound`, `LiveProcessesShown`: `TypeOK`, `PidsLeadToEntries` and
  `LiveIsShown`. `LiveIsShown` is not
  inductive: the purge could find a running process among what is left. `Sweep` adds
  that, during a scan, a running process that is listed was read by the sweep as what
  it is and is still to be looked at until it has been crossed off; `Seen` adds that
  nothing noted of a pid is younger than its last use, so that a process that starts is
  in none of the maps.
- `ParentsAreKept`: `ParentKept`, an action property. `Linked` says that a resolved
  parent has the pid the process names, and that the branch for vanished processes finds
  nothing to remove; so only the purge removes, and a running child is found by its pid
  (`LiveIsShown`) and counted.
- `TheRunningStay`: `OnlyEndedLeave`, an action property, from the same two invariants. Only
  the purge removes (`OnlyPurgeRemoves`), only what is marked, and a running process is not
  marked; and an entry that `Add` writes is not one that was there, or `Linked` would have
  it among what is to be crossed off, so no mark is overwritten.
- `TreeIsATree`: `TreeHasNoCycle`. A parent that `Under` accepts is no younger than its
  child, so a cycle is within one start time, and there times decide nothing.
  `KnownParents` says that a pid which is named as a parent is in use or was last used no
  earlier than the child's start; `NoLoop` that the links between processes of one tick,
  running or listed, have no cycle. A new process's parent runs, and a pid is not given
  out again within the tick it was freed in, so a step never closes one.

`IPCServer`:

- `ServerTypes`, `ListSafe`, `ReaderSafe`: `TypeOK`, `ListedAreLive` and `ReaderIsThere`,
  for any number of sockets, addresses and frames. `DoomedIsDown` adds that what was
  given to `deleteLater` is still there and has lost its connection.
- `RecordsSafe`: `RecordsAgree`, for any number of addresses, infinitely many too, and any window. What
  `DropOlderThan` drops is a beginning of the list that is past the window
  (`ExpiredPrefix`), so what is left of an age is as much as before, a few places
  further up (`DropKeeps`, `DropEntries`: a bijection); a failure adds one of age 0 to both
  records (`NoteAged`, `NoteEntries`); and as time passes each age takes the places of
  the one before (`TickAged`, `TickEntries`). The lists need not be in order for that.
  `RecordsInv` adds that the failures are finitely many.
- `OvershootSafe`: `OvershootBounded`, assuming that `Sockets` is finite, without which its
  bound is no number. It is inductive with the types: a handshake begins only with fewer
  failures than the limit left (`AcceptBounded`), and one that fails stops being under way
  as it becomes a failure (`ErrorBounded`).
- `LimitExact`: `LimitIsExact`, for any limits, window and number of addresses. It needs what
  the other two do without: that a record is in the order of time (`OrderInv`), which
  dropping from the front, appending and ageing preserve. Then the first failure that is not
  dropped is within the window, so all after it are (`DropExact`).

`Resolver`:

- `ResolverTypes`, `NoLostAnswer`, `JobPointerValid`, `JobsAreServed`: `TypeOK`,
  `NoAnswerLost`, `WorkedJobIsThere` and `JobsHaveThread`, for any names,
  receivers and idle limit.

`XmlStore`:

- `StoreTypes`: `TypeOK`, for any number of writers. `FileOpen` adds that a thread which has
  not closed its file has one.
- `CopySurvives` and `WriteEffective`: `SomeCopyIsWhole` and `WriteTakesEffect`, for any number
  of writers, with the exceptions that are in the formulas: `Write`s that have overlapped,
  and those to be completed after a crash. `Apart` says that no two paths name one file and
  `AloneInv` that those inside together write one document. `BakInv` says that, one `Write`
  after a crash, `FileName.bak` is there only for somebody who will remove it; with it out
  of the way both renames of a `Write` that is alone do what they are meant to (`LoneInv`).
  `MixedInv` is about those that overlap: whatever stands at `FileName` once one of them has
  moved the old file aside is, or will be when the file is closed, their document, so that
  what they leave is it or nothing. `WholeInv` says which of the paths holds a whole document
  at each point of `Write`; it leaves `FileName.tmp` out, which the next `Open` truncates.

`IdentityMatches` is proved of what rows show; that an id once learnt is not replaced is
a different statement, and false (section 6).

*Only model-checked.* `DaemonUnwritten` of `Cluster`, which holds where no
configured machine has the daemon's name, and of a file that does not have it from a program
that was ended inside `ConnectLocalDaemon`. `LostIsRetried` and `ConnectSettles` of `Cluster`, `EndedLeaves` of
`ProcessList`, `LostIsDeleted` and `LimitLifts` of `IPCServer` and `AnswersCome` of `Resolver`:
liveness under fairness is out of the prover's reach. What they need of safety is
proved, so that TLC is trusted with the fairness only: that a lost row has a system to try
(`StateAgrees`) and a signal on its way once it is back (`LinkShown`), that a connecting row
has a thread on its way to settle it (`ConnectingHasCaller`), that a mark is never taken
back (`OnlyEndedLeave`), that old failures do not count (`LimitIsExact`), and that whoever
waits has a job and a job has a thread (`NoAnswerLost`, `JobsHaveThread`).

## 5. Plan

Modelled so far, in this order: `Cluster`, `VariantCache` with `ListMirror`, `XmlStore`,
`ProcessList`, `IPCServer`, `Resolver`. Next:

1. `Cluster` with `XmlStore` underneath it: `FileFollowsList` through crashes.
2. The socket and open-file lists of the Linux collector, with their own keys.
3. The Linux helper: requests to a privileged process over a socket that may be gone.

## 6. Where the code and its comments disagree

Each is a run that ends in a counterexample; `PROJECT.json` quotes the lines.

- `node_orphaned`: two `Connect`s of one name, or a removal while the worker commits,
  leave a connected machine in `m_Nodes` without a row. When the two are first
  connections, the second also replaces the machine id the first one learnt.
- `loss_unheard`: a link that dies between the handshake and `connect()` is shown as
  connected for ever.
- `connect_stuck`: a `Connect` for which no system object can be made (no module, no
  certificate) returns null at `Cluster.cpp:880-891` and leaves its row "connecting" with no
  error, where `Cluster.h:118` promises `eFailed` with `LastError` set.
- `store_race`: two threads in `CXml::Write` can leave no file.
- `names_stalled`: a question between the end of a resolver's `run()` and the end of its
  thread leaves `m_bRunning` set with no thread, and nothing is looked up any more.

Others met on the way, which the models have and no run of their own is spent on: a row that
is renamed while the worker dials it stays "connecting", since the commit looks for the old
name; `ConnectingHasCaller` and `ConnectSettles` except it beside the row of `connect_stuck`.
A second `Connect` of a row that fails after the first has succeeded sets the row to
`eFailed` over its live connection (`Cluster.cpp:908-911`), as a refused reconnection does on
purpose; `StateAgrees` allows a failed row either. Further: an ended parent whose pid has been given
to another process is not kept for its children (`LinuxAPI.cpp:953` says it is), which
`ParentKept` excepts; while
`ConnectLocalDaemon` is under way the file names the daemon, which `Cluster.h:79-82` says is
never written, and `DaemonUnwritten` claims no more than that it is out when the operation is
over; `Disconnect` keeps the stamp of the last attempt, so a machine
connected again and lost is not tried at once; `OnDiscovered` can give a row a name
that is in use; a delta cache keyed by names reports the removal of entries that were
only kept; a `Write` ended before its last step makes the next one have no effect.

## 7. Not modelled

The repository has over a million lines, most of them vendored: ProcessHacker with its
headers for the NT interface, Zydis, PCRE, qwt, qhexedit, the drivers. They are not this
program's logic and are not modelled, so the share of the repository's lines that the
models stand for is small and will stay so; of the program's own code they cover the
parts where steps of several actors meet.

Of the program itself: discovery, the credential store and the remote module appear
in `Cluster` as what they deliver. The client's side of `CIPCSocket` (connecting, writing,
the encoding of frames) and the task service are requests and answers over a pipe with
operating system calls around them. The Linux helper, and the lists of sockets and open
files, are in the plan. The rest of the collectors, the views and the updater convert
and present; what could go wrong in them is a matter of formats, which a model would
only repeat.

Hazards seen in code around the models, which no property is about: the handle counter of
the delta cache is 32 bits and would wrap to keys the reader still holds
(`VariantCache.h:405`; it takes 2^32 entries over one connection); `m_Failures` keeps
an entry for every address that ever failed (`IPCServer.cpp:205`); a wall clock that is
set back makes every failure look old (`IPCServer.cpp:193`); a second
`ConnectSavedTargets` would overwrite `m_ConnectFuture` (`Cluster.cpp:813`; the program
makes one call); a delta cache cleared inside a round forgets what it has recorded as
sent (`VariantCache.h:323`; no caller does it); `ClearPersistence` misses entries whose
pid has passed on (`LinuxAPI.cpp:1735`), which leave in their own time; a connection seen
again keeps its old removal stamp (`LinuxSocket.cpp:60`); open files are keyed by pid and
descriptor, and an entry found by its key is taken to be the same file
(`LinuxAPI.cpp:1348`).
