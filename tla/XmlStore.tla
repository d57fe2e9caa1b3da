------------------------------ MODULE XmlStore ------------------------------
(***************************************************************************)
(* CXml::Write and CXml::Read (src/MiscHelpers/Common/Xml.cpp): how        *)
(* Targets.xml and the preset files reach the disk.  A document is written *)
(* to FileName.tmp, the old file is moved to FileName.bak, the new one is  *)
(* moved in and the .bak is removed.  QFile::rename does not replace a     *)
(* file that exists, and none of the results are looked at.                *)
(*                                                                         *)
(* Its two callers, CCluster::StoreTargets and StorePersistentPresets, hold *)
(* the lock of what they store for reading: two threads may be in it at    *)
(* once, and then write the same document.  The program may be ended at    *)
(* any step.  Files are those of a POSIX system: a path names an inode, an *)
(* open file keeps its inode when the path is moved, and what was written  *)
(* reaches the inode when the file is closed.                              *)
(***************************************************************************)
EXTENDS Integers, FiniteSets

CONSTANTS
  Threads,    \* threads that may call Write
  Docs,       \* documents they write
  Inodes,     \* files the disk can hold
  NoFile,     \* a path nothing is at, a thread with no file open
  MayCrash    \* whether the program may end in the middle

ASSUME XmlStoreAssumption ==
  NoFile \notin Inodes /\ "empty" \notin Docs /\ "torn" \notin Docs

Paths == {"main", "tmp", "bak"}
PCs   == {"idle", "opened", "aside", "closed", "moved", "removed"}

VARIABLES
  path,     \* the inode at each path
  data,     \* what each inode holds: a document, nothing, or torn pieces
  pc,       \* where each thread is in Write
  fd,       \* the inode each thread has open
  doc,      \* the document each thread writes
  \* what has happened, for the properties
  last,     \* the document of the Write that last returned
  crashed,  \* the Writes to be completed, each by itself, before the program's
            \* last end inside one has no effect any more
  overlap   \* whether Writes overlapped: "now", those under way or just over;
            \* "past", earlier ones, and none has made good for them since; "none"

past == <<last, crashed, overlap>>
vars == <<path, data, pc, fd, doc, last, crashed, overlap>>

\* The file is there from an earlier run.
Init ==
  /\ \E i \in Inodes, d \in Docs :
       /\ path = [p \in Paths |-> IF p = "main" THEN i ELSE NoFile]
       /\ data = [j \in Inodes |-> IF j = i THEN d ELSE "empty"]
       /\ last = d
       /\ doc = [t \in Threads |-> d]
  /\ pc = [t \in Threads |-> "idle"]
  /\ fd = [t \in Threads |-> NoFile]
  /\ crashed = 0 /\ overlap = "none"
-----------------------------------------------------------------------------
Free == Inodes \ ({path[p] : p \in Paths} \cup {fd[t] : t \in Threads})

\* QFile File(FileName + ".tmp"); File.open(WriteOnly): made, or truncated.  Who
\* comes in while another is inside has the same document to write.
Open(t, d) ==
  /\ pc[t] = "idle"
  /\ \A u \in Threads : pc[u] # "idle" => doc[u] = d
  /\ \E i \in IF path["tmp"] # NoFile THEN {path["tmp"]} ELSE Free :
       /\ path' = [path EXCEPT !["tmp"] = i]
       /\ data' = [data EXCEPT ![i] = "empty"]
       /\ fd' = [fd EXCEPT ![t] = i]
  /\ doc' = [doc EXCEPT ![t] = d]
  /\ pc' = [pc EXCEPT ![t] = "opened"]
  /\ overlap' = IF \E u \in Threads : pc[u] # "idle" THEN "now"
                ELSE IF overlap = "none" THEN "none" ELSE "past"
  /\ UNCHANGED <<last, crashed>>

\* QFile::rename: moves a file that is there to a path where none is, and
\* otherwise does nothing.
Rename(from, to) ==
  path' = IF path[from] # NoFile /\ path[to] = NoFile
          THEN [path EXCEPT ![to] = path[from], ![from] = NoFile]
          ELSE path

\* QFile::rename(FileName, FileName + ".bak").  (Slips: the old file is removed;
\* it is moved to a path nothing removes.)
MoveAside_Old ==
  path' = [p \in Paths \cup {"old"} |-> IF p = "old" THEN path["main"]
                                       ELSE IF p = "main" THEN NoFile ELSE path[p]]
MoveAside_Remove == path' = [path EXCEPT !["main"] = NoFile]
MoveAside == Rename("main", "bak")

Aside(t) ==
  /\ pc[t] = "opened"
  /\ MoveAside
  /\ pc' = [pc EXCEPT ![t] = "aside"]
  /\ UNCHANGED <<data, fd, doc, past>>

\* Closing a file: the document reaches the disk, over whatever else has been
\* written to the same file meanwhile.
Flush(t) ==
  /\ \E d \in IF data[fd[t]] \in {"empty", doc[t]} THEN {doc[t]} ELSE {doc[t], "torn"} :
       data' = [data EXCEPT ![fd[t]] = d]
  /\ fd' = [fd EXCEPT ![t] = NoFile]

\* File.rename(FileName) gives up, with the file still open, when there is
\* nothing to move or something in the way; otherwise it closes the file ...
RenameRefused(t) ==
  /\ pc[t] = "aside" /\ (path["tmp"] = NoFile \/ path["main"] # NoFile)
  /\ pc' = [pc EXCEPT ![t] = "moved"]
  /\ UNCHANGED <<path, data, fd, doc, past>>

Close(t) ==
  /\ pc[t] = "aside" /\ path["tmp"] # NoFile /\ path["main"] = NoFile
  /\ Flush(t)
  /\ pc' = [pc EXCEPT ![t] = "closed"]
  /\ UNCHANGED <<path, doc, past>>

\* ... and then moves it in.  (Slip: it is moved where the old one was put.)
MoveIn_Bak == Rename("tmp", "bak")
MoveIn == Rename("tmp", "main")

In(t) ==
  /\ pc[t] = "closed"
  /\ MoveIn
  /\ pc' = [pc EXCEPT ![t] = "moved"]
  /\ UNCHANGED <<data, fd, doc, past>>

\* QFile::remove(FileName + ".bak").
Remove(t) ==
  /\ pc[t] = "moved"
  /\ path' = [path EXCEPT !["bak"] = NoFile]
  /\ pc' = [pc EXCEPT ![t] = "removed"]
  /\ UNCHANGED <<data, fd, doc, past>>

\* Write returns; the destructor of File closes what is still open.
Return(t) ==
  /\ pc[t] = "removed"
  /\ IF fd[t] = NoFile THEN UNCHANGED <<data, fd>> ELSE Flush(t)
  /\ pc' = [pc EXCEPT ![t] = "idle"]
  /\ last' = doc[t]
  /\ crashed' = IF overlap # "now" /\ crashed > 0 THEN crashed - 1 ELSE crashed
  /\ overlap' = IF overlap = "past" /\ crashed <= 1 THEN "none" ELSE overlap
  /\ UNCHANGED <<path, doc>>

\* The program ends, and is started again.  A document that was being written
\* may have got to the disk in part.
Crash ==
  /\ MayCrash /\ \E t \in Threads : pc[t] # "idle"
  /\ data' \in {[i \in Inodes |-> IF i \in torn THEN "torn" ELSE data[i]] :
                  torn \in SUBSET {fd[t] : t \in Threads}}
  /\ pc' = [t \in Threads |-> "idle"]
  /\ fd' = [t \in Threads |-> NoFile]
  /\ crashed' = 2
  /\ UNCHANGED <<path, doc, last, overlap>>

Next ==
  \/ \E t \in Threads : \/ \E d \in Docs : Open(t, d)
                        \/ Aside(t) \/ RenameRefused(t) \/ Close(t) \/ In(t)
                        \/ Remove(t) \/ Return(t)
  \/ Crash

Spec == Init /\ [][Next]_vars
-----------------------------------------------------------------------------
\* CXml::Read of the file.
Read == IF path["main"] = NoFile THEN "empty" ELSE data[path["main"]]

\* Paths, inodes and threads are what they are declared to be.
TypeOK ==
  /\ path \in [Paths -> Inodes \cup {NoFile}]
  /\ data \in [Inodes -> Docs \cup {"empty", "torn"}]
  /\ pc \in [Threads -> PCs]
  /\ fd \in [Threads -> Inodes \cup {NoFile}]
  /\ doc \in [Threads -> Docs] /\ last \in Docs
  /\ crashed \in 0..2 /\ overlap \in {"none", "past", "now"}

\* However often the program is ended in the middle of a Write, one of the
\* three files holds a whole document, unless two Writes overlapped and none has
\* made good for it since.
SomeCopyIsWhole ==
  overlap = "none" => \E p \in Paths : path[p] # NoFile /\ data[path[p]] \in Docs

\* Once Writes have returned and none is under way, Read returns what the last
\* one wrote.  The exceptions: Writes that overlapped may leave no file, but never
\* an older document, and the next Write that is alone takes effect whatever
\* they left.  A program that was ended inside a Write, at whatever step, has a
\* document to read again after its next complete Write, and from the one after
\* that on every Write takes effect.
WriteTakesEffect ==
  (\A t \in Threads : pc[t] = "idle") =>
    /\ crashed <= 1 /\ overlap = "none" => Read \in Docs
    /\ crashed = 0 /\ overlap = "none" => Read = last
    /\ crashed = 0 => Read \in {last, "empty"}

\* With no Write under way, the file is there and holds a document.
FileIsThere ==
  (\A t \in Threads : pc[t] = "idle") => Read \in Docs
=============================================================================
