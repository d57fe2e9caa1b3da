--------------------------- MODULE XmlStoreProofs ---------------------------
(***************************************************************************)
(* CXml::Write for any documents, any disk and any number of writers: the  *)
(* types, what a program that is ended in the middle of a Write finds when *)
(* it is started again, and which Writes take effect.                      *)
(***************************************************************************)
EXTENDS XmlStore, TLAPS

\* A thread that has not closed its file has one.
FileOpen ==
  \A t \in Threads : /\ pc[t] \in {"opened", "aside"} => fd[t] \in Inodes
                     /\ pc[t] \in {"idle", "closed"} => fd[t] = NoFile

\* What closing a file leaves at its inode: the document, or torn pieces when
\* something else was there.
LEMMA FlushWrites ==
  ASSUME TypeOK, NEW t \in Threads, fd[t] \in Inodes, Flush(t)
  PROVE  /\ fd' = [fd EXCEPT ![t] = NoFile]
         /\ data' \in [Inodes -> Docs \cup {"empty", "torn"}]
         /\ \A i \in Inodes : i # fd[t] => data'[i] = data[i]
         /\ data[fd[t]] \in {"empty", doc[t]} => data'[fd[t]] = doc[t]
<1>1. PICK d \in Docs \cup {"torn"} :
        /\ data' = [data EXCEPT ![fd[t]] = d]
        /\ data[fd[t]] \in {"empty", doc[t]} => d = doc[t]
  BY DEF Flush, TypeOK
<1> QED
  BY <1>1 DEF Flush, TypeOK

\* What File.open does, with the file it makes or truncates.
LEMMA OpenMakes ==
  ASSUME TypeOK, NEW t \in Threads, NEW d \in Docs, Open(t, d)
  PROVE  \E i \in Inodes :
           /\ \/ i = path["tmp"]
              \/ /\ path["tmp"] = NoFile
                 /\ i \notin {path[p] : p \in Paths} \cup {fd[u] : u \in Threads}
           /\ path' = [path EXCEPT !["tmp"] = i]
           /\ data' = [data EXCEPT ![i] = "empty"]
           /\ fd' = [fd EXCEPT ![t] = i]
BY DEF Open, Free, TypeOK, Paths

LEMMA TypesInit == Init => TypeOK /\ FileOpen
  BY DEF Init, TypeOK, FileOpen, PCs

LEMMA TypesStep == TypeOK /\ FileOpen /\ [Next]_vars => TypeOK' /\ FileOpen'
<1> SUFFICES ASSUME TypeOK, FileOpen, [Next]_vars PROVE TypeOK' /\ FileOpen'
  OBVIOUS
<1> USE DEF past
<1>1. ASSUME NEW t \in Threads, NEW d \in Docs, Open(t, d)
      PROVE  TypeOK' /\ FileOpen'
  <2>1. PICK i \in Inodes : /\ path' = [path EXCEPT !["tmp"] = i]
                            /\ data' = [data EXCEPT ![i] = "empty"]
                            /\ fd' = [fd EXCEPT ![t] = i]
    BY <1>1, OpenMakes
  <2>2. TypeOK'
    BY <1>1, <2>1 DEF Open, TypeOK, PCs
  <2>3. FileOpen'
    BY <1>1, <2>1 DEF Open, TypeOK, FileOpen
  <2> QED
    BY <2>2, <2>3
<1>2. ASSUME NEW t \in Threads, Aside(t) PROVE TypeOK' /\ FileOpen'
  <2>1. path' \in [Paths -> Inodes \cup {NoFile}]
    BY <1>2 DEF Aside, MoveAside, Rename, TypeOK, Paths
  <2> QED
    BY <1>2, <2>1 DEF Aside, TypeOK, FileOpen, PCs
<1>3. ASSUME NEW t \in Threads, RenameRefused(t) PROVE TypeOK' /\ FileOpen'
  BY <1>3 DEF RenameRefused, TypeOK, FileOpen, PCs
<1>4. ASSUME NEW t \in Threads, Close(t) PROVE TypeOK' /\ FileOpen'
  <2>1. fd[t] \in Inodes /\ Flush(t)
    BY <1>4 DEF Close, FileOpen
  <2>2. /\ data' \in [Inodes -> Docs \cup {"empty", "torn"}]
        /\ fd' = [fd EXCEPT ![t] = NoFile]
    BY <2>1, FlushWrites
  <2> QED
    BY <1>4, <2>2 DEF Close, TypeOK, FileOpen, PCs
<1>5. ASSUME NEW t \in Threads, In(t) PROVE TypeOK' /\ FileOpen'
  <2>1. path' \in [Paths -> Inodes \cup {NoFile}]
    BY <1>5 DEF In, MoveIn, Rename, TypeOK, Paths
  <2> QED
    BY <1>5, <2>1 DEF In, TypeOK, FileOpen, PCs
<1>6. ASSUME NEW t \in Threads, Remove(t) PROVE TypeOK' /\ FileOpen'
  <2>1. path' \in [Paths -> Inodes \cup {NoFile}]
    BY <1>6 DEF Remove, TypeOK, Paths
  <2> QED
    BY <1>6, <2>1 DEF Remove, TypeOK, FileOpen, PCs
<1>7. ASSUME NEW t \in Threads, Return(t) PROVE TypeOK' /\ FileOpen'
  <2>1. /\ data' \in [Inodes -> Docs \cup {"empty", "torn"}]
        /\ fd' = [fd EXCEPT ![t] = NoFile]
    <3>1. CASE fd[t] = NoFile
      BY <1>7, <3>1 DEF Return, TypeOK
    <3>2. CASE fd[t] # NoFile
      BY <1>7, <3>2, FlushWrites DEF Return, TypeOK
    <3> QED
      BY <3>1, <3>2
  <2>2. crashed' \in 0..2 /\ last' \in Docs /\ overlap' \in {"none", "past", "now"}
    BY <1>7 DEF Return, TypeOK
  <2> QED
    BY <1>7, <2>1, <2>2 DEF Return, TypeOK, FileOpen, PCs
<1>8. CASE Crash
  <2>1. PICK torn : data' = [i \in Inodes |-> IF i \in torn THEN "torn" ELSE data[i]]
    BY <1>8 DEF Crash
  <2> QED
    BY <1>8, <2>1 DEF Crash, TypeOK, FileOpen, PCs
<1>9. CASE UNCHANGED vars
  BY <1>9 DEF vars, TypeOK, FileOpen
<1> QED
  BY <1>1, <1>2, <1>3, <1>4, <1>5, <1>6, <1>7, <1>8, <1>9 DEF Next

LEMMA TypesAlways == Spec => [](TypeOK /\ FileOpen)
  BY TypesInit, TypesStep, PTL DEF Spec

\* Every path, file and thread of CXml::Write keeps its type, for any number of
\* writers that overtake each other and are ended at any step.
THEOREM StoreTypes == Spec => []TypeOK
  BY TypesAlways, PTL
-----------------------------------------------------------------------------
\* No two paths name one file.
Apart == \A p, q \in Paths : path[p] # NoFile /\ path[p] = path[q] => p = q

\* Who is inside Write, and who has moved the old file aside.
Busy(t)   == pc[t] # "idle"
Beyond(t) == pc[t] \in {"aside", "closed", "moved", "removed"}

\* Writes that have not overlapped are one Write, and those that overlap write
\* the same document.
AloneInv ==
  \A t, u \in Threads : Busy(t) /\ Busy(u) => /\ doc[t] = doc[u]
                                              /\ overlap # "now" => t = u

\* FileName.bak is there only while a Write is under way that will remove it,
\* once one has been completed since the program was last ended inside one.
BakInv ==
  /\ crashed <= 1 /\ path["bak"] # NoFile =>
       \E t \in Threads : pc[t] \in {"aside", "closed", "moved"}
  /\ overlap # "now" => \A t \in Threads : pc[t] = "removed" => path["bak"] = NoFile

\* What a Write that is alone and finds no FileName.bak has done so far: it closes
\* the file, moves it in, and what it wrote stands at FileName.
LoneInv ==
  overlap # "now" /\ crashed <= 1 =>
    \A t \in Threads :
      /\ pc[t] \in {"opened", "aside"} => /\ path["tmp"] # NoFile /\ fd[t] = path["tmp"]
                                         /\ data[path["tmp"]] = "empty"
      /\ pc[t] \in {"aside", "closed"} => path["main"] = NoFile
      /\ pc[t] = "closed" => path["tmp"] # NoFile /\ data[path["tmp"]] = doc[t]
      /\ pc[t] \in {"moved", "removed"} => /\ fd[t] = NoFile /\ path["main"] # NoFile
                                           /\ data[path["main"]] = doc[t]

\* What is being written to an inode ends as d.
Settled(i, d) == data[i] = d \/ \E u \in Threads : fd[u] = i

\* With no crash to make good for, whatever overlaps: an open file holds nothing
\* or the document; FileName.tmp and, from the first Write on that has moved the
\* old file aside, FileName end as the document; before that FileName is the last.
MixedInv ==
  crashed = 0 =>
    /\ \A t \in Threads : fd[t] # NoFile => data[fd[t]] \in {"empty", doc[t]}
    /\ path["tmp"] # NoFile =>
         \A t \in Threads : Busy(t) => Settled(path["tmp"], doc[t])
    /\ path["main"] # NoFile =>
         /\ \A t \in Threads : Beyond(t) => Settled(path["main"], doc[t])
         /\ (\A t \in Threads : ~Beyond(t)) => Settled(path["main"], last)

\* While nothing has overlapped, whatever stands at FileName or FileName.bak is
\* whole, and something does; the document being written is FileName.tmp, and
\* nothing else is ever truncated or torn.  (With FileName.tmp counted in, the claim would
\* not survive the next Open.)
WholeInv ==
  overlap = "none" =>
    /\ \A p \in {"main", "bak"} : path[p] # NoFile => data[path[p]] \in Docs
    /\ path["main"] # NoFile \/ path["bak"] # NoFile
    /\ \A t \in Threads :
         /\ fd[t] # NoFile => fd[t] = path["tmp"] /\ data[path["tmp"]] = "empty"
         /\ pc[t] = "closed" => path["tmp"] # NoFile /\ data[path["tmp"]] \in Docs
         /\ pc[t] \in {"moved", "removed"} => path["main"] # NoFile

StoreInv == Apart /\ AloneInv /\ BakInv /\ LoneInv /\ MixedInv /\ WholeInv

LEMMA StoreInit == Init => StoreInv
<1> SUFFICES ASSUME Init PROVE StoreInv
  OBVIOUS
<1>1. PICK i \in Inodes, d \in Docs :
        /\ path = [p \in Paths |-> IF p = "main" THEN i ELSE NoFile]
        /\ data = [j \in Inodes |-> IF j = i THEN d ELSE "empty"]
        /\ last = d
        /\ doc = [t \in Threads |-> d]
  BY DEF Init
<1>2. /\ path["main"] = i /\ path["tmp"] = NoFile /\ path["bak"] = NoFile /\ i # NoFile
      /\ data[i] = d
  BY <1>1, XmlStoreAssumption DEF Paths
<1>3. /\ \A t \in Threads : pc[t] = "idle" /\ fd[t] = NoFile
      /\ overlap = "none" /\ crashed = 0
  BY DEF Init
<1>4. Apart /\ AloneInv /\ BakInv /\ LoneInv
  BY <1>2, <1>3 DEF Apart, AloneInv, BakInv, LoneInv, Busy, Paths
<1>5. MixedInv /\ WholeInv
  BY <1>1, <1>2, <1>3 DEF MixedInv, WholeInv, Busy, Beyond, Settled
<1> QED
  BY <1>4, <1>5 DEF StoreInv

LEMMA OpenStep ==
  ASSUME TypeOK, FileOpen, StoreInv, NEW t \in Threads, NEW d \in Docs, Open(t, d)
  PROVE  StoreInv'
<1> USE DEF StoreInv
<1>1. PICK i \in Inodes :
        /\ \/ i = path["tmp"]
           \/ /\ path["tmp"] = NoFile
              /\ i \notin {path[p] : p \in Paths} \cup {fd[u] : u \in Threads}
        /\ path' = [path EXCEPT !["tmp"] = i]
        /\ data' = [data EXCEPT ![i] = "empty"]
        /\ fd' = [fd EXCEPT ![t] = i]
  BY OpenMakes
<1>2. /\ path'["main"] = path["main"] /\ path'["bak"] = path["bak"] /\ path'["tmp"] = i
      /\ i # path["main"] /\ i # path["bak"] /\ i # NoFile
  BY <1>1, XmlStoreAssumption DEF TypeOK, Apart, Paths
<1>3. /\ data'[i] = "empty" /\ \A j \in Inodes : j # i => data'[j] = data[j]
      /\ fd'[t] = i /\ \A u \in Threads : u # t => fd'[u] = fd[u]
  BY <1>1 DEF TypeOK
<1>4. /\ pc[t] = "idle" /\ pc'[t] = "opened" /\ \A u \in Threads : u # t => pc'[u] = pc[u]
      /\ doc'[t] = d /\ \A u \in Threads : u # t => doc'[u] = doc[u]
      /\ \A u \in Threads : Busy(u) => doc[u] = d
      /\ last' = last /\ crashed' = crashed
  BY DEF Open, TypeOK, Busy
<1>5. /\ overlap' # "now" => \A u \in Threads : u # t => pc[u] = "idle"
      /\ overlap' = "none" => overlap = "none"
  BY DEF Open
<1>6. path["main"] \in Inodes \cup {NoFile} /\ path["bak"] \in Inodes \cup {NoFile}
  BY DEF TypeOK, Paths
<1>7. Apart'
  BY <1>1, <1>2 DEF Apart, Paths, TypeOK
<1>8. AloneInv'
  BY <1>4, <1>5 DEF AloneInv, Busy
<1>9. BakInv'
  BY <1>2, <1>4, <1>5 DEF BakInv
<1>10. LoneInv'
  BY <1>2, <1>3, <1>4, <1>5 DEF LoneInv
<1>11. MixedInv'
  <2>1. ASSUME NEW u \in Threads, fd'[u] # NoFile, crashed = 0
        PROVE  data'[fd'[u]] \in {"empty", doc'[u]}
    <3>1. CASE fd'[u] = i
      BY <1>3, <3>1
    <3>2. CASE fd'[u] # i
      <4>1. u # t /\ fd'[u] = fd[u] /\ fd[u] \in Inodes /\ doc'[u] = doc[u]
        BY <1>3, <1>4, <2>1, <3>2 DEF TypeOK
      <4> QED
        BY <1>3, <2>1, <3>2, <4>1 DEF MixedInv
    <3> QED
      BY <3>1, <3>2
  <2>2. \A x : Settled(i, x)'
    BY <1>3 DEF Settled
  <2>3. ASSUME NEW x, path["main"] # NoFile, Settled(path["main"], x)
        PROVE  Settled(path["main"], x)'
    <3>1. data'[path["main"]] = data[path["main"]]
      BY <1>2, <1>3, <1>6, <2>3
    <3>2. ASSUME NEW u \in Threads, fd[u] = path["main"]
          PROVE  fd'[u] = path["main"]
      BY <1>3, <1>4, <2>3, <3>2 DEF FileOpen
    <3> QED
      BY <1>2, <2>3, <3>1, <3>2 DEF Settled
  <2>4. \A u \in Threads : Beyond(u)' => Beyond(u) /\ doc'[u] = doc[u]
    BY <1>4 DEF Beyond
  <2>5. (\A u \in Threads : ~Beyond(u)') => \A u \in Threads : ~Beyond(u)
    BY <1>4 DEF Beyond
  <2> QED
    BY <1>2, <1>4, <2>1, <2>2, <2>3, <2>4, <2>5 DEF MixedInv
<1>12. WholeInv'
  BY <1>2, <1>3, <1>4, <1>5, <1>6 DEF WholeInv, FileOpen
<1> QED
  BY <1>7, <1>8, <1>9, <1>10, <1>11, <1>12

LEMMA AsideStep ==
  ASSUME TypeOK, FileOpen, StoreInv, NEW t \in Threads, Aside(t)
  PROVE  StoreInv'
<1> USE DEF StoreInv
<1>1. /\ pc[t] = "opened" /\ pc'[t] = "aside" /\ \A u \in Threads : u # t => pc'[u] = pc[u]
      /\ UNCHANGED <<data, fd, doc, last, crashed, overlap>>
  BY DEF Aside, TypeOK, past
<1>2. /\ path'["tmp"] = path["tmp"]
      /\ IF path["main"] # NoFile /\ path["bak"] = NoFile
         THEN path'["main"] = NoFile /\ path'["bak"] = path["main"]
         ELSE path'["main"] = path["main"] /\ path'["bak"] = path["bak"]
  BY DEF Aside, MoveAside, Rename, TypeOK, Paths
<1>3. \A u \in Threads : Busy(u)' => Busy(u)
  BY <1>1 DEF Busy
<1>4. Apart'
  BY <1>2 DEF Apart, Paths
<1>5. AloneInv'
  BY <1>1, <1>3 DEF AloneInv
<1>6. BakInv'
  BY <1>1, <1>2 DEF BakInv, AloneInv, Busy
<1>7. ASSUME crashed <= 1, path["bak"] # NoFile
      PROVE  \E u \in Threads : u # t /\ pc[u] \in {"aside", "closed", "moved"}
  BY <1>1, <1>7 DEF BakInv
<1>8. LoneInv'
  <2>1. ASSUME overlap # "now", crashed <= 1
        PROVE  path'["main"] = NoFile /\ \A u \in Threads : u # t => pc[u] = "idle"
    <3>1. \A u \in Threads : u # t => pc[u] = "idle"
      BY <1>1, <2>1 DEF AloneInv, Busy
    <3>2. path["bak"] = NoFile
      BY <1>7, <2>1, <3>1
    <3> QED
      BY <1>2, <3>1, <3>2
  <2> QED
    BY <1>1, <1>2, <2>1 DEF LoneInv
<1>9. MixedInv'
  <2>1. ASSUME crashed = 0, path'["main"] # NoFile, NEW u \in Threads, Beyond(u)'
        PROVE  Settled(path["main"], doc[u])
    <3>1. CASE u # t
      BY <1>1, <1>2, <2>1, <3>1 DEF MixedInv, Beyond
    <3>2. CASE u = t
      <4>1. path["bak"] # NoFile
        BY <1>2, <2>1
      <4>2. PICK v \in Threads : v # t /\ pc[v] \in {"aside", "closed", "moved"}
        BY <1>7, <2>1, <4>1
      <4>3. doc[v] = doc[u]
        BY <1>1, <3>2, <4>2 DEF AloneInv, Busy
      <4> QED
        BY <1>2, <2>1, <4>2, <4>3 DEF MixedInv, Beyond
    <3> QED
      BY <3>1, <3>2
  <2>2. Beyond(t)'
    BY <1>1 DEF Beyond
  <2> QED
    BY <1>1, <1>2, <1>3, <2>1, <2>2 DEF MixedInv, Settled
<1>10. WholeInv'
  <2>1. overlap # "now" => \A u \in Threads : u # t => pc[u] = "idle"
    BY <1>1 DEF AloneInv, Busy
  <2> QED
    BY <1>1, <1>2, <2>1 DEF WholeInv
<1> QED
  BY <1>4, <1>5, <1>6, <1>8, <1>9, <1>10

LEMMA RefusedStep ==
  ASSUME TypeOK, FileOpen, StoreInv, NEW t \in Threads, RenameRefused(t)
  PROVE  StoreInv'
<1> USE DEF StoreInv
<1>1. /\ pc[t] = "aside" /\ pc'[t] = "moved" /\ \A u \in Threads : u # t => pc'[u] = pc[u]
      /\ UNCHANGED <<path, data, fd, doc, last, crashed, overlap>>
      /\ path["tmp"] = NoFile \/ path["main"] # NoFile
  BY DEF RenameRefused, TypeOK, past
<1>2. /\ \A u \in Threads : Busy(u)' => Busy(u)
      /\ \A u \in Threads : Beyond(u)' <=> Beyond(u)
  BY <1>1 DEF Busy, Beyond
<1>3. Apart' /\ AloneInv' /\ BakInv'
  BY <1>1, <1>2 DEF Apart, AloneInv, BakInv
<1>4. LoneInv'
  BY <1>1 DEF LoneInv
<1>5. MixedInv'
  BY <1>1, <1>2 DEF MixedInv, Settled
<1>6. WholeInv'
  <2>1. overlap = "none" => path["tmp"] # NoFile
    BY <1>1, XmlStoreAssumption DEF WholeInv, FileOpen
  <2> QED
    BY <1>1, <2>1 DEF WholeInv
<1> QED
  BY <1>3, <1>4, <1>5, <1>6

LEMMA CloseStep ==
  ASSUME TypeOK, FileOpen, StoreInv, NEW t \in Threads, Close(t)
  PROVE  StoreInv'
<1> USE DEF StoreInv
<1> DEFINE f == fd[t]
<1>1. /\ pc[t] = "aside" /\ pc'[t] = "closed" /\ \A u \in Threads : u # t => pc'[u] = pc[u]
      /\ UNCHANGED <<path, doc, last, crashed, overlap>>
      /\ path["tmp"] # NoFile /\ path["main"] = NoFile
  BY DEF Close, TypeOK, past
<1>2. f \in Inodes /\ Flush(t) /\ f # NoFile
  BY <1>1, XmlStoreAssumption DEF Close, FileOpen
<1>3. /\ fd'[t] = NoFile /\ \A u \in Threads : u # t => fd'[u] = fd[u]
      /\ \A i \in Inodes : i # f => data'[i] = data[i]
      /\ data[f] \in {"empty", doc[t]} => data'[f] = doc[t]
  BY <1>2, FlushWrites DEF TypeOK
<1>4. /\ \A u \in Threads : Busy(u)' => Busy(u)
      /\ \A u \in Threads : Beyond(u)' <=> Beyond(u)
      /\ Busy(t)
  BY <1>1 DEF Busy, Beyond
<1>5. Apart' /\ AloneInv' /\ BakInv'
  BY <1>1, <1>4 DEF Apart, AloneInv, BakInv
<1>6. overlap # "now" => \A u \in Threads : u # t => pc[u] = "idle"
  BY <1>4 DEF AloneInv, Busy
<1>7. LoneInv'
  BY <1>1, <1>2, <1>3, <1>6 DEF LoneInv
<1>8. MixedInv'
  <2> SUFFICES ASSUME crashed = 0 PROVE MixedInv'
    BY <1>1 DEF MixedInv
  <2>1. data'[f] = doc[t] /\ \A u \in Threads : Busy(u) => doc[u] = doc[t]
    BY <1>2, <1>3, <1>4 DEF MixedInv, AloneInv
  <2>2. ASSUME NEW u \in Threads, fd'[u] # NoFile
        PROVE  data'[fd'[u]] \in {"empty", doc'[u]}
    <3>1. u # t /\ fd'[u] = fd[u] /\ fd[u] \in Inodes /\ Busy(u)
      BY <1>3, <2>2 DEF TypeOK, FileOpen, Busy
    <3> QED
      BY <1>1, <1>3, <2>1, <2>2, <3>1 DEF MixedInv
  <2>3. ASSUME NEW u \in Threads, Busy(u)
        PROVE  Settled(path["tmp"], doc[u])'
    <3>1. path["tmp"] \in Inodes /\ Settled(path["tmp"], doc[u])
      BY <1>1, <2>3 DEF MixedInv, TypeOK, Paths
    <3>2. CASE path["tmp"] = f
      BY <1>1, <2>1, <2>3, <3>2 DEF Settled
    <3>3. CASE path["tmp"] # f
      BY <1>1, <1>3, <3>1, <3>3 DEF Settled
    <3> QED
      BY <3>2, <3>3
  <2> QED
    BY <1>1, <1>4, <2>2, <2>3 DEF MixedInv
<1>9. WholeInv'
  <2> SUFFICES ASSUME overlap = "none" PROVE WholeInv'
    BY <1>1 DEF WholeInv
  <2>1. f = path["tmp"] /\ data'[f] = doc[t] /\ doc[t] \in Docs
    BY <1>2, <1>3 DEF WholeInv, TypeOK
  <2>2. \A p \in {"main", "bak"} : path[p] # NoFile => path[p] \in Inodes /\ path[p] # f
    BY <1>2, <2>1 DEF Apart, Paths, TypeOK
  <2>3. \A u \in Threads : fd'[u] = NoFile
    BY <1>3, <1>6 DEF FileOpen
  <2> QED
    BY <1>1, <1>3, <1>6, <2>1, <2>2, <2>3 DEF WholeInv
<1> QED
  BY <1>5, <1>7, <1>8, <1>9

LEMMA InStep ==
  ASSUME TypeOK, FileOpen, StoreInv, NEW t \in Threads, In(t)
  PROVE  StoreInv'
<1> USE DEF StoreInv
<1>1. /\ pc[t] = "closed" /\ pc'[t] = "moved" /\ \A u \in Threads : u # t => pc'[u] = pc[u]
      /\ UNCHANGED <<data, fd, doc, last, crashed, overlap>>
  BY DEF In, TypeOK, past
<1>2. /\ path'["bak"] = path["bak"]
      /\ IF path["tmp"] # NoFile /\ path["main"] = NoFile
         THEN path'["main"] = path["tmp"] /\ path'["tmp"] = NoFile
         ELSE path'["main"] = path["main"] /\ path'["tmp"] = path["tmp"]
  BY DEF In, MoveIn, Rename, TypeOK, Paths
<1>3. /\ \A u \in Threads : Busy(u)' => Busy(u)
      /\ \A u \in Threads : Beyond(u)' <=> Beyond(u)
      /\ \A u \in Threads : Beyond(u) => Busy(u)
      /\ Beyond(t) /\ Busy(t)
  BY <1>1 DEF Busy, Beyond
<1>4. Apart'
  BY <1>2 DEF Apart, Paths
<1>5. AloneInv' /\ BakInv'
  BY <1>1, <1>2, <1>3 DEF AloneInv, BakInv
<1>6. overlap # "now" => \A u \in Threads : u # t => pc[u] = "idle"
  BY <1>3 DEF AloneInv, Busy
<1>7. fd[t] = NoFile
  BY <1>1 DEF FileOpen
<1>8. LoneInv'
  BY <1>1, <1>2, <1>6, <1>7 DEF LoneInv
<1>9. MixedInv'
  BY <1>1, <1>2, <1>3 DEF MixedInv, Settled
<1>10. WholeInv'
  BY <1>1, <1>2, <1>6, <1>7, XmlStoreAssumption DEF WholeInv, FileOpen
<1> QED
  BY <1>4, <1>5, <1>8, <1>9, <1>10

LEMMA RemoveStep ==
  ASSUME TypeOK, FileOpen, StoreInv, NEW t \in Threads, Remove(t)
  PROVE  StoreInv'
<1> USE DEF StoreInv
<1>1. /\ pc[t] = "moved" /\ pc'[t] = "removed" /\ \A u \in Threads : u # t => pc'[u] = pc[u]
      /\ UNCHANGED <<data, fd, doc, last, crashed, overlap>>
  BY DEF Remove, TypeOK, past
<1>2. path'["main"] = path["main"] /\ path'["tmp"] = path["tmp"] /\ path'["bak"] = NoFile
  BY DEF Remove, TypeOK, Paths
<1>3. /\ \A u \in Threads : Busy(u)' => Busy(u)
      /\ \A u \in Threads : Beyond(u)' <=> Beyond(u)
  BY <1>1 DEF Busy, Beyond
<1>4. Apart'
  BY <1>2 DEF Apart, Paths
<1>5. AloneInv' /\ BakInv'
  BY <1>1, <1>2, <1>3 DEF AloneInv, BakInv
<1>6. LoneInv'
  BY <1>1, <1>2 DEF LoneInv
<1>7. MixedInv'
  BY <1>1, <1>2, <1>3 DEF MixedInv, Settled
<1>8. WholeInv'
  BY <1>1, <1>2 DEF WholeInv
<1> QED
  BY <1>4, <1>5, <1>6, <1>7, <1>8

\* What Return does to the files: nothing, or the document reaches the one that
\* is still open.
LEMMA ReturnWrites ==
  ASSUME TypeOK, FileOpen, NEW t \in Threads, Return(t)
  PROVE  /\ fd'[t] = NoFile /\ \A u \in Threads : u # t => fd'[u] = fd[u]
         /\ \A i \in Inodes : i # fd[t] => data'[i] = data[i]
         /\ fd[t] # NoFile /\ data[fd[t]] \in {"empty", doc[t]} => data'[fd[t]] = doc[t]
<1>1. CASE fd[t] = NoFile
  BY <1>1 DEF Return
<1>2. CASE fd[t] # NoFile
  <2>1. fd[t] \in Inodes /\ Flush(t)
    BY <1>2 DEF Return, TypeOK
  <2> QED
    BY <2>1, FlushWrites DEF TypeOK
<1> QED
  BY <1>1, <1>2

LEMMA ReturnStep ==
  ASSUME TypeOK, FileOpen, StoreInv, NEW t \in Threads, Return(t)
  PROVE  StoreInv'
<1> USE DEF StoreInv
<1> DEFINE f == fd[t]
<1>1. /\ pc[t] = "removed" /\ pc'[t] = "idle" /\ \A u \in Threads : u # t => pc'[u] = pc[u]
      /\ UNCHANGED <<path, doc>> /\ last' = doc[t]
  BY DEF Return, TypeOK
<1>2. /\ fd'[t] = NoFile /\ \A u \in Threads : u # t => fd'[u] = fd[u]
      /\ \A i \in Inodes : i # f => data'[i] = data[i]
      /\ f # NoFile /\ data[f] \in {"empty", doc[t]} => data'[f] = doc[t]
  BY ReturnWrites
<1>3. /\ \A u \in Threads : Busy(u)' => Busy(u) /\ u # t
      /\ \A u \in Threads : Beyond(u)' <=> Beyond(u) /\ u # t
      /\ Busy(t) /\ Beyond(t)
  BY <1>1 DEF Busy, Beyond
<1>4. overlap # "now" => \A u \in Threads : u # t => pc[u] = "idle"
  BY <1>3 DEF AloneInv, Busy
<1>5. /\ crashed' = IF overlap # "now" /\ crashed > 0 THEN crashed - 1 ELSE crashed
      /\ overlap' = IF overlap = "past" /\ crashed <= 1 THEN "none" ELSE overlap
      /\ crashed \in 0..2
  BY DEF Return, TypeOK
<1>6. overlap' # "now" => overlap # "now" /\ \A u \in Threads : pc'[u] = "idle"
  BY <1>1, <1>4, <1>5
<1>7. Apart' /\ LoneInv'
  BY <1>1, <1>6 DEF Apart, LoneInv
<1>8. AloneInv'
  BY <1>1, <1>3, <1>6 DEF AloneInv, Busy
<1>9. BakInv'
  <2>1. CASE overlap = "now"
    BY <1>1, <1>5, <2>1 DEF BakInv
  <2>2. CASE overlap # "now"
    BY <1>1, <1>6, <2>2 DEF BakInv
  <2> QED
    BY <2>1, <2>2
<1>10. MixedInv'
  <2> SUFFICES ASSUME crashed' = 0 PROVE MixedInv'
    BY DEF MixedInv
  <2>1. CASE crashed = 0
    <3>1. /\ f # NoFile => data'[f] = doc[t]
          /\ \A u \in Threads : Busy(u) => doc[u] = doc[t]
      BY <1>2, <1>3, <2>1 DEF MixedInv, AloneInv
    <3>2. ASSUME NEW i \in Inodes, Settled(i, doc[t])
          PROVE  Settled(i, doc[t])'
      <4>1. CASE i = f
        BY <1>1, <3>1, <4>1, XmlStoreAssumption DEF Settled
      <4>2. CASE i # f
        BY <1>1, <1>2, <3>2, <4>2 DEF Settled
      <4> QED
        BY <4>1, <4>2
    <3>3. ASSUME NEW u \in Threads, fd'[u] # NoFile
          PROVE  data'[fd'[u]] \in {"empty", doc'[u]}
      <4>1. u # t /\ fd'[u] = fd[u] /\ fd[u] \in Inodes /\ Busy(u)
        BY <1>2, <3>3 DEF TypeOK, FileOpen, Busy
      <4> QED
        BY <1>1, <1>2, <2>1, <3>1, <3>3, <4>1 DEF MixedInv
    <3>4. path["tmp"] # NoFile => path["tmp"] \in Inodes /\ Settled(path["tmp"], doc[t])
      BY <1>3, <2>1 DEF MixedInv, TypeOK, Paths
    <3>5. path["main"] # NoFile => path["main"] \in Inodes /\ Settled(path["main"], doc[t])
      BY <1>3, <2>1 DEF MixedInv, TypeOK, Paths
    <3>6. \A u \in Threads : Beyond(u)' => doc[u] = doc[t]
      BY <1>3, <3>1 DEF Beyond, Busy
    <3> QED
      BY <1>1, <1>3, <3>1, <3>2, <3>3, <3>4, <3>5, <3>6 DEF MixedInv, Settled
  <2>2. CASE crashed # 0
    <3>1. crashed = 1 /\ overlap # "now"
      BY <1>5, <2>2
    <3>2. f = NoFile /\ path["main"] # NoFile /\ data[path["main"]] = doc[t]
      BY <1>1, <3>1 DEF LoneInv
    <3>3. data'[path["main"]] = doc[t]
      BY <1>2, <3>2, XmlStoreAssumption DEF TypeOK, Paths
    <3>4. \A u \in Threads : pc'[u] = "idle" /\ fd'[u] = NoFile
      BY <1>1, <1>2, <1>4, <3>1 DEF FileOpen
    <3> QED
      BY <1>1, <3>3, <3>4 DEF MixedInv, Settled, Busy, Beyond
  <2> QED
    BY <2>1, <2>2
<1>11. WholeInv'
  <2> SUFFICES ASSUME overlap' = "none" PROVE WholeInv'
    BY DEF WholeInv
  <2>1. /\ overlap # "now"
        /\ \A u \in Threads : pc'[u] = "idle" /\ fd'[u] = NoFile
    BY <1>1, <1>2, <1>4, <1>5 DEF FileOpen
  <2>2. /\ \A p \in {"main", "bak"} : path[p] # NoFile => data[path[p]] \in Docs
        /\ path["main"] # NoFile \/ path["bak"] # NoFile
        /\ \A p \in {"main", "bak"} : path[p] # NoFile => path[p] # f
    <3>1. CASE overlap = "none"
      BY <3>1 DEF WholeInv, Apart, Paths
    <3>2. CASE overlap # "none"
      <4>1. overlap = "past" /\ crashed <= 1
        BY <1>5, <3>2
      <4>2. f = NoFile /\ path["main"] # NoFile /\ data[path["main"]] = doc[t]
        BY <1>1, <4>1 DEF LoneInv
      <4>3. path["bak"] = NoFile /\ doc[t] \in Docs
        BY <1>1, <2>1 DEF BakInv, TypeOK
      <4> QED
        BY <4>2, <4>3
    <3> QED
      BY <3>1, <3>2
  <2>3. \A p \in {"main", "bak"} : path[p] # NoFile => data'[path[p]] = data[path[p]]
    BY <1>2, <2>2 DEF TypeOK, Paths
  <2> QED
    BY <1>1, <2>1, <2>2, <2>3 DEF WholeInv
<1> QED
  BY <1>7, <1>8, <1>9, <1>10, <1>11

LEMMA CrashStep ==
  ASSUME TypeOK, FileOpen, StoreInv, Crash
  PROVE  StoreInv'
<1> USE DEF StoreInv
<1>1. PICK torn : /\ torn \subseteq {fd[u] : u \in Threads}
                  /\ data' = [i \in Inodes |-> IF i \in torn THEN "torn" ELSE data[i]]
  BY DEF Crash
<1>2. /\ \A u \in Threads : pc'[u] = "idle" /\ fd'[u] = NoFile
      /\ UNCHANGED <<path, doc, last, overlap>> /\ crashed' = 2
  BY DEF Crash
<1>3. Apart' /\ AloneInv' /\ BakInv' /\ LoneInv' /\ MixedInv'
  BY <1>2 DEF Apart, AloneInv, BakInv, LoneInv, MixedInv, Busy
<1>4. WholeInv'
  <2> SUFFICES ASSUME overlap = "none" PROVE WholeInv'
    BY <1>2 DEF WholeInv
  <2>1. \A p \in {"main", "bak"} : path[p] # NoFile => path[p] \in Inodes /\ path[p] \notin torn
    BY <1>1 DEF WholeInv, Apart, TypeOK, Paths
  <2> QED
    BY <1>1, <1>2, <2>1 DEF WholeInv
<1> QED
  BY <1>3, <1>4

LEMMA StoreNext ==
  ASSUME TypeOK, FileOpen, StoreInv, [Next]_vars
  PROVE  StoreInv'
<1>1. CASE UNCHANGED vars
  BY <1>1 DEF vars, StoreInv, Apart, AloneInv, BakInv, LoneInv, MixedInv, WholeInv,
              Busy, Beyond, Settled
<1> QED
  BY <1>1, OpenStep, AsideStep, RefusedStep, CloseStep, InStep, RemoveStep, ReturnStep,
     CrashStep DEF Next

LEMMA StoreAlways == Spec => [](TypeOK /\ FileOpen /\ StoreInv)
<1>1. TypeOK /\ FileOpen /\ StoreInv /\ [Next]_vars => StoreInv'
  BY StoreNext
<1> QED
  BY <1>1, StoreInit, TypesAlways, PTL DEF Spec

\* However often the program is ended inside CXml::Write, the three files do not
\* lose the last whole document between them, as long as no Writes overlap; and
\* after some did, from the next on that is alone and not kept from its effect by an
\* earlier end.
THEOREM CopySurvives == Spec => []SomeCopyIsWhole
<1>1. StoreInv => SomeCopyIsWhole
  BY DEF StoreInv, WholeInv, SomeCopyIsWhole, Paths
<1> QED
  BY <1>1, StoreAlways, PTL

\* Read returns what the last Write wrote when it was alone, whatever Writes that
\* overlapped before it left; those leave what they wrote or no file.  After an
\* end inside a Write, Read returns what was written again from the second
\* complete Write on: what the first one is kept from by a FileName.bak that was
\* left behind, it clears away.
THEOREM WriteEffective == Spec => []WriteTakesEffect
<1>1. TypeOK /\ FileOpen /\ StoreInv => WriteTakesEffect
  <2> SUFFICES ASSUME TypeOK, FileOpen, StoreInv, \A t \in Threads : pc[t] = "idle"
               PROVE  /\ crashed <= 1 /\ overlap = "none" => Read \in Docs
                      /\ crashed = 0 /\ overlap = "none" => Read = last
                      /\ crashed = 0 => Read \in {last, "empty"}
    BY DEF WriteTakesEffect
  <2>1. \A t \in Threads : fd[t] = NoFile /\ ~Beyond(t)
    BY DEF FileOpen, Beyond
  <2>2. crashed <= 1 /\ overlap = "none" => path["main"] # NoFile /\ data[path["main"]] \in Docs
    BY DEF StoreInv, WholeInv, BakInv
  <2>3. crashed = 0 /\ path["main"] # NoFile => data[path["main"]] = last
    BY <2>1 DEF StoreInv, MixedInv, Settled
  <2>4. crashed \in 0..2
    BY DEF TypeOK
  <2> QED
    BY <2>2, <2>3, <2>4 DEF Read
<1> QED
  BY <1>1, StoreAlways, PTL
=============================================================================
