----------------------------- MODULE FolderSink -----------------------------
(***************************************************************************)
(* folder_sink.go over a file system with folders, files and symbolic      *)
(* links, as the destination may hold of an older version. Links are       *)
(* followed where they are the folder of a path, never at its end. A       *)
(* handle stays with its file when that is removed, so that data can be    *)
(* written that nobody will ever read.                                     *)
(*                                                                         *)
(* The caller is any program that makes one call after the other, with     *)
(* entries whose WriteOffset it knows the file has the data up to.         *)
(* Windows has no links; Symlink writes a file there.                      *)
(***************************************************************************)
EXTENDS EntryFile, Sequences, FiniteSets

CONSTANTS
  Folders,       \* names at the top of the destination
  Names,         \* names below them
  Ignored,       \* those of ignoredNames
  Elsewhere,     \* the target of a link that leads to nothing
  OlderTrees,    \* what the destination may hold before
  Platforms,     \* what onWindows may be
  MaxLen,        \* bound on the length of files
  MaxFaults      \* bound on calls of the operating system that fail

Paths == (Folders \X Names) \cup {<<f>> : f \in Folders}

Nowhere == <<>>
Lengths == 0 .. MaxLen

Node(kind) == [kind |-> kind, file |-> Missing, to |-> Elsewhere]
Nothing == Node("none")
Folder == Node("dir")
Link(to) == [Node("link") EXCEPT !.to = to]
File(f) == [Node("file") EXCEPT !.file = f]

Trees == [Paths -> [kind : {"none", "dir", "link", "file"},
                    file : EntryFiles, to : Folders \cup {Elsewhere}]]

IsTree(t) == \A p \in Folders \X Names : t[p].kind # "none" => t[<<p[1]>>].kind = "dir"

ASSUME ConstantsAssumption ==
  /\ IsFiniteSet(Folders) /\ Folders # {} /\ Elsewhere \notin Folders
  /\ Ignored \subseteq Names
  /\ \A t \in OlderTrees : t \in Trees /\ IsTree(t)
  /\ \A t \in OlderTrees, p \in Paths : t[p].kind # "file" => t[p].file = Missing
  /\ Platforms \subseteq BOOLEAN
  /\ MaxLen \in Nat /\ MaxFaults \in Nat

VARIABLES
  tree,       \* what is at each path
  writer,     \* fs.writer: where its file is, its position, whether f is not nil,
              \* and WriteOffset of its entry
  user,       \* the writer the caller was given last: none, nop, or fs.writer
  handles,    \* how many files the program has open
  onWindows,
  out,        \* the last call: what it was for, its path, whether it succeeded
  faults

vars == <<tree, writer, user, handles, onWindows, out, faults>>

NoWriter == [home |-> Nowhere, pos |-> 0, open |-> FALSE, woff |-> 0]
Done(op, p) == [op |-> op, path |-> p, ok |-> TRUE]
Failed(op, p) == [op |-> op, path |-> p, ok |-> FALSE]

Init ==
  /\ tree \in OlderTrees
  /\ writer = NoWriter
  /\ user = "none"
  /\ handles = 0
  /\ onWindows \in Platforms
  /\ out = Failed("none", Nowhere)
  /\ faults = 0

Fault == faults < MaxFaults /\ faults' = faults + 1

-----------------------------------------------------------------------------
(***************************************************************************)
(* The file system.                                                        *)
(***************************************************************************)

Tops(t) == [f \in Folders |-> t[<<f>>]]

\* the folder a name leads to, through links; a link at the end is a loop
Resolved(tops, f) ==
  LET after[k \in 0 .. Cardinality(Folders)] ==
        IF k = 0 THEN f
        ELSE LET g == after[k - 1] IN
             IF g \in Folders /\ tops[g].kind = "link" THEN tops[g].to ELSE g
  IN IF tops[f].kind = "link" THEN after[Cardinality(Folders)] ELSE f

\* the place a path stands for, Nowhere if its folder is none
Home(t, p) ==
  IF Len(p) < 2 THEN p
  ELSE LET g == Resolved(Tops(t), p[1]) IN
       IF g \in Folders /\ t[<<g>>].kind = "dir" THEN <<g, p[2]>> ELSE Nowhere

\* Lstat
At(t, p) == IF Home(t, p) = Nowhere THEN Nothing ELSE t[Home(t, p)]

\* slip: whatever is in the way of the folder is removed
WithParentForced(t, p) == IF Len(p) = 2 THEN [t EXCEPT ![<<p[1]>>] = Folder] ELSE t

\* MkdirAll of the folder of a path: only what is not there at all is made
WithParent(t, p) ==
  IF Len(p) = 2 /\ t[<<p[1]>>].kind = "none" THEN [t EXCEPT ![<<p[1]>>] = Folder] ELSE t

\* slip: what is below a folder stays
GoneAlone(h) == Paths \cap {h}

\* RemoveAll of a place; Remove, if it is not a folder
Gone(h) == {q \in Paths : h \in {q, <<q[1]>>}}

Without(t, gone) == [q \in Paths |-> IF q \in gone THEN Nothing ELSE t[q]]

\* a handle stays with a file that is removed
Unlinked(w, gone) == IF w.home \in gone THEN [w EXCEPT !.home = Nowhere] ELSE w

Ignores(p) == p[Len(p)] \in Ignored

-----------------------------------------------------------------------------
(***************************************************************************)
(* Mkdir: what is not a folder makes way for one.                          *)
(***************************************************************************)

\* slip: a link to a folder is taken for one
IsDirByStat(t, p) ==
  IF Len(p) = 1 THEN Home(t, <<p[1], p[1]>>) # Nowhere ELSE At(t, p).kind = "dir"

IsDir(t, p) == At(t, p).kind = "dir"

InTheWay(t, p) == IF At(t, p).kind = "none" \/ IsDir(t, p) THEN {} ELSE Gone(Home(t, p))

Cleared(p) == Without(tree, InTheWay(tree, p))

Mkdir(p) ==
  /\ ~Ignores(p)
  /\ LET t == WithParent(Cleared(p), p) IN
     /\ Home(t, p) # Nowhere
     /\ tree' = IF IsDir(tree, p) THEN tree ELSE [t EXCEPT ![Home(t, p)] = Folder]
  /\ writer' = Unlinked(writer, InTheWay(tree, p))
  /\ out' = Done("dir", p)
  /\ UNCHANGED <<user, handles, onWindows, faults>>

\* after what was in the way is gone
MkdirFails(p) ==
  /\ ~Ignores(p) /\ Fault
  /\ tree' \in {Cleared(p), WithParent(Cleared(p), p)}
  /\ writer' = Unlinked(writer, InTheWay(tree, p))
  /\ out' = Failed("dir", p)
  /\ UNCHANGED <<user, handles, onWindows>>

(***************************************************************************)
(* createFile: the folder is made, a link makes way, a file is opened as   *)
(* it is. A folder does not make way.                                      *)
(***************************************************************************)

Replaced(t, p) == IF At(t, p).kind = "link" THEN Gone(Home(t, p)) ELSE {}

\* where p is once its folder is there, Nowhere if it cannot be a file
FileHome(p) ==
  LET t == WithParent(tree, p) IN IF At(t, p).kind = "dir" THEN Nowhere ELSE Home(t, p)

Opened(p) == Without(WithParent(tree, p), Replaced(tree, p))

FileAt(p) == Created(Opened(p)[FileHome(p)].file)

WithFile(p, f) == [Opened(p) EXCEPT ![FileHome(p)] = File(f)]

\* OpenFile is not reached, or fails
OpenFails(p) ==
  /\ tree' \in {tree, WithParent(tree, p), Opened(p)}
  /\ UNCHANGED handles

\* Chmod, Seek and Truncate may fail: nothing refers to the handle, and
\* nothing closes it.
OpenedThenFails(p) ==
  /\ FileHome(p) # Nowhere
  /\ tree' = WithFile(p, FileAt(p))
  /\ handles' = handles + 1

(***************************************************************************)
(* GetWriter: the file is opened and cut, then the writer returned last is *)
(* closed. An ignored entry gets a writer that does nothing, not even move *)
(* WriteOffset, and the last one stays open.                               *)
(***************************************************************************)

\* entryWriter.Close, of a writer that may be closed already
Closes(w) == IF w.open THEN 1 ELSE 0

\* slip: the writer returned last is left to its caller
FormerLeftOpen(w) == 0

\* the files fs.Close closes in GetWriter
FormerClosed(w) == Closes(w)

GetNopWriter(p) ==
  /\ Ignores(p)
  /\ user' = "nop"
  /\ out' = Failed("none", p)
  /\ UNCHANGED <<tree, writer, handles, onWindows, faults>>

\* slip: Truncate is left to Preallocate
CutNot(p, writeOffset) == WithFile(p, WriterAtUntruncated(FileAt(p), writeOffset))

Cut(p, writeOffset) == WithFile(p, WriterAt(FileAt(p), writeOffset))

GetWriter(p, writeOffset) ==
  /\ ~Ignores(p)
  /\ FileHome(p) # Nowhere
  /\ writeOffset <= FileAt(p).good
  /\ tree' = Cut(p, writeOffset)
  /\ writer' = [home |-> FileHome(p), pos |-> writeOffset, open |-> TRUE,
              woff |-> writeOffset]
  /\ handles' = handles + 1 - FormerClosed(writer)
  /\ user' = "entry"
  /\ out' = Done("file", p)
  /\ UNCHANGED <<onWindows, faults>>

GetWriterFails(p) ==
  /\ ~Ignores(p)
  /\ \/ Fault /\ (OpenFails(p) \/ OpenedThenFails(p))
     \/ FileHome(p) = Nowhere /\ UNCHANGED <<tree, handles, faults>>
  /\ out' = Failed("file", p)
  /\ UNCHANGED <<writer, user, onWindows>>

(***************************************************************************)
(* Preallocate: the file is opened, made as long as the entry and closed.  *)
(***************************************************************************)
Preallocate(p, size) ==
  /\ ~Ignores(p)
  /\ FileHome(p) # Nowhere
  /\ tree' = WithFile(p, Preallocated(FileAt(p), size))
  /\ out' = Done("file", p)
  /\ UNCHANGED <<writer, user, handles, onWindows, faults>>

PreallocateFails(p) ==
  /\ ~Ignores(p) /\ Fault
  /\ \/ OpenFails(p)
     \/ At(tree, p).kind # "none" /\ OpenedThenFails(p)
     \/ /\ FileHome(p) # Nowhere
        /\ \E n \in Lengths : tree' = WithFile(p, Preallocated(FileAt(p), n))
        /\ UNCHANGED handles
  /\ out' = Failed("file", p)
  /\ UNCHANGED <<writer, user, onWindows>>

(***************************************************************************)
(* Symlink: whatever is there makes way, a folder with all it holds. Where *)
(* a link leads only matters at the top, where it may be taken for a       *)
(* folder.                                                                 *)
(***************************************************************************)
Targets(p) == IF Len(p) = 1 THEN Folders \cup {Elsewhere} ELSE {Elsewhere}

Symlink(p, to) ==
  /\ ~onWindows /\ ~Ignores(p)
  /\ LET gone == Gone(Home(tree, p))
         t == WithParent(Without(tree, gone), p) IN
     /\ Home(t, p) # Nowhere
     /\ tree' = [t EXCEPT ![Home(t, p)] = Link(to)]
     /\ writer' = Unlinked(writer, gone)
  /\ out' = Done("link", p)
  /\ UNCHANGED <<user, handles, onWindows, faults>>

SymlinkFails(p) ==
  /\ ~onWindows /\ ~Ignores(p) /\ Fault
  /\ \E gone \in SUBSET Gone(Home(tree, p)) :
       /\ IsTree(Without(tree, gone))
       /\ tree' \in {Without(tree, gone), WithParent(Without(tree, gone), p)}
       /\ writer' = Unlinked(writer, gone)
  /\ out' = Failed("link", p)
  /\ UNCHANGED <<user, handles, onWindows>>

\* GetWriter, one Write that takes n units, and Close. The entry is a new one.
SymlinkAsText(p, n) ==
  /\ onWindows /\ ~Ignores(p)
  /\ FileHome(p) # Nowhere
  /\ tree' = [Cut(p, 0) EXCEPT ![FileHome(p)].file = Appended(@, 0, 0, n)]
  /\ writer' = NoWriter
  /\ handles' = handles + 1 - FormerClosed(writer) - 1
  /\ \/ out' = Done("file", p) /\ UNCHANGED faults
     \/ out' = Failed("file", p) /\ Fault
  /\ UNCHANGED <<user, onWindows>>

-----------------------------------------------------------------------------
(***************************************************************************)
(* The writer. A write may be short, with an error. A closed writer takes  *)
(* nothing and WriteOffset stays; the writer of an ignored entry takes     *)
(* everything and WriteOffset stays as well.                               *)
(***************************************************************************)

\* slip: a short write is counted in full
CountedAsAsked(n, m) == n

Counted(n, m) == m

Write(n, m) ==
  /\ user = "entry" /\ writer.open
  /\ tree' = IF writer.home = Nowhere THEN tree
             ELSE [tree EXCEPT ![writer.home].file = Appended(@, writer.pos, writer.woff, m)]
  /\ writer' = [writer EXCEPT !.pos = @ + m, !.woff = @ + Counted(n, m)]
  /\ writer'.woff <= MaxLen
  /\ out' = Failed("write", Nowhere)
  /\ IF m = n THEN UNCHANGED faults ELSE Fault
  /\ UNCHANGED <<user, handles, onWindows>>

CloseWriter ==
  /\ user = "entry"
  /\ writer' = NoWriter
  /\ handles' = handles - Closes(writer)
  /\ out' = Failed("none", Nowhere)
  /\ UNCHANGED <<tree, user, onWindows, faults>>

(***************************************************************************)
(* Close and Nuke. Close drops the handle even when closing it failed, and *)
(* Nuke then leaves everything where it is.                                *)
(***************************************************************************)
Close ==
  /\ writer' = NoWriter
  /\ handles' = handles - Closes(writer)
  /\ user' = IF user = "entry" THEN "none" ELSE user
  /\ out' = Failed("none", Nowhere)
  /\ UNCHANGED <<tree, onWindows, faults>>

Nuke ==
  /\ tree' = Without(tree, Paths)
  /\ writer' = NoWriter
  /\ handles' = handles - Closes(writer)
  /\ user' = "none"
  /\ out' = Done("nuke", Nowhere)
  /\ UNCHANGED <<onWindows, faults>>

NukeFails ==
  /\ Fault
  /\ \E gone \in SUBSET {p \in Paths : tree[p] # Nothing} :
       /\ IsTree(Without(tree, gone))
       /\ tree' = Without(tree, gone)
  /\ writer' = NoWriter
  /\ handles' = handles - Closes(writer)
  /\ user' = "none"
  /\ out' = Failed("nuke", Nowhere)
  /\ UNCHANGED <<onWindows>>

-----------------------------------------------------------------------------
Call(p) ==
  \/ Mkdir(p) \/ MkdirFails(p)
  \/ GetNopWriter(p) \/ GetWriterFails(p) \/ PreallocateFails(p)
  \/ SymlinkFails(p)
  \/ \E n \in Lengths : GetWriter(p, n) \/ Preallocate(p, n) \/ SymlinkAsText(p, n)
  \/ \E to \in Targets(p) : Symlink(p, to)

Next ==
  \/ \E p \in Paths : Call(p)
  \/ \E n \in Lengths : \E m \in 0 .. n : Write(n, m)
  \/ CloseWriter \/ Close \/ Nuke \/ NukeFails

Spec == Init /\ [][Next]_vars

-----------------------------------------------------------------------------
TypeOK ==
  /\ tree \in Trees /\ IsTree(tree)
  /\ writer \in [home : Paths \cup {Nowhere}, pos : Nat, open : BOOLEAN, woff : Nat]
  /\ handles \in Nat /\ faults \in 0 .. MaxFaults
  /\ user \in {"none", "nop", "entry"}
  /\ onWindows \in BOOLEAN
  /\ out \in [op : {"none", "dir", "link", "file", "write", "nuke"},
              path : Paths \cup {Nowhere}, ok : BOOLEAN]

(***************************************************************************)
(* The WriteOffset an extractor persists is the place of its writer in the *)
(* file, and the file has the data up to there, unless the program removed *)
(* the file itself: whatever was at the path before, whichever calls for   *)
(* other paths come between two writes, and whatever failed.               *)
(***************************************************************************)
WriterInStep ==
  writer.open =>
    /\ writer.pos = writer.woff
    /\ writer.home # Nowhere =>
         tree[writer.home].kind = "file" /\ tree[writer.home].file.good = writer.woff

(***************************************************************************)
(* "Does whatever it take to make sure the filesystem entry is of the      *)
(* right type" (README.md:121): after a call that succeeded there is at    *)
(* the path what the call makes, also when that path leads through a link. *)
(***************************************************************************)
RightType == out.ok /\ out.op # "nuke" => At(tree, out.path).kind = out.op

(***************************************************************************)
(* A call takes nothing away but what is at its own place, what is below a *)
(* folder that it replaces by a link, and everything for Nuke: no data of  *)
(* another entry is lost to a folder that has to be made or to a file that *)
(* is in the way.                                                          *)
(***************************************************************************)
MayLose ==
  CASE out'.op = "nuke"  -> Paths
    [] out'.op = "write" -> {writer.home}
    [] out'.op = "link"  -> Gone(Home(tree, out'.path))
    [] OTHER             -> {Home(tree, out'.path), Home(tree', out'.path)}

OthersKept ==
  [][\A h \in Paths \ MayLose : tree[h].kind \in {"file", "link"} => tree'[h] = tree[h]]_vars

(***************************************************************************)
(* "It will be closed on the next sink.GetWriter() call, or eventually at  *)
(* sink.Close()" (sink.go:75): the only file that is open is that of the   *)
(* writer the sink will close, but for one at most for each call of the    *)
(* operating system that failed.                                           *)
(***************************************************************************)
NoneLeaked == handles - Closes(writer) \in 0 .. faults

(***************************************************************************)
(* Every place of the destination is what sink.go makes of it.             *)
(***************************************************************************)
DestOf(h) == [kind |-> tree[h].kind, file |-> tree[h].file]

OffsetOf(h) == IF writer.open /\ writer.home = h THEN writer.woff ELSE -1

Contract(h) == INSTANCE Sink
  WITH Lengths <- Lengths, dest <- DestOf(h), woff <- OffsetOf(h)

KeepsContract ==
  /\ \A h \in Paths : Contract(h)!Init
  /\ [][\A h \in Paths : [Contract(h)!Next]_(Contract(h)!vars)]_vars
=============================================================================
