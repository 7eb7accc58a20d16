-------------------------------- MODULE Sink --------------------------------
(***************************************************************************)
(* What sink.go promises an extractor about one place of the destination:  *)
(* what is there, and the writer that may be open on it. An extractor that *)
(* resumes counts on one thing only, that the data up to WriteOffset is in *)
(* the file and that the next byte goes right after it.                    *)
(*                                                                         *)
(* The caller passes a WriteOffset it knows the file has the data up to;   *)
(* that the extractors do, and write what comes next, is KeepsToSink of    *)
(* their modules, and that the sink then does its part is KeepsContract of *)
(* FolderSink.                                                             *)
(***************************************************************************)
EXTENDS EntryFile

CONSTANT Lengths    \* of files, writes and offsets

VARIABLES
  dest,    \* what is there, and if it is a file, its length and data
  woff     \* WriteOffset of the entry whose writer is open here, or NoWriter

vars == <<dest, woff>>

NoWriter == -1
Kinds == {"none", "dir", "link", "file"}
Nothing == [kind |-> "none", file |-> Missing]
Folder == [kind |-> "dir", file |-> Missing]
Link == [kind |-> "link", file |-> Missing]
File(f) == [kind |-> "file", file |-> f]

Init ==
  /\ dest \in [kind : Kinds, file : EntryFiles]
  /\ dest.kind # "file" => dest.file = Missing
  /\ woff = NoWriter

-----------------------------------------------------------------------------
Mkdir == dest' = Folder /\ woff' = NoWriter

Symlink == dest' = Link /\ woff' = NoWriter

\* A file that is there is opened as it is, anything else makes way.
OpenedHere == Created(dest.file)

GetWriter(writeOffset) ==
  /\ dest.kind # "dir"
  /\ writeOffset <= OpenedHere.good
  /\ dest' = File(WriterAt(OpenedHere, writeOffset))
  /\ woff' = writeOffset

\* also what a call leaves that fails after the file is there
Preallocate(size) ==
  /\ dest.kind # "dir"
  /\ dest' = File(Preallocated(OpenedHere, size))
  /\ UNCHANGED woff

Write(n) ==
  /\ woff # NoWriter
  /\ dest' = File(Appended(dest.file, woff, woff, n))
  /\ woff' = woff + n

\* The end of an entry and the end of a copy that failed: nothing is written
\* after the last Write, which may have been a short one. Tar closes its writer
\* on the way out; zip leaves it to the next GetWriter, which here is the same.
WriteAndClose(n) ==
  /\ woff # NoWriter
  /\ dest' = File(Appended(dest.file, woff, woff, n))
  /\ woff' = NoWriter

\* Windows has no links: a file with the target as its text.
SymlinkAsText(n) ==
  /\ dest.kind # "dir"
  /\ dest' = File(Appended(WriterAt(OpenedHere, 0), 0, 0, n))
  /\ woff' = NoWriter

\* by GetWriter for another entry, by Close, or by the caller
CloseWriter == woff' = NoWriter /\ UNCHANGED dest

\* by Nuke, or in the way of another entry
Remove == dest' = Nothing /\ woff' = NoWriter

Next ==
  \/ Mkdir \/ Symlink \/ CloseWriter \/ Remove
  \/ \E n \in Lengths : \/ GetWriter(n) \/ Preallocate(n) \/ Write(n)
                      \/ WriteAndClose(n) \/ SymlinkAsText(n)

Spec == Init /\ [][Next]_vars

-----------------------------------------------------------------------------
(***************************************************************************)
(* The data up to WriteOffset, and no more, is in the file that the writer *)
(* is open on (sink.go:98, "a writer at entry.WriteOffset").               *)
(***************************************************************************)
WriterAtOffset ==
  woff # NoWriter =>
    dest.kind = "file" /\ dest.file.good = woff /\ dest.file.len >= woff
=============================================================================
