# A verification of savior in TLA+

savior reads compressed streams and archives in such a way that the work can be
saved at any time and taken up again, by another process if need be. Almost
everything that can go wrong in it goes wrong *between* two of its parts: two
offsets that should be the same and are not, a checkpoint that pairs two
positions taken at different times, a file that holds more, or less, than the
checkpoint says. Such mistakes give no error; they give a file with the wrong
bytes in it. The modules here model the parts and the way they save and resume,
TLC checks them on small instances, and TLAPS proves of each of them what holds
for every instance: the sources, the counter, both extractors and the sink.

## The system

| part | state | operations | model |
|---|---|---|---|
| `savior.Source` (`source.go`) | an offset in a stream | Resume, Read, ReadByte, WantSave, SetSourceSaveConsumer; DiscardByRead for its callers | `ResumableSource` (what is promised) |
| `seeksource` | start, size and offset of a section, a `bufio.Reader`, a wanted save; the `io.ReadSeeker` is shared by all sections | the above and Section | `SeekSource` |
| `flatesource`, `gzipsource`, `bzip2source`, `brotlisource` | the inner source, the decompressor, the inner checkpoint that waits for a block end, an offset | those of Source | `DecompressingSource` |
| `Copier` (`copy.go`) | the stop flag | Do, Stop | in both extractors |
| `zipextractor` | the checkpoint (entry index, entry with its WriteOffset, source checkpoint), the stop error | Resume, with the callback it gives to the source of each entry | `ZipExtractor` |
| `tarextractor` | the same, the tar reader, the list of entries so far | Resume, with the callback it gives to the one source | `TarExtractor` |
| `Extractor` (`extractor.go`) | the checkpoint, the answer of the save consumer, the result | Resume, SetSaveConsumer | `ResumableExtraction` (what is promised) |
| `Sink`, `EntryWriter` (`sink.go`) | one destination and the writer on it | Mkdir, Symlink, GetWriter, Preallocate, Nuke, Close; Write, Sync and Close of a writer | `Sink` (what is promised) |
| `FolderSink` (`folder_sink.go`) | a folder with what is below it, one open writer, the platform | the same | `FolderSink`; `EntryFile` (length and contents of one destination), for the extractors too |
| `NopSink` (`nop_sink.go`) | nothing | the same | its writer, which takes everything and keeps WriteOffset, where `FolderSink` uses it for ignored names |
| `countingsource` | a counter, a callback and the wrapped source | those of Source and Section | `CountingSource` |
| `filesource`, `debug`, `checker`, `semirandom` | nothing, or what tests need | pass calls on | not modelled |

Everything is sequential, but nothing is simple to follow: a `WantSave` at the
top goes down to the innermost source, comes back up as a callback in the middle
of a later `Read`, is kept until the decompressor reaches a block end, goes up
again as another callback, and ends in a save consumer that may persist the
checkpoint, refuse it, ask to stop, or resume the very source that is calling it
(`checker/sourcetester.go:58` does). The program around it may be killed or
start over at any point, with what was persisted last.

What is hard here, and what the properties are for:

* offsets kept apart that have to agree (offset, buffer and file position of a
  seekable source; input, output and inner offset of a decompressing one; source,
  tar reader and writer of an extraction);
* callbacks in the middle of an operation, and callbacks that are still set from
  the time before;
* checkpoints made of parts that were taken at different times;
* crashes between a write, a sync and a save; errors between two of the steps of
  a save; retries with what an error has left in memory;
* a destination that is not empty: links, files and folders in the way of an entry,
  and a file that is removed while the sink has it open;
* progress: a consumer that stops at every save, or resumes at every save, must
  still get to the end.

`PROJECT.json` lists each of these hazards at its line, with the properties that
would catch it.

## The modules

`ResumableSource` is the contract of `source.go` in three variables: the offset
of the next unit, the offsets of the checkpoints handed out, and what the last
read handed over. Units are numbered by their place in the stream, so that a read
is right when the unit it delivers is the one at the offset it claims to be at.
Resume goes to a checkpoint or to 0; a read delivers at its offset and emits, at
most, a checkpoint for the offset before; nothing else may be seen.

`SeekSource` models `seeksource.go` operation by operation: `src[s]` holds the
fields of each source, `filePos` the position of the one `io.ReadSeeker`, and the
buffer of `bufio.Reader` is a number of bytes (`buffered`) that lie just before
`filePos`. `Pulls` and `Taken` are what `bufio.Reader` does: the buffer first, then
one read of the file, which may be short, and past the buffer for large requests.
`owner` is the source that was resumed last: `source.go:79` says the others
"cannot be used anymore" until they are resumed. `Fetch` is the common end of Read
and ReadByte with `handleSave` before it, including a consumer that resumes the
source in there, from the checkpoint it was just given, another one or nil; the read
goes on with the length it had worked out before. `strayed` is a history variable: it
says that the owner was resumed past its end, or further on within a read.
`Add64` is the sum of Section, with the width of an int64.

`DecompressingSource` models the four decompressing sources at once, with one
operator for every place where they differ (`FlateOffset`, `GzipHeader`,
`Bzip2Pending`, `BrotliReaderAfterFailure`, ...). The inner source is any that
keeps the contract and saves at any byte, as `seeksource` does. The decompressor
is external; it is described by `Yield` (how much output is known after so many
units of input) and `BlockEnds` (where it may stop to save), and its output is
garbage as soon as it is fed input from another place than its own. `mem` is
everything that is lost with the process; the checkpoints are not. `Resume` has
all the ways out of the code: an inner source that resumes where it was asked or
at 0, a discard that serves a save, a decompressor that refuses its checkpoint,
a constructor that fails, a nil reader that is called.

`CountingSource` extends `SeekSource`: `counted` is the counter of the wrapper of each
source, and `shift` what its callback adds up on the way to the callback of the
program. A section of a wrapped source moves its reads by `sectionStart` and its
callback by a closure around the callback of its parent; nothing but the
arithmetic makes the two agree. Every other step is one of `SeekSource`.

`EntryFile` holds operators on one destination: how long it is, and how long its
prefix of right data is. `Created`, `WriterAt`, `Preallocated` and `Appended` are
`createFile`, `GetWriter`, `Preallocate` and `Write` of `folder_sink.go`.

`Sink` is the contract of `sink.go` for one path: what kind of thing is there, its
file, and the WriteOffset of the writer that is open on it. It stands between the
extractors and `FolderSink`, and each side is checked against it: `KeepsContract` of
`FolderSink` says that the sink does what the contract says, and `KeepsToSink` of the
extractors that they call it in no other way. They write and close in one step
(`WriteAndClose`): tar closes its writer on the way out of the copy
(`tarextractor.go:211`); zip leaves it to the next GetWriter and does not use it again,
which is the same to the place it writes.

`FolderSink` models `folder_sink.go` over a file system. `tree` says what is at each
path: `Folders` at the top, which an older version may have left as files or links,
and `Names` below them. `Home` is the place a path leads to through links; `Gone`
what a removal takes. `writer` is `fs.writer` with the place of its file (or
`Nowhere`, after the file was removed), its position and the WriteOffset of its
entry; `user` what the caller was given last, which is not `fs.writer` for an ignored
name; `handles` counts the files the program has open, one more for each that is opened,
one less where a writer that is open is closed. Each operation has an action for
its success and one for its failures, with what a failure leaves behind.
`Contract(h)` is `Sink` for one place, and `KeepsContract` says that every place
of the file system keeps it, whatever the calls for the others do.

`ResumableExtraction` is the contract of `extractor.go`: how far the archive is
extracted, where the persisted checkpoint is, and whether the consumer has said
stop. Both extractors implement it.

`ZipExtractor` and `TarExtractor` each compose an extractor, the copier, the
destinations and the program that runs them. One step is one call the code
makes, or one side of the copier's loop; `pc` says where `Resume` is. The sources
are abstract and keep their contract: where they save, in which kind of read, and
what becomes of the error of the consumer is what distinguishes a seekable source
from a decompressing one, and that is kept. A source that saves at block ends does so
again where a block is empty, with nothing handed over in between, and at the very end
where the last one is (`BlockEndsNow`; `src.ends` counts the block ends since data was
handed over last): the copier asks for the next save after such a read as after any
other (`copy.go:80`). `cache` is the destination as
processes see it, `disk` what has been synced. `saved` is what the save consumer
persisted, as it was at that moment (the tests encode it at once, with gob).
An ignored entry (`"ignored"`) is read like a stored one, and saved in, but written
nowhere, and its WriteOffset stays at 0.
For tar, `src` is the whole stream, a unit for each header and the data of the
files, and `sr` the place of the tar reader in it; `current` is the variable `entry`
the callback closes over.

The definitions whose comment begins with "slip" are not part of the model. Each
is a plausible mistake in the definition below it (a flag not reset, a length
taken for another, a step forgotten), with the same parameters; put in its place,
it makes the property it is paired with in `PROJECT.json` fail. They show that
the property looks at that code.

## What is checked

| run | instance | properties |
|---|---|---|
| `seek_sections` | file of 4 bytes of which the root was told 3, buffer of 2, one section at any place, reads of up to 2, a save consumer that resumes its source from any of its checkpoints | `OwnerAligned`, `DeliveredInPlace`, `ReadsInsideSection`, `SectionsInsideRoot`; `KeepsContract`: each source implements `ResumableSource`; `WantServed`: a wanted save is served by whoever reads on |
| `counting` | a root, two sections of each other, a file shorter than the root was told, checkpoints past its end or negative | `OwnerAligned`, `ToldPlaceInFile`: the callback is told the place in the file up to which bytes were handed over |
| `decompress` | four codecs, 5 units of input, two block ends | `InStep`, `SaveCanBeResumed`, `DeliveredInPlace`, `KeepsContract`, `NeverPanics` (only a caller that wanted a save of a source it had not resumed makes it panic), `ReadsToEnd` |
| `zip` | every kind of entry, files of 2 and 3 units, an empty block at each block end, at most 2 faults | `ResultComplete`, `SavedResumable`, `Finishes`, `NextSaveGains`; `KeepsPromise`: it implements `ResumableExtraction`; `KeepsToSink`: what it does to each file is a step of `Sink` |
| `zip_power` | a stored and a deflated file of 3 units, at most 3 faults, losses of power | `SavedDurable`, `SavedAdvances` |
| `tar` | every kind of entry, an empty file, at most 1 fault, both kinds of source, used again by every call, an empty block at any block end | `ResultComplete`, `SavedResumable`, `Finishes`, `NextSaveGains`, `KeepsPromise`, `KeepsToSink` |
| `tar_lossy` | two files with an ignored entry between them, at most 2 faults, retries and losses of power | `Aligned`, `ResultListsFiles` |
| `folder_sink` | two folders, a file and an ignored name in each, older trees with files, links and a circle of links in the way, 1 fault | `WriterInStep`, `RightType`, `OthersKept`, `NoneLeaked`; `KeepsContract`: every place implements `Sink` |

The type invariant of each module is checked in one of its runs.

The bounds: a section needs a start, an end and one byte on either side to go
wrong, a buffer has to be smaller than the file and both smaller and larger than
a read; files of 2 or 3 units are long enough for two saves with a read between
them and for a read that goes past a block end; `EmptyBlocks` is 1, enough for two saves in
a row at one place, and one of the block ends of `zip` is the end of the entry; there is another entry after each
kind of entry, and an ignored one between two files. `MaxFaults` bounds errors,
crashes, losses of power and fresh restarts together; stops by the consumer are
not bounded, nor are saves. The destinations start out missing, or older and
longer than the entry.

`folder_sink` needs two folders, for a link from one to the other and for a writer
that is open below a folder another call removes, and files of 2 units, for a
short write. A directory and a link are the same to an extractor (`Made`), so that
the large archive of `zip` has one of them.

`counting` has two sections, so that one can be cut from the other. Three things
keep it small, and each leaves the properties alone. The two sections are
symmetric. `MCOneSaver` lets only one of the sources be asked for checkpoints, which
are the business of `seek_sections`. `MCView` ignores the offset and the buffer of
every source but the one resumed last: Resume sets both before they are used again,
and both properties look at that one only.

Fairness. There are no threads: "the caller goes on" is all there is to assume.
`FairSpec` of the sources says that whoever has resumed a source reads on. `FairSpec`
of the extractors says that a Resume that runs takes its next step, and that the
program calls Resume again when it was stopped or failed, with the checkpoint
persisted last; faults are not fair. Whether the consumer stops, and whether the
copier is told to save, stays free, so that `Finishes` holds for a consumer that
stops at every save. Deadlock checking is off for the extractors only: they are
done when the result is there.

`NextSaveGains` is why `Finishes` holds: whenever the next read can serve a save, it
is for a place past the one persisted last, unless empty blocks follow each other. Then
it may be for the same place, but only in a call that has already come there from another
block end. A call that resumes at a checkpoint has passed none, and is asked for a save
only after a read, so that a consumer which stops at every save has gained something by
then: it is never stopped twice at one place. `NextSaveGains` is a statement about single
states, and so it is also proved.

`Finishes` of tar has an exception that the model brought up. The copier asks
ShouldSave once more after it was told to stop (`copy.go:80`). The seekable source
keeps the wanted save over its next Resume, and if the program uses it again the
next call saves, and may be stopped, before it has read anything. A consumer that
wants a save after every read and stops at every save is then stopped forever.

## Where the code and its documentation part

Each is a run that TLC finds violated, with the quotation in `PROJECT.json`:

* `seek_past_end`: a checkpoint past the end is accepted and the next Read panics
  (`seeksource.go:134`). The test (`seeksource_test.go:264-271`) resumes past the end too,
  and then calls ReadByte, which does not slice and meets the end of the file.
* `decompress_read_byte`: ReadByte retries once; after two saves in a row it returns
  an old byte and no error (`gzipsource.go:172`, and the same in the other three).
* `zip_power_loss`: only the entry that is being saved is synced, those before it
  may be lost with the power although the checkpoint counts on them.
* `tar_retry`: a retry with the checkpoint an error has left in memory writes data
  at the wrong place; zip reads up to WriteOffset first, tar does not.

Others were met and have no run:

* `ReadByte` of a source resumed past its end reads on (`seeksource.go:153`).
* A save consumer that resumes its source further on, from a checkpoint that is the
  source's own, makes Read take what remained before, past the end of a section, and the
  next Read panic (`seeksource.go:134-143`). `ReadsInsideSection` excepts that source.
* A save wanted before the first read makes a checkpoint for offset 0
  (`seeksource.go:169`), which `source.go:14` says is none.
* The bounds of Section can overflow (`seeksource.go:113`).
* Tar does not sync before it saves (`tarextractor.go:135`, a FIXME of the code).
* The result of a tar lists regular files only (`tarextractor.go:228`), where
  `README.md:74` promises a list of all entries.
* A folder in the way of a file makes GetWriter and Preallocate fail
  (`folder_sink.go:126`), where `README.md:121` says the sink does "whatever it take".
* Preallocate never cuts a file that is longer than its entry (`README.md:127`);
  GetWriter does, if the entry is written at all.
* GetWriter for an ignored name does not close the writer returned before it, which
  `sink.go:98` says it does (`folder_sink.go:153`). The next call that is not for an
  ignored name does, and none is lost: `NoneLeaked`.
* A handle is lost when Chmod, Seek or Truncate fails after the file was opened
  (`folder_sink.go:143`); `NoneLeaked` allows one for each such failure.
* On Windows, a link that is tried again with the entry an error has left in memory
  has its target appended to the first one (`folder_sink.go:246`).

## What is proved

`SeekSource_proofs` proves, for every file, buffer size, set of sections, requests
and checkpoints:

* `SeekSourceAligned`: the source that may be read is at `start + offset`, buffer
  included, and the bytes it hands over are those of its offset. The inductive
  invariant is `Aligned`: the type, `OwnerAligned` and `DeliveredInPlace` together;
  the second carries the third. Foreign checkpoints are allowed.
  `SeekSourceTyped` and `SeekSourceDelivers` are parts of it.
* `SeekSourceInsideRoot`: sections stay inside the root, however deeply nested.
* `SeekSourceReadsInside`: no read goes past the end of its section and none panics,
  while the source has not strayed: been resumed past its end, or further on within a
  read. This needs `Contained` as well: the source that may be read is not past its end.
  Foreign checkpoints are allowed.
* `SeekSourceKeepsContract`: every source over the shared reader implements
  `ResumableSource`. The initial states map to initial states (`ContractInit`) and
  every step to a step or a stutter (`StepRefines`), under the invariants above.
* `SeekSourceResumedValid`: what `seek_past_end` refutes holds of a program whose sources
  are given only their own checkpoints (`OwnCheckpoints`), and none that is further on in
  the middle of a read (`NoneSentOn`). The invariant is `NeverStrayed`: all checkpoints a
  source has emitted are inside it. Without the second hypothesis, they are not.
* `SeekSourceServesWants`: a wanted save is served by a read of its source, before that
  hands over anything more, and taken back by nothing else.

`CountingSource_proofs` proves `CountingSourceTellsPlace`: the callback of a counting
source is told the place in the file up to which its caller was handed the bytes,
for every depth of sections and every threshold. The inductive invariant adds
`Shifted` to those of the seekable source: what the callbacks add up to (`shift`) is
what the sections add up to (`start`); that every step of a counting source is one of
the source it wraps brings the rest (`CountingIsNext`). From the same fact,
`CountingSourceIsSeekSource` is that a counting source implements `SeekSource`, and
`CountingSourceKeepsContract` that it hence implements `ResumableSource`.

Two hypotheses stand in the statements. `NoOverflow`: the bounds passed to Section
add up within an int64; without it a section may lie outside the root.
`OwnCheckpoints`: checkpoints come back to the source that emitted them; without it
`seek_past_end` is what happens. `ConstantsAssumption` is that sizes are natural
numbers within an int64 and the buffer has room for two bytes.

`ZipExtractor_proofs` proves of every archive, with any number of faults:

* `ZipResultComplete` and `ZipSavedResumable`: a result is complete and a persisted
  checkpoint can be resumed. Both have the hypothesis `~PowerFails`; with it removed,
  `zip_power_loss` is what happens.
* `ZipSavedDurable` and `ZipSavedAdvances`, losses of power included.
* `ZipKeepsPromise`: it implements `ResumableExtraction`, again without losses of
  power. A save is a step of the contract that may not move the persisted place
  back; that it does not is `CkptInv`.
* `ZipKeepsToSink`: everything it does to a file is a step of `Sink` (a loss of power is
  none, hence `~PowerFails`). The step with the most in it is `OpenEntry`: that the file
  has the data up to WriteOffset when `GetWriter` truncates it there is `InsideEntry`.
  `ZipWritersAtOffset` is what zip gets in return, losses of power included.
* `ZipNextSaveGains`, losses of power included.
* `ZipResumesOwnSource`: the source checkpoint that is carried along belongs to the
  entry it is carried with, after any error, stop and retry, and is a place its source
  can save at. It is `OwnCheckpoints`, which the theorems about `SeekSource` suppose.
* `ZipReadsInside` and `ZipWorksOn`: no source is past the end of its entry, and every
  step of a call of Resume that does not end it raises `Rank`, in the order of `Before`:
  the entry, the place in it, the block ends passed there, the step of the copier. All
  four are bounded, so each call takes finitely many steps.
* `ZipTyped`.

None of these is inductive. `ZipInv` says what they rest on. `CopyInv`: while an entry
is copied, the source, WriteOffset, the chunk that was read and the end of the file
are at the same place. `CkptInv`: the checkpoint in use (while Resume runs, and after
it failed) is neither ahead of the data (`InsideEntry`) nor behind the persisted one
(`NotBehindSaved`), and what it has behind it is extracted (`EarlierExtracted`). The
second is why opening an entry, which truncates it, never takes what the persisted
checkpoint counts on. A stop resets the checkpoint to the start of the entry, behind
the persisted one; it is then not in use any more, and has to stay so. `NextSaveGains`
needs `GainInv` besides: the source is never behind the persisted checkpoint, and where
a save may come to be wanted it is past it, because the copier asks for one only after
a write, and a source that saves at block ends alone has either moved since or come
from one block end to another.

`DecompressingSource_proofs` proves of all four sources, for every stream, every set
of block ends and every way Resume can go wrong:

* `DecompressInStep` and `DecompressSaves`: the three offsets are in step, and every
  checkpoint pairs a block end and all the output before it with an inner checkpoint
  from before it. The inductive invariant is `Ready`: a decompressor that was asked to
  stop has a pending inner checkpoint behind its input, and has put out no more than
  its input gives. The second is what makes a checkpoint complete: at a block end with
  nothing left to hand over, the output is `Yield` of the input. That `Yield` never
  falls (`YieldGrows`) is derived from its steps.
* `DecompressNeverPanics`, under the invariant `SpeaksTo`: without a reader, the inner
  source wants no save, unless one was wanted too early. Resuming from a checkpoint
  always reads the inner source (`LandedFacts`) and thereby takes a wanted save off it.
* `DecompressTyped`: no offset leaves the stream.
* `DecompressReadsOn`: every read ends the stream or gains on the one before (`Further`),
  in output, in input, or by serving a save that is then not wanted any more; empty
  blocks or not. It is the safety part of `ReadsToEnd`.
* `DecompressDelivers`, `DecompressByteWasRead` and `DecompressKeepsContract`: what is
  handed over is what is at the offset it says, ReadByte returns no byte it has not
  read, and the four sources implement `ResumableSource`. All have the hypothesis
  `BlocksYield`: no block is empty. Without it `ReadByte`, which retries
  once only, meets two block ends in a row and returns an old byte
  (`decompress_read_byte`). With it, the read that follows a save finds output
  (`AtBlockEnd`, `Rests`), and the retry is enough.

`TarExtractor_proofs` proves of every archive:

* `TarAligned` and `TarResultListsFiles`: the source and the tar reader are at one
  place while Resume runs, and each regular file is listed once; retries and losses
  of power included.
* `TarResultComplete`, `TarSavedResumable` and `TarKeepsPromise` (it implements
  `ResumableExtraction`), under `Safe`: no power is lost, since tar does not sync, and
  nobody retries with what an error left in memory, which is `tar_retry`.
* `TarKeepsToSink` and `TarWritersAtOffset`, under `Safe` as well: after such a retry,
  data is written that is not the next of the entry.
* `TarNextSaveGains`, under `~Retries`: the tar reader never starts behind the persisted
  checkpoint, and a source that wants a save has moved since, or passed a block end
  (`GainInv` of that module).
  That Next only moves it forward is `HeaderNext`, on the cardinalities of `HeaderAt`.
* `TarReadsInside` and `TarWorksOn`, with no hypothesis: each call of Resume returns
  after finitely many steps.
* `TarTyped`.

The invariant is `TarInv`. `PlaceInv`: the source, the tar reader, the index and the
list are at the same entry. `DataInv`: while data is copied, WriteOffset is where the
tar reader is and where the file ends. `CkptInv` and `SavedInv`: a checkpoint with a
state was made in a read of its entry, and is not ahead of the data. The list is the
files before an entry in order; `ListsFilesBefore` says so by its length and its
entries, since it cannot be computed by recursion here.

`FolderSink_proofs` proves, for every set of paths, every older tree and any number of
failing calls, `FolderWriterInStep`, `FolderRightType`, `FolderOthersKept`,
`FolderNoneLeaked` and `FolderSinkTyped`. The invariant is the conjunction of the state
properties; that the destination is a tree is what carries the others, since it is why
something that is not a folder has nothing below it to lose (`NothingBelow`). The other
argument is `HomeAfter`: once what is in the way of a path is gone and its folder is
made, the path leads to where it led before, or to where there was nothing. `Resolved`
itself, which follows links by recursion, is never unfolded: a path leads to the same
place in trees with the same top (`HomeSame`).

`FolderKeepsContract` is that every place implements `Sink`. Only what is a file after
a step has to be looked at: what is none has no data (`Plain`), no writer can be open
on it, and the contract lets a place become such a thing at any time. A link that is
written as text on Windows is the case with the most in it, because it opens, writes
and closes in one step.

`Sink_proofs` proves `SinkWriterAtOffset` of the contract itself: whoever keeps to it,
on either side, has the data up to WriteOffset in the file while a writer is open.

`LeastNatural` has the one fact about `Min` the extractors need, that the first entry
which is not complete exists.

Only model-checked: liveness (`WantServed`, `ReadsToEnd`, `Finishes`), which the prover
does not do. What single steps contribute is proved: a read serves what is wanted
(`SeekSourceServesWants`), the reads of a source gain (`DecompressReadsOn`), a call of
Resume works on (`ZipWorksOn`, `TarWorksOn`), and one call gains on the one before
(`ZipNextSaveGains`, `TarNextSaveGains`). The step from there to "eventually", by
induction under fairness, is left to TLC. That the operators on lengths compute what
`bufio`, the decompressors or the file system do is an assumption of the models, not a
result.

## What is left out, and why

* Progress, logging, `Features`, `Stats`: nothing depends on them.
* `filesource` opens a file and hands it to `seeksource`; `debug` turns messages on;
  `checker` and `semirandom` are test helpers. What they do as callers (resume out of
  the save consumer, use one source for several extractions, stop at every save) is
  among the steps of the models.
* A source that is read after its Resume failed, which has the new offset and the old
  buffer (`seeksource.go:82`): a failed Resume leaves no owner in `SeekSource`, so that its
  properties say nothing of it. A save consumer whose own Resume fails in the middle of a
  read is left out too; `sourcetester.go` ends the program there.
* A save served while tar reads its source up to the tar reader (`tarextractor.go:66`): the
  branch is in the model (`SavedInDiscard`), but no run reaches it, since the sources that
  come back early have lost the wanted save by then.
* Names, modes and paths in the extractors: entries are numbers, each with a destination
  of its own. `FolderSink` has paths, one folder deep, and no modes.
* The check that a path stays below the folder of the sink: a property of strings.
* Files a program on Windows removes while they are open: the removal may succeed or
  fail in the model, on either platform.
* `zipextractor.New` and the reading of the directory: once, before anything.
* A program that keeps the pointer to the checkpoint over a *stop* and resumes from
  it instead of from what was persisted. The loop resets it (`zipextractor.go:333`),
  so that the entry starts over; the persisted one then counts on data that is gone.
* In `zip`, a source checkpoint that comes back later than the writer: sources of
  the contract never do.
* A decompressing source over another, as a `.tar.gz` inside a `.bz2` would need: the
  inner source of `DecompressingSource` saves at any byte, not at its own block ends
  only (plan, 11).
* `gzipSource.Close`, which nothing in the repository calls.
* What a retry on Windows does to a link (`folder_sink.go:246`): the entry of
  `SymlinkAsText` is a new one.

## Plan

1. *done* `ResumableSource`, `SeekSource`, its proofs.
2. *done* `DecompressingSource`, `EntryFile`, `ZipExtractor`, `TarExtractor`.
3. *done* `Sink`, `FolderSink`: folders, links and files in the way of an entry, the one
   open writer and who closes it, ignored names.
4. *done* `CountingSource`, its proofs.
5. *done* `ResumableExtraction`, which both extractors implement.
6. *done* `ZipExtractor_proofs`.
7. *done* `FolderSink_proofs`.
8. *done* `DecompressingSource_proofs`.
9. *done* `TarExtractor_proofs`, and that every detailed module implements its contract.
10. *done* `Sink_proofs`; that the extractors keep to the contract of the sink; what
    termination rests on, step by step.
11. `NestedSource`: a decompressing source over another (`.tar.gz` in a `.bz2`), whose
    inner source saves at block ends instead of at any byte.
