--------------------------- MODULE MCTarExtractor ---------------------------
(***************************************************************************)
(* Archives for TLC.                                                       *)
(***************************************************************************)
EXTENDS TarExtractor, TLC

Entry(k, s) == [kind |-> k, size |-> s]

\* two files, each long enough for two saves, with an entry that is ignored
\* between them
MCFiles == (0 :> Entry("file", 2)) @@ (1 :> Entry("other", 0)) @@ (2 :> Entry("file", 3))

\* every kind of entry, and an empty file
MCMixed ==
  (0 :> Entry("dir", 0)) @@ (1 :> Entry("file", 2)) @@ (2 :> Entry("symlink", 0))
  @@ (3 :> Entry("file", 0)) @@ (4 :> Entry("other", 0)) @@ (5 :> Entry("file", 2))

\* a directory and a file, for what goes wrong with fewer entries
MCSmall == (0 :> Entry("dir", 0)) @@ (1 :> Entry("file", 3))
=============================================================================
