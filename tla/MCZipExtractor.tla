--------------------------- MODULE MCZipExtractor ---------------------------
(***************************************************************************)
(* Archives for TLC: every kind of entry, with another one after it.       *)
(***************************************************************************)
EXTENDS ZipExtractor, TLC

Entry(k, s) == [kind |-> k, size |-> s]

\* stored and deflated entries long enough for two saves each
MCResumable == (0 :> Entry("stored", 3)) @@ (1 :> Entry("deflated", 3))

\* every way an entry is read, with entries that gain nothing, or that cannot
\* be saved, between those that can
MCMixed ==
  (0 :> Entry("dir", 1)) @@ (1 :> Entry("deflated", 3)) @@ (2 :> Entry("lzma", 2))
  @@ (3 :> Entry("ignored", 2)) @@ (4 :> Entry("stored", 3))
=============================================================================
