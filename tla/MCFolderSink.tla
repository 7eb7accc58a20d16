---------------------------- MODULE MCFolderSink ----------------------------
(***************************************************************************)
(* Two folders with a file each and a name that is ignored, over what an   *)
(* older version may have left: nothing, files where the folders should    *)
(* be, a longer file, links that lead to a folder, nowhere or in a circle. *)
(***************************************************************************)
EXTENDS FolderSink, TLC

Tree(of) == [p \in Paths |-> IF p \in DOMAIN of THEN of[p] ELSE Nothing]

OlderFile == File(Older(MaxLen))

MCOlderTrees ==
  {Tree(<<>>)} \cup
  UNION {{Tree(<<f>> :> OlderFile),
          Tree((<<f>> :> Folder) @@ (<<f, n>> :> OlderFile)),
          Tree(<<f>> :> Link(Elsewhere)),
          Tree((<<f>> :> Folder) @@ (<<f, n>> :> OlderFile)
               @@ [g \in {<<h>> : h \in Folders \ {f}} |-> Link(f)]),
          Tree([g \in {<<h>> : h \in Folders} |-> Link(f)])}
         : f \in Folders, n \in Names \ Ignored}

\* No action looks at out, and no property at that of an earlier call that failed.
MCView ==
  <<tree, writer, user, handles, onWindows, faults,
    IF out.ok /\ out.op # "nuke" THEN out ELSE Failed("none", Nowhere)>>

MCSymmetry == Permutations(Folders)
=============================================================================
