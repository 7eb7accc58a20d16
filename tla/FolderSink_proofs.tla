-------------------------- MODULE FolderSink_proofs --------------------------
(***************************************************************************)
(* What the folder sink keeps for every set of paths, every tree of an     *)
(* older version and any number of failing calls: its writer stays in      *)
(* step, entries get their type and take nothing from each other, and no   *)
(* handle is lost.                                                         *)
(***************************************************************************)
EXTENDS FolderSink, TLAPS

Nodes == [kind : {"none", "dir", "link", "file"}, file : EntryFiles,
          to : Folders \cup {Elsewhere}]

Writers == [home : Paths \cup {Nowhere}, pos : Nat, open : BOOLEAN, woff : Nat]

StepInv == TypeOK /\ WriterInStep /\ RightType /\ NoneLeaked

\* The step takes nothing it may not take.
Kept == \A h \in Paths \ MayLose : tree[h].kind \in {"file", "link"} => tree'[h] = tree[h]

-----------------------------------------------------------------------------
(***************************************************************************)
(* Paths, nodes and files.                                                 *)
(***************************************************************************)
LEMMA PathFacts ==
  /\ Nowhere \notin Paths
  /\ \A f \in Folders : <<f>> \in Paths /\ Len(<<f>>) = 1 /\ <<f>>[1] = f
  /\ \A f \in Folders, n \in Names :
       /\ <<f, n>> \in Paths /\ Len(<<f, n>>) = 2
       /\ <<f, n>>[1] = f /\ <<f, n>>[2] = n
       /\ \A g : <<f, n>> # <<g>>
  /\ \A p \in Paths :
       \/ p[1] \in Folders /\ p = <<p[1]>>
       \/ p[1] \in Folders /\ p[2] \in Names /\ p = <<p[1], p[2]>>
  BY DEF Paths, Nowhere

LEMMA NodeFacts ==
  /\ Nothing \in Nodes /\ Nothing.kind = "none"
  /\ Folder \in Nodes /\ Folder.kind = "dir"
  /\ \A to \in Folders \cup {Elsewhere} : Link(to) \in Nodes /\ Link(to).kind = "link"
  /\ \A f \in EntryFiles : File(f) \in Nodes /\ File(f).kind = "file" /\ File(f).file = f
<1>1. Missing \in EntryFiles
  BY DEF Missing, EntryFiles
<1>2. \A kind \in {"none", "dir", "link", "file"} :
        /\ Node(kind) \in Nodes /\ Node(kind).kind = kind
        /\ Node(kind) = [kind |-> kind, file |-> Missing, to |-> Elsewhere]
  BY <1>1 DEF Node, Nodes
<1>3. \A to \in Folders \cup {Elsewhere} :
        Link(to) = [kind |-> "link", file |-> Missing, to |-> to]
  BY <1>2 DEF Link
<1>4. \A f : File(f) = [kind |-> "file", file |-> f, to |-> Elsewhere]
  BY <1>2 DEF File
<1>5. Nothing = Node("none") /\ Folder = Node("dir")
  BY DEF Nothing, Folder
<1> HIDE DEF Node
<1> QED BY <1>1, <1>2, <1>3, <1>4, <1>5 DEF Nodes

LEMMA FileFacts ==
  ASSUME NEW f \in EntryFiles
  PROVE  /\ Created(f) \in EntryFiles /\ Created(f).good = f.good
         /\ \A n \in Nat : /\ WriterAt(f, n) \in EntryFiles
                           /\ n <= f.good => WriterAt(f, n).good = n
                           /\ Preallocated(f, n) \in EntryFiles
                           /\ Preallocated(f, n).good = f.good
         /\ \A at \in Nat, n \in Nat :
              /\ Appended(f, at, at, n) \in EntryFiles
              /\ f.good = at => Appended(f, at, at, n).good = at + n
<1>1. f = [len |-> f.len, good |-> f.good] /\ f.len \in {-1} \cup Nat /\ f.good \in Nat
  BY DEF EntryFiles
<1>2. Created(f) = [len |-> Greater(f.len, 0), good |-> f.good]
  BY DEF Created, EntryFiles
<1>3. \A n : Preallocated(f, n) = [len |-> Greater(Greater(f.len, 0), n), good |-> f.good]
  BY <1>2 DEF Preallocated, EntryFiles
<1>4. Created(f) \in EntryFiles /\ Created(f).good = f.good
  BY <1>1, <1>2 DEF Greater, EntryFiles
<1>5. ASSUME NEW n \in Nat
      PROVE  /\ WriterAt(f, n) \in EntryFiles
             /\ n <= f.good => WriterAt(f, n).good = n
             /\ Preallocated(f, n) \in EntryFiles
             /\ Preallocated(f, n).good = f.good
  <2>1. WriterAt(f, n) \in EntryFiles /\ (n <= f.good => WriterAt(f, n).good = n)
    BY <1>1 DEF WriterAt, Lesser, EntryFiles
  <2>2. Preallocated(f, n) \in EntryFiles /\ Preallocated(f, n).good = f.good
    BY <1>1, <1>3 DEF Greater, EntryFiles
  <2> QED BY <2>1, <2>2
<1>6. ASSUME NEW at \in Nat, NEW n \in Nat
      PROVE  /\ Appended(f, at, at, n) \in EntryFiles
             /\ f.good = at => Appended(f, at, at, n).good = at + n
  BY <1>1 DEF Appended, Greater, Lesser, EntryFiles
<1> QED BY <1>4, <1>5, <1>6

-----------------------------------------------------------------------------
(***************************************************************************)
(* Trees.                                                                  *)
(***************************************************************************)
Forest == {t \in [Paths -> Nodes] : IsTree(t)}

LEMMA TreesAre == Trees = [Paths -> Nodes]
  BY DEF Trees, Nodes

LEMMA HomeOfTop ==
  ASSUME NEW t, NEW p \in Paths, p = <<p[1]>>
  PROVE  Home(t, p) = p
<1>1. Len(p) = 1
  BY PathFacts
<1> QED BY <1>1 DEF Home

\* Where a path of two leads, there is a folder to hold it.
LEMMA HomeOfTwo ==
  ASSUME NEW t, NEW p \in Paths, p[2] \in Names, p = <<p[1], p[2]>>, Home(t, p) # Nowhere
  PROVE  /\ Resolved(Tops(t), p[1]) \in Folders
         /\ Home(t, p) = <<Resolved(Tops(t), p[1]), p[2]>>
         /\ t[<<Resolved(Tops(t), p[1])>>].kind = "dir"
         /\ Home(t, p) \in Paths
<1>1. Len(p) = 2
  BY PathFacts
<1>2. /\ Resolved(Tops(t), p[1]) \in Folders
      /\ Home(t, p) = <<Resolved(Tops(t), p[1]), p[2]>>
      /\ t[<<Resolved(Tops(t), p[1])>>].kind = "dir"
  BY <1>1 DEF Home
<1> QED BY <1>2, PathFacts

LEMMA HomeIn ==
  ASSUME NEW t, NEW p \in Paths
  PROVE  Home(t, p) \in Paths \cup {Nowhere}
<1>1. CASE p[1] \in Folders /\ p = <<p[1]>>
  BY <1>1, HomeOfTop
<1>2. CASE p[1] \in Folders /\ p[2] \in Names /\ p = <<p[1], p[2]>>
  BY <1>2, HomeOfTwo
<1> QED BY <1>1, <1>2, PathFacts

\* A path of two leads to the same place in trees with the same folders and links.
LEMMA HomeSame ==
  ASSUME NEW t, NEW u, NEW p \in Paths, Len(p) = 1 \/ \A f \in Folders : t[<<f>>] = u[<<f>>]
  PROVE  Home(t, p) = Home(u, p)
<1>1. CASE Len(p) = 1
  BY <1>1 DEF Home
<1>2. CASE \A f \in Folders : t[<<f>>] = u[<<f>>]
  <2>1. Tops(t) = Tops(u)
    BY <1>2 DEF Tops
  <2> QED BY <1>2, <2>1 DEF Home
<1> QED BY <1>1, <1>2

LEMMA GoneFacts ==
  ASSUME NEW h
  PROVE  /\ \A f \in Folders, n \in Names :
              h = <<f, n>> => \A q \in Gone(h) : q = h
         /\ \A f \in Folders :
              h = <<f>> => \A q \in Paths : q \in Gone(h) <=> q[1] = f
         /\ h = Nowhere => Gone(h) = {}
         /\ h \in Paths => h \in Gone(h)
<1>1. \A q \in Paths : q # Nowhere /\ <<q[1]>> # Nowhere
  BY PathFacts DEF Nowhere
<1> QED BY <1>1, PathFacts DEF Gone

\* What is removed takes along what is below it.
Closed(gone) == \A f \in Folders, n \in Names : <<f>> \in gone => <<f, n>> \in gone

LEMMA GoneClosed ==
  ASSUME NEW h \in Paths \cup {Nowhere}
  PROVE  Closed(Gone(h))
  BY PathFacts, GoneFacts DEF Closed, Gone

LEMMA WithoutFacts ==
  ASSUME NEW t \in Forest, NEW gone
  PROVE  /\ Without(t, gone) \in [Paths -> Nodes]
         /\ \A q \in Paths : /\ q \in gone => Without(t, gone)[q].kind = "none"
                             /\ q \notin gone => Without(t, gone)[q] = t[q]
         /\ Closed(gone) => Without(t, gone) \in Forest
<1>1. Without(t, gone) \in [Paths -> Nodes]
  BY NodeFacts DEF Without, Forest
<1>2. \A q \in Paths : /\ q \in gone => Without(t, gone)[q].kind = "none"
                       /\ q \notin gone => Without(t, gone)[q] = t[q]
  BY NodeFacts DEF Without
<1>3. ASSUME Closed(gone), NEW p \in Folders \X Names, Without(t, gone)[p].kind # "none"
      PROVE  Without(t, gone)[<<p[1]>>].kind = "dir"
  <2>1. p \in Paths /\ <<p[1]>> \in Paths /\ p = <<p[1], p[2]>> /\ p[1] \in Folders /\ p[2] \in Names
    BY PathFacts
  <2>2. p \notin gone /\ t[p].kind # "none"
    BY <1>2, <1>3, <2>1
  <2>3. <<p[1]>> \notin gone
    BY <1>3, <2>1, <2>2 DEF Closed
  <2>4. t[<<p[1]>>].kind = "dir"
    BY <2>2 DEF Forest, IsTree
  <2> QED BY <1>2, <2>1, <2>3, <2>4
<1> QED BY <1>1, <1>2, <1>3 DEF Forest, IsTree

LEMMA WithParentFacts ==
  ASSUME NEW t \in Forest, NEW p \in Paths
  PROVE  /\ WithParent(t, p) \in Forest
         /\ \A q \in Paths : t[q].kind # "none" => WithParent(t, p)[q] = t[q]
         /\ p = <<p[1]>> => WithParent(t, p) = t
         /\ t[<<p[1]>>].kind # "none" => WithParent(t, p) = t
         /\ \A f \in Folders, n \in Names : WithParent(t, p)[<<f, n>>] = t[<<f, n>>]
         /\ p = <<p[1], p[2]>> => WithParent(t, p)[<<p[1]>>].kind # "none"
<1>1. CASE Len(p) = 2 /\ t[<<p[1]>>].kind = "none"
  <2> DEFINE h == <<p[1]>>
             u == [t EXCEPT ![h] = Folder]
  <2>1. h \in Paths /\ p[1] \in Folders /\ t \in [Paths -> Nodes] /\ p # h
    BY <1>1, PathFacts DEF Forest
  <2>2. u \in [Paths -> Nodes] /\ u[h].kind = "dir" /\ \A q \in Paths : q # h => u[q] = t[q]
    BY <2>1, NodeFacts
  <2>3. WithParent(t, p) = u
    BY <1>1 DEF WithParent
  <2>4. \A f \in Folders, n \in Names : <<f, n>> \in Paths /\ <<f, n>> # h
    BY PathFacts
  <2>5. ASSUME NEW q \in Folders \X Names, u[q].kind # "none"
        PROVE  u[<<q[1]>>].kind = "dir"
    <3>1. q \in Paths /\ q # h /\ <<q[1]>> \in Paths
      BY <2>4, PathFacts
    <3>2. t[<<q[1]>>].kind = "dir"
      BY <2>2, <2>5, <3>1 DEF Forest, IsTree
    <3> QED BY <2>2, <3>1, <3>2
  <2> HIDE DEF u
  <2>6. u \in Forest
    BY <2>2, <2>5 DEF Forest, IsTree
  <2> QED BY <1>1, <2>1, <2>2, <2>3, <2>4, <2>6
<1>2. CASE ~(Len(p) = 2 /\ t[<<p[1]>>].kind = "none")
  <2>1. WithParent(t, p) = t
    BY <1>2 DEF WithParent
  <2>2. p = <<p[1], p[2]>> => Len(p) = 2
    OBVIOUS
  <2> QED BY <1>2, <2>1, <2>2
<1> QED BY <1>1, <1>2

\* A node may be put where its folder is, if it is a folder itself or nothing is
\* below.
MayHold(t, h, node) ==
  /\ \A f \in Folders, n \in Names : h = <<f, n>> => t[<<f>>].kind = "dir"
  /\ \A f \in Folders : h = <<f>> => node.kind = "dir" \/ t[h].kind # "dir"

LEMMA PutFacts ==
  ASSUME NEW t \in Forest, NEW h \in Paths, NEW node \in Nodes, MayHold(t, h, node),
         NEW u, u \in [Paths -> Nodes], u[h] = node,
         \A q \in Paths : q # h => u[q] = t[q]
  PROVE  u \in Forest
<1>1. ASSUME NEW q \in Folders \X Names, u[q].kind # "none"
      PROVE  u[<<q[1]>>].kind = "dir"
  <2>1. /\ q \in Paths /\ <<q[1]>> \in Paths /\ q[1] \in Folders /\ q[2] \in Names
        /\ q = <<q[1], q[2]>> /\ q # <<q[1]>>
    BY PathFacts
  <2>2. t[<<q[1]>>].kind = "dir"
    <3>1. CASE q = h
      BY <2>1, <3>1 DEF MayHold
    <3>2. CASE q # h
      BY <1>1, <2>1, <3>2 DEF Forest, IsTree
    <3> QED BY <3>1, <3>2
  <2>3. CASE h = <<q[1]>>
    BY <2>1, <2>2, <2>3 DEF MayHold
  <2>4. CASE h # <<q[1]>>
    BY <2>1, <2>2, <2>4
  <2> QED BY <2>3, <2>4
<1> QED BY <1>1 DEF Forest, IsTree

-----------------------------------------------------------------------------
(***************************************************************************)
(* Making way and making files.                                            *)
(***************************************************************************)

\* What is removed with something that is no folder is nothing but that.
LEMMA NothingBelow ==
  ASSUME NEW t \in Forest, NEW h \in Paths, t[h].kind # "dir", NEW q \in Gone(h), q # h
  PROVE  t[q].kind = "none"
<1>1. q \in Paths
  BY DEF Gone
<1>2. CASE h[1] \in Folders /\ h = <<h[1]>>
  <2>1. q[1] = h[1]
    BY <1>1, <1>2, GoneFacts
  <2>2. q \in Folders \X Names /\ <<q[1]>> = h
    BY <1>1, <1>2, <2>1, PathFacts
  <2> QED BY <2>2 DEF Forest, IsTree
<1>3. CASE h[1] \in Folders /\ h[2] \in Names /\ h = <<h[1], h[2]>>
  BY <1>3, GoneFacts
<1> QED BY <1>2, <1>3, PathFacts

\* Where a path leads once what was in its way is gone and its folder is made:
\* where it led before, or to where there was nothing.
LEMMA HomeAfter ==
  ASSUME NEW t \in Forest, NEW p \in Paths,
         NEW gone, gone = {} \/ gone = Gone(Home(t, p))
  PROVE  /\ Without(t, gone) \in Forest
         /\ WithParent(Without(t, gone), p) \in Forest
         /\ \A q \in Paths : t[q].kind # "none" /\ q \notin gone =>
              /\ Without(t, gone)[q] = t[q]
              /\ WithParent(Without(t, gone), p)[q] = t[q]
         /\ \A q \in Paths : q \in gone => Without(t, gone)[q].kind = "none"
         /\ LET u == WithParent(Without(t, gone), p)
                h == Home(u, p)
            IN h # Nowhere =>
                 /\ h \in Paths
                 /\ h = Home(t, p) \/ t[h].kind = "none"
                 /\ \A f \in Folders, n \in Names : h = <<f, n>> => u[<<f>>].kind = "dir"
                 /\ \A f \in Folders : h = <<f>> => h = p /\ u = Without(t, gone)
<1> DEFINE v == Without(t, gone)
           u == WithParent(v, p)
           h == Home(u, p)
<1>1. Home(t, p) \in Paths \cup {Nowhere}
  BY HomeIn
<1>2. Closed(gone)
  BY <1>1, GoneClosed DEF Closed
<1>3. /\ v \in Forest
      /\ \A q \in Paths : /\ q \in gone => v[q].kind = "none"
                          /\ q \notin gone => v[q] = t[q]
  BY <1>2, WithoutFacts
<1> HIDE DEF v
<1>4. /\ u \in Forest
      /\ \A q \in Paths : v[q].kind # "none" => u[q] = v[q]
      /\ p = <<p[1]>> => u = v
      /\ v[<<p[1]>>].kind # "none" => u = v
      /\ \A f \in Folders, n \in Names : u[<<f, n>>] = v[<<f, n>>]
  BY <1>3, WithParentFacts
<1> HIDE DEF u
<1>5. ASSUME NEW q \in Paths, t[q].kind # "none", q \notin gone
      PROVE  v[q] = t[q] /\ u[q] = t[q]
  BY <1>3, <1>4, <1>5
<1>6. ASSUME h # Nowhere
      PROVE  /\ h \in Paths
             /\ h = Home(t, p) \/ t[h].kind = "none"
             /\ \A f \in Folders, n \in Names : h = <<f, n>> => u[<<f>>].kind = "dir"
             /\ \A f \in Folders : h = <<f>> => h = p /\ u = v
  <2>1. CASE p[1] \in Folders /\ p = <<p[1]>>
    <3>1. h = p /\ Home(t, p) = p
      BY <2>1, HomeOfTop
    <3> QED BY <1>4, <2>1, <3>1, PathFacts
  <2>2. CASE p[1] \in Folders /\ p[2] \in Names /\ p = <<p[1], p[2]>>
    <3>1. PICK g \in Folders : /\ g = Resolved(Tops(u), p[1])
                               /\ h = <<g, p[2]>> /\ u[<<g>>].kind = "dir"
      BY <1>6, <2>2, HomeOfTwo
    <3>2. h \in Paths /\ \A f \in Folders : h # <<f>>
      BY <2>2, <3>1, PathFacts
    <3>3. \A f \in Folders, n \in Names : h = <<f, n>> => f = g
      BY <2>2, <3>1, PathFacts
    \* no folder or link at the top is removed for a path of two
    <3>4. \A f \in Folders : <<f>> \notin gone
      <4>1. CASE Home(t, p) = Nowhere
        BY <4>1, GoneFacts
      <4>2. CASE Home(t, p) # Nowhere
        <5>1. PICK k \in Folders : Home(t, p) = <<k, p[2]>>
          BY <2>2, <4>2, HomeOfTwo
        <5>2. \A q \in gone : q = <<k, p[2]>>
          BY <2>2, <5>1, GoneFacts
        <5> QED BY <2>2, <5>2, PathFacts
      <4> QED BY <4>1, <4>2
    <3>5. \A f \in Folders : v[<<f>>] = t[<<f>>]
      BY <1>3, <3>4, PathFacts
    <3>6. CASE t[<<p[1]>>].kind # "none"
      <4>1. u = v
        BY <1>4, <2>2, <3>5, <3>6
      <4>2. Home(u, p) = Home(t, p)
        BY <3>5, <4>1, HomeSame
      <4> QED BY <3>1, <3>2, <3>3, <4>2
    <3>7. CASE t[<<p[1]>>].kind = "none"
      <4>1. u[<<p[1]>>].kind # "link"
        <5>1. Len(p) = 2 /\ v[<<p[1]>>].kind = "none"
          BY <2>2, <3>5, <3>7, PathFacts
        <5>2. u = [v EXCEPT ![<<p[1]>>] = Folder]
          BY <5>1 DEF u, WithParent
        <5> QED BY <1>3, <2>2, <5>2, NodeFacts, PathFacts DEF Forest
      <4>2. Resolved(Tops(u), p[1]) = p[1]
        BY <2>2, <4>1 DEF Resolved, Tops
      <4>3. h = p
        BY <2>2, <3>1, <4>2
      <4>4. p \in Folders \X Names
        BY <2>2
      <4>5. t[p].kind = "none"
        BY <3>7, <4>4 DEF Forest, IsTree
      <4> QED BY <3>1, <3>2, <3>3, <4>3, <4>5
    <3> QED BY <3>6, <3>7
  <2> QED BY <2>1, <2>2, PathFacts
<1> QED BY <1>3, <1>4, <1>5, <1>6 DEF u, v

\* createFile makes the folder and takes a link away, and nothing else.
LEMMA OpenedFacts ==
  ASSUME tree \in Forest, NEW p \in Paths
  PROVE  /\ WithParent(tree, p) \in Forest
         /\ Opened(p) \in Forest
         /\ \A q \in Paths : tree[q].kind # "none" =>
              WithParent(tree, p)[q] = tree[q]
         /\ \A q \in Paths : tree[q].kind # "none" /\ q # Home(tree, p) =>
              Opened(p)[q] = tree[q]
         /\ \A q \in Paths : tree[q].kind = "file" => Opened(p)[q] = tree[q]
         /\ FileHome(p) # Nowhere =>
              /\ FileHome(p) \in Paths /\ Home(Opened(p), p) = FileHome(p)
              /\ \A f \in Folders, n \in Names :
                   FileHome(p) = <<f, n>> => Opened(p)[<<f>>].kind = "dir"
              /\ \A f \in Folders :
                   FileHome(p) = <<f>> => FileHome(p) = p /\ Opened(p)[p].kind # "dir"
<1> DEFINE w == WithParent(tree, p)
           gone == Replaced(tree, p)
           k == Home(tree, p)
           o == Opened(p)
<1>1. /\ w \in Forest
      /\ \A q \in Paths : tree[q].kind # "none" => w[q] = tree[q]
      /\ p = <<p[1]>> => w = tree
  BY WithParentFacts
<1>2. k \in Paths \cup {Nowhere}
  BY HomeIn
<1>3. gone = {} \/ (gone = Gone(k) /\ k \in Paths /\ tree[k].kind = "link")
  BY <1>2, NodeFacts DEF Replaced, At
<1>4. Closed(gone)
  BY <1>2, <1>3, GoneClosed DEF Closed
<1>5. \A q \in gone : q = k \/ tree[q].kind = "none"
  <2>1. CASE gone = {}
    BY <2>1
  <2>2. CASE gone = Gone(k) /\ k \in Paths /\ tree[k].kind = "link"
    BY <2>2, NothingBelow
  <2> QED BY <1>3, <2>1, <2>2
<1>6. gone # {} => tree[k].kind = "link"
  BY <1>3
<1> HIDE DEF w, gone
<1>7. /\ o \in Forest
      /\ \A q \in Paths : /\ q \in gone => o[q].kind = "none"
                          /\ q \notin gone => o[q] = w[q]
  <2>1. o = Without(w, gone)
    BY DEF Opened, w, gone
  <2> HIDE DEF o
  <2> QED BY <1>1, <1>4, <2>1, WithoutFacts
<1> HIDE DEF o
<1>8. ASSUME NEW q \in Paths, tree[q].kind # "none", q # k
      PROVE  o[q] = tree[q]
  BY <1>1, <1>5, <1>7, <1>8
<1>9. ASSUME NEW q \in Paths, tree[q].kind = "file"
      PROVE  o[q] = tree[q]
  <2>1. q \notin gone
    BY <1>5, <1>6, <1>9
  <2> QED BY <1>1, <1>7, <1>9, <2>1
<1>10. ASSUME FileHome(p) # Nowhere
       PROVE  /\ FileHome(p) \in Paths /\ Home(o, p) = FileHome(p)
              /\ \A f \in Folders, n \in Names :
                   FileHome(p) = <<f, n>> => o[<<f>>].kind = "dir"
              /\ \A f \in Folders :
                   FileHome(p) = <<f>> => FileHome(p) = p /\ o[p].kind # "dir"
  <2>1. FileHome(p) = Home(w, p) /\ At(w, p).kind # "dir"
    BY <1>10 DEF FileHome, w
  <2>2. Home(w, p) \in Paths /\ Home(w, p) # Nowhere
    BY <1>10, <2>1, HomeIn
  <2>3. w[Home(w, p)].kind # "dir"
    BY <2>1, <2>2 DEF At
  <2>4. CASE p[1] \in Folders /\ p = <<p[1]>>
    <3>1. Home(w, p) = p /\ Home(o, p) = p
      BY <2>4, HomeOfTop
    <3>2. o[p].kind # "dir"
      BY <1>7, <2>3, <3>1
    <3>3. \A f \in Folders, n \in Names : p # <<f, n>>
      BY <2>4, PathFacts
    <3> QED BY <2>1, <3>1, <3>2, <3>3
  <2>5. CASE p[1] \in Folders /\ p[2] \in Names /\ p = <<p[1], p[2]>>
    <3>1. PICK g \in Folders : Home(w, p) = <<g, p[2]>> /\ w[<<g>>].kind = "dir"
      BY <2>2, <2>5, HomeOfTwo
    <3>2. \A f \in Folders : <<f>> \notin gone
      <4>1. CASE gone = {}
        BY <4>1
      <4>2. CASE gone = Gone(k) /\ k \in Paths
        <5>0. k # Nowhere
          BY <4>2, PathFacts
        <5>1. PICK j \in Folders : k = <<j, p[2]>>
          BY <2>5, <5>0, HomeOfTwo
        <5>2. \A q \in gone : q = <<j, p[2]>>
          BY <2>5, <4>2, <5>1, GoneFacts
        <5> QED BY <2>5, <5>2, PathFacts
      <4> QED BY <1>3, <4>1, <4>2
    <3>3. \A f \in Folders : o[<<f>>] = w[<<f>>]
      BY <1>7, <3>2, PathFacts
    <3>4. Home(o, p) = Home(w, p)
      BY <3>3, HomeSame
    <3>5. /\ \A f \in Folders, n \in Names : Home(w, p) = <<f, n>> => f = g
          /\ \A f \in Folders : Home(w, p) # <<f>>
      BY <2>5, <3>1, PathFacts
    <3> QED BY <2>1, <2>2, <3>1, <3>3, <3>4, <3>5
  <2> QED BY <2>4, <2>5, PathFacts
<1> QED BY <1>1, <1>7, <1>8, <1>9, <1>10 DEF w, o

LEMMA FileIn ==
  ASSUME tree \in Forest, NEW p \in Paths, FileHome(p) # Nowhere
  PROVE  /\ FileAt(p) \in EntryFiles
         /\ tree[FileHome(p)].kind = "file" =>
              FileAt(p).good = tree[FileHome(p)].file.good
<1> DEFINE h == FileHome(p)
           o == Opened(p)
<1>1. /\ o \in Forest /\ h \in Paths
      /\ tree[h].kind = "file" => o[h] = tree[h]
  BY OpenedFacts
<1>2. FileAt(p) = Created(o[h].file)
  BY DEF FileAt
<1> HIDE DEF h, o
<1>3. o[h].file \in EntryFiles
  BY <1>1 DEF Forest, Nodes
<1>4. FileAt(p) \in EntryFiles /\ FileAt(p).good = o[h].file.good
  BY <1>2, <1>3, FileFacts
<1> QED BY <1>1, <1>4 DEF h

LEMMA WithFileFacts ==
  ASSUME tree \in Forest, NEW p \in Paths, FileHome(p) # Nowhere, NEW f \in EntryFiles
  PROVE  /\ WithFile(p, f) \in Forest
         /\ FileHome(p) \in Paths /\ Home(WithFile(p, f), p) = FileHome(p)
         /\ WithFile(p, f)[FileHome(p)] = File(f)
         /\ \A q \in Paths : q # FileHome(p) => WithFile(p, f)[q] = Opened(p)[q]
<1> DEFINE h == FileHome(p)
           o == Opened(p)
           u == WithFile(p, f)
<1>1. /\ o \in Forest /\ h \in Paths /\ Home(o, p) = h
      /\ \A g \in Folders, n \in Names : h = <<g, n>> => o[<<g>>].kind = "dir"
      /\ \A g \in Folders : h = <<g>> => h = p /\ o[p].kind # "dir"
  BY OpenedFacts
<1>2. u = [o EXCEPT ![h] = File(f)]
  BY DEF WithFile
<1> HIDE DEF h, o, u
<1>4. File(f) \in Nodes
  BY NodeFacts
<1>5. /\ u \in Forest /\ u[h] = File(f)
      /\ \A q \in Paths : q # h => u[q] = o[q]
  <2> DEFINE node == File(f)
  <2>1. MayHold(o, h, node)
    BY <1>1 DEF MayHold
  <2>2. node \in Nodes /\ u = [o EXCEPT ![h] = node] /\ o \in Forest /\ h \in Paths
    BY <1>1, <1>2, <1>4
  <2> HIDE DEF node
  <2>3. /\ u \in [Paths -> Nodes] /\ u[h] = node
        /\ \A q \in Paths : q # h => u[q] = o[q]
    BY <2>2 DEF Forest
  <2>4. u \in Forest
    BY <2>1, <2>2, <2>3, PutFacts
  <2> QED BY <2>3, <2>4 DEF node
<1>6. Home(u, p) = h
  <2>1. CASE p[1] \in Folders /\ p = <<p[1]>>
    <3>1. Home(u, p) = p /\ Home(o, p) = p
      BY <2>1, HomeOfTop
    <3> QED BY <1>1, <3>1
  <2>2. CASE p[1] \in Folders /\ p[2] \in Names /\ p = <<p[1], p[2]>>
    <3>1. h # Nowhere
      BY <1>1, PathFacts
    <3>2. PICK g \in Folders : h = <<g, p[2]>>
      BY <1>1, <2>2, <3>1, HomeOfTwo
    <3>3. \A j \in Folders : <<j>> \in Paths /\ <<j>> # h
      BY <2>2, <3>2, PathFacts
    <3>4. \A j \in Folders : u[<<j>>] = o[<<j>>]
      BY <1>5, <3>3
    <3> QED BY <1>1, <3>4, HomeSame
  <2> QED BY <2>1, <2>2, PathFacts
<1> QED BY <1>1, <1>5, <1>6 DEF h, o, u

-----------------------------------------------------------------------------
(***************************************************************************)
(* What every step has to show.                                            *)
(***************************************************************************)
LEMMA TreeInForest ==
  ASSUME StepInv
  PROVE  tree \in Forest /\ writer \in Writers
  BY TreesAre DEF StepInv, TypeOK, Forest, Writers

LEMMA OutFacts ==
  ASSUME NEW op \in {"none", "dir", "link", "file", "write", "nuke"},
         NEW p \in Paths \cup {Nowhere}, NEW o, o = Done(op, p) \/ o = Failed(op, p)
  PROVE  /\ o \in [op : {"none", "dir", "link", "file", "write", "nuke"},
                   path : Paths \cup {Nowhere}, ok : BOOLEAN]
         /\ o.op = op /\ o.path = p
         /\ ~Failed(op, p).ok
<1>1. \A ok \in BOOLEAN :
        [op |-> op, path |-> p, ok |-> ok] \in
          [op : {"none", "dir", "link", "file", "write", "nuke"},
           path : Paths \cup {Nowhere}, ok : BOOLEAN]
  OBVIOUS
<1>2. \E ok \in BOOLEAN : o = [op |-> op, path |-> p, ok |-> ok]
  BY DEF Done, Failed
<1>3. ~Failed(op, p).ok
  BY DEF Failed
<1> QED BY <1>1, <1>2, <1>3

LEMMA FaultFacts ==
  ASSUME StepInv, Fault
  PROVE  faults' \in 0 .. MaxFaults /\ faults' # 0
  BY ConstantsAssumption DEF StepInv, TypeOK, Fault

\* The files that are open are the writer's and those that failed calls lost.
LEMMA LeakKept ==
  ASSUME StepInv, faults' = faults \/ Fault,
         \/ writer'.open = writer.open /\ handles' = handles
         \/ writer'.open = writer.open /\ handles' = handles + 1 /\ Fault
         \/ writer' = NoWriter /\ handles' = handles - Closes(writer)
         \/ writer'.open = TRUE /\ handles' = handles + 1 - Closes(writer)
  PROVE  handles' \in Nat /\ faults' \in 0 .. MaxFaults /\ NoneLeaked'
<1>1. /\ handles \in Nat /\ faults \in 0 .. MaxFaults /\ MaxFaults \in Nat
      /\ handles - Closes(writer) \in 0 .. faults /\ Closes(writer) \in {0, 1}
  BY ConstantsAssumption DEF StepInv, TypeOK, NoneLeaked, Closes
<1>2. /\ faults' \in 0 .. MaxFaults /\ faults <= faults'
      /\ Fault => faults' = faults + 1
  BY <1>1, FaultFacts DEF Fault
<1>3. PICK c \in {0, 1} : c = Closes(writer)
  BY <1>1
<1>4. PICK d \in {0, 1} : d = Closes(writer)'
  BY DEF Closes
<1>5. \/ d = c /\ handles' = handles
      \/ d = c /\ handles' = handles + 1 /\ faults' = faults + 1
      \/ d = 0 /\ handles' = handles - c
      \/ d = 1 /\ handles' = handles + 1 - c
  BY <1>2, <1>3, <1>4 DEF Closes, NoWriter
<1>6. handles' \in Nat /\ handles' - d \in 0 .. faults'
  BY <1>1, <1>2, <1>3, <1>5
<1> QED BY <1>2, <1>4, <1>6 DEF NoneLeaked

LEMMA UnlinkedOpen ==
  ASSUME StepInv, NEW gone, writer' = Unlinked(writer, gone)
  PROVE  writer'.open = writer.open
  BY DEF StepInv, TypeOK, Unlinked

LEMMA StepFrom ==
  ASSUME StepInv, tree' \in Forest, writer' \in Writers, WriterInStep', RightType',
         handles' \in Nat, faults' \in 0 .. MaxFaults, NoneLeaked', onWindows' = onWindows,
         user' \in {"none", "nop", "entry"},
         NEW op \in {"none", "dir", "link", "file", "write", "nuke"},
         NEW p \in Paths \cup {Nowhere}, out' = Done(op, p) \/ out' = Failed(op, p)
  PROVE  StepInv'
<1>1. out' \in [op : {"none", "dir", "link", "file", "write", "nuke"},
                path : Paths \cup {Nowhere}, ok : BOOLEAN]
  BY OutFacts
<1>2. TypeOK'
  BY <1>1, TreesAre DEF StepInv, TypeOK, Forest, Writers
<1> QED BY <1>2 DEF StepInv

\* The writer stays in step while its file keeps its data.
LEMMA WriterKept ==
  ASSUME StepInv, writer' = writer,
         \A q \in Paths : tree[q].kind = "file" =>
            tree'[q].kind = "file" /\ tree'[q].file.good = tree[q].file.good
  PROVE  writer' \in Writers /\ WriterInStep'
<1>1. writer \in Writers /\ WriterInStep
  BY TreeInForest DEF StepInv
<1> QED BY <1>1 DEF WriterInStep, Writers

LEMMA WriterUnlinked ==
  ASSUME StepInv, NEW gone, writer' = Unlinked(writer, gone),
         \A q \in Paths : tree[q].kind = "file" /\ q \notin gone => tree'[q] = tree[q]
  PROVE  writer' \in Writers /\ WriterInStep'
<1>1. writer \in Writers /\ WriterInStep
  BY TreeInForest DEF StepInv
<1>2. CASE writer.home \in gone
  <2>1. writer' = [home |-> Nowhere, pos |-> writer.pos, open |-> writer.open,
                   woff |-> writer.woff]
    BY <1>1, <1>2 DEF Unlinked, Writers
  <2> QED BY <1>1, <2>1 DEF WriterInStep, Writers
<1>3. CASE writer.home \notin gone
  <2>1. writer' = writer
    BY <1>3 DEF Unlinked
  <2> QED BY <1>1, <1>3, <2>1 DEF WriterInStep, Writers
<1> QED BY <1>2, <1>3

LEMMA WriterClosed ==
  ASSUME writer' = NoWriter
  PROVE  writer' \in Writers /\ WriterInStep'
<1>1. writer' = [home |-> Nowhere, pos |-> 0, open |-> FALSE, woff |-> 0]
  BY DEF NoWriter
<1>2. writer'.open = FALSE
  BY <1>1
<1> QED BY <1>1, <1>2 DEF Writers, WriterInStep

LEMMA NothingMade ==
  ASSUME ~out'.ok
  PROVE  RightType'
  BY DEF RightType

-----------------------------------------------------------------------------
(***************************************************************************)
(* Folders.                                                                *)
(***************************************************************************)
LEMMA ClearedFacts ==
  ASSUME StepInv, NEW p \in Paths
  PROVE  /\ InTheWay(tree, p) = {} \/ InTheWay(tree, p) = Gone(Home(tree, p))
         /\ \A q \in InTheWay(tree, p) : q = Home(tree, p) \/ tree[q].kind = "none"
         /\ \A q \in Paths : tree[q].kind # "none" /\ q \notin InTheWay(tree, p) =>
              Cleared(p)[q] = tree[q] /\ WithParent(Cleared(p), p)[q] = tree[q]
         /\ Cleared(p) \in Forest /\ WithParent(Cleared(p), p) \in Forest
<1> DEFINE gone == InTheWay(tree, p)
           k == Home(tree, p)
<1>1. gone = {} \/ (gone = Gone(k) /\ ~IsDir(tree, p))
  BY DEF InTheWay
<1>2. k \in Paths \cup {Nowhere} /\ tree \in Forest
  BY HomeIn, TreeInForest
<1>3. ASSUME NEW q \in gone, q # k PROVE tree[q].kind = "none"
  <2>1. gone = Gone(k) /\ ~IsDir(tree, p)
    BY <1>1, <1>3
  <2>2. k # Nowhere
    BY <1>3, <2>1, GoneFacts
  <2>3. k \in Paths /\ tree[k].kind # "dir"
    BY <1>2, <2>1, <2>2 DEF IsDir, At
  <2> QED BY <1>2, <1>3, <2>1, <2>3, NothingBelow
<1>4. Cleared(p) = Without(tree, gone)
  BY DEF Cleared
<1> HIDE DEF gone
<1>5. gone = {} \/ gone = Gone(k)
  BY <1>1
<1>6. /\ Without(tree, gone) \in Forest
      /\ WithParent(Without(tree, gone), p) \in Forest
      /\ \A q \in Paths : tree[q].kind # "none" /\ q \notin gone =>
           /\ Without(tree, gone)[q] = tree[q]
           /\ WithParent(Without(tree, gone), p)[q] = tree[q]
  BY <1>2, <1>5, HomeAfter
<1> QED BY <1>3, <1>4, <1>5, <1>6 DEF gone

\* What makes way for a folder may be taken.
LEMMA ClearedKept ==
  ASSUME StepInv, NEW p \in Paths, out'.op = "dir", out'.path = p,
         NEW h, h = Home(tree, p) \/ tree[h].kind = "none",
         \A q \in Paths : tree[q].kind # "none" /\ q \notin InTheWay(tree, p) /\ q # h =>
            tree'[q] = tree[q]
  PROVE  Kept
<1> SUFFICES ASSUME NEW q \in Paths, q \notin MayLose, tree[q].kind \in {"file", "link"}
             PROVE  tree'[q] = tree[q]
  BY DEF Kept
<1>1. MayLose = {Home(tree, p), Home(tree', p)}
  BY DEF MayLose
<1>2. q # Home(tree, p) /\ q # h
  BY <1>1
<1>3. q \notin InTheWay(tree, p)
  BY <1>2, ClearedFacts
<1> QED BY <1>2, <1>3

LEMMA MkdirKeeps ==
  ASSUME StepInv, NEW p \in Paths, Mkdir(p)
  PROVE  StepInv' /\ Kept
<1> DEFINE gone == InTheWay(tree, p)
           u == WithParent(Cleared(p), p)
           h == Home(u, p)
<1>1. /\ out' = Done("dir", p) /\ writer' = Unlinked(writer, gone)
      /\ UNCHANGED <<user, handles, onWindows, faults>>
      /\ h # Nowhere
      /\ tree' = IF IsDir(tree, p) THEN tree ELSE [u EXCEPT ![h] = Folder]
  BY DEF Mkdir
<1>2. out'.op = "dir" /\ out'.path = p /\ tree \in Forest
  BY <1>1, OutFacts, TreeInForest
<1>3. /\ handles' \in Nat /\ faults' \in 0 .. MaxFaults /\ NoneLeaked'
      /\ user' \in {"none", "nop", "entry"}
  BY <1>1, UnlinkedOpen, LeakKept DEF StepInv, TypeOK
<1>4. CASE IsDir(tree, p)
  <2>1. gone = {} /\ tree' = tree
    BY <1>1, <1>4 DEF InTheWay
  <2>2. writer' \in Writers /\ WriterInStep'
    BY <1>1, <2>1, WriterUnlinked
  <2>3. RightType'
    BY <1>2, <1>4, <2>1 DEF RightType, IsDir
  <2>4. Kept
    BY <2>1 DEF Kept
  <2> QED BY <1>1, <1>2, <1>3, <2>1, <2>2, <2>3, <2>4, StepFrom
<1>5. CASE ~IsDir(tree, p)
  <2>1. /\ gone = {} \/ gone = Gone(Home(tree, p))
        /\ \A q \in Paths : tree[q].kind # "none" /\ q \notin gone => u[q] = tree[q]
        /\ u \in Forest
    BY ClearedFacts
  <2>2. u = WithParent(Without(tree, gone), p)
    BY DEF Cleared
  <2>3. tree' = [u EXCEPT ![h] = Folder]
    BY <1>1, <1>5
  <2>4. tree[Home(tree, p)].kind = "none" \/ Home(tree, p) \in gone \/ Home(tree, p) = Nowhere
    <3>1. CASE Home(tree, p) = Nowhere
      BY <3>1
    <3>2. CASE Home(tree, p) # Nowhere
      <4>1. Home(tree, p) \in Paths /\ At(tree, p) = tree[Home(tree, p)]
        BY <3>2, HomeIn DEF At
      <4>2. Home(tree, p) \in Gone(Home(tree, p))
        BY <4>1, GoneFacts
      <4> QED BY <1>5, <4>1, <4>2 DEF InTheWay
    <3> QED BY <3>1, <3>2
  <2> HIDE DEF gone
  <2>5. /\ h \in Paths /\ (h = Home(tree, p) \/ tree[h].kind = "none")
        /\ \A f \in Folders, n \in Names : h = <<f, n>> => u[<<f>>].kind = "dir"
    BY <1>1, <1>2, <2>1, <2>2, HomeAfter
  <2>6. tree[h].kind = "none" \/ h \in gone
    BY <1>1, <2>4, <2>5
  <2> HIDE DEF u, h
  <2>7. /\ tree' \in [Paths -> Nodes] /\ tree'[h] = Folder
        /\ \A q \in Paths : q # h => tree'[q] = u[q]
    BY <2>1, <2>3, <2>5, NodeFacts DEF Forest
  <2>8. MayHold(u, h, Folder) /\ Folder \in Nodes
    BY <2>5, NodeFacts DEF MayHold
  <2>9. tree' \in Forest
    BY <2>1, <2>5, <2>7, <2>8, PutFacts
  <2>10. \A q \in Paths : tree[q].kind = "file" /\ q \notin gone => tree'[q] = tree[q]
    BY <2>1, <2>6, <2>7
  <2>11. writer' \in Writers /\ WriterInStep'
    BY <1>1, <2>10, WriterUnlinked DEF gone
  <2>12. Home(tree', p) = h
    <3>1. CASE p[1] \in Folders /\ p = <<p[1]>>
      BY <3>1, HomeOfTop DEF h
    <3>2. CASE p[1] \in Folders /\ p[2] \in Names /\ p = <<p[1], p[2]>>
      <4>1. h # Nowhere
        BY <2>5, PathFacts
      <4>2. PICK g \in Folders : h = <<g, p[2]>>
        BY <3>2, <4>1, HomeOfTwo DEF h
      <4>3. \A f \in Folders : <<f>> \in Paths /\ <<f>> # h
        BY <3>2, <4>2, PathFacts
      <4>4. \A f \in Folders : tree'[<<f>>] = u[<<f>>]
        BY <2>7, <4>3
      <4> QED BY <4>4, HomeSame DEF h
    <3> QED BY <3>1, <3>2, PathFacts
  <2>13. RightType'
    <3>1. h # Nowhere
      BY <2>5, PathFacts
    <3>2. At(tree', p) = Folder
      BY <2>7, <2>12, <3>1 DEF At
    <3> QED BY <1>2, <3>2, NodeFacts DEF RightType
  <2>14. \A q \in Paths : tree[q].kind # "none" /\ q \notin gone /\ q # h => tree'[q] = tree[q]
    BY <2>1, <2>7
  <2>15. Kept
    BY <1>2, <2>5, <2>14, ClearedKept DEF gone
  <2> QED BY <1>1, <1>3, <2>9, <2>11, <2>13, <2>15, StepFrom
<1> QED BY <1>4, <1>5

LEMMA MkdirFailsKeeps ==
  ASSUME StepInv, NEW p \in Paths, MkdirFails(p)
  PROVE  StepInv' /\ Kept
<1> DEFINE gone == InTheWay(tree, p)
<1>1. /\ out' = Failed("dir", p) /\ writer' = Unlinked(writer, gone)
      /\ Fault /\ UNCHANGED <<user, handles, onWindows>>
      /\ tree' \in {Cleared(p), WithParent(Cleared(p), p)}
  BY DEF MkdirFails
<1>2. /\ tree' \in Forest
      /\ \A q \in Paths : tree[q].kind # "none" /\ q \notin gone => tree'[q] = tree[q]
  BY <1>1, ClearedFacts
<1>3. writer' \in Writers /\ WriterInStep'
  BY <1>1, <1>2, WriterUnlinked
<1>4. out'.op = "dir" /\ out'.path = p /\ ~out'.ok
  BY <1>1, OutFacts
<1>5. Kept
  BY <1>2, <1>4, ClearedKept
<1>6. /\ handles' \in Nat /\ faults' \in 0 .. MaxFaults /\ NoneLeaked'
      /\ user' \in {"none", "nop", "entry"}
  BY <1>1, UnlinkedOpen, LeakKept DEF StepInv, TypeOK
<1> QED BY <1>1, <1>2, <1>3, <1>4, <1>5, <1>6, NothingMade, StepFrom

-----------------------------------------------------------------------------
(***************************************************************************)
(* Files.                                                                  *)
(***************************************************************************)

\* A file was made at the place of p; what was there last may be gone.
LEMMA FileStep ==
  ASSUME StepInv, NEW p \in Paths, FileHome(p) # Nowhere, NEW f \in EntryFiles,
         tree' = WithFile(p, f), out'.op = "file", out'.path = p
  PROVE  /\ tree' \in Forest /\ RightType' /\ Kept
         /\ FileHome(p) \in Paths /\ tree'[FileHome(p)] = File(f)
         /\ \A q \in Paths : tree[q].kind = "file" /\ q # FileHome(p) => tree'[q] = tree[q]
<1> DEFINE h == FileHome(p)
<1>1. /\ tree \in Forest
      /\ \A q \in Paths : tree[q].kind # "none" /\ q # Home(tree, p) => Opened(p)[q] = tree[q]
      /\ \A q \in Paths : tree[q].kind = "file" => Opened(p)[q] = tree[q]
  BY TreeInForest, OpenedFacts
<1>2. /\ tree' \in Forest /\ h \in Paths /\ Home(tree', p) = h /\ tree'[h] = File(f)
      /\ \A q \in Paths : q # h => tree'[q] = Opened(p)[q]
  BY <1>1, WithFileFacts
<1>3. At(tree', p) = File(f)
  BY <1>2 DEF At
<1>4. RightType'
  BY <1>3, NodeFacts DEF RightType
<1>5. MayLose = {Home(tree, p), Home(tree', p)}
  BY DEF MayLose
<1>6. Kept
  BY <1>1, <1>2, <1>5 DEF Kept
<1> QED BY <1>1, <1>2, <1>4, <1>6

\* It was made as long as it was, or longer: the writer does not notice.
LEMMA FileStepWriter ==
  ASSUME StepInv, NEW p \in Paths, FileHome(p) # Nowhere, NEW f \in EntryFiles,
         f.good = FileAt(p).good,
         tree' = WithFile(p, f), out'.op = "file", out'.path = p, writer' = writer
  PROVE  writer' \in Writers /\ WriterInStep'
<1>1. /\ tree'[FileHome(p)] = File(f)
      /\ \A q \in Paths : tree[q].kind = "file" /\ q # FileHome(p) => tree'[q] = tree[q]
  BY FileStep
<1>2. tree[FileHome(p)].kind = "file" => f.good = tree[FileHome(p)].file.good
  BY TreeInForest, FileIn
<1>3. \A q \in Paths : tree[q].kind = "file" =>
        tree'[q].kind = "file" /\ tree'[q].file.good = tree[q].file.good
  BY <1>1, <1>2, NodeFacts
<1> QED BY <1>3, WriterKept

LEMMA OpenFailsKeeps ==
  ASSUME StepInv, NEW p \in Paths, OpenFails(p), Fault, UNCHANGED <<writer, user, onWindows>>,
         out' = Failed("file", p)
  PROVE  StepInv' /\ Kept
<1>1. /\ tree \in Forest /\ tree' \in Forest
      /\ \A q \in Paths : tree[q].kind # "none" /\ q # Home(tree, p) => tree'[q] = tree[q]
      /\ \A q \in Paths : tree[q].kind = "file" => tree'[q] = tree[q]
  BY TreeInForest, OpenedFacts DEF OpenFails
<1>2. out'.op = "file" /\ out'.path = p /\ ~out'.ok
  BY OutFacts
<1>3. writer' \in Writers /\ WriterInStep'
  BY <1>1, WriterKept
<1>4. MayLose = {Home(tree, p), Home(tree', p)}
  BY <1>2 DEF MayLose
<1>5. Kept
  BY <1>1, <1>4 DEF Kept
<1>6. /\ handles' \in Nat /\ faults' \in 0 .. MaxFaults /\ NoneLeaked'
      /\ user' \in {"none", "nop", "entry"}
  BY LeakKept DEF OpenFails, StepInv, TypeOK
<1> QED BY <1>1, <1>2, <1>3, <1>5, <1>6, NothingMade, StepFrom

LEMMA OpenedThenFailsKeeps ==
  ASSUME StepInv, NEW p \in Paths, OpenedThenFails(p), Fault,
         UNCHANGED <<writer, user, onWindows>>, out' = Failed("file", p)
  PROVE  StepInv' /\ Kept
<1>1. /\ FileHome(p) # Nowhere /\ tree' = WithFile(p, FileAt(p)) /\ handles' = handles + 1
  BY DEF OpenedThenFails
<1>2. out'.op = "file" /\ out'.path = p /\ ~out'.ok
  BY OutFacts
<1>3. FileAt(p) \in EntryFiles
  BY <1>1, TreeInForest, FileIn
<1>4. tree' \in Forest /\ Kept
  BY <1>1, <1>2, <1>3, FileStep
<1>5. writer' \in Writers /\ WriterInStep'
  BY <1>1, <1>2, <1>3, FileStepWriter
<1>6. /\ handles' \in Nat /\ faults' \in 0 .. MaxFaults /\ NoneLeaked'
      /\ user' \in {"none", "nop", "entry"}
  BY <1>1, LeakKept DEF StepInv, TypeOK
<1> QED BY <1>2, <1>4, <1>5, <1>6, NothingMade, StepFrom

LEMMA NopKeeps ==
  ASSUME StepInv, NEW p \in Paths, GetNopWriter(p)
  PROVE  StepInv' /\ Kept
<1>1. /\ user' = "nop" /\ writer' = writer /\ out' = Failed("none", p)
      /\ UNCHANGED <<tree, handles, onWindows, faults>>
  BY DEF GetNopWriter
<1>3. writer' \in Writers /\ WriterInStep'
  BY <1>1, WriterKept
<1>4. tree' \in Forest
  BY <1>1, TreeInForest
<1>5. handles' \in Nat /\ faults' \in 0 .. MaxFaults /\ NoneLeaked' /\ ~out'.ok
  BY <1>1, LeakKept, OutFacts
<1> QED BY <1>1, <1>3, <1>4, <1>5, NothingMade, StepFrom DEF Kept

LEMMA GetWriterKeeps ==
  ASSUME StepInv, NEW p \in Paths, NEW n \in Lengths, GetWriter(p, n)
  PROVE  StepInv' /\ Kept
<1> DEFINE f == WriterAt(FileAt(p), n)
<1>1. /\ FileHome(p) # Nowhere /\ n <= FileAt(p).good /\ tree' = WithFile(p, f)
      /\ writer' = [home |-> FileHome(p), pos |-> n, open |-> TRUE, woff |-> n]
      /\ user' = "entry" /\ out' = Done("file", p) /\ UNCHANGED <<onWindows, faults>>
      /\ handles' = handles + 1 - Closes(writer)
  BY DEF GetWriter, Cut, FormerClosed
<1>2. out'.op = "file" /\ out'.path = p /\ n \in Nat
  BY <1>1, OutFacts, ConstantsAssumption DEF Lengths
<1>3. FileAt(p) \in EntryFiles
  BY <1>1, TreeInForest, FileIn
<1>4. f \in EntryFiles /\ f.good = n
  BY <1>1, <1>2, <1>3, FileFacts
<1> HIDE DEF f
<1>5. /\ tree' \in Forest /\ RightType' /\ Kept
      /\ FileHome(p) \in Paths /\ tree'[FileHome(p)] = File(f)
  BY <1>1, <1>2, <1>4, FileStep
<1>6. writer'.pos = n /\ writer'.woff = n /\ writer'.home = FileHome(p) /\ writer' \in Writers
  BY <1>1, <1>2, <1>5 DEF Writers
<1>7. WriterInStep'
  BY <1>4, <1>5, <1>6, NodeFacts DEF WriterInStep
<1>8. handles' \in Nat /\ faults' \in 0 .. MaxFaults /\ NoneLeaked'
  <2>1. writer'.open = TRUE
    BY <1>1
  <2> QED BY <1>1, <2>1, LeakKept
<1> QED BY <1>1, <1>5, <1>6, <1>7, <1>8, StepFrom

LEMMA GetWriterFailsKeeps ==
  ASSUME StepInv, NEW p \in Paths, GetWriterFails(p)
  PROVE  StepInv' /\ Kept
<1>1. out' = Failed("file", p) /\ UNCHANGED <<writer, user, onWindows>>
  BY DEF GetWriterFails
<1>2. CASE Fault /\ OpenFails(p)
  BY <1>1, <1>2, OpenFailsKeeps
<1>3. CASE Fault /\ OpenedThenFails(p)
  BY <1>1, <1>3, OpenedThenFailsKeeps
<1>4. CASE UNCHANGED <<tree, handles, faults>>
  <2>1. /\ handles' \in Nat /\ faults' \in 0 .. MaxFaults /\ NoneLeaked' /\ ~out'.ok
        /\ user' \in {"none", "nop", "entry"}
    BY <1>1, <1>4, LeakKept, OutFacts DEF StepInv, TypeOK
  <2>2. writer' \in Writers /\ WriterInStep' /\ tree' \in Forest
    BY <1>1, <1>4, WriterKept, TreeInForest
  <2> QED BY <1>1, <1>4, <2>1, <2>2, NothingMade, StepFrom DEF Kept
<1> QED BY <1>2, <1>3, <1>4 DEF GetWriterFails

LEMMA PreallocateKeeps ==
  ASSUME StepInv, NEW p \in Paths, FileHome(p) # Nowhere, NEW n \in Lengths,
         tree' = WithFile(p, Preallocated(FileAt(p), n)),
         out' = Done("file", p) \/ out' = Failed("file", p),
         UNCHANGED <<writer, user, handles, onWindows>>, faults' = faults \/ Fault
  PROVE  StepInv' /\ Kept
<1> DEFINE f == Preallocated(FileAt(p), n)
<1>1. out'.op = "file" /\ out'.path = p /\ n \in Nat
  BY OutFacts, ConstantsAssumption DEF Lengths
<1>2. FileAt(p) \in EntryFiles
  BY TreeInForest, FileIn
<1>3. f \in EntryFiles /\ f.good = FileAt(p).good /\ tree' = WithFile(p, f)
  BY <1>1, <1>2, FileFacts
<1> HIDE DEF f
<1>4. tree' \in Forest /\ RightType' /\ Kept
  BY <1>1, <1>3, FileStep
<1>5. writer' \in Writers /\ WriterInStep'
  BY <1>1, <1>3, FileStepWriter
<1>6. /\ handles' \in Nat /\ faults' \in 0 .. MaxFaults /\ NoneLeaked'
      /\ user' \in {"none", "nop", "entry"}
  BY LeakKept DEF StepInv, TypeOK
<1> QED BY <1>4, <1>5, <1>6, StepFrom

LEMMA PreallocateFailsKeeps ==
  ASSUME StepInv, NEW p \in Paths, PreallocateFails(p)
  PROVE  StepInv' /\ Kept
<1>1. out' = Failed("file", p) /\ UNCHANGED <<writer, user, onWindows>> /\ Fault
  BY DEF PreallocateFails
<1>2. CASE OpenFails(p)
  BY <1>1, <1>2, OpenFailsKeeps
<1>3. CASE OpenedThenFails(p)
  BY <1>1, <1>3, OpenedThenFailsKeeps
<1>4. ASSUME FileHome(p) # Nowhere, NEW n \in Lengths,
             tree' = WithFile(p, Preallocated(FileAt(p), n)), UNCHANGED handles
      PROVE  StepInv' /\ Kept
  BY <1>1, <1>4, PreallocateKeeps
<1> QED BY <1>2, <1>3, <1>4 DEF PreallocateFails

\* Writing the target into a file that was just made makes a file of it.
LEMMA TextAsFile ==
  ASSUME StepInv, NEW p \in Paths, FileHome(p) # Nowhere, NEW n, NEW c \in EntryFiles,
         Appended(c, 0, 0, n) \in EntryFiles,
         tree' = [WithFile(p, c) EXCEPT ![FileHome(p)].file = Appended(@, 0, 0, n)]
  PROVE  tree' = WithFile(p, Appended(c, 0, 0, n))
<1> DEFINE h == FileHome(p)
           f == Appended(c, 0, 0, n)
<1>1. Opened(p) \in [Paths -> Nodes] /\ h \in Paths
  BY TreeInForest, OpenedFacts DEF Forest
<1>2. [File(c) EXCEPT !.file = f] = File(f)
  BY NodeFacts DEF File, Node
<1>3. File(c).file = c
  BY NodeFacts
<1> DEFINE w == WithFile(p, c)
<1>4. w = [Opened(p) EXCEPT ![h] = File(c)]
  BY DEF WithFile
<1>5. tree' = [w EXCEPT ![h] = [w[h] EXCEPT !.file = Appended(w[h].file, 0, 0, n)]]
  OBVIOUS
<1> HIDE DEF w, h
<1>6. w[h] = File(c)
  BY <1>1, <1>4
<1>7. tree' = [w EXCEPT ![h] = File(f)]
  BY <1>2, <1>3, <1>5, <1>6
<1> HIDE DEF f
<1>8. tree' = [Opened(p) EXCEPT ![h] = File(f)]
  BY <1>1, <1>4, <1>7
<1> QED BY <1>8 DEF WithFile, f, h

\* On Windows a link is a file with its target in it.
LEMMA SymlinkAsTextKeeps ==
  ASSUME StepInv, NEW p \in Paths, NEW n \in Lengths, SymlinkAsText(p, n)
  PROVE  StepInv' /\ Kept
<1> DEFINE h == FileHome(p)
           c == WriterAt(FileAt(p), 0)
           f == Appended(c, 0, 0, n)
<1>1. /\ h # Nowhere /\ writer' = NoWriter /\ UNCHANGED <<user, onWindows>>
      /\ tree' = [WithFile(p, c) EXCEPT ![h].file = Appended(@, 0, 0, n)]
      /\ \/ out' = Done("file", p) /\ UNCHANGED faults
         \/ out' = Failed("file", p) /\ Fault
      /\ handles' = handles + 1 - Closes(writer) - 1
  BY DEF SymlinkAsText, Cut, FormerClosed
<1>2. out'.op = "file" /\ out'.path = p /\ n \in Nat
  BY <1>1, OutFacts, ConstantsAssumption DEF Lengths
<1>3. FileAt(p) \in EntryFiles
  BY <1>1, TreeInForest, FileIn
<1>4. c \in EntryFiles /\ f \in EntryFiles
  BY <1>2, <1>3, FileFacts
<1> HIDE DEF c
<1>5. tree' = WithFile(p, f)
  BY <1>1, <1>4, TextAsFile DEF c
<1> HIDE DEF f
<1>6. tree' \in Forest /\ RightType' /\ Kept
  BY <1>1, <1>2, <1>4, <1>5, FileStep
<1>7. /\ handles' \in Nat /\ faults' \in 0 .. MaxFaults /\ NoneLeaked'
      /\ user' \in {"none", "nop", "entry"}
  <2>1. handles' = handles - Closes(writer)
    BY <1>1 DEF StepInv, TypeOK, Closes
  <2> QED BY <1>1, <2>1, LeakKept DEF StepInv, TypeOK
<1> QED BY <1>1, <1>6, <1>7, WriterClosed, StepFrom

-----------------------------------------------------------------------------
(***************************************************************************)
(* Links, the writer, and the end of the sink.                             *)
(***************************************************************************)
LEMMA SymlinkKeeps ==
  ASSUME StepInv, NEW p \in Paths, NEW to \in Targets(p), Symlink(p, to)
  PROVE  StepInv' /\ Kept
<1> DEFINE k == Home(tree, p)
           gone == Gone(k)
           v == Without(tree, gone)
           u == WithParent(v, p)
           h == Home(u, p)
<1>1. /\ h # Nowhere /\ tree' = [u EXCEPT ![h] = Link(to)]
      /\ writer' = Unlinked(writer, gone) /\ out' = Done("link", p)
      /\ UNCHANGED <<user, handles, onWindows, faults>>
  BY DEF Symlink
<1>2. out'.op = "link" /\ out'.path = p /\ tree \in Forest
  BY <1>1, OutFacts, TreeInForest
<1>3. /\ u \in Forest
      /\ \A q \in Paths : tree[q].kind # "none" /\ q \notin gone => u[q] = tree[q]
      /\ \A q \in Paths : q \in gone => v[q].kind = "none"
      /\ h \in Paths /\ (h = k \/ tree[h].kind = "none")
      /\ \A f \in Folders, n \in Names : h = <<f, n>> => u[<<f>>].kind = "dir"
      /\ \A f \in Folders : h = <<f>> => h = p /\ u = v
  BY <1>1, <1>2, HomeAfter
<1>4. h = k => h \in gone
  BY <1>3, GoneFacts
<1>5. \A f \in Folders : h = <<f>> => u[h].kind # "dir"
  <2> SUFFICES ASSUME NEW f \in Folders, h = <<f>> PROVE u[h].kind # "dir"
    OBVIOUS
  <2>1. h = p /\ u = v /\ p[1] = f /\ p = <<p[1]>>
    BY <1>3, PathFacts
  <2>2. k = p
    BY <2>1, HomeOfTop
  <2>3. h \in gone
    BY <1>4, <2>1, <2>2
  <2> QED BY <1>3, <2>1, <2>3
<1>6. MayLose = gone
  BY <1>2 DEF MayLose
<1> HIDE DEF k, gone, v, u, h
<1>7. Link(to) \in Nodes /\ Link(to).kind = "link"
  BY NodeFacts DEF Targets
<1>8. /\ tree' \in [Paths -> Nodes] /\ tree'[h] = Link(to)
      /\ \A q \in Paths : q # h => tree'[q] = u[q]
  BY <1>1, <1>3, <1>7 DEF Forest
<1>9. MayHold(u, h, Link(to))
  BY <1>3, <1>5 DEF MayHold
<1>10. tree' \in Forest
  BY <1>3, <1>7, <1>8, <1>9, PutFacts
<1>11. \A q \in Paths : tree[q].kind # "none" /\ q \notin gone => tree'[q] = tree[q]
  BY <1>3, <1>4, <1>8
<1>12. writer' \in Writers /\ WriterInStep'
  BY <1>1, <1>11, WriterUnlinked
<1>13. Kept
  BY <1>6, <1>11 DEF Kept
<1>14. Home(tree', p) = h
  <2>1. CASE p[1] \in Folders /\ p = <<p[1]>>
    BY <2>1, HomeOfTop DEF h
  <2>2. CASE p[1] \in Folders /\ p[2] \in Names /\ p = <<p[1], p[2]>>
    <3>1. PICK g \in Folders : h = <<g, p[2]>>
      BY <1>1, <2>2, HomeOfTwo DEF h
    <3>2. \A f \in Folders : <<f>> \in Paths /\ <<f>> # h
      BY <2>2, <3>1, PathFacts
    <3>3. \A f \in Folders : tree'[<<f>>] = u[<<f>>]
      BY <1>8, <3>2
    <3> QED BY <3>3, HomeSame DEF h
  <2> QED BY <2>1, <2>2, PathFacts
<1>15. At(tree', p) = Link(to)
  BY <1>1, <1>8, <1>14 DEF At
<1>16. RightType'
  BY <1>2, <1>7, <1>15 DEF RightType
<1>17. /\ handles' \in Nat /\ faults' \in 0 .. MaxFaults /\ NoneLeaked'
       /\ user' \in {"none", "nop", "entry"}
  BY <1>1, UnlinkedOpen, LeakKept DEF StepInv, TypeOK
<1> QED BY <1>1, <1>10, <1>12, <1>13, <1>16, <1>17, StepFrom

LEMMA SymlinkFailsKeeps ==
  ASSUME StepInv, NEW p \in Paths, SymlinkFails(p)
  PROVE  StepInv' /\ Kept
<1>1. PICK gone \in SUBSET Gone(Home(tree, p)) :
        /\ IsTree(Without(tree, gone))
        /\ tree' \in {Without(tree, gone), WithParent(Without(tree, gone), p)}
        /\ writer' = Unlinked(writer, gone)
  BY DEF SymlinkFails
<1>2. out' = Failed("link", p) /\ Fault /\ UNCHANGED <<user, handles, onWindows>>
  BY DEF SymlinkFails
<1> DEFINE v == Without(tree, gone)
<1>3. v \in Forest /\ \A q \in Paths : q \notin gone => v[q] = tree[q]
  BY <1>1, TreeInForest, WithoutFacts DEF Forest
<1>4. tree' \in {v, WithParent(v, p)}
  BY <1>1
<1> HIDE DEF v
<1>5. WithParent(v, p) \in Forest /\ \A q \in Paths : v[q].kind # "none" => WithParent(v, p)[q] = v[q]
  BY <1>3, WithParentFacts
<1>6. /\ tree' \in Forest
      /\ \A q \in Paths : tree[q].kind # "none" /\ q \notin gone => tree'[q] = tree[q]
  BY <1>3, <1>4, <1>5
<1>7. out'.op = "link" /\ out'.path = p /\ ~out'.ok
  BY <1>2, OutFacts
<1>8. writer' \in Writers /\ WriterInStep'
  BY <1>1, <1>6, WriterUnlinked
<1>9. MayLose = Gone(Home(tree, p))
  BY <1>7 DEF MayLose
<1>10. Kept
  BY <1>1, <1>6, <1>9 DEF Kept
<1>11. /\ handles' \in Nat /\ faults' \in 0 .. MaxFaults /\ NoneLeaked'
       /\ user' \in {"none", "nop", "entry"}
  BY <1>1, <1>2, UnlinkedOpen, LeakKept DEF StepInv, TypeOK
<1> QED BY <1>2, <1>6, <1>7, <1>8, <1>10, <1>11, NothingMade, StepFrom

\* What is written is data from its place, and the writer moves by as much.
LEMMA WriteKeeps ==
  ASSUME StepInv, NEW n \in Lengths, NEW m \in 0 .. n, Write(n, m)
  PROVE  StepInv' /\ Kept
<1> DEFINE h == writer.home
           g == Appended(tree[h].file, writer.pos, writer.woff, m)
<1>1. /\ writer.open
      /\ tree' = IF h = Nowhere THEN tree ELSE [tree EXCEPT ![h].file = g]
      /\ writer' = [writer EXCEPT !.pos = @ + m, !.woff = @ + m]
      /\ out' = Failed("write", Nowhere) /\ (faults' = faults \/ Fault)
      /\ UNCHANGED <<user, handles, onWindows>>
  BY DEF Write, Counted
<1>2. tree \in Forest /\ writer \in Writers /\ m \in Nat
  BY TreeInForest, ConstantsAssumption DEF Lengths
<1>3. /\ writer.pos = writer.woff /\ writer.woff \in Nat /\ h \in Paths \cup {Nowhere}
      /\ h # Nowhere => tree[h].kind = "file" /\ tree[h].file.good = writer.woff
  BY <1>1, <1>2 DEF StepInv, WriterInStep, Writers
<1>4. writer' = [home |-> h, pos |-> writer.woff + m, open |-> writer.open,
                 woff |-> writer.woff + m]
  BY <1>1, <1>2, <1>3 DEF Writers
<1>5. /\ writer' \in Writers /\ writer'.home = h
      /\ writer'.pos = writer.woff + m /\ writer'.woff = writer.woff + m
  BY <1>2, <1>3, <1>4 DEF Writers
<1>6. out'.op = "write" /\ out'.path = Nowhere /\ ~out'.ok
  BY <1>1, OutFacts
<1>7. MayLose = {h}
  BY <1>6 DEF MayLose
<1>8. /\ handles' \in Nat /\ faults' \in 0 .. MaxFaults /\ NoneLeaked'
      /\ user' \in {"none", "nop", "entry"}
  BY <1>1, LeakKept DEF StepInv, TypeOK
<1>9. CASE h = Nowhere
  <2>1. WriterInStep'
    BY <1>5, <1>9 DEF WriterInStep
  <2> QED BY <1>1, <1>2, <1>5, <1>6, <1>8, <1>9, <2>1, NothingMade, StepFrom DEF Kept
<1>10. CASE h # Nowhere
  <2>1. h \in Paths /\ tree[h].file \in EntryFiles /\ tree[h].kind = "file"
    BY <1>2, <1>3, <1>10 DEF Forest, Nodes
  <2>2. g \in EntryFiles /\ g.good = writer.woff + m
    <3>1. g = Appended(tree[h].file, writer.woff, writer.woff, m)
      BY <1>3
    <3>2. tree[h].file.good = writer.woff
      BY <1>3, <1>10
    <3> HIDE DEF g
    <3> QED BY <1>2, <1>3, <2>1, <3>1, <3>2, FileFacts
  <2>3. tree' = [tree EXCEPT ![h] = [tree[h] EXCEPT !.file = g]]
    BY <1>1, <1>10
  <2> HIDE DEF g, h
  <2> DEFINE node == [tree[h] EXCEPT !.file = g]
  <2>4. node \in Nodes /\ node.kind = "file" /\ node.file = g
    BY <1>2, <2>1, <2>2 DEF Forest, Nodes
  <2> HIDE DEF node
  <2>5. /\ tree' \in [Paths -> Nodes] /\ tree'[h] = node
        /\ \A q \in Paths : q # h => tree'[q] = tree[q]
    BY <1>2, <2>1, <2>3, <2>4 DEF Forest, node
  <2>6. MayHold(tree, h, node)
    <3>1. \A f \in Folders, x \in Names : h = <<f, x>> => tree[<<f>>].kind = "dir"
      <4> SUFFICES ASSUME NEW f \in Folders, NEW x \in Names, h = <<f, x>>
                   PROVE  tree[<<f>>].kind = "dir"
        OBVIOUS
      <4>1. h \in Folders \X Names /\ h[1] = f
        BY PathFacts
      <4> QED BY <1>2, <2>1, <4>1 DEF Forest, IsTree
    <3> QED BY <2>1, <3>1 DEF MayHold
  <2>7. tree' \in Forest
    BY <1>2, <2>1, <2>4, <2>5, <2>6, PutFacts
  <2>8. WriterInStep'
    BY <1>5, <2>2, <2>4, <2>5 DEF WriterInStep
  <2>9. Kept
    BY <1>7, <2>5 DEF Kept
  <2> QED BY <1>1, <1>5, <1>6, <1>8, <2>7, <2>8, <2>9, NothingMade, StepFrom
<1> QED BY <1>9, <1>10

\* The writer is closed and nothing else happens.
LEMMA ClosedKeeps ==
  ASSUME StepInv, CloseWriter \/ Close
  PROVE  StepInv' /\ Kept
<1>1. /\ writer' = NoWriter /\ out' = Failed("none", Nowhere)
      /\ UNCHANGED <<tree, onWindows, faults>>
      /\ handles' = handles - Closes(writer)
      /\ user' \in {"none", user}
  BY DEF CloseWriter, Close
<1>2. /\ handles' \in Nat /\ faults' \in 0 .. MaxFaults /\ NoneLeaked' /\ ~out'.ok
      /\ user' \in {"none", "nop", "entry"} /\ tree' \in Forest
  BY <1>1, LeakKept, OutFacts, TreeInForest DEF StepInv, TypeOK
<1> QED BY <1>1, <1>2, WriterClosed, NothingMade, StepFrom DEF Kept

LEMMA NukeKeeps ==
  ASSUME StepInv, Nuke \/ NukeFails
  PROVE  StepInv' /\ Kept
<1>1. /\ writer' = NoWriter /\ user' = "none" /\ UNCHANGED onWindows
      /\ handles' = handles - Closes(writer)
      /\ faults' = faults \/ Fault
      /\ out' = Done("nuke", Nowhere) \/ out' = Failed("nuke", Nowhere)
  BY DEF Nuke, NukeFails
<1>2. out'.op = "nuke"
  BY <1>1, OutFacts
<1>3. tree' \in Forest
  <2>1. CASE tree' = Without(tree, Paths)
    <3>1. Closed(Paths)
      BY PathFacts DEF Closed
    <3> QED BY <2>1, <3>1, TreeInForest, WithoutFacts
  <2>2. ASSUME NEW gone, IsTree(Without(tree, gone)), tree' = Without(tree, gone)
        PROVE  tree' \in Forest
    BY <2>2, TreeInForest, WithoutFacts DEF Forest
  <2> QED BY <2>1, <2>2 DEF Nuke, NukeFails
<1>4. RightType' /\ Kept
  BY <1>2 DEF RightType, Kept, MayLose
<1>5. handles' \in Nat /\ faults' \in 0 .. MaxFaults /\ NoneLeaked'
  BY <1>1, LeakKept
<1> QED BY <1>1, <1>3, <1>4, <1>5, WriterClosed, StepFrom

-----------------------------------------------------------------------------
LEMMA InitStepInv == Init => StepInv
<1> SUFFICES ASSUME Init PROVE StepInv
  OBVIOUS
<1>1. tree \in Trees /\ IsTree(tree)
  BY ConstantsAssumption DEF Init
<1>2. writer = [home |-> Nowhere, pos |-> 0, open |-> FALSE, woff |-> 0]
  BY DEF Init, NoWriter
<1>3. writer \in Writers /\ writer.open = FALSE
  BY <1>2 DEF Writers
<1>4. /\ out \in [op : {"none", "dir", "link", "file", "write", "nuke"},
                  path : Paths \cup {Nowhere}, ok : BOOLEAN]
      /\ ~out.ok
  BY OutFacts DEF Init
<1>5. handles = 0 /\ faults = 0 /\ user = "none" /\ onWindows \in BOOLEAN /\ 0 \in 0 .. MaxFaults
  BY ConstantsAssumption DEF Init
<1>8. Closes(writer) = 0
  BY <1>3 DEF Closes
<1>7. NoneLeaked
  BY <1>5, <1>8 DEF NoneLeaked
<1>6. TypeOK
  BY <1>1, <1>3, <1>4, <1>5 DEF TypeOK, Writers
<1> QED BY <1>3, <1>4, <1>6, <1>7 DEF StepInv, WriterInStep, RightType

LEMMA NextKeeps ==
  ASSUME StepInv, Next
  PROVE  StepInv' /\ Kept
<1>1. ASSUME NEW p \in Paths, Call(p) PROVE StepInv' /\ Kept
  <2>1. CASE Mkdir(p)
    BY <2>1, MkdirKeeps
  <2>2. CASE MkdirFails(p)
    BY <2>2, MkdirFailsKeeps
  <2>3. CASE GetNopWriter(p)
    BY <2>3, NopKeeps
  <2>4. CASE GetWriterFails(p)
    BY <2>4, GetWriterFailsKeeps
  <2>5. CASE PreallocateFails(p)
    BY <2>5, PreallocateFailsKeeps
  <2>6. CASE SymlinkFails(p)
    BY <2>6, SymlinkFailsKeeps
  <2>7. ASSUME NEW n \in Lengths, GetWriter(p, n) PROVE StepInv' /\ Kept
    BY <2>7, GetWriterKeeps
  <2>8. ASSUME NEW n \in Lengths, Preallocate(p, n) PROVE StepInv' /\ Kept
    BY <2>8, PreallocateKeeps DEF Preallocate
  <2>9. ASSUME NEW n \in Lengths, SymlinkAsText(p, n) PROVE StepInv' /\ Kept
    BY <2>9, SymlinkAsTextKeeps
  <2>10. ASSUME NEW to \in Targets(p), Symlink(p, to) PROVE StepInv' /\ Kept
    BY <2>10, SymlinkKeeps
  <2> QED BY <1>1, <2>1, <2>2, <2>3, <2>4, <2>5, <2>6, <2>7, <2>8, <2>9, <2>10 DEF Call
<1>2. ASSUME NEW n \in Lengths, NEW m \in 0 .. n, Write(n, m) PROVE StepInv' /\ Kept
  BY <1>2, WriteKeeps
<1>3. CASE CloseWriter \/ Close
  BY <1>3, ClosedKeeps
<1>4. CASE Nuke \/ NukeFails
  BY <1>4, NukeKeeps
<1> QED BY <1>1, <1>2, <1>3, <1>4 DEF Next

LEMMA NextStepInv == StepInv /\ [Next]_vars => StepInv'
<1>1. StepInv /\ UNCHANGED vars => StepInv'
  BY DEF vars, StepInv, TypeOK, WriterInStep, RightType, NoneLeaked, Closes
<1> QED BY <1>1, NextKeeps

-----------------------------------------------------------------------------
(***************************************************************************)
(* What the sink makes is a tree: nothing is ever below what is no folder. *)
(***************************************************************************)
THEOREM FolderSinkTyped == Spec => []TypeOK
<1>1. StepInv => TypeOK
  BY DEF StepInv
<1> QED BY InitStepInv, NextStepInv, <1>1, PTL DEF Spec

(***************************************************************************)
(* WriteOffset is the place of the writer in its file, and the file has    *)
(* the data up to there, unless the program removed it.                    *)
(***************************************************************************)
THEOREM FolderWriterInStep == Spec => []WriterInStep
<1>1. StepInv => WriterInStep
  BY DEF StepInv
<1> QED BY InitStepInv, NextStepInv, <1>1, PTL DEF Spec

(***************************************************************************)
(* A call that succeeded has made what it was called for, through however  *)
(* many links its path leads.                                              *)
(***************************************************************************)
THEOREM FolderRightType == Spec => []RightType
<1>1. StepInv => RightType
  BY DEF StepInv
<1> QED BY InitStepInv, NextStepInv, <1>1, PTL DEF Spec

(***************************************************************************)
(* Each file the sink opens is closed again by the sink, once, whichever   *)
(* of its calls and of its writer's come in between, but for one at most   *)
(* for each call of the operating system that failed.                      *)
(***************************************************************************)
THEOREM FolderNoneLeaked == Spec => []NoneLeaked
<1>1. StepInv => NoneLeaked
  BY DEF StepInv
<1> QED BY InitStepInv, NextStepInv, <1>1, PTL DEF Spec

(***************************************************************************)
(* A call takes nothing from another entry, whatever it meets on its way   *)
(* and wherever it fails.                                                  *)
(***************************************************************************)
THEOREM FolderOthersKept == Spec => OthersKept
<1>1. StepInv /\ [Next]_vars =>
        [\A h \in Paths \ MayLose : tree[h].kind \in {"file", "link"} => tree'[h] = tree[h]]_vars
  BY NextKeeps DEF Kept
<1> QED BY InitStepInv, NextStepInv, <1>1, PTL DEF Spec, OthersKept

-----------------------------------------------------------------------------
(***************************************************************************)
(* Every place of the destination keeps the contract of sink.go. Only what *)
(* is a file after a step has to be looked at: nothing else can have the   *)
(* writer open on it, so that the contract lets it come from anywhere.     *)
(***************************************************************************)
Bare == {node \in Nodes : node.kind # "file" /\ node.file = Missing}

\* What is no file has no data.
Plain == \A q \in Paths : tree[q].kind # "file" => tree[q] \in Bare

\* Every place is as it was, or has become something that is no file.
MadeFrom(t, u) == \A q \in Paths : u[q] = t[q] \/ u[q] \in Bare

PlacesKeep == \A h \in Paths : [Contract(h)!Next]_(Contract(h)!vars)

LEMMA BareFacts ==
  /\ Nothing \in Bare /\ Folder \in Bare
  /\ \A to \in Folders \cup {Elsewhere} : Link(to) \in Bare
  /\ \A f : File(f).kind = "file" /\ File(f).file = f
<1>1. \A kind : Node(kind) = [kind |-> kind, file |-> Missing, to |-> Elsewhere]
  BY DEF Node
<1>2. Nothing.file = Missing /\ Folder.file = Missing
  BY <1>1 DEF Nothing, Folder
<1>3. \A to : Link(to) = [kind |-> "link", file |-> Missing, to |-> to]
  BY <1>1 DEF Link
<1>4. \A f : File(f) = [kind |-> "file", file |-> f, to |-> Elsewhere]
  BY <1>1 DEF File
<1> QED BY <1>2, <1>3, <1>4, NodeFacts DEF Bare

\* Both modules have EntryFile for what is done to a file.
LEMMA SameFiles ==
  ASSUME NEW h, NEW f
  PROVE  /\ Contract(h)!Created(f) = Created(f)
         /\ \A n : /\ Contract(h)!WriterAt(f, n) = WriterAt(f, n)
                   /\ Contract(h)!Preallocated(f, n) = Preallocated(f, n)
         /\ \A pos, at, n : Contract(h)!Appended(f, pos, at, n) = Appended(f, pos, at, n)
<1>1. \A a, b : /\ Contract(h)!Greater(a, b) = Greater(a, b)
               /\ Contract(h)!Lesser(a, b) = Lesser(a, b)
  BY DEF Contract!Greater, Greater, Contract!Lesser, Lesser
<1>2. \A g : Contract(h)!Created(g) = Created(g)
  BY <1>1 DEF Contract!Created, Created
<1>3. \A n : Contract(h)!WriterAt(f, n) = WriterAt(f, n)
  BY <1>1 DEF Contract!WriterAt, WriterAt
<1>4. \A n : Contract(h)!Preallocated(f, n) = Preallocated(f, n)
  BY <1>1, <1>2 DEF Contract!Preallocated, Preallocated
<1>5. \A pos, at, n : Contract(h)!Appended(f, pos, at, n) = Appended(f, pos, at, n)
  BY <1>1 DEF Contract!Appended, Appended
<1> QED BY <1>2, <1>3, <1>4, <1>5

LEMMA MadeWithout ==
  ASSUME NEW t, NEW u, MadeFrom(t, u), NEW gone
  PROVE  MadeFrom(t, Without(u, gone))
  BY BareFacts DEF MadeFrom, Without

LEMMA MadeWith ==
  ASSUME NEW t, NEW u \in [Paths -> Nodes], MadeFrom(t, u), NEW h, NEW node \in Bare
  PROVE  MadeFrom(t, [u EXCEPT ![h] = node])
  BY DEF MadeFrom

LEMMA MadeWithParent ==
  ASSUME NEW t, NEW u \in [Paths -> Nodes], MadeFrom(t, u), NEW p
  PROVE  MadeFrom(t, WithParent(u, p))
  BY MadeWith, BareFacts DEF WithParent

LEMMA PlainFrom ==
  ASSUME Plain, NEW h, tree'[h].kind = "file",
         \A q \in Paths \ {h} : tree'[q] = tree[q] \/ tree'[q] \in Bare
  PROVE  Plain'
  BY DEF Plain

-----------------------------------------------------------------------------
\* The writer is the one of before, or is closed, or its file is removed.
WriterLeft == writer' \in {writer, NoWriter} \/ \E gone : writer' = Unlinked(writer, gone)

LEMMA OffsetLeft ==
  ASSUME StepInv, WriterLeft, NEW h \in Paths
  PROVE  OffsetOf(h)' \in {OffsetOf(h), -1}
<1>1. writer \in Writers /\ h # Nowhere
  BY TreeInForest, PathFacts
<1>2. CASE writer' \in {writer, NoWriter}
  BY <1>2 DEF NoWriter, OffsetOf
<1>3. ASSUME NEW gone, writer' = Unlinked(writer, gone)
      PROVE  OffsetOf(h)' \in {OffsetOf(h), -1}
  <2>1. writer' = writer \/ writer'.home = Nowhere
    BY <1>1, <1>3 DEF Unlinked, Writers
  <2> QED BY <1>1, <2>1 DEF OffsetOf
<1> QED BY <1>2, <1>3 DEF WriterLeft

LEMMA UntouchedRefines ==
  ASSUME NEW h \in Paths, tree'[h] = tree[h], OffsetOf(h)' \in {OffsetOf(h), -1}
  PROVE  [Contract(h)!Next]_(Contract(h)!vars)
<1>1. DestOf(h)' = DestOf(h)
  BY DEF DestOf
<1>2. CASE OffsetOf(h)' = OffsetOf(h)
  BY <1>1, <1>2 DEF Contract!vars
<1>3. CASE OffsetOf(h)' = -1
  BY <1>1, <1>3 DEF Contract!Next, Contract!CloseWriter, Contract!NoWriter
<1> QED BY <1>2, <1>3

\* Nobody writes to what is no file.
LEMMA BareRefines ==
  ASSUME StepInv', NEW h \in Paths, tree'[h] \in Bare
  PROVE  Contract(h)!Next
<1>1. OffsetOf(h)' = -1
  <2>1. h # Nowhere
    BY PathFacts
  <2> QED BY <2>1 DEF StepInv, WriterInStep, OffsetOf, Bare
<1>2. /\ DestOf(h)' = [kind |-> tree'[h].kind, file |-> Missing]
      /\ tree'[h].kind \in {"none", "dir", "link"}
  BY DEF DestOf, Bare, Nodes
<1>3. Contract(h)!Missing = Missing
  BY DEF Contract!Missing, Missing
<1> QED BY <1>1, <1>2, <1>3
        DEF Contract!Next, Contract!Mkdir, Contract!Symlink, Contract!Remove,
            Contract!Folder, Contract!Link, Contract!Nothing, Contract!NoWriter

LEMMA BareStep ==
  ASSUME StepInv, StepInv', Plain, MadeFrom(tree, tree'), WriterLeft
  PROVE  Plain' /\ PlacesKeep
<1>1. Plain'
  BY DEF Plain, MadeFrom
<1>2. ASSUME NEW h \in Paths PROVE [Contract(h)!Next]_(Contract(h)!vars)
  <2>1. CASE tree'[h] = tree[h]
    BY <2>1, OffsetLeft, UntouchedRefines
  <2>2. CASE tree'[h] \in Bare
    BY <2>2, BareRefines
  <2> QED BY <2>1, <2>2 DEF MadeFrom
<1> QED BY <1>1, <1>2 DEF PlacesKeep

-----------------------------------------------------------------------------
(***************************************************************************)
(* Calls that leave no file changed.                                       *)
(***************************************************************************)
LEMMA MadeFromItself == MadeFrom(tree, tree)
  BY DEF MadeFrom

LEMMA ClearedMade ==
  ASSUME StepInv, NEW p \in Paths
  PROVE  /\ MadeFrom(tree, Cleared(p)) /\ MadeFrom(tree, WithParent(Cleared(p), p))
         /\ Cleared(p) \in [Paths -> Nodes] /\ WithParent(Cleared(p), p) \in [Paths -> Nodes]
<1>1. MadeFrom(tree, Cleared(p))
  BY MadeFromItself, MadeWithout DEF Cleared
<1>2. Cleared(p) \in [Paths -> Nodes] /\ WithParent(Cleared(p), p) \in [Paths -> Nodes]
  BY ClearedFacts DEF Forest
<1> QED BY <1>1, <1>2, MadeWithParent

LEMMA MkdirMade ==
  ASSUME StepInv, NEW p \in Paths, Mkdir(p) \/ MkdirFails(p)
  PROVE  MadeFrom(tree, tree') /\ WriterLeft
<1> DEFINE u == WithParent(Cleared(p), p)
<1>1. /\ MadeFrom(tree, Cleared(p)) /\ MadeFrom(tree, u) /\ u \in [Paths -> Nodes]
  BY ClearedMade
<1>2. WriterLeft
  BY DEF Mkdir, MkdirFails, WriterLeft
<1>3. tree' \in {tree, Cleared(p), u} \/ \E h : tree' = [u EXCEPT ![h] = Folder]
  BY DEF Mkdir, MkdirFails
<1> HIDE DEF u
<1> QED BY <1>1, <1>2, <1>3, MadeFromItself, MadeWith, BareFacts

LEMMA SymlinkMade ==
  ASSUME StepInv, NEW p \in Paths,
         SymlinkFails(p) \/ \E to \in Targets(p) : Symlink(p, to)
  PROVE  MadeFrom(tree, tree') /\ WriterLeft
<1>1. \A gone : /\ MadeFrom(tree, Without(tree, gone))
                /\ MadeFrom(tree, WithParent(Without(tree, gone), p))
                /\ Without(tree, gone) \in [Paths -> Nodes]
  <2> SUFFICES ASSUME NEW gone
               PROVE  /\ MadeFrom(tree, Without(tree, gone))
                      /\ MadeFrom(tree, WithParent(Without(tree, gone), p))
                      /\ Without(tree, gone) \in [Paths -> Nodes]
    OBVIOUS
  <2>1. MadeFrom(tree, Without(tree, gone)) /\ Without(tree, gone) \in [Paths -> Nodes]
    BY MadeFromItself, MadeWithout, TreeInForest, WithoutFacts
  <2> QED BY <2>1, MadeWithParent
<1>2. CASE SymlinkFails(p)
  BY <1>1, <1>2 DEF SymlinkFails, WriterLeft
<1>3. ASSUME NEW to \in Targets(p), Symlink(p, to)
      PROVE  MadeFrom(tree, tree') /\ WriterLeft
  <2> DEFINE v == Without(tree, Gone(Home(tree, p)))
             u == WithParent(v, p)
  <2>1. /\ tree' = [u EXCEPT ![Home(u, p)] = Link(to)]
        /\ writer' = Unlinked(writer, Gone(Home(tree, p)))
    BY <1>3 DEF Symlink
  <2>2. MadeFrom(tree, u) /\ v \in [Paths -> Nodes]
    BY <1>1
  <2>3. Home(tree, p) \in Paths \cup {Nowhere} /\ tree \in Forest
    BY HomeIn, TreeInForest
  <2>4. u \in [Paths -> Nodes]
    BY <2>3, HomeAfter DEF Forest
  <2>5. Link(to) \in Bare
    BY BareFacts DEF Targets
  <2> HIDE DEF u
  <2> QED BY <2>1, <2>2, <2>4, <2>5, MadeWith DEF WriterLeft
<1> QED BY <1>2, <1>3

LEMMA OpenFailsMade ==
  ASSUME StepInv, NEW p \in Paths, OpenFails(p), writer' = writer
  PROVE  MadeFrom(tree, tree') /\ WriterLeft
<1>1. tree \in [Paths -> Nodes]
  BY TreeInForest DEF Forest
<1>2. MadeFrom(tree, WithParent(tree, p))
  BY <1>1, MadeFromItself, MadeWithParent
<1>3. MadeFrom(tree, Opened(p))
  BY <1>2, MadeWithout DEF Opened
<1> QED BY <1>2, <1>3, MadeFromItself DEF OpenFails, WriterLeft

LEMMA NukeMade ==
  ASSUME Nuke \/ NukeFails
  PROVE  MadeFrom(tree, tree') /\ WriterLeft
  BY MadeFromItself, MadeWithout DEF Nuke, NukeFails, WriterLeft

-----------------------------------------------------------------------------
(***************************************************************************)
(* Calls that make a file, and writes.                                     *)
(***************************************************************************)

\* A file is opened as it was, or it is new.
LEMMA FileWas ==
  ASSUME StepInv, Plain, NEW p \in Paths, NEW h \in Paths, h = FileHome(p)
  PROVE  DestOf(h).kind # "dir" /\ FileAt(p) = Contract(h)!OpenedHere
<1> DEFINE w == WithParent(tree, p)
<1>1. tree \in Forest /\ tree \in [Paths -> Nodes]
  BY TreeInForest DEF Forest
<1>2. /\ \A q \in Paths : tree[q].kind # "none" => w[q] = tree[q]
      /\ tree[h].kind = "file" => Opened(p)[h] = tree[h]
  BY <1>1, OpenedFacts
<1>3. h = Home(w, p) /\ At(w, p).kind # "dir"
  BY PathFacts DEF FileHome
<1>4. w[h].kind # "dir"
  BY <1>3, PathFacts DEF At
<1>5. tree[h].kind # "dir"
  BY <1>2, <1>4
<1>6. MadeFrom(tree, Opened(p))
  BY <1>1, MadeFromItself, MadeWithParent, MadeWithout DEF Opened
<1>7. FileAt(p) = Created(Opened(p)[h].file)
  BY DEF FileAt
<1> HIDE DEF w
<1>8. Opened(p)[h].file = tree[h].file
  <2>1. CASE tree[h].kind = "file"
    BY <1>2, <2>1
  <2>2. CASE tree[h].kind # "file"
    BY <1>2, <1>6, <2>2 DEF Plain, MadeFrom, Bare
  <2> QED BY <2>1, <2>2
<1>9. DestOf(h) = [kind |-> tree[h].kind, file |-> tree[h].file]
  BY DEF DestOf
<1> QED BY <1>2, <1>5, <1>7, <1>8, <1>9, SameFiles DEF Contract!OpenedHere

\* What such a call has to show: what it did at the place of its file.
LEMMA FileStepPlaces ==
  ASSUME StepInv, StepInv', Plain, NEW p \in Paths, NEW h \in Paths, h = FileHome(p),
         NEW f \in EntryFiles, tree' = WithFile(p, f), WriterLeft \/ writer'.home = h,
         DestOf(h)' = Contract(h)!File(f) => Contract(h)!Next
  PROVE  Plain' /\ PlacesKeep
<1>1. tree \in Forest /\ tree \in [Paths -> Nodes]
  BY TreeInForest DEF Forest
<1>2. tree'[h] = File(f) /\ \A q \in Paths : q # h => tree'[q] = Opened(p)[q]
  <2>1. FileHome(p) # Nowhere
    BY PathFacts
  <2> QED BY <1>1, <2>1, WithFileFacts
<1>3. MadeFrom(tree, Opened(p))
  BY <1>1, MadeFromItself, MadeWithParent, MadeWithout DEF Opened
<1>4. DestOf(h)' = Contract(h)!File(f)
  BY <1>2, BareFacts DEF DestOf, Contract!File
<1>5. Contract(h)!Next
  BY <1>4
<1>6. \A q \in Paths \ {h} : tree'[q] = tree[q] \/ tree'[q] \in Bare
  BY <1>2, <1>3 DEF MadeFrom
<1>7. Plain'
  <2>1. tree'[h].kind = "file"
    BY <1>2, BareFacts
  <2> QED BY <1>6, <2>1, PlainFrom
<1>8. ASSUME NEW q \in Paths, q # h PROVE [Contract(q)!Next]_(Contract(q)!vars)
  <2>1. OffsetOf(q)' \in {OffsetOf(q), -1}
    <3>1. CASE WriterLeft
      BY <3>1, OffsetLeft
    <3>2. CASE writer'.home = h
      BY <1>8, <3>2 DEF OffsetOf
    <3> QED BY <3>1, <3>2
  <2>2. CASE tree'[q] = tree[q]
    BY <2>1, <2>2, UntouchedRefines
  <2>3. CASE tree'[q] \in Bare
    BY <2>3, BareRefines
  <2> QED BY <1>6, <1>8, <2>2, <2>3
<1> QED BY <1>5, <1>7, <1>8 DEF PlacesKeep

LEMMA GetWriterPlaces ==
  ASSUME StepInv, StepInv', Plain, NEW p \in Paths, NEW n \in Lengths, GetWriter(p, n)
  PROVE  Plain' /\ PlacesKeep
<1> DEFINE f == WriterAt(FileAt(p), n)
<1>1. PICK h \in Paths : h = FileHome(p)
  BY TreeInForest, OpenedFacts DEF GetWriter
<1>2. /\ n <= FileAt(p).good /\ tree' = WithFile(p, f) /\ n \in Nat
      /\ writer' = [home |-> h, pos |-> n, open |-> TRUE, woff |-> n]
  BY <1>1, ConstantsAssumption DEF GetWriter, Cut, Lengths
<1>3. f \in EntryFiles
  <2>1. FileAt(p) \in EntryFiles
    BY TreeInForest, FileIn DEF GetWriter
  <2> QED BY <1>2, <2>1, FileFacts
<1>4. DestOf(h).kind # "dir" /\ FileAt(p) = Contract(h)!OpenedHere
  BY <1>1, FileWas
<1>5. OffsetOf(h)' = n
  BY <1>2 DEF OffsetOf
<1>6. f = Contract(h)!WriterAt(Contract(h)!OpenedHere, n)
  BY <1>4, SameFiles
<1> HIDE DEF f
<1>7. DestOf(h)' = Contract(h)!File(f) => Contract(h)!GetWriter(n)
  BY <1>2, <1>4, <1>5, <1>6 DEF Contract!GetWriter
<1>8. DestOf(h)' = Contract(h)!File(f) => Contract(h)!Next
  BY <1>7 DEF Contract!Next
<1>9. writer'.home = h
  BY <1>2
<1> QED BY <1>1, <1>2, <1>3, <1>8, <1>9, FileStepPlaces

LEMMA PreallocatePlaces ==
  ASSUME StepInv, StepInv', Plain, NEW p \in Paths, FileHome(p) # Nowhere,
         NEW n \in Lengths, writer' = writer,
         tree' = WithFile(p, Preallocated(FileAt(p), n))
  PROVE  Plain' /\ PlacesKeep
<1> DEFINE f == Preallocated(FileAt(p), n)
<1>1. PICK h \in Paths : h = FileHome(p)
  BY TreeInForest, OpenedFacts
<1>2. f \in EntryFiles
  <2>1. FileAt(p) \in EntryFiles /\ n \in Nat
    BY TreeInForest, FileIn, ConstantsAssumption DEF Lengths
  <2> QED BY <2>1, FileFacts
<1>3. DestOf(h).kind # "dir" /\ FileAt(p) = Contract(h)!OpenedHere
  BY <1>1, FileWas
<1>4. OffsetOf(h)' = OffsetOf(h)
  BY DEF OffsetOf
<1>5. f = Contract(h)!Preallocated(Contract(h)!OpenedHere, n)
  BY <1>3, SameFiles
<1>6. tree' = WithFile(p, f)
  OBVIOUS
<1> HIDE DEF f
<1>7. DestOf(h)' = Contract(h)!File(f) => Contract(h)!Preallocate(n)
  BY <1>3, <1>4, <1>5 DEF Contract!Preallocate
<1>8. DestOf(h)' = Contract(h)!File(f) => Contract(h)!Next
  BY <1>7 DEF Contract!Next
<1>9. WriterLeft
  BY DEF WriterLeft
<1> QED BY <1>1, <1>2, <1>6, <1>8, <1>9, FileStepPlaces

\* A file that was opened only is as long as one that was given no more room.
LEMMA OpenedThenFailsPlaces ==
  ASSUME StepInv, StepInv', Plain, NEW p \in Paths, OpenedThenFails(p), writer' = writer
  PROVE  Plain' /\ PlacesKeep
<1>1. FileHome(p) # Nowhere /\ tree' = WithFile(p, FileAt(p))
  BY DEF OpenedThenFails
<1>2. 0 \in Lengths
  BY ConstantsAssumption DEF Lengths
<1>3. Preallocated(FileAt(p), 0) = FileAt(p)
  <2> DEFINE g == Opened(p)[FileHome(p)].file
  <2>1. g \in EntryFiles
    BY <1>1, TreeInForest, OpenedFacts DEF Forest, Nodes
  <2>2. FileAt(p) = Created(g)
    BY DEF FileAt
  <2> HIDE DEF g
  <2>3. Created(g) = [len |-> Greater(g.len, 0), good |-> g.good] /\ g.len \in {-1} \cup Nat
    BY <2>1 DEF Created, EntryFiles
  <2>4. Greater(Greater(Greater(g.len, 0), 0), 0) = Greater(g.len, 0)
    BY <2>3 DEF Greater
  <2> QED BY <2>2, <2>3, <2>4 DEF Preallocated, Created
<1> QED BY <1>1, <1>2, <1>3, PreallocatePlaces

LEMMA SymlinkAsTextPlaces ==
  ASSUME StepInv, StepInv', Plain, NEW p \in Paths, NEW n \in Lengths, SymlinkAsText(p, n)
  PROVE  Plain' /\ PlacesKeep
<1> DEFINE c == WriterAt(FileAt(p), 0)
           f == Appended(c, 0, 0, n)
<1>1. PICK h \in Paths : h = FileHome(p)
  BY TreeInForest, OpenedFacts DEF SymlinkAsText
<1>2. c \in EntryFiles /\ f \in EntryFiles
  <2>1. FileAt(p) \in EntryFiles /\ n \in Nat
    BY TreeInForest, FileIn, ConstantsAssumption DEF Lengths, SymlinkAsText
  <2> QED BY <2>1, FileFacts
<1>3. tree' = WithFile(p, f)
  BY <1>2, TextAsFile DEF SymlinkAsText, Cut
<1>4. DestOf(h).kind # "dir" /\ FileAt(p) = Contract(h)!OpenedHere
  BY <1>1, FileWas
<1>5. writer' = NoWriter
  BY DEF SymlinkAsText
<1>6. OffsetOf(h)' = -1
  BY <1>5 DEF OffsetOf, NoWriter
<1>7. f = Contract(h)!Appended(Contract(h)!WriterAt(Contract(h)!OpenedHere, 0), 0, 0, n)
  <2>1. Contract(h)!WriterAt(Contract(h)!OpenedHere, 0) = c
    BY <1>4, SameFiles
  <2> HIDE DEF c
  <2>2. f = Contract(h)!Appended(c, 0, 0, n)
    BY SameFiles
  <2> QED BY <2>1, <2>2
<1> HIDE DEF f
<1>8. DestOf(h)' = Contract(h)!File(f) => Contract(h)!SymlinkAsText(n)
  BY <1>4, <1>6, <1>7 DEF Contract!SymlinkAsText, Contract!NoWriter
<1>9. DestOf(h)' = Contract(h)!File(f) => Contract(h)!Next
  BY <1>8 DEF Contract!Next
<1>10. WriterLeft
  BY <1>5 DEF WriterLeft
<1> QED BY <1>1, <1>2, <1>3, <1>9, <1>10, FileStepPlaces

LEMMA WritePlaces ==
  ASSUME StepInv, StepInv', Plain, NEW n \in Lengths, NEW m \in 0 .. n, Write(n, m)
  PROVE  Plain' /\ PlacesKeep
<1>1. /\ writer.open /\ writer \in Writers /\ tree \in [Paths -> Nodes]
      /\ writer.pos = writer.woff /\ m \in Lengths
      /\ writer.home # Nowhere => tree[writer.home].kind = "file"
  BY TreeInForest, ConstantsAssumption DEF Write, StepInv, WriterInStep, Forest, Lengths
<1>2. /\ tree' = IF writer.home = Nowhere THEN tree
                 ELSE [tree EXCEPT ![writer.home].file =
                         Appended(@, writer.pos, writer.woff, m)]
      /\ writer' = [writer EXCEPT !.pos = @ + m, !.woff = @ + m]
  BY DEF Write, Counted
<1>3. /\ writer'.home = writer.home /\ writer'.open /\ writer'.woff = writer.woff + m
      /\ writer.woff \in Nat
  BY <1>1, <1>2 DEF Writers
<1>4. CASE writer.home = Nowhere
  <2>1. ASSUME NEW h \in Paths PROVE OffsetOf(h)' = OffsetOf(h)
    BY <1>3, <1>4, PathFacts DEF OffsetOf
  <2>2. Plain' /\ tree' = tree
    BY <1>2, <1>4 DEF Plain
  <2> QED BY <2>1, <2>2, UntouchedRefines DEF PlacesKeep
<1>5. CASE writer.home # Nowhere
  <2>1. PICK h \in Paths : h = writer.home
    BY <1>1, <1>5 DEF Writers
  <2>2. /\ tree' = [tree EXCEPT ![h].file = Appended(@, writer.woff, writer.woff, m)]
        /\ tree[h].kind = "file"
    BY <1>1, <1>2, <1>5, <2>1
  <2>3. /\ tree'[h].kind = "file"
        /\ tree'[h].file = Appended(tree[h].file, writer.woff, writer.woff, m)
        /\ \A q \in Paths \ {h} : tree'[q] = tree[q]
    BY <1>1, <2>2 DEF Nodes
  <2>4. Plain'
    BY <2>3, PlainFrom
  <2>5. Contract(h)!Next
    <3>1. OffsetOf(h) = writer.woff /\ OffsetOf(h)' = writer.woff + m /\ OffsetOf(h) # -1
      BY <1>1, <1>3, <2>1 DEF OffsetOf
    <3>2. DestOf(h).file = tree[h].file
      BY DEF DestOf
    <3>3. DestOf(h)' = Contract(h)!File(
            Contract(h)!Appended(DestOf(h).file, OffsetOf(h), OffsetOf(h), m))
      <4> DEFINE g == Appended(tree[h].file, writer.woff, writer.woff, m)
      <4>1. Contract(h)!Appended(tree[h].file, writer.woff, writer.woff, m) = g
        BY SameFiles
      <4>2. tree'[h].kind = "file" /\ tree'[h].file = g
        BY <2>3
      <4> HIDE DEF g
      <4>3. Contract(h)!Appended(DestOf(h).file, OffsetOf(h), OffsetOf(h), m) = g
        BY <3>1, <3>2, <4>1
      <4> QED BY <4>2, <4>3 DEF DestOf, Contract!File
    <3>4. Contract(h)!Write(m)
      BY <3>1, <3>3 DEF Contract!Write, Contract!NoWriter
    <3> QED BY <1>1, <3>4 DEF Contract!Next
  <2>6. ASSUME NEW q \in Paths, q # h PROVE [Contract(q)!Next]_(Contract(q)!vars)
    <3>1. OffsetOf(q)' = OffsetOf(q)
      BY <1>3, <2>1, <2>6 DEF OffsetOf
    <3> QED BY <2>3, <2>6, <3>1, UntouchedRefines
  <2> QED BY <2>4, <2>5, <2>6 DEF PlacesKeep
<1> QED BY <1>4, <1>5

-----------------------------------------------------------------------------
LEMMA CallPlaces ==
  ASSUME StepInv, StepInv', Plain, NEW p \in Paths, Call(p)
  PROVE  Plain' /\ PlacesKeep
<1>1. CASE Mkdir(p) \/ MkdirFails(p)
  BY <1>1, MkdirMade, BareStep
<1>2. CASE GetNopWriter(p)
  BY <1>2, MadeFromItself, BareStep DEF GetNopWriter, WriterLeft
<1>3. CASE GetWriterFails(p)
  <2>1. writer' = writer
    BY <1>3 DEF GetWriterFails
  <2>2. CASE OpenFails(p)
    BY <2>1, <2>2, OpenFailsMade, BareStep
  <2>3. CASE OpenedThenFails(p)
    BY <2>1, <2>3, OpenedThenFailsPlaces
  <2>4. CASE UNCHANGED tree
    BY <2>1, <2>4, MadeFromItself, BareStep DEF WriterLeft
  <2> QED BY <1>3, <2>2, <2>3, <2>4 DEF GetWriterFails
<1>4. CASE PreallocateFails(p)
  <2>1. writer' = writer
    BY <1>4 DEF PreallocateFails
  <2>2. CASE OpenFails(p)
    BY <2>1, <2>2, OpenFailsMade, BareStep
  <2>3. CASE OpenedThenFails(p)
    BY <2>1, <2>3, OpenedThenFailsPlaces
  <2>4. ASSUME FileHome(p) # Nowhere, NEW n \in Lengths,
               tree' = WithFile(p, Preallocated(FileAt(p), n))
        PROVE  Plain' /\ PlacesKeep
    BY <2>1, <2>4, PreallocatePlaces
  <2> QED BY <1>4, <2>2, <2>3, <2>4 DEF PreallocateFails
<1>5. CASE SymlinkFails(p) \/ \E to \in Targets(p) : Symlink(p, to)
  BY <1>5, SymlinkMade, BareStep
<1>6. ASSUME NEW n \in Lengths, GetWriter(p, n) PROVE Plain' /\ PlacesKeep
  BY <1>6, GetWriterPlaces
<1>7. ASSUME NEW n \in Lengths, Preallocate(p, n) PROVE Plain' /\ PlacesKeep
  BY <1>7, PreallocatePlaces DEF Preallocate
<1>8. ASSUME NEW n \in Lengths, SymlinkAsText(p, n) PROVE Plain' /\ PlacesKeep
  BY <1>8, SymlinkAsTextPlaces
<1> QED BY <1>1, <1>2, <1>3, <1>4, <1>5, <1>6, <1>7, <1>8 DEF Call

LEMMA StepPlaces ==
  ASSUME StepInv, StepInv', Plain, [Next]_vars
  PROVE  Plain' /\ PlacesKeep
<1>1. ASSUME NEW p \in Paths, Call(p) PROVE Plain' /\ PlacesKeep
  BY <1>1, CallPlaces
<1>2. ASSUME NEW n \in Lengths, NEW m \in 0 .. n, Write(n, m) PROVE Plain' /\ PlacesKeep
  BY <1>2, WritePlaces
<1>3. CASE CloseWriter \/ Close
  BY <1>3, MadeFromItself, BareStep DEF CloseWriter, Close, WriterLeft
<1>4. CASE Nuke \/ NukeFails
  BY <1>4, NukeMade, BareStep
<1>5. CASE UNCHANGED vars
  BY <1>5, MadeFromItself, BareStep DEF vars, WriterLeft
<1> QED BY <1>1, <1>2, <1>3, <1>4, <1>5 DEF Next

LEMMA InitPlaces ==
  ASSUME Init
  PROVE  Plain /\ \A h \in Paths : Contract(h)!Init
<1>1. /\ tree \in Trees /\ writer.open = FALSE
      /\ \A q \in Paths : tree[q].kind # "file" => tree[q].file = Missing
  BY ConstantsAssumption DEF Init, NoWriter
<1>2. tree \in [Paths -> Nodes]
  BY <1>1, TreesAre
<1>3. Plain
  BY <1>1, <1>2 DEF Plain, Bare
<1>4. ASSUME NEW h \in Paths PROVE Contract(h)!Init
  <2>1. OffsetOf(h) = -1
    BY <1>1 DEF OffsetOf
  <2>2. /\ DestOf(h) \in [kind : {"none", "dir", "link", "file"}, file : EntryFiles]
        /\ DestOf(h).kind # "file" => DestOf(h).file = Missing
    BY <1>1, <1>2 DEF DestOf, Nodes
  <2> QED BY <2>1, <2>2
          DEF Contract!Init, Contract!Kinds, Contract!EntryFiles, Contract!Missing,
              Contract!NoWriter, EntryFiles, Missing
<1> QED BY <1>3, <1>4

(***************************************************************************)
(* Every place of the destination is what sink.go promises of it, whatever *)
(* the calls for the other places do, and wherever a call fails.           *)
(***************************************************************************)
THEOREM FolderKeepsContract == Spec => KeepsContract
<1>1. Init => \A h \in Paths : Contract(h)!Init
  BY InitPlaces
<1>2. Init => StepInv /\ Plain
  BY InitPlaces, InitStepInv
<1>3. (StepInv /\ Plain) /\ [Next]_vars => (StepInv /\ Plain)'
  BY NextStepInv, StepPlaces
<1>4. (StepInv /\ Plain) /\ [Next]_vars =>
        [\A h \in Paths : [Contract(h)!Next]_(Contract(h)!vars)]_vars
  BY NextStepInv, StepPlaces DEF PlacesKeep
<1> QED BY <1>1, <1>2, <1>3, <1>4, PTL DEF Spec, KeepsContract
=============================================================================
