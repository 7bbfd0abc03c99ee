----------------------------- MODULE TreeProofs -----------------------------
(***************************************************************************)
(* The splits keep TreeInv, and what follows: what the leaves hold between *)
(* them is the table, and Tree implements KeyMap.                          *)
(***************************************************************************)
EXTENDS TreeStepsProofs

\* c gets a parent.  Only p, if there is one, changes otherwise; if it is cut,
\* nx has its right part.
Hangs(t, x, z, nx, lo, hi, lo2, hi2) ==
  /\ pc'[t] = "strip" /\ loc'[t] = z
  /\ z.n = x.n /\ z.leaf = x.leaf /\ z.child = x.child /\ z.p = x.p /\ z.next = nx
  /\ \A u \in Thread \ {t} : pc'[u] = pc[u] /\ loc'[u] = loc[u] /\ req'[u] = req[u]
  /\ NodeId \subseteq NodeId'
  /\ \A y \in NodeId : /\ node'[y].lock = node[y].lock /\ node'[y].prev = node[y].prev /\ lo2[y] = lo[y]
                       /\ hi2[y] = hi[y] \/ (nx # Nil /\ y = x.p)
                       /\ y # x.p => SameBody(node[y], node'[y]) /\ node'[y].ver = node[y].ver
  /\ nx # Nil => nx \notin NodeId /\ hi2[nx] = hi[x.p] /\ x.p # Nil
  /\ node'[x.n].parent # Nil /\ node'[x.child].parent # Nil
  /\ \A y \in NodeId \ {x.child} :
       node'[y].parent = node[y].parent \/
         (node'[y].parent # Nil /\ (node[y].parent = x.p /\ (x.p # Nil \/ y = x.n)))

Views(x, nx, hi, hi2) ==
  /\ \A y \in NodeId \ {x.n} : SepHi(y, hi2)' = SepHi(y, hi)
  /\ SepHi(x.n, hi) = hi[x.child] /\ SepHi(x.n, hi2)' = hi[x.n] /\ SepHi(x.child, hi) = hi[x.child]
  /\ \A y \in NodeId : y # x.p \/ nx = Nil => ReadHi(y, hi2)' = ReadHi(y, hi)
  /\ \A y \in NodeId \ {x.child} : NewRight(y)' <=> NewRight(y)
  /\ ~ NewRight(x.n)
  /\ x.p # Nil => SepHi(x.p, hi) = hi[x.p] /\ ReadHi(x.p, hi) = hi[x.p] /\ ~ NewRight(x.p)

LEMMA HangView ==
  ASSUME NEW lo, NEW hi, TreeIn(lo, hi), NEW t \in Thread, pc[t] = "insert", NEW x, x = loc[t],
         NEW z, NEW nx, NEW lo2, NEW hi2, Hangs(t, x, z, nx, lo, hi, lo2, hi2)
  PROVE  Views(x, nx, hi, hi2)
<1>1. PICK n : n = x.n
  OBVIOUS
<1>2. PICK c : c = x.child
  OBVIOUS
<1>3. PICK p : p = x.p
  OBVIOUS
<1>4. /\ pc'[t] = "strip" /\ loc'[t].n = n /\ loc'[t].child = c /\ loc'[t].p = p /\ loc'[t].next = nx
      /\ loc'[t].leaf = loc[t].leaf /\ n = loc[t].n /\ c = loc[t].child /\ p = loc[t].p
  BY <1>1, <1>2, <1>3 DEF Hangs
<1>5. /\ \A u \in Thread \ {t} : pc'[u] = pc[u] /\ loc'[u] = loc[u]
      /\ \A y \in NodeId : node'[y].lock = node[y].lock
      /\ \A y \in NodeId : hi2[y] = hi[y] \/ (nx # Nil /\ y = p)
      /\ nx # Nil => nx \notin NodeId /\ hi2[nx] = hi[p] /\ p # Nil
  BY <1>3 DEF Hangs
<1>6. /\ \A y \in NodeId \ {n} : SepHi(y, hi2)' = SepHi(y, hi)
      /\ SepHi(n, hi) = hi[c] /\ SepHi(n, hi2)' = hi[n] /\ SepHi(c, hi) = hi[c]
      /\ \A y \in NodeId : y # p \/ nx = Nil => ReadHi(y, hi2)' = ReadHi(y, hi)
      /\ \A y \in NodeId \ {c} : NewRight(y)' <=> NewRight(y)
      /\ ~ NewRight(n)
      /\ p # Nil => SepHi(p, hi) = hi[p] /\ ReadHi(p, hi) = hi[p] /\ ~ NewRight(p)
  BY ONLY <1>4, <1>5, TreeIn(lo, hi), t \in Thread, pc[t] = "insert", InsertView
<1>7. QED
  BY ONLY <1>1, <1>2, <1>3, <1>6 DEF Views

LEMMA HangFrame ==
  ASSUME NEW lo, NEW hi, TreeIn(lo, hi), NEW t \in Thread, pc[t] = "insert", NEW x, x = loc[t],
         NEW z, NEW nx, NEW lo2, NEW hi2, Hangs(t, x, z, nx, lo, hi, lo2, hi2),
         x.p # Nil => Told(x.p, lo, hi, lo2, hi2),
         NEW T, T = {x.child, x.p} \ {Nil}
  PROVE  /\ Frame(t, T, lo, hi, lo2, hi2) /\ NodeIn(x.child, lo2, hi2)'
         /\ Same(x.n, lo, hi, lo2, hi2) /\ Same(x.child, lo, hi, lo2, hi2) /\ Same(x.leaf, lo, hi, lo2, hi2)
<1>1. PICK n : n = x.n
  OBVIOUS
<1>2. PICK c : c = x.child
  OBVIOUS
<1>3. PICK p : p = x.p
  OBVIOUS
<1>4. /\ Types /\ Parents /\ n \in NodeId /\ c \in NodeId /\ n # c /\ n # p /\ c # p /\ x.leaf \in NodeId /\ x.leaf # p
      /\ node[n].lock = t /\ node[c].lock = t /\ node[n].parent = p /\ node[c].parent = Nil
      /\ p # Nil => p \in NodeId /\ node[p].lock = t
      /\ NodeIn(c, lo, hi) /\ c # 1 /\ (Inner(c) => ~ node[c].ver.root)
  BY <1>1, <1>2, <1>3, AtInsert
<1>5. c # Nil /\ n # Nil /\ \A y \in NodeId : y # Nil
  BY <1>4, NodeTypes DEF Nil
<1>6. /\ \A u \in Thread \ {t} : pc'[u] = pc[u] /\ loc'[u] = loc[u] /\ req'[u] = req[u]
      /\ NodeId \subseteq NodeId'
      /\ \A y \in NodeId : /\ node'[y].lock = node[y].lock /\ node'[y].prev = node[y].prev /\ lo2[y] = lo[y]
                           /\ hi2[y] = hi[y] \/ (nx # Nil /\ y = p)
                           /\ y # p => SameBody(node[y], node'[y]) /\ node'[y].ver = node[y].ver
      /\ node'[n].parent # Nil /\ node'[c].parent # Nil
      /\ \A y \in NodeId \ {c} :
           node'[y].parent = node[y].parent \/
             (node'[y].parent # Nil /\ (node[y].parent = p /\ (p # Nil \/ y = n)))
  BY <1>1, <1>2, <1>3 DEF Hangs
<1>7. /\ \A y \in NodeId \ {n} : SepHi(y, hi2)' = SepHi(y, hi)
      /\ \A y \in NodeId : y # p \/ nx = Nil => ReadHi(y, hi2)' = ReadHi(y, hi)
      /\ \A y \in NodeId \ {c} : NewRight(y)' <=> NewRight(y)
  <2>1. Views(x, nx, hi, hi2)
    BY HangView
  <2>2. QED
    BY ONLY <1>1, <1>2, <1>3, <2>1 DEF Views
<1>8. T \in SUBSET NodeId /\ Nil \notin T /\ \A y : y \in T <=> y = c \/ (y = p /\ p # Nil)
  BY <1>2, <1>3, <1>4, <1>5
<1>9. Told(c, lo, hi, lo2, hi2)
  <2>1. SameBody(node[c], node'[c]) /\ node'[c].ver = node[c].ver /\ lo2[c] = lo[c]
    BY <1>4, <1>6
  <2>2. ReadHi(c, hi2)' = ReadHi(c, hi)
    BY <1>4, <1>7
  <2>3. node[c].ver.vsplit \in Nat /\ node[c].ver.vinsert \in Nat
    BY <1>4, NodeTypes
  <2>4. QED
    BY <2>1, <2>2, <2>3 DEF Told, SameBody, VLeq
<1>10. Frame(t, T, lo, hi, lo2, hi2)
  <2>1. \A y \in T : node[y].lock \in {t, NoThread} /\ Told(y, lo, hi, lo2, hi2)
    BY <1>3, <1>4, <1>8, <1>9
  <2>2. \A y \in NodeId : lo2[y] = lo[y] /\ (node[y].lock # t => hi2[y] = hi[y])
    <3>1. \A y \in NodeId : node[y].lock # t => y # p
      BY <1>4, <1>5
    <3>2. QED
      BY <1>6, <3>1
  <2>3. \A y \in NodeId \ T :
          /\ SameBody(node[y], node'[y]) /\ node'[y].ver = node[y].ver /\ node'[y].lock = node[y].lock
          /\ hi2[y] = hi[y]
    <3>1. \A y \in NodeId \ T : y # p
      BY <1>5, <1>8
    <3>2. QED
      BY <1>6, <3>1
  <2>4. \A y \in NodeId \ T : node[y].lock = t =>
          /\ ReadHi(y, hi2)' = ReadHi(y, hi) /\ (NewRight(y)' <=> NewRight(y))
    <3>1. \A y \in NodeId \ T : y # p /\ y # c
      BY <1>5, <1>8
    <3>2. QED
      BY <1>7, <3>1
  <2>5. \A y \in NodeId : node'[y].prev = Nil <=> node[y].prev = Nil
    BY <1>6
  <2>6. \A y \in NodeId : node'[y].parent = node[y].parent \/
          (node'[y].parent # Nil /\ (node[y].parent \in T \/ (node[y].parent = Nil /\ Owns(t, y))))
    <3>1. SUFFICES ASSUME NEW y \in NodeId, node'[y].parent # node[y].parent
                   PROVE  node'[y].parent # Nil /\ (node[y].parent \in T \/ (node[y].parent = Nil /\ node[y].lock = t))
      BY DEF Owns
    <3>2. CASE y = c
      BY <1>4, <1>6, <3>2
    <3>3. CASE y # c
      BY <1>4, <1>6, <1>8, <3>1, <3>3, SMTT(30)
    <3>4. QED
      BY <3>2, <3>3
  <2>7. \A y \in NodeId : y \in T \/ node[y].lock = t =>
          SepHi(y, hi2)' = SepHi(y, hi) \/
            (Owns(t, y) /\ node[y].parent \in T \cup {Nil} /\ node'[y].parent # Nil)
    <3>1. Owns(t, n) /\ node[n].parent \in T \cup {Nil} /\ node'[n].parent # Nil
      BY <1>4, <1>6, <1>8 DEF Owns
    <3>2. QED
      BY <1>7, <3>1
  <2>8. \A u \in Thread \ {t} : pc'[u] = pc[u] /\ loc'[u] = loc[u] /\ req'[u] = req[u]
    BY <1>6
  <2>9. NodeId \subseteq NodeId' /\ T \in SUBSET NodeId
    BY <1>6, <1>8
  <2>10. QED
    BY ONLY <2>1, <2>2, <2>3, <2>4, <2>5, <2>6, <2>7, <2>8, <2>9, TreeIn(lo, hi), t \in Thread, MakeFrame
<1>11. SameBody(node[c], node'[c]) /\ node'[c].ver = node[c].ver /\ lo2[c] = lo[c] /\ hi2[c] = hi[c] /\ c \in NodeId'
  BY <1>4, <1>6
<1>12. Dirty(c)' => node'[c].lock # NoThread
  BY <1>4, <1>6, ThreadAssumption
<1>13. TopRange(c, lo2, hi2)'
  <2>1. node'[c].parent # Nil
    BY <1>6
  <2>2. RootId(c)' => ~ node'[c].ver.root
    BY <1>4, <1>11 DEF RootId, Inner, SameBody
  <2>3. QED
    BY <2>1, <2>2 DEF TopRange
<1>14. NodeIn(c, lo2, hi2)'
  <2>1. CASE Inner(c)
    <3>1. ASSUME NEW d \in NodeId, node[d].parent = c
          PROVE  /\ d \in NodeId' /\ node'[d].parent = c /\ node'[d].height = node[d].height
                 /\ lo2[d] = lo[d] /\ SepHi(d, hi2)' = SepHi(d, hi)
      <4>1. d # c /\ d # n
        BY <1>4, <1>5, <3>1
      <4>2. node'[d].parent = c /\ d \in NodeId' /\ lo2[d] = lo[d]
        BY <1>4, <1>6, <3>1, <4>1
      <4>3. node'[d].height = node[d].height
        BY <1>10, <3>1 DEF Frame, Told
      <4>4. QED
        BY <1>7, <3>1, <4>1, <4>2, <4>3
    <3>2. /\ node'[c].kind = node[c].kind /\ node'[c].ikeys = node[c].ikeys /\ node'[c].child = node[c].child
          /\ node'[c].height = node[c].height /\ lo2[c] = lo[c] /\ hi2[c] = hi[c] /\ c \in NodeId'
          /\ node'[c].ver.root => node[c].ver.root
      BY <1>11 DEF SameBody
    <3>3. NodeIn(c, lo, hi)
      BY <1>4
    <3>4. QED
      BY ONLY <1>12, <1>13, <2>1, <3>1, <3>2, <3>3, InnerKept
  <2>2. CASE Leaf(c)
    <3>1. \A y : Leaf(y) => Leaf(y)' /\ lo2[y] = lo[y]
      BY <1>10, KindKept
    <3>2. /\ node'[c].kind = node[c].kind /\ node'[c].perm = node[c].perm /\ node'[c].slot = node[c].slot
          /\ node'[c].height = node[c].height /\ node'[c].next = node[c].next
          /\ lo2[c] = lo[c] /\ hi2[c] = hi[c] /\ c \in NodeId'
          /\ ~ node'[c].ver.splitting => ~ node[c].ver.splitting
      BY <1>11 DEF SameBody
    <3>3. ReadHi(c, hi2)' = ReadHi(c, hi) /\ (node'[c].prev = Nil <=> node[c].prev = Nil)
      BY <1>4, <1>6, <1>7
    <3>4. NodeIn(c, lo, hi)
      BY <1>4
    <3>5. QED
      BY ONLY <1>12, <1>13, <2>2, <3>1, <3>2, <3>3, <3>4, LeafKept
  <2>3. QED
    BY <1>4, <2>1, <2>2, Kinds
<1>15. \A y \in {n, c, x.leaf} : Same(y, lo, hi, lo2, hi2)
  <2>1. \A y \in {n, c, x.leaf} : y \in NodeId /\ y # p
    BY <1>4
  <2>2. QED
    BY <1>6, <2>1 DEF Same
<1>16. QED
  BY <1>1, <1>2, <1>10, <1>14, <1>15

\* Parents after c got one: look at the nodes that got another and at what p is
\* above.
LEMMA HangParents ==
  ASSUME NEW lo, NEW hi, TreeIn(lo, hi), NEW t \in Thread, NEW x,
         NEW z, NEW nx, NEW lo2, NEW hi2, Hangs(t, x, z, nx, lo, hi, lo2, hi2),
         \A y \in NodeId' : \A q : q = node'[y].parent /\ q # Nil /\
           (y \notin NodeId \/ q # node[y].parent \/ q = x.p) => HasChild(q, y)'
  PROVE  Parents'
<1>1. ASSUME NEW y \in NodeId', NEW q, q = node'[y].parent, q # Nil PROVE HasChild(q, y)'
  <2>1. CASE y \in NodeId /\ q = node[y].parent /\ q # x.p
    <3>1. HasChild(q, y)
      BY <1>1, <2>1 DEF TreeIn, Parents
    <3>2. q \in NodeId /\ SameBody(node[q], node'[q]) /\ q \in NodeId'
      BY <2>1, <3>1 DEF Hangs, HasChild, Inner
    <3>3. QED
      BY <3>1, <3>2 DEF HasChild, Inner, SameBody
  <2>2. QED
    BY <1>1, <2>1
<1>2. QED
  BY <1>1 DEF Parents, HasChild, Inner

LEMMA EmptyNodeIs == EmptyNode \in Node /\ EmptyNode.ver = Version0 /\ Version0 \in Version
<1>1. Version0 \in Version
  BY DEF Version, Version0
<1>2. [p \in Slot |-> 0] \in [Slot -> Key \cup {0}]
  OBVIOUS
<1>3. MakeEmpty \in Perm /\ PermOk(MakeEmpty)
  BY EmptyPerm DEF PermOk
<1>4. QED
  BY <1>1, <1>2, <1>3 DEF EmptyNode, Node, Nil

IsInternode(v, h, l, ver, ks, cs) ==
  v = [EmptyNode EXCEPT !.kind = "inner", !.height = h, !.lock = l, !.ver = ver, !.ikeys = ks, !.child = cs]

LEMMA InternodeIs ==
  ASSUME NEW h \in Nat, NEW ks \in Seq(Nat), NEW cs \in Seq(Nat), NEW l \in Thread \cup {NoThread}, NEW ver \in Version,
         NEW v, IsInternode(v, h, l, ver, ks, cs)
  PROVE  /\ v \in Node /\ v.kind = "inner" /\ v.height = h /\ v.lock = l /\ v.ver = ver /\ v.ikeys = ks /\ v.child = cs
         /\ v.parent = Nil
<1>1. EmptyNode \in Node /\ EmptyNode.parent = Nil
  BY EmptyNodeIs DEF EmptyNode
<1>2. PICK e : e = EmptyNode
  OBVIOUS
<1>3. e \in Node /\ e.parent = Nil
  BY <1>1, <1>2
<1>4. v = [e EXCEPT !.kind = "inner", !.height = h, !.lock = l, !.ver = ver, !.ikeys = ks, !.child = cs]
  BY <1>2 DEF IsInternode
<1>5. QED
  BY ONLY <1>3, <1>4, h \in Nat, ks \in Seq(Nat), cs \in Seq(Nat), l \in Thread \cup {NoThread}, ver \in Version DEF Node

\* The node v: an internode with two children, nobody's child yet.
RootOver(v, h, a, i, b) ==
  /\ v \in Node /\ v.kind = "inner" /\ v.lock = NoThread /\ v.parent = Nil /\ v.ikeys = <<i>> /\ v.child = <<a, b>>
  /\ v.height = h /\ ~ v.ver.inserting /\ ~ v.ver.splitting

LEMMA RootIs ==
  ASSUME NEW h \in Nat, NEW i \in Nat, NEW a \in Nat, NEW b \in Nat, NEW v,
         v = [NewInternode(h, a, i, b) EXCEPT !.ver.root = TRUE]
  PROVE  RootOver(v, h, a, i, b)
<1>1. PICK e : e = EmptyNode
  OBVIOUS
<1>2. /\ e \in Node /\ e.parent = Nil /\ e.lock = NoThread /\ ~ e.ver.inserting /\ ~ e.ver.splitting /\ e.ver \in Version
  BY <1>1, EmptyNodeIs DEF EmptyNode, Version0
<1>3. PICK ks : ks = <<i>>
  OBVIOUS
<1>4. PICK cs : cs = <<a, b>>
  OBVIOUS
<1>5. ks \in Seq(Nat) /\ cs \in Seq(Nat)
  BY <1>3, <1>4
<1>6. PICK w : w = [e EXCEPT !.kind = "inner", !.height = h, !.ikeys = ks, !.child = cs]
  OBVIOUS
<1>7. /\ w \in Node /\ w.kind = "inner" /\ w.lock = NoThread /\ w.parent = Nil /\ w.ikeys = ks /\ w.child = cs
      /\ w.height = h /\ w.ver = e.ver
  BY ONLY <1>2, <1>5, <1>6, h \in Nat DEF Node
<1>8. v = [w EXCEPT !.ver.root = TRUE]
  BY <1>1, <1>3, <1>4, <1>6 DEF NewInternode
<1>9. PICK ver : ver = [w.ver EXCEPT !.root = TRUE]
  OBVIOUS
<1>10. v = [w EXCEPT !.ver = ver]
  BY <1>8, <1>9
<1>11. ver \in Version /\ ~ ver.inserting /\ ~ ver.splitting
  BY ONLY <1>2, <1>7, <1>9 DEF Version
<1>12. /\ v \in Node /\ v.kind = "inner" /\ v.lock = NoThread /\ v.parent = Nil /\ v.ikeys = ks /\ v.child = cs
       /\ v.height = h /\ v.ver = ver
  BY ONLY <1>7, <1>10, <1>11 DEF Node
<1>13. QED
  BY <1>3, <1>4, <1>11, <1>12 DEF RootOver

LEMMA WithParent ==
  ASSUME NEW y \in Node, NEW q \in Nat, NEW z, z = [y EXCEPT !.parent = q]
  PROVE  z \in Node /\ SameBody(y, z) /\ z.ver = y.ver /\ z.lock = y.lock /\ z.prev = y.prev /\ z.parent = q
BY DEF Node, SameBody

LEMMA Appended ==
  ASSUME Types, NEW f, f = [y \in NodeId |-> f[y]], \A y \in NodeId : f[y] \in Node,
         NEW v \in Node, node' = Append(f, v)
  PROVE  /\ node' \in Seq(Node) /\ NodeId' = NodeId \cup {Fresh} /\ Fresh \notin NodeId /\ Fresh # Nil /\ Fresh \in Nat
         /\ node'[Fresh] = v /\ \A y \in NodeId : node'[y] = f[y]
<1>1. NodeId = 1 .. Len(node) /\ Len(node) \in Nat /\ Fresh \in Nat \ {0} /\ Fresh \notin NodeId /\ Fresh = Len(node) + 1
  BY Ids DEF Fresh
<1>2. PICK k \in Nat : k = Len(node)
  BY <1>1
<1>3. NodeId = 1 .. k /\ Fresh = k + 1
  BY <1>1, <1>2
<1>4. f = [y \in 1 .. k |-> f[y]] /\ \A y \in 1 .. k : f[y] \in Node
  BY <1>3
<1>5. f \in Seq(Node) /\ Len(f) = k /\ DOMAIN f = 1 .. k
  <2>1. f \in [1 .. k -> Node]
    BY ONLY <1>4
  <2>2. QED
    BY <1>2, <2>1
<1>6. PICK s : s = Append(f, v)
  OBVIOUS
<1>7. s \in Seq(Node) /\ DOMAIN s = 1 .. k + 1 /\ s[k + 1] = v /\ \A y \in 1 .. k : s[y] = f[y]
  BY ONLY <1>2, <1>5, <1>6, v \in Node
<1>8. NodeId' = 1 .. k + 1
  BY <1>6, <1>7 DEF NodeId
<1>9. NodeId' = NodeId \cup {Fresh}
  BY <1>2, <1>3, <1>8
<1>10. QED
  BY <1>1, <1>3, <1>6, <1>7, <1>9 DEF Nil

\* c and n get a new node above them, for all slices.
LEMMA NewRootKeeps ==
  ASSUME NEW lo, NEW hi, TreeIn(lo, hi), NEW t \in Thread, NewRoot(t)
  PROVE  TreeInv'
<1>1. PICK x : x = loc[t]
  OBVIOUS
<1>2. PICK n : n = x.n
  OBVIOUS
<1>3. PICK c : c = x.child
  OBVIOUS
<1>4. PICK i : i = x.ikey
  OBVIOUS
<1>5. PICK nn : nn = Fresh
  OBVIOUS
<1>6. PICK z : z = [x EXCEPT !.next = Nil]
  OBVIOUS
<1>7. PICK v : v = [NewInternode(x.height + 1, n, i, c) EXCEPT !.ver.root = TRUE]
  OBVIOUS
<1>8. PICK f : f = [node EXCEPT ![n].parent = nn, ![c].parent = nn]
  OBVIOUS
<1>9. /\ pc[t] = "insert" /\ x.p = Nil /\ node' = Append(f, v)
      /\ loc' = [loc EXCEPT ![t] = z] /\ pc' = [pc EXCEPT ![t] = "strip"] /\ UNCHANGED <<root, req, pre>>
  BY <1>1, <1>2, <1>3, <1>4, <1>5, <1>6, <1>7, <1>8 DEF NewRoot, Goto
<1>10. /\ Types /\ Parents /\ x \in WritingLocals /\ n \in NodeId /\ c \in NodeId /\ n # c
       /\ node[n].parent = Nil /\ node[c].parent = Nil
       /\ lo[n] < i /\ i \in Nat /\ x.height \in Nat /\ hi[n] = i /\ lo[c] = i
       /\ node[n].height = x.height /\ node[c].height = x.height
       /\ NodeIn(n, lo, hi) /\ NodeIn(c, lo, hi)
  BY <1>1, <1>2, <1>3, <1>4, <1>9, AtInsert
<1>11. /\ z \in WritingLocals /\ z \in AllLocals /\ z.next = Nil /\ z.n = x.n /\ z.leaf = x.leaf /\ z.child = x.child /\ z.p = x.p
       /\ z.ikey = x.ikey /\ z.split = x.split /\ z.height = x.height
  BY <1>6, <1>10 DEF WritingLocals, AllLocals, Nil
<1>12. /\ v \in Node /\ v.kind = "inner" /\ v.lock = NoThread /\ v.parent = Nil /\ v.ikeys = <<i>> /\ v.child = <<n, c>>
       /\ v.height = x.height + 1 /\ ~ v.ver.inserting /\ ~ v.ver.splitting
  <2>1. n \in Nat /\ c \in Nat /\ i \in Nat
    BY <1>10, NodeTypes
  <2>2. PICK h : h = x.height + 1
    OBVIOUS
  <2>3. h \in Nat /\ v = [NewInternode(h, n, i, c) EXCEPT !.ver.root = TRUE]
    BY <1>7, <1>10, <2>2
  <2>4. QED
    <3>1. RootOver(v, h, n, i, c)
      BY ONLY <2>1, <2>3, RootIs
    <3>2. QED
      BY ONLY <2>2, <3>1, Zenon DEF RootOver
<1>13. nn \in Nat /\ nn \notin NodeId /\ nn # Nil
  BY <1>5, <1>10, Ids DEF Nil
<1>14. /\ f = [y \in NodeId |-> f[y]] /\ \A y \in NodeId : f[y] \in Node
       /\ \A y \in NodeId : f[y] = IF y \in {n, c} THEN [node[y] EXCEPT !.parent = nn] ELSE node[y]
  <2>1. node = [y \in NodeId |-> node[y]] /\ \A y \in NodeId : node[y] \in Node
    BY <1>10, NodeTypes DEF Types, NodeId
  <2>2. f = [y \in NodeId |-> IF y \in {n, c} THEN [node[y] EXCEPT !.parent = nn] ELSE node[y]]
    BY <1>8, <1>10, <2>1
  <2>3. \A y \in NodeId : [node[y] EXCEPT !.parent = nn] \in Node
    BY <1>13, <2>1, WithParent
  <2>4. QED
    BY <2>1, <2>2, <2>3
<1>15. /\ node' \in Seq(Node) /\ NodeId' = NodeId \cup {nn} /\ node'[nn] = v
       /\ \A y \in NodeId : node'[y] = f[y]
  BY <1>5, <1>9, <1>10, <1>12, <1>14, Appended
<1>16. \A y \in NodeId : /\ SameBody(node[y], node'[y]) /\ node'[y].ver = node[y].ver /\ node'[y].lock = node[y].lock
                         /\ node'[y].prev = node[y].prev
                         /\ node'[y].parent = IF y \in {n, c} THEN nn ELSE node[y].parent
  <2>1. SUFFICES ASSUME NEW y \in NodeId
                 PROVE /\ SameBody(node[y], node'[y]) /\ node'[y].ver = node[y].ver /\ node'[y].lock = node[y].lock
                       /\ node'[y].prev = node[y].prev
                       /\ node'[y].parent = IF y \in {n, c} THEN nn ELSE node[y].parent
    OBVIOUS
  <2>2. node[y] \in Node
    BY <1>10, NodeTypes
  <2>3. node'[y] = IF y \in {n, c} THEN [node[y] EXCEPT !.parent = nn] ELSE node[y]
    BY <1>14, <1>15
  <2>4. QED
    BY <2>2, <2>3 DEF SameBody, Node
<1>17. PICK lo2 : lo2 = [y \in NodeId' |-> IF y = nn THEN 0 ELSE lo[y]]
  OBVIOUS
<1>18. PICK hi2 : hi2 = [y \in NodeId' |-> IF y = nn THEN Inf ELSE hi[y]]
  OBVIOUS
<1>19. /\ \A y \in NodeId : lo2[y] = lo[y] /\ hi2[y] = hi[y]
       /\ lo2[nn] = 0 /\ hi2[nn] = Inf
  BY <1>13, <1>15, <1>17, <1>18
<1>20. NodeId \subseteq NodeId'
  BY <1>15
<1>21. /\ Types' /\ pc'[t] = "strip" /\ loc'[t] = z
       /\ \A u \in Thread \ {t} : pc'[u] = pc[u] /\ loc'[u] = loc[u] /\ req'[u] = req[u]
  <2>1. "strip" \in AllPc
    BY DEF AllPc, WritePc, Putting, Splitting
  <2>2. QED
    BY <1>9, <1>10, <1>11, <1>15, <1>20, <2>1, Moves
<1>22. Hangs(t, x, z, Nil, lo, hi, lo2, hi2)
  <2>1. \A y \in NodeId : /\ node'[y].lock = node[y].lock /\ node'[y].prev = node[y].prev /\ lo2[y] = lo[y]
                           /\ hi2[y] = hi[y] /\ SameBody(node[y], node'[y]) /\ node'[y].ver = node[y].ver
    BY <1>16, <1>19
  <2>2. node'[x.n].parent # Nil /\ node'[x.child].parent # Nil
    BY <1>2, <1>3, <1>10, <1>13, <1>16
  <2>3. \A y \in NodeId \ {x.child} :
          node'[y].parent = node[y].parent \/
            (node'[y].parent # Nil /\ (node[y].parent = x.p /\ (x.p # Nil \/ y = x.n)))
    BY <1>2, <1>3, <1>9, <1>10, <1>13, <1>16
  <2>4. QED
    BY <1>11, <1>20, <1>21, <2>1, <2>2, <2>3 DEF Hangs
<1>23. PICK T : T = {x.child, x.p} \ {Nil}
  OBVIOUS
<1>24. /\ Frame(t, T, lo, hi, lo2, hi2) /\ NodeIn(x.child, lo2, hi2)'
       /\ Same(x.n, lo, hi, lo2, hi2) /\ Same(x.child, lo, hi, lo2, hi2) /\ Same(x.leaf, lo, hi, lo2, hi2)
  BY <1>1, <1>9, <1>22, <1>23, HangFrame
<1>25. /\ SepHi(n, hi) = hi[c] /\ SepHi(n, hi2)' = i /\ SepHi(c, hi2)' = hi[c] /\ ~ NewRight(n)
  <2>1. Views(x, Nil, hi, hi2)
    BY <1>1, <1>9, <1>22, HangView
  <2>2. QED
    BY <1>2, <1>3, <1>10, <2>1 DEF Views
<1>26. lo[n] = 0 /\ hi[c] = Inf
  BY <1>10, <1>25 DEF NodeIn, TopRange
<1>27. NodeIn(nn, lo2, hi2)'
  <2>1. /\ node'[nn].kind = "inner" /\ node'[nn].lock = NoThread /\ node'[nn].parent = Nil
        /\ node'[nn].ikeys = <<i>> /\ node'[nn].child = <<n, c>> /\ node'[nn].height = x.height + 1
        /\ ~ node'[nn].ver.inserting /\ ~ node'[nn].ver.splitting /\ nn \in NodeId'
    BY <1>12, <1>15
  <2>2. InInner(node'[nn])
    BY <2>1, WidthsAssumption DEF InInner
  <2>3. /\ n \in NodeId' /\ node'[n].parent = nn /\ node'[n].height = x.height
        /\ c \in NodeId' /\ node'[c].parent = nn /\ node'[c].height = x.height
    BY <1>10, <1>16, <1>20 DEF SameBody
  <2>4. ChildRange(nn, 1, lo2, hi2)'
    BY <1>10, <1>19, <1>25, <1>26, <2>1, <2>3 DEF ChildRange
  <2>5. ChildRange(nn, 2, lo2, hi2)'
    BY <1>10, <1>19, <1>25, <1>26, <2>1, <2>3 DEF ChildRange
  <2>6. InnerRange(nn, lo2, hi2)'
    <3>1. DOMAIN <<i>> = {1} /\ DOMAIN <<n, c>> = {1, 2} /\ <<i>>[1] = i
      OBVIOUS
    <3>2. 0 < i /\ Below(i, Inf)
      BY <1>10, <1>26 DEF Below
    <3>3. QED
      BY <1>19, <2>1, <2>4, <2>5, <3>1, <3>2 DEF InnerRange
  <2>7. SepHi(nn, hi2)' = Inf /\ ReadHi(nn, hi2)' = Inf
    BY <1>19, <2>1, ThreadAssumption, FreeNext
  <2>8. TopRange(nn, lo2, hi2)'
    BY <1>19, <2>7 DEF TopRange
  <2>9. Inner(nn)' /\ ~ Leaf(nn)' /\ ~ Dirty(nn)'
    BY <2>1 DEF Inner, Leaf, Dirty
  <2>10. Below(0, Inf)
    BY DEF Below
  <2>11. QED
    BY <1>19, <2>2, <2>6, <2>8, <2>9, <2>10 DEF NodeIn
<1>28. Parents'
  <2>1. ASSUME NEW y \in NodeId', NEW q, q = node'[y].parent, q # Nil, y \notin NodeId \/ q # node[y].parent \/ q = x.p
        PROVE  HasChild(q, y)'
    <3>1. y # nn
      BY <1>12, <1>15, <2>1
    <3>2. y \in {n, c} /\ q = nn
      BY <1>9, <1>15, <1>16, <2>1, <3>1
    <3>3. DOMAIN <<n, c>> = {1, 2} /\ <<n, c>>[1] = n /\ <<n, c>>[2] = c
      OBVIOUS
    <3>4. QED
      BY <1>12, <1>15, <3>2, <3>3 DEF HasChild, Inner
  <2>2. QED
    BY <1>22, <2>1, HangParents
<1>29. ThreadIn(t, lo2, hi2)'
  <2>1. node'[x.n].parent # Nil /\ node'[x.child].parent # Nil /\ req'[t] = req[t]
    BY <1>2, <1>3, <1>9, <1>10, <1>13, <1>16
  <2>2. Attached(t, x, z, lo, hi, lo2, hi2)
    BY <1>9, <1>11, <1>20, <1>21, <1>24, <2>1 DEF Attached
  <2>3. QED
    BY <1>1, <1>9, <2>2, StripWriting
<1>30. RootId(root)'
  <2>1. RootId(root)
    BY DEF TreeIn
  <2>2. QED
    BY <1>9, <1>24, <2>1, KindKept
<1>31. /\ \A y \in T : NodeIn(y, lo2, hi2)'
       /\ \A y \in NodeId' \ NodeId : NodeIn(y, lo2, hi2)'
  BY <1>9, <1>15, <1>23, <1>24, <1>27
<1>32. TreeIn(lo2, hi2)'
  BY <1>21, <1>24, <1>28, <1>29, <1>30, <1>31, Wrap
<1>33. QED
  BY <1>32 DEF TreeInv

\* An internode after a step, from its row.
Filled(p, k, l, h, lo, sep, lo2, hi2) ==
  /\ p \in NodeId' /\ node'[p] \in Node /\ node'[p].kind = "inner" /\ node'[p].lock # NoThread
  /\ lo2[p] = l /\ hi2[p] = h /\ Below(l, h)
  /\ k = Len(node'[p].ikeys) /\ Len(node'[p].child) = k + 1 /\ k <= Width
  /\ node'[p].ver.root => k > 0
  /\ Row(node'[p].ikeys, node'[p].child, k, l, h, lo, sep)
  /\ \A y : \A m \in 1 .. k + 1 : y = node'[p].child[m] =>
       /\ y \in NodeId' /\ node'[y].parent = p /\ node'[y].height + 1 = node'[p].height
       /\ lo2[y] = lo[y] /\ SepHi(y, hi2)' = sep[y]

LEMMA FilledIn ==
  ASSUME NEW p, NEW k, NEW l, NEW h, NEW lo, NEW sep, NEW lo2, NEW hi2,
         Filled(p, k, l, h, lo, sep, lo2, hi2), TopRange(p, lo2, hi2)'
  PROVE  NodeIn(p, lo2, hi2)'
<1>1. /\ p \in NodeId' /\ node'[p] \in Node /\ node'[p].kind = "inner" /\ node'[p].lock # NoThread
      /\ lo2[p] = l /\ hi2[p] = h /\ Below(l, h)
      /\ k = Len(node'[p].ikeys) /\ Len(node'[p].child) = k + 1 /\ k <= Width
      /\ node'[p].ver.root => k > 0
      /\ Row(node'[p].ikeys, node'[p].child, k, l, h, lo, sep)
  BY DEF Filled
<1>2. PICK ks : ks = node'[p].ikeys
  OBVIOUS
<1>3. PICK cs : cs = node'[p].child
  OBVIOUS
<1>4. ks \in Seq(Nat) /\ cs \in Seq(Nat)
  BY <1>1, <1>2, <1>3, NodeFields
<1>5. k \in Nat /\ DOMAIN ks = 1 .. k /\ DOMAIN cs = 1 .. k + 1
  BY ONLY <1>1, <1>2, <1>3, <1>4
<1>6. /\ l \in Nat /\ h \in Nat \cup {Inf}
      /\ \A m \in 1 .. k : ks[m] \in Nat /\ l < ks[m] /\ Below(ks[m], h)
      /\ \A a, b \in 1 .. k : a < b => ks[a] < ks[b]
      /\ \A m \in 1 .. k + 1 :
           /\ m = 1 => lo[cs[m]] = l
           /\ m # 1 => lo[cs[m]] = ks[m - 1]
           /\ m = k + 1 => sep[cs[m]] = h
           /\ m # k + 1 => sep[cs[m]] = ks[m]
  BY ONLY <1>1, <1>2, <1>3 DEF Row
<1>7. InInner(node'[p])
  <2>1. \A a, b \in DOMAIN ks : a < b => ks[a] < ks[b]
    BY ONLY <1>5, <1>6
  <2>2. Len(ks) = k
    BY <1>1, <1>2
  <2>3. QED
    BY ONLY <1>1, <1>2, <2>1, <2>2 DEF InInner
<1>8. ASSUME NEW m \in 1 .. k + 1 PROVE ChildRange(p, m, lo2, hi2)'
  <2>1. PICK y : y = cs[m]
    OBVIOUS
  <2>2. /\ y \in NodeId' /\ node'[y].parent = p /\ node'[y].height + 1 = node'[p].height
        /\ lo2[y] = lo[y] /\ SepHi(y, hi2)' = sep[y]
    BY <1>3, <2>1 DEF Filled
  <2>3. lo2[y] = IF m = 1 THEN l ELSE ks[m - 1]
    BY ONLY <1>6, <2>1, <2>2, m \in 1 .. k + 1
  <2>4. SepHi(y, hi2)' = IF m = k + 1 THEN h ELSE ks[m]
    BY ONLY <1>6, <2>1, <2>2, m \in 1 .. k + 1
  <2>5. QED
    BY ONLY <1>1, <1>2, <1>3, <2>1, <2>2, <2>3, <2>4 DEF ChildRange
<1>9. InnerRange(p, lo2, hi2)'
  <2>1. \A m \in DOMAIN node'[p].ikeys : lo2[p] < node'[p].ikeys[m] /\ Below(node'[p].ikeys[m], hi2[p])
    BY ONLY <1>1, <1>2, <1>5, <1>6
  <2>2. \A m \in DOMAIN node'[p].child : ChildRange(p, m, lo2, hi2)'
    BY ONLY <1>3, <1>5, <1>8
  <2>3. QED
    BY ONLY <2>1, <2>2 DEF InnerRange
<1>10. Inner(p)' /\ ~ Leaf(p)'
  BY <1>1 DEF Inner, Leaf
<1>11. QED
  BY ONLY <1>1, <1>6, <1>7, <1>9, <1>10, TopRange(p, lo2, hi2)' DEF NodeIn

\* Before c has a parent, n is led to for what both have.
LEMMA InsertSep ==
  ASSUME NEW lo, NEW hi, TreeIn(lo, hi), NEW t \in Thread, pc[t] = "insert", NEW x, x = loc[t]
  PROVE  SepHi(x.n, hi) = hi[x.child] /\ SepHi(x.child, hi) = hi[x.child]
<1>1. node[x.n].lock = t /\ node[x.child].lock = t /\ x.n # x.child
  BY AtInsert
<1>2. "insert" \in Climbing
  BY DEF Climbing
<1>3. QED
  BY <1>1, <1>2, OwnView

\* The parent has room: c becomes a child of it.
LEMMA InsertChildKeeps ==
  ASSUME NEW lo, NEW hi, TreeIn(lo, hi), NEW t \in Thread, InsertChild(t)
  PROVE  TreeInv'
<1>1. PICK x : x = loc[t]
  OBVIOUS
<1>2. PICK n : n = x.n
  OBVIOUS
<1>3. PICK c : c = x.child
  OBVIOUS
<1>4. PICK i : i = x.ikey
  OBVIOUS
<1>5. PICK p : p = x.p
  OBVIOUS
<1>6. PICK z : z = [x EXCEPT !.next = Nil]
  OBVIOUS
<1>7. PICK all : all = WithChild(node[p], Upper(i, node[p]), i, c)
  OBVIOUS
<1>8. PICK w : w = [all EXCEPT !.ver.inserting = TRUE]
  OBVIOUS
<1>9. /\ pc[t] = "insert" /\ p # Nil /\ Len(node[p].ikeys) < Width
      /\ node' = [node EXCEPT ![p] = w, ![c].parent = p]
      /\ loc' = [loc EXCEPT ![t] = z] /\ pc' = [pc EXCEPT ![t] = "strip"] /\ UNCHANGED <<root, req, pre>>
  <2>1. /\ pc[t] = "insert" /\ p # Nil /\ Len(node[p].ikeys) < Width
        /\ loc' = [loc EXCEPT ![t] = z] /\ pc' = [pc EXCEPT ![t] = "strip"] /\ UNCHANGED <<root, req, pre>>
    BY <1>1, <1>5, <1>6 DEF InsertChild, Goto
  <2>2. node' = [node EXCEPT ![p] = w, ![c].parent = p]
    <3>1. node' = [node EXCEPT
            ![loc[t].p] = [WithChild(node[loc[t].p], Upper(loc[t].ikey, node[loc[t].p]), loc[t].ikey, loc[t].child)
                             EXCEPT !.ver.inserting = TRUE],
            ![loc[t].child].parent = loc[t].p]
      BY Zenon DEF InsertChild
    <3>2. loc[t].p = p /\ loc[t].ikey = i /\ loc[t].child = c
      BY <1>1, <1>3, <1>4, <1>5
    <3>3. node' = [node EXCEPT ![p] = [WithChild(node[p], Upper(i, node[p]), i, c) EXCEPT !.ver.inserting = TRUE],
                               ![c].parent = p]
      BY ONLY <3>1, <3>2, Zenon
    <3>4. QED
      BY ONLY <1>7, <1>8, <3>3, Zenon
  <2>3. QED
    BY <2>1, <2>2
<1>10. /\ Types /\ Parents /\ x \in WritingLocals /\ n \in NodeId /\ c \in NodeId /\ n # c /\ n # p /\ c # p
       /\ node[n].parent = p /\ node[c].parent = Nil /\ i \in Nat /\ x.height \in Nat
       /\ lo[n] < i /\ Below(i, hi[c]) /\ hi[n] = i /\ lo[c] = i
       /\ Owns(t, p) /\ Inner(p) /\ ~ node[p].ver.splitting /\ p \in NodeId /\ node[p].lock = t
       /\ node[p].height = x.height + 1 /\ node[c].height = x.height
  BY <1>1, <1>2, <1>3, <1>4, <1>5, <1>9, AtInsert
<1>11. /\ z \in WritingLocals /\ z \in AllLocals /\ z.next = Nil /\ z.n = x.n /\ z.leaf = x.leaf /\ z.child = x.child /\ z.p = x.p
       /\ z.ikey = x.ikey /\ z.split = x.split /\ z.height = x.height
  BY <1>6, <1>10 DEF WritingLocals, AllLocals, Nil
<1>12. PICK sep : sep = [y \in NodeId |-> IF y = x.n THEN x.ikey ELSE SepHi(y, hi)]
  OBVIOUS
<1>13. PICK k : k = Len(node[p].ikeys)
  OBVIOUS
<1>14. /\ node[p] \in Node /\ node[p].ver \in Version /\ node[p].kind = "inner" /\ p \in Nat /\ NodeIn(p, lo, hi)
       /\ node[p].ver.vsplit \in Nat /\ node[p].ver.vinsert \in Nat
  BY <1>10, NodeTypes DEF Inner, TreeIn
<1>15. \A u \in Thread \ {t} : pc'[u] = pc[u] /\ loc'[u] = loc[u] /\ req'[u] = req[u]
  <2>1. pc \in [Thread -> AllPc] /\ loc \in [Thread -> AllLocals]
    BY <1>10, RequestsAre
  <2>2. QED
    BY <1>9, <2>1
<1>16. pc'[t] = "strip" /\ loc'[t] = z
  <2>1. pc \in [Thread -> AllPc] /\ loc \in [Thread -> AllLocals]
    BY <1>10, RequestsAre
  <2>2. QED
    BY <1>9, <2>1
<1>17. SepHi(x.n, hi) = hi[x.child] /\ SepHi(x.child, hi) = hi[x.child]
  BY <1>1, <1>9, InsertSep
<1>18. /\ k \in Nat /\ node[p].ikeys \in Seq(Nat)
       /\ all = [node[p] EXCEPT !.ikeys = all.ikeys, !.child = all.child]
       /\ all.ikeys \in Seq(Nat) /\ Len(all.ikeys) = k + 1 /\ DOMAIN all.ikeys = 1 .. k + 1
       /\ all.child \in Seq(Nat) /\ Len(all.child) = k + 2 /\ DOMAIN all.child = 1 .. k + 2
       /\ Row(all.ikeys, all.child, k + 1, lo[p], hi[p], lo, sep)
       /\ \A m \in 1 .. k + 2 : /\ all.child[m] \in NodeId /\ node[all.child[m]].height + 1 = node[p].height
                                /\ all.child[m] = x.child \/ node[all.child[m]].parent = p
       /\ \A y \in NodeId : y = x.child \/ node[y].parent = p => \E m \in 1 .. k + 2 : all.child[m] = y
  <2>1. Widened(p, all, k, x.child, lo, hi, sep)
    BY <1>1, <1>3, <1>4, <1>5, <1>7, <1>9, <1>12, <1>13, <1>17, AtParent
  <2>2. QED
    BY ONLY <2>1 DEF Widened
<1>19. PICK ver : ver = [node[p].ver EXCEPT !.inserting = TRUE]
  OBVIOUS
<1>20. /\ ver \in Version /\ ver.inserting /\ ver.vsplit = node[p].ver.vsplit /\ ver.vinsert = node[p].ver.vinsert
       /\ ver.splitting = node[p].ver.splitting /\ ver.root = node[p].ver.root
  BY <1>14, <1>19 DEF Version
<1>21. /\ w \in Node /\ w.ikeys = all.ikeys /\ w.child = all.child /\ w.ver = ver
       /\ w.kind = "inner" /\ w.lock = t /\ w.parent = node[p].parent /\ w.prev = node[p].prev
       /\ w.height = node[p].height
  <2>1. PICK y : y = node[p]
    OBVIOUS
  <2>2. PICK ks : ks = all.ikeys
    OBVIOUS
  <2>3. PICK cs : cs = all.child
    OBVIOUS
  <2>4. all = [y EXCEPT !.ikeys = ks, !.child = cs] /\ y \in Node
    BY <1>14, <1>18, <2>1, <2>2, <2>3
  <2>5. all.ver = y.ver
    BY ONLY <2>4 DEF Node
  <2>6. w = [y EXCEPT !.ikeys = ks, !.child = cs, !.ver = ver]
    BY <1>8, <1>19, <2>1, <2>4, <2>5
  <2>7. ks \in Seq(Nat) /\ cs \in Seq(Nat)
    BY <1>18, <2>2, <2>3
  <2>8. /\ w \in Node /\ w.ikeys = ks /\ w.child = cs /\ w.ver = ver
        /\ w.kind = y.kind /\ w.lock = y.lock /\ w.parent = y.parent /\ w.prev = y.prev /\ w.height = y.height
    BY ONLY <1>20, <2>4, <2>6, <2>7 DEF Node
  <2>9. y.kind = "inner" /\ y.lock = t
    BY <1>10, <1>14, <2>1
  <2>10. QED
    BY ONLY <2>1, <2>2, <2>3, <2>8, <2>9
<1>22. /\ node' \in Seq(Node) /\ NodeId' = NodeId /\ node'[p] = w
       /\ \A y \in NodeId \ {p} : node'[y] = IF y = c THEN [node[y] EXCEPT !.parent = p] ELSE node[y]
  <2>1. node \in Seq(Node) /\ node[c] \in Node
    BY <1>10, NodeTypes DEF Types
  <2>2. PICK d \in Node : d = [node[c] EXCEPT !.parent = p]
    BY <1>14, <2>1, WithParent
  <2>3. node' = [[node EXCEPT ![p] = w] EXCEPT ![c] = d]
    BY <1>9, <1>10, <2>2
  <2>4. QED
    BY <1>10, <1>21, <2>1, <2>2, <2>3 DEF NodeId
<1>23. \A y \in NodeId \ {p} : /\ SameBody(node[y], node'[y]) /\ node'[y].ver = node[y].ver /\ node'[y].lock = node[y].lock
                         /\ node'[y].prev = node[y].prev
                         /\ node'[y].parent = IF y = c THEN p ELSE node[y].parent
  <2>1. SUFFICES ASSUME NEW y \in NodeId \ {p}
                 PROVE /\ SameBody(node[y], node'[y]) /\ node'[y].ver = node[y].ver /\ node'[y].lock = node[y].lock
                       /\ node'[y].prev = node[y].prev
                       /\ node'[y].parent = IF y = c THEN p ELSE node[y].parent
    OBVIOUS
  <2>2. node[y] \in Node
    BY <1>10, NodeTypes
  <2>3. node'[y] = IF y = c THEN [node[y] EXCEPT !.parent = p] ELSE node[y]
    BY <1>22
  <2>4. QED
    BY <1>14, <2>2, <2>3, WithParent DEF SameBody
<1>36. node'[n].parent = p /\ node'[c].parent = p /\ p # Nil
  <2>1. n \in NodeId \ {p} /\ c \in NodeId \ {p} /\ n # c /\ node[n].parent = p /\ p # Nil
    BY <1>9, <1>10
  <2>2. \A y \in NodeId \ {p} : node'[y].parent = IF y = c THEN p ELSE node[y].parent
    BY <1>23
  <2>3. QED
    BY ONLY <2>1, <2>2
<1>24. /\ Types' /\ NodeId \subseteq NodeId'
  <2>1. "strip" \in AllPc
    BY DEF AllPc, WritePc, Putting, Splitting
  <2>2. NodeId \subseteq NodeId'
    BY <1>22
  <2>3. QED
    BY <1>9, <1>10, <1>11, <1>22, <2>1, <2>2, Moves
<1>25. Hangs(t, x, z, Nil, lo, hi, lo, hi)
  <2>1. \A y \in NodeId : /\ node'[y].lock = node[y].lock /\ node'[y].prev = node[y].prev /\ lo[y] = lo[y]
                          /\ hi[y] = hi[y]
                          /\ y # x.p => SameBody(node[y], node'[y]) /\ node'[y].ver = node[y].ver
    BY <1>5, <1>10, <1>21, <1>22, <1>23
  <2>2. node'[x.n].parent # Nil /\ node'[x.child].parent # Nil
    BY <1>2, <1>3, <1>36
  <2>3. \A y \in NodeId \ {x.child} : node'[y].parent = node[y].parent
    BY <1>3, <1>21, <1>22, <1>23
  <2>4. QED
    BY <1>11, <1>15, <1>16, <1>24, <2>1, <2>2, <2>3 DEF Hangs
<1>26. /\ SepHi(n, hi)' = i /\ \A y \in NodeId \ {n} : SepHi(y, hi)' = SepHi(y, hi)
       /\ ReadHi(p, hi)' = ReadHi(p, hi) /\ (NewRight(p)' <=> NewRight(p)) /\ ~ NewRight(p)
  <2>1. Views(x, Nil, hi, hi)
    BY <1>1, <1>9, <1>25, HangView
  <2>2. QED
    BY <1>2, <1>3, <1>5, <1>9, <1>10, <2>1 DEF Views
<1>27. Told(p, lo, hi, lo, hi)
  BY <1>14, <1>20, <1>21, <1>22, <1>26 DEF Told, VLeq
<1>28. PICK T : T = {x.child, x.p} \ {Nil}
  OBVIOUS
<1>29. /\ Frame(t, T, lo, hi, lo, hi) /\ NodeIn(x.child, lo, hi)'
       /\ Same(x.n, lo, hi, lo, hi) /\ Same(x.child, lo, hi, lo, hi) /\ Same(x.leaf, lo, hi, lo, hi)
  BY <1>1, <1>5, <1>9, <1>25, <1>27, <1>28, HangFrame
<1>30. NodeIn(p, lo, hi)'
  <2>1. TopRange(p, lo, hi)'
    <3>1. TopRange(p, lo, hi)
      BY <1>14 DEF NodeIn
    <3>2. SepHi(p, hi)' = SepHi(p, hi) /\ node'[p].parent = node[p].parent
          /\ node'[p].ver.root = node[p].ver.root /\ node'[p].ver.splitting = node[p].ver.splitting
      BY <1>10, <1>20, <1>21, <1>22, <1>26
    <3>3. RootId(p)
      BY <1>10 DEF RootId
    <3>4. QED
      BY <1>26, <3>1, <3>2, <3>3, TopKept
  <2>2. ASSUME NEW y, NEW m \in 1 .. (k + 1) + 1, y = node'[p].child[m]
        PROVE  /\ y \in NodeId' /\ node'[y].parent = p /\ node'[y].height + 1 = node'[p].height
               /\ lo[y] = lo[y] /\ SepHi(y, hi)' = sep[y]
    <3>1. m \in 1 .. k + 2 /\ y = all.child[m]
      BY <1>18, <1>21, <1>22, <2>2
    <3>2. y \in NodeId /\ node[y].height + 1 = node[p].height /\ (y = c \/ node[y].parent = p)
      BY <1>3, <1>18, <3>1
    <3>3. y # p
      <4>1. node[p].height \in Nat
        BY <1>10
      <4>2. QED
        BY <3>2, <4>1
    <3>4. node'[y].parent = p /\ node'[y].height = node[y].height /\ y \in NodeId'
      BY <1>22, <1>23, <3>2, <3>3 DEF SameBody
    <3>5. SepHi(y, hi)' = sep[y]
      BY <1>2, <1>4, <1>12, <1>26, <3>2
    <3>6. QED
      BY <1>21, <1>22, <3>2, <3>4, <3>5
  <2>3. k + 1 <= Width /\ k + 1 > 0 /\ k + 1 = Len(w.ikeys) /\ Len(w.child) = (k + 1) + 1
    <3>1. k < Width /\ k \in Nat /\ Width \in Nat /\ Len(w.ikeys) = k + 1 /\ Len(w.child) = k + 2
      BY <1>9, <1>13, <1>18, <1>21, WidthsAssumption
    <3>2. QED
      BY ONLY <3>1
  <2>4. Below(lo[p], hi[p]) /\ t # NoThread
    BY <1>14, ThreadAssumption DEF NodeIn
  <2>5. Filled(p, k + 1, lo[p], hi[p], lo, sep, lo, hi)
    BY <1>10, <1>18, <1>21, <1>22, <2>2, <2>3, <2>4 DEF Filled
  <2>6. QED
    BY <2>1, <2>5, FilledIn
<1>31. Parents'
  <2>1. ASSUME NEW y \in NodeId', NEW q, q = node'[y].parent, q # Nil, y \notin NodeId \/ q # node[y].parent \/ q = x.p
        PROVE  HasChild(q, y)'
    <3>1. y \in NodeId /\ (y = c \/ node[y].parent = p) /\ q = p
      <4>1. y \in NodeId
        BY <1>22, <2>1
      <4>2. node'[y].parent = IF y = c THEN p ELSE node[y].parent
        BY <1>10, <1>21, <1>22, <1>23, <4>1
      <4>3. QED
        BY <1>5, <2>1, <4>1, <4>2
    <3>2. PICK m \in 1 .. k + 2 : all.child[m] = y
      BY <1>3, <1>18, <3>1
    <3>3. QED
      BY <1>10, <1>18, <1>21, <1>22, <3>1, <3>2 DEF HasChild, Inner
  <2>2. QED
    BY <1>25, <2>1, HangParents
<1>32. ThreadIn(t, lo, hi)'
  <2>1. /\ node'[x.n].parent # Nil /\ node'[x.child].parent # Nil /\ req'[t] = req[t]
        /\ Owns(t, p)' /\ Inner(p)' /\ node'[p].height = x.height + 1 /\ ~ node'[p].ver.splitting
    <3>1. node'[x.n].parent # Nil /\ node'[x.child].parent # Nil /\ req'[t] = req[t]
      BY <1>2, <1>3, <1>9, <1>36
    <3>2. p \in NodeId' /\ node'[p].lock = t /\ node'[p].kind = "inner" /\ node'[p].height = x.height + 1
          /\ ~ node'[p].ver.splitting
      BY <1>10, <1>20, <1>21, <1>22
    <3>3. QED
      BY <3>1, <3>2 DEF Owns, Inner
  <2>2. Attached(t, x, z, lo, hi, lo, hi)
    BY <1>5, <1>9, <1>11, <1>16, <1>24, <1>29, <2>1 DEF Attached
  <2>3. QED
    BY <1>1, <1>9, <2>2, StripWriting
<1>33. RootId(root)'
  <2>1. RootId(root)
    BY DEF TreeIn
  <2>2. QED
    BY <1>9, <1>29, <2>1, KindKept
<1>34. /\ \A y \in T : NodeIn(y, lo, hi)'
       /\ \A y \in NodeId' \ NodeId : NodeIn(y, lo, hi)'
  BY <1>5, <1>22, <1>28, <1>29, <1>30
<1>35. TreeIn(lo, hi)'
  BY <1>24, <1>29, <1>31, <1>32, <1>33, <1>34, Wrap
<1>37. QED
  BY <1>35 DEF TreeInv

\* split_into: of Width + 1 ikeys the one at mid + 1 goes up, the others to the
\* left or to the right.
Halves(ks, cs, mid, ksl, csl, ksr, csr) ==
  /\ ks \in Seq(Nat) /\ Len(ks) = Width + 1 /\ cs \in Seq(Nat) /\ Len(cs) = Width + 2 /\ mid \in 1 .. Width
  /\ IsSubSeq(ks, 1, mid, ksl) /\ IsSubSeq(cs, 1, mid + 1, csl)
  /\ IsSubSeq(ks, mid + 2, Width + 1, ksr) /\ IsSubSeq(cs, mid + 2, Width + 2, csr)

Halved(cs, mid, ksl, csl, ksr, csr, l, i, h, lo, sep) ==
  /\ ksl \in Seq(Nat) /\ Len(ksl) = mid /\ csl \in Seq(Nat) /\ Len(csl) = mid + 1 /\ DOMAIN csl = 1 .. mid + 1
  /\ ksr \in Seq(Nat) /\ Len(ksr) = Width - mid
  /\ csr \in Seq(Nat) /\ Len(csr) = Width - mid + 1 /\ DOMAIN csr = 1 .. Width - mid + 1
  /\ i \in Nat /\ Below(l, i) /\ Below(i, h)
  /\ Row(ksl, csl, mid, l, i, lo, sep) /\ Row(ksr, csr, Width - mid, i, h, lo, sep)
  /\ \A m \in 1 .. mid + 1 : csl[m] = cs[m] /\ m \in 1 .. Width + 2
  /\ \A m \in 1 .. Width - mid + 1 : csr[m] = cs[mid + 1 + m] /\ mid + 1 + m \in 1 .. Width + 2
  /\ \A m \in 1 .. mid + 1 : \A g \in 1 .. Width - mid + 1 : csl[m] # csr[g]
  /\ \A g \in 1 .. Width + 2 : (g \in 1 .. mid + 1 /\ csl[g] = cs[g]) \/ \E m \in 1 .. Width - mid + 1 : csr[m] = cs[g]

LEMMA HalvesAre ==
  ASSUME NEW ks, NEW cs, NEW mid, NEW ksl, NEW csl, NEW ksr, NEW csr, Halves(ks, cs, mid, ksl, csl, ksr, csr),
         NEW l, NEW h, NEW lo, NEW sep, Row(ks, cs, Width + 1, l, h, lo, sep), NEW i, i = ks[mid + 1]
  PROVE  Halved(cs, mid, ksl, csl, ksr, csr, l, i, h, lo, sep)
<1>1. PICK n : n = Width + 1
  OBVIOUS
<1>2. /\ Row(ks, cs, n, l, h, lo, sep)
      /\ ks \in Seq(Nat) /\ Len(ks) = n /\ cs \in Seq(Nat) /\ Len(cs) = n + 1 /\ mid \in 1 .. n - 1
      /\ IsSubSeq(ks, 1, mid, ksl) /\ IsSubSeq(cs, 1, mid + 1, csl)
      /\ IsSubSeq(ks, mid + 2, n, ksr) /\ IsSubSeq(cs, mid + 2, n + 1, csr)
      /\ n \in Nat /\ mid \in Nat /\ Width = n - 1 /\ Width \in Nat
  BY ONLY <1>1, Halves(ks, cs, mid, ksl, csl, ksr, csr), Row(ks, cs, Width + 1, l, h, lo, sep), WidthsAssumption DEF Halves
<1>3. PICK a : a = mid + 2
  OBVIOUS
<1>4. /\ n \in Nat /\ mid \in Nat /\ a \in Nat /\ a = mid + 2 /\ 1 <= mid /\ mid < n /\ a <= n + 1
  BY ONLY <1>2, <1>3
<1>5. ksl \in Seq(Nat) /\ Len(ksl) = mid /\ Cut(ks, 1, mid, ksl)
  <2>1. ksl \in Seq(Nat) /\ Len(ksl) = mid + 1 - 1 /\ DOMAIN ksl = 1 .. mid + 1 - 1 /\ Cut(ks, 1, mid, ksl)
    <3>1. 1 \in Nat /\ 1 <= 1 /\ 1 <= mid + 1 /\ mid <= Len(ks) /\ mid \in Nat
      BY ONLY <1>2, <1>4
    <3>2. ks \in Seq(Nat) /\ IsSubSeq(ks, 1, mid, ksl)
      BY ONLY <1>2
    <3>3. QED
      BY ONLY <3>1, <3>2, CutIs
  <2>2. QED
    BY ONLY <1>4, <2>1
<1>6. csl \in Seq(Nat) /\ Len(csl) = mid + 1 /\ DOMAIN csl = 1 .. mid + 1 /\ Cut(cs, 1, mid + 1, csl)
  <2>0. PICK b : b = mid + 1
    OBVIOUS
  <2>1. csl \in Seq(Nat) /\ Len(csl) = b + 1 - 1 /\ DOMAIN csl = 1 .. b + 1 - 1 /\ Cut(cs, 1, b, csl)
    <3>1. 1 \in Nat /\ 1 <= 1 /\ 1 <= b + 1 /\ b <= Len(cs) /\ b \in Nat
      BY ONLY <1>2, <1>4, <2>0
    <3>2. cs \in Seq(Nat) /\ IsSubSeq(cs, 1, b, csl)
      BY ONLY <1>2, <2>0
    <3>3. QED
      BY ONLY <3>1, <3>2, CutIs
  <2>2. b + 1 - 1 = mid + 1
    BY ONLY <1>4, <2>0
  <2>3. QED
    BY ONLY <2>0, <2>1, <2>2
<1>7. ksr \in Seq(Nat) /\ Len(ksr) = n + 1 - a /\ Cut(ks, a, n, ksr)
  <2>1. ksr \in Seq(Nat) /\ Len(ksr) = n + 1 - a /\ DOMAIN ksr = 1 .. n + 1 - a /\ Cut(ks, a, n, ksr)
    <3>1. a \in Nat /\ 1 <= a /\ a <= n + 1 /\ n <= Len(ks) /\ n \in Nat
      BY ONLY <1>2, <1>4
    <3>2. ks \in Seq(Nat) /\ IsSubSeq(ks, a, n, ksr)
      BY ONLY <1>2, <1>3
    <3>3. QED
      BY ONLY <3>1, <3>2, CutIs
  <2>2. QED
    BY ONLY <2>1
<1>8. csr \in Seq(Nat) /\ Len(csr) = n + 2 - a /\ DOMAIN csr = 1 .. n + 2 - a /\ Cut(cs, a, n + 1, csr)
  <2>0. PICK b : b = n + 1
    OBVIOUS
  <2>1. csr \in Seq(Nat) /\ Len(csr) = b + 1 - a /\ DOMAIN csr = 1 .. b + 1 - a /\ Cut(cs, a, b, csr)
    <3>1. a \in Nat /\ 1 <= a /\ a <= b + 1 /\ b <= Len(cs) /\ b \in Nat
      BY ONLY <1>2, <1>4, <2>0
    <3>2. cs \in Seq(Nat) /\ IsSubSeq(cs, a, b, csr)
      BY ONLY <1>2, <1>3, <2>0
    <3>3. QED
      BY ONLY <3>1, <3>2, CutIs
  <2>2. b + 1 - a = n + 2 - a
    BY ONLY <1>4, <2>0
  <2>3. QED
    BY ONLY <2>0, <2>1, <2>2
<1>9. i = ks[a - 1] /\ i = ks[mid + 1] /\ a # 1 /\ mid # n
  BY ONLY <1>4, i = ks[mid + 1]
<1>10. Row(ksl, csl, mid + 1 - 1, l, i, lo, sep)
  <2>1. 1 \in 1 .. n + 1 /\ 1 - 1 <= mid /\ mid <= n /\ mid \in Nat
    BY ONLY <1>4
  <2>2. (1 = 1 => l = l) /\ (1 # 1 => l = ks[1 - 1]) /\ (mid = n => i = h) /\ (mid # n => i = ks[mid + 1])
    BY ONLY <1>9
  <2>3. Row(ks, cs, n, l, h, lo, sep) /\ Cut(ks, 1, mid, ksl) /\ Cut(cs, 1, mid + 1, csl)
    BY ONLY <1>2, <1>5, <1>6
  <2>4. QED
    BY ONLY <2>1, <2>2, <2>3, PartLeads
<1>11. Row(ksr, csr, n + 1 - a, i, h, lo, sep)
  <2>1. a \in 1 .. n + 1 /\ a - 1 <= n /\ n <= n /\ n \in Nat
    BY ONLY <1>4
  <2>2. (a = 1 => i = l) /\ (a # 1 => i = ks[a - 1]) /\ (n = n => h = h) /\ (n # n => h = ks[n + 1])
    BY ONLY <1>9
  <2>3. Row(ks, cs, n, l, h, lo, sep) /\ Cut(ks, a, n, ksr) /\ Cut(cs, a, n + 1, csr)
    BY ONLY <1>2, <1>7, <1>8
  <2>4. QED
    BY ONLY <2>1, <2>2, <2>3, PartLeads
<1>12. mid + 1 - 1 = mid /\ n + 1 - a = Width - mid /\ n + 2 - a = Width - mid + 1 /\ n + 1 = Width + 2
  BY ONLY <1>2, <1>4
<1>13. i \in Nat /\ Below(l, i) /\ Below(i, h)
  <2>1. mid + 1 \in 1 .. n
    BY ONLY <1>4
  <2>2. ks[mid + 1] \in Nat /\ l < ks[mid + 1] /\ Below(ks[mid + 1], h)
    BY ONLY <1>2, <2>1 DEF Row
  <2>3. QED
    BY ONLY <1>9, <2>2 DEF Below
<1>14. \A m \in 1 .. mid + 1 : csl[m] = cs[m] /\ m \in 1 .. n + 1
  <2>1. SUFFICES ASSUME NEW m \in 1 .. mid + 1 PROVE csl[m] = cs[m] /\ m \in 1 .. n + 1
    OBVIOUS
  <2>2. m \in 1 .. (mid + 1) + 1 - 1 /\ 1 + m - 1 = m /\ m \in 1 .. n + 1
    BY ONLY <1>4, m \in 1 .. mid + 1
  <2>3. QED
    BY ONLY <1>6, <2>2 DEF Cut
<1>15. \A m \in 1 .. n + 2 - a : csr[m] = cs[mid + 1 + m] /\ mid + 1 + m \in 1 .. n + 1
  <2>1. SUFFICES ASSUME NEW m \in 1 .. n + 2 - a PROVE csr[m] = cs[mid + 1 + m] /\ mid + 1 + m \in 1 .. n + 1
    OBVIOUS
  <2>2. m \in 1 .. (n + 1) + 1 - a /\ a + m - 1 = mid + 1 + m /\ mid + 1 + m \in 1 .. n + 1
    BY ONLY <1>4, m \in 1 .. n + 2 - a
  <2>3. QED
    BY ONLY <1>8, <2>2 DEF Cut
<1>16. ASSUME NEW m \in 1 .. mid + 1, NEW g \in 1 .. n + 2 - a PROVE csl[m] # csr[g]
  <2>0. Row(ks, cs, n, l, h, lo, sep)
    BY ONLY <1>2
  <2>1. \A a1, b1 \in 1 .. n + 1 : cs[a1] = cs[b1] => a1 = b1
    BY ONLY <2>0, ChildrenDiffer
  <2>2. mid + 1 + g # m
    BY ONLY <1>4, m \in 1 .. mid + 1, g \in 1 .. n + 2 - a
  <2>3. QED
    BY ONLY <1>14, <1>15, <2>1, <2>2, m \in 1 .. mid + 1, g \in 1 .. n + 2 - a
<1>17. ASSUME NEW g \in 1 .. n + 1
       PROVE  (g \in 1 .. mid + 1 /\ csl[g] = cs[g]) \/ \E m \in 1 .. n + 2 - a : csr[m] = cs[g]
  <2>1. CASE g <= mid + 1
    <3>1. g \in 1 .. mid + 1
      BY ONLY <1>4, <2>1, g \in 1 .. n + 1
    <3>2. QED
      BY ONLY <1>14, <3>1
  <2>2. CASE ~ (g <= mid + 1)
    <3>1. PICK m : m = g - (mid + 1)
      OBVIOUS
    <3>2. m \in 1 .. n + 2 - a /\ mid + 1 + m = g
      BY ONLY <1>4, <2>2, <3>1, g \in 1 .. n + 1
    <3>3. csr[m] = cs[g]
      BY ONLY <1>15, <3>2
    <3>4. QED
      BY ONLY <3>2, <3>3
  <2>3. QED
    BY <2>1, <2>2
<1>18. QED
  BY ONLY <1>5, <1>6, <1>7, <1>8, <1>10, <1>11, <1>12, <1>13, <1>14, <1>15, <1>16, <1>17 DEF Halved

\* The row of the parent, with the new child, in two: cs for the whole, csl for
\* the part that stays, csr for the one that goes to r.
Cutting(t, x, p, r, mid, all, w, v) ==
  /\ pc[t] = "insert" /\ p # Nil /\ Len(node[p].ikeys) = Width /\ mid \in 1 .. Width
  /\ loc' = [loc EXCEPT ![t] = [x EXCEPT !.next = r, !.ikey2 = all.ikeys[mid + 1]]]
  /\ pc' = [pc EXCEPT ![t] = "strip"] /\ UNCHANGED <<root, req, pre>>
  /\ w = [node[p] EXCEPT !.ver.inserting = TRUE, !.ver.splitting = TRUE,
                         !.ikeys = SubSeq(all.ikeys, 1, mid), !.child = SubSeq(all.child, 1, mid + 1)]
  /\ v = [EmptyNode EXCEPT !.kind = "inner", !.height = x.height + 1, !.lock = t,
            !.ver = [node[p].ver EXCEPT !.inserting = TRUE, !.root = FALSE],
            !.ikeys = SubSeq(all.ikeys, mid + 2, Width + 1),
            !.child = SubSeq(all.child, mid + 2, Width + 2)]
  /\ node' = Append([y \in NodeId |->
       CASE y = p -> w
         [] y \in SX!Range(v.child) -> [node[y] EXCEPT !.parent = r]
         [] y = x.child /\ y \notin SX!Range(v.child) -> [node[y] EXCEPT !.parent = p]
         [] OTHER -> node[y]], v)

LEMMA CuttingIs ==
  ASSUME NEW t \in Thread, SplitInternode(t), NEW x, x = loc[t], NEW p, p = x.p, NEW r, r = Fresh,
         NEW mid, mid = IF x.split = 2 THEN Width ELSE (Width + 1) \div 2,
         NEW all, all = WithChild(node[p], Upper(x.ikey, node[p]), x.ikey, x.child)
  PROVE  \E w, v : Cutting(t, x, p, r, mid, all, w, v)
<1> DEFINE x0 == loc[t]
           p0 == x0.p
           mid0 == IF x0.split = 2 THEN Width ELSE (Width + 1) \div 2
           all0 == WithChild(node[p0], Upper(x0.ikey, node[p0]), x0.ikey, x0.child)
           v0 == [EmptyNode EXCEPT !.kind = "inner", !.height = x0.height + 1, !.lock = t,
                    !.ver = [node[p0].ver EXCEPT !.inserting = TRUE, !.root = FALSE],
                    !.ikeys = SubSeq(all0.ikeys, mid0 + 2, Width + 1),
                    !.child = SubSeq(all0.child, mid0 + 2, Width + 2)]
           w0 == [node[p0] EXCEPT !.ver.inserting = TRUE, !.ver.splitting = TRUE,
                    !.ikeys = SubSeq(all0.ikeys, 1, mid0), !.child = SubSeq(all0.child, 1, mid0 + 1)]
<1>1. /\ pc[t] = "insert" /\ p0 # Nil /\ Len(node[p0].ikeys) = Width
      /\ pc' = [pc EXCEPT ![t] = "strip"] /\ UNCHANGED <<root, req, pre>>
  BY ONLY SplitInternode(t), Zenon DEF SplitInternode, Goto
<1>2. loc' = [loc EXCEPT ![t] = [x0 EXCEPT !.next = Fresh, !.ikey2 = all0.ikeys[mid0 + 1]]]
  <2>1. PICK i : i = all0.ikeys[mid0 + 1]
    OBVIOUS
  <2>2. loc' = [loc EXCEPT ![t].next = Fresh, ![t].ikey2 = i]
    <3>1. loc' = [loc EXCEPT ![t].next = Fresh, ![t].ikey2 = all0.ikeys[mid0 + 1]]
      BY ONLY SplitInternode(t), Zenon DEF SplitInternode
    <3>2. QED
      BY ONLY <2>1, <3>1, Zenon
  <2>3. loc' = [loc EXCEPT ![t] = [loc[t] EXCEPT !.next = Fresh, !.ikey2 = i]]
    BY ONLY <2>2
  <2>4. QED
    BY ONLY <2>1, <2>3, Zenon
<1>3. mid0 \in 1 .. Width
  <2>1. Width \in Nat /\ Width >= 2
    BY WidthsAssumption
  <2>2. (Width + 1) \div 2 \in 1 .. Width /\ Width \in 1 .. Width
    BY ONLY <2>1
  <2>3. QED
    BY <2>2
<1>4. node' = Append([y \in NodeId |->
       CASE y = p0 -> w0
         [] y \in SX!Range(v0.child) -> [node[y] EXCEPT !.parent = Fresh]
         [] y = x0.child /\ y \notin SX!Range(v0.child) -> [node[y] EXCEPT !.parent = p0]
         [] OTHER -> node[y]], v0)
  BY ONLY SplitInternode(t), Zenon DEF SplitInternode
<1>5. Cutting(t, x0, p0, Fresh, mid0, all0, w0, v0)
  BY ONLY <1>1, <1>2, <1>3, <1>4, Zenon DEF Cutting
<1>6. x = x0 /\ p = p0 /\ r = Fresh /\ mid = mid0 /\ all = all0
  OBVIOUS
<1> HIDE DEF x0, p0, mid0, all0, v0, w0
<1>7. QED
  BY ONLY <1>5, <1>6

\* The parent has no room and is split: z.next, its new right half, is the next
\* child to put above.
LEMMA SplitInternodeKeeps ==
  ASSUME NEW lo, NEW hi, TreeIn(lo, hi), NEW t \in Thread, SplitInternode(t)
  PROVE  TreeInv'
<1>1. PICK x : x = loc[t]
  OBVIOUS
<1>2. PICK n : n = x.n
  OBVIOUS
<1>3. PICK c : c = x.child
  OBVIOUS
<1>4. PICK i : i = x.ikey
  OBVIOUS
<1>5. PICK p : p = x.p
  OBVIOUS
<1>6. PICK r : r = Fresh
  OBVIOUS
<1>7. PICK all : all = WithChild(node[p], Upper(x.ikey, node[p]), x.ikey, x.child)
  OBVIOUS
<1>8. PICK mid : mid = IF x.split = 2 THEN Width ELSE (Width + 1) \div 2
  OBVIOUS
<1>9. PICK w, v : Cutting(t, x, p, r, mid, all, w, v)
  BY <1>1, <1>5, <1>6, <1>7, <1>8, CuttingIs
<1>10. PICK i2 : i2 = all.ikeys[mid + 1]
  OBVIOUS
<1>11. PICK z : z = [x EXCEPT !.next = r, !.ikey2 = i2]
  OBVIOUS
<1>12. /\ pc[t] = "insert" /\ p # Nil /\ Len(node[p].ikeys) = Width /\ mid \in 1 .. Width
       /\ loc' = [loc EXCEPT ![t] = z] /\ pc' = [pc EXCEPT ![t] = "strip"] /\ UNCHANGED <<root, req, pre>>
  BY ONLY <1>9, <1>10, <1>11, Zenon DEF Cutting
<1>13. /\ Types /\ Parents /\ x \in WritingLocals /\ n \in NodeId /\ c \in NodeId /\ n # c /\ n # p /\ c # p
       /\ node[n].parent = p /\ node[c].parent = Nil /\ i \in Nat /\ x.height \in Nat
       /\ lo[n] < i /\ Below(i, hi[c]) /\ hi[n] = i /\ lo[c] = i
       /\ Owns(t, p) /\ Inner(p) /\ ~ node[p].ver.splitting /\ p \in NodeId /\ node[p].lock = t
       /\ node[p].height = x.height + 1 /\ node[c].height = x.height
  BY <1>1, <1>2, <1>3, <1>4, <1>5, <1>12, AtInsert
<1>14. PICK sep : sep = [y \in NodeId |-> IF y = x.n THEN x.ikey ELSE SepHi(y, hi)]
  OBVIOUS
<1>15. SepHi(x.n, hi) = hi[x.child] /\ SepHi(x.child, hi) = hi[x.child]
  BY <1>1, <1>12, InsertSep
<1>16. /\ all = [node[p] EXCEPT !.ikeys = all.ikeys, !.child = all.child] /\ Width \in Nat
       /\ all.ikeys \in Seq(Nat) /\ Len(all.ikeys) = Width + 1
       /\ all.child \in Seq(Nat) /\ Len(all.child) = Width + 2
       /\ Row(all.ikeys, all.child, Width + 1, lo[p], hi[p], lo, sep)
       /\ \A m \in 1 .. Width + 2 : /\ all.child[m] \in NodeId /\ node[all.child[m]].height + 1 = node[p].height
                                    /\ all.child[m] = x.child \/ node[all.child[m]].parent = p
       /\ \A y \in NodeId : y = x.child \/ node[y].parent = p => \E m \in 1 .. Width + 2 : all.child[m] = y
  <2>0. PICK k : k = Len(node[p].ikeys)
    OBVIOUS
  <2>1. Widened(p, all, k, x.child, lo, hi, sep)
    BY <1>1, <1>5, <1>7, <1>12, <1>14, <1>15, <2>0, AtParent
  <2>2. k = Width
    BY <1>12, <2>0
  <2>3. QED
    BY ONLY <2>1, <2>2 DEF Widened
<1>17. PICK cs : cs = all.child
  OBVIOUS
<1>18. PICK ksl, csl, ksr, csr :
         /\ IsSubSeq(all.ikeys, 1, mid, ksl) /\ IsSubSeq(all.child, 1, mid + 1, csl)
         /\ IsSubSeq(all.ikeys, mid + 2, Width + 1, ksr) /\ IsSubSeq(all.child, mid + 2, Width + 2, csr)
  BY ONLY Zenon DEF IsSubSeq
<1>19. Halved(cs, mid, ksl, csl, ksr, csr, lo[p], i2, hi[p], lo, sep)
  <2>1. PICK l, h : l = lo[p] /\ h = hi[p]
    OBVIOUS
  <2>2. PICK ks : ks = all.ikeys
    OBVIOUS
  <2>3. Halves(ks, cs, mid, ksl, csl, ksr, csr)
    BY ONLY <1>12, <1>16, <1>17, <1>18, <2>2 DEF Halves
  <2>4. Row(ks, cs, Width + 1, l, h, lo, sep) /\ i2 = ks[mid + 1]
    BY ONLY <1>10, <1>16, <1>17, <2>1, <2>2
  <2>5. Halved(cs, mid, ksl, csl, ksr, csr, l, i2, h, lo, sep)
    BY ONLY <2>3, <2>4, HalvesAre
  <2>6. QED
    BY ONLY <2>1, <2>5
<1>20. /\ ksl \in Seq(Nat) /\ Len(ksl) = mid /\ csl \in Seq(Nat) /\ Len(csl) = mid + 1 /\ DOMAIN csl = 1 .. mid + 1
       /\ ksr \in Seq(Nat) /\ Len(ksr) = Width - mid
       /\ csr \in Seq(Nat) /\ Len(csr) = Width - mid + 1 /\ DOMAIN csr = 1 .. Width - mid + 1
       /\ i2 \in Nat /\ Below(lo[p], i2) /\ Below(i2, hi[p])
       /\ Row(ksl, csl, mid, lo[p], i2, lo, sep) /\ Row(ksr, csr, Width - mid, i2, hi[p], lo, sep)
  BY ONLY <1>19 DEF Halved
<1>21. /\ \A m \in 1 .. mid + 1 : csl[m] = cs[m] /\ m \in 1 .. Width + 2
       /\ \A m \in 1 .. Width - mid + 1 : csr[m] = cs[mid + 1 + m] /\ mid + 1 + m \in 1 .. Width + 2
       /\ \A m \in 1 .. mid + 1 : \A g \in 1 .. Width - mid + 1 : csl[m] # csr[g]
       /\ \A g \in 1 .. Width + 2 : (g \in 1 .. mid + 1 /\ csl[g] = cs[g]) \/ \E m \in 1 .. Width - mid + 1 : csr[m] = cs[g]
  BY ONLY <1>19 DEF Halved
<1>22. PICK R : R = {y \in NodeId : \E m \in 1 .. Width - mid + 1 : csr[m] = y}
  OBVIOUS
\* The children of the two halves.
<1>23. /\ \A m \in 1 .. mid + 1 : /\ csl[m] \in NodeId \ R /\ csl[m] # p /\ node[csl[m]].height + 1 = node[p].height
                                  /\ csl[m] = c \/ node[csl[m]].parent = p
       /\ \A m \in 1 .. Width - mid + 1 :
            /\ csr[m] \in R /\ csr[m] # p /\ node[csr[m]].height + 1 = node[p].height
            /\ csr[m] = c \/ node[csr[m]].parent = p
       /\ \A y \in NodeId \ R : y = c \/ node[y].parent = p => \E m \in 1 .. mid + 1 : csl[m] = y
       /\ \A y \in R : y \in NodeId /\ y # p /\ (y = c \/ node[y].parent = p) /\ \E m \in 1 .. Width - mid + 1 : csr[m] = y
  <2>1. /\ \A m \in 1 .. Width + 2 : cs[m] \in NodeId /\ node[cs[m]].height + 1 = node[p].height /\ (cs[m] = c \/ node[cs[m]].parent = p)
        /\ \A y \in NodeId : y = c \/ node[y].parent = p => \E m \in 1 .. Width + 2 : cs[m] = y
    BY ONLY <1>3, <1>16, <1>17
  <2>2. \A m \in 1 .. Width + 2 : cs[m] # p
    <3>1. node[p].height \in Nat
      BY <1>13
    <3>2. QED
      BY ONLY <2>1, <3>1
  <2>3. \A m \in 1 .. mid + 1 : /\ csl[m] \in NodeId \ R /\ csl[m] # p /\ node[csl[m]].height + 1 = node[p].height
                                /\ csl[m] = c \/ node[csl[m]].parent = p
    BY ONLY <1>21, <1>22, <2>1, <2>2
  <2>4. \A m \in 1 .. Width - mid + 1 :
            /\ csr[m] \in R /\ csr[m] # p /\ node[csr[m]].height + 1 = node[p].height
            /\ csr[m] = c \/ node[csr[m]].parent = p
    BY ONLY <1>21, <1>22, <2>1, <2>2
  <2>5. \A y \in NodeId \ R : y = c \/ node[y].parent = p => \E m \in 1 .. mid + 1 : csl[m] = y
    <3>1. SUFFICES ASSUME NEW y \in NodeId \ R, y = c \/ node[y].parent = p PROVE \E m \in 1 .. mid + 1 : csl[m] = y
      OBVIOUS
    <3>2. PICK g \in 1 .. Width + 2 : cs[g] = y
      BY ONLY <2>1, <3>1, y \in NodeId \ R
    <3>3. (g \in 1 .. mid + 1 /\ csl[g] = cs[g]) \/ \E m \in 1 .. Width - mid + 1 : csr[m] = cs[g]
      BY ONLY <1>21, g \in 1 .. Width + 2
    <3>4. QED
      BY ONLY <1>22, <3>2, <3>3, y \in NodeId \ R
  <2>6. QED
    BY ONLY <1>22, <2>3, <2>4, <2>5
<1>24. /\ node[p] \in Node /\ node[p].ver \in Version /\ node[p].kind = "inner" /\ p \in Nat /\ NodeIn(p, lo, hi)
       /\ node[p].ver.vsplit \in Nat /\ node[p].ver.vinsert \in Nat
  BY <1>13, NodeTypes DEF Inner, TreeIn
<1>25. /\ w \in Node /\ w.ikeys = ksl /\ w.child = csl /\ w.kind = "inner" /\ w.lock = t /\ w.parent = node[p].parent
       /\ w.prev = node[p].prev /\ w.height = node[p].height /\ w.ver.splitting
       /\ w.ver.vsplit = node[p].ver.vsplit /\ w.ver.vinsert = node[p].ver.vinsert /\ w.ver.root = node[p].ver.root
  <2>1. PICK y : y = node[p]
    OBVIOUS
  <2>2. PICK ver : ver = [y.ver EXCEPT !.inserting = TRUE, !.splitting = TRUE]
    OBVIOUS
  <2>3. w = [y EXCEPT !.ver.inserting = TRUE, !.ver.splitting = TRUE, !.ikeys = ksl, !.child = csl]
    <3>1. w = [node[p] EXCEPT !.ver.inserting = TRUE, !.ver.splitting = TRUE,
                         !.ikeys = SubSeq(all.ikeys, 1, mid), !.child = SubSeq(all.child, 1, mid + 1)]
      BY ONLY <1>9, Zenon DEF Cutting
    <3>2. QED
      BY ONLY <1>18, <2>1, <3>1, Zenon DEF IsSubSeq
  <2>4. y \in Node /\ y.ver \in Version
    BY <1>24, <2>1
  <2>5. ver \in Version /\ ver.splitting /\ ver.vsplit = y.ver.vsplit /\ ver.vinsert = y.ver.vinsert /\ ver.root = y.ver.root
    BY ONLY <2>2, <2>4 DEF Version
  <2>6. w = [y EXCEPT !.ver = ver, !.ikeys = ksl, !.child = csl]
    BY ONLY <2>2, <2>3, <2>4 DEF Node, Version
  <2>7. /\ w \in Node /\ w.ikeys = ksl /\ w.child = csl /\ w.ver = ver
        /\ w.kind = y.kind /\ w.lock = y.lock /\ w.parent = y.parent /\ w.prev = y.prev /\ w.height = y.height
    <3>1. ksl \in Seq(Nat) /\ csl \in Seq(Nat)
      BY <1>20
    <3>2. QED
      BY ONLY <2>4, <2>5, <2>6, <3>1 DEF Node
  <2>8. y.kind = "inner" /\ y.lock = t
    BY <1>13, <1>24, <2>1
  <2>9. QED
    BY ONLY <2>1, <2>5, <2>7, <2>8
<1>26. /\ v \in Node /\ v.ikeys = ksr /\ v.child = csr /\ v.kind = "inner" /\ v.lock = t /\ v.parent = Nil
       /\ v.height = node[p].height /\ ~ v.ver.splitting /\ ~ v.ver.root
  <2>1. PICK a : a = node[p].ver
    OBVIOUS
  <2>2. PICK ver : ver = [a EXCEPT !.inserting = TRUE, !.root = FALSE]
    OBVIOUS
  <2>3. PICK h : h = x.height + 1
    OBVIOUS
  <2>4. IsInternode(v, h, t, ver, ksr, csr)
    <3>1. v = [EmptyNode EXCEPT !.kind = "inner", !.height = x.height + 1, !.lock = t,
                 !.ver = [node[p].ver EXCEPT !.inserting = TRUE, !.root = FALSE],
                 !.ikeys = SubSeq(all.ikeys, mid + 2, Width + 1),
                 !.child = SubSeq(all.child, mid + 2, Width + 2)]
      BY ONLY <1>9, Zenon DEF Cutting
    <3>2. QED
      BY ONLY <1>18, <2>1, <2>2, <2>3, <3>1, Zenon DEF IsSubSeq, IsInternode
  <2>5. ver \in Version /\ ver.splitting = a.splitting /\ ~ ver.root
    <3>1. a \in Version
      BY <1>24, <2>1
    <3>2. QED
      BY ONLY <2>2, <3>1 DEF Version
  <2>6. h \in Nat /\ h = node[p].height /\ ~ a.splitting
    BY <1>13, <2>1, <2>3
  <2>7. ksr \in Seq(Nat) /\ csr \in Seq(Nat) /\ t \in Thread \cup {NoThread}
    BY <1>20
  <2>8. /\ v \in Node /\ v.kind = "inner" /\ v.height = h /\ v.lock = t /\ v.ver = ver /\ v.ikeys = ksr /\ v.child = csr
        /\ v.parent = Nil
    BY ONLY <2>4, <2>5, <2>6, <2>7, InternodeIs
  <2>9. QED
    BY ONLY <2>5, <2>6, <2>8
<1>27. /\ node' \in Seq(Node) /\ NodeId' = NodeId \cup {r} /\ r \notin NodeId /\ r # Nil /\ r \in Nat
       /\ node'[r] = v /\ node'[p] = w
       /\ \A y \in NodeId \ {p} : node'[y] = IF y \in R THEN [node[y] EXCEPT !.parent = r]
                                            ELSE IF y = c THEN [node[y] EXCEPT !.parent = p] ELSE node[y]
  <2>1. node' = Append([y \in NodeId |->
          CASE y = p -> w
            [] y \in SX!Range(v.child) -> [node[y] EXCEPT !.parent = r]
            [] y = x.child /\ y \notin SX!Range(v.child) -> [node[y] EXCEPT !.parent = p]
            [] OTHER -> node[y]], v)
    BY ONLY <1>9, Zenon DEF Cutting
  <2>2. PICK f : f = [y \in NodeId |->
          CASE y = p -> w
            [] y \in SX!Range(v.child) -> [node[y] EXCEPT !.parent = r]
            [] y = x.child /\ y \notin SX!Range(v.child) -> [node[y] EXCEPT !.parent = p]
            [] OTHER -> node[y]]
    OBVIOUS
  <2>3. node' = Append(f, v)
    BY ONLY <2>1, <2>2, Zenon
  <2>4. \A y \in NodeId : y \in SX!Range(v.child) <=> y \in R
    <3>1. DOMAIN v.child = 1 .. Width - mid + 1 /\ v.child = csr
      BY ONLY <1>20, <1>26
    <3>2. QED
      BY ONLY <1>22, <3>1 DEF SX!Range
  <2>5. f = [y \in NodeId |-> f[y]] /\ f[p] = w
    <3>1. f = [y \in NodeId |-> f[y]]
      BY ONLY <2>2
    <3>2. f[p] = CASE p = p -> w
                   [] p \in SX!Range(v.child) -> [node[p] EXCEPT !.parent = r]
                   [] p = x.child /\ p \notin SX!Range(v.child) -> [node[p] EXCEPT !.parent = p]
                   [] OTHER -> node[p]
      <4>1. p \in NodeId
        BY <1>13
      <4>2. QED
        BY ONLY <2>2, <4>1
    <3>3. p \notin SX!Range(v.child) /\ p # x.child
      <4>1. DOMAIN v.child = 1 .. Width - mid + 1 /\ v.child = csr
        BY ONLY <1>20, <1>26
      <4>2. \A m \in 1 .. Width - mid + 1 : csr[m] # p
        BY ONLY <1>23
      <4>3. QED
        BY ONLY <1>3, <1>13, <4>1, <4>2 DEF SX!Range
    <3>4. PICK b : b <=> p \in SX!Range(v.child)
      OBVIOUS
    <3>5. PICK a1 : a1 = [node[p] EXCEPT !.parent = r]
      OBVIOUS
    <3>6. PICK a2 : a2 = [node[p] EXCEPT !.parent = p]
      OBVIOUS
    <3>7. f[p] = CASE p = p -> w [] b -> a1 [] p = x.child /\ ~ b -> a2 [] OTHER -> node[p]
      BY ONLY <3>2, <3>4, <3>5, <3>6
    <3>8. f[p] = w
      BY ONLY <3>3, <3>4, <3>7
    <3>9. QED
      BY ONLY <3>1, <3>8
  <2>6. \A y \in NodeId \ {p} : f[y] = IF y \in R THEN [node[y] EXCEPT !.parent = r]
                                      ELSE IF y = c THEN [node[y] EXCEPT !.parent = p] ELSE node[y]
    <3>1. SUFFICES ASSUME NEW y \in NodeId \ {p}
                   PROVE f[y] = IF y \in R THEN [node[y] EXCEPT !.parent = r]
                                ELSE IF y = c THEN [node[y] EXCEPT !.parent = p] ELSE node[y]
      OBVIOUS
    <3>2. f[y] = CASE y = p -> w
                   [] y \in SX!Range(v.child) -> [node[y] EXCEPT !.parent = r]
                   [] y = x.child /\ y \notin SX!Range(v.child) -> [node[y] EXCEPT !.parent = p]
                   [] OTHER -> node[y]
      BY ONLY <2>2, y \in NodeId \ {p}
    <3>3. PICK a1 : a1 = [node[y] EXCEPT !.parent = r]
      OBVIOUS
    <3>4. PICK a2 : a2 = [node[y] EXCEPT !.parent = p]
      OBVIOUS
    <3>5. PICK a3 : a3 = node[y]
      OBVIOUS
    <3>6. PICK b : b <=> y \in SX!Range(v.child)
      OBVIOUS
    <3>7. f[y] = CASE y = p -> w [] b -> a1 [] y = x.child /\ ~ b -> a2 [] OTHER -> a3
      BY ONLY <3>2, <3>3, <3>4, <3>5, <3>6
    <3>8. f[y] = IF b THEN a1 ELSE IF y = c THEN a2 ELSE a3
      BY ONLY <1>3, <3>7, y \in NodeId \ {p}
    <3>9. QED
      BY ONLY <2>4, <3>3, <3>4, <3>5, <3>6, <3>8, y \in NodeId \ {p}
  <2>7. r \in Nat
    BY <1>6, <1>13, Ids
  <2>8. \A y \in NodeId : f[y] \in Node
    <3>1. SUFFICES ASSUME NEW y \in NodeId \ {p} PROVE f[y] \in Node
      BY <1>25, <2>5
    <3>2. node[y] \in Node
      BY <1>13, NodeTypes
    <3>3. /\ [node[y] EXCEPT !.parent = r] \in Node
          /\ [node[y] EXCEPT !.parent = p] \in Node
      BY <1>24, <2>7, <3>2, WithParent
    <3>4. QED
      BY ONLY <2>6, <3>2, <3>3, y \in NodeId \ {p}
  <2>9. /\ node' \in Seq(Node) /\ NodeId' = NodeId \cup {Fresh} /\ Fresh \notin NodeId /\ Fresh # Nil /\ Fresh \in Nat
        /\ node'[Fresh] = v /\ \A y \in NodeId : node'[y] = f[y]
    <3>1. Types /\ v \in Node
      BY <1>13, <1>26
    <3>2. QED
      BY ONLY <2>3, <2>5, <2>8, <3>1, Appended
  <2>10. p \in NodeId
    BY <1>13
  <2>11. QED
    BY ONLY <1>6, <2>5, <2>6, <2>9, <2>10
<1>28. \A y \in NodeId \ {p} : /\ SameBody(node[y], node'[y]) /\ node'[y].ver = node[y].ver /\ node'[y].lock = node[y].lock
                         /\ node'[y].prev = node[y].prev
                         /\ node'[y].parent = IF y \in R THEN r ELSE IF y = c THEN p ELSE node[y].parent
  <2>1. SUFFICES ASSUME NEW y \in NodeId \ {p}
                 PROVE /\ SameBody(node[y], node'[y]) /\ node'[y].ver = node[y].ver /\ node'[y].lock = node[y].lock
                       /\ node'[y].prev = node[y].prev
                       /\ node'[y].parent = IF y \in R THEN r ELSE IF y = c THEN p ELSE node[y].parent
    OBVIOUS
  <2>2. node[y] \in Node
    BY <1>13, NodeTypes
  <2>3. node'[y] = IF y \in R THEN [node[y] EXCEPT !.parent = r]
                   ELSE IF y = c THEN [node[y] EXCEPT !.parent = p] ELSE node[y]
    BY ONLY <1>27, y \in NodeId \ {p}
  <2>4. \A q \in {r, p} : LET d == [node[y] EXCEPT !.parent = q] IN
          SameBody(node[y], d) /\ d.ver = node[y].ver /\ d.lock = node[y].lock /\ d.prev = node[y].prev /\ d.parent = q
    <3>1. r \in Nat /\ p \in Nat
      BY <1>24, <1>27
    <3>2. QED
      BY ONLY <2>2, <3>1, WithParent
  <2>5. SameBody(node[y], node[y])
    BY DEF SameBody
  <2>6. QED
    BY ONLY <2>3, <2>4, <2>5
<1>29. PICK lo2 : lo2 = [y \in NodeId \cup {r} |-> IF y = r THEN i2 ELSE lo[y]]
  OBVIOUS
<1>30. PICK hi2 : hi2 = [y \in NodeId \cup {r} |-> IF y = r THEN hi[p] ELSE IF y = p THEN i2 ELSE hi[y]]
  OBVIOUS
<1>31. /\ lo2[r] = i2 /\ hi2[r] = hi[p] /\ lo2[p] = lo[p] /\ hi2[p] = i2
       /\ \A y \in NodeId : lo2[y] = lo[y] /\ (y # p => hi2[y] = hi[y])
  BY ONLY <1>13, <1>27, <1>29, <1>30
<1>32. \A u \in Thread \ {t} : pc'[u] = pc[u] /\ loc'[u] = loc[u] /\ req'[u] = req[u]
  <2>1. pc \in [Thread -> AllPc] /\ loc \in [Thread -> AllLocals]
    BY <1>13, RequestsAre
  <2>2. QED
    BY <1>12, <2>1
<1>33. pc'[t] = "strip" /\ loc'[t] = z
  <2>1. pc \in [Thread -> AllPc] /\ loc \in [Thread -> AllLocals]
    BY <1>13, RequestsAre
  <2>2. QED
    BY <1>12, <2>1
<1>34. /\ z \in WritingLocals /\ z \in AllLocals /\ z.next = r /\ z.ikey2 = i2
       /\ z.n = x.n /\ z.leaf = x.leaf /\ z.child = x.child /\ z.p = x.p
       /\ z.ikey = x.ikey /\ z.split = x.split /\ z.height = x.height
  <2>1. i2 \in Nat /\ r \in Nat /\ x \in WritingLocals
    BY <1>13, <1>20, <1>27
  <2>2. QED
    BY ONLY <1>11, <2>1 DEF WritingLocals, AllLocals
<1>35. node'[n].parent # Nil /\ node'[c].parent # Nil
  <2>1. n \in NodeId \ {p} /\ c \in NodeId \ {p} /\ node[n].parent = p /\ p # Nil /\ r # Nil
    BY <1>12, <1>13, <1>27
  <2>2. QED
    BY ONLY <1>28, <2>1
<1>36. Types' /\ NodeId \subseteq NodeId'
  <2>1. "strip" \in AllPc
    BY DEF AllPc, WritePc, Putting, Splitting
  <2>2. NodeId \subseteq NodeId'
    BY <1>27
  <2>3. QED
    BY <1>12, <1>13, <1>27, <1>34, <2>1, <2>2, Moves
<1>37. Hangs(t, x, z, r, lo, hi, lo2, hi2)
  <2>1. \A y \in NodeId : /\ node'[y].lock = node[y].lock /\ node'[y].prev = node[y].prev /\ lo2[y] = lo[y]
                          /\ hi2[y] = hi[y] \/ (r # Nil /\ y = x.p)
                          /\ y # x.p => SameBody(node[y], node'[y]) /\ node'[y].ver = node[y].ver
    <3>1. node'[p].lock = node[p].lock /\ node'[p].prev = node[p].prev
      BY <1>13, <1>25, <1>27
    <3>2. QED
      BY ONLY <1>5, <1>27, <1>28, <1>31, <3>1
  <2>2. node'[x.n].parent # Nil /\ node'[x.child].parent # Nil
    BY <1>2, <1>3, <1>35
  <2>3. \A y \in NodeId \ {x.child} :
         node'[y].parent = node[y].parent \/
           (node'[y].parent # Nil /\ (node[y].parent = x.p /\ (x.p # Nil \/ y = x.n)))
    <3>1. node'[p].parent = node[p].parent
      BY <1>25, <1>27
    <3>2. QED
      BY ONLY <1>3, <1>5, <1>12, <1>23, <1>27, <1>28, <3>1
  <2>4. r # Nil => r \notin NodeId /\ hi2[r] = hi[x.p] /\ x.p # Nil
    BY <1>5, <1>12, <1>27, <1>31
  <2>5. QED
    BY <1>32, <1>33, <1>34, <1>36, <2>1, <2>2, <2>3, <2>4 DEF Hangs
<1>38. /\ SepHi(n, hi2)' = i /\ \A y \in NodeId \ {n} : SepHi(y, hi2)' = SepHi(y, hi)
       /\ (NewRight(p)' <=> NewRight(p)) /\ ~ NewRight(p)
  <2>1. Views(x, r, hi, hi2)
    BY <1>1, <1>12, <1>37, HangView
  <2>2. QED
    BY <1>2, <1>3, <1>5, <1>12, <1>13, <2>1 DEF Views
<1>39. Told(p, lo, hi, lo2, hi2)
  BY <1>24, <1>25, <1>27, <1>31 DEF Told, VLeq
<1>40. PICK T : T = {x.child, x.p} \ {Nil}
  OBVIOUS
<1>41. /\ Frame(t, T, lo, hi, lo2, hi2) /\ NodeIn(x.child, lo2, hi2)'
       /\ Same(x.n, lo, hi, lo2, hi2) /\ Same(x.child, lo, hi, lo2, hi2) /\ Same(x.leaf, lo, hi, lo2, hi2)
  BY <1>1, <1>5, <1>12, <1>37, <1>39, <1>40, HangFrame
<1>42. ASSUME NEW y \in NodeId, node[y].height + 1 = node[p].height, y # p
       PROVE  /\ y \in NodeId' /\ node'[y].height + 1 = node[p].height
              /\ lo2[y] = lo[y] /\ SepHi(y, hi2)' = sep[y]
  <2>1. y \in NodeId' /\ node'[y].height = node[y].height /\ lo2[y] = lo[y]
    BY <1>27, <1>28, <1>31, <1>42 DEF SameBody
  <2>2. SepHi(y, hi2)' = sep[y]
    BY ONLY <1>2, <1>4, <1>14, <1>38, y \in NodeId
  <2>3. QED
    BY <1>42, <2>1, <2>2
<1>43. NodeIn(p, lo2, hi2)'
  <2>1. TopRange(p, lo2, hi2)'
    <3>1. TopRange(p, lo, hi)
      BY <1>24 DEF NodeIn
    <3>2. SepHi(p, hi2)' = SepHi(p, hi) /\ node'[p].parent = node[p].parent /\ node'[p].ver.splitting /\ lo2[p] = lo[p]
      BY <1>13, <1>25, <1>27, <1>31, <1>38
    <3>3. QED
      BY ONLY <1>38, <3>1, <3>2 DEF TopRange
  <2>2. ASSUME NEW y, NEW m \in 1 .. mid + 1, y = node'[p].child[m]
        PROVE  /\ y \in NodeId' /\ node'[y].parent = p /\ node'[y].height + 1 = node'[p].height
               /\ lo2[y] = lo[y] /\ SepHi(y, hi2)' = sep[y]
    <3>1. y = csl[m]
      BY <1>25, <1>27, <2>2
    <3>2. y \in NodeId \ R /\ y # p /\ node[y].height + 1 = node[p].height /\ (y = c \/ node[y].parent = p)
      BY ONLY <1>23, <3>1, m \in 1 .. mid + 1
    <3>3. node'[y].parent = p
      BY ONLY <1>28, <3>2
    <3>4. node'[p].height = node[p].height
      BY <1>25, <1>27
    <3>5. y \in NodeId
      BY <3>2
    <3>6. QED
      BY ONLY <1>42, <3>2, <3>3, <3>4, <3>5
  <2>3. mid <= Width /\ mid > 0 /\ mid = Len(w.ikeys) /\ Len(w.child) = mid + 1
    BY ONLY <1>12, <1>16, <1>20, <1>25
  <2>4. Below(lo[p], i2) /\ t # NoThread
    BY <1>20, ThreadAssumption
  <2>5. Filled(p, mid, lo[p], i2, lo, sep, lo2, hi2)
    <3>1. /\ p \in NodeId' /\ node'[p] \in Node /\ node'[p].kind = "inner" /\ node'[p].lock # NoThread
          /\ lo2[p] = lo[p] /\ hi2[p] = i2
          /\ node'[p].ikeys = ksl /\ node'[p].child = csl
      BY <1>13, <1>25, <1>27, <1>31, <2>4
    <3>2. /\ mid = Len(node'[p].ikeys) /\ Len(node'[p].child) = mid + 1 /\ mid <= Width
          /\ node'[p].ver.root => mid > 0
          /\ Row(node'[p].ikeys, node'[p].child, mid, lo[p], i2, lo, sep)
      BY ONLY <1>20, <1>25, <2>3, <3>1
    <3>3. QED
      BY <2>2, <2>4, <3>1, <3>2 DEF Filled
  <2>6. QED
    BY <2>1, <2>5, FilledIn
<1>44. NodeIn(r, lo2, hi2)'
  <2>0. t # NoThread
    BY ThreadAssumption
  <2>1. TopRange(r, lo2, hi2)'
    <3>1. node'[r].lock = t
      BY <1>26, <1>27
    <3>2. NewRight(r)'
      BY <1>33, <1>34, <3>1, OwnNext
    <3>3. ~ node'[r].ver.root
      BY <1>26, <1>27
    <3>4. QED
      BY ONLY <3>2, <3>3 DEF TopRange
  <2>2. ASSUME NEW y, NEW m \in 1 .. (Width - mid) + 1, y = node'[r].child[m]
        PROVE  /\ y \in NodeId' /\ node'[y].parent = r /\ node'[y].height + 1 = node'[r].height
               /\ lo2[y] = lo[y] /\ SepHi(y, hi2)' = sep[y]
    <3>1. y = csr[m]
      BY <1>26, <1>27, <2>2
    <3>2. y \in R /\ y # p /\ node[y].height + 1 = node[p].height
      BY ONLY <1>23, <3>1, m \in 1 .. (Width - mid) + 1
    <3>3. y \in NodeId
      BY ONLY <1>22, <3>2
    <3>4. node'[y].parent = r
      BY ONLY <1>28, <3>2, <3>3
    <3>5. node'[r].height = node[p].height
      BY <1>26, <1>27
    <3>6. QED
      BY ONLY <1>42, <3>2, <3>3, <3>4, <3>5
  <2>3. Width - mid \in Nat /\ Width - mid <= Width
    BY ONLY <1>12, <1>16, SMTT(30)
  <2>5. Filled(r, Width - mid, i2, hi[p], lo, sep, lo2, hi2)
    <3>1. /\ r \in NodeId' /\ node'[r] \in Node /\ node'[r].kind = "inner" /\ node'[r].lock # NoThread
          /\ lo2[r] = i2 /\ hi2[r] = hi[p]
          /\ node'[r].ikeys = ksr /\ node'[r].child = csr /\ ~ node'[r].ver.root
      BY <1>26, <1>27, <1>31, <2>0
    <3>2. /\ Width - mid = Len(node'[r].ikeys) /\ Len(node'[r].child) = Width - mid + 1
          /\ Row(node'[r].ikeys, node'[r].child, Width - mid, i2, hi[p], lo, sep) /\ Below(i2, hi[p])
      BY ONLY <1>20, <2>3, <3>1
    <3>3. QED
      BY <2>2, <2>3, <3>1, <3>2 DEF Filled
  <2>6. QED
    BY <2>1, <2>5, FilledIn
<1>45. Parents'
  <2>1. ASSUME NEW y \in NodeId', NEW q, q = node'[y].parent, q # Nil, y \notin NodeId \/ q # node[y].parent \/ q = x.p
        PROVE  HasChild(q, y)'
    <3>1. y # r
      BY <1>26, <1>27, <2>1
    <3>2. y \in NodeId
      BY <1>27, <3>1
    <3>3. y = c \/ node[y].parent = p \/ (y = p /\ node[p].parent = p)
      <4>1. node'[p].parent = node[p].parent
        BY <1>25, <1>27
      <4>2. CASE y = p
        BY <1>5, <2>1, <3>2, <4>1, <4>2
      <4>3. CASE y # p
        BY ONLY <1>5, <1>23, <1>28, <2>1, <3>2, <4>3
      <4>4. QED
        BY <4>2, <4>3
    <3>4. y = c \/ node[y].parent = p
      BY <3>3
    <3>5. p \in NodeId' /\ node'[p].kind = "inner" /\ node'[p].child = csl /\ r \in NodeId' /\ node'[r].kind = "inner" /\ node'[r].child = csr
      BY <1>13, <1>25, <1>26, <1>27
    <3>6. CASE y \in R
      <4>1. PICK m \in 1 .. Width - mid + 1 : csr[m] = y
        BY ONLY <1>23, <3>6
      <4>2. q = r
        BY ONLY <1>23, <1>28, <2>1, <3>2, <3>6
      <4>3. QED
        BY ONLY <1>20, <3>5, <4>1, <4>2 DEF HasChild, Inner
    <3>7. CASE y \notin R
      <4>1. PICK m \in 1 .. mid + 1 : csl[m] = y
        BY ONLY <1>23, <3>2, <3>4, <3>7
      <4>2. y # p
        BY ONLY <1>23, <4>1, m \in 1 .. mid + 1
      <4>3. q = p
        BY ONLY <1>28, <2>1, <3>2, <3>4, <3>7, <4>2
      <4>4. QED
        BY ONLY <1>20, <3>5, <4>1, <4>3 DEF HasChild, Inner
    <3>8. QED
      BY <3>6, <3>7
  <2>2. QED
    BY <1>37, <2>1, HangParents
<1>46. ThreadIn(t, lo2, hi2)'
  <2>1. /\ node'[x.n].parent # Nil /\ node'[x.child].parent # Nil /\ req'[t] = req[t]
        /\ Owns(t, p)' /\ Inner(p)' /\ node'[p].height = x.height + 1
    <3>1. node'[x.n].parent # Nil /\ node'[x.child].parent # Nil /\ req'[t] = req[t]
      BY <1>2, <1>3, <1>12, <1>35
    <3>2. p \in NodeId' /\ node'[p].lock = t /\ node'[p].kind = "inner" /\ node'[p].height = x.height + 1
      BY <1>13, <1>25, <1>27
    <3>3. QED
      BY <3>1, <3>2 DEF Owns, Inner
  <2>2. Pair(t, x.p, z.next, z.ikey2, x.height + 1, lo2, hi2)' /\ Inner(z.next)' /\ node'[z.next].parent = Nil
    <3>1. /\ p \in NodeId' /\ node'[p].lock = t /\ node'[p].kind = "inner" /\ node'[p].height = x.height + 1
          /\ node'[p].ver.splitting
      BY <1>13, <1>25, <1>27
    <3>2. /\ r \in NodeId' /\ node'[r].lock = t /\ node'[r].kind = "inner" /\ node'[r].height = x.height + 1
          /\ ~ node'[r].ver.splitting /\ ~ node'[r].ver.root /\ node'[r].parent = Nil
      BY <1>13, <1>26, <1>27
    <3>3. p # r /\ r # 1 /\ hi2[p] = i2 /\ lo2[r] = i2
      BY <1>13, <1>27, <1>31 DEF Types
    <3>4. x.p = p /\ z.next = r /\ z.ikey2 = i2
      BY <1>5, <1>34
    <3>5. QED
      BY ONLY <3>1, <3>2, <3>3, <3>4 DEF Pair, Owns, Inner
  <2>3. Attached(t, x, z, lo, hi, lo2, hi2)
    <3>1. z.next # Nil /\ x.p # Nil
      BY <1>5, <1>12, <1>27, <1>34
    <3>2. QED
      BY <1>5, <1>33, <1>34, <1>36, <1>41, <2>1, <2>2, <3>1 DEF Attached
  <2>4. QED
    BY <1>1, <1>12, <2>3, StripWriting
<1>47. RootId(root)'
  <2>1. RootId(root)
    BY DEF TreeIn
  <2>2. QED
    BY <1>12, <1>41, <2>1, KindKept
<1>48. /\ \A y \in T : NodeIn(y, lo2, hi2)'
       /\ \A y \in NodeId' \ NodeId : NodeIn(y, lo2, hi2)'
  BY <1>5, <1>27, <1>40, <1>41, <1>43, <1>44
<1>49. TreeIn(lo2, hi2)'
  BY <1>36, <1>41, <1>45, <1>46, <1>47, <1>48, Wrap
<1>50. QED
  BY <1>49 DEF TreeInv

-----------------------------------------------------------------------------
(* SplitLeaf: the keys of the leaf and the new one, in order *)

After(y, k, p, w, A) ==
  /\ w \in Nat /\ w = y.perm.size /\ p \in 0 .. w /\ p = Position(y, k)
  /\ \A i \in 0 .. w : A[i] \in Key /\ A[i] = AfterInsert(y, k, i)
  /\ \A i, j \in 0 .. w : i < j => A[i] < A[j] /\ IkeyOf[A[i]] <= IkeyOf[A[j]]
  /\ \A i \in 0 .. p - 1 : A[i] = KeyAt(y, i)
  /\ A[p] = k
  /\ \A i \in p + 1 .. w : A[i] = KeyAt(y, i - 1)

LEMMA AfterIs ==
  ASSUME NEW y, LeafNode(y), NEW k \in Key, k \notin Keys(y), NEW w, w = y.perm.size, NEW p, p = Position(y, k),
         NEW A, A = [i \in 0 .. w |-> AfterInsert(y, k, i)]
  PROVE  After(y, k, p, w, A)
<1>1. /\ p \in 0 .. w
      /\ \A i \in 0 .. p - 1 : KeyAt(y, i) < k
      /\ \A i \in p .. w - 1 : KeyAt(y, i) >= k
  BY PositionIs
<1>2. w \in Nat /\ w \in 0 .. W
  BY Positions, WAssumption DEF LeafNode
<1>3. /\ \A i \in 0 .. w - 1 : KeyAt(y, i) \in Key /\ KeyAt(y, i) \in Nat /\ KeyAt(y, i) # k
      /\ \A i, j \in 0 .. w - 1 : i < j => KeyAt(y, i) < KeyAt(y, j)
      /\ k \in Nat
  <2>1. \A i \in 0 .. w - 1 : KeyAt(y, i) \in Keys(y)
    BY KeysAre
  <2>2. QED
    BY <2>1, IkeysAre DEF LeafNode, InLeaf
<1>4. \A i \in 0 .. w : A[i] = IF i < p THEN KeyAt(y, i) ELSE IF i = p THEN k ELSE KeyAt(y, i - 1)
  <2>1. SUFFICES ASSUME NEW i \in 0 .. w PROVE A[i] = IF i < p THEN KeyAt(y, i) ELSE IF i = p THEN k ELSE KeyAt(y, i - 1)
    OBVIOUS
  <2>2. A[i] = AfterInsert(y, k, i)
    OBVIOUS
  <2>3. QED
    BY ONLY <2>2, p = Position(y, k) DEF AfterInsert, KeyAt
<1>5. /\ \A i \in 0 .. p - 1 : A[i] = KeyAt(y, i)
      /\ A[p] = k
      /\ \A i \in p + 1 .. w : A[i] = KeyAt(y, i - 1)
  BY ONLY <1>1, <1>2, <1>4
<1>6. \A i \in 0 .. w : A[i] \in Key
  BY ONLY <1>1, <1>2, <1>3, <1>4, k \in Key
<1>7. \A i, j \in 0 .. w : i < j => A[i] < A[j]
  <2>1. SUFFICES ASSUME NEW i \in 0 .. w, NEW j \in 0 .. w, i < j PROVE A[i] < A[j]
    OBVIOUS
  <2>2. CASE j < p
    BY ONLY <1>1, <1>2, <1>3, <1>4, <2>1, <2>2, i \in 0 .. w, j \in 0 .. w
  <2>3. CASE j = p
    BY ONLY <1>1, <1>2, <1>3, <1>4, <2>1, <2>3, i \in 0 .. w, j \in 0 .. w
  <2>4. CASE j > p
    <3>1. j - 1 \in p .. w - 1 /\ j - 1 \in 0 .. w - 1 /\ A[j] = KeyAt(y, j - 1)
      BY ONLY <1>1, <1>2, <1>4, <2>4, j \in 0 .. w
    <3>2. CASE i > p
      <4>1. i - 1 \in 0 .. w - 1 /\ i - 1 < j - 1 /\ A[i] = KeyAt(y, i - 1)
        BY ONLY <1>1, <1>2, <1>4, <2>1, <3>2, i \in 0 .. w, j \in 0 .. w
      <4>2. QED
        BY ONLY <1>3, <3>1, <4>1
    <3>3. CASE i = p
      <4>1. A[i] = k /\ KeyAt(y, j - 1) >= k /\ KeyAt(y, j - 1) # k /\ KeyAt(y, j - 1) \in Nat /\ k \in Nat
        BY ONLY <1>1, <1>3, <1>5, <3>1, <3>3
      <4>2. QED
        BY ONLY <3>1, <4>1
    <3>4. CASE i < p
      <4>1. i \in 0 .. p - 1 /\ i \in 0 .. w - 1
        BY ONLY <1>1, <1>2, <3>4, i \in 0 .. w
      <4>2. KeyAt(y, i) < k /\ KeyAt(y, j - 1) >= k /\ A[i] = KeyAt(y, i) /\ KeyAt(y, i) \in Nat /\ KeyAt(y, j - 1) \in Nat /\ k \in Nat
        BY ONLY <1>1, <1>3, <1>5, <3>1, <4>1
      <4>3. QED
        BY ONLY <3>1, <4>2
    <3>5. QED
      BY ONLY <1>1, <1>2, <3>2, <3>3, <3>4, i \in 0 .. w
  <2>5. QED
    BY ONLY <1>1, <1>2, <2>2, <2>3, <2>4, j \in 0 .. w
<1>8. \A i, j \in 0 .. w : i < j => IkeyOf[A[i]] <= IkeyOf[A[j]]
  BY <1>6, <1>7, OrderAssumption
<1>9. \A i \in 0 .. w : A[i] = AfterInsert(y, k, i)
  OBVIOUS
<1>10. QED
  BY ONLY <1>1, <1>2, <1>5, <1>6, <1>7, <1>8, <1>9, w = y.perm.size, p = Position(y, k) DEF After

\* A leaf has no room when it is full, or full but for the slot of its bound.
LEMMA FullIs ==
  ASSUME NEW y \in Node, LeafNode(y), NEW k, ~ HasRoom(y, k)
  PROVE  y.perm.size \in {W - 1, W}
<1>1. PICK q : q = y.perm
  OBVIOUS
<1>2. PermOk(q) /\ q.size \in 0 .. W /\ W \in Nat \ {0}
  BY <1>1, Positions, WAssumption DEF LeafNode
<1>3. SUFFICES ASSUME q.size < W PROVE q.size = W - 1
  BY <1>1, <1>2
<1>4. ~ SlotIsFree(y, k) /\ Back(OtherSlot(y).perm) = 0
  BY <1>1, <1>3 DEF HasRoom
<1>5. Back(q) = 0
  BY <1>1, <1>4 DEF SlotIsFree
<1>6. PICK i, j : i = q.size /\ j = W - 1
  OBVIOUS
<1>7. i \in 0 .. W - 1 /\ j \in 0 .. W - 1
  BY <1>2, <1>3, <1>6
<1>8. PICK r : r = Exchange(q, i, j)
  OBVIOUS
<1>9. \A m \in 0 .. W - 1 : At(r, m) = IF m = j THEN At(q, i) ELSE IF m = i THEN At(q, j) ELSE At(q, m)
  <2>1. LET u == Exchange(q, i, j) IN
        /\ PermOk(u) /\ u.size = q.size
        /\ \A m \in 0 .. W - 1 : At(u, m) = IF m = j THEN At(q, i) ELSE IF m = i THEN At(q, j) ELSE At(q, m)
    BY ONLY <1>2, <1>7, Swapped
  <2>2. QED
    BY ONLY <1>8, <2>1
<1>10. At(r, j) = At(q, i)
  BY ONLY <1>7, <1>9
<1>11. OtherSlot(y).perm = r
  BY <1>1, <1>6, <1>8 DEF OtherSlot, Node
<1>12. At(r, j) = 0 /\ At(q, j) = 0
  BY <1>2, <1>4, <1>5, <1>6, <1>11 DEF Back, At
<1>13. At(q, i) = At(q, j)
  BY ONLY <1>10, <1>12
<1>14. i = j
  BY ONLY <1>2, <1>7, <1>13, Positions
<1>15. QED
  BY ONLY <1>6, <1>14

\* The least number in a set of numbers is what CHOOSE finds.
LEMMA LeastIs ==
  ASSUME NEW S \in SUBSET Nat, S # {}, NEW d, d = CHOOSE m \in S : \A e \in S : m <= e
  PROVE  d \in S /\ \A e \in S : d <= e
BY NatMin

\* Keys of one slice do not fill a leaf.
LEMMA SlicesDiffer ==
  ASSUME NEW y, NEW k, NEW p, NEW w, NEW A, After(y, k, p, w, A), w >= W - 1, NEW m \in 0 .. w
  PROVE  \E j \in 0 .. w : IkeyOf[A[j]] # IkeyOf[A[m]]
<1>1. SUFFICES ASSUME \A j \in 0 .. w : IkeyOf[A[j]] = IkeyOf[A[m]] PROVE FALSE
  OBVIOUS
<1>2. /\ w \in Nat /\ \A i \in 0 .. w : A[i] \in Key
      /\ \A i, j \in 0 .. w : i < j => A[i] < A[j]
  BY DEF After
<1>3. PICK same : same = {a \in Key : IkeyOf[a] = IkeyOf[A[m]]}
  OBVIOUS
<1>4. IsFiniteSet(same) /\ Cardinality(same) < W
  <2>1. IkeyOf[A[m]] \in Ikey
    BY <1>2 DEF Ikey
  <2>2. QED
    BY <1>3, <2>1, SliceAssumption
<1>5. PICK f : f = [i \in 0 .. w |-> A[i]]
  OBVIOUS
<1>6. f \in Injection(0 .. w, same)
  <2>1. \A i \in 0 .. w : f[i] \in same
    BY <1>1, <1>2, <1>3, <1>5
  <2>2. \A i, j \in 0 .. w : f[i] = f[j] => i = j
    <3>1. \A i \in 0 .. w : A[i] \in Nat
      BY <1>2, IkeysAre
    <3>2. QED
      BY <1>2, <1>5, <3>1
  <2>3. f \in [0 .. w -> same]
    BY <1>5, <2>1
  <2>4. QED
    BY <2>2, <2>3 DEF Injection, IsInjective
<1>7. IsFiniteSet(0 .. w) /\ Cardinality(0 .. w) = w + 1
  BY <1>2, FS_Interval
<1>8. w + 1 <= Cardinality(same)
  BY <1>4, <1>6, <1>7, FS_Injection
<1>9. Cardinality(same) \in Nat
  BY <1>4, FS_CardinalityType
<1>10. QED
  BY <1>2, <1>4, <1>8, <1>9, WAssumption

\* The first of the items that go to the right is the first of its slice.
LEMMA SplitPointIs ==
  ASSUME NEW y, NEW k, NEW p, NEW w, NEW A, After(y, k, p, w, A), w \in {W - 1, W}, NEW m, m = SplitPoint(y, k)
  PROVE  m \in 1 .. w /\ IkeyOf[A[m - 1]] < IkeyOf[A[m]]
<1>1. /\ w \in Nat /\ w = y.perm.size /\ p \in 0 .. w /\ p = Position(y, k)
      /\ \A i \in 0 .. w : A[i] \in Key /\ A[i] = AfterInsert(y, k, i)
      /\ \A i, j \in 0 .. w : i < j => IkeyOf[A[i]] <= IkeyOf[A[j]]
  BY DEF After
<1>2. PICK S : S = [i \in 0 .. w |-> IkeyOf[A[i]]]
  OBVIOUS
<1>3. \A i \in 0 .. w : S[i] \in Nat /\ S[i] = IkeyOf[A[i]] /\ S[i] = IkeyOf[AfterInsert(y, k, i)]
  BY <1>1, <1>2, IkeysAre
<1>4. \A i, j \in 0 .. w : i < j => S[i] <= S[j]
  BY <1>1, <1>3
<1>5. PICK mid : mid = IF p = 0 /\ y.prev = Nil THEN 1 ELSE IF p = w /\ y.next = Nil THEN w ELSE W \div 2 + 1
  OBVIOUS
<1>6. mid \in 1 .. w
  <2>1. W \in Nat /\ W >= 3 /\ w >= W - 1
    BY <1>1, WAssumption, WidthsAssumption
  <2>2. W \div 2 + 1 \in 1 .. w /\ 1 \in 1 .. w /\ w \in 1 .. w
    BY ONLY <1>1, <2>1
  <2>3. QED
    BY ONLY <1>5, <2>2
<1>7. SUFFICES m \in 1 .. w /\ S[m - 1] # S[m]
  BY <1>1, <1>3, <1>4
<1> DEFINE Right(d) == mid + d <= w /\ S[mid + d] # S[mid]
           Left(d) == mid - 1 - d >= 0 /\ S[mid - 1 - d] # S[mid]
           ds == {d \in 1 .. w : Right(d) \/ Left(d)}
           d0 == CHOOSE d \in ds : \A e \in ds : d <= e
<1>8. PICK d :
         /\ d = d0
         /\ m = IF S[mid] # S[mid - 1] THEN mid
                ELSE IF mid + d <= w /\ IkeyOf[AfterInsert(y, k, mid + d)] # S[mid] THEN mid + d ELSE mid - d
  <2> DEFINE w0 == y.perm.size
             p0 == Position(y, k)
             mid0 == IF p0 = 0 /\ y.prev = Nil THEN 1 ELSE IF p0 = w0 /\ y.next = Nil THEN w0 ELSE W \div 2 + 1
             Slice(i) == IkeyOf[AfterInsert(y, k, i)]
             R2(e) == mid0 + e <= w0 /\ Slice(mid0 + e) # Slice(mid0)
             L2(e) == mid0 - 1 - e >= 0 /\ Slice(mid0 - 1 - e) # Slice(mid0)
             ds2 == {e \in 1 .. w0 : R2(e) \/ L2(e)}
             e0 == CHOOSE e \in ds2 : \A g \in ds2 : e <= g
  <2>1. SplitPoint(y, k) = IF Slice(mid0) # Slice(mid0 - 1) THEN mid0 ELSE IF R2(e0) THEN mid0 + e0 ELSE mid0 - e0
    BY ONLY Zenon DEF SplitPoint
  <2>2. mid0 = mid /\ w0 = w
    BY <1>1, <1>5
  <2>3. PICK e : e = e0
    OBVIOUS
  <2>4. m = IF Slice(mid0) # Slice(mid0 - 1) THEN mid0 ELSE IF R2(e) THEN mid0 + e ELSE mid0 - e
    <3> HIDE DEF e0, mid0, w0
    <3>1. QED
      BY ONLY <2>1, <2>3, m = SplitPoint(y, k)
  <2>5. e = CHOOSE g \in ds2 : \A f \in ds2 : g <= f
    <3> HIDE DEF ds2
    <3>1. QED
      BY ONLY <2>3
  <2> HIDE DEF e0
  <2>6. \A i \in 0 .. w : Slice(i) = S[i]
    BY <1>3
  <2>7. ds2 = ds
    <3>1. \A g \in 1 .. w : (R2(g) <=> Right(g)) /\ (L2(g) <=> Left(g))
      <4> HIDE DEF mid0, w0
      <4>1. QED
        BY ONLY <1>1, <1>6, <2>2, <2>6
    <3> HIDE DEF mid0, w0
    <3>2. \A g : g \in ds2 <=> g \in ds
      BY ONLY <2>2, <3>1
    <3>3. QED
      BY <3>2
  <2>8. e = d0
    <3> HIDE DEF ds2, ds
    <3>1. QED
      BY ONLY <2>5, <2>7
  <2>9. Slice(mid) = S[mid] /\ Slice(mid - 1) = S[mid - 1]
    BY <1>1, <1>6, <2>6
  <2>10. m = IF S[mid] # S[mid - 1] THEN mid
             ELSE IF mid + e <= w /\ IkeyOf[AfterInsert(y, k, mid + e)] # S[mid] THEN mid + e ELSE mid - e
    <3> HIDE DEF mid0, w0
    <3>1. QED
      BY ONLY <2>2, <2>4, <2>9
  <2> HIDE DEF d0
  <2>11. QED
    BY ONLY <2>8, <2>10
<1>9. CASE S[mid] # S[mid - 1]
  BY <1>6, <1>8, <1>9
<1>10. CASE S[mid] = S[mid - 1]
  <2>1. PICK j \in 0 .. w : S[j] # S[mid]
    <3>1. mid \in 0 .. w /\ w >= W - 1
      BY <1>1, <1>6, WAssumption
    <3>2. \E j \in 0 .. w : IkeyOf[A[j]] # IkeyOf[A[mid]]
      BY <3>1, SlicesDiffer
    <3>3. QED
      BY <1>3, <3>1, <3>2
  <2>2. ds # {}
    <3>1. CASE j > mid
      <4>1. j - mid \in 1 .. w /\ mid + (j - mid) = j /\ j <= w
        BY <1>1, <1>6, <3>1
      <4>2. QED
        BY <2>1, <4>1
    <3>2. CASE j < mid
      <4>1. j # mid - 1
        BY <1>10, <2>1
      <4>2. mid - 1 - j \in 1 .. w /\ mid - 1 - (mid - 1 - j) = j /\ j >= 0
        BY <1>1, <1>6, <3>2, <4>1
      <4>3. QED
        BY <2>1, <4>2
    <3>3. QED
      BY <1>1, <1>6, <2>1, <3>1, <3>2
  <2>3. d0 \in ds /\ \A e \in ds : d0 <= e
    <3>1. ds \in SUBSET Nat
      BY <1>1
    <3> HIDE DEF ds
    <3>2. QED
      BY <2>2, <3>1, LeastIs
  <2>5. /\ d \in 1 .. w /\ (Right(d) \/ Left(d))
        /\ \A e \in 1 .. w : e < d => ~ Right(e) /\ ~ Left(e)
        /\ m = IF Right(d) THEN mid + d ELSE mid - d
    <3>1. d \in ds /\ \A e \in ds : d <= e
      BY ONLY <1>8, <2>3
    <3>2. m = IF mid + d <= w /\ IkeyOf[AfterInsert(y, k, mid + d)] # S[mid] THEN mid + d ELSE mid - d
      BY ONLY <1>8, <1>10
    <3> HIDE DEF d0
    <3>3. d \in 1 .. w
      BY ONLY <3>1
    <3>4. mid + d <= w => IkeyOf[AfterInsert(y, k, mid + d)] = S[mid + d]
      BY ONLY <1>1, <1>3, <1>6, <3>3
    <3>5. \A e \in 1 .. w : e < d => e \notin ds
      <4> HIDE DEF ds
      <4>1. QED
        BY ONLY <1>1, <3>1, <3>3
    <3>6. QED
      BY ONLY <3>1, <3>2, <3>3, <3>4, <3>5
  <2> HIDE DEF ds, d0
  <2>6. CASE Right(d)
    <3>1. m = mid + d /\ mid + d <= w /\ S[mid + d] # S[mid]
      BY <2>5, <2>6
    <3>2. S[mid + d - 1] = S[mid]
      <4>1. CASE d = 1
        BY <1>6, <4>1
      <4>2. CASE d # 1
        <5>1. d - 1 \in 1 .. w /\ d - 1 < d /\ mid + (d - 1) <= w /\ mid + (d - 1) = mid + d - 1
          BY <1>1, <1>6, <2>5, <3>1, <4>2
        <5>2. ~ Right(d - 1)
          BY <2>5, <5>1
        <5>3. QED
          BY <5>1, <5>2
      <4>3. QED
        BY <4>1, <4>2
    <3>3. QED
      BY <1>1, <1>6, <2>5, <3>1, <3>2
  <2>7. CASE ~ Right(d)
    <3>1. m = mid - d /\ mid - 1 - d >= 0 /\ S[mid - 1 - d] # S[mid]
      BY <2>5, <2>7
    <3>2. S[mid - d] = S[mid]
      <4>1. CASE d = 1
        BY <1>10, <4>1
      <4>2. CASE d # 1
        <5>1. d - 1 \in 1 .. w /\ d - 1 < d /\ mid - 1 - (d - 1) >= 0 /\ mid - 1 - (d - 1) = mid - d
          BY <1>1, <1>6, <2>5, <3>1, <4>2
        <5>2. ~ Left(d - 1)
          BY <2>5, <5>1
        <5>3. QED
          BY <5>1, <5>2
      <4>3. QED
        BY <4>1, <4>2
    <3>3. m - 1 = mid - 1 - d /\ m \in 1 .. w
      BY <1>1, <1>6, <2>5, <3>1
    <3>4. QED
      BY <3>1, <3>2, <3>3
  <2>8. QED
    BY <2>6, <2>7
<1>11. QED
  BY <1>9, <1>10

\* The right leaf: z is y with the items from mid on, without k, which has a slot.
Right(y, k, n, p, w, mid, z) ==
  z = [y EXCEPT !.perm = IF p >= mid THEN RemoveToBack(MakeSorted(w + 1 - mid), p - mid) ELSE MakeSorted(w + 1 - mid),
                !.slot = [s \in Slot |-> IF s <= w - mid THEN AfterInsert(y, k, mid + s) ELSE 0],
                !.modstate = "insert", !.parent = Nil, !.prev = n]

Moved(y, p, w, A, mid, left, z) ==
  /\ left = (IF p < mid THEN mid - 1 ELSE mid) /\ left \in 0 .. w
  /\ z.perm.size = w - left /\ PermOk(z.perm) /\ z.slot \in [Slot -> Key \cup {0}]
  /\ z.slot[0] = A[mid] /\ 0 \in Slot
  /\ \A s \in Slot : z.slot[s] = 0 \/ \E i \in mid .. w : z.slot[s] = A[i]
  /\ \A j \in 0 .. w - left - 1 : KeyAt(z, j) = KeyAt(y, left + j) /\ \E i \in mid .. w : KeyAt(z, j) = A[i]
  /\ p >= mid => Back(z.perm) = p - mid

LEMMA MovedIs ==
  ASSUME NEW y \in Node, NEW k, NEW n \in Nat, NEW p, NEW w, NEW A, After(y, k, p, w, A), w <= W, NEW mid \in 1 .. w,
         NEW z, Right(y, k, n, p, w, mid, z), NEW left, left = IF p < mid THEN mid - 1 ELSE mid
  PROVE  /\ Moved(y, p, w, A, mid, left, z)
         /\ z \in Node /\ z.kind = y.kind /\ z.lock = y.lock /\ z.ver = y.ver /\ z.next = y.next /\ z.height = y.height
         /\ z.parent = Nil /\ z.prev = n
<1>1. /\ w \in Nat /\ p \in 0 .. w /\ W \in Nat \ {0} /\ mid \in 1 .. w /\ w <= W
      /\ \A i \in 0 .. w : A[i] \in Key /\ A[i] = AfterInsert(y, k, i)
      /\ \A i \in 0 .. p - 1 : A[i] = KeyAt(y, i)
      /\ \A i \in p + 1 .. w : A[i] = KeyAt(y, i - 1)
  BY WAssumption DEF After
<1>2. PICK slot : slot = [s \in Slot |-> IF s <= w - mid THEN AfterInsert(y, k, mid + s) ELSE 0]
  OBVIOUS
<1>3. PICK q : q = MakeSorted(w + 1 - mid)
  OBVIOUS
<1>4. PICK r : r = IF p >= mid THEN RemoveToBack(q, p - mid) ELSE q
  OBVIOUS
<1>5. z = [y EXCEPT !.perm = r, !.slot = slot, !.modstate = "insert", !.parent = Nil, !.prev = n]
  <2>1. z = [y EXCEPT !.perm = IF p >= mid THEN RemoveToBack(MakeSorted(w + 1 - mid), p - mid) ELSE MakeSorted(w + 1 - mid),
                !.slot = [s \in Slot |-> IF s <= w - mid THEN AfterInsert(y, k, mid + s) ELSE 0],
                !.modstate = "insert", !.parent = Nil, !.prev = n]
    BY ONLY Right(y, k, n, p, w, mid, z), Zenon DEF Right
  <2>2. r = IF p >= mid THEN RemoveToBack(MakeSorted(w + 1 - mid), p - mid) ELSE MakeSorted(w + 1 - mid)
    BY ONLY <1>3, <1>4, Zenon
  <2>3. QED
    BY ONLY <1>2, <2>1, <2>2, Zenon
<1>6. \A s \in Slot : /\ s <= w - mid => mid + s \in mid .. w /\ mid + s \in 0 .. w /\ slot[s] = A[mid + s] /\ slot[s] \in Key
                      /\ ~ (s <= w - mid) => slot[s] = 0
  BY ONLY <1>1, <1>2 DEF Slot
<1>7. slot \in [Slot -> Key \cup {0}]
  <2>1. \A s \in Slot : slot[s] \in Key \cup {0}
    BY ONLY <1>6
  <2>2. slot = [s \in Slot |-> slot[s]]
    BY ONLY <1>2
  <2>3. QED
    BY ONLY <2>1, <2>2
<1>8. /\ PermOk(q) /\ q.size = w + 1 - mid /\ \A i \in 0 .. w - mid : At(q, i) = i
  <2>1. w + 1 - mid \in 0 .. W /\ (w + 1 - mid) - 1 = w - mid
    BY ONLY <1>1
  <2>2. LET u == MakeSorted(w + 1 - mid) IN
        PermOk(u) /\ u.size = w + 1 - mid /\ (\A i \in 0 .. (w + 1 - mid) - 1 : At(u, i) = i) /\ InUse(u) = 0 .. (w + 1 - mid) - 1
    BY ONLY <2>1, Straight
  <2>3. QED
    BY ONLY <1>3, <2>1, <2>2
<1>9. p >= mid => /\ PermOk(r) /\ r.size = w - mid /\ Back(r) = p - mid
                  /\ \A j \in 0 .. p - mid - 1 : At(r, j) = j
                  /\ \A j \in p - mid .. w - mid - 1 : At(r, j) = j + 1
  <2>1. SUFFICES ASSUME p >= mid
                 PROVE  /\ PermOk(r) /\ r.size = w - mid /\ Back(r) = p - mid
                        /\ \A j \in 0 .. p - mid - 1 : At(r, j) = j
                        /\ \A j \in p - mid .. w - mid - 1 : At(r, j) = j + 1
    OBVIOUS
  <2>2. PICK i : i = p - mid
    OBVIOUS
  <2>3. r = RemoveToBack(q, i) /\ i \in 0 .. q.size - 1
    BY ONLY <1>1, <1>4, <1>8, <2>1, <2>2
  <2>4. LET u == RemoveToBack(q, i) IN
         /\ PermOk(u) /\ u.size = q.size - 1
         /\ Back(u) = At(q, i)
         /\ \A j \in 0 .. i - 1 : At(u, j) = At(q, j)
         /\ \A j \in i .. q.size - 2 : At(u, j) = At(q, j + 1)
    BY ONLY <1>8, <2>3, ToBack
  <2>5. /\ PermOk(r) /\ r.size = q.size - 1 /\ Back(r) = At(q, i)
        /\ \A j \in 0 .. i - 1 : At(r, j) = At(q, j)
        /\ \A j \in i .. q.size - 2 : At(r, j) = At(q, j + 1)
    BY ONLY <2>3, <2>4
  <2>6. QED
    BY ONLY <1>1, <1>8, <2>1, <2>2, <2>5
<1>10. /\ PermOk(r) /\ r.size = w - left /\ left \in 0 .. w
       /\ \A j \in 0 .. w - left - 1 : /\ At(r, j) \in 0 .. w - mid
                                       /\ p < mid \/ j < p - mid => At(r, j) = j
                                       /\ ~ (p < mid \/ j < p - mid) => At(r, j) = j + 1
  <2>1. CASE p < mid
    <3>1. r = q /\ left = mid - 1
      BY ONLY <1>1, <1>4, <2>1, left = IF p < mid THEN mid - 1 ELSE mid
    <3>2. QED
      BY ONLY <1>1, <1>8, <2>1, <3>1
  <2>2. CASE p >= mid
    <3>1. left = mid
      BY ONLY <1>1, <2>2, left = IF p < mid THEN mid - 1 ELSE mid
    <3>2. QED
      BY ONLY <1>1, <1>9, <2>2, <3>1
  <2>3. QED
    BY ONLY <1>1, <2>1, <2>2
<1>11. /\ z \in Node /\ z.kind = y.kind /\ z.lock = y.lock /\ z.ver = y.ver /\ z.next = y.next /\ z.height = y.height
       /\ z.parent = Nil /\ z.prev = n /\ z.perm = r /\ z.slot = slot
  <2>1. r \in {u \in Perm : PermOk(u)}
    BY ONLY <1>10 DEF PermOk
  <2>2. QED
    BY ONLY <1>5, <1>7, <2>1, y \in Node, n \in Nat DEF Node, Nil
<1>12. \A s \in 0 .. w - mid : s \in Slot /\ slot[s] = A[mid + s] /\ mid + s \in mid .. w
  <2>1. \A s \in 0 .. w - mid : s \in Slot
    BY ONLY <1>1 DEF Slot
  <2>2. QED
    BY ONLY <1>1, <1>6, <2>1
<1>13. ASSUME NEW j \in 0 .. w - left - 1
       PROVE  KeyAt(z, j) = KeyAt(y, left + j) /\ \E i \in mid .. w : KeyAt(z, j) = A[i]
  <2>1. KeyAt(z, j) = slot[At(r, j)]
    BY ONLY <1>11 DEF KeyAt
  <2>2. KeyAt(z, j) = A[mid + At(r, j)] /\ mid + At(r, j) \in mid .. w
    BY ONLY <1>10, <1>12, <2>1, j \in 0 .. w - left - 1
  <2>3. A[mid + At(r, j)] = KeyAt(y, left + j)
    <3>1. CASE p < mid
      <4>1. left = mid - 1 /\ At(r, j) = j
        BY ONLY <1>10, <3>1, j \in 0 .. w - left - 1, left = IF p < mid THEN mid - 1 ELSE mid
      <4>2. mid + j \in p + 1 .. w /\ mid + j - 1 = left + j
        BY ONLY <1>1, <3>1, <4>1, j \in 0 .. w - left - 1
      <4>3. QED
        BY ONLY <1>1, <4>1, <4>2
    <3>2. CASE p >= mid /\ j < p - mid
      <4>1. left = mid /\ At(r, j) = j
        BY ONLY <1>1, <1>10, <3>2, j \in 0 .. w - left - 1, left = IF p < mid THEN mid - 1 ELSE mid
      <4>2. mid + j \in 0 .. p - 1 /\ mid + j = left + j
        BY ONLY <1>1, <3>2, <4>1, j \in 0 .. w - left - 1
      <4>3. QED
        BY ONLY <1>1, <4>1, <4>2
    <3>3. CASE p >= mid /\ ~ (j < p - mid)
      <4>1. left = mid /\ At(r, j) = j + 1
        BY ONLY <1>1, <1>10, <3>3, j \in 0 .. w - left - 1, left = IF p < mid THEN mid - 1 ELSE mid
      <4>2. mid + (j + 1) \in p + 1 .. w /\ mid + (j + 1) - 1 = left + j
        BY ONLY <1>1, <3>3, <4>1, j \in 0 .. w - left - 1
      <4>3. QED
        BY ONLY <1>1, <4>1, <4>2
    <3>4. QED
      BY ONLY <1>1, <3>1, <3>2, <3>3
  <2>4. QED
    BY ONLY <2>2, <2>3
<1>14. z.slot[0] = A[mid] /\ 0 \in Slot
  <2>1. 0 \in 0 .. w - mid /\ mid + 0 = mid
    BY ONLY <1>1
  <2>2. QED
    BY ONLY <1>11, <1>12, <2>1
<1>15. \A s \in Slot : z.slot[s] = 0 \/ \E i \in mid .. w : z.slot[s] = A[i]
  BY ONLY <1>6, <1>11
<1>16. p >= mid => Back(z.perm) = p - mid
  BY ONLY <1>9, <1>11
<1>17. QED
  BY ONLY <1>7, <1>10, <1>11, <1>13, <1>14, <1>15, <1>16, left = IF p < mid THEN mid - 1 ELSE mid DEF Moved

\* The full leaf n gets a right sibling, which nobody but its list knows.
LeafCut(t, x, n, k, y, p, w, mid, c, z) ==
  /\ pc[t] = "locked" /\ k \notin Keys(y) /\ ~ HasRoom(y, k)
  /\ Right(y, k, n, p, w, mid, z)
  /\ node' = Append([u \in NodeId |->
       IF u = n THEN [y EXCEPT !.next = c]
       ELSE IF u = y.next THEN [node[u] EXCEPT !.prev = c] ELSE node[u]], z)
  /\ loc' = [loc EXCEPT ![t] = [x EXCEPT !.child = c, !.ikey = Bound(z),
               !.split = IF p < mid THEN 0 ELSE IF mid = w THEN 2 ELSE 1]]
  /\ pc' = [pc EXCEPT ![t] = "parent"] /\ UNCHANGED <<root, req, pre>>

LEMMA LeafCutIs ==
  ASSUME NEW t \in Thread, SplitLeaf(t), NEW x, x = loc[t], NEW n, n = x.leaf, NEW k, k = K(t),
         NEW y, y = Inserting(node[n]), NEW p, p = Position(y, k), NEW w, w = y.perm.size,
         NEW mid, mid = SplitPoint(y, k), NEW c, c = Fresh
  PROVE  \E z : LeafCut(t, x, n, k, y, p, w, mid, c, z)
<1> DEFINE x0 == loc[t]
           n0 == x0.leaf
           k0 == K(t)
           y0 == Inserting(node[n0])
           w0 == y0.perm.size
           p0 == Position(y0, k0)
           mid0 == SplitPoint(y0, k0)
           c0 == Fresh
           z0 == [y0 EXCEPT !.perm = IF p0 >= mid0 THEN RemoveToBack(MakeSorted(w0 + 1 - mid0), p0 - mid0)
                                     ELSE MakeSorted(w0 + 1 - mid0),
                      !.slot = [s \in Slot |-> IF s <= w0 - mid0 THEN AfterInsert(y0, k0, mid0 + s) ELSE 0],
                      !.modstate = "insert", !.parent = Nil, !.prev = n0]
<1>1. pc[t] = "locked" /\ k0 \notin Keys(y0) /\ ~ HasRoom(y0, k0)
      /\ pc' = [pc EXCEPT ![t] = "parent"] /\ UNCHANGED <<root, req, pre>>
  BY ONLY SplitLeaf(t), Zenon DEF SplitLeaf, Goto
<1>2. Right(y0, k0, n0, p0, w0, mid0, z0)
  BY ONLY Zenon DEF Right
<1>3. node' = Append([u \in NodeId |->
       IF u = n0 THEN [y0 EXCEPT !.next = c0]
       ELSE IF u = y0.next THEN [node[u] EXCEPT !.prev = c0] ELSE node[u]], z0)
  BY ONLY SplitLeaf(t), Zenon DEF SplitLeaf
<1>4. loc' = [loc EXCEPT ![t] = [x0 EXCEPT !.child = c0, !.ikey = Bound(z0),
               !.split = IF p0 < mid0 THEN 0 ELSE IF mid0 = w0 THEN 2 ELSE 1]]
  BY ONLY SplitLeaf(t), Zenon DEF SplitLeaf
<1>5. LeafCut(t, x0, n0, k0, y0, p0, w0, mid0, c0, z0)
  BY ONLY <1>1, <1>2, <1>3, <1>4, Zenon DEF LeafCut
<1>6. x = x0 /\ n = n0 /\ k = k0 /\ y = y0 /\ p = p0 /\ w = w0 /\ mid = mid0 /\ c = c0
  OBVIOUS
<1> HIDE DEF x0, n0, k0, y0, p0, w0, mid0, c0, z0
<1>7. QED
  BY ONLY <1>5, <1>6

\* y is cut at slice i: z has the slices from i on.
Parted(y, k, p, w, mid, left, z, l, h, i) ==
  /\ i \in Nat /\ l < i /\ Below(i, h)
  /\ \A j \in 0 .. left - 1 : IkeyOf[KeyAt(y, j)] < i
  /\ left \in 0 .. w /\ z.perm.size = w - left
  /\ InLeaf(z)
  /\ \A j \in 0 .. z.perm.size - 1 : i <= IkeyOf[KeyAt(z, j)] /\ Below(IkeyOf[KeyAt(z, j)], h)
  /\ KeyAt(z, 0) = 0 \/ Below(IkeyOf[KeyAt(z, 0)], h)
  /\ z.slot[0] # 0 /\ i = IkeyOf[z.slot[0]] /\ Bound(z) = i
  /\ Keys(z) = {KeyAt(y, j) : j \in left .. w - 1}
  /\ p < mid => IkeyOf[k] < i /\ left < w
  /\ ~ (p < mid) => /\ i <= IkeyOf[k] /\ left > 0 /\ z.perm.size < W /\ k \notin Keys(z)
                    /\ Back(z.perm) = 0 => IkeyOf[k] = i

LEMMA PartedIs ==
  ASSUME NEW y, NEW n, NEW l \in Nat, NEW h, Kept(y, n, l, h), NEW k \in Key, k \notin Keys(y), l <= IkeyOf[k], Below(IkeyOf[k], h),
         NEW p, NEW w, NEW A, After(y, k, p, w, A), NEW mid \in 1 .. w, IkeyOf[A[mid - 1]] < IkeyOf[A[mid]], w <= W,
         NEW left, NEW z, Moved(y, p, w, A, mid, left, z), z.height = y.height, NEW i, i = IkeyOf[A[mid]]
  PROVE  Parted(y, k, p, w, mid, left, z, l, h, i)
<1>1. /\ w \in Nat /\ w = y.perm.size /\ p \in 0 .. w /\ A[p] = k
      /\ \A j \in 0 .. w : A[j] \in Key
      /\ \A j, m \in 0 .. w : j < m => A[j] < A[m] /\ IkeyOf[A[j]] <= IkeyOf[A[m]]
      /\ \A j \in 0 .. p - 1 : A[j] = KeyAt(y, j)
      /\ \A j \in p + 1 .. w : A[j] = KeyAt(y, j - 1)
  BY DEF After
<1>2. /\ left = (IF p < mid THEN mid - 1 ELSE mid) /\ left \in 0 .. w
      /\ z.perm.size = w - left /\ PermOk(z.perm)
      /\ z.slot[0] = A[mid] /\ 0 \in Slot
      /\ \A s \in Slot : z.slot[s] = 0 \/ \E j \in mid .. w : z.slot[s] = A[j]
      /\ \A j \in 0 .. w - left - 1 : KeyAt(z, j) = KeyAt(y, left + j) /\ \E m \in mid .. w : KeyAt(z, j) = A[m]
      /\ p >= mid => Back(z.perm) = p - mid
  BY DEF Moved
<1>3. \A j \in 0 .. w : IkeyOf[A[j]] \in Nat /\ A[j] \in Nat /\ A[j] # 0
  BY <1>1, IkeysAre
<1>4. \A j \in 0 .. w - 1 : /\ KeyAt(y, j) \in Keys(y) /\ KeyAt(y, j) \in Key
                            /\ l <= IkeyOf[KeyAt(y, j)] /\ Below(IkeyOf[KeyAt(y, j)], h)
  BY <1>1, KeysAre DEF Kept, LeafNode, InLeaf
<1>5. \A j \in 0 .. w : l <= IkeyOf[A[j]] /\ Below(IkeyOf[A[j]], h)
  <2>1. SUFFICES ASSUME NEW j \in 0 .. w PROVE l <= IkeyOf[A[j]] /\ Below(IkeyOf[A[j]], h)
    OBVIOUS
  <2>2. CASE j < p
    <3>1. j \in 0 .. p - 1 /\ j \in 0 .. w - 1
      BY ONLY <1>1, <2>2, j \in 0 .. w
    <3>2. QED
      BY ONLY <1>1, <1>4, <3>1
  <2>3. CASE j = p
    BY <1>1, <2>3
  <2>4. CASE j > p
    <3>1. j \in p + 1 .. w /\ j - 1 \in 0 .. w - 1
      BY ONLY <1>1, <2>4, j \in 0 .. w
    <3>2. QED
      BY ONLY <1>1, <1>4, <3>1
  <2>5. QED
    BY ONLY <1>1, <2>2, <2>3, <2>4, j \in 0 .. w
<1>6. mid - 1 \in 0 .. w /\ mid \in 0 .. w
  BY ONLY <1>1, mid \in 1 .. w
<1>7. i \in Nat /\ l < i /\ Below(i, h)
  <2>1. IkeyOf[A[mid - 1]] \in Nat /\ l <= IkeyOf[A[mid - 1]] /\ i \in Nat /\ Below(i, h) /\ IkeyOf[A[mid - 1]] < i
    BY <1>3, <1>5, <1>6
  <2>2. QED
    BY ONLY <2>1, l \in Nat
<1>8. \A j \in 0 .. w : (j < mid => IkeyOf[A[j]] < i) /\ (j >= mid => i <= IkeyOf[A[j]])
  <2>1. SUFFICES ASSUME NEW j \in 0 .. w PROVE (j < mid => IkeyOf[A[j]] < i) /\ (j >= mid => i <= IkeyOf[A[j]])
    OBVIOUS
  <2>2. IkeyOf[A[mid - 1]] \in Nat /\ IkeyOf[A[j]] \in Nat /\ i \in Nat /\ IkeyOf[A[mid - 1]] < i
    BY <1>3, <1>6, <1>7
  <2>3. CASE j < mid
    <3>1. j = mid - 1 \/ j < mid - 1
      BY ONLY <1>1, <2>3, mid \in 1 .. w, j \in 0 .. w
    <3>2. IkeyOf[A[j]] <= IkeyOf[A[mid - 1]]
      BY ONLY <1>1, <1>6, <2>2, <3>1, j \in 0 .. w
    <3>3. QED
      BY ONLY <2>2, <2>3, <3>2, <1>1, mid \in 1 .. w, j \in 0 .. w
  <2>4. CASE j >= mid
    <3>1. j = mid \/ mid < j
      BY ONLY <1>1, <2>4, mid \in 1 .. w, j \in 0 .. w
    <3>2. i <= IkeyOf[A[j]]
      BY ONLY <1>1, <1>6, <2>2, <3>1, j \in 0 .. w, i = IkeyOf[A[mid]]
    <3>3. QED
      BY ONLY <2>4, <3>2, <1>1, mid \in 1 .. w, j \in 0 .. w
  <2>5. QED
    BY ONLY <1>1, <2>3, <2>4, mid \in 1 .. w, j \in 0 .. w
<1>9. \A j \in 0 .. left - 1 : IkeyOf[KeyAt(y, j)] < i
  <2>1. SUFFICES ASSUME NEW j \in 0 .. left - 1 PROVE IkeyOf[KeyAt(y, j)] < i
    OBVIOUS
  <2>2. PICK m : m = IF j < p THEN j ELSE j + 1
    OBVIOUS
  <2>3. m \in 0 .. w /\ m < mid
    BY ONLY <1>1, <1>2, <2>2, mid \in 1 .. w, j \in 0 .. left - 1
  <2>4. KeyAt(y, j) = A[m]
    <3>1. CASE j < p
      <4>1. j \in 0 .. p - 1 /\ m = j
        BY ONLY <1>1, <1>2, <2>2, <3>1, j \in 0 .. left - 1
      <4>2. QED
        BY ONLY <1>1, <4>1
    <3>2. CASE ~ (j < p)
      <4>1. m \in p + 1 .. w /\ m - 1 = j
        BY ONLY <1>1, <1>2, <2>2, <2>3, <3>2, j \in 0 .. left - 1
      <4>2. QED
        BY ONLY <1>1, <4>1
    <3>3. QED
      BY <3>1, <3>2
  <2>5. QED
    BY ONLY <1>8, <2>3, <2>4
<1>10. \A m \in mid .. w : m \in 0 .. w /\ m >= mid
  BY ONLY <1>1, mid \in 1 .. w
<1>11. \A j \in 0 .. w - left - 1 : /\ i <= IkeyOf[KeyAt(z, j)] /\ Below(IkeyOf[KeyAt(z, j)], h)
                                    /\ KeyAt(z, j) = KeyAt(y, left + j) /\ left + j \in 0 .. w - 1
  <2>1. SUFFICES ASSUME NEW j \in 0 .. w - left - 1
                 PROVE  /\ i <= IkeyOf[KeyAt(z, j)] /\ Below(IkeyOf[KeyAt(z, j)], h)
                        /\ KeyAt(z, j) = KeyAt(y, left + j) /\ left + j \in 0 .. w - 1
    OBVIOUS
  <2>2. PICK m \in mid .. w : KeyAt(z, j) = A[m]
    BY <1>2
  <2>3. left + j \in 0 .. w - 1
    BY ONLY <1>1, <1>2, j \in 0 .. w - left - 1
  <2>4. QED
    BY ONLY <1>2, <1>5, <1>8, <1>10, <2>2, <2>3, m \in mid .. w, j \in 0 .. w - left - 1
<1>12. InLeaf(z)
  <2>1. \A j, m \in 0 .. w - 1 : j < m => KeyAt(y, j) < KeyAt(y, m)
    BY <1>1 DEF Kept, LeafNode, InLeaf
  <2>2. \A j \in 0 .. w - left - 1 : KeyAt(z, j) \in Key
    BY ONLY <1>4, <1>11
  <2>3. \A j, m \in 0 .. w - left - 1 : j < m => KeyAt(z, j) < KeyAt(z, m)
    <3>1. SUFFICES ASSUME NEW j \in 0 .. w - left - 1, NEW m \in 0 .. w - left - 1, j < m PROVE KeyAt(z, j) < KeyAt(z, m)
      OBVIOUS
    <3>2. left + j < left + m
      BY ONLY <1>1, <1>2, <3>1, j \in 0 .. w - left - 1, m \in 0 .. w - left - 1
    <3>3. QED
      BY ONLY <1>11, <2>1, <3>2, j \in 0 .. w - left - 1, m \in 0 .. w - left - 1
  <2>4. y.height = 0
    BY DEF Kept, LeafNode, InLeaf
  <2>5. QED
    BY ONLY <1>2, <2>2, <2>3, <2>4, z.height = y.height DEF InLeaf
<1>13. KeyAt(z, 0) = 0 \/ Below(IkeyOf[KeyAt(z, 0)], h)
  <2>1. At(z.perm, 0) \in Slot
    <3>1. 0 \in 0 .. W - 1
      BY WAssumption
    <3>2. QED
      BY ONLY <1>2, <3>1, Positions
  <2>2. QED
    BY ONLY <1>2, <1>5, <1>10, <2>1 DEF KeyAt
<1>14. z.slot[0] # 0 /\ i = IkeyOf[z.slot[0]] /\ Bound(z) = i
  BY <1>2, <1>3, <1>6 DEF Bound
<1>15. Keys(z) = {KeyAt(y, j) : j \in left .. w - 1}
  <2>1. Keys(z) = {KeyAt(z, j) : j \in 0 .. w - left - 1}
    BY <1>2, KeysAre
  <2>2. \A m : m \in {KeyAt(z, j) : j \in 0 .. w - left - 1} <=> m \in {KeyAt(y, j) : j \in left .. w - 1}
    <3>1. ASSUME NEW j \in 0 .. w - left - 1 PROVE KeyAt(z, j) \in {KeyAt(y, g) : g \in left .. w - 1}
      <4>1. left + j \in left .. w - 1
        BY ONLY <1>1, <1>2, j \in 0 .. w - left - 1
      <4>2. QED
        BY ONLY <1>11, <4>1, j \in 0 .. w - left - 1
    <3>2. ASSUME NEW j \in left .. w - 1 PROVE KeyAt(y, j) \in {KeyAt(z, g) : g \in 0 .. w - left - 1}
      <4>1. PICK g : g = j - left
        OBVIOUS
      <4>2. g \in 0 .. w - left - 1 /\ left + g = j
        BY ONLY <1>1, <1>2, <4>1, j \in left .. w - 1
      <4>3. QED
        BY ONLY <1>11, <4>2
    <3>3. QED
      BY ONLY <3>1, <3>2
  <2>3. QED
    BY ONLY <2>1, <2>2
<1>16. p < mid => IkeyOf[k] < i /\ left < w
  <2>1. p < mid => IkeyOf[A[p]] < i
    BY ONLY <1>1, <1>8
  <2>2. p < mid => left < w
    BY ONLY <1>1, <1>2, mid \in 1 .. w
  <2>3. QED
    BY ONLY <1>1, <2>1, <2>2
<1>17. ~ (p < mid) => /\ i <= IkeyOf[k] /\ left > 0 /\ z.perm.size < W /\ k \notin Keys(z)
                      /\ Back(z.perm) = 0 => IkeyOf[k] = i
  <2>1. SUFFICES ASSUME ~ (p < mid)
                 PROVE  /\ i <= IkeyOf[k] /\ left > 0 /\ z.perm.size < W /\ k \notin Keys(z)
                        /\ Back(z.perm) = 0 => IkeyOf[k] = i
    OBVIOUS
  <2>2. p >= mid /\ left = mid
    BY ONLY <1>1, <1>2, <2>1, mid \in 1 .. w
  <2>3. i <= IkeyOf[k]
    BY ONLY <1>1, <1>8, <2>2
  <2>4. left > 0 /\ z.perm.size < W
    BY ONLY <1>1, <1>2, <2>2, mid \in 1 .. w, w <= W, WAssumption
  <2>5. k \notin Keys(z)
    <3>1. \A j \in left .. w - 1 : j \in 0 .. w - 1
      BY ONLY <1>1, <1>2
    <3>2. \A j \in left .. w - 1 : KeyAt(y, j) # k
      BY ONLY <1>4, <3>1, k \notin Keys(y)
    <3>3. QED
      BY ONLY <1>15, <3>2
  <2>6. Back(z.perm) = 0 => IkeyOf[k] = i
    <3>1. Back(z.perm) = 0 => p = mid
      BY ONLY <1>1, <1>2, <2>2, mid \in 1 .. w
    <3>2. QED
      BY ONLY <1>1, <3>1, i = IkeyOf[A[mid]]
  <2>7. QED
    BY <2>3, <2>4, <2>5, <2>6
<1>18. QED
  BY ONLY <1>2, <1>7, <1>9, <1>11, <1>12, <1>13, <1>14, <1>15, <1>16, <1>17 DEF Parted

\* What a split of leaf n does: c gets the keys from slice i on, which n keeps
\* for now; left of n's keys are below i.
Sprouts(t, x, n, c, i, left, sp, z, lo, hi) ==
  /\ pc[t] = "locked" /\ pc' = [pc EXCEPT ![t] = "parent"] /\ UNCHANGED <<root, req, pre>>
  /\ loc' = [loc EXCEPT ![t] = [x EXCEPT !.child = c, !.ikey = i, !.split = sp]] /\ sp \in {0, 1, 2}
  /\ node' \in Seq(Node) /\ NodeId' = NodeId \cup {c} /\ c \notin NodeId /\ c # Nil /\ c \in Nat
  /\ node'[c] = z /\ z.kind = "leaf" /\ z.lock = t /\ z.next = node[n].next /\ z.height = node[n].height
  /\ z.parent = Nil /\ z.prev = n /\ z.ver.splitting = node[n].ver.splitting /\ InLeaf(z)
  /\ node'[n].kind = node[n].kind /\ node'[n].perm = node[n].perm /\ node'[n].slot = node[n].slot
  /\ node'[n].next = c /\ node'[n].height = node[n].height /\ node'[n].lock = t /\ node'[n].parent = node[n].parent
  /\ node'[n].prev = node[n].prev /\ node'[n].ikeys = node[n].ikeys /\ node'[n].child = node[n].child
  /\ node'[n].ver = [node[n].ver EXCEPT !.inserting = node'[n].ver.inserting]
  /\ node[n].ver.inserting => node'[n].ver.inserting
  /\ \A u \in NodeId \ {n} : /\ SameBody(node[u], node'[u]) /\ node'[u].ver = node[u].ver /\ node'[u].lock = node[u].lock
                             /\ node'[u].parent = node[u].parent /\ (node'[u].prev = Nil <=> node[u].prev = Nil)
  /\ i \in Nat /\ lo[n] < i /\ Below(i, hi[n])
  /\ left \in 0 .. node[n].perm.size /\ z.perm.size = node[n].perm.size - left /\ node[n].perm.size > 0
  /\ \A j \in 0 .. left - 1 : IkeyOf[KeyAt(node[n], j)] < i
  /\ \A j \in 0 .. z.perm.size - 1 : i <= IkeyOf[KeyAt(z, j)] /\ Below(IkeyOf[KeyAt(z, j)], hi[n])
  /\ KeyAt(z, 0) = 0 \/ Below(IkeyOf[KeyAt(z, 0)], hi[n])
  /\ z.slot[0] # 0 /\ i = IkeyOf[z.slot[0]]
  /\ Keys(z) = {KeyAt(node[n], j) : j \in left .. node[n].perm.size - 1}
  /\ K(t) \notin Keys(node[n])
  /\ sp = 0 => Ik(t) < i /\ left < node[n].perm.size
  /\ sp # 0 => /\ i <= Ik(t) /\ left > 0 /\ z.perm.size < W /\ K(t) \notin Keys(z)
               /\ Back(z.perm) = 0 => Ik(t) = i

LEMMA SproutsIs ==
  ASSUME NEW lo, NEW hi, TreeIn(lo, hi), NEW t \in Thread, SplitLeaf(t), NEW x, x = loc[t], NEW n, n = x.leaf
  PROVE  \E c, i, left, sp, z : Sprouts(t, x, n, c, i, left, sp, z, lo, hi)
<1>1. PICK k : k = K(t)
  OBVIOUS
<1>2. PICK y : y = Inserting(node[n])
  OBVIOUS
<1>3. PICK p : p = Position(y, k)
  OBVIOUS
<1>4. PICK w : w = y.perm.size
  OBVIOUS
<1>5. PICK mid : mid = SplitPoint(y, k)
  OBVIOUS
<1>6. PICK c : c = Fresh
  OBVIOUS
<1>7. PICK z : LeafCut(t, x, n, k, y, p, w, mid, c, z)
  BY <1>1, <1>2, <1>3, <1>4, <1>5, <1>6, LeafCutIs
<1>8. /\ pc[t] = "locked" /\ k \notin Keys(y) /\ ~ HasRoom(y, k)
      /\ Right(y, k, n, p, w, mid, z)
      /\ node' = Append([u \in NodeId |->
           IF u = n THEN [y EXCEPT !.next = c]
           ELSE IF u = y.next THEN [node[u] EXCEPT !.prev = c] ELSE node[u]], z)
      /\ loc' = [loc EXCEPT ![t] = [x EXCEPT !.child = c, !.ikey = Bound(z),
                   !.split = IF p < mid THEN 0 ELSE IF mid = w THEN 2 ELSE 1]]
      /\ pc' = [pc EXCEPT ![t] = "parent"] /\ UNCHANGED <<root, req, pre>>
  BY ONLY <1>7, Zenon DEF LeafCut
<1>9. pc[t] = "locked"
  BY ONLY <1>8
<1>10. /\ n \in NodeId /\ Leaf(n) /\ Owns(t, n) /\ node[n] \in Node /\ Kept(node[n], n, lo[n], hi[n])
       /\ K(t) \in Key /\ (node[n].prev = Nil <=> n = 1)
       /\ InRange(t, n, lo, hi)
  BY <1>9, AtWork
<1>11. /\ y \in Node /\ Refilled(node[n], y) /\ Kept(y, n, lo[n], hi[n]) /\ (y.prev = Nil <=> n = 1)
       /\ Keys(y) = Keys(node[n]) /\ y.perm = node[n].perm /\ y.slot = node[n].slot /\ y.lock = t
  BY <1>2, <1>9, ToInsert
<1>12. LeafNode(y)
  BY <1>11 DEF Kept
<1>13. w \in {W - 1, W} /\ w \in Nat /\ w > 0 /\ w <= W
  BY <1>4, <1>8, <1>11, <1>12, FullIs, WidthsAssumption, WAssumption
<1>14. PICK A : A = [j \in 0 .. w |-> AfterInsert(y, k, j)]
  OBVIOUS
<1>15. After(y, k, p, w, A)
  BY <1>1, <1>3, <1>4, <1>8, <1>10, <1>12, <1>14, AfterIs
<1>16. mid \in 1 .. w /\ IkeyOf[A[mid - 1]] < IkeyOf[A[mid]]
  BY <1>5, <1>13, <1>15, SplitPointIs
<1>17. PICK left : left = IF p < mid THEN mid - 1 ELSE mid
  OBVIOUS
<1>18. n \in Nat
  BY <1>10, NodeTypes DEF TreeIn
<1>19. /\ Moved(y, p, w, A, mid, left, z)
       /\ z \in Node /\ z.kind = y.kind /\ z.lock = y.lock /\ z.ver = y.ver /\ z.next = y.next /\ z.height = y.height
       /\ z.parent = Nil /\ z.prev = n
  BY <1>8, <1>11, <1>13, <1>15, <1>16, <1>17, <1>18, MovedIs
<1>20. PICK i : i = IkeyOf[A[mid]]
  OBVIOUS
<1>21. Parted(y, k, p, w, mid, left, z, lo[n], hi[n], i)
  <2>1. lo[n] \in Nat
    BY <1>10 DEF TreeIn, NodeIn
  <2>2. k \in Key /\ lo[n] <= IkeyOf[k] /\ Below(IkeyOf[k], hi[n])
    BY <1>1, <1>10 DEF InRange, Ik
  <2>3. PICK l, h : l = lo[n] /\ h = hi[n]
    OBVIOUS
  <2>4. Kept(y, n, l, h) /\ l \in Nat /\ l <= IkeyOf[k] /\ Below(IkeyOf[k], h)
    BY <1>11, <2>1, <2>2, <2>3
  <2>5. Parted(y, k, p, w, mid, left, z, l, h, i)
    BY <1>8, <1>13, <1>15, <1>16, <1>19, <1>20, <2>2, <2>4, PartedIs
  <2>6. QED
    BY ONLY <2>3, <2>5
<1>22. /\ i \in Nat /\ lo[n] < i /\ Below(i, hi[n])
       /\ \A j \in 0 .. left - 1 : IkeyOf[KeyAt(y, j)] < i
       /\ left \in 0 .. w /\ z.perm.size = w - left
       /\ InLeaf(z)
       /\ \A j \in 0 .. z.perm.size - 1 : i <= IkeyOf[KeyAt(z, j)] /\ Below(IkeyOf[KeyAt(z, j)], hi[n])
       /\ KeyAt(z, 0) = 0 \/ Below(IkeyOf[KeyAt(z, 0)], hi[n])
       /\ z.slot[0] # 0 /\ i = IkeyOf[z.slot[0]] /\ Bound(z) = i
       /\ Keys(z) = {KeyAt(y, j) : j \in left .. w - 1}
       /\ p < mid => IkeyOf[k] < i /\ left < w
       /\ ~ (p < mid) => /\ i <= IkeyOf[k] /\ left > 0 /\ z.perm.size < W /\ k \notin Keys(z)
                         /\ Back(z.perm) = 0 => IkeyOf[k] = i
  BY ONLY <1>21, Zenon DEF Parted
<1>23. PICK sp : sp = IF p < mid THEN 0 ELSE IF mid = w THEN 2 ELSE 1
  OBVIOUS
<1>24. sp \in {0, 1, 2} /\ (sp = 0 <=> p < mid)
  BY ONLY <1>23
<1>25. loc' = [loc EXCEPT ![t] = [x EXCEPT !.child = c, !.ikey = i, !.split = sp]]
  <2>1. Bound(z) = i
    BY ONLY <1>22
  <2>2. QED
    BY ONLY <1>8, <1>23, <2>1
<1>26. PICK f : f = [u \in NodeId |->
           IF u = n THEN [y EXCEPT !.next = c]
           ELSE IF u = y.next THEN [node[u] EXCEPT !.prev = c] ELSE node[u]]
  OBVIOUS
<1>27. node' = Append(f, z)
  BY ONLY <1>8, <1>26, Zenon
<1>28. PICK yn : yn = [y EXCEPT !.next = c]
  OBVIOUS
<1>29. f[n] = yn
  BY ONLY <1>10, <1>26, <1>28
<1>30. c \in Nat /\ c # Nil
  BY <1>6, Ids DEF TreeIn, Nil
<1>31. /\ yn \in Node /\ yn.next = c /\ yn.kind = y.kind /\ yn.perm = y.perm /\ yn.slot = y.slot /\ yn.height = y.height
       /\ yn.lock = y.lock /\ yn.parent = y.parent /\ yn.prev = y.prev /\ yn.ikeys = y.ikeys /\ yn.child = y.child
       /\ yn.ver = y.ver
  BY ONLY <1>11, <1>28, <1>30 DEF Node
<1>32. ASSUME NEW u \in NodeId \ {n}
       PROVE  /\ f[u] \in Node /\ SameBody(node[u], f[u]) /\ f[u].ver = node[u].ver /\ f[u].lock = node[u].lock
              /\ f[u].parent = node[u].parent /\ (f[u].prev = Nil <=> node[u].prev = Nil)
  <2>1. node[u] \in Node
    BY NodeTypes DEF TreeIn
  <2>2. PICK a : a = [node[u] EXCEPT !.prev = c]
    OBVIOUS
  <2>3. /\ a \in Node /\ SameBody(node[u], a) /\ a.ver = node[u].ver /\ a.lock = node[u].lock
        /\ a.parent = node[u].parent /\ a.prev = c
    BY ONLY <1>30, <2>1, <2>2 DEF Node, SameBody
  <2>4. f[u] = IF u = y.next THEN a ELSE node[u]
    BY ONLY <1>26, <2>2, u \in NodeId \ {n}
  <2>5. SameBody(node[u], node[u])
    BY DEF SameBody
  <2>6. u = y.next => node[u].prev # Nil
    <3>1. y.next = node[n].next
      BY <1>11 DEF Refilled
    <3>2. u # Nil
      BY NodeTypes DEF TreeIn, Nil
    <3>3. LeafRange(n, lo, hi)
      BY <1>10 DEF TreeIn, NodeIn
    <3>4. u = y.next => Leaf(u) /\ u # 1
      BY ONLY <3>1, <3>2, <3>3 DEF LeafRange
    <3>5. NodeIn(u, lo, hi)
      BY DEF TreeIn
    <3>6. Leaf(u) => (node[u].prev = Nil <=> u = 1)
      BY <3>5 DEF NodeIn, LeafRange
    <3>7. QED
      BY <3>4, <3>6
  <2>7. QED
    BY ONLY <1>30, <2>1, <2>3, <2>4, <2>5, <2>6
<1>33. /\ node' \in Seq(Node) /\ NodeId' = NodeId \cup {c} /\ c \notin NodeId
       /\ node'[c] = z /\ node'[n] = yn /\ \A u \in NodeId : node'[u] = f[u]
  <2>1. f = [u \in NodeId |-> f[u]]
    BY ONLY <1>26
  <2>2. \A u \in NodeId : f[u] \in Node
    BY <1>29, <1>31, <1>32
  <2>3. Types /\ z \in Node
    BY <1>19 DEF TreeIn
  <2>4. /\ node' \in Seq(Node) /\ NodeId' = NodeId \cup {Fresh} /\ Fresh \notin NodeId /\ Fresh # Nil /\ Fresh \in Nat
        /\ node'[Fresh] = z /\ \A u \in NodeId : node'[u] = f[u]
    BY ONLY <1>27, <2>1, <2>2, <2>3, Appended
  <2>5. node'[n] = yn
    BY ONLY <1>10, <1>29, <2>4
  <2>6. QED
    BY ONLY <1>6, <2>4, <2>5
<1>34. /\ node[n].kind = "leaf" /\ y.kind = node[n].kind /\ y.height = node[n].height /\ y.ikeys = node[n].ikeys
       /\ y.child = node[n].child /\ y.parent = node[n].parent /\ y.prev = node[n].prev /\ y.next = node[n].next
       /\ y.ver = [node[n].ver EXCEPT !.inserting = y.ver.inserting]
       /\ node[n].ver.inserting => y.ver.inserting
  BY <1>10, <1>11 DEF Refilled, Leaf
<1>35. z.ver.splitting = node[n].ver.splitting
  <2>1. node[n].ver \in Version
    BY <1>10, NodeTypes DEF TreeIn
  <2>2. y.ver.splitting = node[n].ver.splitting
    BY ONLY <1>34, <2>1 DEF Version
  <2>3. QED
    BY <1>19, <2>2
<1>36. \A j : KeyAt(y, j) = KeyAt(node[n], j)
  BY ONLY <1>11 DEF KeyAt
<1>37. w = node[n].perm.size
  BY <1>4, <1>11
<1>38. /\ \A u \in NodeId \ {n} : /\ SameBody(node[u], node'[u]) /\ node'[u].ver = node[u].ver /\ node'[u].lock = node[u].lock
                             /\ node'[u].parent = node[u].parent /\ (node'[u].prev = Nil <=> node[u].prev = Nil)
  BY ONLY <1>32, <1>33
<1>39. k = K(t) /\ IkeyOf[k] = Ik(t)
  BY <1>1 DEF Ik
<1>40. /\ node'[c] = z /\ z.kind = "leaf" /\ z.lock = t /\ z.next = node[n].next /\ z.height = node[n].height
       /\ z.parent = Nil /\ z.prev = n /\ z.ver.splitting = node[n].ver.splitting
  BY ONLY <1>11, <1>19, <1>33, <1>34, <1>35
<1>41. /\ node'[n].kind = node[n].kind /\ node'[n].perm = node[n].perm /\ node'[n].slot = node[n].slot
       /\ node'[n].next = c /\ node'[n].height = node[n].height /\ node'[n].lock = t /\ node'[n].parent = node[n].parent
       /\ node'[n].prev = node[n].prev /\ node'[n].ikeys = node[n].ikeys /\ node'[n].child = node[n].child
       /\ node'[n].ver = [node[n].ver EXCEPT !.inserting = node'[n].ver.inserting]
       /\ node[n].ver.inserting => node'[n].ver.inserting
  BY ONLY <1>11, <1>31, <1>33, <1>34
<1>42. /\ i \in Nat /\ lo[n] < i /\ Below(i, hi[n])
       /\ left \in 0 .. node[n].perm.size /\ z.perm.size = node[n].perm.size - left /\ node[n].perm.size > 0
       /\ \A j \in 0 .. left - 1 : IkeyOf[KeyAt(node[n], j)] < i
       /\ Keys(z) = {KeyAt(node[n], j) : j \in left .. node[n].perm.size - 1}
       /\ K(t) \notin Keys(node[n])
  BY ONLY <1>8, <1>11, <1>13, <1>22, <1>36, <1>37, <1>39
<1>43. /\ sp = 0 => Ik(t) < i /\ left < node[n].perm.size
       /\ sp # 0 => /\ i <= Ik(t) /\ left > 0 /\ z.perm.size < W /\ K(t) \notin Keys(z)
                    /\ Back(z.perm) = 0 => Ik(t) = i
  BY ONLY <1>22, <1>24, <1>37, <1>39
<1>44. Sprouts(t, x, n, c, i, left, sp, z, lo, hi)
  BY ONLY <1>8, <1>22, <1>24, <1>25, <1>30, <1>33, <1>38, <1>40, <1>41, <1>42, <1>43, ZenonT(40) DEF Sprouts
<1>45. QED
  BY ONLY <1>44

LEMMA SplitLeafKeeps ==
  ASSUME NEW lo, NEW hi, TreeIn(lo, hi), NEW t \in Thread, SplitLeaf(t)
  PROVE  TreeInv'
<1>1. PICK x : x = loc[t]
  OBVIOUS
<1>2. PICK n : n = x.leaf
  OBVIOUS
<1>3. PICK c, i, left, sp, z : Sprouts(t, x, n, c, i, left, sp, z, lo, hi)
  BY <1>1, <1>2, SproutsIs
<1>4. /\ pc[t] = "locked" /\ pc' = [pc EXCEPT ![t] = "parent"] /\ UNCHANGED <<root, req, pre>>
      /\ loc' = [loc EXCEPT ![t] = [x EXCEPT !.child = c, !.ikey = i, !.split = sp]] /\ sp \in {0, 1, 2}
      /\ node' \in Seq(Node) /\ NodeId' = NodeId \cup {c} /\ c \notin NodeId /\ c # Nil /\ c \in Nat
  BY ONLY <1>3, Zenon DEF Sprouts
<1>5. /\ node'[c] = z /\ z.kind = "leaf" /\ z.lock = t /\ z.next = node[n].next /\ z.height = node[n].height
      /\ z.parent = Nil /\ z.prev = n /\ z.ver.splitting = node[n].ver.splitting /\ InLeaf(z)
  BY ONLY <1>3, Zenon DEF Sprouts
<1>6. /\ node'[n].kind = node[n].kind /\ node'[n].perm = node[n].perm /\ node'[n].slot = node[n].slot
      /\ node'[n].next = c /\ node'[n].height = node[n].height /\ node'[n].lock = t /\ node'[n].parent = node[n].parent
      /\ node'[n].prev = node[n].prev /\ node'[n].ikeys = node[n].ikeys /\ node'[n].child = node[n].child
      /\ node'[n].ver = [node[n].ver EXCEPT !.inserting = node'[n].ver.inserting]
      /\ node[n].ver.inserting => node'[n].ver.inserting
  BY ONLY <1>3, Zenon DEF Sprouts
<1>7. \A u \in NodeId \ {n} : /\ SameBody(node[u], node'[u]) /\ node'[u].ver = node[u].ver /\ node'[u].lock = node[u].lock
                             /\ node'[u].parent = node[u].parent /\ (node'[u].prev = Nil <=> node[u].prev = Nil)
  BY ONLY <1>3, Zenon DEF Sprouts
<1>8. /\ i \in Nat /\ lo[n] < i /\ Below(i, hi[n])
      /\ left \in 0 .. node[n].perm.size /\ z.perm.size = node[n].perm.size - left /\ node[n].perm.size > 0
      /\ \A j \in 0 .. left - 1 : IkeyOf[KeyAt(node[n], j)] < i
      /\ \A j \in 0 .. z.perm.size - 1 : i <= IkeyOf[KeyAt(z, j)] /\ Below(IkeyOf[KeyAt(z, j)], hi[n])
      /\ KeyAt(z, 0) = 0 \/ Below(IkeyOf[KeyAt(z, 0)], hi[n])
      /\ z.slot[0] # 0 /\ i = IkeyOf[z.slot[0]]
      /\ Keys(z) = {KeyAt(node[n], j) : j \in left .. node[n].perm.size - 1}
  BY ONLY <1>3, Zenon DEF Sprouts
<1>9. /\ K(t) \notin Keys(node[n])
      /\ sp = 0 => Ik(t) < i /\ left < node[n].perm.size
      /\ sp # 0 => /\ i <= Ik(t) /\ left > 0 /\ z.perm.size < W /\ K(t) \notin Keys(z)
                   /\ Back(z.perm) = 0 => Ik(t) = i
  BY ONLY <1>3, Zenon DEF Sprouts
<1>10. /\ Types /\ Parents /\ n \in NodeId /\ Leaf(n) /\ Owns(t, n) /\ node[n].lock = t /\ node[n] \in Node
       /\ K(t) \in Key /\ NodeIn(n, lo, hi) /\ node[n].kind = "leaf"
       /\ InRange(t, n, lo, hi) /\ (node[n].prev = Nil <=> n = 1)
       /\ \A u \in NodeId : u # c /\ u # Nil
  <2>1. /\ n \in NodeId /\ Leaf(n) /\ Owns(t, n) /\ node[n] \in Node /\ K(t) \in Key /\ InRange(t, n, lo, hi)
        /\ (node[n].prev = Nil <=> n = 1)
    BY <1>1, <1>2, <1>4, AtWork
  <2>2. Types /\ Parents /\ \A u \in NodeId : NodeIn(u, lo, hi)
    BY DEF TreeIn
  <2>3. \A u \in NodeId : u # c /\ u # Nil
    BY <1>4, <2>2, NodeTypes DEF Nil
  <2>4. node[n].lock = t /\ node[n].kind = "leaf"
    BY ONLY <2>1 DEF Owns, Leaf
  <2>5. QED
    BY ONLY <2>1, <2>2, <2>3, <2>4
<1>11. /\ x \in WritingLocals /\ ~ Dirty(n) /\ x.n = n /\ x.height = 0
  BY <1>1, <1>2, <1>4 DEF TreeIn, ThreadIn, WritePc, Writing
<1>12. PICK zl : zl = [x EXCEPT !.child = c, !.ikey = i, !.split = sp]
  OBVIOUS
<1>13. /\ zl \in WritingLocals /\ zl \in AllLocals /\ zl.n = n /\ zl.leaf = n /\ zl.child = c /\ zl.ikey = i /\ zl.split = sp
       /\ zl.height = 0
  <2>1. c \in Nat /\ i \in Nat /\ sp \in Nat
    BY <1>4, <1>8
  <2>2. zl \in WritingLocals /\ zl.n = x.n /\ zl.leaf = x.leaf /\ zl.child = c /\ zl.ikey = i /\ zl.split = sp /\ zl.height = x.height
    BY ONLY <1>11, <1>12, <2>1 DEF WritingLocals
  <2>3. zl \in AllLocals
    BY ONLY <2>2 DEF AllLocals
  <2>4. QED
    BY ONLY <1>2, <1>11, <2>2, <2>3
<1>14. Types' /\ pc'[t] = "parent" /\ loc'[t] = zl /\ NodeId \subseteq NodeId'
       /\ \A u \in Thread \ {t} : pc'[u] = pc[u] /\ loc'[u] = loc[u] /\ req'[u] = req[u]
  <2>1. "parent" \in AllPc
    BY DEF AllPc, WritePc, Putting, Splitting, Climbing
  <2>2. NodeId \subseteq NodeId'
    BY <1>4
  <2>3. loc' = [loc EXCEPT ![t] = zl]
    BY <1>4, <1>12
  <2>4. Types /\ zl \in AllLocals /\ pc' = [pc EXCEPT ![t] = "parent"] /\ node' \in Seq(Node) /\ req' = req /\ pre' = pre
    BY <1>4, <1>10, <1>13
  <2>5. /\ Types' /\ pc'[t] = "parent" /\ loc'[t] = zl
        /\ \A u \in Thread \ {t} : pc'[u] = pc[u] /\ loc'[u] = loc[u] /\ req'[u] = req[u]
    BY ONLY t \in Thread, <2>1, <2>2, <2>3, <2>4, Moves
  <2>6. QED
    BY ONLY <2>2, <2>5
<1>15. PICK lo2 : lo2 = [u \in NodeId \cup {c} |-> IF u = c THEN i ELSE lo[u]]
  OBVIOUS
<1>16. PICK hi2 : hi2 = [u \in NodeId \cup {c} |-> IF u = c THEN hi[n] ELSE IF u = n THEN i ELSE hi[u]]
  OBVIOUS
<1>17. /\ lo2[c] = i /\ hi2[c] = hi[n] /\ lo2[n] = lo[n] /\ hi2[n] = i
       /\ \A u \in NodeId : lo2[u] = lo[u] /\ (u # n => hi2[u] = hi[u])
  BY ONLY <1>10, <1>15, <1>16
<1>18. pc'[t] \in Climbing /\ pc'[t] \in Splitting /\ pc'[t] # "strip" /\ pc[t] \notin Splitting /\ t # NoThread
  BY <1>4, <1>14, ThreadAssumption DEF Splitting, Climbing
<1>19. /\ SepHi(n, hi2)' = hi[n] /\ ReadHi(n, hi2)' = hi[n] /\ ~ NewRight(n)'
       /\ SepHi(n, hi) = hi[n] /\ ReadHi(n, hi) = hi[n] /\ ~ NewRight(n)
  <2>1. SepHi(n, hi) = hi[n] /\ ReadHi(n, hi) = hi[n] /\ ~ NewRight(n)
    BY <1>10, <1>18, IdleView
  <2>2. loc'[t].n = n /\ loc'[t].leaf = n /\ loc'[t].child = c /\ n # c /\ node'[n].lock = t
    BY ONLY <1>6, <1>10, <1>13, <1>14
  <2>3. SepHi(n, hi2)' = hi[n] /\ ReadHi(n, hi2)' = hi[n] /\ ~ NewRight(n)'
    BY <1>17, <1>18, <2>2, OwnNext
  <2>4. QED
    BY <2>1, <2>3
<1>20. ReadHi(c, hi2)' = hi[n] /\ NewRight(c)'
  <2>2. loc'[t].n = n /\ loc'[t].leaf = n /\ loc'[t].child = c /\ n # c /\ node'[c].lock = t
    BY ONLY <1>5, <1>10, <1>13, <1>14
  <2>3. QED
    BY <1>17, <1>18, <2>2, OwnNext
<1>21. ASSUME NEW u \in NodeId \ {n}, node[u].lock = t
       PROVE  /\ SepHi(u, hi2)' = SepHi(u, hi) /\ ReadHi(u, hi2)' = ReadHi(u, hi) /\ (NewRight(u)' <=> NewRight(u))
  <2>1. SepHi(u, hi) = hi[u] /\ ReadHi(u, hi) = hi[u] /\ ~ NewRight(u)
    BY <1>18, <1>21, IdleView
  <2>2. loc'[t].n # u /\ loc'[t].child # u /\ node'[u].lock = t
    BY <1>7, <1>10, <1>13, <1>14, <1>21
  <2>3. SepHi(u, hi2)' = hi[u] /\ ReadHi(u, hi2)' = hi[u] /\ ~ NewRight(u)'
    BY <1>17, <1>18, <2>2, OwnNext
  <2>4. QED
    BY <2>1, <2>3
<1>22. /\ ~ node[n].ver.splitting /\ ~ node[n].ver.inserting /\ node'[n].ver.splitting = FALSE
       /\ node'[n].ver.vsplit = node[n].ver.vsplit /\ node'[n].ver.vinsert = node[n].ver.vinsert
       /\ node'[n].ver.root = node[n].ver.root
  <2>1. node[n].ver \in Version
    BY <1>10, NodeTypes
  <2>2. ~ node[n].ver.splitting /\ ~ node[n].ver.inserting
    BY <1>11 DEF Dirty
  <2>3. QED
    BY ONLY <1>6, <2>1, <2>2 DEF Version
<1>23. Told(n, lo, hi, lo2, hi2)
  <2>1. VLeq(node[n].ver, node'[n].ver)
    <3>1. node[n].ver.vsplit \in Nat /\ node[n].ver.vinsert \in Nat
      BY <1>10, NodeTypes
    <3>2. QED
      BY ONLY <1>22, <3>1 DEF VLeq
  <2>2. QED
    BY ONLY <1>6, <1>17, <1>19, <1>22, <2>1 DEF Told
<1>24. Frame(t, {n}, lo, hi, lo2, hi2)
  <2>1. \A u \in {n} : node[u].lock \in {t, NoThread} /\ Told(u, lo, hi, lo2, hi2)
    BY <1>10, <1>23
  <2>2. \A u \in NodeId : lo2[u] = lo[u] /\ (node[u].lock # t => hi2[u] = hi[u])
    BY ONLY <1>10, <1>17
  <2>3. \A u \in NodeId \ {n} :
           /\ SameBody(node[u], node'[u]) /\ node'[u].ver = node[u].ver /\ node'[u].lock = node[u].lock
           /\ hi2[u] = hi[u]
    BY ONLY <1>7, <1>17
  <2>4. \A u \in NodeId \ {n} : node[u].lock = t =>
           /\ ReadHi(u, hi2)' = ReadHi(u, hi) /\ (NewRight(u)' <=> NewRight(u))
    BY <1>21
  <2>5. \A u \in NodeId : node'[u].prev = Nil <=> node[u].prev = Nil
    BY ONLY <1>6, <1>7
  <2>6. \A u \in NodeId : node'[u].parent = node[u].parent \/
           (node'[u].parent # Nil /\ (node[u].parent \in {n} \/ (node[u].parent = Nil /\ Owns(t, u))))
    BY ONLY <1>6, <1>7
  <2>7. \A u \in NodeId : u \in {n} \/ node[u].lock = t =>
           SepHi(u, hi2)' = SepHi(u, hi) \/
             (Owns(t, u) /\ node[u].parent \in {n} \cup {Nil} /\ node'[u].parent # Nil)
    BY <1>19, <1>21
  <2>8. {n} \in SUBSET NodeId
    BY <1>10
  <2>9. QED
    BY <1>14, <2>1, <2>2, <2>3, <2>4, <2>5, <2>6, <2>7, <2>8, MakeFrame
<1>25. Leaf(n)' /\ Leaf(c)' /\ c # 1 /\ 1 \in NodeId /\ n # c /\ n \in NodeId' /\ c \in NodeId'
  BY <1>4, <1>5, <1>6, <1>10 DEF Leaf, Types
<1>26. /\ lo[n] \in Nat /\ hi[n] \in Nat \cup {Inf} /\ InLeaf(node[n]) /\ LeafRange(n, lo, hi) /\ TopRange(n, lo, hi)
  BY <1>10 DEF NodeIn
<1>27. NodeIn(n, lo2, hi2)'
  <2>1. TopRange(n, lo2, hi2)'
    <3>1. RootId(n)' => RootId(n)
      BY <1>6, <1>10, <1>25 DEF RootId, Inner
    <3>2. SepHi(n, hi2)' = SepHi(n, hi) /\ ReadHi(n, hi2)' = ReadHi(n, hi)
      BY <1>19
    <3>3. lo2[n] = lo[n] /\ node'[n].parent = node[n].parent /\ node'[n].ver.root = node[n].ver.root
      BY <1>6, <1>17, <1>22
    <3>4. QED
      BY <1>19, <1>22, <1>26, <3>1, <3>2, <3>3, TopKept
  <2>2. InLeaf(node'[n])
    BY ONLY <1>6, <1>26 DEF InLeaf, KeyAt
  <2>3. LeafRange(n, lo2, hi2)'
    <3>1. \A j : KeyAt(node'[n], j) = KeyAt(node[n], j)
      BY ONLY <1>6 DEF KeyAt
    <3>2. \A j \in 0 .. node[n].perm.size - 1 :
            lo[n] <= IkeyOf[KeyAt(node[n], j)] /\ Below(IkeyOf[KeyAt(node[n], j)], hi[n])
      BY ONLY <1>19, <1>26 DEF LeafRange
    <3>3. /\ node[n].prev = Nil <=> n = 1
          /\ n = 1 => lo[n] = 0
          /\ n # 1 => node[n].slot[0] # 0 /\ lo[n] = IkeyOf[node[n].slot[0]]
      BY ONLY <1>26 DEF LeafRange
    <3>4. /\ \A j \in 0 .. node'[n].perm.size - 1 :
               lo2[n] <= IkeyOf[KeyAt(node'[n], j)] /\ Below(IkeyOf[KeyAt(node'[n], j)], ReadHi(n, hi2)')
          /\ node'[n].perm.size # 0
          /\ node'[n].prev = Nil <=> n = 1
          /\ n = 1 => lo2[n] = 0
          /\ n # 1 => node'[n].slot[0] # 0 /\ lo2[n] = IkeyOf[node'[n].slot[0]]
          /\ node'[n].next # Nil /\ node'[n].next # 1 /\ hi2[n] = lo2[node'[n].next]
      BY ONLY <1>4, <1>6, <1>8, <1>17, <1>19, <1>25, <3>1, <3>2, <3>3
    <3>5. \A q : q = node'[n].next => Leaf(q)'
      BY ONLY <1>6, <1>25
    <3>6. QED
      BY ONLY <3>4, <3>5 DEF LeafRange
  <2>4. Below(lo2[n], hi2[n]) /\ hi2[n] \in Nat
    BY ONLY <1>8, <1>17 DEF Below
  <2>5. ~ Inner(n)'
    BY <1>6, <1>10 DEF Inner
  <2>6. node'[n].lock # NoThread /\ lo2[n] \in Nat
    BY <1>6, <1>17, <1>18, <1>26
  <2>7. QED
    BY ONLY <2>1, <2>2, <2>3, <2>4, <2>5, <2>6 DEF NodeIn
<1>28. NodeIn(c, lo2, hi2)'
  <2>1. TopRange(c, lo2, hi2)'
    <3>1. ~ RootId(c)'
      BY <1>5, <1>25 DEF RootId, Inner
    <3>2. QED
      BY ONLY <1>20, <3>1 DEF TopRange
  <2>2. InLeaf(node'[c])
    BY ONLY <1>5
  <2>3. LeafRange(c, lo2, hi2)'
    <3>1. /\ node[n].next = Nil => hi[n] = Inf
          /\ node[n].next # Nil => Leaf(node[n].next) /\ node[n].next # 1 /\ hi[n] = lo[node[n].next]
      BY ONLY <1>26 DEF LeafRange
    <3>2. \A q : q = node'[c].next /\ q # Nil => Leaf(q)' /\ q # 1 /\ hi2[c] = lo2[q]
      <4>1. SUFFICES ASSUME NEW q, q = node'[c].next, q # Nil PROVE Leaf(q)' /\ q # 1 /\ hi2[c] = lo2[q]
        OBVIOUS
      <4>2. Leaf(q) /\ q # 1 /\ hi[n] = lo[q]
        BY ONLY <1>5, <3>1, <4>1
      <4>3. Leaf(q)' /\ lo2[q] = lo[q]
        BY <1>24, <4>2, KindKept
      <4>4. QED
        BY ONLY <1>17, <4>2, <4>3
    <3>3. node'[c].next = Nil => hi2[c] = Inf
      BY ONLY <1>5, <1>17, <3>1
    <3>4. /\ \A j \in 0 .. node'[c].perm.size - 1 :
               lo2[c] <= IkeyOf[KeyAt(node'[c], j)] /\ Below(IkeyOf[KeyAt(node'[c], j)], ReadHi(c, hi2)')
          /\ KeyAt(node'[c], 0) = 0 \/ Below(IkeyOf[KeyAt(node'[c], 0)], hi2[c])
          /\ node'[c].prev # Nil /\ c # 1
          /\ node'[c].slot[0] # 0 /\ lo2[c] = IkeyOf[node'[c].slot[0]]
      BY ONLY <1>5, <1>8, <1>10, <1>17, <1>20, <1>25
    <3>5. QED
      BY ONLY <3>2, <3>3, <3>4 DEF LeafRange
  <2>4. Below(lo2[c], hi2[c]) /\ hi2[c] \in Nat \cup {Inf} /\ lo2[c] \in Nat
    BY ONLY <1>8, <1>17, <1>26
  <2>5. ~ Inner(c)'
    BY <1>5 DEF Inner
  <2>6. node'[c].lock # NoThread
    BY <1>5, <1>18
  <2>7. QED
    BY ONLY <2>1, <2>2, <2>3, <2>4, <2>5, <2>6 DEF NodeIn
<1>29. Parents'
  <2>1. \A u \in NodeId : \A q : q = node'[u].parent /\ q # Nil => HasChild(q, u)'
    <3>1. SUFFICES ASSUME NEW u \in NodeId, NEW q, q = node'[u].parent, q # Nil PROVE HasChild(q, u)'
      OBVIOUS
    <3>2. node'[u].parent = node[u].parent
      BY ONLY <1>6, <1>7, u \in NodeId
    <3>3. HasChild(q, u)
      BY ONLY <1>10, <3>1, <3>2, u \in NodeId DEF Parents
    <3>4. q \in NodeId /\ node[q].kind = "inner" /\ \E j \in DOMAIN node[q].child : node[q].child[j] = u
      BY ONLY <3>3 DEF HasChild, Inner
    <3>5. q # n
      BY ONLY <1>10, <3>4
    <3>6. node'[q].kind = "inner" /\ node'[q].child = node[q].child /\ q \in NodeId'
      BY ONLY <1>7, <1>14, <3>4, <3>5 DEF SameBody
    <3>7. QED
      BY ONLY <3>4, <3>6 DEF HasChild, Inner
  <2>2. \A u \in NodeId' : \A q : q = node'[u].parent /\ q # Nil => HasChild(q, u)'
    BY ONLY <1>4, <1>5, <2>1
  <2>3. QED
    BY ONLY <2>2 DEF Parents
<1>30. ThreadIn(t, lo2, hi2)'
  <2>1. Pair(t, n, c, i, 0, lo2, hi2)'
    <3>1. /\ n \in NodeId' /\ c \in NodeId' /\ node'[n].lock = t /\ node'[c].lock = t /\ n # c /\ c # 1
          /\ node'[n].kind = "leaf" /\ node'[c].kind = "leaf" /\ node'[n].height = 0 /\ node'[c].height = 0
          /\ hi2[n] = i /\ lo2[c] = i /\ ~ node'[c].ver.splitting
      BY ONLY <1>5, <1>6, <1>10, <1>17, <1>22, <1>25, <1>26 DEF InLeaf
    <3>2. QED
      BY ONLY <3>1 DEF Pair, Owns, Inner
  <2>2. req'[t] = req[t] /\ K(t)' = K(t) /\ Ik(t)' = Ik(t)
    BY <1>4 DEF K, Ik
  <2>3. lo[n] <= Ik(t) /\ Below(Ik(t), hi[n])
    BY <1>10 DEF InRange
  <2>4. Half(t, n, c, i, sp, lo2, hi2)'
    <3>0. PICK l, r : l = node'[n] /\ r = node'[c]
      OBVIOUS
    <3>1. \A j : KeyAt(l, j) = KeyAt(node[n], j)
      BY ONLY <1>6, <3>0 DEF KeyAt
    <3>2. Keys(l) = Keys(node[n])
      BY ONLY <1>6, <3>0 DEF Keys
    <3>3. l.perm.size \in Nat /\ l.perm.size = node[n].perm.size
      <4>1. node[n].perm.size \in Nat
        <5>1. PermOk(node[n].perm)
          BY <1>10, NodeTypes
        <5>2. QED
          BY <5>1, Positions
      <4>2. QED
        BY ONLY <1>6, <3>0, <4>1
    <3>4. l.perm.size - r.perm.size = left /\ left \in 0 .. l.perm.size
      BY ONLY <1>5, <1>8, <3>0, <3>3
    <3>5. /\ \A j \in 0 .. left - 1 : IkeyOf[KeyAt(l, j)] < i
          /\ Keys(r) = {KeyAt(l, j) : j \in left .. l.perm.size - 1}
      BY ONLY <1>5, <1>8, <3>0, <3>1, <3>3
    <3>6. ~ l.ver.splitting /\ Leaf(c)'
      BY ONLY <1>22, <1>25, <3>0
    <3>7. sp = 0 => InRange(t, n, lo2, hi2)' /\ left < l.perm.size /\ K(t)' \notin Keys(l)
      <4>1. sp = 0 => lo2[n] <= Ik(t)' /\ Below(Ik(t)', hi2[n])
        BY ONLY <1>9, <1>17, <2>2, <2>3 DEF Below
      <4>2. sp = 0 => InRange(t, n, lo2, hi2)'
        BY ONLY <4>1 DEF InRange
      <4>3. QED
        BY ONLY <1>9, <2>2, <3>2, <3>3, <4>2
    <3>8. sp # 0 => left > 0 /\ Ready(t, c, lo2, hi2)'
      <4>1. SUFFICES ASSUME sp # 0 PROVE left > 0 /\ Ready(t, c, lo2, hi2)'
        OBVIOUS
      <4>2. lo2[c] <= Ik(t)' /\ Below(Ik(t)', hi2[c])
        BY ONLY <1>9, <1>17, <2>2, <2>3, <4>1
      <4>3. c \in NodeId' /\ node'[c].lock = t /\ Leaf(c)'
        BY ONLY <1>5, <1>25
      <4>4. /\ left > 0 /\ node'[c].perm.size < W /\ K(t)' \notin Keys(node'[c])
            /\ Back(node'[c].perm) = 0 => Ik(t)' = lo2[c]
        BY ONLY <1>5, <1>9, <1>17, <2>2, <4>1
      <4>5. QED
        BY ONLY <4>2, <4>3, <4>4 DEF Ready, Owns, InRange
    <3>9. QED
      BY ONLY <3>0, <3>4, <3>5, <3>6, <3>7, <3>8 DEF Half
  <2>5. Writing(t, lo2, hi2)'
    <3>1. Owns(t, n)'
      BY ONLY <1>6, <1>25 DEF Owns
    <3>2. /\ pc'[t] # "locked" /\ pc'[t] # "lock" /\ pc'[t] # "insert" /\ pc'[t] # "strip" /\ pc'[t] # "top"
          /\ pc'[t] \notin {"top", "finish"}
      BY ONLY <1>14
    <3>3. node'[c].parent = Nil
      BY ONLY <1>5
    <3>4. /\ zl \in WritingLocals /\ zl.n = n /\ zl.leaf = n /\ zl.child = c /\ zl.ikey = i /\ zl.split = sp /\ zl.height = 0
          /\ loc'[t] = zl /\ Leaf(n)'
      BY ONLY <1>13, <1>14, <1>25
    <3>5. QED
      BY ONLY <2>1, <2>4, <3>1, <3>2, <3>3, <3>4 DEF Writing
  <2>6. req[t] # Idle /\ K(t) \in Key
    BY <1>4, Climber DEF WritePc
  <2>7. pc'[t] \notin ReadPc
    BY <1>14 DEF ReadPc
  <2>8. QED
    BY ONLY <2>2, <2>5, <2>6, <2>7 DEF ThreadIn
<1>31. RootId(root)'
  <2>1. RootId(root)
    BY DEF TreeIn
  <2>2. QED
    BY <1>4, <1>24, <2>1, KindKept
<1>32. /\ \A u \in {n} : NodeIn(u, lo2, hi2)'
       /\ \A u \in NodeId' \ NodeId : NodeIn(u, lo2, hi2)'
  BY <1>4, <1>27, <1>28
<1>33. TreeIn(lo2, hi2)'
  BY <1>14, <1>24, <1>29, <1>30, <1>31, <1>32, Wrap
<1>34. QED
  BY <1>33 DEF TreeInv

\* z is leaf y stripped of all but its first left keys, with a place for k if the
\* key goes there: one that had a key which has moved.
Shed(y, left, split, z) ==
  /\ z \in Node /\ LeafNode(z)
  /\ z.kind = y.kind /\ z.height = y.height /\ z.ikeys = y.ikeys /\ z.child = y.child /\ z.parent = y.parent
  /\ z.prev = y.prev /\ z.next = y.next /\ z.lock = y.lock /\ z.ver = [y.ver EXCEPT !.splitting = TRUE]
  /\ z.perm.size = left
  /\ \A j \in 0 .. left - 1 : KeyAt(z, j) = KeyAt(y, j)
  /\ split = 0 => \E m \in left .. y.perm.size - 1 : Back(z.perm) = At(y.perm, m)
  /\ Back(z.perm) # 0 \/ split # 0 => z.slot[0] = y.slot[0]

LEMMA StrippedIs ==
  ASSUME NEW y \in Node, LeafNode(y), NEW k \in Key, NEW nr, NEW left, left = y.perm.size - nr,
         left \in 0 .. y.perm.size, NEW split, split = 0 => left < y.perm.size,
         NEW z, z = StrippedLeaf(y, k, nr, split)
  PROVE  Shed(y, left, split, z)
<1>1. PICK q : q = y.perm
  OBVIOUS
<1>2. PICK q1 : q1 = SetSize(q, left)
  OBVIOUS
<1>3. PICK i, j : i = left /\ j = W - 1
  OBVIOUS
<1>4. PICK r : r = IF q.size # W THEN Exchange(q1, i, j) ELSE q1
  OBVIOUS
<1>5. PICK s : s = [y.slot EXCEPT ![Back(r)] = IF split = 0 THEN k ELSE y.slot[Back(r)]]
  OBVIOUS
<1>6. PermOk(q) /\ y.slot \in [Slot -> Key \cup {0}] /\ InLeaf(y)
  BY <1>1 DEF LeafNode
<1>7. /\ q.size \in 0 .. W /\ W \in Nat \ {0} /\ left \in 0 .. q.size /\ (split = 0 => left < q.size)
      /\ \A m \in 0 .. W - 1 : At(q, m) \in Slot
      /\ \A m, o \in 0 .. W - 1 : At(q, m) = At(q, o) => m = o
  BY <1>1, <1>6, Positions, WAssumption
<1>8. PermOk(q1) /\ q1.size = left /\ \A m \in 0 .. W - 1 : At(q1, m) = At(q, m)
  <2>1. left \in 0 .. W
    BY ONLY <1>7
  <2>2. LET w == SetSize(q, left) IN PermOk(w) /\ w.size = left /\ \A m \in 0 .. W - 1 : At(w, m) = At(q, m)
    BY ONLY <1>6, <2>1, Resized
  <2>3. QED
    BY ONLY <1>2, <2>2
<1>9. /\ PermOk(r) /\ r.size = left
      /\ \A m \in 0 .. left - 1 : At(r, m) = At(q, m)
      /\ split = 0 => \E m \in left .. q.size - 1 : At(r, W - 1) = At(q, m)
  <2>1. CASE q.size = W
    <3>1. r = q1
      BY ONLY <1>4, <2>1
    <3>2. \A m \in 0 .. left - 1 : m \in 0 .. W - 1
      BY ONLY <1>7
    <3>3. split = 0 => W - 1 \in left .. q.size - 1
      BY ONLY <1>7, <2>1
    <3>4. W - 1 \in 0 .. W - 1
      BY ONLY <1>7
    <3>5. QED
      BY ONLY <1>8, <3>1, <3>2, <3>3, <3>4
  <2>2. CASE q.size # W
    <3>1. i \in 0 .. W - 1 /\ j \in 0 .. W - 1 /\ r = Exchange(q1, i, j)
      BY ONLY <1>3, <1>4, <1>7, <2>2
    <3>2. LET w == Exchange(q1, i, j) IN
          /\ PermOk(w) /\ w.size = q1.size
          /\ \A m \in 0 .. W - 1 : At(w, m) = IF m = j THEN At(q1, i) ELSE IF m = i THEN At(q1, j) ELSE At(q1, m)
      <4>1. PermOk(q1)
        BY ONLY <1>8
      <4>2. i \in 0 .. W - 1 /\ j \in 0 .. W - 1
        BY ONLY <3>1
      <4>3. QED
        BY ONLY <4>1, <4>2, Swapped
    <3>3. /\ PermOk(r) /\ r.size = left
          /\ \A m \in 0 .. W - 1 : At(r, m) = IF m = j THEN At(q, i) ELSE IF m = i THEN At(q, j) ELSE At(q, m)
      BY ONLY <1>8, <3>1, <3>2
    <3>4. \A m \in 0 .. left - 1 : m \in 0 .. W - 1 /\ m # i /\ m # j
      BY ONLY <1>3, <1>7, <2>2
    <3>5. At(r, W - 1) = At(q, left)
      BY ONLY <1>3, <3>1, <3>3
    <3>6. split = 0 => left \in left .. q.size - 1
      BY ONLY <1>7
    <3>7. QED
      BY ONLY <3>3, <3>4, <3>5, <3>6
  <2>3. QED
    BY ONLY <2>1, <2>2
<1>10. Back(r) = At(r, W - 1) /\ Back(r) \in Slot
  <2>1. Back(r) = At(r, W - 1)
    BY ONLY <1>7 DEF Back, At
  <2>2. At(r, W - 1) \in Slot
    BY <1>7, <1>9, Positions
  <2>3. QED
    BY ONLY <2>1, <2>2
<1>11. /\ s \in [Slot -> Key \cup {0}] /\ \A a \in Slot : a # Back(r) => s[a] = y.slot[a]
       /\ split # 0 => s[Back(r)] = y.slot[Back(r)]
  BY ONLY <1>5, <1>6, <1>10, k \in Key
<1>12. y.ver \in Version
  BY DEF Node
<1>13. PICK ver : ver = [y.ver EXCEPT !.splitting = TRUE]
  OBVIOUS
<1>14. ver \in Version
  BY ONLY <1>12, <1>13 DEF Version
<1>15. z = [y EXCEPT !.ver = ver, !.perm = r, !.slot = s]
  <2>1. z = [y EXCEPT !.ver.splitting = TRUE, !.perm = r, !.slot[Back(r)] = IF split = 0 THEN k ELSE @]
    <3>1. r = IF y.perm.size # W THEN Exchange(SetSize(y.perm, y.perm.size - nr), y.perm.size - nr, W - 1)
              ELSE SetSize(y.perm, y.perm.size - nr)
      BY ONLY <1>1, <1>2, <1>3, <1>4, left = y.perm.size - nr
    <3>2. QED
      BY ONLY <3>1, z = StrippedLeaf(y, k, nr, split), Zenon DEF StrippedLeaf
  <2>2. QED
    BY ONLY <1>5, <1>13, <2>1, y \in Node DEF Node
<1>16. /\ z \in Node /\ z.perm = r /\ z.slot = s /\ z.ver = ver
       /\ z.kind = y.kind /\ z.height = y.height /\ z.ikeys = y.ikeys /\ z.child = y.child
       /\ z.parent = y.parent /\ z.prev = y.prev /\ z.next = y.next /\ z.lock = y.lock
  <2>1. r \in {w \in Perm : PermOk(w)}
    BY ONLY <1>9 DEF PermOk
  <2>2. QED
    BY ONLY <1>11, <1>14, <1>15, <2>1, y \in Node DEF Node
<1>17. \A m \in 0 .. left - 1 : KeyAt(z, m) = KeyAt(y, m)
  <2>1. SUFFICES ASSUME NEW m \in 0 .. left - 1 PROVE s[At(r, m)] = y.slot[At(q, m)]
    BY <1>1, <1>16 DEF KeyAt
  <2>2. m \in 0 .. W - 1 /\ At(q, m) \in Slot /\ At(r, m) = At(q, m)
    BY ONLY <1>7, <1>9, m \in 0 .. left - 1
  <2>3. CASE split # 0
    BY ONLY <1>11, <2>2, <2>3
  <2>4. CASE split = 0
    <3>1. PICK o \in left .. q.size - 1 : Back(r) = At(q, o)
      BY ONLY <1>9, <1>10, <2>4
    <3>2. o \in 0 .. W - 1 /\ o # m
      BY ONLY <1>7, m \in 0 .. left - 1, o \in left .. q.size - 1
    <3>3. At(q, m) # Back(r)
      BY ONLY <1>7, <2>2, <3>1, <3>2
    <3>4. QED
      BY ONLY <1>11, <2>2, <3>3
  <2>5. QED
    BY ONLY <2>3, <2>4
<1>18. LeafNode(z)
  <2>1. InLeaf(z)
    <3>1. z.perm.size = left /\ z.height = y.height /\ left <= y.perm.size
      BY ONLY <1>1, <1>7, <1>9, <1>16
    <3>2. \A m \in 0 .. left - 1 : m \in 0 .. y.perm.size - 1
      BY ONLY <1>1, <1>7
    <3>3. QED
      BY ONLY <1>6, <1>17, <3>1, <3>2 DEF InLeaf
  <2>2. QED
    BY ONLY <1>9, <1>11, <1>16, <2>1 DEF LeafNode
<1>19. Back(z.perm) # 0 \/ split # 0 => z.slot[0] = y.slot[0]
  <2>1. 0 \in Slot
    BY ONLY <1>7 DEF Slot
  <2>2. QED
    BY ONLY <1>11, <1>16, <2>1
<1>20. split = 0 => \E m \in left .. y.perm.size - 1 : Back(z.perm) = At(y.perm, m)
  BY ONLY <1>1, <1>9, <1>10, <1>16
<1>21. QED
  BY ONLY <1>9, <1>13, <1>16, <1>17, <1>18, <1>19, <1>20 DEF Shed

LEMMA AtStrip ==
  ASSUME NEW lo, NEW hi, TreeIn(lo, hi), NEW t \in Thread, pc[t] = "strip", NEW x, x = loc[t]
  PROVE  /\ Types /\ Parents /\ x \in WritingLocals /\ x.ikey \in Nat /\ x.height \in Nat
         /\ Leaf(x.leaf) /\ Owns(t, x.leaf) /\ x.leaf \in NodeId
         /\ x.n = x.leaf => Half(t, x.n, x.child, x.ikey, x.split, lo, hi)
         /\ x.n # x.leaf => Inner(x.n) /\ Ready(t, x.leaf, lo, hi)
         /\ node[x.n].parent # Nil /\ node[x.child].parent # Nil
         /\ x.p # Nil => Owns(t, x.p) /\ Inner(x.p) /\ node[x.p].lock = t
         /\ x.next = Nil /\ x.p # Nil => ~ node[x.p].ver.splitting
         /\ x.next # Nil => /\ Pair(t, x.p, x.next, x.ikey2, x.height + 1, lo, hi)
                            /\ x.p # Nil /\ Inner(x.next) /\ node[x.next].parent = Nil
                            /\ x.next \in NodeId /\ node[x.next].lock = t
         /\ req[t] # Idle /\ K(t) \in Key
         /\ x.n \in NodeId /\ x.child \in NodeId /\ x.n # x.child /\ x.n # x.p /\ x.child # x.p
         /\ x.next # x.n /\ x.next # x.child /\ x.leaf # x.child /\ x.leaf # x.p /\ x.leaf # x.next
         /\ NodeIn(x.n, lo, hi) /\ NodeIn(x.child, lo, hi)
         /\ lo[x.n] < x.ikey /\ Below(x.ikey, hi[x.child]) /\ hi[x.n] = x.ikey /\ lo[x.child] = x.ikey
         /\ x.child # 1 /\ node[x.n].kind = node[x.child].kind /\ ~ node[x.child].ver.splitting
         /\ node[x.n].lock = t /\ node[x.child].lock = t
         /\ Inner(x.n) => node[x.n].ver.splitting /\ ~ node[x.child].ver.root
<1>1. "strip" \in Splitting /\ "strip" \in WritePc /\ "strip" \notin Climbing
  BY DEF WritePc, Putting, Splitting, Climbing
<1>2. /\ Types /\ Parents /\ Writing(t, lo, hi) /\ x \in WritingLocals /\ Leaf(x.leaf) /\ Owns(t, x.leaf)
      /\ req[t] # Idle /\ K(t) \in Key /\ x.n \in NodeId /\ x.child \in NodeId
      /\ Owns(t, x.n) /\ Owns(t, x.child) /\ x.leaf \in NodeId
  BY <1>1, Climber DEF TreeIn
<1>3. x.ikey \in Nat /\ x.height \in Nat
  BY <1>2 DEF WritingLocals
<1>4. /\ Pair(t, x.n, x.child, x.ikey, x.height, lo, hi)
      /\ x.n = x.leaf => Half(t, x.n, x.child, x.ikey, x.split, lo, hi)
      /\ x.n # x.leaf => Inner(x.n) /\ Ready(t, x.leaf, lo, hi)
      /\ node[x.n].parent # Nil /\ node[x.child].parent # Nil
      /\ x.p # Nil => Owns(t, x.p) /\ Inner(x.p) /\ node[x.p].height = x.height + 1
      /\ x.next = Nil /\ x.p # Nil => ~ node[x.p].ver.splitting
      /\ x.next # Nil => /\ Pair(t, x.p, x.next, x.ikey2, x.height + 1, lo, hi)
                         /\ x.p # Nil /\ Inner(x.next) /\ node[x.next].parent = Nil
  BY <1>1, <1>2 DEF Writing
<1>5. /\ x.n # x.child /\ hi[x.n] = x.ikey /\ lo[x.child] = x.ikey /\ x.child # 1
      /\ node[x.n].height = x.height /\ node[x.child].height = x.height
      /\ node[x.n].kind = node[x.child].kind /\ ~ node[x.child].ver.splitting
      /\ Inner(x.child) => node[x.n].ver.splitting /\ ~ node[x.child].ver.root
  BY <1>4 DEF Pair
<1>6. NodeIn(x.n, lo, hi) /\ NodeIn(x.child, lo, hi)
  BY <1>2 DEF TreeIn
<1>7. Below(lo[x.n], x.ikey) /\ Below(x.ikey, hi[x.child])
  BY <1>5, <1>6 DEF NodeIn
<1>8. lo[x.n] < x.ikey
  BY <1>3, <1>7 DEF Below, Inf
<1>9. node[x.n].lock = t /\ node[x.child].lock = t /\ (x.p # Nil => node[x.p].lock = t)
  BY <1>2, <1>4 DEF Owns
<1>10. x.next # Nil => x.next \in NodeId /\ node[x.next].lock = t /\ node[x.next].height = x.height + 1
  BY <1>4 DEF Pair, Owns
<1>11. x.n # Nil /\ x.child # Nil /\ x.leaf # Nil
  BY <1>2, NodeTypes DEF Nil
<1>12. x.height # x.height + 1
  BY <1>3
<1>13. x.n # x.p /\ x.child # x.p /\ x.next # x.n /\ x.next # x.child
  BY ONLY <1>4, <1>5, <1>10, <1>11, <1>12
<1>14. x.leaf # x.p /\ x.leaf # x.next
  BY ONLY <1>2, <1>4, <1>11 DEF Leaf, Inner
<1>15. Inner(x.n) <=> Inner(x.child)
  BY ONLY <1>2, <1>5 DEF Inner
<1>16. x.leaf # x.child
  BY ONLY <1>2, <1>4, <1>5, <1>15 DEF Leaf, Inner
<1>17. QED
  BY ONLY <1>2, <1>3, <1>4, <1>5, <1>6, <1>7, <1>8, <1>9, <1>10, <1>13, <1>14, <1>15, <1>16

\* Strip releases the left node, n, or the right one, c; zl is where t is then.
Strips(t, x, n, c, leaf2, nl, zl, l) ==
  /\ nl = StrippedLeaf(node[n], K(t), node[c].perm.size, x.split)
  /\ node' = IF n # x.leaf THEN [node EXCEPT ![n] = Unlocked(@), ![c] = Unlocked(@)]
             ELSE IF x.split = 0 THEN [node EXCEPT ![n] = nl, ![c] = Unlocked(@)]
             ELSE [node EXCEPT ![n] = Unlocked(nl)]
  /\ loc' = [loc EXCEPT ![t] = zl] /\ pc' = [pc EXCEPT ![t] = l] /\ UNCHANGED <<root, req, pre>>
  /\ leaf2 = (IF n = x.leaf /\ x.split # 0 THEN c ELSE x.leaf)
  /\ x.next # Nil => /\ l = "parent"
                     /\ zl = [x EXCEPT !.n = x.p, !.child = x.next, !.ikey = x.ikey2, !.ikey2 = 0,
                                       !.height = x.height + 1, !.next = Nil, !.p = Nil, !.leaf = leaf2]
  /\ x.next = Nil => /\ l = IF x.p # Nil THEN "top" ELSE "finish"
                     /\ zl = [WriteLocals(leaf2) EXCEPT !.p = x.p]

LEMMA StripsIs ==
  ASSUME NEW t \in Thread, Strip(t), NEW x, x = loc[t], x \in WritingLocals, NEW n, n = x.n, NEW c, c = x.child
  PROVE  \E leaf2, nl, zl, l : Strips(t, x, n, c, leaf2, nl, zl, l)
<1> DEFINE x0 == loc[t]
           nl0 == StrippedLeaf(node[x0.n], K(t), node[x0.child].perm.size, x0.split)
           up0 == [x0 EXCEPT !.n = x0.p, !.child = x0.next, !.ikey = x0.ikey2, !.ikey2 = 0,
                             !.height = @ + 1, !.next = Nil, !.p = Nil,
                             !.leaf = IF x0.n = x0.leaf /\ x0.split # 0 THEN x0.child ELSE @]
           top0 == [WriteLocals(up0.leaf) EXCEPT !.p = x0.p]
           zl0 == IF x0.next # Nil THEN up0 ELSE top0
           l0 == IF x0.next # Nil THEN "parent" ELSE IF x0.p # Nil THEN "top" ELSE "finish"
           leaf0 == IF x0.n = x0.leaf /\ x0.split # 0 THEN x0.child ELSE x0.leaf
<1>1. node' = IF x0.n # x0.leaf THEN [node EXCEPT ![x0.n] = Unlocked(@), ![x0.child] = Unlocked(@)]
              ELSE IF x0.split = 0 THEN [node EXCEPT ![x0.n] = nl0, ![x0.child] = Unlocked(@)]
              ELSE [node EXCEPT ![x0.n] = Unlocked(nl0)]
  BY ONLY Strip(t), Zenon DEF Strip
<1>2. loc' = [loc EXCEPT ![t] = zl0]
  BY ONLY Strip(t), Zenon DEF Strip
<1>3. pc' = [pc EXCEPT ![t] = l0] /\ UNCHANGED <<root, req, pre>>
  BY ONLY Strip(t), Zenon DEF Strip, Goto
<1>4. x0 = x /\ x0 \in WritingLocals
  OBVIOUS
<1>5. up0.leaf = leaf0 /\ up0 = [x0 EXCEPT !.n = x0.p, !.child = x0.next, !.ikey = x0.ikey2, !.ikey2 = 0,
                                   !.height = x0.height + 1, !.next = Nil, !.p = Nil, !.leaf = leaf0]
  <2> HIDE DEF x0
  <2> QED
    BY ONLY <1>4 DEF WritingLocals
<1>6. PICK leaf2, nl, zl, l, up : leaf2 = leaf0 /\ nl = nl0 /\ zl = zl0 /\ l = l0 /\ up = up0
  <2> HIDE DEF leaf0, nl0, zl0, l0, up0
  <2> QED
    BY ONLY Zenon
<1>7. zl = (IF x.next # Nil THEN up ELSE [WriteLocals(leaf2) EXCEPT !.p = x.p])
      /\ l = (IF x.next # Nil THEN "parent" ELSE IF x.p # Nil THEN "top" ELSE "finish")
  <2> HIDE DEF x0, leaf0, up0
  <2> QED
    BY ONLY <1>4, <1>5, <1>6
<1>8. up = [x EXCEPT !.n = x.p, !.child = x.next, !.ikey = x.ikey2, !.ikey2 = 0,
                     !.height = x.height + 1, !.next = Nil, !.p = Nil, !.leaf = leaf2]
  <2> HIDE DEF x0, leaf0, up0
  <2> QED
    BY ONLY <1>4, <1>5, <1>6
<1>9. leaf2 = (IF n = x.leaf /\ x.split # 0 THEN c ELSE x.leaf)
  BY ONLY <1>6, n = x.n, c = x.child, x = loc[t]
<1>10. nl = StrippedLeaf(node[n], K(t), node[c].perm.size, x.split)
  BY ONLY <1>6, n = x.n, c = x.child, x = loc[t]
<1>11. node' = IF n # x.leaf THEN [node EXCEPT ![n] = Unlocked(@), ![c] = Unlocked(@)]
              ELSE IF x.split = 0 THEN [node EXCEPT ![n] = nl, ![c] = Unlocked(@)]
              ELSE [node EXCEPT ![n] = Unlocked(nl)]
  <2> HIDE DEF x0, nl0
  <2>1. n = x0.n /\ c = x0.child /\ nl = nl0
    BY <1>4, <1>6
  <2>2. QED
    BY ONLY <1>1, <1>4, <2>1
<1>12. loc' = [loc EXCEPT ![t] = zl] /\ pc' = [pc EXCEPT ![t] = l] /\ UNCHANGED <<root, req, pre>>
  <2> HIDE DEF zl0, l0
  <2> QED
    BY ONLY <1>2, <1>3, <1>6
<1>13. Strips(t, x, n, c, leaf2, nl, zl, l)
  BY ONLY <1>7, <1>8, <1>9, <1>10, <1>11, <1>12 DEF Strips
<1>14. QED
  BY ONLY <1>13

\* What becomes of the right node y of a split, and of the left one.
Freed(y, z, t) ==
  /\ z \in Node /\ SameBody(y, z) /\ z.parent = y.parent /\ z.prev = y.prev
  /\ ~ z.ver.splitting /\ z.ver.vsplit = y.ver.vsplit /\ z.ver.root = y.ver.root /\ VLeq(y.ver, z.ver)
  /\ z.ver.vinsert = y.ver.vinsert /\ ~ z.ver.inserting => ~ y.ver.inserting
  /\ z.lock \in {t, NoThread} /\ (z.ver.inserting => z.lock = t)
Cleared(y, z, t) ==
  /\ z \in Node /\ z.kind = y.kind /\ z.height = y.height /\ z.ikeys = y.ikeys /\ z.child = y.child
  /\ z.parent = y.parent /\ z.prev = y.prev /\ z.next = y.next
  /\ VLeq(y.ver, z.ver) /\ (z.ver.splitting \/ z.ver.vsplit # y.ver.vsplit) /\ (z.ver.splitting \/ ~ z.ver.root)
  /\ z.lock \in {t, NoThread} /\ (z.ver.inserting \/ z.ver.splitting => z.lock = t)

LEMMA FreedIs ==
  ASSUME NEW y \in Node, NEW t, y.lock = t, ~ y.ver.splitting, NEW z \in {y, Unlocked(y)}
  PROVE  Freed(y, z, t)
<1>1. y.ver.vsplit \in Nat /\ y.ver.vinsert \in Nat
  BY NodeFields, VersionFields
<1>2. PICK w : w = Unlocked(y)
  OBVIOUS
<1>3. /\ w \in Node /\ SameBody(y, w) /\ w.parent = y.parent /\ w.prev = y.prev
      /\ w.lock = NoThread /\ ~ w.ver.inserting /\ ~ w.ver.splitting
      /\ w.ver.vsplit = y.ver.vsplit /\ w.ver.root = y.ver.root
      /\ w.ver.vinsert = y.ver.vinsert + IF y.ver.inserting THEN 1 ELSE 0
  BY <1>2, UnlockedIs
<1>4. CASE z = w
  BY ONLY <1>1, <1>3, <1>4 DEF Freed, VLeq
<1>5. CASE z = y
  BY <1>1, <1>5 DEF Freed, VLeq, SameBody
<1>6. QED
  BY <1>2, <1>4, <1>5

LEMMA ClearedIs ==
  ASSUME NEW y \in Node, NEW w \in Node, NEW t, w.lock = t, w.ver.splitting,
         w.kind = y.kind, w.height = y.height, w.ikeys = y.ikeys, w.child = y.child, w.parent = y.parent,
         w.prev = y.prev, w.next = y.next, w.ver.vsplit = y.ver.vsplit, w.ver.vinsert = y.ver.vinsert,
         NEW z \in {w, Unlocked(w)}
  PROVE  Cleared(y, z, t) /\ z.perm = w.perm /\ z.slot = w.slot
<1>1. y.ver.vsplit \in Nat /\ y.ver.vinsert \in Nat
  BY NodeFields, VersionFields
<1>2. PICK u : u = Unlocked(w)
  OBVIOUS
<1>3. /\ u \in Node /\ SameBody(w, u) /\ u.parent = w.parent /\ u.prev = w.prev
      /\ u.lock = NoThread /\ ~ u.ver.inserting /\ ~ u.ver.splitting
      /\ u.ver.vsplit = w.ver.vsplit + 1 /\ ~ u.ver.root
  BY <1>2, UnlockedIs
<1>4. CASE z = u
  <2>1. VLeq(y.ver, u.ver) /\ u.ver.vsplit # y.ver.vsplit
    BY ONLY <1>1, <1>3, w.ver.vsplit = y.ver.vsplit DEF VLeq
  <2>2. QED
    BY <1>3, <1>4, <2>1 DEF Cleared, SameBody
<1>5. CASE z = w
  BY <1>1, <1>5 DEF Cleared, VLeq
<1>6. QED
  BY <1>2, <1>4, <1>5

\* All that Strip does to the nodes.
Parting(t, x, n, c, left, leaf2, zl, l) ==
  /\ loc' = [loc EXCEPT ![t] = zl] /\ pc' = [pc EXCEPT ![t] = l] /\ UNCHANGED <<root, req, pre>>
  /\ node' \in Seq(Node) /\ NodeId' = NodeId /\ \A u \in NodeId \ {n, c} : node'[u] = node[u]
  /\ Cleared(node[n], node'[n], t) /\ Freed(node[c], node'[c], t)
  /\ n # x.leaf => node'[n].lock = NoThread
  /\ n = x.leaf => \E nl : /\ Shed(node[n], left, x.split, nl) /\ nl.lock = t
                           /\ node'[n].perm = nl.perm /\ node'[n].slot = nl.slot
                           /\ x.split = 0 => node'[n] = nl
  /\ n = x.leaf /\ x.split # 0 => node'[c] = node[c]
  /\ left = node[n].perm.size - node[c].perm.size
  /\ leaf2 = (IF n = x.leaf /\ x.split # 0 THEN c ELSE x.leaf)
  /\ x.next # Nil => /\ l = "parent"
                     /\ zl = [x EXCEPT !.n = x.p, !.child = x.next, !.ikey = x.ikey2, !.ikey2 = 0,
                                       !.height = x.height + 1, !.next = Nil, !.p = Nil, !.leaf = leaf2]
  /\ x.next = Nil => /\ l = IF x.p # Nil THEN "top" ELSE "finish"
                     /\ zl = [WriteLocals(leaf2) EXCEPT !.p = x.p]

LEMMA PartingIs ==
  ASSUME NEW lo, NEW hi, TreeIn(lo, hi), NEW t \in Thread, Strip(t), pc[t] = "strip",
         NEW x, x = loc[t], NEW n, n = x.n, NEW c, c = x.child
  PROVE  \E left, leaf2, zl, l : Parting(t, x, n, c, left, leaf2, zl, l)
<1>1. /\ Types /\ x \in WritingLocals /\ n \in NodeId /\ c \in NodeId /\ n # c
      /\ n = x.leaf => Leaf(n) /\ Half(t, n, c, x.ikey, x.split, lo, hi)
      /\ n # x.leaf => Inner(n)
      /\ node[n].lock = t /\ node[c].lock = t /\ ~ node[c].ver.splitting
      /\ Inner(n) => node[n].ver.splitting
      /\ K(t) \in Key /\ NodeIn(n, lo, hi)
  BY AtStrip
<1>2. PICK leaf2, nl, zl, l : Strips(t, x, n, c, leaf2, nl, zl, l)
  BY <1>1, StripsIs
<1>3. /\ nl = StrippedLeaf(node[n], K(t), node[c].perm.size, x.split)
      /\ node' = IF n # x.leaf THEN [node EXCEPT ![n] = Unlocked(@), ![c] = Unlocked(@)]
                 ELSE IF x.split = 0 THEN [node EXCEPT ![n] = nl, ![c] = Unlocked(@)]
                 ELSE [node EXCEPT ![n] = Unlocked(nl)]
      /\ loc' = [loc EXCEPT ![t] = zl] /\ pc' = [pc EXCEPT ![t] = l] /\ UNCHANGED <<root, req, pre>>
      /\ leaf2 = (IF n = x.leaf /\ x.split # 0 THEN c ELSE x.leaf)
      /\ x.next # Nil => /\ l = "parent"
                         /\ zl = [x EXCEPT !.n = x.p, !.child = x.next, !.ikey = x.ikey2, !.ikey2 = 0,
                                           !.height = x.height + 1, !.next = Nil, !.p = Nil, !.leaf = leaf2]
      /\ x.next = Nil => /\ l = IF x.p # Nil THEN "top" ELSE "finish"
                         /\ zl = [WriteLocals(leaf2) EXCEPT !.p = x.p]
  BY ONLY <1>2, Zenon DEF Strips
<1>4. PICK left : left = node[n].perm.size - node[c].perm.size
  OBVIOUS
<1>5. node[n] \in Node /\ node[c] \in Node
  BY <1>1, NodeTypes
<1>6. PICK y, r : y = node[n] /\ r = node[c]
  OBVIOUS
<1>7. n = x.leaf => Shed(y, left, x.split, nl)
  <2>1. SUFFICES ASSUME n = x.leaf PROVE Shed(y, left, x.split, nl)
    OBVIOUS
  <2>2. left \in 0 .. y.perm.size /\ (x.split = 0 => left < y.perm.size)
    <3>1. Half(t, n, c, x.ikey, x.split, lo, hi)
      BY <1>1, <2>1
    <3>2. QED
      BY ONLY <1>4, <1>6, <3>1 DEF Half
  <2>3. LeafNode(y)
    BY <1>1, <1>5, <1>6, <2>1, NodeFields DEF LeafNode, NodeIn
  <2>4. PICK nr : nr = node[c].perm.size
    OBVIOUS
  <2>5. left = y.perm.size - nr /\ nl = StrippedLeaf(y, K(t), nr, x.split) /\ K(t) \in Key /\ y \in Node
    BY ONLY <1>1, <1>3, <1>4, <1>5, <1>6, <2>4
  <2>6. QED
    BY ONLY <2>2, <2>3, <2>5, StrippedIs
<1>8. PICK a, b : a = Unlocked(y) /\ b = Unlocked(r)
  OBVIOUS
<1>9. PICK d : d = Unlocked(nl)
  OBVIOUS
<1>10. /\ n # x.leaf => node' = [node EXCEPT ![n] = a, ![c] = b]
       /\ n = x.leaf /\ x.split = 0 => node' = [node EXCEPT ![n] = nl, ![c] = b]
       /\ n = x.leaf /\ x.split # 0 => node' = [node EXCEPT ![n] = d]
  <2>1. Unlocked(node[n]) = a /\ Unlocked(node[c]) = b
    BY ONLY <1>6, <1>8
  <2>2. node \in Seq(Node) /\ n \in NodeId /\ c \in NodeId /\ n # c
    BY <1>1 DEF Types
  <2>3. n # x.leaf => node' = [node EXCEPT ![n] = Unlocked(node[n]), ![c] = Unlocked(node[c])]
    BY ONLY <1>3, <2>2
  <2>4. n = x.leaf /\ x.split = 0 => node' = [node EXCEPT ![n] = nl, ![c] = Unlocked(node[c])]
    BY ONLY <1>3, <2>2
  <2>5. QED
    BY ONLY <1>3, <1>9, <2>1, <2>3, <2>4
<1>11. PICK n2, c2 : n2 = (IF n # x.leaf THEN a ELSE IF x.split = 0 THEN nl ELSE d)
                     /\ c2 = (IF n = x.leaf /\ x.split # 0 THEN r ELSE b)
  OBVIOUS
<1>12. Freed(r, c2, t)
  BY <1>1, <1>5, <1>6, <1>8, <1>11, FreedIs
<1>13. /\ Cleared(y, n2, t)
       /\ n = x.leaf => n2.perm = nl.perm /\ n2.slot = nl.slot /\ nl.lock = t
       /\ n # x.leaf => n2.lock = NoThread
  <2>1. CASE n # x.leaf
    <3>1. y \in Node /\ y.lock = t /\ y.ver.splitting
      BY <1>1, <1>5, <1>6, <2>1
    <3>2. n2 \in {y, Unlocked(y)} /\ n2 = Unlocked(y)
      BY ONLY <1>8, <1>11, <2>1
    <3>3. Cleared(y, n2, t)
      BY ONLY <3>1, <3>2, ClearedIs
    <3>4. n2.lock = NoThread
      BY <3>1, <3>2, UnlockedIs
    <3>5. QED
      BY <2>1, <3>3, <3>4
  <2>2. CASE n = x.leaf
    <3>1. Shed(y, left, x.split, nl)
      BY <1>7, <2>2
    <3>2. /\ nl \in Node
          /\ nl.kind = y.kind /\ nl.height = y.height /\ nl.ikeys = y.ikeys /\ nl.child = y.child /\ nl.parent = y.parent
          /\ nl.prev = y.prev /\ nl.next = y.next /\ nl.lock = y.lock /\ nl.ver = [y.ver EXCEPT !.splitting = TRUE]
      BY ONLY <3>1 DEF Shed
    <3>3. y.lock = t /\ y \in Node /\ y.ver \in Version
      BY <1>1, <1>5, <1>6, NodeFields
    <3>4. nl.ver.splitting /\ nl.ver.vsplit = y.ver.vsplit /\ nl.ver.vinsert = y.ver.vinsert
      BY ONLY <3>2, <3>3 DEF Version
    <3>5. n2 \in {nl, Unlocked(nl)}
      BY ONLY <1>9, <1>11, <2>2
    <3>6. nl.lock = t
      BY ONLY <3>2, <3>3
    <3>7. Cleared(y, n2, t) /\ n2.perm = nl.perm /\ n2.slot = nl.slot
      BY ONLY <3>2, <3>3, <3>4, <3>5, <3>6, ClearedIs
    <3>8. QED
      BY <2>2, <3>6, <3>7
  <2>3. QED
    BY <2>1, <2>2
<1>14. /\ node' \in Seq(Node) /\ NodeId' = NodeId /\ node'[n] = n2 /\ node'[c] = c2
       /\ \A u \in NodeId \ {n, c} : node'[u] = node[u]
  <2>1. node' = [node EXCEPT ![n] = n2, ![c] = c2]
    <3>1. node \in Seq(Node) /\ n \in NodeId /\ c \in NodeId /\ n # c /\ r = node[c]
      BY <1>1, <1>6 DEF Types
    <3>2. [node EXCEPT ![n] = d] = [node EXCEPT ![n] = d, ![c] = r]
      BY ONLY <3>1
    <3>3. QED
      BY ONLY <1>10, <1>11, <3>2
  <2>2. n2 \in Node /\ c2 \in Node
    BY <1>12, <1>13 DEF Freed, Cleared
  <2>3. node \in Seq(Node) /\ n \in DOMAIN node /\ c \in DOMAIN node /\ n # c
    BY <1>1 DEF Types, NodeId
  <2>4. PICK m : m = [node EXCEPT ![n] = n2]
    OBVIOUS
  <2>5. m \in Seq(Node) /\ DOMAIN m = DOMAIN node /\ m[n] = n2 /\ \A u \in DOMAIN node \ {n} : m[u] = node[u]
    BY ONLY <2>2, <2>3, <2>4
  <2>6. node' = [m EXCEPT ![c] = c2]
    BY ONLY <2>1, <2>4
  <2>7. node' \in Seq(Node) /\ DOMAIN node' = DOMAIN m /\ node'[c] = c2 /\ \A u \in DOMAIN m \ {c} : node'[u] = m[u]
    BY ONLY <2>2, <2>3, <2>5, <2>6
  <2>8. QED
    BY ONLY <2>3, <2>5, <2>7 DEF NodeId
<1>15. /\ Cleared(node[n], node'[n], t) /\ Freed(node[c], node'[c], t)
       /\ n # x.leaf => node'[n].lock = NoThread
       /\ n = x.leaf => /\ Shed(node[n], left, x.split, nl) /\ nl.lock = t
                        /\ node'[n].perm = nl.perm /\ node'[n].slot = nl.slot
                        /\ x.split = 0 => node'[n] = nl
       /\ n = x.leaf /\ x.split # 0 => node'[c] = node[c]
  BY ONLY <1>6, <1>7, <1>11, <1>12, <1>13, <1>14
<1>16. Parting(t, x, n, c, left, leaf2, zl, l)
  BY ONLY <1>3, <1>4, <1>14, <1>15, Zenon DEF Parting
<1>17. QED
  BY ONLY <1>16

\* Where t goes on: one level up, or at the end of the climb.
Goes(t, x, leaf2, zl, l) ==
  /\ zl \in WritingLocals /\ zl \in AllLocals /\ zl.leaf = leaf2 /\ leaf2 \in NodeId /\ Leaf(leaf2)
  /\ x.next # Nil => /\ l = "parent" /\ zl.n = x.p /\ zl.child = x.next /\ zl.ikey = x.ikey2
                     /\ zl.height = x.height + 1 /\ leaf2 # x.p
  /\ x.next = Nil => l \in {"top", "finish"} /\ zl.p = x.p /\ (l = "top" => x.p # Nil)
  /\ Types' /\ pc'[t] = l /\ loc'[t] = zl
  /\ \A u \in Thread \ {t} : pc'[u] = pc[u] /\ loc'[u] = loc[u] /\ req'[u] = req[u]

LEMMA PartingAt ==
  ASSUME NEW lo, NEW hi, TreeIn(lo, hi), NEW t \in Thread, pc[t] = "strip",
         NEW x, x = loc[t], NEW n, n = x.n, NEW c, c = x.child,
         NEW left, NEW leaf2, NEW zl, NEW l, Parting(t, x, n, c, left, leaf2, zl, l)
  PROVE  Goes(t, x, leaf2, zl, l)
<1>1. /\ loc' = [loc EXCEPT ![t] = zl] /\ pc' = [pc EXCEPT ![t] = l] /\ UNCHANGED <<root, req, pre>>
      /\ node' \in Seq(Node) /\ NodeId' = NodeId
      /\ leaf2 = (IF n = x.leaf /\ x.split # 0 THEN c ELSE x.leaf)
      /\ x.next # Nil => /\ l = "parent"
                         /\ zl = [x EXCEPT !.n = x.p, !.child = x.next, !.ikey = x.ikey2, !.ikey2 = 0,
                                           !.height = x.height + 1, !.next = Nil, !.p = Nil, !.leaf = leaf2]
      /\ x.next = Nil => /\ l = IF x.p # Nil THEN "top" ELSE "finish"
                         /\ zl = [WriteLocals(leaf2) EXCEPT !.p = x.p]
  BY ONLY Parting(t, x, n, c, left, leaf2, zl, l), Zenon DEF Parting
<1>2. /\ Types /\ x \in WritingLocals /\ Leaf(x.leaf) /\ x.leaf \in NodeId /\ c \in NodeId /\ n \in NodeId
      /\ n = x.leaf => Half(t, n, c, x.ikey, x.split, lo, hi)
      /\ x.next # Nil => Inner(x.p)
  BY AtStrip
<1>3. Leaf(leaf2) /\ leaf2 \in NodeId
  <2>1. n = x.leaf => Leaf(c)
    BY <1>2 DEF Half
  <2>2. QED
    BY ONLY <1>1, <1>2, <2>1
<1>4. leaf2 \in Nat
  BY <1>2, <1>3, NodeTypes
<1>5. x.next # Nil => /\ zl \in WritingLocals /\ zl.leaf = leaf2 /\ zl.n = x.p /\ zl.child = x.next /\ zl.ikey = x.ikey2
                      /\ zl.height = x.height + 1
  <2>1. SUFFICES ASSUME x.next # Nil
                 PROVE  /\ zl \in WritingLocals /\ zl.leaf = leaf2 /\ zl.n = x.p /\ zl.child = x.next /\ zl.ikey = x.ikey2
                        /\ zl.height = x.height + 1
    OBVIOUS
  <2>2. PICK a, b, i, h : a = x.p /\ b = x.next /\ i = x.ikey2 /\ h = x.height + 1
    OBVIOUS
  <2>3. a \in Nat /\ b \in Nat /\ i \in Nat /\ h \in Nat /\ x \in WritingLocals
    BY <1>2, <2>2 DEF WritingLocals
  <2>4. zl = [x EXCEPT !.n = a, !.child = b, !.ikey = i, !.ikey2 = 0, !.height = h, !.next = 0, !.p = 0, !.leaf = leaf2]
    BY ONLY <1>1, <2>1, <2>2 DEF Nil
  <2>5. zl \in WritingLocals /\ zl.leaf = leaf2 /\ zl.n = a /\ zl.child = b /\ zl.ikey = i /\ zl.height = h
    BY ONLY <1>4, <2>3, <2>4 DEF WritingLocals
  <2>6. QED
    BY ONLY <2>2, <2>5
<1>6. x.next = Nil => zl \in WritingLocals /\ zl.leaf = leaf2 /\ zl.p = x.p
  <2>1. x.p \in Nat
    BY <1>2 DEF WritingLocals
  <2>2. QED
    BY ONLY <1>1, <1>4, <2>1 DEF WriteLocals, WritingLocals, Nil
<1>7. zl \in WritingLocals /\ zl \in AllLocals /\ zl.leaf = leaf2
  BY ONLY <1>5, <1>6 DEF AllLocals
<1>8. /\ x.next # Nil => l = "parent"
      /\ x.next = Nil => l \in {"top", "finish"} /\ (l = "top" => x.p # Nil)
  BY ONLY <1>1
<1>9. l \in AllPc
  BY ONLY <1>8 DEF AllPc, WritePc, Putting, Splitting, Climbing
<1>10. /\ Types' /\ pc'[t] = l /\ loc'[t] = zl
       /\ \A u \in Thread \ {t} : pc'[u] = pc[u] /\ loc'[u] = loc[u] /\ req'[u] = req[u]
  <2>1. /\ loc' = [loc EXCEPT ![t] = zl] /\ pc' = [pc EXCEPT ![t] = l] /\ req' = req /\ pre' = pre
        /\ node' \in Seq(Node) /\ NodeId \subseteq NodeId' /\ Types
    BY ONLY <1>1, <1>2
  <2>2. QED
    BY ONLY t \in Thread, <1>7, <1>9, <2>1, Moves
<1>11. x.next # Nil => leaf2 # x.p
  BY ONLY <1>2, <1>3 DEF Leaf, Inner
<1>12. QED
  BY ONLY <1>3, <1>5, <1>6, <1>7, <1>8, <1>10, <1>11 DEF Goes

LEMMA PartingView ==
  ASSUME NEW lo, NEW hi, TreeIn(lo, hi), NEW t \in Thread, pc[t] = "strip",
         NEW x, x = loc[t], NEW n, n = x.n, NEW c, c = x.child,
         NEW left, NEW leaf2, NEW zl, NEW l, Parting(t, x, n, c, left, leaf2, zl, l)
  PROVE  /\ \A y \in NodeId : SepHi(y, hi)' = SepHi(y, hi) /\ (NewRight(y)' <=> NewRight(y))
         /\ \A y \in NodeId \ {n} : ReadHi(y, hi)' = ReadHi(y, hi)
         /\ ReadHi(n, hi)' = hi[n]
<1>1. /\ zl.leaf = leaf2 /\ leaf2 \in NodeId
      /\ x.next # Nil => l = "parent" /\ zl.n = x.p /\ zl.child = x.next /\ leaf2 # x.p
      /\ x.next = Nil => l \in {"top", "finish"}
      /\ pc'[t] = l /\ loc'[t] = zl
      /\ \A u \in Thread \ {t} : pc'[u] = pc[u] /\ loc'[u] = loc[u] /\ req'[u] = req[u]
  <2>1. Goes(t, x, leaf2, zl, l)
    BY PartingAt
  <2>2. QED
    BY ONLY <2>1, Zenon DEF Goes
<1>2. /\ NodeId' = NodeId /\ (\A u \in NodeId \ {n, c} : node'[u] = node[u])
      /\ Cleared(node[n], node'[n], t) /\ Freed(node[c], node'[c], t)
  BY ONLY Parting(t, x, n, c, left, leaf2, zl, l), Zenon DEF Parting
<1>3. node'[n].lock \in {t, NoThread} /\ node'[c].lock \in {t, NoThread}
  BY ONLY <1>2 DEF Cleared, Freed
<1>4. /\ n \in NodeId /\ c \in NodeId /\ n # c /\ node[n].lock = t /\ node[c].lock = t /\ n # x.p /\ c # x.p
      /\ x.next # n /\ x.next # c
      /\ Types
  BY AtStrip
<1>5. "strip" \in Splitting /\ "strip" \notin Climbing /\ "parent" \in Climbing /\ "parent" \in Splitting /\ "parent" # "strip"
      /\ "top" \notin Splitting /\ "finish" \notin Splitting
  BY DEF Splitting, Climbing
<1>6. \A y \in NodeId : y # Nil
  BY <1>4, NodeTypes DEF Nil
<1>7. ASSUME NEW y \in NodeId, node[y].lock # t
      PROVE  /\ SepHi(y, hi)' = SepHi(y, hi) /\ ReadHi(y, hi)' = ReadHi(y, hi) /\ (NewRight(y)' <=> NewRight(y))
  <2>1. y # n /\ y # c
    BY <1>4, <1>7
  <2>2. node'[y].lock = node[y].lock
    BY <1>2, <2>1
  <2>3. QED
    BY <1>1, <1>7, <2>2, ViewKept
<1>8. ASSUME NEW y \in NodeId, node[y].lock = t
      PROVE  /\ SepHi(y, hi)' = SepHi(y, hi) /\ (NewRight(y)' <=> NewRight(y))
             /\ y # n => ReadHi(y, hi)' = ReadHi(y, hi)
             /\ y = n => ReadHi(y, hi)' = hi[n]
  <2>1. /\ x.next # Nil /\ x.p = y => SepHi(y, hi) = hi[x.next]
        /\ ~ (x.next # Nil /\ x.p = y) => SepHi(y, hi) = hi[y]
        /\ y # n => ReadHi(y, hi) = hi[y]
        /\ NewRight(y) <=> x.next = y
    <3>1. /\ SepHi(y, hi) = IF pc[t] \in Climbing /\ loc[t].n = y THEN hi[loc[t].child]
                           ELSE IF pc[t] = "strip" /\ loc[t].next # Nil /\ loc[t].p = y THEN hi[loc[t].next]
                           ELSE hi[y]
          /\ ReadHi(y, hi) = IF pc[t] \in Splitting /\ loc[t].n = y /\ loc[t].leaf = y THEN hi[loc[t].child]
                            ELSE hi[y]
          /\ NewRight(y) <=> \/ pc[t] \in Climbing /\ loc[t].child = y
                             \/ pc[t] = "strip" /\ loc[t].next = y
      BY <1>8, OwnView
    <3>2. pc[t] = "strip" /\ pc[t] \notin Climbing /\ x = loc[t] /\ n = x.n
      BY <1>5
    <3>3. NewRight(y) <=> x.next = y
      BY ONLY <3>1, <3>2
    <3>4. y # n => ReadHi(y, hi) = hi[y]
      BY ONLY <3>1, <3>2
    <3>5. PICK a, b : a = hi[y] /\ b = hi[x.next]
      OBVIOUS
    <3>6. SepHi(y, hi) = IF x.next # Nil /\ x.p = y THEN b ELSE a
      BY ONLY <3>1, <3>2, <3>5
    <3>7. QED
      BY ONLY <3>3, <3>4, <3>5, <3>6
  <2>2. CASE node'[y].lock = t
    <3>1. /\ SepHi(y, hi)' = IF pc'[t] \in Climbing /\ loc'[t].n = y THEN hi[loc'[t].child]
                            ELSE IF pc'[t] = "strip" /\ loc'[t].next # Nil /\ loc'[t].p = y THEN hi[loc'[t].next]
                            ELSE hi[y]
          /\ ReadHi(y, hi)' = IF pc'[t] \in Splitting /\ loc'[t].n = y /\ loc'[t].leaf = y THEN hi[loc'[t].child]
                             ELSE hi[y]
          /\ NewRight(y)' <=> \/ pc'[t] \in Climbing /\ loc'[t].child = y
                              \/ pc'[t] = "strip" /\ loc'[t].next = y
      BY <2>2, OwnNext
    <3>2. CASE x.next # Nil
      <4>1. /\ pc'[t] \in Climbing /\ pc'[t] # "strip" /\ loc'[t].n = x.p /\ loc'[t].child = x.next
            /\ loc'[t].leaf = leaf2 /\ leaf2 # x.p
        BY <1>1, <1>5, <3>2
      <4>2. NewRight(y)' <=> x.next = y
        <5>1. NewRight(y)' <=> \/ pc'[t] \in Climbing /\ loc'[t].child = y
                               \/ pc'[t] = "strip" /\ loc'[t].next = y
          BY ONLY <3>1
        <5>2. QED
          BY ONLY <4>1, <5>1
      <4>3. ReadHi(y, hi)' = hi[y]
        <5>1. ~ (pc'[t] \in Splitting /\ loc'[t].n = y /\ loc'[t].leaf = y)
          BY ONLY <4>1
        <5>2. QED
          BY ONLY <3>1, <5>1
      <4>4. SepHi(y, hi)' = SepHi(y, hi)
        <5>1. CASE x.p = y
          <6>1. SepHi(y, hi)' = hi[loc'[t].child]
            BY ONLY <3>1, <4>1, <5>1
          <6>2. QED
            BY ONLY <2>1, <3>2, <4>1, <5>1, <6>1
        <5>2. CASE x.p # y
          <6>1. ~ (pc'[t] \in Climbing /\ loc'[t].n = y) /\ ~ (pc'[t] = "strip" /\ loc'[t].next # Nil /\ loc'[t].p = y)
            BY ONLY <4>1, <5>2
          <6>2. SepHi(y, hi)' = hi[y]
            BY ONLY <3>1, <6>1
          <6>3. QED
            BY ONLY <2>1, <5>2, <6>2
        <5>3. QED
          BY <5>1, <5>2
      <4>5. QED
        BY ONLY <2>1, <4>2, <4>3, <4>4
    <3>3. CASE x.next = Nil
      <4>1. pc'[t] \notin Climbing /\ pc'[t] \notin Splitting /\ pc'[t] # "strip" /\ x.next # y
        BY <1>1, <1>5, <1>6, <3>3 DEF Climbing, Splitting
      <4>2. SepHi(y, hi)' = hi[y] /\ ReadHi(y, hi)' = hi[y] /\ ~ NewRight(y)'
        BY <2>2, <4>1, IdleNext
      <4>3. QED
        BY ONLY <2>1, <3>3, <4>1, <4>2
    <3>4. QED
      BY <3>2, <3>3
  <2>3. CASE node'[y].lock # t
    <3>1. y \in {n, c}
      BY ONLY <1>2, <1>8, <2>3, y \in NodeId
    <3>2. node'[y].lock \notin Thread
      BY <1>3, <2>3, <3>1, ThreadAssumption
    <3>3. SepHi(y, hi)' = hi[y] /\ ReadHi(y, hi)' = hi[y] /\ ~ NewRight(y)'
      BY <3>2, FreeNext
    <3>4. QED
      BY ONLY <1>4, <2>1, <3>1, <3>3
  <2>4. QED
    BY <2>2, <2>3
<1>9. QED
  BY <1>4, <1>7, <1>8

\* The two nodes of a split, and what the others see of it.
LEMMA PartingFrame ==
  ASSUME NEW lo, NEW hi, TreeIn(lo, hi), NEW t \in Thread, pc[t] = "strip",
         NEW x, x = loc[t], NEW n, n = x.n, NEW c, c = x.child,
         NEW left, NEW leaf2, NEW zl, NEW l, Parting(t, x, n, c, left, leaf2, zl, l)
  PROVE  /\ Frame(t, {n, c}, lo, hi, lo, hi) /\ Parents' /\ NodeIn(c, lo, hi)'
         /\ n # x.leaf => NodeIn(n, lo, hi)'
<1>1. /\ NodeId' = NodeId /\ (\A u \in NodeId \ {n, c} : node'[u] = node[u])
      /\ Cleared(node[n], node'[n], t) /\ Freed(node[c], node'[c], t)
      /\ n # x.leaf => node'[n].lock = NoThread
  BY ONLY Parting(t, x, n, c, left, leaf2, zl, l), Zenon DEF Parting
<1>2. /\ SameBody(node[c], node'[c]) /\ node'[c].parent = node[c].parent /\ node'[c].prev = node[c].prev
      /\ ~ node'[c].ver.splitting /\ node'[c].ver.vsplit = node[c].ver.vsplit /\ node'[c].ver.root = node[c].ver.root
      /\ VLeq(node[c].ver, node'[c].ver)
      /\ node'[c].ver.vinsert = node[c].ver.vinsert /\ ~ node'[c].ver.inserting => ~ node[c].ver.inserting
      /\ node'[c].lock \in {t, NoThread} /\ (node'[c].ver.inserting => node'[c].lock = t)
  BY ONLY <1>1 DEF Freed
<1>3. /\ node'[n].kind = node[n].kind /\ node'[n].height = node[n].height
      /\ node'[n].ikeys = node[n].ikeys /\ node'[n].child = node[n].child
      /\ node'[n].parent = node[n].parent /\ node'[n].prev = node[n].prev /\ node'[n].next = node[n].next
      /\ VLeq(node[n].ver, node'[n].ver)
      /\ node'[n].ver.splitting \/ node'[n].ver.vsplit # node[n].ver.vsplit
      /\ node'[n].ver.splitting \/ ~ node'[n].ver.root
      /\ node'[n].lock \in {t, NoThread} /\ (node'[n].ver.inserting \/ node'[n].ver.splitting => node'[n].lock = t)
  BY ONLY <1>1 DEF Cleared
<1>4. /\ Types /\ Parents /\ n \in NodeId /\ c \in NodeId /\ n # c /\ node[n].lock = t /\ node[c].lock = t
      /\ node[n].parent # Nil /\ node[c].parent # Nil /\ NodeIn(n, lo, hi) /\ NodeIn(c, lo, hi)
      /\ c # 1 /\ ~ node[c].ver.splitting
      /\ node[n].kind = node[c].kind /\ (Inner(n) => node[n].ver.splitting /\ ~ node[c].ver.root)
      /\ n # x.leaf => Inner(n)
  BY AtStrip
<1>5. /\ \A y \in NodeId : SepHi(y, hi)' = SepHi(y, hi) /\ (NewRight(y)' <=> NewRight(y))
      /\ \A y \in NodeId \ {n} : ReadHi(y, hi)' = ReadHi(y, hi)
  BY PartingView
<1>6. \A u \in Thread \ {t} : pc'[u] = pc[u] /\ loc'[u] = loc[u] /\ req'[u] = req[u]
  <2>1. Goes(t, x, leaf2, zl, l)
    BY PartingAt
  <2>2. QED
    BY ONLY <2>1, Zenon DEF Goes
<1>7. t # NoThread
  BY ThreadAssumption
<1>8. Told(c, lo, hi, lo, hi)
  <2>1. ReadHi(c, hi)' = ReadHi(c, hi)
    BY <1>4, <1>5
  <2>2. QED
    BY ONLY <1>2, <1>4, <2>1 DEF Told, SameBody
<1>9. Told(n, lo, hi, lo, hi)
  BY ONLY <1>3 DEF Told
<1>10. \A y \in NodeId : /\ node'[y].parent = node[y].parent /\ node'[y].prev = node[y].prev
                         /\ node'[y].height = node[y].height /\ node'[y].kind = node[y].kind
                         /\ node'[y].child = node[y].child
  BY ONLY <1>1, <1>2, <1>3 DEF SameBody
<1>11. Frame(t, {n, c}, lo, hi, lo, hi)
  <2>1. \A u \in {n, c} : node[u].lock \in {t, NoThread} /\ Told(u, lo, hi, lo, hi)
    BY ONLY <1>4, <1>8, <1>9
  <2>2. \A u \in NodeId : lo[u] = lo[u] /\ (node[u].lock # t => hi[u] = hi[u])
    OBVIOUS
  <2>3. \A u \in NodeId \ {n, c} :
           /\ SameBody(node[u], node'[u]) /\ node'[u].ver = node[u].ver /\ node'[u].lock = node[u].lock
           /\ hi[u] = hi[u]
    BY ONLY <1>1 DEF SameBody
  <2>4. \A u \in NodeId \ {n, c} : node[u].lock = t =>
           /\ ReadHi(u, hi)' = ReadHi(u, hi) /\ (NewRight(u)' <=> NewRight(u))
    BY <1>5
  <2>5. \A u \in NodeId : node'[u].prev = Nil <=> node[u].prev = Nil
    BY ONLY <1>10
  <2>6. \A u \in NodeId : node'[u].parent = node[u].parent \/
           (node'[u].parent # Nil /\ (node[u].parent \in {n, c} \/ (node[u].parent = Nil /\ Owns(t, u))))
    BY ONLY <1>10
  <2>7. \A u \in NodeId : u \in {n, c} \/ node[u].lock = t =>
           SepHi(u, hi)' = SepHi(u, hi) \/
             (Owns(t, u) /\ node[u].parent \in {n, c} \cup {Nil} /\ node'[u].parent # Nil)
    BY <1>5
  <2>8. {n, c} \in SUBSET NodeId /\ NodeId \subseteq NodeId'
    BY ONLY <1>1, <1>4
  <2>9. QED
    BY <1>6, <2>1, <2>2, <2>3, <2>4, <2>5, <2>6, <2>7, <2>8, MakeFrame
<1>12. Parents'
  BY <1>1, <1>4, <1>10, ParentsKept
<1>13. ASSUME NEW y \in NodeId
       PROVE  \A d \in NodeId : node[d].parent = y =>
                /\ d \in NodeId' /\ node'[d].parent = y /\ node'[d].height = node[d].height
                /\ lo[d] = lo[d] /\ SepHi(d, hi)' = SepHi(d, hi)
  BY <1>1, <1>5, <1>10
<1>14. NodeIn(c, lo, hi)'
  <2>1. Dirty(c)' => node'[c].lock # NoThread
    <3>1. node'[c].ver.splitting = FALSE \/ node'[c].ver.splitting = TRUE
      BY ONLY <1>1, <1>4, NodeFields, VersionFields DEF Freed
    <3>2. QED
      BY ONLY <1>2, <1>7, <3>1 DEF Dirty
  <2>2. CASE Inner(c)
    <3>1. TopRange(c, lo, hi)'
      <4>1. ~ node[c].ver.root
        BY ONLY <1>4, <2>2 DEF Inner
      <4>2. ~ node'[c].ver.root /\ node'[c].parent # Nil
        BY ONLY <1>2, <1>4, <4>1
      <4>3. QED
        BY ONLY <4>2 DEF TopRange
    <3>2. /\ c \in NodeId' /\ node'[c].kind = node[c].kind /\ node'[c].ikeys = node[c].ikeys /\ node'[c].child = node[c].child
          /\ node'[c].height = node[c].height /\ (node'[c].ver.root => node[c].ver.root)
      BY ONLY <1>1, <1>2, <1>4 DEF SameBody
    <3>3. \A d \in NodeId : node[d].parent = c =>
            /\ d \in NodeId' /\ node'[d].parent = c /\ node'[d].height = node[d].height
            /\ lo[d] = lo[d] /\ SepHi(d, hi)' = SepHi(d, hi)
      BY ONLY <1>4, <1>13
    <3>4. QED
      BY <1>4, <2>1, <2>2, <3>1, <3>2, <3>3, InnerKept
  <2>3. CASE ~ Inner(c)
    <3>1. Leaf(c)
      BY <1>4, <2>3, Kinds
    <3>2. TopRange(c, lo, hi)'
      <4>1. ~ RootId(c)'
        BY <1>2, <1>4, <3>1 DEF RootId, Inner, Leaf, SameBody
      <4>2. node'[c].parent # Nil
        BY ONLY <1>2, <1>4
      <4>3. QED
        BY ONLY <4>1, <4>2 DEF TopRange
    <3>3. /\ c \in NodeId' /\ node'[c].kind = node[c].kind /\ node'[c].perm = node[c].perm /\ node'[c].slot = node[c].slot
          /\ node'[c].height = node[c].height /\ node'[c].next = node[c].next
      BY ONLY <1>1, <1>2, <1>4 DEF SameBody
    <3>4. /\ node'[c].prev = Nil <=> node[c].prev = Nil
      BY ONLY <1>2
    <3>5. ReadHi(c, hi)' = ReadHi(c, hi) /\ (~ node'[c].ver.splitting => ~ node[c].ver.splitting)
      BY <1>4, <1>5
    <3>6. \A y : Leaf(y) => Leaf(y)' /\ lo[y] = lo[y]
      BY <1>11, KindKept
    <3>7. QED
      BY <1>4, <2>1, <3>1, <3>2, <3>3, <3>4, <3>5, <3>6, LeafKept
  <2>4. QED
    BY <2>2, <2>3
<1>15. ASSUME n # x.leaf PROVE NodeIn(n, lo, hi)'
  <2>1. Inner(n) /\ node[n].ver.splitting
    BY ONLY <1>4, <1>15
  <2>2. node'[n].lock = NoThread
    BY ONLY <1>1, <1>15
  <2>3. ~ node'[n].ver.splitting /\ ~ node'[n].ver.inserting /\ ~ node'[n].ver.root
    BY ONLY <1>3, <1>7, <2>2
  <2>4. TopRange(n, lo, hi)'
    <3>1. node'[n].parent # Nil
      BY ONLY <1>3, <1>4
    <3>2. QED
      BY ONLY <2>3, <3>1 DEF TopRange
  <2>5. Dirty(n)' => node'[n].lock # NoThread
    BY <2>3 DEF Dirty
  <2>6. \A d \in NodeId : node[d].parent = n =>
            /\ d \in NodeId' /\ node'[d].parent = n /\ node'[d].height = node[d].height
            /\ lo[d] = lo[d] /\ SepHi(d, hi)' = SepHi(d, hi)
    BY ONLY <1>4, <1>13
  <2>7. n \in NodeId' /\ (node'[n].ver.root => node[n].ver.root)
    BY ONLY <1>1, <1>4, <2>3
  <2>8. QED
    BY <1>3, <1>4, <2>1, <2>4, <2>5, <2>6, <2>7, InnerKept, SMTT(30)
<1>16. QED
  BY ONLY <1>11, <1>12, <1>14, <1>15

\* The left leaf has only what lies below the separator, and is ready for the key
\* if that goes there.
LEMMA PartingLeaf ==
  ASSUME NEW lo, NEW hi, TreeIn(lo, hi), NEW t \in Thread, pc[t] = "strip",
         NEW x, x = loc[t], NEW n, n = x.n, NEW c, c = x.child,
         NEW left, NEW leaf2, NEW zl, NEW l, Parting(t, x, n, c, left, leaf2, zl, l), n = x.leaf
  PROVE  /\ NodeIn(n, lo, hi)'
         /\ x.split = 0 => Ready(t, n, lo, hi)'
<1>1. /\ NodeId' = NodeId /\ Cleared(node[n], node'[n], t)
      /\ left = node[n].perm.size - node[c].perm.size /\ req' = req
  BY ONLY Parting(t, x, n, c, left, leaf2, zl, l), Zenon DEF Parting
<1>2. PICK nl : /\ Shed(node[n], left, x.split, nl) /\ nl.lock = t
                /\ node'[n].perm = nl.perm /\ node'[n].slot = nl.slot
                /\ x.split = 0 => node'[n] = nl
  BY ONLY Parting(t, x, n, c, left, leaf2, zl, l), n = x.leaf, Zenon DEF Parting
<1>3. PICK y, r, z : y = node[n] /\ r = node[c] /\ z = node'[n]
  OBVIOUS
<1>4. /\ nl \in Node /\ LeafNode(nl) /\ nl.height = y.height /\ nl.ver = [y.ver EXCEPT !.splitting = TRUE]
      /\ nl.perm.size = left
      /\ \A j \in 0 .. left - 1 : KeyAt(nl, j) = KeyAt(y, j)
      /\ x.split = 0 => \E m \in left .. y.perm.size - 1 : Back(nl.perm) = At(y.perm, m)
      /\ Back(nl.perm) # 0 \/ x.split # 0 => nl.slot[0] = y.slot[0]
  BY ONLY <1>2, <1>3 DEF Shed
<1>5. /\ z.kind = y.kind /\ z.height = y.height /\ z.parent = y.parent /\ z.prev = y.prev /\ z.next = y.next
      /\ z.ver.splitting \/ ~ z.ver.root
      /\ z.ver.inserting \/ z.ver.splitting => z.lock = t
      /\ z.perm = nl.perm /\ z.slot = nl.slot /\ (x.split = 0 => z = nl) /\ nl.lock = t
  BY ONLY <1>1, <1>2, <1>3 DEF Cleared
<1>6. /\ Types /\ n \in NodeId /\ c \in NodeId /\ y.parent # Nil /\ NodeIn(n, lo, hi) /\ NodeIn(c, lo, hi)
      /\ lo[n] < x.ikey /\ hi[n] = x.ikey /\ lo[c] = x.ikey /\ x.ikey \in Nat
      /\ Half(t, n, c, x.ikey, x.split, lo, hi) /\ Leaf(n) /\ K(t) \in Key
  <2>1. /\ Types /\ n \in NodeId /\ c \in NodeId /\ node[n].parent # Nil /\ NodeIn(n, lo, hi) /\ NodeIn(c, lo, hi)
        /\ lo[n] < x.ikey /\ hi[n] = x.ikey /\ lo[c] = x.ikey /\ x.ikey \in Nat /\ K(t) \in Key
    <3>1. /\ Types /\ x.n \in NodeId /\ x.child \in NodeId /\ node[x.n].parent # Nil
          /\ NodeIn(x.n, lo, hi) /\ NodeIn(x.child, lo, hi)
          /\ lo[x.n] < x.ikey /\ hi[x.n] = x.ikey /\ lo[x.child] = x.ikey /\ x.ikey \in Nat /\ K(t) \in Key
      BY ONLY TreeIn(lo, hi), t \in Thread, pc[t] = "strip", x = loc[t], AtStrip
    <3>2. QED
      BY ONLY <3>1, n = x.n, c = x.child
  <2>2. Half(t, n, c, x.ikey, x.split, lo, hi) /\ Leaf(n)
    <3>1. (x.n = x.leaf => Half(t, x.n, x.child, x.ikey, x.split, lo, hi)) /\ Leaf(x.leaf)
      BY ONLY TreeIn(lo, hi), t \in Thread, pc[t] = "strip", x = loc[t], AtStrip
    <3>2. QED
      BY ONLY <3>1, n = x.n, c = x.child, n = x.leaf
  <2>3. QED
    BY ONLY <1>3, <2>1, <2>2
<1>7. /\ left \in 0 .. y.perm.size
      /\ \A j \in 0 .. left - 1 : IkeyOf[KeyAt(y, j)] < x.ikey
      /\ Keys(r) = {KeyAt(y, j) : j \in left .. y.perm.size - 1}
      /\ Leaf(c)
      /\ x.split = 0 => InRange(t, n, lo, hi) /\ left < y.perm.size /\ K(t) \notin Keys(y)
      /\ x.split # 0 => left > 0
  BY ONLY <1>1, <1>3, <1>6 DEF Half
<1>8. /\ lo[n] \in Nat /\ InLeaf(y) /\ LeafRange(n, lo, hi) /\ InLeaf(r) /\ LeafRange(c, lo, hi)
      /\ Below(lo[n], hi[n]) /\ hi[n] \in Nat \cup {Inf}
  BY ONLY <1>3, <1>6, <1>7 DEF NodeIn
<1>9. /\ \A i \in 0 .. y.perm.size - 1 : lo[n] <= IkeyOf[KeyAt(y, i)]
      /\ y.prev = Nil <=> n = 1
      /\ n = 1 => lo[n] = 0
      /\ n # 1 => y.slot[0] # 0 /\ lo[n] = IkeyOf[y.slot[0]]
      /\ y.next = Nil => hi[n] = Inf
      /\ y.next # Nil => Leaf(y.next) /\ y.next # 1 /\ hi[n] = lo[y.next]
  BY ONLY <1>3, <1>8 DEF LeafRange
<1>10. \A i \in 0 .. r.perm.size - 1 : x.ikey <= IkeyOf[KeyAt(r, i)] /\ KeyAt(r, i) \in Key
  BY ONLY <1>3, <1>6, <1>8 DEF LeafRange, InLeaf
<1>11. y.perm.size \in 0 .. W /\ W \in Nat
  <2>1. PermOk(y.perm)
    BY <1>3, <1>6, NodeTypes
  <2>2. QED
    BY <2>1, Positions, WAssumption
<1>12. x.split = 0 /\ Back(nl.perm) = 0 => n = 1
  <2>1. SUFFICES ASSUME x.split = 0, Back(nl.perm) = 0, n # 1 PROVE FALSE
    OBVIOUS
  <2>2. PICK m \in left .. y.perm.size - 1 : Back(nl.perm) = At(y.perm, m)
    BY ONLY <1>4, <2>1
  <2>3. KeyAt(y, m) = y.slot[0]
    BY ONLY <2>1, <2>2 DEF KeyAt
  <2>4. KeyAt(y, m) \in Keys(r)
    BY ONLY <1>7, m \in left .. y.perm.size - 1
  <2>5. Keys(r) = {KeyAt(r, i) : i \in 0 .. r.perm.size - 1}
    BY ONLY KeysAre
  <2>6. PICK i \in 0 .. r.perm.size - 1 : KeyAt(y, m) = KeyAt(r, i)
    BY ONLY <2>4, <2>5
  <2>7. x.ikey <= IkeyOf[y.slot[0]]
    BY ONLY <1>10, <2>3, <2>6, i \in 0 .. r.perm.size - 1
  <2>8. QED
    BY ONLY <1>6, <1>8, <1>9, <2>1, <2>7
<1>13. n # 1 => z.slot[0] = y.slot[0]
  BY ONLY <1>4, <1>5, <1>12
<1>14. \A j : KeyAt(z, j) = KeyAt(nl, j)
  BY ONLY <1>5 DEF KeyAt
<1>15. x.split = 0 => z.ver.splitting
  <2>1. y.ver \in Version
    BY <1>3, <1>6, NodeTypes
  <2>2. nl.ver.splitting
    BY ONLY <1>4, <2>1 DEF Version
  <2>3. QED
    BY ONLY <1>5, <2>2
<1>16. z.perm.size = left /\ \A j \in 0 .. left - 1 : KeyAt(z, j) = KeyAt(y, j)
  BY ONLY <1>4, <1>5, <1>14
<1>17. ReadHi(n, hi)' = hi[n]
  BY PartingView
<1>18. Leaf(n)' /\ n \in NodeId'
  BY ONLY <1>1, <1>3, <1>5, <1>6 DEF Leaf
<1>19. InLeaf(z)
  <2>1. InLeaf(nl)
    BY ONLY <1>4 DEF LeafNode
  <2>2. QED
    BY ONLY <1>4, <1>5, <1>14, <2>1 DEF InLeaf
<1>20. LeafRange(n, lo, hi)'
  <2>1. \A j \in 0 .. z.perm.size - 1 : lo[n] <= IkeyOf[KeyAt(z, j)] /\ Below(IkeyOf[KeyAt(z, j)], ReadHi(n, hi)')
    <3>1. SUFFICES ASSUME NEW j \in 0 .. left - 1
                   PROVE lo[n] <= IkeyOf[KeyAt(z, j)] /\ Below(IkeyOf[KeyAt(z, j)], ReadHi(n, hi)')
      BY <1>16
    <3>2. j \in 0 .. y.perm.size - 1
      BY ONLY <1>7, <1>11, j \in 0 .. left - 1
    <3>3. lo[n] <= IkeyOf[KeyAt(y, j)] /\ IkeyOf[KeyAt(y, j)] < x.ikey
      BY ONLY <1>7, <1>9, <3>2, j \in 0 .. left - 1
    <3>4. QED
      BY ONLY <1>6, <1>16, <1>17, <3>3, j \in 0 .. left - 1 DEF Below
  <2>2. ~ (z.perm.size = 0 /\ ~ z.ver.splitting)
    BY ONLY <1>7, <1>15, <1>16
  <2>3. /\ z.prev = Nil <=> n = 1
        /\ n = 1 => lo[n] = 0
        /\ n # 1 => z.slot[0] # 0 /\ lo[n] = IkeyOf[z.slot[0]]
        /\ z.next = Nil => hi[n] = Inf
    BY ONLY <1>5, <1>9, <1>13
  <2>4. \A q : q = z.next /\ q # Nil => Leaf(q)' /\ q # 1 /\ hi[n] = lo[q]
    <3>1. SUFFICES ASSUME NEW q, q = z.next, q # Nil PROVE Leaf(q)' /\ q # 1 /\ hi[n] = lo[q]
      OBVIOUS
    <3>2. Leaf(q) /\ q # 1 /\ hi[n] = lo[q]
      BY ONLY <1>5, <1>9, <3>1
    <3>3. Frame(t, {n, c}, lo, hi, lo, hi)
      BY PartingFrame
    <3>4. Leaf(q)'
      BY <3>2, <3>3, KindKept
    <3>5. QED
      BY ONLY <3>2, <3>4
  <2>5. QED
    BY ONLY <1>3, <2>1, <2>2, <2>3, <2>4 DEF LeafRange
<1>21. TopRange(n, lo, hi)'
  <2>1. z.parent # Nil
    BY ONLY <1>5, <1>6
  <2>2. QED
    BY ONLY <1>3, <1>5, <2>1 DEF TopRange
<1>22. NodeIn(n, lo, hi)'
  <2>1. Dirty(n)' => node'[n].lock # NoThread
    <3>1. t # NoThread
      BY ThreadAssumption
    <3>2. QED
      BY ONLY <1>3, <1>5, <3>1 DEF Dirty
  <2>2. ~ Inner(n)'
    BY ONLY <1>18 DEF Inner, Leaf
  <2>3. InLeaf(node'[n])
    BY ONLY <1>3, <1>19
  <2>4. QED
    BY ONLY <1>8, <1>20, <1>21, <2>1, <2>2, <2>3 DEF NodeIn
<1>23. x.split = 0 => Ready(t, n, lo, hi)'
  <2>1. SUFFICES ASSUME x.split = 0 PROVE Ready(t, n, lo, hi)'
    OBVIOUS
  <2>2. K(t)' = K(t) /\ Ik(t)' = Ik(t)
    BY <1>1 DEF K, Ik
  <2>3. lo[n] <= Ik(t)' /\ Below(Ik(t)', hi[n])
    BY ONLY <1>7, <2>1, <2>2 DEF InRange
  <2>4. z.lock = t /\ z.perm.size < W
    BY ONLY <1>5, <1>7, <1>11, <1>16, <2>1
  <2>5. K(t)' \notin Keys(z)
    <3>1. Keys(z) = {KeyAt(z, j) : j \in 0 .. z.perm.size - 1} /\ Keys(y) = {KeyAt(y, j) : j \in 0 .. y.perm.size - 1}
      BY ONLY KeysAre
    <3>2. \A j \in 0 .. left - 1 : j \in 0 .. y.perm.size - 1
      BY ONLY <1>7, <1>11
    <3>3. K(t) \notin Keys(y)
      BY ONLY <1>7, <2>1
    <3>4. \A j \in 0 .. left - 1 : KeyAt(z, j) # K(t)
      BY ONLY <1>16, <3>1, <3>2, <3>3
    <3>5. QED
      BY ONLY <1>16, <2>2, <3>1, <3>4
  <2>6. Back(z.perm) = 0 => n = 1
    BY ONLY <1>5, <1>12, <2>1
  <2>7. QED
    BY ONLY <1>3, <1>18, <2>3, <2>4, <2>5, <2>6 DEF Ready, Owns, InRange
<1>24. QED
  BY ONLY <1>22, <1>23

\* The leaf that gets the key is ready for it.
LEMMA PartingReady ==
  ASSUME NEW lo, NEW hi, TreeIn(lo, hi), NEW t \in Thread, pc[t] = "strip",
         NEW x, x = loc[t], NEW n, n = x.n, NEW c, c = x.child,
         NEW left, NEW leaf2, NEW zl, NEW l, Parting(t, x, n, c, left, leaf2, zl, l)
  PROVE  Ready(t, leaf2, lo, hi)'
<1>1. /\ NodeId' = NodeId /\ (\A u \in NodeId \ {n, c} : node'[u] = node[u])
      /\ n = x.leaf /\ x.split # 0 => node'[c] = node[c]
      /\ leaf2 = (IF n = x.leaf /\ x.split # 0 THEN c ELSE x.leaf)
      /\ req' = req
  BY ONLY Parting(t, x, n, c, left, leaf2, zl, l), Zenon DEF Parting
<1>2. /\ x.leaf \in NodeId /\ x.leaf # x.child
      /\ x.n = x.leaf => Half(t, x.n, x.child, x.ikey, x.split, lo, hi)
      /\ x.n # x.leaf => Ready(t, x.leaf, lo, hi)
  BY ONLY TreeIn(lo, hi), t \in Thread, pc[t] = "strip", x = loc[t], AtStrip
<1>3. ASSUME NEW y, Ready(t, y, lo, hi), node'[y] = node[y] PROVE Ready(t, y, lo, hi)'
  <2>1. Same(y, lo, hi, lo, hi)
    BY ONLY <1>3 DEF Same, SameBody
  <2>2. req'[t] = req[t] /\ NodeId \subseteq NodeId'
    BY ONLY <1>1
  <2>3. QED
    BY <1>3, <2>1, <2>2, ReadyCarried
<1>4. CASE n # x.leaf
  <2>1. Ready(t, x.leaf, lo, hi) /\ node'[x.leaf] = node[x.leaf] /\ leaf2 = x.leaf
    BY ONLY <1>1, <1>2, <1>4, n = x.n, c = x.child
  <2>2. QED
    BY ONLY <1>3, <2>1
<1>5. CASE n = x.leaf /\ x.split = 0
  <2>1. Ready(t, n, lo, hi)'
    BY <1>5, PartingLeaf
  <2>2. leaf2 = n
    BY ONLY <1>1, <1>5
  <2>3. QED
    BY ONLY <2>1, <2>2 DEF Ready, Owns, InRange, Leaf
<1>6. CASE n = x.leaf /\ x.split # 0
  <2>1. Half(t, n, c, x.ikey, x.split, lo, hi)
    BY ONLY <1>2, <1>6, n = x.n, c = x.child
  <2>2. Ready(t, c, lo, hi)
    BY ONLY <1>6, <2>1 DEF Half
  <2>3. node'[c] = node[c] /\ leaf2 = c
    BY ONLY <1>1, <1>6
  <2>4. QED
    BY ONLY <1>3, <2>2, <2>3
<1>7. QED
  BY <1>4, <1>5, <1>6

LEMMA PartingThread ==
  ASSUME NEW lo, NEW hi, TreeIn(lo, hi), NEW t \in Thread, pc[t] = "strip",
         NEW x, x = loc[t], NEW n, n = x.n, NEW c, c = x.child,
         NEW left, NEW leaf2, NEW zl, NEW l, Parting(t, x, n, c, left, leaf2, zl, l)
  PROVE  ThreadIn(t, lo, hi)'
<1>1. /\ NodeId' = NodeId /\ (\A u \in NodeId \ {n, c} : node'[u] = node[u]) /\ req' = req
  BY ONLY Parting(t, x, n, c, left, leaf2, zl, l), Zenon DEF Parting
<1>2. Goes(t, x, leaf2, zl, l)
  BY PartingAt
<1>3. /\ zl \in WritingLocals /\ zl.leaf = leaf2
      /\ x.next # Nil => /\ l = "parent" /\ zl.n = x.p /\ zl.child = x.next /\ zl.ikey = x.ikey2
                         /\ zl.height = x.height + 1 /\ leaf2 # x.p
      /\ x.next = Nil => l \in {"top", "finish"} /\ zl.p = x.p /\ (l = "top" => x.p # Nil)
      /\ pc'[t] = l /\ loc'[t] = zl
  BY ONLY <1>2, Zenon DEF Goes
<1>4. /\ x.p # Nil => Owns(t, x.p) /\ Inner(x.p)
      /\ x.next = Nil /\ x.p # Nil => ~ node[x.p].ver.splitting
      /\ x.next # Nil => /\ Pair(t, x.p, x.next, x.ikey2, x.height + 1, lo, hi)
                         /\ x.p # Nil /\ node[x.next].parent = Nil /\ x.next \in NodeId
      /\ req[t] # Idle /\ K(t) \in Key
      /\ n # x.p /\ c # x.p /\ x.next # n /\ x.next # c
  <2>1. /\ x.p # Nil => Owns(t, x.p) /\ Inner(x.p)
        /\ x.next = Nil /\ x.p # Nil => ~ node[x.p].ver.splitting
        /\ x.next # Nil => /\ Pair(t, x.p, x.next, x.ikey2, x.height + 1, lo, hi)
                           /\ x.p # Nil /\ node[x.next].parent = Nil /\ x.next \in NodeId
        /\ req[t] # Idle /\ K(t) \in Key
        /\ x.n # x.p /\ x.child # x.p /\ x.next # x.n /\ x.next # x.child
    BY ONLY TreeIn(lo, hi), t \in Thread, pc[t] = "strip", x = loc[t], AtStrip
  <2>2. QED
    BY ONLY <2>1, n = x.n, c = x.child
<1>5. Ready(t, leaf2, lo, hi)'
  BY PartingReady
<1>6. Owns(t, leaf2)' /\ Leaf(leaf2)'
  BY ONLY <1>5 DEF Ready
<1>7. x.p # Nil => node'[x.p] = node[x.p] /\ Owns(t, x.p)' /\ Inner(x.p)'
  BY ONLY <1>1, <1>4 DEF Owns, Inner
<1>8. pc'[t] \in WritePc /\ pc'[t] \notin ReadPc /\ pc'[t] # "locked"
  <2>1. l \in {"parent", "top", "finish"}
    BY ONLY <1>3
  <2>2. QED
    BY ONLY <1>3, <2>1 DEF WritePc, ReadPc, Putting, Splitting, Climbing
<1>9. Writing(t, lo, hi)'
  <2>1. CASE x.next # Nil
    <3>1. Same(x.p, lo, hi, lo, hi) /\ Same(x.next, lo, hi, lo, hi)
      BY ONLY <1>1, <1>4, <1>7, <2>1 DEF Same, SameBody
    <3>2. PICK h : h = x.height + 1
      OBVIOUS
    <3>3. Pair(t, x.p, x.next, x.ikey2, h, lo, hi)
      BY ONLY <1>4, <2>1, <3>2
    <3>4. NodeId \subseteq NodeId'
      BY ONLY <1>1
    <3>5. PICK p, q, i : p = x.p /\ q = x.next /\ i = x.ikey2
      OBVIOUS
    <3>6. Pair(t, p, q, i, h, lo, hi) /\ Same(p, lo, hi, lo, hi) /\ Same(q, lo, hi, lo, hi)
      BY ONLY <3>1, <3>3, <3>5
    <3>7. Pair(t, p, q, i, h, lo, hi)'
      BY <3>4, <3>6, PairCarried
    <3>8. zl.n = p /\ zl.child = q /\ zl.ikey = i /\ zl.height = h /\ zl.leaf = leaf2 /\ zl.n # zl.leaf
      BY ONLY <1>3, <2>1, <3>2, <3>5
    <3>9. Inner(p)' /\ node'[q].parent = Nil
      BY ONLY <1>1, <1>4, <1>7, <2>1, <3>5
    <3>10. pc'[t] = "parent" /\ pc'[t] # "locked" /\ pc'[t] # "lock" /\ pc'[t] # "insert" /\ pc'[t] # "strip" /\ pc'[t] # "top"
           /\ pc'[t] \notin {"top", "finish"}
      BY ONLY <1>3, <2>1
    <3>11. zl \in WritingLocals /\ loc'[t] = zl
      BY ONLY <1>3
    <3>12. QED
      BY ONLY <1>5, <1>6, <3>7, <3>8, <3>9, <3>10, <3>11 DEF Writing
  <2>2. CASE x.next = Nil
    <3>1. pc'[t] \notin Splitting /\ pc'[t] \notin Climbing /\ pc'[t] # "locked" /\ pc'[t] # "lock" /\ pc'[t] # "insert"
          /\ pc'[t] # "strip"
      BY ONLY <1>3, <2>2 DEF Splitting, Climbing
    <3>2. pc'[t] = "top" => Owns(t, x.p)' /\ Inner(x.p)' /\ ~ node'[x.p].ver.splitting
      BY ONLY <1>3, <1>4, <1>7, <2>2
    <3>3. PICK p : p = x.p
      OBVIOUS
    <3>4. pc'[t] = "top" => Owns(t, p)' /\ Inner(p)' /\ ~ node'[p].ver.splitting
      BY ONLY <3>2, <3>3 DEF Owns, Inner
    <3>5. zl \in WritingLocals /\ loc'[t] = zl /\ zl.leaf = leaf2 /\ zl.p = p
      BY ONLY <1>3, <2>2, <3>3
    <3>6. QED
      BY ONLY <1>5, <1>6, <3>1, <3>4, <3>5 DEF Writing
  <2>3. QED
    BY <2>1, <2>2
<1>10. req'[t] = req[t] /\ K(t)' = K(t)
  BY <1>1 DEF K
<1>11. QED
  BY ONLY <1>4, <1>8, <1>9, <1>10 DEF ThreadIn

\* A split is done: masstree_split.hh, the end of make_split.
LEMMA StripKeeps ==
  ASSUME NEW lo, NEW hi, TreeIn(lo, hi), NEW t \in Thread, Strip(t)
  PROVE  TreeIn(lo, hi)'
<1>1. pc[t] = "strip"
  BY DEF Strip
<1>2. PICK x : x = loc[t]
  OBVIOUS
<1>3. PICK n, c : n = x.n /\ c = x.child
  OBVIOUS
<1>4. PICK left, leaf2, zl, l : Parting(t, x, n, c, left, leaf2, zl, l)
  BY <1>1, <1>2, <1>3, PartingIs
<1>5. /\ Frame(t, {n, c}, lo, hi, lo, hi) /\ Parents' /\ NodeIn(c, lo, hi)'
      /\ n # x.leaf => NodeIn(n, lo, hi)'
  BY <1>1, <1>2, <1>3, <1>4, PartingFrame
<1>6. n = x.leaf => NodeIn(n, lo, hi)'
  BY <1>1, <1>2, <1>3, <1>4, PartingLeaf
<1>7. ThreadIn(t, lo, hi)'
  BY <1>1, <1>2, <1>3, <1>4, PartingThread
<1>8. Types'
  <2>1. Goes(t, x, leaf2, zl, l)
    BY <1>1, <1>2, <1>3, <1>4, PartingAt
  <2>2. QED
    BY ONLY <2>1, Zenon DEF Goes
<1>9. root' = root /\ NodeId' = NodeId
  BY ONLY <1>4, Zenon DEF Parting
<1>10. RootId(root)'
  <2>1. RootId(root)
    BY DEF TreeIn
  <2>2. QED
    BY <1>5, <1>9, <2>1, KindKept
<1>11. /\ \A u \in {n, c} : NodeIn(u, lo, hi)'
       /\ \A u \in NodeId' \ NodeId : NodeIn(u, lo, hi)'
  BY <1>5, <1>6, <1>9
<1>12. QED
  BY <1>5, <1>7, <1>8, <1>10, <1>11, Wrap

LEMMA StutterKeeps ==
  ASSUME NEW lo, NEW hi, TreeIn(lo, hi), UNCHANGED vars
  PROVE  TreeIn(lo, hi)'
<1>1. node' = node /\ root' = root /\ pc' = pc /\ loc' = loc /\ req' = req /\ pre' = pre
  BY DEF vars
<1>2. NodeId' = NodeId
  BY <1>1 DEF NodeId
<1>3. Types'
  BY <1>1, <1>2 DEF TreeIn, Types
<1>4. Parents'
  BY <1>1, <1>2, ParentsKept DEF TreeIn
<1>5. RootId(root)'
  BY <1>1, <1>2 DEF TreeIn, RootId, Inner
<1>6. \A y : SepHi(y, hi)' = SepHi(y, hi) /\ ReadHi(y, hi)' = ReadHi(y, hi) /\ (NewRight(y)' <=> NewRight(y))
  BY ONLY <1>1, Zenon DEF SepHi, ReadHi, NewRight
<1>7. \A y \in NodeId : Told(y, lo, hi, lo, hi) /\ Still(y, hi, hi)
  <2>1. SUFFICES ASSUME NEW y \in NodeId PROVE Told(y, lo, hi, lo, hi) /\ Still(y, hi, hi)
    OBVIOUS
  <2>2. VLeq(node[y].ver, node'[y].ver)
    <3>1. node[y].ver.vsplit \in Nat /\ node[y].ver.vinsert \in Nat
      BY NodeTypes DEF TreeIn
    <3>2. QED
      BY ONLY <1>1, <3>1 DEF VLeq
  <2>3. Told(y, lo, hi, lo, hi)
    BY ONLY <1>1, <1>6, <2>2 DEF Told
  <2>4. Still(y, hi, hi)
    BY ONLY <1>1, <1>6 DEF Still, SameBody
  <2>5. QED
    BY <2>3, <2>4
<1>8. Frame(NoThread, {}, lo, hi, lo, hi)
  BY ONLY <1>1, <1>2, <1>6, <1>7 DEF Frame
<1>9. NoThread \notin Thread
  BY ThreadAssumption
<1>10. QED
  BY <1>2, <1>3, <1>4, <1>5, <1>8, <1>9, Wrap

LEMMA InitIn ==
  ASSUME Init
  PROVE  TreeInv
<1>1. PICK y : y = [EmptyNode EXCEPT !.ver.root = TRUE]
  OBVIOUS
<1>2. /\ y \in Node /\ y.kind = "leaf" /\ y.lock = NoThread /\ ~ y.ver.inserting /\ ~ y.ver.splitting
      /\ y.parent = Nil /\ y.prev = Nil /\ y.next = Nil /\ y.height = 0
      /\ y.perm = MakeEmpty /\ y.slot = [p \in Slot |-> 0]
  <2>1. EmptyNode \in Node /\ Version0 \in Version /\ EmptyNode.ver = Version0
    BY EmptyNodeIs
  <2>2. PICK d : d = EmptyNode.ver
    OBVIOUS
  <2>3. PICK v : v = [d EXCEPT !.root = TRUE]
    BY ONLY Zenon
  <2>4. v \in Version /\ ~ v.inserting /\ ~ v.splitting /\ y = [EmptyNode EXCEPT !.ver = v]
    <3>1. d \in Version /\ ~ d.inserting /\ ~ d.splitting
      <4>1. ~ Version0.inserting /\ ~ Version0.splitting
        BY DEF Version0
      <4>2. QED
        BY ONLY <2>1, <2>2, <4>1
    <3>2. v \in Version /\ ~ v.inserting /\ ~ v.splitting
      BY ONLY <2>3, <3>1 DEF Version
    <3>3. y = [EmptyNode EXCEPT !.ver = [EmptyNode.ver EXCEPT !.root = TRUE]]
      BY ONLY <1>1
    <3>4. QED
      BY ONLY <2>2, <2>3, <3>2, <3>3
  <2>5. y \in Node /\ y.ver = v
    BY ONLY <2>1, <2>4 DEF Node
  <2>6. /\ y.kind = "leaf" /\ y.lock = NoThread /\ y.parent = Nil /\ y.prev = Nil /\ y.next = Nil /\ y.height = 0
        /\ y.perm = MakeEmpty /\ y.slot = [p \in Slot |-> 0]
    BY ONLY <2>4 DEF EmptyNode
  <2>7. QED
    BY <2>4, <2>5, <2>6
<1>3. node = <<y>> /\ NodeId = {1} /\ node[1] = y
  BY <1>1 DEF Init, NodeId
<1>4. \A t \in Thread : pc[t] = "idle"
  BY DEF Init
<1>5. Types
  <2>1. node \in Seq(Node)
    BY <1>2, <1>3
  <2>2. pc \in [Thread -> AllPc]
    <3>1. "idle" \in AllPc
      BY DEF AllPc, OtherPc
    <3>2. pc = [t \in Thread |-> "idle"]
      BY DEF Init
    <3>3. QED
      BY ONLY <3>1, <3>2
  <2>3. loc \in [Thread -> AllLocals]
    <3>1. NoLocals \in AllLocals
      BY NoLocalsAre DEF AllLocals
    <3>2. loc = [t \in Thread |-> NoLocals]
      BY DEF Init
    <3>3. QED
      BY ONLY <3>1, <3>2
  <2>4. req = [t \in Thread |-> req[t]]
    BY DEF Init
  <2>5. Requests(pre)
    <3>1. pre \in Scenario
      BY DEF Init
    <3>2. PICK all : all = SX!Range(pre.load) \cup UNION {pre.calls[t] : t \in Thread}
      OBVIOUS
    <3>3. /\ pre \in [load : Seq(all), calls : [Thread -> SUBSET all]]
          /\ \A r \in all : r # Idle /\ r.key \in Key
      BY <3>1, <3>2, ScenarioAssumption
    <3>4. QED
      BY ONLY <3>3 DEF Requests
  <2>6. QED
    BY <1>3, <2>1, <2>2, <2>3, <2>4, <2>5, RequestsAre
<1>6. Leaf(1) /\ RootId(root)
  BY <1>2, <1>3 DEF Init, Leaf, RootId
<1>7. Parents
  BY <1>2, <1>3 DEF Parents
<1>8. PICK lo, hi : lo = [x \in {1} |-> 0] /\ hi = [x \in {1} |-> Inf]
  OBVIOUS
<1>9. lo[1] = 0 /\ hi[1] = Inf
  BY <1>8
<1>10. NodeIn(1, lo, hi)
  <2>1. SepHi(1, hi) = Inf /\ ReadHi(1, hi) = Inf /\ ~ NewRight(1)
    BY <1>2, <1>3, <1>9, ThreadAssumption, FreeView
  <2>2. MakeEmpty.size = 0 /\ PermOk(MakeEmpty)
    BY EmptyPerm
  <2>3. KeyAt(y, 0) = 0
    <3>1. 0 \in 0 .. W - 1
      BY WAssumption
    <3>2. At(y.perm, 0) \in Slot
      BY <1>2, <2>2, <3>1, Positions
    <3>3. QED
      BY ONLY <1>2, <3>2 DEF KeyAt
  <2>4. InLeaf(node[1])
    BY ONLY <1>2, <1>3, <2>2 DEF InLeaf
  <2>5. LeafRange(1, lo, hi)
    BY ONLY <1>2, <1>3, <1>9, <2>2, <2>3 DEF LeafRange
  <2>6. TopRange(1, lo, hi)
    BY ONLY <1>9, <2>1 DEF TopRange
  <2>7. ~ Inner(1) /\ ~ Dirty(1)
    BY ONLY <1>2, <1>3 DEF Inner, Dirty
  <2>8. QED
    BY ONLY <1>9, <2>4, <2>5, <2>6, <2>7 DEF NodeIn, Below, Inf
<1>11. \A t \in Thread : ThreadIn(t, lo, hi)
  BY <1>4 DEF ThreadIn, ReadPc, WritePc, Putting, Splitting, Climbing
<1>12. TreeIn(lo, hi)
  BY ONLY <1>3, <1>5, <1>6, <1>7, <1>10, <1>11 DEF TreeIn
<1>13. QED
  BY ONLY <1>12 DEF TreeInv

\* What an update can be as long as every leaf stays.
LEMMA UpdateStays ==
  ASSUME NEW lo, NEW hi, TreeIn(lo, hi), NEW t \in Thread, Update(t), KeepsLeaves'
  PROVE  \/ LockLeaf(t) \/ Nothing(t) \/ InsertHere(t) \/ FinishInsert(t)
         \/ ReadParent(t) \/ LockParent(t)
         \/ SplitLeaf(t) \/ NewRoot(t) \/ InsertChild(t) \/ SplitInternode(t)
         \/ Strip(t) \/ UnlockTop(t)
         \/ RemoveHere(t) \/ TrimRoot(t)
<1>1. pc[t] \in AllPc
  BY DEF TreeIn, Types, AllPc
<1>2. pc[t] \notin {"delete", "unlink", "remove", "redirect", "collapse", "removed", "trim_child", "trim_old"}
  BY ONLY <1>1 DEF AllPc, ReadPc, WritePc, OtherPc, Putting, Splitting, Climbing
<1>3. ~ RemoveLast(t)
  <2>1. SUFFICES ASSUME RemoveLast(t) PROVE FALSE
    OBVIOUS
  <2>2. pc' = [pc EXCEPT ![t] = "delete"]
    BY ONLY <2>1 DEF RemoveLast, Goto
  <2>3. pc'[t] = "delete"
    BY <2>2 DEF TreeIn, Types
  <2>4. QED
    BY <2>3 DEF KeepsLeaves
<1>4. ~ DeleteLeaf(t) /\ ~ UnlinkLeaf(t)
  BY ONLY <1>2 DEF DeleteLeaf, UnlinkLeaf
<1>5. ~ RemoveChild(t)
  BY ONLY <1>2, Zenon DEF RemoveChild
<1>6. ~ Redirect(t)
  BY ONLY <1>2, Zenon DEF Redirect
<1>7. ~ Collapse(t)
  BY ONLY <1>2, Zenon DEF Collapse
<1>8. ~ FinishRemove(t)
  BY ONLY <1>2 DEF FinishRemove
<1>9. ~ TrimChild(t)
  BY ONLY <1>2, Zenon DEF TrimChild
<1>10. ~ TrimOld(t)
  BY ONLY <1>2, Zenon DEF TrimOld
<1>11. ~ Rectify(t)
  BY RectifyNever
<1>12. QED
  BY <1>3, <1>4, <1>5, <1>6, <1>7, <1>8, <1>9, <1>10, <1>11 DEF Update

\* What a step of a request does.
LEMMA StepKeeps ==
  ASSUME TreeInv, NEW t \in Thread, Step(t), KeepsLeaves'
  PROVE  TreeInv'
<1>1. PICK lo, hi : TreeIn(lo, hi)
  BY DEF TreeInv
<1>2. SUFFICES ASSUME ~ TreeIn(lo, hi)' PROVE TreeInv'
  BY DEF TreeInv
<1>3. CASE Descend(t)
  <2>1. ~ DeletedLeaf(t)
    <3>1. SUFFICES ASSUME DeletedLeaf(t) PROVE FALSE
      OBVIOUS
    <3>2. pc[t] = "leaf" /\ loc[t].v.deleted
      BY ONLY <3>1 DEF DeletedLeaf
    <3>3. pc[t] \in ReadPc
      BY <3>2 DEF ReadPc
    <3>4. QED
      BY <1>1, <3>2, <3>3, DeletedLeafNever
  <2>2. QED
    BY <1>1, <1>2, <1>3, <2>1, ReachRootKeeps, ReadChildKeeps, ChildVersionKeeps, GoDownKeeps, CheckAgainKeeps,
       AdvanceKeeps, WalkKeeps, WalkedKeeps DEF Descend
<1>4. CASE Update(t)
  <2>1. LockParent(t) => TreeIn(lo, hi)'
    BY <1>1, LockParentRetries, LockParentTakes
  <2>2. QED
    BY <1>1, <1>2, <1>4, <2>1, UpdateStays, LockLeafKeeps, NothingKeeps, InsertHereKeeps, FinishInsertKeeps,
       ReadParentKeeps, SplitLeafKeeps, NewRootKeeps, InsertChildKeeps, SplitInternodeKeeps, StripKeeps,
       UnlockTopKeeps, RemoveHereKeeps, TrimRootKeeps
<1>5. CASE GetEnd(t) \/ Reply(t) \/ Return(t)
  BY <1>1, <1>2, <1>5, GetEndKeeps, ReplyKeeps, ReturnKeeps
<1>6. QED
  BY <1>3, <1>4, <1>5 DEF Step

LEMMA NextKeeps ==
  ASSUME TreeInv, [Next]_vars, KeepsLeaves'
  PROVE  TreeInv'
<1>1. PICK lo, hi : TreeIn(lo, hi)
  BY DEF TreeInv
<1>2. SUFFICES ASSUME ~ TreeIn(lo, hi)' PROVE TreeInv'
  BY DEF TreeInv
<1>3. CASE Load
  BY <1>1, <1>2, <1>3, LoadKeeps
<1>4. ASSUME NEW t \in Thread, Call(t) \/ RunCallback(t) PROVE TreeInv'
  BY <1>1, <1>2, <1>4, CallKeeps, RunCallbackKeeps
<1>5. ASSUME NEW t \in Thread, Step(t) PROVE TreeInv'
  BY <1>5, StepKeeps
<1>6. CASE Done
  <2>1. UNCHANGED vars
    BY <1>6 DEF Done
  <2>2. QED
    BY <1>1, <1>2, <2>1, StutterKeeps
<1>7. CASE UNCHANGED vars
  BY <1>1, <1>2, <1>7, StutterKeeps
<1>8. QED
  BY <1>3, <1>4, <1>5, <1>6, <1>7 DEF Next

\* The inductive invariant, as long as every leaf stays.
THEOREM TreeInvAlways == Spec /\ []KeepsLeaves => []TreeInv
<1>1. Init => TreeInv
  BY InitIn
<1>2. TreeInv /\ [Next]_vars /\ KeepsLeaves /\ KeepsLeaves' => TreeInv'
  BY NextKeeps
<1>3. QED
  BY <1>1, <1>2, PTL DEF Spec

LEMMA Responsibility ==
  ASSUME TreeInv
  PROVE  LeafIsResponsible
<1>1. PICK lo, hi : TreeIn(lo, hi)
  BY DEF TreeInv
<1>2. SUFFICES ASSUME NEW t \in Thread, NEW n, n = loc[t].n, pc[t] = "leaf", node[n].ver = loc[t].v,
                      node[n].lock = NoThread
               PROVE  Responsible(n, K(t))
  BY DEF LeafIsResponsible, HasChanged
<1>3. /\ Types /\ Leaf(n) /\ n \in NodeId /\ lo[n] <= Ik(t) /\ Ik(t) \in Nat /\ K(t) \in Key
  BY <1>1, <1>2, AtLeaf
<1>4. Fits(t, n, node[n].ver, lo, hi)
  <2>1. pc[t] \in ReadPc
    BY <1>2 DEF ReadPc
  <2>2. Reading(t, lo, hi)
    BY <1>1, <2>1, Reader
  <2>3. QED
    BY <1>2, <2>2 DEF Reading
<1>5. Below(Ik(t), hi[n])
  <2>1. ReadHi(n, hi) = hi[n]
    BY <1>2, ThreadAssumption, FreeView
  <2>2. NoSplit(n, node[n].ver)
    BY <1>4 DEF Fits, Seen, NoSplit
  <2>3. QED
    BY <1>4, <2>1, <2>2 DEF Fits
<1>6. node[n].prev # Nil => Bound(node[n]) <= IkeyOf[K(t)]
  <2>1. NodeIn(n, lo, hi)
    BY <1>1, <1>3 DEF TreeIn
  <2>2. LeafRange(n, lo, hi)
    BY ONLY <1>3, <2>1 DEF NodeIn
  <2>3. node[n].prev # Nil => node[n].slot[0] # 0 /\ lo[n] = IkeyOf[node[n].slot[0]]
    BY ONLY <2>2 DEF LeafRange
  <2>4. QED
    BY ONLY <1>3, <2>3 DEF Bound, Ik
<1>7. node[n].next # Nil => IkeyOf[K(t)] < Bound(node[node[n].next])
  <2>1. SUFFICES ASSUME node[n].next # Nil PROVE IkeyOf[K(t)] < Bound(node[node[n].next])
    OBVIOUS
  <2>2. PICK q : q = node[n].next
    OBVIOUS
  <2>3. Leaf(q) /\ hi[n] = lo[q] /\ lo[q] = Bound(node[q])
    BY <1>1, <1>3, <2>1, <2>2, NextLeaf
  <2>4. lo[q] \in Nat
    BY <1>1, <2>3 DEF TreeIn, NodeIn, Leaf
  <2>5. Ik(t) < Bound(node[q])
    BY ONLY <1>5, <2>3, <2>4 DEF Below, Inf
  <2>6. QED
    BY ONLY <2>2, <2>5 DEF Ik
<1>8. QED
  BY ONLY <1>6, <1>7 DEF Responsible

\* doc/spec.tex, "Get": "Either version v of leaf n is responsible for k, or
\* v.deleted is true", for reach_leaf and advance_to_key among any number of puts
\* and of removes that leave each leaf where it is.
THEOREM LeavesAreResponsible == Spec /\ []KeepsLeaves => []LeafIsResponsible
<1>1. TreeInv => LeafIsResponsible
  BY Responsibility
<1>2. QED
  BY <1>1, TreeInvAlways, PTL

\* The masstree_invariant of locked_parent: what make_split locks as the parent is
\* an internode.
THEOREM ParentsAreInternodes == Spec /\ []KeepsLeaves => []ParentsAreFound
<1>1. TreeInv => ParentsAreFound
  <2>1. SUFFICES ASSUME NEW lo, NEW hi, TreeIn(lo, hi), NEW t \in Thread
                 PROVE  /\ pc[t] \in {"insert", "remove", "redirect"} /\ loc[t].p # Nil => ~ IsLeaf(loc[t].p)
                        /\ pc[t] \notin {"remove", "redirect"}
    BY DEF ParentsAreFound, TreeInv
  <2>2. pc[t] \notin {"remove", "redirect"}
    <3>1. pc[t] \in AllPc
      BY ONLY TreeIn(lo, hi), t \in Thread DEF TreeIn, Types, AllPc
    <3>2. QED
      BY ONLY <3>1 DEF AllPc, ReadPc, WritePc, OtherPc, Putting, Splitting, Climbing
  <2>3. pc[t] = "insert" /\ loc[t].p # Nil => ~ IsLeaf(loc[t].p)
    <3>1. SUFFICES ASSUME pc[t] = "insert", loc[t].p # Nil PROVE ~ IsLeaf(loc[t].p)
      OBVIOUS
    <3>2. PICK x : x = loc[t]
      OBVIOUS
    <3>3. x.p # Nil => Owns(t, x.p) /\ Inner(x.p) /\ ~ node[x.p].ver.splitting
      BY ONLY TreeIn(lo, hi), t \in Thread, <3>1, <3>2, AtInsert
    <3>4. QED
      BY ONLY <3>1, <3>2, <3>3 DEF Inner, IsLeaf
  <2>4. QED
    BY ONLY <2>2, <2>3
<1>2. QED
  BY <1>1, TreeInvAlways, PTL

-----------------------------------------------------------------------------
(* The table in the leaves *)

\* The slices of leaf x, as the leaves themselves tell.
From(x) == IF x = 1 THEN 0 ELSE IkeyOf[node[x].slot[0]]
UpTo(x) == IF node[x].next = Nil THEN Inf ELSE From(node[x].next)
Covers(x, i) == From(x) <= i /\ Below(i, UpTo(x))

\* A leaf has of its slices what the table has, and no slice is another leaf's.
\* (What it keeps for a split beyond its slices, the leaf after it has too.)
HasTable(x) == \A k \in Key : Covers(x, IkeyOf[k]) => (k \in Keys(node[x]) <=> map[k] # None)
TableInv ==
  /\ \A x, y : Leaf(x) /\ Leaf(y) /\ x # y => \A i \in Nat : ~ (Covers(x, i) /\ Covers(y, i))
  /\ \A x : Leaf(x) => HasTable(x)

\* Where a request is, and what it may answer.
Served(t) ==
  LET r == req[t] IN
  /\ pc[t] \in {"idle", "trim"} => r = Idle
  /\ pc[t] \notin {"idle", "trim"} => r \in KM!Request
  /\ res[t] = Idle <=> pc[t] # "done"
  /\ pc[t] \in ReadPc /\ r.op = "get" => map[r.key] \in ans[t]
  /\ pc[t] \in ReadPc /\ r.op # "get" => ans[t] = {}
  /\ pc[t] \in WritePc => r.op # "get" /\ ans[t] = {}
  /\ pc[t] \in Putting => r.op = "put"
  /\ pc[t] \in {"found", "missing"} => r.op # "get" /\ ans[t] = {pc[t]}

HistoryInv ==
  /\ map \in [Key -> {None, "present"}]
  /\ ans = [t \in Thread |-> ans[t]] /\ res = [t \in Thread |-> res[t]]
  /\ \E all \in SUBSET KM!Request : pre \in [load : Seq(all), calls : [Thread -> SUBSET all]]
  /\ \A t \in Thread : Served(t)

LEMMA SpanIs ==
  ASSUME NEW lo, NEW hi, TreeIn(lo, hi), NEW x, Leaf(x)
  PROVE  /\ From(x) = lo[x] /\ UpTo(x) = hi[x] /\ x \in NodeId
         /\ lo[x] \in Nat /\ hi[x] \in Nat \cup {Inf} /\ Below(lo[x], hi[x])
<1>1. \A y : Leaf(y) => /\ From(y) = lo[y] /\ y \in NodeId
                        /\ lo[y] \in Nat /\ hi[y] \in Nat \cup {Inf} /\ Below(lo[y], hi[y]) /\ LeafRange(y, lo, hi)
  <2>1. SUFFICES ASSUME NEW y, Leaf(y)
                 PROVE  /\ From(y) = lo[y] /\ y \in NodeId
                        /\ lo[y] \in Nat /\ hi[y] \in Nat \cup {Inf} /\ Below(lo[y], hi[y]) /\ LeafRange(y, lo, hi)
    OBVIOUS
  <2>2. y \in NodeId
    BY ONLY <2>1 DEF Leaf
  <2>3. NodeIn(y, lo, hi)
    BY ONLY TreeIn(lo, hi), <2>2 DEF TreeIn
  <2>4. LeafRange(y, lo, hi) /\ lo[y] \in Nat /\ hi[y] \in Nat \cup {Inf} /\ Below(lo[y], hi[y])
    BY ONLY <2>1, <2>3 DEF NodeIn
  <2>5. (y = 1 => lo[y] = 0) /\ (y # 1 => lo[y] = IkeyOf[node[y].slot[0]])
    BY ONLY <2>4 DEF LeafRange
  <2>6. QED
    BY ONLY <2>2, <2>4, <2>5 DEF From
<1>2. (node[x].next = Nil => hi[x] = Inf) /\ (node[x].next # Nil => Leaf(node[x].next) /\ hi[x] = lo[node[x].next])
  BY <1>1 DEF LeafRange
<1>3. UpTo(x) = hi[x]
  BY ONLY <1>1, <1>2 DEF UpTo
<1>4. QED
  BY <1>1, <1>3

LEMMA SpanNext ==
  ASSUME NEW lo, NEW hi, TreeIn(lo, hi)', NEW x, Leaf(x)'
  PROVE  From(x)' = lo[x] /\ UpTo(x)' = hi[x]
<1>1. \A y : Leaf(y)' => From(y)' = lo[y] /\ LeafRange(y, lo, hi)'
  <2>1. SUFFICES ASSUME NEW y, Leaf(y)' PROVE From(y)' = lo[y] /\ LeafRange(y, lo, hi)'
    OBVIOUS
  <2>2. y \in NodeId'
    BY ONLY <2>1 DEF Leaf
  <2>3. NodeIn(y, lo, hi)'
    BY ONLY TreeIn(lo, hi)', <2>2 DEF TreeIn
  <2>4. LeafRange(y, lo, hi)'
    BY ONLY <2>1, <2>3 DEF NodeIn
  <2>5. (y = 1 => lo[y] = 0) /\ (y # 1 => lo[y] = IkeyOf[node'[y].slot[0]])
    BY ONLY <2>4 DEF LeafRange
  <2>6. QED
    BY ONLY <2>4, <2>5 DEF From
<1>2. PICK q : q = node'[x].next
  OBVIOUS
<1>3. (q = Nil => hi[x] = Inf) /\ (q # Nil => Leaf(q)' /\ hi[x] = lo[q])
  BY <1>1, <1>2 DEF LeafRange, Leaf
<1>4. UpTo(x)' = (IF q = Nil THEN Inf ELSE From(q)')
  BY ONLY <1>2 DEF UpTo, From
<1>5. QED
  BY ONLY Leaf(x)', <1>1, <1>3, <1>4

\* A step that does not change the slots of any leaf.
LeavesStand ==
  \A x : /\ Leaf(x)' <=> Leaf(x)
         /\ Leaf(x) => node'[x].slot = node[x].slot /\ node'[x].perm = node[x].perm /\ node'[x].next = node[x].next

LEMMA StandKeeps ==
  ASSUME NEW lo, NEW hi, TreeIn(lo, hi), TableInv, LeavesStand, map' = map
  PROVE  TableInv'
<1>1. \A x : Leaf(x) => From(x)' = From(x) /\ Keys(node[x])' = Keys(node[x])
  BY DEF LeavesStand, From, Keys
<1>2. \A x : Leaf(x) => UpTo(x)' = UpTo(x)
  <2>1. SUFFICES ASSUME NEW x, Leaf(x) PROVE UpTo(x)' = UpTo(x)
    OBVIOUS
  <2>2. PICK q : q = node[x].next
    OBVIOUS
  <2>3. q = Nil \/ Leaf(q)
    BY <2>1, <2>2, NextLeaf
  <2>4. q # Nil => From(q)' = From(q)
    BY <1>1, <2>3
  <2>5. node'[x].next = q
    BY <2>1, <2>2 DEF LeavesStand
  <2>6. UpTo(x)' = (IF q = Nil THEN Inf ELSE From(q)') /\ UpTo(x) = (IF q = Nil THEN Inf ELSE From(q))
    BY ONLY <2>2, <2>5 DEF UpTo, From
  <2>7. QED
    BY ONLY <2>4, <2>6
<1>3. \A x, i : Leaf(x) => (Covers(x, i)' <=> Covers(x, i))
  BY ONLY <1>1, <1>2 DEF Covers, Below
<1>4. \A x : Leaf(x)' <=> Leaf(x)
  BY DEF LeavesStand
<1>5. \A x : Leaf(x)' => HasTable(x)'
  <2>1. SUFFICES ASSUME NEW x, Leaf(x), NEW k \in Key, Covers(x, IkeyOf[k]), HasTable(x)
                 PROVE  k \in Keys(node'[x]) <=> map'[k] # None
    BY <1>3, <1>4 DEF HasTable, TableInv
  <2>2. k \in Keys(node[x]) <=> map[k] # None
    BY ONLY <2>1 DEF HasTable
  <2>3. QED
    BY <1>1, <2>1, <2>2
<1>6. ASSUME NEW x, NEW y, Leaf(x)', Leaf(y)', x # y, NEW i \in Nat
      PROVE  ~ (Covers(x, i)' /\ Covers(y, i)')
  <2>1. Leaf(x) /\ Leaf(y) /\ ~ (Covers(x, i) /\ Covers(y, i))
    BY <1>4, <1>6 DEF TableInv
  <2>2. QED
    BY ONLY <1>3, <2>1
<1>7. QED
  BY ONLY <1>5, <1>6 DEF TableInv

\* Leaf n changes, and the table for its slices only.
LEMMA ChangeKeeps ==
  ASSUME NEW lo, NEW hi, TreeIn(lo, hi), TreeIn(lo, hi)', TableInv, NEW n, Leaf(n),
         \A x : Leaf(x)' <=> Leaf(x),
         \A x : Leaf(x) /\ x # n => Keys(node'[x]) = Keys(node[x]),
         \A m \in Key : lo[n] <= IkeyOf[m] /\ Below(IkeyOf[m], hi[n]) => (m \in Keys(node'[n]) <=> map'[m] # None),
         \A m \in Key : map'[m] = map[m] \/ (lo[n] <= IkeyOf[m] /\ Below(IkeyOf[m], hi[n]))
  PROVE  TableInv'
<1>1. \A x : Leaf(x) => From(x) = lo[x] /\ UpTo(x) = hi[x]
  BY SpanIs
<1>2. \A x : Leaf(x) => From(x)' = lo[x] /\ UpTo(x)' = hi[x]
  BY SpanNext
<1>3. \A x, i : Leaf(x) => (Covers(x, i) <=> lo[x] <= i /\ Below(i, hi[x])) /\ (Covers(x, i)' <=> Covers(x, i))
  BY ONLY <1>1, <1>2 DEF Covers, Below
<1>4. ASSUME NEW x, NEW y, Leaf(x)', Leaf(y)', x # y, NEW i \in Nat
      PROVE  ~ (Covers(x, i)' /\ Covers(y, i)')
  <2>1. Leaf(x) /\ Leaf(y)
    BY <1>4
  <2>2. ~ (Covers(x, i) /\ Covers(y, i))
    BY ONLY TableInv, <1>4, <2>1 DEF TableInv
  <2>3. QED
    BY ONLY <1>3, <2>1, <2>2
<1>5. ASSUME NEW x, Leaf(x)', NEW k \in Key, Covers(x, IkeyOf[k])'
      PROVE  k \in Keys(node'[x]) <=> map'[k] # None
  <2>1. Leaf(x) /\ Covers(x, IkeyOf[k])
    BY <1>3, <1>5
  <2>2. CASE x = n
    BY <1>3, <2>1, <2>2
  <2>3. CASE x # n
    <3>1. ~ Covers(n, IkeyOf[k])
      <4>1. IkeyOf[k] \in Nat
        BY IkeysAre
      <4>2. QED
        BY ONLY TableInv, Leaf(n), <2>1, <2>3, <4>1 DEF TableInv
    <3>2. map'[k] = map[k]
      BY <1>3, <3>1
    <3>3. k \in Keys(node[x]) <=> map[k] # None
      BY ONLY TableInv, <2>1, k \in Key DEF TableInv, HasTable
    <3>4. QED
      BY <2>1, <2>3, <3>2, <3>3
  <2>4. QED
    BY <2>2, <2>3
<1>6. \A x : Leaf(x)' => HasTable(x)'
  BY <1>5 DEF HasTable
<1>7. QED
  BY ONLY <1>4, <1>6 DEF TableInv

\* The end of a put or remove in one leaf.
Puts(t, n, z, k, w) ==
  /\ Owns(t, n) /\ Leaf(n) /\ z \in Node /\ z.kind = node[n].kind /\ k \in Key
  /\ node' = [node EXCEPT ![n] = Unlocked(z)]
  /\ map' = [map EXCEPT ![k] = w]
  /\ \A m : m # k => (m \in Keys(z) <=> m \in Keys(node[n]))
  /\ k \in Keys(z) <=> w # None

LEMMA PutsKeeps ==
  ASSUME NEW lo, NEW hi, TreeIn(lo, hi), TreeIn(lo, hi)', TableInv, map = [m \in Key |-> map[m]],
         NEW t, NEW n, NEW z, NEW k, NEW w, Puts(t, n, z, k, w),
         lo[n] <= IkeyOf[k], Below(IkeyOf[k], hi[n])
  PROVE  TableInv'
<1>1. /\ Leaf(n) /\ z \in Node /\ z.kind = node[n].kind /\ k \in Key
      /\ node' = [node EXCEPT ![n] = Unlocked(z)] /\ map' = [map EXCEPT ![k] = w]
      /\ \A m : m # k => (m \in Keys(z) <=> m \in Keys(node[n]))
      /\ k \in Keys(z) <=> w # None
  BY ONLY Puts(t, n, z, k, w) DEF Puts
<1>2. PICK u : u = Unlocked(z)
  OBVIOUS
<1>3. SameBody(z, u)
  BY <1>1, <1>2, UnlockedIs
<1>4. u.kind = z.kind /\ Keys(u) = Keys(z)
  BY ONLY <1>3 DEF SameBody, Keys
<1>5. n \in NodeId /\ node[n].kind = "leaf" /\ node \in Seq(Node)
  BY ONLY TreeIn(lo, hi), <1>1 DEF Leaf, TreeIn, Types
<1>6. node' = [node EXCEPT ![n] = u]
  BY ONLY <1>1, <1>2
<1>7. NodeId' = NodeId /\ node'[n] = u /\ \A x \in NodeId : x # n => node'[x] = node[x]
  BY ONLY <1>5, <1>6 DEF NodeId
<1>8. \A x : Leaf(x)' <=> Leaf(x)
  BY ONLY <1>1, <1>4, <1>5, <1>7 DEF Leaf
<1>9. \A x : Leaf(x) /\ x # n => Keys(node'[x]) = Keys(node[x])
  BY ONLY <1>7 DEF Leaf
<1>10. map'[k] = w /\ \A m \in Key : m # k => map'[m] = map[m]
  BY ONLY <1>1, map = [m \in Key |-> map[m]]
<1>11. \A m \in Key : map'[m] = map[m] \/ (lo[n] <= IkeyOf[m] /\ Below(IkeyOf[m], hi[n]))
  BY <1>10
<1>12. ASSUME NEW m \in Key, lo[n] <= IkeyOf[m] /\ Below(IkeyOf[m], hi[n]) PROVE m \in Keys(node'[n]) <=> map'[m] # None
  <2>1. Keys(node'[n]) = Keys(z)
    BY <1>4, <1>7
  <2>2. CASE m = k
    BY ONLY <1>1, <1>10, <2>1, <2>2
  <2>3. CASE m # k
    <3>1. From(n) = lo[n] /\ UpTo(n) = hi[n]
      BY <1>1, SpanIs
    <3>2. m \in Keys(node[n]) <=> map[m] # None
      BY ONLY TableInv, <1>1, <1>12, <3>1 DEF TableInv, HasTable, Covers
    <3>3. QED
      BY ONLY <1>1, <1>10, <2>1, <2>3, <3>2, m \in Key
  <2>4. QED
    BY <2>2, <2>3
<1>13. QED
  BY <1>1, <1>8, <1>9, <1>11, <1>12, ChangeKeeps

\* A put or remove takes effect, and knows what to answer.
Wanted(t) == IF req[t].op = "put" THEN "present" ELSE None
Takes(t, a) ==
  /\ pc[t] \in {"locked", "finish"} /\ pc' = [pc EXCEPT ![t] = a] /\ UNCHANGED <<req, pre>>
  /\ Effect(t, K(t), Wanted(t))
  /\ a = IF map[K(t)] = None THEN "missing" ELSE "found"

LEMMA TableAt ==
  ASSUME NEW lo, NEW hi, TreeIn(lo, hi), TableInv, NEW n, Leaf(n), NEW k \in Key,
         lo[n] <= IkeyOf[k], Below(IkeyOf[k], hi[n])
  PROVE  k \in Keys(node[n]) <=> map[k] # None
<1>1. From(n) = lo[n] /\ UpTo(n) = hi[n]
  BY SpanIs
<1>2. QED
  BY <1>1 DEF TableInv, HasTable, Covers

LEMMA MapIs ==
  ASSUME HistoryInv, NEW k \in Key
  PROVE  map = [m \in Key |-> map[m]] /\ map[k] \in {None, "present"}
BY DEF HistoryInv

LEMMA NothingTakes ==
  ASSUME NEW lo, NEW hi, TreeIn(lo, hi), TableInv, HistoryInv, NEW t \in Thread, Nothing(t)
  PROVE  TableInv' /\ \E a : Takes(t, a)
<1>1. PICK n : n = loc[t].leaf
  OBVIOUS
<1>2. PICK k : k = K(t)
  OBVIOUS
<1>3. PICK w : w = map[k]
  OBVIOUS
<1>4. PICK a : a = IF req[t].op = "put" THEN "found" ELSE "missing"
  OBVIOUS
<1>5. /\ pc[t] = "locked" /\ node' = [node EXCEPT ![n] = Unlocked(@)] /\ UNCHANGED <<req, pre>>
      /\ pc' = [pc EXCEPT ![t] = a] /\ Effect(t, k, w) /\ ((req[t].op = "put") = (k \in Keys(node[n])))
  BY <1>1, <1>2, <1>3, <1>4 DEF Nothing, Finish, Goto
<1>6. /\ n \in NodeId /\ Leaf(n) /\ Owns(t, n) /\ node[n] \in Node /\ k \in Key /\ InRange(t, n, lo, hi)
  BY <1>1, <1>2, <1>5, AtWork
<1>7. lo[n] <= IkeyOf[k] /\ Below(IkeyOf[k], hi[n])
  BY ONLY <1>2, <1>6 DEF InRange, Ik
<1>8. k \in Keys(node[n]) <=> w # None
  BY <1>3, <1>6, <1>7, TableAt
<1>9. map = [m \in Key |-> map[m]] /\ w \in {None, "present"}
  BY <1>3, <1>6, MapIs
<1>10. map' = [map EXCEPT ![k] = w]
  BY ONLY <1>5 DEF Effect
<1>11. Puts(t, n, node[n], k, w)
  BY ONLY <1>5, <1>6, <1>8, <1>10 DEF Puts
<1>12. TreeIn(lo, hi)'
  BY NothingKeeps
<1>13. TableInv'
  BY <1>7, <1>9, <1>11, <1>12, PutsKeeps
<1>14. w = Wanted(t)
  BY ONLY <1>5, <1>8, <1>9 DEF Wanted
<1>15. a = IF map[K(t)] = None THEN "missing" ELSE "found"
  BY ONLY <1>2, <1>3, <1>4, <1>5, <1>8
<1>16. Takes(t, a)
  BY ONLY <1>2, <1>5, <1>14, <1>15 DEF Takes
<1>17. QED
  BY <1>13, <1>16

\* A key goes into leaf n, which becomes z.
LEMMA PutTakes ==
  ASSUME NEW lo, NEW hi, TreeIn(lo, hi), TreeIn(lo, hi)', TableInv, HistoryInv, NEW t \in Thread,
         pc[t] \in {"locked", "finish"}, NEW n, n = loc[t].leaf, InRange(t, n, lo, hi), req[t].op = "put",
         K(t) \notin Keys(node[n]), NEW z \in Node, z.kind = node[n].kind, Keys(z) = Keys(node[n]) \cup {K(t)},
         node' = [node EXCEPT ![n] = Unlocked(z)], UNCHANGED <<req, pre>>,
         pc' = [pc EXCEPT ![t] = "missing"], Effect(t, K(t), "present")
  PROVE  TableInv' /\ Takes(t, "missing")
<1>1. PICK k : k = K(t)
  OBVIOUS
<1>2. n \in NodeId /\ Leaf(n) /\ Owns(t, n) /\ k \in Key
  BY <1>1, AtWork
<1>3. lo[n] <= IkeyOf[k] /\ Below(IkeyOf[k], hi[n])
  BY ONLY <1>1, InRange(t, n, lo, hi) DEF InRange, Ik
<1>4. map[k] = None
  BY <1>1, <1>2, <1>3, TableAt
<1>5. map = [m \in Key |-> map[m]]
  BY <1>2, MapIs
<1>6. map' = [map EXCEPT ![k] = "present"]
  BY ONLY <1>1, Effect(t, K(t), "present") DEF Effect
<1>7. Puts(t, n, z, k, "present")
  BY <1>1, <1>2, <1>6, IdleAssumption DEF Puts
<1>8. TableInv'
  BY <1>3, <1>5, <1>7, PutsKeeps
<1>9. Wanted(t) = "present"
  BY DEF Wanted
<1>10. Takes(t, "missing")
  BY <1>1, <1>4, <1>9 DEF Takes
<1>11. QED
  BY <1>8, <1>10

LEMMA FinishTakes ==
  ASSUME NEW lo, NEW hi, TreeIn(lo, hi), TableInv, HistoryInv, NEW t \in Thread, FinishInsert(t)
  PROVE  TableInv' /\ \E a : Takes(t, a)
<1>1. PICK n : n = loc[t].leaf
  OBVIOUS
<1>2. PICK z : z = Inserted(node[n], K(t))
  OBVIOUS
<1>3. /\ pc[t] = "finish" /\ node' = [node EXCEPT ![n] = Unlocked(z)] /\ UNCHANGED <<req, pre>>
      /\ pc' = [pc EXCEPT ![t] = "missing"] /\ Effect(t, K(t), "present")
  BY <1>1, <1>2 DEF FinishInsert, Finish, Goto
<1>4. /\ node[n] \in Node /\ Kept(node[n], n, lo[n], hi[n]) /\ K(t) \in Key /\ Ready(t, n, lo, hi)
  BY <1>1, <1>3, AtWork
<1>5. LeafNode(node[n]) /\ node[n].perm.size < W /\ K(t) \notin Keys(node[n]) /\ InRange(t, n, lo, hi)
  BY ONLY <1>4 DEF Kept, Ready
<1>6. /\ z \in Node /\ Refilled(node[n], z) /\ Keys(z) = Keys(node[n]) \cup {K(t)}
  BY <1>2, <1>4, <1>5, InsertedIs
<1>7. z.kind = node[n].kind
  BY <1>6 DEF Refilled
<1>8. req[t].op = "put"
  BY <1>3 DEF HistoryInv, Served, Putting
<1>9. TreeIn(lo, hi)'
  BY FinishInsertKeeps
<1>10. pc[t] \in {"locked", "finish"}
  BY <1>3
<1>11. QED
  BY <1>1, <1>3, <1>5, <1>6, <1>7, <1>8, <1>9, <1>10, PutTakes

LEMMA InsertHereTakes ==
  ASSUME NEW lo, NEW hi, TreeIn(lo, hi), TableInv, HistoryInv, NEW t \in Thread, InsertHere(t)
  PROVE  TableInv' /\ \E a : Takes(t, a)
<1>1. PICK n : n = loc[t].leaf
  OBVIOUS
<1>2. PICK x : x = Inserting(node[n])
  OBVIOUS
<1>3. PICK y : y = WithSlot(x, K(t))
  OBVIOUS
<1>4. PICK z : z = Inserted(y, K(t))
  OBVIOUS
<1>5. /\ pc[t] = "locked" /\ K(t) \notin Keys(x) /\ HasRoom(x, K(t)) /\ node' = [node EXCEPT ![n] = Unlocked(z)]
      /\ pc' = [pc EXCEPT ![t] = "missing"] /\ UNCHANGED <<req, pre>> /\ Effect(t, K(t), "present")
      /\ req[t].op = "put"
  BY <1>1, <1>2, <1>3, <1>4 DEF InsertHere, Finish, Goto
<1>6. /\ node[n] \in Node /\ InRange(t, n, lo, hi) /\ K(t) \in Key
  BY <1>1, <1>5, AtWork
<1>7. /\ x \in Node /\ Refilled(node[n], x) /\ Kept(x, n, lo[n], hi[n]) /\ (x.prev = Nil <=> n = 1)
      /\ Keys(x) = Keys(node[n])
  BY <1>1, <1>2, <1>5, ToInsert
<1>8. /\ y \in Node /\ Kept(y, n, lo[n], hi[n]) /\ Refilled(x, y) /\ y.perm.size < W /\ Keys(y) = Keys(x)
  BY <1>3, <1>5, <1>6, <1>7, WithSlotIs
<1>9. LeafNode(y) /\ K(t) \notin Keys(y)
  BY <1>5, <1>8 DEF Kept
<1>10. z \in Node /\ Refilled(y, z) /\ Keys(z) = Keys(y) \cup {K(t)}
  BY <1>4, <1>6, <1>8, <1>9, InsertedIs
<1>11. z.kind = node[n].kind /\ Keys(z) = Keys(node[n]) \cup {K(t)} /\ K(t) \notin Keys(node[n])
  BY <1>5, <1>7, <1>8, <1>10 DEF Refilled
<1>12. TreeIn(lo, hi)'
  BY InsertHereKeeps
<1>13. pc[t] \in {"locked", "finish"}
  BY <1>5
<1>14. QED
  BY <1>1, <1>5, <1>6, <1>10, <1>11, <1>12, <1>13, PutTakes

LEMMA RemoveHereTakes ==
  ASSUME NEW lo, NEW hi, TreeIn(lo, hi), TableInv, HistoryInv, NEW t \in Thread, RemoveHere(t)
  PROVE  TableInv' /\ \E a : Takes(t, a)
<1>1. PICK n : n = loc[t].leaf
  OBVIOUS
<1>2. PICK k : k = K(t)
  OBVIOUS
<1>3. PICK z : z = Removed(node[n], k)
  OBVIOUS
<1>4. /\ pc[t] = "locked" /\ k \in Keys(node[n]) /\ node' = [node EXCEPT ![n] = Unlocked(z)]
      /\ pc' = [pc EXCEPT ![t] = "found"] /\ UNCHANGED <<req, pre>> /\ Effect(t, k, None) /\ req[t].op = "remove"
  BY <1>1, <1>2, <1>3 DEF RemoveHere, Finish, Goto
<1>5. /\ node[n] \in Node /\ Leaf(n) /\ Owns(t, n) /\ Kept(node[n], n, lo[n], hi[n]) /\ k \in Key /\ InRange(t, n, lo, hi)
  BY <1>1, <1>2, <1>4, AtWork
<1>6. lo[n] <= IkeyOf[k] /\ Below(IkeyOf[k], hi[n]) /\ LeafNode(node[n])
  BY ONLY <1>2, <1>5 DEF InRange, Ik, Kept
<1>7. z \in Node /\ Refilled(node[n], z) /\ Keys(z) = Keys(node[n]) \ {k}
  BY <1>3, <1>4, <1>5, <1>6, RemovedIs
<1>8. map[k] # None
  BY <1>4, <1>5, <1>6, TableAt
<1>9. map = [m \in Key |-> map[m]]
  BY <1>5, MapIs
<1>10. map' = [map EXCEPT ![k] = None]
  BY ONLY <1>4 DEF Effect
<1>11. z.kind = node[n].kind
  BY ONLY <1>7 DEF Refilled
<1>12. Puts(t, n, z, k, None)
  BY ONLY <1>4, <1>5, <1>7, <1>10, <1>11 DEF Puts
<1>13. TreeIn(lo, hi)'
  BY RemoveHereKeeps
<1>14. TableInv'
  BY <1>6, <1>9, <1>12, <1>13, PutsKeeps
<1>15. Wanted(t) = None
  BY ONLY <1>4 DEF Wanted
<1>16. Takes(t, "found")
  BY ONLY <1>2, <1>4, <1>8, <1>15 DEF Takes
<1>17. QED
  BY <1>14, <1>16

\* A split gives the new leaf the slices from the separator on, and what the table
\* has of them.
LEMMA SplitLeafTable ==
  ASSUME NEW lo, NEW hi, TreeIn(lo, hi), TableInv, NEW t \in Thread, SplitLeaf(t)
  PROVE  TableInv'
<1>1. PICK x : x = loc[t]
  OBVIOUS
<1>2. PICK n : n = x.leaf
  OBVIOUS
<1>3. PICK c, i, left, sp, z : Sprouts(t, x, n, c, i, left, sp, z, lo, hi)
  BY <1>1, <1>2, SproutsIs
<1>4. pc[t] = "locked" /\ map' = map
  BY DEF SplitLeaf, history
<1>5. Leaf(n) /\ n \in NodeId /\ Kept(node[n], n, lo[n], hi[n])
  BY <1>1, <1>2, <1>4, AtWork
<1>6. /\ From(n) = lo[n] /\ UpTo(n) = hi[n] /\ lo[n] \in Nat /\ hi[n] \in Nat \cup {Inf} /\ 1 \in NodeId
  BY <1>5, SpanIs DEF TreeIn, Types
<1>7. /\ NodeId' = NodeId \cup {c} /\ c \notin NodeId /\ c # Nil
      /\ node'[c] = z /\ z.kind = "leaf" /\ z.next = node[n].next
      /\ node'[n].kind = node[n].kind /\ node'[n].perm = node[n].perm /\ node'[n].slot = node[n].slot /\ node'[n].next = c
      /\ \A u \in NodeId \ {n} : SameBody(node[u], node'[u])
      /\ i \in Nat /\ lo[n] < i /\ Below(i, hi[n]) /\ i = IkeyOf[z.slot[0]]
      /\ left \in 0 .. node[n].perm.size
      /\ \A j \in 0 .. left - 1 : IkeyOf[KeyAt(node[n], j)] < i
      /\ Keys(z) = {KeyAt(node[n], j) : j \in left .. node[n].perm.size - 1}
  BY ONLY <1>3 DEF Sprouts
<1>8. \A u \in NodeId : /\ node'[u].kind = node[u].kind /\ node'[u].slot = node[u].slot /\ node'[u].perm = node[u].perm
                        /\ u # n => node'[u].next = node[u].next
  BY ONLY <1>7 DEF SameBody
<1>9. \A u : Leaf(u)' <=> Leaf(u) \/ u = c
  BY ONLY <1>5, <1>7, <1>8 DEF Leaf
<1>10. /\ \A u \in NodeId : From(u)' = From(u) /\ Keys(node'[u]) = Keys(node[u])
       /\ From(c)' = i
  BY ONLY <1>6, <1>7, <1>8 DEF From, Keys
<1>11. \A u : Leaf(u) => node[u].next = Nil \/ node[u].next \in NodeId
  BY NextLeaf DEF Leaf
<1>12. /\ \A u : Leaf(u) /\ u # n => UpTo(u)' = UpTo(u)
       /\ UpTo(n)' = i /\ UpTo(c)' = hi[n]
  <2>1. ASSUME NEW u, NEW q, q = node'[u].next PROVE UpTo(u)' = IF q = Nil THEN Inf ELSE From(q)'
    BY ONLY <2>1 DEF UpTo, From
  <2>2. \A u : Leaf(u) /\ u # n => UpTo(u)' = UpTo(u)
    <3>1. SUFFICES ASSUME NEW u, Leaf(u), u # n PROVE UpTo(u)' = UpTo(u)
      OBVIOUS
    <3>2. PICK q : q = node[u].next
      OBVIOUS
    <3>3. q = node'[u].next /\ (q = Nil \/ From(q)' = From(q))
      BY <1>8, <1>10, <1>11, <3>1, <3>2 DEF Leaf
    <3>4. UpTo(u)' = IF q = Nil THEN Inf ELSE From(q)'
      BY <2>1, <3>3
    <3>5. QED
      BY ONLY <3>2, <3>3, <3>4 DEF UpTo
  <2>3. UpTo(n)' = i
    BY <1>7, <1>10, <2>1
  <2>4. UpTo(c)' = hi[n]
    <3>1. PICK q : q = node[n].next
      OBVIOUS
    <3>2. q = node'[c].next /\ (q = Nil \/ From(q)' = From(q))
      BY <1>5, <1>7, <1>10, <1>11, <3>1
    <3>3. UpTo(c)' = IF q = Nil THEN Inf ELSE From(q)'
      BY <2>1, <3>2
    <3>4. UpTo(c)' = UpTo(n)
      BY ONLY <3>1, <3>2, <3>3 DEF UpTo
    <3>5. QED
      BY <1>6, <3>4
  <2>5. QED
    BY <2>2, <2>3, <2>4
<1>13. \A j \in Nat : /\ Covers(n, j)' <=> lo[n] <= j /\ j < i
                      /\ Covers(c, j)' <=> i <= j /\ Below(j, hi[n])
                      /\ Covers(n, j) <=> lo[n] <= j /\ Below(j, hi[n])
  BY ONLY <1>5, <1>6, <1>7, <1>10, <1>12 DEF Covers, Below, Inf
<1>14. \A u : Leaf(u) /\ u # n => \A j : Covers(u, j)' <=> Covers(u, j)
  BY ONLY <1>10, <1>12 DEF Covers, Below, Leaf
<1>15. \A j \in Nat : Covers(n, j)' \/ Covers(c, j)' => Covers(n, j)
  BY ONLY <1>6, <1>7, <1>13 DEF Below, Inf
<1>16. ASSUME NEW u, NEW v, Leaf(u)', Leaf(v)', u # v, NEW j \in Nat, Covers(u, j)', Covers(v, j)'
       PROVE  FALSE
  <2>1. ~ (Covers(n, j)' /\ Covers(c, j)')
    BY ONLY <1>6, <1>7, <1>13, j \in Nat
  <2>2. PICK u0 : u0 = IF u = c THEN n ELSE u
    OBVIOUS
  <2>3. PICK v0 : v0 = IF v = c THEN n ELSE v
    OBVIOUS
  <2>4. Leaf(u0) /\ Covers(u0, j) /\ Leaf(v0) /\ Covers(v0, j)
    BY ONLY <1>5, <1>9, <1>14, <1>15, <1>16, <2>2, <2>3
  <2>5. u0 # v0
    BY ONLY <1>16, <2>1, <2>2, <2>3
  <2>6. QED
    BY ONLY TableInv, <2>4, <2>5, j \in Nat DEF TableInv
<1>17. ASSUME NEW u, Leaf(u)', NEW k \in Key, Covers(u, IkeyOf[k])'
       PROVE  k \in Keys(node'[u]) <=> map'[k] # None
  <2>1. IkeyOf[k] \in Nat
    BY IkeysAre
  <2>2. CASE u # c
    <3>1. Leaf(u) /\ u \in NodeId
      BY ONLY <1>9, <1>17, <2>2 DEF Leaf
    <3>2. Covers(u, IkeyOf[k])
      BY ONLY <1>14, <1>15, <1>17, <2>1, <3>1
    <3>3. k \in Keys(node[u]) <=> map[k] # None
      BY ONLY TableInv, <3>1, <3>2, k \in Key DEF TableInv, HasTable
    <3>4. QED
      BY ONLY <1>4, <1>10, <3>1, <3>3
  <2>3. CASE u = c
    <3>1. Covers(n, IkeyOf[k]) /\ i <= IkeyOf[k]
      BY ONLY <1>13, <1>15, <1>17, <2>1, <2>3
    <3>2. k \in Keys(node[n]) <=> map[k] # None
      BY ONLY TableInv, <1>5, <3>1, k \in Key DEF TableInv, HasTable
    <3>3. k \in Keys(z) <=> k \in Keys(node[n])
      <4>1. Keys(node[n]) = {KeyAt(node[n], j) : j \in 0 .. node[n].perm.size - 1}
        BY KeysAre
      <4>2. node[n].perm.size \in Nat
        BY <1>5, Positions DEF Kept, LeafNode
      <4>3. \A j \in 0 .. left - 1 : KeyAt(node[n], j) # k
        BY <1>7, <2>1, <3>1
      <4>4. 0 .. node[n].perm.size - 1 = (0 .. left - 1) \cup (left .. node[n].perm.size - 1)
        BY ONLY <1>7, <4>2
      <4>5. QED
        BY ONLY <1>7, <4>1, <4>3, <4>4
    <3>4. QED
      BY ONLY <1>4, <1>7, <2>3, <3>2, <3>3
  <2>4. QED
    BY <2>2, <2>3
<1>18. \A u : Leaf(u)' => HasTable(u)'
  BY <1>17 DEF HasTable
<1>19. QED
  BY <1>16, <1>18 DEF TableInv

\* The left leaf loses what its right sibling has.
LEMMA StripTable ==
  ASSUME NEW lo, NEW hi, TreeIn(lo, hi), TableInv, NEW t \in Thread, Strip(t)
  PROVE  TableInv'
<1>1. pc[t] = "strip" /\ map' = map
  BY DEF Strip, history
<1>2. PICK x : x = loc[t]
  OBVIOUS
<1>3. PICK n : n = x.n
  OBVIOUS
<1>4. PICK c : c = x.child
  OBVIOUS
<1>5. PICK left, leaf2, zl, l : Parting(t, x, n, c, left, leaf2, zl, l)
  BY <1>1, <1>2, <1>3, <1>4, PartingIs
<1>6. /\ NodeId' = NodeId /\ \A u \in NodeId \ {n, c} : node'[u] = node[u]
      /\ Cleared(node[n], node'[n], t) /\ Freed(node[c], node'[c], t)
      /\ n = x.leaf => \E nl : Shed(node[n], left, x.split, nl) /\ node'[n].perm = nl.perm /\ node'[n].slot = nl.slot
      /\ left = node[n].perm.size - node[c].perm.size
  BY ONLY <1>5 DEF Parting
<1>7. /\ Leaf(x.leaf) /\ (n = x.leaf => Half(t, n, c, x.ikey, x.split, lo, hi)) /\ (n # x.leaf => Inner(n))
      /\ n \in NodeId /\ c \in NodeId /\ n # c /\ x.ikey \in Nat /\ hi[n] = x.ikey /\ lo[c] = x.ikey
      /\ node[n].kind = node[c].kind
  BY <1>1, <1>2, <1>3, <1>4, AtStrip
<1>8. node'[n].kind = node[n].kind /\ SameBody(node[c], node'[c]) /\ node'[n].next = node[n].next
  BY ONLY <1>6 DEF Cleared, Freed
<1>9. \A u : Leaf(u)' <=> Leaf(u)
  BY ONLY <1>6, <1>7, <1>8 DEF Leaf, SameBody
<1>10. CASE n # x.leaf
  <2>1. ~ Leaf(n) /\ ~ Leaf(c)
    BY ONLY <1>7, <1>10 DEF Leaf, Inner
  <2>2. \A u : Leaf(u) => node'[u] = node[u]
    BY ONLY <1>6, <2>1 DEF Leaf
  <2>3. LeavesStand
    BY ONLY <1>9, <2>2 DEF LeavesStand
  <2>4. QED
    BY <1>1, <2>3, StandKeeps
<1>11. CASE n = x.leaf
  <2>1. PICK nl : Shed(node[n], left, x.split, nl) /\ node'[n].perm = nl.perm /\ node'[n].slot = nl.slot
    BY ONLY <1>6, <1>11
  <2>2. nl.perm.size = left /\ \A j \in 0 .. left - 1 : KeyAt(nl, j) = KeyAt(node[n], j)
    BY ONLY <2>1 DEF Shed
  <2>3. Keys(node'[n]) = {KeyAt(node[n], j) : j \in 0 .. left - 1}
    <3>1. Keys(node'[n]) = Keys(nl)
      BY ONLY <2>1 DEF Keys
    <3>2. Keys(nl) = {KeyAt(nl, j) : j \in 0 .. nl.perm.size - 1}
      BY KeysAre
    <3>3. QED
      BY ONLY <2>2, <3>1, <3>2
  <2>4. /\ left \in 0 .. node[n].perm.size /\ Leaf(c)
        /\ Keys(node[c]) = {KeyAt(node[n], j) : j \in left .. node[n].perm.size - 1}
    BY ONLY <1>6, <1>7, <1>11 DEF Half
  <2>5. Leaf(n) /\ node[n].perm.size \in Nat
    <3>1. Leaf(n)
      BY ONLY <1>7, <1>11
    <3>2. PermOk(node[n].perm)
      BY <1>7, NodeTypes DEF TreeIn
    <3>3. QED
      BY <3>1, <3>2, Positions
  <2>6. \A u : Leaf(u) /\ u # n => Keys(node'[u]) = Keys(node[u])
    BY ONLY <1>6, <1>8 DEF Leaf, SameBody, Keys
  <2>7. ASSUME NEW m \in Key, lo[n] <= IkeyOf[m] /\ Below(IkeyOf[m], hi[n])
        PROVE  m \in Keys(node'[n]) <=> map'[m] # None
    <3>1. m \in Keys(node[n]) <=> map[m] # None
      BY <2>5, <2>7, TableAt
    <3>2. m \notin Keys(node[c])
      <4>1. SUFFICES ASSUME m \in Keys(node[c]) PROVE FALSE
        OBVIOUS
      <4>2. PICK j \in 0 .. node[c].perm.size - 1 : m = KeyAt(node[c], j)
        BY <4>1, KeysAre
      <4>3. LeafRange(c, lo, hi)
        BY <2>4 DEF TreeIn, NodeIn, Leaf
      <4>4. lo[c] <= IkeyOf[m]
        BY ONLY <4>2, <4>3 DEF LeafRange
      <4>5. IkeyOf[m] \in Nat
        BY IkeysAre
      <4>6. QED
        BY ONLY <1>7, <2>7, <4>4, <4>5 DEF Below, Inf
    <3>3. Keys(node[n]) = {KeyAt(node[n], j) : j \in 0 .. node[n].perm.size - 1}
      BY KeysAre
    <3>4. 0 .. node[n].perm.size - 1 = (0 .. left - 1) \cup (left .. node[n].perm.size - 1)
      BY ONLY <2>4, <2>5
    <3>5. m \in Keys(node'[n]) <=> m \in Keys(node[n])
      BY ONLY <2>3, <2>4, <3>2, <3>3, <3>4
    <3>6. QED
      BY ONLY <1>1, <3>1, <3>5
  <2>8. TreeIn(lo, hi)'
    BY StripKeeps
  <2>9. QED
    BY <1>1, <1>9, <2>5, <2>6, <2>7, <2>8, ChangeKeeps
<1>12. QED
  BY <1>10, <1>11

\* Only internodes come, and what is not p keeps what it holds.
LEMMA Hung ==
  ASSUME NEW p, NodeId \subseteq NodeId', \A y \in NodeId' : y \notin NodeId => node'[y].kind = "inner",
         \A y \in NodeId : y # p => SameBody(node[y], node'[y]),
         p \in NodeId => node[p].kind = "inner" /\ node'[p].kind = "inner"
  PROVE  LeavesStand
<1>1. \A y \in NodeId : y # p => /\ node'[y].kind = node[y].kind /\ node'[y].slot = node[y].slot
                                 /\ node'[y].perm = node[y].perm /\ node'[y].next = node[y].next
  BY DEF SameBody
<1>2. SUFFICES ASSUME NEW y
               PROVE  /\ Leaf(y)' <=> Leaf(y)
                      /\ Leaf(y) => node'[y].slot = node[y].slot /\ node'[y].perm = node[y].perm /\ node'[y].next = node[y].next
  BY DEF LeavesStand
<1>3. CASE y \notin NodeId
  BY <1>3 DEF Leaf
<1>4. CASE y \in NodeId /\ y = p
  BY <1>4 DEF Leaf
<1>5. CASE y \in NodeId /\ y # p
  BY <1>1, <1>5 DEF Leaf
<1>6. QED
  BY <1>3, <1>4, <1>5

LEMMA OneStands ==
  ASSUME Types, NEW n \in NodeId, NEW z, SameBody(node[n], z), node' = [node EXCEPT ![n] = z]
  PROVE  LeavesStand
<1>1. node \in Seq(Node)
  BY DEF Types
<1>2. NodeId' = NodeId /\ node'[n] = z /\ \A x \in NodeId : x # n => node'[x] = node[x]
  BY ONLY node' = [node EXCEPT ![n] = z], n \in NodeId, <1>1 DEF NodeId
<1>3. QED
  BY <1>2 DEF LeavesStand, Leaf, SameBody

LEMMA NodesStand == ASSUME node' = node PROVE LeavesStand
BY DEF LeavesStand, Leaf, NodeId

LEMMA LockStands ==
  ASSUME Types, NEW n \in NodeId, NEW t, node' = [node EXCEPT ![n].lock = t]
  PROVE  LeavesStand
<1>1. node \in Seq(Node) /\ node[n] \in Node
  BY NodeTypes DEF Types
<1>2. PICK z : z = [node[n] EXCEPT !.lock = t]
  OBVIOUS
<1>3. SameBody(node[n], z)
  BY <1>1, <1>2 DEF SameBody, Node
<1>4. node' = [node EXCEPT ![n] = z]
  BY <1>2
<1>5. QED
  BY <1>3, <1>4, OneStands

LEMMA AppendIs ==
  ASSUME Types, NEW f, f = [y \in NodeId |-> f[y]], NEW v, node' = Append(f, v)
  PROVE  NodeId' = NodeId \cup {Fresh} /\ node'[Fresh] = v /\ \A y \in NodeId : node'[y] = f[y]
<1>1. PICK k \in Nat : k = Len(node)
  BY Ids
<1>2. NodeId = 1 .. k /\ Fresh = k + 1
  BY <1>1, Ids DEF Fresh
<1>3. PICK S : S = {f[y] : y \in 1 .. k} \cup {v}
  OBVIOUS
<1>4. f \in [1 .. k -> S] /\ v \in S
  BY <1>2, <1>3
<1>5. f \in Seq(S) /\ Len(f) = k /\ DOMAIN f = 1 .. k
  BY <1>1, <1>4
<1>6. PICK s : s = Append(f, v)
  OBVIOUS
<1>7. DOMAIN s = 1 .. k + 1 /\ s[k + 1] = v /\ \A y \in 1 .. k : s[y] = f[y]
  BY ONLY <1>1, <1>4, <1>5, <1>6
<1>8. NodeId' = 1 .. k + 1
  BY <1>6, <1>7 DEF NodeId
<1>9. NodeId' = NodeId \cup {Fresh}
  BY <1>1, <1>2, <1>8
<1>10. QED
  BY <1>2, <1>6, <1>7, <1>9

\* The leaves keep their slots and links whatever is put above them.
LEMMA NewRootStands ==
  ASSUME NEW lo, NEW hi, TreeIn(lo, hi), NEW t \in Thread, NewRoot(t)
  PROVE  LeavesStand
<1>1. PICK x : x = loc[t]
  OBVIOUS
<1>2. PICK n : n = x.n
  OBVIOUS
<1>3. PICK c : c = x.child
  OBVIOUS
<1>4. PICK v : v = [NewInternode(x.height + 1, n, x.ikey, c) EXCEPT !.ver.root = TRUE]
  OBVIOUS
<1>5. PICK f : f = [node EXCEPT ![n].parent = Fresh, ![c].parent = Fresh]
  OBVIOUS
<1>6. pc[t] = "insert" /\ node' = Append(f, v)
  BY <1>1, <1>2, <1>3, <1>4, <1>5 DEF NewRoot
<1>7. Types /\ n \in NodeId /\ c \in NodeId /\ n # c /\ Fresh \in Nat
  BY <1>1, <1>2, <1>3, <1>6, AtInsert, Ids
<1>8. v.kind = "inner"
  <2>1. PICK a : a = NewInternode(x.height + 1, n, x.ikey, c)
    OBVIOUS
  <2>2. a.kind = "inner"
    BY ONLY <2>1 DEF NewInternode, EmptyNode
  <2>3. v = [a EXCEPT !.ver.root = TRUE]
    BY ONLY <1>4, <2>1
  <2>4. QED
    BY ONLY <2>2, <2>3
<1>9. node = [y \in NodeId |-> node[y]] /\ \A y \in NodeId : node[y] \in Node
  BY <1>7, NodeTypes DEF Types, NodeId
<1>10. f = [y \in NodeId |-> IF y \in {n, c} THEN [node[y] EXCEPT !.parent = Fresh] ELSE node[y]]
  BY <1>5, <1>7, <1>9
<1>11. NodeId' = NodeId \cup {Fresh} /\ node'[Fresh] = v /\ \A y \in NodeId : node'[y] = f[y]
  <2>1. f = [y \in NodeId |-> f[y]]
    BY ONLY <1>10
  <2>2. QED
    BY <1>6, <1>7, <2>1, AppendIs
<1>12. \A y \in NodeId : SameBody(node[y], node'[y])
  <2>1. \A y \in NodeId : SameBody(node[y], [node[y] EXCEPT !.parent = Fresh]) /\ SameBody(node[y], node[y])
    BY <1>7, <1>9, WithParent DEF SameBody
  <2>2. QED
    BY <1>10, <1>11, <2>1
<1>13. QED
  <2>1. PICK p : p = Fresh
    OBVIOUS
  <2>2. p \notin NodeId
    BY <1>7, <2>1, Ids
  <2>3. QED
    BY <1>8, <1>11, <1>12, <2>1, <2>2, Hung

LEMMA InsertChildStands ==
  ASSUME NEW lo, NEW hi, TreeIn(lo, hi), NEW t \in Thread, InsertChild(t)
  PROVE  LeavesStand
<1>1. PICK x : x = loc[t]
  OBVIOUS
<1>2. PICK c : c = x.child
  OBVIOUS
<1>3. PICK p : p = x.p
  OBVIOUS
<1>4. PICK all : all = WithChild(node[p], Upper(x.ikey, node[p]), x.ikey, c)
  OBVIOUS
<1>5. PICK w : w = [all EXCEPT !.ver.inserting = TRUE]
  OBVIOUS
<1>6. pc[t] = "insert" /\ x.p # Nil
  BY <1>1 DEF InsertChild
<1>7. node' = [node EXCEPT ![p] = w, ![c].parent = p]
  <2>1. node' = [node EXCEPT
          ![loc[t].p] = [WithChild(node[loc[t].p], Upper(loc[t].ikey, node[loc[t].p]), loc[t].ikey, loc[t].child)
                           EXCEPT !.ver.inserting = TRUE],
          ![loc[t].child].parent = loc[t].p]
    BY ONLY InsertChild(t), Zenon DEF InsertChild
  <2>2. loc[t].p = p /\ loc[t].ikey = x.ikey /\ loc[t].child = c
    BY <1>1, <1>2, <1>3
  <2>3. node' = [node EXCEPT ![p] = [WithChild(node[p], Upper(x.ikey, node[p]), x.ikey, c) EXCEPT !.ver.inserting = TRUE],
                             ![c].parent = p]
    BY ONLY <2>1, <2>2, Zenon
  <2>4. QED
    BY ONLY <1>4, <1>5, <2>3, Zenon
<1>8. Types /\ p \in NodeId /\ c \in NodeId /\ c # p /\ Inner(p)
  BY <1>1, <1>2, <1>3, <1>6, AtInsert
<1>9. node[p] \in Node /\ node[c] \in Node /\ node[p].kind = "inner" /\ p \in Nat /\ node \in Seq(Node)
  BY <1>8, NodeTypes DEF Inner, Types
<1>10. w.kind = "inner"
  <2>1. all.kind = node[p].kind
    BY ONLY <1>4 DEF WithChild
  <2>2. w.kind = all.kind
    BY ONLY <1>5
  <2>3. QED
    BY ONLY <1>9, <2>1, <2>2
<1>11. PICK u : u = [node[c] EXCEPT !.parent = p]
  OBVIOUS
<1>12. NodeId' = NodeId /\ node'[p] = w /\ node'[c] = u /\ \A y \in NodeId : y # p /\ y # c => node'[y] = node[y]
  BY ONLY <1>7, <1>8, <1>9, <1>11 DEF NodeId
<1>13. SameBody(node[c], u)
  BY <1>9, <1>11, WithParent
<1>14. \A y \in NodeId : y # p => SameBody(node[y], node'[y])
  BY ONLY <1>12, <1>13 DEF SameBody
<1>15. QED
  BY <1>8, <1>9, <1>10, <1>12, <1>14, Hung

LEMMA SplitInternodeStands ==
  ASSUME NEW lo, NEW hi, TreeIn(lo, hi), NEW t \in Thread, SplitInternode(t)
  PROVE  LeavesStand
<1>1. PICK x : x = loc[t]
  OBVIOUS
<1>2. PICK p : p = x.p
  OBVIOUS
<1>3. PICK r : r = Fresh
  OBVIOUS
<1>4. PICK all : all = WithChild(node[p], Upper(x.ikey, node[p]), x.ikey, x.child)
  OBVIOUS
<1>5. PICK mid : mid = IF x.split = 2 THEN Width ELSE (Width + 1) \div 2
  OBVIOUS
<1>6. PICK w, v : Cutting(t, x, p, r, mid, all, w, v)
  BY <1>1, <1>2, <1>3, <1>4, <1>5, CuttingIs
<1>7. pc[t] = "insert" /\ p # Nil
  BY ONLY <1>6, Zenon DEF Cutting
<1>8. PICK f : f = [y \in NodeId |->
        CASE y = p -> w
          [] y \in SX!Range(v.child) -> [node[y] EXCEPT !.parent = r]
          [] y = x.child /\ y \notin SX!Range(v.child) -> [node[y] EXCEPT !.parent = p]
          [] OTHER -> node[y]]
  OBVIOUS
<1>9. node' = Append(f, v)
  <2>1. node' = Append([y \in NodeId |->
          CASE y = p -> w
            [] y \in SX!Range(v.child) -> [node[y] EXCEPT !.parent = r]
            [] y = x.child /\ y \notin SX!Range(v.child) -> [node[y] EXCEPT !.parent = p]
            [] OTHER -> node[y]], v)
    BY ONLY <1>6, Zenon DEF Cutting
  <2>2. QED
    BY ONLY <1>8, <2>1, Zenon
<1>10. Types /\ p \in NodeId /\ Inner(p) /\ r \in Nat
  BY <1>1, <1>2, <1>3, <1>7, AtInsert, Ids
<1>11. \A y \in NodeId : node[y] \in Node
  BY <1>10, NodeTypes
<1>12. node[p].kind = "inner" /\ p \in Nat
  BY <1>10, NodeTypes DEF Inner
<1>13. w.kind = "inner" /\ v.kind = "inner"
  <2>1. w.kind = node[p].kind
    <3>1. w = [node[p] EXCEPT !.ver.inserting = TRUE, !.ver.splitting = TRUE,
                 !.ikeys = SubSeq(all.ikeys, 1, mid), !.child = SubSeq(all.child, 1, mid + 1)]
      BY ONLY <1>6, Zenon DEF Cutting
    <3>2. QED
      BY ONLY <3>1
  <2>2. v.kind = "inner"
    <3>1. v = [EmptyNode EXCEPT !.kind = "inner", !.height = x.height + 1, !.lock = t,
                 !.ver = [node[p].ver EXCEPT !.inserting = TRUE, !.root = FALSE],
                 !.ikeys = SubSeq(all.ikeys, mid + 2, Width + 1),
                 !.child = SubSeq(all.child, mid + 2, Width + 2)]
      BY ONLY <1>6, Zenon DEF Cutting
    <3>2. QED
      BY ONLY <3>1 DEF EmptyNode
  <2>3. QED
    BY <1>12, <2>1, <2>2
<1>14. NodeId' = NodeId \cup {Fresh} /\ node'[Fresh] = v /\ \A y \in NodeId : node'[y] = f[y]
  <2>1. f = [y \in NodeId |-> f[y]]
    BY ONLY <1>8
  <2>2. QED
    BY ONLY <1>9, <1>10, <2>1, AppendIs
<1>15. \A y \in NodeId : y # p => f[y] \in {node[y], [node[y] EXCEPT !.parent = r], [node[y] EXCEPT !.parent = p]}
  BY ONLY <1>8
<1>16. \A y \in NodeId : y # p => SameBody(node[y], node'[y])
  <2>1. \A y \in NodeId : /\ SameBody(node[y], [node[y] EXCEPT !.parent = r])
                          /\ SameBody(node[y], [node[y] EXCEPT !.parent = p]) /\ SameBody(node[y], node[y])
    BY <1>10, <1>11, <1>12, WithParent DEF SameBody
  <2>2. QED
    BY ONLY <1>14, <1>15, <2>1
<1>17. node'[p].kind = "inner"
  <2>1. f[p] \in {w, [node[p] EXCEPT !.parent = r], [node[p] EXCEPT !.parent = p], node[p]}
    BY ONLY <1>8, <1>10
  <2>2. [node[p] EXCEPT !.parent = r].kind = "inner" /\ [node[p] EXCEPT !.parent = p].kind = "inner"
    BY ONLY <1>12
  <2>3. f[p].kind = "inner"
    BY ONLY <1>12, <1>13, <2>1, <2>2
  <2>4. QED
    BY ONLY <1>10, <1>14, <2>3
<1>18. QED
  BY <1>12, <1>13, <1>14, <1>16, <1>17, Hung

-----------------------------------------------------------------------------
(* Steps of the table *)

\* A step on the way, of which the table does not know.
Onward(t, l) ==
  \/ pc[t] \in ReadPc /\ l \in ReadPc
  \/ pc[t] \in ReadPc /\ l = "locked" /\ Write(req[t])
  \/ pc[t] = "locked" /\ req[t].op = "put" /\ l \in Putting
  \/ pc[t] \in Putting /\ l \in Putting
  \/ pc[t] \in {"idle", "trim"} /\ l \in {"idle", "trim"}
Calm(t) ==
  \E l : Onward(t, l) /\ pc' = [pc EXCEPT ![t] = l] /\ UNCHANGED <<map, ans, res, req, pre>>

LEMMA Places ==
  /\ \A l \in ReadPc : l \notin {"idle", "trim", "done", "found", "missing", "locked"} /\ l \notin Putting /\ l \notin WritePc
  /\ \A l \in Putting : l \notin {"idle", "trim", "done", "found", "missing", "locked"} /\ l \notin ReadPc /\ l \in WritePc
  /\ "locked" \in WritePc /\ "locked" \notin Putting /\ "locked" \notin ReadPc
  /\ \A l \in {"idle", "trim", "done", "found", "missing"} : l \notin WritePc /\ l \notin ReadPc /\ l \notin Putting
  /\ \A l \in WritePc : l = "locked" \/ l \in Putting
BY DEF ReadPc, WritePc, Putting, Splitting, Climbing

LEMMA CalmKeeps ==
  ASSUME Types, HistoryInv, NEW t \in Thread, Calm(t)
  PROVE  HistoryInv' /\ UNCHANGED KM!vars
<1>1. PICK l : Onward(t, l) /\ pc' = [pc EXCEPT ![t] = l] /\ UNCHANGED <<map, ans, res, req, pre>>
  BY DEF Calm
<1>2. pc' = [u \in Thread |-> IF u = t THEN l ELSE pc[u]]
  BY <1>1 DEF Types
<1>3. \A u \in Thread : Served(u)
  BY DEF HistoryInv
<1>4. \A u \in Thread : u # t => Served(u)'
  BY ONLY <1>1, <1>2, <1>3 DEF Served
<1>5. pc'[t] = l
  BY ONLY <1>2, t \in Thread
<1>6. Served(t)'
  <2>1. PICK a : a = pc[t]
    OBVIOUS
  <2>2. Served(t) /\ (Write(req[t]) => req[t].op # "get")
    BY <1>3 DEF Write
  <2>3. CASE a \in {"idle", "trim"} /\ l \in {"idle", "trim"}
    <3>1. l \notin ReadPc /\ l \notin WritePc /\ l \notin Putting
      BY ONLY <2>3, Places
    <3>2. QED
      BY ONLY <1>1, <1>5, <2>1, <2>2, <2>3, <3>1 DEF Served
  <2>4. CASE a \in ReadPc /\ l \in ReadPc
    <3>1. /\ l \notin {"idle", "trim", "done", "found", "missing"} /\ l \notin WritePc /\ l \notin Putting
          /\ a \notin {"idle", "trim", "done", "found", "missing"}
      BY ONLY <2>4, Places
    <3>2. QED
      BY ONLY <1>1, <1>5, <2>1, <2>2, <2>4, <3>1 DEF Served
  <2>5. CASE a \in ReadPc /\ l = "locked" /\ Write(req[t])
    <3>1. /\ l \notin {"idle", "trim", "done", "found", "missing"} /\ l \notin ReadPc /\ l \notin Putting
          /\ a \notin {"idle", "trim", "done", "found", "missing"}
      BY ONLY <2>5, Places
    <3>2. QED
      BY ONLY <1>1, <1>5, <2>1, <2>2, <2>5, <3>1 DEF Served
  <2>6. CASE (a \in Putting \/ (a = "locked" /\ req[t].op = "put")) /\ l \in Putting
    <3>1. /\ l \notin {"idle", "trim", "done", "found", "missing"} /\ l \notin ReadPc /\ l \in WritePc
          /\ a \notin {"idle", "trim", "done", "found", "missing"} /\ a \in WritePc
      BY ONLY <2>6, Places
    <3>2. req[t].op = "put"
      BY ONLY <2>1, <2>2, <2>6 DEF Served
    <3>3. QED
      BY ONLY <1>1, <1>5, <2>1, <2>2, <2>6, <3>1, <3>2 DEF Served
  <2>7. QED
    BY ONLY <1>1, <2>1, <2>3, <2>4, <2>5, <2>6 DEF Onward
<1>7. HistoryInv'
  <2>1. /\ map' \in [Key -> {None, "present"}] /\ ans' = [u \in Thread |-> ans'[u]] /\ res' = [u \in Thread |-> res'[u]]
        /\ \E all \in SUBSET KM!Request : pre' \in [load : Seq(all), calls : [Thread -> SUBSET all]]
    BY ONLY <1>1, HistoryInv DEF HistoryInv
  <2>2. \A u \in Thread : Served(u)'
    BY <1>4, <1>6
  <2>3. QED
    BY ONLY <2>1, <2>2 DEF HistoryInv, KM!Request
<1>8. UNCHANGED KM!vars
  BY ONLY <1>1 DEF KM!vars
<1>9. QED
  BY <1>7, <1>8

LEMMA DescendCalm ==
  ASSUME Types, NEW t \in Thread, Descend(t)
  PROVE  Calm(t) /\ node' = node
<1>1. pc = [u \in Thread |-> pc[u]]
  BY DEF Types
<1>2. SUFFICES /\ pc[t] \in ReadPc /\ node' = node /\ UNCHANGED <<map, ans, res, req, pre>>
               /\ \E l \in ReadPc : pc' = [pc EXCEPT ![t] = l]
  BY DEF Calm, Onward
<1>3. CASE ReachRoot(t)
  <2>1. pc[t] = "root" /\ (pc' = pc \/ Goto(t, IF IsLeaf(loc[t].n) THEN "leaf" ELSE "down"))
    BY ONLY <1>3 DEF ReachRoot
  <2>2. pc' = [pc EXCEPT ![t] = "root"] \/ pc' = [pc EXCEPT ![t] = "leaf"] \/ pc' = [pc EXCEPT ![t] = "down"]
    BY ONLY <1>1, <2>1 DEF Goto
  <2>3. QED
    BY ONLY <1>3, <2>1, <2>2 DEF ReachRoot, history, ReadPc
<1>4. CASE ReadChild(t)
  BY ONLY <1>4, Zenon DEF ReadChild, history, ReadPc, Goto
<1>5. CASE ChildVersion(t)
  BY ONLY <1>5 DEF ChildVersion, history, ReadPc, Goto
<1>6. CASE GoDown(t)
  <2>1. pc' = [pc EXCEPT ![t] = "leaf"] \/ pc' = [pc EXCEPT ![t] = "down"]
    BY ONLY <1>6 DEF GoDown, Goto
  <2>2. QED
    BY ONLY <1>6, <2>1 DEF GoDown, history, ReadPc
<1>7. CASE CheckAgain(t)
  BY ONLY <1>7 DEF CheckAgain, history, ReadPc, Goto
<1>8. CASE DeletedLeaf(t)
  BY ONLY <1>8 DEF DeletedLeaf, history, ReadPc, Goto
<1>9. CASE Advance(t)
  <2>1. pc' = [pc EXCEPT ![t] = "leaf"] \/ pc' = [pc EXCEPT ![t] = "walk"]
    BY ONLY <1>9 DEF Advance, Goto
  <2>2. QED
    BY ONLY <1>9, <2>1 DEF Advance, history, ReadPc
<1>10. CASE Walk(t)
  BY ONLY <1>10 DEF Walk, history, ReadPc, Goto
<1>11. CASE Walked(t)
  BY ONLY <1>11 DEF Walked, history, ReadPc, Goto
<1>12. QED
  BY <1>3, <1>4, <1>5, <1>6, <1>7, <1>8, <1>9, <1>10, <1>11 DEF Descend

LEMMA CalmIs ==
  ASSUME NEW t \in Thread, NEW l, pc' = [pc EXCEPT ![t] = l], UNCHANGED <<map, ans, res, req, pre>>,
         (pc[t] \in Putting \/ (pc[t] = "locked" /\ req[t].op = "put")) /\ l \in Putting
  PROVE  Calm(t)
BY DEF Calm, Onward

LEMMA LockLeafCalm ==
  ASSUME NEW lo, NEW hi, TreeIn(lo, hi), NEW t \in Thread, LockLeaf(t)
  PROVE  Calm(t) /\ LeavesStand
<1>1. PICK n : n = loc[t].n
  OBVIOUS
<1>2. /\ pc[t] = "leaf" /\ Write(req[t]) /\ node' = [node EXCEPT ![n].lock = t] /\ pc' = [pc EXCEPT ![t] = "locked"]
      /\ UNCHANGED <<map, ans, res, req, pre>>
  BY <1>1 DEF LockLeaf, Goto, history
<1>3. Types /\ n \in NodeId
  BY <1>1, <1>2, AtLeaf
<1>4. LeavesStand
  BY <1>2, <1>3, LockStands
<1>5. Calm(t)
  BY ONLY <1>2 DEF Calm, Onward, ReadPc
<1>6. QED
  BY <1>4, <1>5

LEMMA ClimbCalm ==
  ASSUME NEW lo, NEW hi, TreeIn(lo, hi), NEW t \in Thread, ReadParent(t) \/ LockParent(t) \/ UnlockTop(t)
  PROVE  Calm(t) /\ LeavesStand
<1>1. PICK x : x = loc[t]
  OBVIOUS
<1>2. {"parent", "lock", "insert", "top", "finish"} \subseteq Putting /\ Putting \subseteq WritePc
  BY DEF WritePc, Putting, Splitting, Climbing
<1>3. pc[t] \in {"parent", "lock", "top"}
  BY ONLY ReadParent(t) \/ LockParent(t) \/ UnlockTop(t) DEF ReadParent, LockParent, UnlockTop
<1>4. Types /\ x.mode = "insert" /\ Writing(t, lo, hi)
  BY <1>1, <1>2, <1>3, Climber
<1>5. CASE ReadParent(t)
  <2>1. node' = node /\ UNCHANGED <<map, ans, res, req, pre>>
    BY ONLY <1>5 DEF ReadParent, history
  <2>2. pc' = [pc EXCEPT ![t] = "insert"] \/ pc' = [pc EXCEPT ![t] = "lock"]
    BY ONLY <1>1, <1>4, <1>5 DEF ReadParent, Goto
  <2>3. QED
    BY <1>2, <1>3, <2>1, <2>2, CalmIs, NodesStand
<1>6. CASE LockParent(t)
  <2>1. UNCHANGED <<map, ans, res, req, pre>> /\ pc[t] = "lock"
    BY ONLY <1>6 DEF LockParent, history
  <2>2. pc' = [pc EXCEPT ![t] = "insert"] \/ pc' = [pc EXCEPT ![t] = "parent"]
    BY ONLY <1>1, <1>4, <1>6 DEF LockParent, Goto
  <2>3. node' = node \/ node' = [node EXCEPT ![x.p].lock = t]
    BY ONLY <1>1, <1>6 DEF LockParent
  <2>4. x.p \in NodeId
    BY <1>1, <1>4, <2>1 DEF Writing, Inner
  <2>5. LeavesStand
    BY <1>4, <2>3, <2>4, LockStands, NodesStand
  <2>6. QED
    BY <1>2, <1>3, <2>1, <2>2, <2>5, CalmIs
<1>7. CASE UnlockTop(t)
  <2>1. /\ pc[t] = "top" /\ node' = [node EXCEPT ![x.p] = Unlocked(node[x.p])] /\ pc' = [pc EXCEPT ![t] = "finish"]
        /\ UNCHANGED <<map, ans, res, req, pre>>
    BY <1>1, <1>7 DEF UnlockTop, Goto, history
  <2>2. x.p \in NodeId
    BY <1>1, <1>4, <2>1 DEF Writing, Inner
  <2>3. PICK z : z = Unlocked(node[x.p])
    OBVIOUS
  <2>4. SameBody(node[x.p], z)
    BY <1>4, <2>2, <2>3, NodeTypes, UnlockedIs
  <2>5. LeavesStand
    BY <1>4, <2>1, <2>2, <2>3, <2>4, OneStands
  <2>6. QED
    BY <1>2, <2>1, <2>5, CalmIs
<1>8. QED
  BY <1>5, <1>6, <1>7

LEMMA PutCalm ==
  ASSUME NEW t \in Thread, NewRoot(t) \/ InsertChild(t) \/ SplitInternode(t) \/ SplitLeaf(t) \/ Strip(t)
  PROVE  Calm(t)
<1>1. {"parent", "strip", "insert", "top", "finish"} \subseteq Putting
  BY DEF Putting, Splitting, Climbing
<1>2. CASE NewRoot(t)
  <2>1. pc[t] = "insert" /\ pc' = [pc EXCEPT ![t] = "strip"] /\ UNCHANGED <<map, ans, res, req, pre>>
    BY ONLY <1>2, Zenon DEF NewRoot, Goto, history
  <2>2. QED
    BY <1>1, <2>1, CalmIs
<1>3. CASE InsertChild(t)
  <2>1. pc[t] = "insert" /\ pc' = [pc EXCEPT ![t] = "strip"] /\ UNCHANGED <<map, ans, res, req, pre>>
    BY ONLY <1>3, Zenon DEF InsertChild, Goto, history
  <2>2. QED
    BY <1>1, <2>1, CalmIs
<1>4. CASE SplitInternode(t)
  <2>1. pc[t] = "insert" /\ pc' = [pc EXCEPT ![t] = "strip"] /\ UNCHANGED <<map, ans, res, req, pre>>
    BY ONLY <1>4, Zenon DEF SplitInternode, Goto, history
  <2>2. QED
    BY <1>1, <2>1, CalmIs
<1>5. CASE SplitLeaf(t)
  <2>1. pc[t] = "locked" /\ req[t].op = "put" /\ pc' = [pc EXCEPT ![t] = "parent"] /\ UNCHANGED <<map, ans, res, req, pre>>
    BY ONLY <1>5, Zenon DEF SplitLeaf, Goto, history
  <2>2. QED
    BY <1>1, <2>1, CalmIs
<1>6. CASE Strip(t)
  <2>1. /\ pc[t] = "strip" /\ UNCHANGED <<map, ans, res, req, pre>>
        /\ Goto(t, IF loc[t].next # Nil THEN "parent" ELSE IF loc[t].p # Nil THEN "top" ELSE "finish")
    BY ONLY <1>6, Zenon DEF Strip, history
  <2>2. PICK l : l = IF loc[t].next # Nil THEN "parent" ELSE IF loc[t].p # Nil THEN "top" ELSE "finish"
    OBVIOUS
  <2>3. l \in {"parent", "top", "finish"} /\ pc' = [pc EXCEPT ![t] = l]
    BY ONLY <2>1, <2>2 DEF Goto
  <2>4. QED
    BY <1>1, <2>1, <2>3, CalmIs
<1>7. QED
  BY <1>2, <1>3, <1>4, <1>5, <1>6

LEMMA TrimCalm ==
  ASSUME NEW lo, NEW hi, TreeIn(lo, hi), NEW t \in Thread, TrimRoot(t) \/ RunCallback(t)
  PROVE  Calm(t) /\ node' = node
<1>1. pc = [u \in Thread |-> pc[u]] /\ RootId(root)
  BY DEF TreeIn, Types
<1>2. CASE RunCallback(t)
  <2>1. pc[t] = "idle" /\ pc' = [pc EXCEPT ![t] = "trim"] /\ node' = node /\ UNCHANGED <<map, ans, res, req, pre>>
    BY ONLY <1>2 DEF RunCallback, Goto, history
  <2>2. QED
    BY ONLY <2>1 DEF Calm, Onward
<1>3. CASE TrimRoot(t)
  <2>1. pc[t] = "trim" /\ UNCHANGED <<map, ans, res, req, pre>>
    BY ONLY <1>3 DEF TrimRoot, history
  <2>2. ~ (node[root].ver.root /\ ~ IsLeaf(root) /\ node[root].ikeys = <<>>)
    <3>1. SUFFICES ASSUME node[root].ver.root, ~ IsLeaf(root), node[root].ikeys = <<>> PROVE FALSE
      OBVIOUS
    <3>2. Types /\ root \in NodeId
      BY FixRootIs DEF TreeIn
    <3>3. Inner(root)
      BY <3>1, <3>2, Kinds
    <3>4. InInner(node[root])
      BY <3>2, <3>3 DEF TreeIn, NodeIn
    <3>5. QED
      BY <3>1, <3>4 DEF InInner
  <2>3. node' = node /\ (pc' = pc \/ pc' = [pc EXCEPT ![t] = "idle"])
    BY ONLY <1>3, <2>2 DEF TrimRoot, Goto
  <2>4. node' = node /\ (pc' = [pc EXCEPT ![t] = "trim"] \/ pc' = [pc EXCEPT ![t] = "idle"])
    BY ONLY <1>1, <2>1, <2>3
  <2>5. QED
    BY ONLY <2>1, <2>4 DEF Calm, Onward
<1>4. QED
  BY <1>2, <1>3

\* What a step may do to the requests, and to the table.
Tells(t, l) ==
  /\ pc' = [pc EXCEPT ![t] = l] /\ \A u \in Thread : u # t => req'[u] = req[u] /\ res'[u] = res[u]
  /\ ans' = [u \in Thread |-> ans'[u]] /\ res' = [u \in Thread |-> res'[u]]
  /\ map' \in [Key -> {None, "present"}]
  /\ \E all \in SUBSET KM!Request : pre' \in [load : Seq(all), calls : [Thread -> SUBSET all]]

LEMMA TellsKeeps ==
  ASSUME Types, HistoryInv, NEW t \in Thread, NEW l, Tells(t, l), Served(t)', map' = map,
         \A u \in Thread : u # t => ans'[u] = ans[u]
  PROVE  HistoryInv'
<1>1. pc' = [u \in Thread |-> IF u = t THEN l ELSE pc[u]]
  BY DEF Types, Tells
<1>2. \A u \in Thread : Served(u)
  BY DEF HistoryInv
<1>3. \A u \in Thread : u # t => pc'[u] = pc[u] /\ req'[u] = req[u] /\ res'[u] = res[u] /\ ans'[u] = ans[u]
  BY <1>1 DEF Tells
<1>4. \A u \in Thread : u # t => Served(u)'
  BY ONLY <1>2, <1>3, map' = map DEF Served
<1>5. \A u \in Thread : Served(u)'
  BY <1>4
<1>6. /\ map' \in [Key -> {None, "present"}] /\ ans' = [u \in Thread |-> ans'[u]] /\ res' = [u \in Thread |-> res'[u]]
      /\ \E all \in SUBSET KM!Request : pre' \in [load : Seq(all), calls : [Thread -> SUBSET all]]
  BY ONLY Tells(t, l) DEF Tells
<1>7. QED
  BY ONLY <1>5, <1>6 DEF HistoryInv, KM!Request

\* A put or remove takes effect.
LEMMA TakesKeeps ==
  ASSUME NEW lo, NEW hi, TreeIn(lo, hi), HistoryInv, NEW t \in Thread, NEW a, Takes(t, a)
  PROVE  HistoryInv' /\ KM!Effect(t)
<1>1. PICK k : k = K(t)
  OBVIOUS
<1>2. PICK w : w = Wanted(t)
  OBVIOUS
<1>3. /\ pc[t] \in {"locked", "finish"} /\ pc' = [pc EXCEPT ![t] = a] /\ UNCHANGED <<req, pre, res>>
      /\ map' = [map EXCEPT ![k] = w]
      /\ ans' = [u \in Thread |->
           IF u = t THEN {IF map[k] = None THEN "missing" ELSE "found"}
           ELSE IF req[u] # Idle /\ req[u].op = "get" /\ req[u].key = k THEN ans[u] \cup {w}
           ELSE ans[u]]
      /\ a = IF map[k] = None THEN "missing" ELSE "found"
  BY <1>1, <1>2 DEF Takes, Effect
<1>4. Types /\ k \in Key /\ \A u \in Thread : pc[u] \notin {"idle", "trim"} => req[u] # Idle
  BY <1>1, <1>3, AtWork DEF TreeIn, ThreadIn
<1>5. \A u \in Thread : Served(u)
  BY DEF HistoryInv
<1>6. pc[t] \in WritePc
  BY <1>3 DEF WritePc, Putting
<1>7. req[t] \in KM!Request /\ res[t] = Idle /\ req[t].op # "get" /\ ans[t] = {}
  BY ONLY <1>3, <1>5, <1>6, t \in Thread DEF Served
<1>8. w \in {None, "present"} /\ w = IF req[t].op = "put" THEN req[t].val ELSE None
  <2>1. req[t].op = "put" => req[t].val = "present"
    BY ONLY <1>7 DEF KM!Request, Val
  <2>2. QED
    BY ONLY <1>2, <2>1 DEF Wanted
<1>9. KM!Effect(t)
  <2>1. req[t] # Idle
    BY ONLY <1>3, <1>4, t \in Thread
  <2>2. KM!Effect(t) <=>
          /\ req[t] # Idle /\ req[t].op # "get" /\ ans[t] = {}
          /\ map' = [map EXCEPT ![req[t].key] = IF req[t].op = "put" THEN req[t].val ELSE None]
          /\ ans' = [u \in Thread |->
               IF u = t THEN {IF map[req[t].key] = None THEN "missing" ELSE "found"}
               ELSE IF req[u] # Idle /\ req[u].op = "get" /\ req[u].key = req[t].key
                    THEN ans[u] \cup {IF req[t].op = "put" THEN req[t].val ELSE None} ELSE ans[u]]
          /\ UNCHANGED <<req, res>>
    BY ONLY Zenon DEF KM!Effect
  <2>3. k = req[t].key
    BY ONLY <1>1 DEF K
  <2>4. /\ map' = [map EXCEPT ![req[t].key] = IF req[t].op = "put" THEN req[t].val ELSE None]
        /\ ans' = [u \in Thread |->
             IF u = t THEN {IF map[req[t].key] = None THEN "missing" ELSE "found"}
             ELSE IF req[u] # Idle /\ req[u].op = "get" /\ req[u].key = req[t].key
                  THEN ans[u] \cup {IF req[t].op = "put" THEN req[t].val ELSE None} ELSE ans[u]]
    BY ONLY <1>3, <1>8, <2>3
  <2>5. UNCHANGED <<req, res>>
    BY ONLY <1>3
  <2>6. QED
    BY ONLY <1>7, <2>1, <2>2, <2>4, <2>5
<1>10. map \in [Key -> {None, "present"}] /\ ans = [u \in Thread |-> ans[u]] /\ res = [u \in Thread |-> res[u]]
  BY ONLY HistoryInv DEF HistoryInv
<1>11. /\ map' \in [Key -> {None, "present"}] /\ map'[k] = w /\ \A m \in Key : m # k => map'[m] = map[m]
  BY ONLY <1>3, <1>4, <1>8, <1>10
<1>12. pc' = [u \in Thread |-> IF u = t THEN a ELSE pc[u]]
  BY <1>3, <1>4 DEF Types
<1>13. ASSUME NEW u \in Thread, u # t PROVE Served(u)'
  <2>1. pc'[u] = pc[u] /\ req'[u] = req[u] /\ res'[u] = res[u] /\ Served(u)
    BY ONLY <1>3, <1>5, <1>12, <1>13
  <2>2. ans'[u] = IF req[u] # Idle /\ req[u].op = "get" /\ req[u].key = k THEN ans[u] \cup {w} ELSE ans[u]
    BY ONLY <1>3, <1>13
  <2>3. req[u].op # "get" => ans'[u] = ans[u]
    BY ONLY <2>2
  <2>4. pc[u] \in ReadPc /\ req[u].op = "get" => map'[req[u].key] \in ans'[u]
    <3>1. SUFFICES ASSUME pc[u] \in ReadPc, req[u].op = "get" PROVE map'[req[u].key] \in ans'[u]
      OBVIOUS
    <3>2. pc[u] \notin {"idle", "trim"}
      BY ONLY <3>1, Places
    <3>3. req[u] \in KM!Request /\ map[req[u].key] \in ans[u]
      BY ONLY <2>1, <3>1, <3>2 DEF Served
    <3>4. req[u].key \in Key /\ req[u] # Idle
      <4>1. req[u].key \in Key
        BY ONLY <3>3 DEF KM!Request
      <4>2. QED
        BY ONLY <1>4, <3>2, <4>1, u \in Thread
    <3>5. QED
      BY ONLY <1>11, <2>2, <3>1, <3>3, <3>4
  <2>5. QED
    BY ONLY <2>1, <2>3, <2>4 DEF Served
<1>14. Served(t)'
  <2>1. pc'[t] = a /\ ans'[t] = {a} /\ req'[t] = req[t] /\ res'[t] = Idle
    BY ONLY <1>3, <1>7, <1>12, t \in Thread
  <2>2. a \notin ReadPc /\ a \notin WritePc /\ a \notin Putting /\ a \notin {"idle", "trim", "done"}
    <3>1. a \in {"found", "missing"}
      BY ONLY <1>3
    <3>2. QED
      BY ONLY <3>1, Places
  <2>3. QED
    BY ONLY <1>7, <2>1, <2>2 DEF Served
<1>15. HistoryInv'
  <2>1. \A u \in Thread : Served(u)'
    BY <1>13, <1>14
  <2>2. ans' = [u \in Thread |-> ans'[u]] /\ res' = [u \in Thread |-> res'[u]]
    BY ONLY <1>3, <1>10
  <2>3. \E all \in SUBSET KM!Request : pre' \in [load : Seq(all), calls : [Thread -> SUBSET all]]
    BY ONLY <1>3, HistoryInv DEF HistoryInv
  <2>4. QED
    BY ONLY <1>11, <2>1, <2>2, <2>3 DEF HistoryInv, KM!Request
<1>16. QED
  BY <1>9, <1>15

\* What a get finds in the leaf it has reached is what the table has.  A leaf that
\* is being split keeps what its new sibling got until Strip.
LEMMA FoundIs ==
  ASSUME NEW lo, NEW hi, TreeIn(lo, hi), TableInv, NEW t \in Thread, pc[t] = "leaf", NEW n, n = loc[t].n,
         ~ HasChanged(n, loc[t].v)
  PROVE  K(t) \in Keys(node[n]) <=> map[K(t)] # None
<1>1. PICK k : k = K(t)
  OBVIOUS
<1>2. /\ Types /\ Leaf(n) /\ n \in NodeId /\ k \in Key /\ lo[n] <= IkeyOf[k] /\ IkeyOf[k] \in Nat
  BY <1>1, AtLeaf DEF Ik
<1>3. Below(IkeyOf[k], ReadHi(n, hi))
  <2>1. pc[t] \in ReadPc
    BY DEF ReadPc
  <2>2. Reading(t, lo, hi)
    BY <2>1, Reader
  <2>3. Fits(t, n, node[n].ver, lo, hi)
    BY ONLY <2>2, pc[t] = "leaf", n = loc[t].n, ~ HasChanged(n, loc[t].v) DEF Reading, HasChanged
  <2>4. QED
    BY ONLY <1>1, <2>3 DEF Fits, Seen, NoSplit, Ik
<1>4. CASE Below(IkeyOf[k], hi[n])
  <2>1. k \in Keys(node[n]) <=> map[k] # None
    BY <1>2, <1>4, TableAt
  <2>2. QED
    BY ONLY <1>1, <2>1
<1>5. CASE ~ Below(IkeyOf[k], hi[n])
  <2>1. PICK u : u = node[n].lock
    OBVIOUS
  <2>2. PICK c : c = loc[u].child
    OBVIOUS
  <2>3. u \in Thread /\ pc[u] \in Splitting /\ loc[u].n = n /\ loc[u].leaf = n /\ Below(IkeyOf[k], hi[c])
    BY ONLY <1>3, <1>5, <2>1, <2>2 DEF ReadHi
  <2>4. Writing(u, lo, hi)
    <3>1. pc[u] \in WritePc
      BY <2>3 DEF WritePc, Putting
    <3>2. QED
      BY <2>3, <3>1, Climber
  <2>5. PICK i : i = loc[u].ikey
    OBVIOUS
  <2>6. PICK h, sp : Pair(u, n, c, i, h, lo, hi) /\ Half(u, n, c, i, sp, lo, hi)
    <3>1. PICK h, sp : h = loc[u].height /\ sp = loc[u].split
      OBVIOUS
    <3>2. Pair(u, n, c, i, h, lo, hi) /\ Half(u, n, c, i, sp, lo, hi)
      BY ONLY <2>2, <2>3, <2>4, <2>5, <3>1 DEF Writing
    <3>3. QED
      BY <3>2
  <2>7. PICK left : left = node[n].perm.size - node[c].perm.size
    OBVIOUS
  <2>8. /\ hi[n] = i /\ lo[c] = i /\ Leaf(c) /\ left \in 0 .. node[n].perm.size
        /\ \A j \in 0 .. left - 1 : IkeyOf[KeyAt(node[n], j)] < i
        /\ Keys(node[c]) = {KeyAt(node[n], j) : j \in left .. node[n].perm.size - 1}
    BY ONLY <2>6, <2>7 DEF Pair, Half
  <2>9. hi[n] \in Nat \cup {Inf} /\ lo[c] \in Nat
    BY <1>2, <2>8, SpanIs
  <2>10. lo[c] <= IkeyOf[k]
    BY ONLY <1>2, <1>5, <2>8, <2>9 DEF Below, Inf
  <2>11. k \in Keys(node[c]) <=> map[k] # None
    BY <1>2, <2>3, <2>8, <2>10, TableAt
  <2>12. k \in Keys(node[c]) <=> k \in Keys(node[n])
    <3>1. Keys(node[n]) = {KeyAt(node[n], j) : j \in 0 .. node[n].perm.size - 1}
      BY KeysAre
    <3>2. node[n].perm.size \in Nat
      <4>1. PermOk(node[n].perm)
        BY <1>2, NodeTypes
      <4>2. QED
        BY <4>1, Positions
    <3>3. \A j \in 0 .. left - 1 : KeyAt(node[n], j) # k
      BY ONLY <1>2, <2>8, <2>9, <2>10
    <3>4. 0 .. node[n].perm.size - 1 = (0 .. left - 1) \cup (left .. node[n].perm.size - 1)
      BY ONLY <2>8, <3>2
    <3>5. QED
      BY ONLY <2>8, <3>1, <3>3, <3>4
  <2>13. QED
    BY ONLY <1>1, <2>11, <2>12
<1>6. QED
  BY <1>4, <1>5

\* The answer of a get.
LEMMA GetEndTells ==
  ASSUME NEW lo, NEW hi, TreeIn(lo, hi), TableInv, HistoryInv, NEW t \in Thread, GetEnd(t)
  PROVE  TableInv' /\ HistoryInv' /\ KM!Answer(t)
<1>1. PICK n : n = loc[t].n
  OBVIOUS
<1>2. PICK k : k = K(t)
  OBVIOUS
<1>3. PICK a : a = IF k \in Keys(node[n]) THEN "present" ELSE None
  OBVIOUS
<1>4. /\ pc[t] = "leaf" /\ req[t].op = "get" /\ ~ HasChanged(n, loc[t].v) /\ res' = [res EXCEPT ![t] = a]
      /\ pc' = [pc EXCEPT ![t] = "done"] /\ UNCHANGED <<node, req, pre, map, ans>>
  BY <1>1, <1>2, <1>3 DEF GetEnd, Answer, Goto
<1>5. /\ map \in [Key -> {None, "present"}] /\ ans = [u \in Thread |-> ans[u]] /\ res = [u \in Thread |-> res[u]]
      /\ \E all \in SUBSET KM!Request : pre \in [load : Seq(all), calls : [Thread -> SUBSET all]]
      /\ Served(t)
  BY ONLY HistoryInv, t \in Thread DEF HistoryInv
<1>6. req[t] # Idle /\ k \in Key /\ Types
  BY <1>2, <1>4, AtLeaf
<1>7. a = map[k]
  <2>1. k \in Keys(node[n]) <=> map[k] # None
    BY <1>1, <1>2, <1>4, FoundIs
  <2>2. map[k] \in {None, "present"}
    BY ONLY <1>5, <1>6
  <2>3. QED
    BY ONLY <1>3, <2>1, <2>2
<1>8. res[t] = Idle /\ map[k] \in ans[t] /\ req[t] \in KM!Request
  BY ONLY <1>2, <1>4, <1>5 DEF Served, ReadPc, K
<1>9. KM!Answer(t)
  <2>1. \E b \in ans[t] : res' = [res EXCEPT ![t] = b]
    BY ONLY <1>4, <1>7, <1>8
  <2>2. QED
    BY ONLY <1>4, <1>6, <1>8, <2>1 DEF KM!Answer
<1>10. Tells(t, "done")
  BY ONLY <1>4, <1>5 DEF Tells
<1>11. Served(t)'
  <2>1. pc'[t] = "done" /\ res'[t] = a /\ req'[t] = req[t]
    BY ONLY <1>4, <1>5, <1>6, t \in Thread DEF Types
  <2>2. a # Idle
    BY <1>3, IdleAssumption
  <2>3. "done" \notin ReadPc /\ "done" \notin WritePc /\ "done" \notin Putting
    BY ONLY Places
  <2>4. QED
    BY ONLY <1>8, <2>1, <2>2, <2>3 DEF Served
<1>12. HistoryInv'
  BY <1>4, <1>6, <1>10, <1>11, TellsKeeps
<1>13. TableInv'
  BY <1>4, NodesStand, StandKeeps
<1>14. QED
  BY <1>9, <1>12, <1>13

\* The answer of a put or remove.
LEMMA ReplyTells ==
  ASSUME NEW lo, NEW hi, TreeIn(lo, hi), TableInv, HistoryInv, NEW t \in Thread, Reply(t)
  PROVE  TableInv' /\ HistoryInv' /\ KM!Answer(t)
<1>1. PICK a : a = pc[t]
  OBVIOUS
<1>2. /\ a \in {"found", "missing"} /\ res' = [res EXCEPT ![t] = a]
      /\ pc' = [pc EXCEPT ![t] = "done"] /\ UNCHANGED <<node, req, pre, map, ans>>
  BY <1>1 DEF Reply, Answer, Goto
<1>3. /\ map \in [Key -> {None, "present"}] /\ ans = [u \in Thread |-> ans[u]] /\ res = [u \in Thread |-> res[u]]
      /\ \E all \in SUBSET KM!Request : pre \in [load : Seq(all), calls : [Thread -> SUBSET all]]
      /\ Served(t)
  BY ONLY HistoryInv, t \in Thread DEF HistoryInv
<1>4. req[t] # Idle /\ Types
  BY <1>1, <1>2 DEF TreeIn, ThreadIn
<1>5. res[t] = Idle /\ ans[t] = {a} /\ req[t] \in KM!Request
  BY ONLY <1>1, <1>2, <1>3 DEF Served
<1>6. KM!Answer(t)
  BY ONLY <1>2, <1>4, <1>5 DEF KM!Answer
<1>7. Tells(t, "done")
  BY ONLY <1>2, <1>3 DEF Tells
<1>8. Served(t)'
  <2>1. pc'[t] = "done" /\ res'[t] = a /\ req'[t] = req[t]
    BY ONLY <1>2, <1>3, <1>4, t \in Thread DEF Types
  <2>2. a # Idle
    BY <1>2, IdleAssumption
  <2>3. "done" \notin ReadPc /\ "done" \notin WritePc /\ "done" \notin Putting
    BY ONLY Places
  <2>4. QED
    BY ONLY <1>5, <2>1, <2>2, <2>3 DEF Served
<1>9. HistoryInv'
  BY <1>2, <1>4, <1>7, <1>8, TellsKeeps
<1>10. TableInv'
  BY <1>2, NodesStand, StandKeeps
<1>11. QED
  BY <1>6, <1>9, <1>10

LEMMA ReturnTells ==
  ASSUME NEW lo, NEW hi, TreeIn(lo, hi), TableInv, HistoryInv, NEW t \in Thread, Return(t)
  PROVE  TableInv' /\ HistoryInv' /\ KM!Return(t)
<1>1. /\ pc[t] = "done" /\ req' = [req EXCEPT ![t] = Idle] /\ ans' = [ans EXCEPT ![t] = {}]
      /\ res' = [res EXCEPT ![t] = Idle] /\ pc' = [pc EXCEPT ![t] = "idle"] /\ UNCHANGED <<node, pre, map>>
  BY DEF Return, Goto
<1>2. /\ map \in [Key -> {None, "present"}] /\ ans = [u \in Thread |-> ans[u]] /\ res = [u \in Thread |-> res[u]]
      /\ \E all \in SUBSET KM!Request : pre \in [load : Seq(all), calls : [Thread -> SUBSET all]]
      /\ Served(t)
  BY ONLY HistoryInv, t \in Thread DEF HistoryInv
<1>3. Types /\ pc \in [Thread -> AllPc] /\ req = [u \in Thread |-> req[u]]
  BY RequestsAre DEF TreeIn
<1>4. KM!Return(t)
  <2>1. res[t] # Idle
    BY ONLY <1>1, <1>2 DEF Served
  <2>2. QED
    BY ONLY <1>1, <2>1 DEF KM!Return
<1>5. Tells(t, "idle") /\ \A u \in Thread : u # t => ans'[u] = ans[u]
  <2>1. \A u \in Thread : u # t => req'[u] = req[u] /\ res'[u] = res[u] /\ ans'[u] = ans[u]
    BY ONLY <1>1, <1>2, <1>3
  <2>2. ans' = [u \in Thread |-> ans'[u]] /\ res' = [u \in Thread |-> res'[u]]
    BY ONLY <1>1, <1>2
  <2>3. QED
    BY ONLY <1>1, <1>2, <2>1, <2>2 DEF Tells
<1>6. Served(t)'
  <2>1. pc'[t] = "idle" /\ res'[t] = Idle /\ req'[t] = Idle
    BY ONLY <1>1, <1>2, <1>3, t \in Thread
  <2>2. "idle" \notin ReadPc /\ "idle" \notin WritePc /\ "idle" \notin Putting
    BY ONLY Places
  <2>3. QED
    BY ONLY <2>1, <2>2 DEF Served
<1>7. HistoryInv'
  BY <1>1, <1>3, <1>5, <1>6, TellsKeeps
<1>8. TableInv'
  BY <1>1, NodesStand, StandKeeps
<1>9. QED
  BY <1>4, <1>7, <1>8

\* A call, of Load or of Call.
LEMMA StartTells ==
  ASSUME NEW lo, NEW hi, TreeIn(lo, hi), TableInv, HistoryInv, NEW t \in Thread, NEW r \in KM!Request, Start(t, r),
         \E all \in SUBSET KM!Request : pre' \in [load : Seq(all), calls : [Thread -> SUBSET all]]
  PROVE  TableInv' /\ HistoryInv' /\ KM!Call(t, r)
<1>1. /\ pc[t] = "idle" /\ req' = [req EXCEPT ![t] = r]
      /\ ans' = [ans EXCEPT ![t] = IF r.op = "get" THEN {map[r.key]} ELSE {}]
      /\ pc' = [pc EXCEPT ![t] = "root"] /\ UNCHANGED <<node, map, res>>
  BY DEF Start, Goto
<1>2. /\ map \in [Key -> {None, "present"}] /\ ans = [u \in Thread |-> ans[u]] /\ res = [u \in Thread |-> res[u]]
      /\ Served(t)
  BY ONLY HistoryInv, t \in Thread DEF HistoryInv
<1>3. Types /\ pc \in [Thread -> AllPc] /\ req = [u \in Thread |-> req[u]]
  BY RequestsAre DEF TreeIn
<1>4. req[t] = Idle /\ res[t] = Idle
  BY ONLY <1>1, <1>2 DEF Served
<1>5. KM!Call(t, r)
  BY ONLY <1>1, <1>4 DEF KM!Call
<1>6. Tells(t, "root") /\ \A u \in Thread : u # t => ans'[u] = ans[u]
  <2>1. \A u \in Thread : u # t => req'[u] = req[u] /\ res'[u] = res[u] /\ ans'[u] = ans[u]
    BY ONLY <1>1, <1>2, <1>3
  <2>2. ans' = [u \in Thread |-> ans'[u]] /\ res' = [u \in Thread |-> res'[u]]
    BY ONLY <1>1, <1>2
  <2>3. QED
    BY <1>1, <1>2, <2>1, <2>2 DEF Tells
<1>7. Served(t)'
  <2>1. /\ pc'[t] = "root" /\ res'[t] = Idle /\ req'[t] = r
        /\ ans'[t] = IF r.op = "get" THEN {map[r.key]} ELSE {}
    BY ONLY <1>1, <1>2, <1>3, <1>4, t \in Thread
  <2>2. "root" \in ReadPc /\ "root" \notin WritePc /\ "root" \notin Putting
    BY DEF ReadPc, WritePc, Putting, Splitting, Climbing
  <2>3. QED
    BY ONLY <1>1, <2>1, <2>2, r \in KM!Request DEF Served, KM!Request
<1>8. HistoryInv'
  BY <1>1, <1>3, <1>6, <1>7, TellsKeeps
<1>9. TableInv'
  BY <1>1, NodesStand, StandKeeps
<1>10. QED
  BY <1>5, <1>8, <1>9

LEMMA LoadTells ==
  ASSUME NEW lo, NEW hi, TreeIn(lo, hi), TableInv, HistoryInv, Load
  PROVE  TableInv' /\ HistoryInv' /\ \E t \in Thread, r \in KM!Request : KM!Call(t, r)
<1>1. PICK s : s = pre.load
  OBVIOUS
<1>2. PICK r : r = Head(s)
  OBVIOUS
<1>3. s # <<>> /\ Start(Loader, r) /\ pre' = [pre EXCEPT !.load = Tail(s)]
  BY <1>1, <1>2 DEF Load
<1>4. PICK all \in SUBSET KM!Request : pre \in [load : Seq(all), calls : [Thread -> SUBSET all]]
  BY DEF HistoryInv
<1>5. s \in Seq(all)
  BY <1>1, <1>4
<1>6. r \in all /\ Tail(s) \in Seq(all)
  BY <1>2, <1>3, <1>5
<1>7. pre' \in [load : Seq(all), calls : [Thread -> SUBSET all]]
  BY ONLY <1>3, <1>4, <1>6
<1>8. r \in KM!Request /\ Loader \in Thread
  BY <1>4, <1>6, ThreadAssumption
<1>9. TableInv' /\ HistoryInv' /\ KM!Call(Loader, r)
  BY <1>3, <1>7, <1>8, StartTells
<1>10. QED
  BY <1>8, <1>9

LEMMA CallTells ==
  ASSUME NEW lo, NEW hi, TreeIn(lo, hi), TableInv, HistoryInv, NEW t \in Thread, Call(t)
  PROVE  TableInv' /\ HistoryInv' /\ \E r \in KM!Request : KM!Call(t, r)
<1>1. PICK r \in pre.calls[t] : Start(t, r)
  BY DEF Call
<1>2. PICK all \in SUBSET KM!Request : pre \in [load : Seq(all), calls : [Thread -> SUBSET all]]
  BY DEF HistoryInv
<1>3. r \in KM!Request
  BY <1>2
<1>4. pre' = pre
  BY DEF Call
<1>5. \E b \in SUBSET KM!Request : pre' \in [load : Seq(b), calls : [Thread -> SUBSET b]]
  BY <1>2, <1>4
<1>6. TableInv' /\ HistoryInv' /\ KM!Call(t, r)
  BY <1>1, <1>3, <1>5, StartTells
<1>7. QED
  BY <1>3, <1>6

\* Where it begins.
LEMMA InitTable ==
  ASSUME Init, MapRequests
  PROVE  TableInv /\ HistoryInv /\ KM!Init
<1>1. PICK y : y = [EmptyNode EXCEPT !.ver.root = TRUE]
  OBVIOUS
<1>2. y.perm = MakeEmpty
  BY <1>1 DEF EmptyNode
<1>3. NodeId = {1} /\ node[1] = y
  BY <1>1 DEF Init, NodeId
<1>4. /\ pc = [t \in Thread |-> "idle"] /\ req = [t \in Thread |-> Idle] /\ res = [t \in Thread |-> Idle]
      /\ map = [k \in Key |-> None] /\ ans = [t \in Thread |-> {}] /\ pre \in Scenario
  BY DEF Init
<1>5. TableInv
  <2>1. \A x : Leaf(x) => x = 1
    BY <1>3 DEF Leaf
  <2>2. Keys(node[1]) = {}
    BY <1>2, <1>3, EmptyPerm DEF Keys
  <2>3. \A x : Leaf(x) => HasTable(x)
    BY <1>4, <2>1, <2>2 DEF HasTable
  <2>4. QED
    BY <2>1, <2>3 DEF TableInv
<1>6. HistoryInv
  <2>1. \A t \in Thread : Served(t)
    <3>1. SUFFICES ASSUME NEW t \in Thread PROVE Served(t)
      OBVIOUS
    <3>2. pc[t] = "idle" /\ req[t] = Idle /\ res[t] = Idle
      BY <1>4
    <3>3. "idle" \notin ReadPc /\ "idle" \notin WritePc /\ "idle" \notin Putting
      BY ONLY Places
    <3>4. QED
      BY ONLY <3>2, <3>3 DEF Served
  <2>2. PICK all : all = SX!Range(pre.load) \cup UNION {pre.calls[t] : t \in Thread}
    OBVIOUS
  <2>3. pre \in [load : Seq(all), calls : [Thread -> SUBSET all]]
    BY <1>4, <2>2, ScenarioAssumption
  <2>4. all \in SUBSET KM!Request
    BY <1>4, <2>2 DEF MapRequests
  <2>5. map \in [Key -> {None, "present"}] /\ ans = [t \in Thread |-> ans[t]] /\ res = [t \in Thread |-> res[t]]
    BY <1>4
  <2>6. QED
    BY ONLY <2>1, <2>3, <2>4, <2>5 DEF HistoryInv
<1>7. KM!Init
  BY <1>4 DEF KM!Init, Val
<1>8. QED
  BY <1>5, <1>6, <1>7

\* Every step that leaves the leaves where they are is a step of the map, or none.
MapStep == TableInv' /\ HistoryInv' /\ (KM!Next \/ UNCHANGED KM!vars)

LEMMA CalmStep ==
  ASSUME NEW lo, NEW hi, TreeIn(lo, hi), TableInv, HistoryInv, NEW t \in Thread, Calm(t), LeavesStand \/ TableInv'
  PROVE  MapStep
<1>1. map' = map
  BY DEF Calm
<1>2. TableInv'
  BY <1>1, StandKeeps
<1>3. HistoryInv' /\ UNCHANGED KM!vars
  BY CalmKeeps DEF TreeIn
<1>4. QED
  BY <1>2, <1>3 DEF MapStep

LEMMA TakesStep ==
  ASSUME NEW lo, NEW hi, TreeIn(lo, hi), HistoryInv, NEW t \in Thread, TableInv' /\ \E a : Takes(t, a)
  PROVE  MapStep
<1>1. PICK a : Takes(t, a)
  OBVIOUS
<1>2. HistoryInv' /\ KM!Effect(t)
  BY <1>1, TakesKeeps
<1>3. QED
  BY <1>2 DEF MapStep, KM!Next

LEMMA StepMaps ==
  ASSUME TreeInv, TableInv, HistoryInv, NEW t \in Thread, Step(t), KeepsLeaves'
  PROVE  MapStep
<1>1. PICK lo, hi : TreeIn(lo, hi)
  BY DEF TreeInv
<1>2. CASE Descend(t)
  BY <1>1, <1>2, DescendCalm, NodesStand, CalmStep DEF TreeIn
<1>3. CASE Update(t)
  <2>1. CASE LockLeaf(t) \/ ReadParent(t) \/ LockParent(t) \/ UnlockTop(t)
    BY <1>1, <2>1, LockLeafCalm, ClimbCalm, CalmStep
  <2>2. CASE NewRoot(t) \/ InsertChild(t) \/ SplitInternode(t)
    BY <1>1, <2>2, PutCalm, NewRootStands, InsertChildStands, SplitInternodeStands, CalmStep
  <2>3. CASE SplitLeaf(t) \/ Strip(t)
    BY <1>1, <2>3, PutCalm, SplitLeafTable, StripTable, CalmStep
  <2>4. CASE TrimRoot(t)
    BY <1>1, <2>4, TrimCalm, NodesStand, CalmStep
  <2>5. CASE Nothing(t) \/ InsertHere(t) \/ FinishInsert(t) \/ RemoveHere(t)
    BY <1>1, <2>5, NothingTakes, InsertHereTakes, FinishTakes, RemoveHereTakes, TakesStep
  <2>6. QED
    BY <1>1, <1>3, <2>1, <2>2, <2>3, <2>4, <2>5, UpdateStays
<1>4. CASE GetEnd(t)
  BY <1>1, <1>4, GetEndTells DEF MapStep, KM!Next
<1>5. CASE Reply(t)
  BY <1>1, <1>5, ReplyTells DEF MapStep, KM!Next
<1>6. CASE Return(t)
  BY <1>1, <1>6, ReturnTells DEF MapStep, KM!Next
<1>7. QED
  BY <1>2, <1>3, <1>4, <1>5, <1>6 DEF Step

LEMMA NextMaps ==
  ASSUME TreeInv, TableInv, HistoryInv, [Next]_vars, KeepsLeaves'
  PROVE  MapStep
<1>1. PICK lo, hi : TreeIn(lo, hi)
  BY DEF TreeInv
<1>2. CASE Load
  BY <1>1, <1>2, LoadTells DEF MapStep, KM!Next
<1>3. ASSUME NEW t \in Thread, Call(t) PROVE MapStep
  BY <1>1, <1>3, CallTells DEF MapStep, KM!Next
<1>4. ASSUME NEW t \in Thread, RunCallback(t) PROVE MapStep
  BY <1>1, <1>4, TrimCalm, NodesStand, CalmStep
<1>5. ASSUME NEW t \in Thread, Step(t) PROVE MapStep
  BY <1>5, StepMaps
<1>6. CASE UNCHANGED vars
  <2>1. node' = node /\ map' = map /\ UNCHANGED <<map, req, ans, res>> /\ pc' = pc /\ pre' = pre
    BY <1>6 DEF vars, history
  <2>2. TableInv'
    BY <1>1, <2>1, NodesStand, StandKeeps
  <2>3. HistoryInv'
    BY ONLY HistoryInv, <2>1 DEF HistoryInv, Served, KM!Request
  <2>4. QED
    BY <2>1, <2>2, <2>3 DEF MapStep, KM!vars
<1>7. CASE Done
  BY <1>6, <1>7 DEF Done
<1>8. QED
  BY <1>2, <1>3, <1>4, <1>5, <1>6, <1>7 DEF Next

\* The leaves, each with the slices that are its own, hold the table: no split
\* loses a key or has it twice, whatever else runs.
THEOREM LeavesHoldTheTable == MapRequests /\ Spec /\ []KeepsLeaves => []TableInv
<1>1. MapRequests /\ Init => TreeInv /\ TableInv /\ HistoryInv
  BY InitIn, InitTable
<1>2. TreeInv /\ TableInv /\ HistoryInv /\ [Next]_vars /\ KeepsLeaves' => TreeInv' /\ TableInv' /\ HistoryInv'
  BY NextKeeps, NextMaps DEF MapStep
<1>3. QED
  BY <1>1, <1>2, PTL DEF Spec

\* Tree implements the map: gets, puts and removes by any number of threads, among
\* any number of splits, answer as if each took effect at one moment of its call,
\* as long as no leaf is taken out.
THEOREM TreeIsLinearizable == MapRequests /\ Spec /\ []KeepsLeaves => Linearizable
<1>1. MapRequests /\ Init => TreeInv /\ TableInv /\ HistoryInv /\ KM!Init
  BY InitIn, InitTable
<1>2. TreeInv /\ TableInv /\ HistoryInv /\ [Next]_vars /\ KeepsLeaves' =>
        TreeInv' /\ TableInv' /\ HistoryInv' /\ [KM!Next]_(KM!vars)
  BY NextKeeps, NextMaps DEF MapStep
<1>3. QED
  BY <1>1, <1>2, PTL DEF Spec, Linearizable, KM!Spec
=============================================================================
