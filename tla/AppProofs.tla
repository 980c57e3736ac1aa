----------------------------- MODULE AppProofs -----------------------------
(***************************************************************************)
(* Proofs about what Apps runs part by part: the tree of files and the     *)
(* browser that walks it (Vfs), the boot console (Console), text mode      *)
(* (TextMode), the screen of a terminal window (TerminalScreen), the       *)
(* image viewer, which reads while other files are read, and the volume    *)
(* that files are read from (Reading), and the calculator (Calculator).    *)
(* The invariants are those of AppInvariants.                              *)
(***************************************************************************)
EXTENDS AppInvariants, FiniteSetTheorems

LEMMA NodeIs ==
  ASSUME NEW tree, TreeIs(tree), NEW n \in 1 .. Len(tree)
  PROVE  /\ Len(tree) \in Nat /\ DOMAIN tree = 1 .. Len(tree) /\ n \in Nat \ {0}
         /\ tree[n] \in NodeType /\ tree[n].kids \in Seq(Nat)
         /\ Len(tree[n].kids) \in Nat /\ DOMAIN tree[n].kids = 1 .. Len(tree[n].kids)
<1>1. tree \in Seq(NodeType)
  BY DEF TreeIs
<1>2. /\ Len(tree) \in Nat /\ DOMAIN tree = 1 .. Len(tree) /\ tree[n] \in NodeType
  BY <1>1, ElementOfSeq
<1>3. tree[n].kids \in Seq(Nat)
  BY <1>2 DEF NodeType
<1> QED
  BY <1>2, <1>3

(* find_in_dir finds the one child of that name. *)
LEMMA FindInDirIs ==
  ASSUME NEW tree, TreeIs(tree), NEW dir \in 1 .. Len(tree), NEW name
  PROVE  LET f == FindInDir(tree, dir, name) IN
         \/ /\ f \in 2 .. Len(tree) /\ tree[f].parent = dir /\ tree[f].name = name
            /\ \A m \in 2 .. Len(tree) : tree[m].parent = dir /\ tree[m].name = name => m = f
         \/ f = 0 /\ \A m \in 2 .. Len(tree) : tree[m].parent = dir => tree[m].name # name
<1> DEFINE kids == tree[dir].kids
           hits == {i \in 1 .. Len(kids) : tree[kids[i]].name = name}
           f == FindInDir(tree, dir, name)
<1>1. /\ kids \in Seq(Nat) /\ Len(kids) \in Nat /\ DOMAIN kids = 1 .. Len(kids)
      /\ tree[dir].type \in {"DIR", "FILE"} /\ Len(tree) \in Nat
  BY NodeIs DEF NodeType
<1>2. KidsAre(tree, dir)
  BY DEF TreeIs
<1>3. CASE tree[dir].type # "DIR"
  <2>1. f = 0
    BY <1>3 DEF FindInDir, NULL
  <2>2. \A m \in 2 .. Len(tree) : tree[m].parent # dir
    BY <1>3 DEF TreeIs
  <2> QED
    BY <2>1, <2>2
<1>4. CASE tree[dir].type = "DIR"
  <2>1. f = IF hits = {} THEN 0 ELSE kids[Min(hits)]
    BY <1>1, <1>4 DEF FindInDir, NULL
  <2>2. CASE hits = {}
    <3>1. f = 0
      BY <2>1, <2>2
    <3>2. \A m \in 2 .. Len(tree) : tree[m].parent = dir => tree[m].name # name
      BY <1>2, <2>2 DEF KidsAre
    <3> QED
      BY <3>1, <3>2
  <2>3. CASE hits # {}
    <3>1. Min(hits) \in hits
      <4>1. hits \subseteq Nat
        BY <1>1
      <4> HIDE DEF hits
      <4> QED
        BY <2>3, <4>1, MinIs
    <3>2. f = kids[Min(hits)]
      BY <2>1, <2>3, Zenon
    <3>3. f \in 2 .. Len(tree) /\ tree[f].parent = dir /\ tree[f].name = name
      <4>1. /\ Min(hits) \in 1 .. Len(kids)
            /\ tree[kids[Min(hits)]].name = name
        BY <3>1, Zenon
      <4>2. kids[Min(hits)] \in 2 .. Len(tree) /\ tree[kids[Min(hits)]].parent = dir
        BY <1>2, <4>1, Zenon DEF KidsAre
      <4> QED
        BY <3>2, <4>1, <4>2, Zenon
    <3>4. \A m \in 2 .. Len(tree) : tree[m].parent = dir /\ tree[m].name = name => m = f
      BY <3>3 DEF TreeIs
    <3> QED
      BY <3>3, <3>4
  <2> QED
    BY <2>2, <2>3
<1> QED
  BY <1>3, <1>4

(* One segment of a path. *)
LEMMA EnterIs ==
  ASSUME NEW tree, TreeIs(tree), NEW current \in 0 .. Len(tree), NEW seg
  PROVE  Enter(tree, current, seg) \in 0 .. Len(tree)
<1>1. Len(tree) \in Nat /\ Len(tree) >= 1
  BY DEF TreeIs
<1>0. current = 0 \/ current \in 1 .. Len(tree)
  BY <1>1
<1>2. CASE current = 0
  BY <1>1, <1>2 DEF Enter, NULL
<1>3. CASE current # 0 /\ seg \in {"", "."}
  BY <1>3 DEF Enter, NULL
<1>4. CASE current # 0 /\ seg = ".."
  <2>1. Enter(tree, current, seg) = Max({tree[current].parent, 1})
    BY <1>4 DEF Enter, NULL, Root
  <2>2. current \in 1 .. Len(tree)
    BY <1>0, <1>4
  <2>3. tree[current].parent \in Nat /\ tree[current].parent <= Len(tree)
    <3>1. current = 1 \/ current \in 2 .. Len(tree)
      BY <1>1, <2>2
    <3> QED
      BY <1>1, <3>1 DEF TreeIs
  <2> QED
    BY <1>1, <2>1, <2>3, MaxIs
<1>5. CASE current # 0 /\ seg \notin {"", ".", ".."}
  <2>1. Enter(tree, current, seg) = FindInDir(tree, current, seg)
    BY <1>5 DEF Enter, NULL
  <2>2. current \in 1 .. Len(tree)
    BY <1>0, <1>5
  <2> QED
    BY <1>1, <2>1, <2>2, FindInDirIs
<1> QED
  BY <1>2, <1>3, <1>4, <1>5

LEMMA WalkIs ==
  ASSUME NEW tree, TreeIs(tree), NEW start \in 0 .. Len(tree), NEW path, Len(path) \in Nat
  PROVE  LET w == WalkFrom(tree, start, path) IN
         /\ w[0] = start
         /\ \A i \in 1 .. Len(path) : w[i] = Enter(tree, w[i - 1], path[i])
         /\ \A i \in 0 .. Len(path) : w[i] \in 0 .. Len(tree)
<1> DEFINE n == Len(path)
           N == 0 .. Len(tree)
           Next1(i, x) == Enter(tree, x, path[i])
           Walks(f) == f = [i \in 0 .. n |-> IF i = 0 THEN start ELSE Next1(i, f[i - 1])]
           w == WalkFrom(tree, start, path)
<1>1. \A x \in N, i \in 1 .. n : Next1(i, x) \in N
  BY EnterIs
<1>2. w = CHOOSE f : Walks(f)
  BY DEF WalkFrom
<1> HIDE DEF N, Next1, w
<1>3. start \in N /\ n \in Nat
  BY DEF N
<1> HIDE DEF n
<1>4. PICK g \in [0 .. n -> N] :
        g[0] = start /\ \A i \in 1 .. n : g[i] = Next1(i, g[i - 1])
  <2> DEFINE step == [i \in 1 .. n |-> [x \in N |-> Next1(i, x)]]
  <2>1. step \in Steps(n, N)
    BY <1>1 DEF Steps
  <2>2. \A i \in 1 .. n, x \in N : step[i][x] = Next1(i, x)
    OBVIOUS
  <2> HIDE DEF step
  <2>3. PICK f : Follows(f, n, N, start, step)
    BY <1>3, <2>1, Iterated, Zenon
  <2>4. f \in [0 .. n -> N] /\ f[0] = start /\ \A i \in 1 .. n : f[i] = step[i][f[i - 1]]
    BY <2>3 DEF Follows
  <2>5. \A i \in 1 .. n : f[i - 1] \in N
    BY <1>3, <2>4
  <2>9. ASSUME NEW i \in 1 .. n PROVE f[i] = Next1(i, f[i - 1])
    BY <2>2, <2>4, <2>5, Zenon
  <2> QED
    BY <2>4, <2>9, Zenon
<1>8. Walks(g)
  <2>1. g = [i \in 0 .. n |-> g[i]]
    OBVIOUS
  <2>2. \A i \in 0 .. n : g[i] = IF i = 0 THEN start ELSE Next1(i, g[i - 1])
    <3>1. \A i \in 0 .. n : i = 0 \/ i \in 1 .. n
      BY <1>3
    <3> QED
      BY <1>4, <3>1
  <2>3. [i \in 0 .. n |-> g[i]] = [i \in 0 .. n |-> IF i = 0 THEN start ELSE Next1(i, g[i - 1])]
    BY <2>2
  <2> QED
    BY <2>1, <2>3, Zenon
<1>9. Walks(w)
  <2> HIDE DEF Walks
  <2> QED
    BY <1>2, <1>8
<1>10. \A i \in 0 .. n : w[i] = IF i = 0 THEN start ELSE Next1(i, w[i - 1])
  <2> TAKE i \in 0 .. n
  <2>1. w[i] = [j \in 0 .. n |-> IF j = 0 THEN start ELSE Next1(j, w[j - 1])][i]
    BY <1>9, Zenon
  <2> QED
    BY <2>1, Zenon
<1>11. w[0] = start /\ \A i \in 1 .. n : w[i] = Next1(i, w[i - 1])
  <2>1. 0 \in 0 .. n /\ \A i \in 1 .. n : i \in 0 .. n /\ i # 0
    BY <1>3
  <2> QED
    BY <1>10, <2>1
<1>12. \A i \in 0 .. n : w[i] \in N
  <2> DEFINE U == {i \in 0 .. n : w[i] \in N}
  <2>1. 0 \in U
    BY <1>3, <1>11
  <2>2. ASSUME NEW i \in 1 .. n, i - 1 \in U PROVE i \in U
    <3>1. i \in 0 .. n /\ w[i - 1] \in N
      BY <1>3, <2>2
    <3>2. w[i] = Next1(i, w[i - 1])
      BY <1>11
    <3> QED
      BY <1>1, <3>1, <3>2
  <2> HIDE DEF U
  <2>3. 0 .. n \subseteq U
    BY <1>3, <2>1, <2>2, UpTo
  <2> QED
    BY <2>3 DEF U
<1> QED
  BY <1>11, <1>12 DEF w, n, N, Next1

LEMMA FindIs ==
  ASSUME NEW tree, NEW path
  PROVE  FindIn(tree, path) = WalkFrom(tree, StartOf(path), path)[Len(path)]
  BY DEF FindIn, WalkFrom, StartOf, Root

(* A name that is not a child's is put behind the children. *)
LEMMA CreatedIs ==
  ASSUME TreeIs(nodes), NEW parent \in 1 .. Len(nodes), nodes[parent].type = "DIR",
         NEW path, NameOf(path) \in Names \ {LongName}, NEW type \in {"DIR", "FILE"},
         FindInDir(nodes, parent, NameOf(path)) = 0
  PROVE  LET tree == Created(parent, path, type) IN
         TreeIs(tree) /\ Grown(nodes, tree) /\ Len(tree) = Len(nodes) + 1
<1> DEFINE N == Len(nodes)
           old == nodes[parent]
           last == [name |-> NameOf(path), type |-> type, parent |-> parent,
                    kids |-> <<>>, content |-> "none"]
           more == [old EXCEPT !.kids = Append(old.kids, N + 1)]
           wide == [nodes EXCEPT ![parent] = more]
           tree == Created(parent, path, type)
<1>1. /\ nodes \in Seq(NodeType) /\ N \in Nat /\ N >= 1 /\ DOMAIN nodes = 1 .. N
      /\ old \in NodeType /\ old.kids \in Seq(Nat) /\ Len(old.kids) \in Nat
      /\ parent \in Nat \ {0} /\ parent <= N
  BY NodeIs DEF TreeIs
<1> DEFINE kids == Append(old.kids, N + 1)
<1>2. /\ kids \in Seq(Nat) /\ Len(kids) = Len(old.kids) + 1 /\ kids[Len(old.kids) + 1] = N + 1
      /\ \A i \in 1 .. Len(old.kids) : kids[i] = old.kids[i]
  BY <1>1
<1> HIDE DEF kids
<1>3. /\ more \in NodeType /\ more.kids = kids /\ more.name = old.name
      /\ more.type = old.type /\ more.parent = old.parent
  BY <1>1, <1>2 DEF NodeType, kids
<1>4. tree = Append(wide, last)
  <2>1. [nodes EXCEPT ![parent].kids = Append(@, N + 1)] = wide
    BY <1>1
  <2> QED
    BY <2>1 DEF Created, Node
<1>5. last \in NodeType
  BY <1>1 DEF NodeType
<1> HIDE DEF more, last
<1>6. /\ wide \in Seq(NodeType) /\ Len(wide) = N /\ wide[parent] = more
      /\ \A n \in 1 .. N : n # parent => wide[n] = nodes[n]
  <2>1. nodes \in [1 .. N -> NodeType]
    BY <1>1
  <2>2. wide \in [1 .. N -> NodeType]
    BY <1>3, <2>1
  <2> QED
    BY <1>1, <1>3, <2>2
<1> HIDE DEF wide, tree
<1>7. /\ tree \in Seq(NodeType) /\ Len(tree) = N + 1 /\ tree[N + 1] = last
      /\ \A n \in 1 .. N : tree[n] = wide[n]
  BY <1>1, <1>4, <1>5, <1>6
<1>8. /\ last.name = NameOf(path) /\ last.type = type /\ last.parent = parent
      /\ last.kids = <<>>
  BY DEF last
<1>9. \A n \in 1 .. N : /\ tree[n].name = nodes[n].name /\ tree[n].type = nodes[n].type
                        /\ tree[n].parent = nodes[n].parent
                        /\ tree[n].kids = IF n = parent THEN kids ELSE nodes[n].kids
  BY <1>3, <1>6, <1>7
<1>10. \A n : n \in 1 .. N + 1 <=> n \in 1 .. N \/ n = N + 1
  BY <1>1
<1>11. Grown(nodes, tree)
  <2>1. ASSUME NEW n \in 1 .. N
        PROVE  /\ Len(tree[n].kids) >= Len(nodes[n].kids)
               /\ \A i \in 1 .. Len(nodes[n].kids) : tree[n].kids[i] = nodes[n].kids[i]
    <3>1. Len(nodes[n].kids) \in Nat
      BY NodeIs
    <3>2. CASE n = parent
      BY <1>1, <1>2, <1>9, <3>2
    <3>3. CASE n # parent
      BY <1>9, <3>1, <3>3
    <3> QED
      BY <3>2, <3>3
  <2> QED
    BY <1>1, <1>7, <1>9, <2>1 DEF Grown
<1>12. \A n \in 2 .. N + 1 : tree[n].parent \in 1 .. n - 1 /\ tree[tree[n].parent].type = "DIR"
  <2> TAKE n \in 2 .. N + 1
  <2>1. CASE n = N + 1
    BY <1>1, <1>7, <1>8, <1>9, <2>1
  <2>2. CASE n # N + 1
    <3>1. n \in 2 .. N /\ nodes[n].parent \in 1 .. n - 1
      BY <1>1, <2>2 DEF TreeIs
    <3>2. nodes[n].parent \in 1 .. N /\ n \in 1 .. N
      BY <1>1, <3>1
    <3> QED
      BY <1>9, <3>1, <3>2 DEF TreeIs
  <2> QED
    BY <2>1, <2>2
<1>13. ASSUME NEW n \in 1 .. N + 1 PROVE KidsAre(tree, n)
  <2>1. CASE n = N + 1
    <3>1. tree[n].kids = <<>>
      BY <1>7, <1>8, <2>1
    <3>2. \A m \in 2 .. N + 1 : tree[m].parent # n
      BY <1>1, <1>12, <2>1
    <3>3. \A i \in 1 .. Len(tree[n].kids) : FALSE
      BY <3>1
    <3> QED
      BY <1>7, <3>2, <3>3 DEF KidsAre
  <2>2. CASE n # N + 1
    <3>1. n \in 1 .. N /\ KidsAre(nodes, n)
      BY <1>10, <2>2 DEF TreeIs
    <3> DEFINE s == nodes[n].kids
    <3>2. /\ Len(s) \in Nat
          /\ \A i \in 1 .. Len(s) :
               /\ s[i] \in 2 .. N /\ s[i] \in 2 .. N + 1 /\ s[i] \in 1 .. N /\ s[i] # N + 1
               /\ tree[s[i]].parent = n
               /\ \A j \in 1 .. Len(s) : s[i] = s[j] => i = j
      <4>1. Len(s) \in Nat
        BY <3>1, NodeIs
      <4>2. ASSUME NEW i \in 1 .. Len(s)
            PROVE  /\ s[i] \in 2 .. N /\ nodes[s[i]].parent = n
                   /\ \A j \in 1 .. Len(s) : s[i] = s[j] => i = j
        BY <3>1 DEF KidsAre
      <4>3. \A x \in 2 .. N : x \in 2 .. N + 1 /\ x \in 1 .. N /\ x # N + 1
        BY <1>1
      <4> QED
        BY <1>9, <4>1, <4>2, <4>3
    <3>3. \A m \in 2 .. N : tree[m].parent = n => \E i \in 1 .. Len(s) : s[i] = m
      <4>1. \A m \in 2 .. N : m \in 1 .. N
        BY <1>1
      <4> QED
        BY <1>9, <3>1, <4>1 DEF KidsAre
    <3> HIDE DEF s
    <3>4. \A m \in 2 .. N + 1 : m \in 2 .. N \/ m = N + 1
      BY <1>1
    <3>5. CASE n # parent
      <4>1. tree[n].kids = s
        BY <1>9, <3>1, <3>5 DEF s
      <4>2. tree[N + 1].parent # n
        BY <1>7, <1>8, <3>5
      <4>3. \A m \in 2 .. N + 1 : tree[m].parent = n => \E i \in 1 .. Len(s) : s[i] = m
        BY <3>3, <3>4, <4>2
      <4>4. \A i \in 1 .. Len(s) :
              /\ s[i] \in 2 .. N + 1 /\ tree[s[i]].parent = n
              /\ \A j \in 1 .. Len(s) : s[i] = s[j] => i = j
        BY <3>2
      <4> QED
        BY <1>7, <4>1, <4>3, <4>4 DEF KidsAre
    <3>6. CASE n = parent
      <4>1. /\ tree[n].kids = kids /\ Len(kids) = Len(s) + 1 /\ kids[Len(s) + 1] = N + 1
            /\ \A i \in 1 .. Len(s) : kids[i] = s[i]
        BY <1>2, <1>9, <3>1, <3>6 DEF s
      <4>2. N + 1 \in 2 .. N + 1 /\ tree[N + 1].parent = n
        BY <1>1, <1>7, <1>8, <3>6
      <4>3. \A i \in 1 .. Len(s) + 1 : i \in 1 .. Len(s) \/ i = Len(s) + 1
        BY <3>2
      <4>4. ASSUME NEW i \in 1 .. Len(kids)
            PROVE  /\ kids[i] \in 2 .. N + 1 /\ tree[kids[i]].parent = n
                   /\ \A j \in 1 .. Len(kids) : kids[i] = kids[j] => i = j
        <5>1. CASE i = Len(s) + 1
          BY <3>2, <4>1, <4>2, <4>3, <5>1
        <5>2. CASE i \in 1 .. Len(s)
          <6>1. kids[i] = s[i] /\ s[i] \in 2 .. N + 1 /\ tree[s[i]].parent = n /\ s[i] # N + 1
            BY <3>2, <4>1, <5>2
          <6>2. ASSUME NEW j \in 1 .. Len(kids), kids[i] = kids[j] PROVE i = j
            <7>1. j \in 1 .. Len(s)
              BY <4>1, <4>3, <6>1, <6>2
            <7> QED
              BY <3>2, <4>1, <5>2, <6>2, <7>1
          <6> QED
            BY <6>1, <6>2
        <5> QED
          BY <4>1, <4>3, <5>1, <5>2
      <4>5. ASSUME NEW m \in 2 .. N + 1, tree[m].parent = n
            PROVE  \E i \in 1 .. Len(kids) : kids[i] = m
        <5>1. CASE m = N + 1
          <6>1. Len(s) + 1 \in 1 .. Len(kids)
            BY <3>2, <4>1
          <6> QED
            BY <4>1, <5>1, <6>1
        <5>2. CASE m \in 2 .. N
          <6>1. PICK i \in 1 .. Len(s) : s[i] = m
            BY <3>3, <4>5, <5>2
          <6>2. i \in 1 .. Len(kids)
            BY <3>2, <4>1
          <6> QED
            BY <4>1, <6>1, <6>2
        <5> QED
          BY <3>4, <5>1, <5>2
      <4> QED
        BY <1>7, <4>1, <4>4, <4>5 DEF KidsAre
    <3> QED
      BY <3>5, <3>6
  <2> QED
    BY <2>1, <2>2
<1>14. ASSUME NEW k \in 2 .. N + 1, NEW m \in 2 .. N + 1,
              tree[k].parent = tree[m].parent, tree[k].name = tree[m].name
       PROVE  k = m
  <2>1. \A x \in 2 .. N + 1 : (x \in 2 .. N /\ x \in 1 .. N) \/ x = N + 1
    BY <1>1
  <2>2. \A x \in 2 .. N : tree[x].parent = parent => tree[x].name # NameOf(path)
    <3>1. \A x \in 2 .. N : nodes[x].parent = parent => nodes[x].name # NameOf(path)
      <4>1. 0 \notin 2 .. N
        OBVIOUS
      <4> QED
        BY <4>1, FindInDirIs
    <3>2. \A x \in 2 .. N : x \in 1 .. N
      BY <1>1
    <3> QED
      BY <1>9, <3>1, <3>2
  <2>3. tree[N + 1].parent = parent /\ tree[N + 1].name = NameOf(path)
    BY <1>7, <1>8
  <2>4. CASE k \in 2 .. N /\ m \in 2 .. N
    <3>1. k \in 1 .. N /\ m \in 1 .. N
      BY <1>1, <2>4
    <3> QED
      BY <1>9, <1>14, <2>4, <3>1 DEF TreeIs
  <2> QED
    BY <1>14, <2>1, <2>2, <2>3, <2>4
<1>15. tree[1].type = "DIR" /\ tree[1].parent = 0
  BY <1>1, <1>9 DEF TreeIs
<1>16. TreeIs(tree)
  BY <1>1, <1>7, <1>12, <1>13, <1>14, <1>15 DEF TreeIs
<1> QED
  BY <1>7, <1>11, <1>16 DEF tree

LEMMA WrittenIs ==
  ASSUME NEW tree, TreeIs(tree), NEW node \in 1 .. Len(tree), NEW data \in Data
  PROVE  LET new == [tree EXCEPT ![node].content = data] IN
         TreeIs(new) /\ Grown(tree, new) /\ Len(new) = Len(tree)
<1> DEFINE N == Len(tree)
           r == [tree[node] EXCEPT !.content = data]
           new == [tree EXCEPT ![node] = r]
<1>1. tree \in [1 .. N -> NodeType] /\ N \in Nat /\ tree[node] \in NodeType
  BY DEF TreeIs
<1>2. [tree EXCEPT ![node].content = data] = new
  BY <1>1
<1>3. /\ r \in NodeType /\ r.kids = tree[node].kids /\ r.name = tree[node].name
      /\ r.type = tree[node].type /\ r.parent = tree[node].parent
  BY <1>1 DEF NodeType
<1> HIDE DEF r
<1>4. new \in [1 .. N -> NodeType]
  BY <1>1, <1>3
<1>5. \A n \in 1 .. N : /\ new[n].kids = tree[n].kids /\ new[n].name = tree[n].name
                        /\ new[n].type = tree[n].type /\ new[n].parent = tree[n].parent
  BY <1>1, <1>3
<1> HIDE DEF new
<1>6. new \in Seq(NodeType) /\ Len(new) = N
  BY <1>1, <1>4
<1>7. Grown(tree, new)
  <2>1. \A n \in 1 .. N : Len(tree[n].kids) >= Len(tree[n].kids)
    BY NodeIs
  <2> QED
    BY <1>1, <1>5, <1>6, <2>1 DEF Grown
<1>8. \A n \in 2 .. N : n \in 1 .. N
  BY <1>1
<1>9. \A n \in 2 .. N : new[n].parent \in 1 .. n - 1 /\ new[new[n].parent].type = "DIR"
  <2> TAKE n \in 2 .. N
  <2>1. tree[n].parent \in 1 .. n - 1 /\ tree[tree[n].parent].type = "DIR"
    BY DEF TreeIs
  <2>2. tree[n].parent \in 1 .. N
    BY <1>1, <2>1
  <2> QED
    BY <1>5, <1>8, <2>1, <2>2
<1>10. ASSUME NEW n \in 1 .. N PROVE KidsAre(new, n)
  <2>1. KidsAre(tree, n)
    BY DEF TreeIs
  <2>2. \A i \in 1 .. Len(tree[n].kids) :
          /\ tree[n].kids[i] \in 2 .. N /\ new[tree[n].kids[i]].parent = n
          /\ \A j \in 1 .. Len(tree[n].kids) : tree[n].kids[i] = tree[n].kids[j] => i = j
    BY <1>5, <1>8, <2>1 DEF KidsAre
  <2>3. \A m \in 2 .. N :
          new[m].parent = n => \E i \in 1 .. Len(tree[n].kids) : tree[n].kids[i] = m
    BY <1>5, <1>8, <2>1 DEF KidsAre
  <2>4. new[n].kids = tree[n].kids
    BY <1>5
  <2> QED
    BY <1>6, <2>2, <2>3, <2>4 DEF KidsAre
<1>11. \A k, m \in 2 .. N :
         new[k].parent = new[m].parent /\ new[k].name = new[m].name => k = m
  BY <1>5, <1>8 DEF TreeIs
<1>12. new[1].type = "DIR" /\ new[1].parent = 0 /\ N >= 1
  <2>1. 1 \in 1 .. N
    BY <1>1 DEF TreeIs
  <2> QED
    BY <1>1, <1>5, <2>1 DEF TreeIs
<1> QED
  BY <1>2, <1>6, <1>7, <1>9, <1>10, <1>11, <1>12 DEF TreeIs

LEMMA GrownOn ==
  ASSUME NEW a, NEW b, NEW c, TreeIs(a), TreeIs(b), TreeIs(c), Grown(a, b), Grown(b, c)
  PROVE  Grown(a, c)
<1>1. Len(a) \in Nat /\ Len(b) \in Nat /\ Len(c) \in Nat /\ Len(b) >= Len(a) /\ Len(c) >= Len(b)
  BY DEF TreeIs, Grown
<1>2. ASSUME NEW n \in 1 .. Len(a)
      PROVE  /\ c[n].name = a[n].name /\ c[n].type = a[n].type /\ c[n].parent = a[n].parent
             /\ Len(c[n].kids) >= Len(a[n].kids)
             /\ \A i \in 1 .. Len(a[n].kids) : c[n].kids[i] = a[n].kids[i]
  <2>1. n \in 1 .. Len(b) /\ n \in 1 .. Len(c)
    BY <1>1
  <2>2. Len(a[n].kids) \in Nat /\ Len(b[n].kids) \in Nat /\ Len(c[n].kids) \in Nat
    BY <2>1, NodeIs
  <2>3. Len(c[n].kids) >= Len(b[n].kids) /\ Len(b[n].kids) >= Len(a[n].kids)
    BY <2>1 DEF Grown
  <2>4. \A i \in 1 .. Len(a[n].kids) : i \in 1 .. Len(b[n].kids)
    BY <2>2, <2>3
  <2> QED
    BY <2>1, <2>2, <2>3, <2>4 DEF Grown
<1> QED
  BY <1>1, <1>2 DEF Grown

LEMMA NamesIs ==
  ASSUME TreeIs(nodes), NEW base \in Seq(STRING)
  PROVE  LET f == NamesFrom(base) IN
         /\ f[1] = base
         /\ \A n \in 2 .. Len(nodes) : f[n] = Append(f[nodes[n].parent], nodes[n].name)
         /\ \A n \in 1 .. Len(nodes) : f[n] \in Seq(STRING)
<1> DEFINE N == Len(nodes)
           up(n) == nodes[n].parent
           name(n) == nodes[n].name
           Names1(f, k) ==
             \A n \in 1 .. k : f[n] = IF n = 1 THEN base ELSE Append(f[up(n)], name(n))
           T == {k \in 0 .. N : \E f \in [1 .. k -> Seq(STRING)] : Names1(f, k)}
           Is(f) == f = [n \in 1 .. N |-> IF n = 1 THEN base ELSE Append(f[up(n)], name(n))]
           w == NamesFrom(base)
<1>1. N \in Nat /\ DOMAIN nodes = 1 .. N
  BY DEF TreeIs
<1>2. w = CHOOSE f : Is(f)
  BY <1>1 DEF NamesFrom, Root
<1>3. /\ \A n \in 2 .. N : up(n) \in 1 .. n - 1
      /\ \A n \in 1 .. N : name(n) \in STRING
  <2>1. ASSUME NEW n \in 1 .. N PROVE name(n) \in STRING
    BY NodeIs, VfsAssumption DEF VfsConstants, NodeType
  <2> QED
    BY <2>1 DEF TreeIs
<1> HIDE DEF N, up, name, w
<1>4. 0 \in T
  <2> DEFINE f == [n \in 1 .. 0 |-> base]
  <2>1. f \in [1 .. 0 -> Seq(STRING)]
    OBVIOUS
  <2>2. 0 \in 0 .. N /\ \A n \in 1 .. 0 : FALSE
    BY <1>1
  <2> HIDE DEF f
  <2>3. Names1(f, 0)
    BY <2>2
  <2> QED
    BY <2>1, <2>2, <2>3
<1>5. ASSUME NEW k \in 1 .. N, k - 1 \in T PROVE k \in T
  <2>1. PICK f \in [1 .. k - 1 -> Seq(STRING)] : Names1(f, k - 1)
    BY <1>5
  <2> DEFINE here == IF k = 1 THEN base ELSE Append(f[up(k)], name(k))
             g == [n \in 1 .. k |-> IF n = k THEN here ELSE f[n]]
  <2>2. k \in Nat \ {0} /\ k \in 0 .. N /\ \A n \in 1 .. k : n # k => n \in 1 .. k - 1
    BY <1>1
  <2>3. here \in Seq(STRING)
    <3>1. CASE k = 1
      BY <3>1
    <3>2. CASE k # 1
      <4>1. k \in 2 .. N
        BY <1>1, <2>2, <3>2
      <4>2. f[up(k)] \in Seq(STRING) /\ name(k) \in STRING
        BY <1>3, <4>1
      <4> QED
        BY <3>2, <4>2
    <3> QED
      BY <3>1, <3>2
  <2> HIDE DEF here
  <2>4. g \in [1 .. k -> Seq(STRING)]
    BY <2>2, <2>3
  <2>5. ASSUME NEW n \in 1 .. k
        PROVE  g[n] = IF n = 1 THEN base ELSE Append(g[up(n)], name(n))
    <3>1. n # 1 => /\ up(n) \in 1 .. k /\ up(n) \in 1 .. k - 1 /\ up(n) # k
                   /\ (n # k => up(n) \in 1 .. k - 1)
      <4>1. n # 1 => n \in 2 .. N
        BY <1>1, <2>2
      <4> QED
        BY <1>1, <1>3, <2>2, <4>1
    <3>2. n # 1 => g[up(n)] = f[up(n)]
      BY <3>1
    <3>3. CASE n = k
      BY <3>2, <3>3 DEF here
    <3>4. CASE n # k
      <4>1. n \in 1 .. k - 1 /\ g[n] = f[n]
        BY <2>2, <3>4
      <4> QED
        BY <2>1, <3>2, <4>1
    <3> QED
      BY <3>3, <3>4
  <2> HIDE DEF g
  <2> QED
    BY <2>2, <2>4, <2>5
<1>6. N \in T
  <2> HIDE DEF T
  <2>1. 0 .. N \subseteq T
    BY <1>1, <1>4, <1>5, UpTo
  <2> QED
    BY <1>1, <2>1
<1>7. PICK g \in [1 .. N -> Seq(STRING)] : Names1(g, N)
  BY <1>6
<1>8. Is(g)
  <2>1. g = [n \in 1 .. N |-> g[n]]
    OBVIOUS
  <2>2. [n \in 1 .. N |-> g[n]]
          = [n \in 1 .. N |-> IF n = 1 THEN base ELSE Append(g[up(n)], name(n))]
    BY <1>7
  <2> QED
    BY <2>1, <2>2, Zenon
<1>9. Is(w)
  <2> HIDE DEF Is
  <2> QED
    BY <1>2, <1>8
<1>10. \A n \in 1 .. N : w[n] = IF n = 1 THEN base ELSE Append(w[up(n)], name(n))
  <2> TAKE n \in 1 .. N
  <2>1. w[n] = [m \in 1 .. N |-> IF m = 1 THEN base ELSE Append(w[up(m)], name(m))][n]
    BY <1>9, Zenon
  <2> QED
    BY <2>1, Zenon
<1>11. \A n \in 1 .. N : w[n] \in Seq(STRING)
  <2> DEFINE U == {k \in 0 .. N : \A n \in 1 .. k : w[n] \in Seq(STRING)}
  <2>1. 0 \in U
    BY <1>1
  <2>2. ASSUME NEW k \in 1 .. N, k - 1 \in U PROVE k \in U
    <3>1. k \in Nat /\ k \in 0 .. N /\ \A n \in 1 .. k : n \in 1 .. k - 1 \/ n = k
      BY <1>1
    <3>2. w[k] \in Seq(STRING)
      <4>1. CASE k = 1
        BY <1>10, <4>1
      <4>2. CASE k # 1
        <5>1. k \in 2 .. N
          BY <3>1, <4>2
        <5>2. w[up(k)] \in Seq(STRING) /\ name(k) \in STRING
          BY <1>3, <2>2, <5>1
        <5>3. w[k] = Append(w[up(k)], name(k))
          BY <1>10, <4>2
        <5> QED
          BY <5>2, <5>3
      <4> QED
        BY <4>1, <4>2
    <3> QED
      BY <2>2, <3>1, <3>2
  <2> HIDE DEF U
  <2>3. 0 .. N \subseteq U
    BY <1>1, <2>1, <2>2, UpTo
  <2>4. N \in 0 .. N
    BY <1>1
  <2> QED
    BY <2>3, <2>4 DEF U
<1>12. w[1] = base /\ \A n \in 2 .. N : w[n] = Append(w[up(n)], name(n))
  <2>1. 1 \in 1 .. N /\ \A n \in 2 .. N : n \in 1 .. N /\ n # 1
    BY <1>1 DEF TreeIs, N
  <2> QED
    BY <1>10, <2>1
<1> QED
  BY <1>11, <1>12 DEF w, N, up, name

------------------------------------------------------------------------------
LEMMA BoundIs == MaxNodes \in Nat /\ MaxNodes >= 6
  BY ONLY VfsAssumption DEF VfsConstants

LEMMA PathIs ==
  ASSUME NEW path \in Texts
  PROVE  /\ Len(path) \in Nat \ {0} /\ path \in Seq(STRING)
         /\ NameOf(path) \in Names \ {LongName}
         /\ Front(path) \in Seq(Names) /\ Len(Front(path)) = Len(path) - 1
<1>1. path \in Seq(Names) /\ path # <<>>
  BY DEF Texts
<1>2. path \in Seq(STRING)
  BY <1>1, VfsAssumption, SeqMonotonic DEF VfsConstants
<1>3. Last(path) \in Names
  BY <1>1, FrontIs
<1>4. NameOf(path) \in Names \ {LongName}
  BY <1>3, VfsAssumption DEF VfsConstants, NameOf, Cut
<1> QED
  BY <1>1, <1>2, <1>4, FrontIs

LEMMA FoundIs ==
  ASSUME NEW tree, TreeIs(tree), cwd \in 1 .. Len(tree), NEW path, Len(path) \in Nat
  PROVE  FindIn(tree, path) \in 0 .. Len(tree)
<1>1. Len(tree) \in Nat /\ Len(tree) >= 1
  BY DEF TreeIs
<1>2. StartOf(path) \in 0 .. Len(tree)
  BY <1>1 DEF StartOf
<1>3. Len(path) \in 0 .. Len(path)
  OBVIOUS
<1> QED
  BY <1>2, <1>3, WalkIs, FindIs

LEMMA ParentIs ==
  ASSUME TreeIs(nodes), cwd \in 1 .. Len(nodes), NEW path \in Texts
  PROVE  ParentOf(path) \in 0 .. Len(nodes)
<1>1. Len(nodes) \in Nat /\ Len(nodes) >= 1
  BY DEF TreeIs
<1>2. Find(Front(path)) \in 0 .. Len(nodes)
  BY PathIs, FoundIs DEF Find
<1>3. ParentOf(path) \in {cwd, 1, Find(Front(path))}
  BY DEF ParentOf, Root
<1>4. cwd \in 0 .. Len(nodes) /\ 1 \in 0 .. Len(nodes)
  BY <1>1
<1> QED
  BY <1>2, <1>3, <1>4

(* Files are made and written under these conditions. *)
LEMMA CanCreateIs ==
  ASSUME TreeIs(nodes), cwd \in 1 .. Len(nodes), NEW path \in Texts,
         NEW type \in {"DIR", "FILE"}, CanCreate(ParentOf(path), path)
  PROVE  LET tree == Created(ParentOf(path), path, type) IN
         TreeIs(tree) /\ Grown(nodes, tree) /\ Len(tree) = Len(nodes) + 1
<1> DEFINE parent == ParentOf(path)
<1>1. parent \in 0 .. Len(nodes) /\ parent # 0
  BY ParentIs DEF CanCreate, IsDir, NULL
<1>2. parent \in 1 .. Len(nodes) /\ nodes[parent].type = "DIR"
  BY <1>1 DEF CanCreate, IsDir, TreeIs
<1>3. FindInDir(nodes, parent, NameOf(path)) = 0 /\ NameOf(path) \in Names \ {LongName}
  BY PathIs DEF CanCreate, NULL
<1> HIDE DEF parent
<1>4. LET tree == Created(parent, path, type) IN
      TreeIs(tree) /\ Grown(nodes, tree) /\ Len(tree) = Len(nodes) + 1
  BY <1>2, <1>3, CreatedIs
<1> QED
  BY <1>4 DEF parent

LEMMA GrownSame ==
  ASSUME NEW tree, TreeIs(tree)
  PROVE  Grown(tree, tree)
<1>1. \A n \in 1 .. Len(tree) : Len(tree[n].kids) >= Len(tree[n].kids)
  BY NodeIs
<1> QED
  BY <1>1 DEF Grown, TreeIs

LEMMA StaysIs ==
  ASSUME TreeIs(nodes), Len(nodes) <= MaxNodes, nodes' = nodes
  PROVE  Grows
  BY GrownSame DEF Grows

LEMMA MakeGrows ==
  ASSUME TreeIs(nodes), Len(nodes) <= MaxNodes, cwd \in 1 .. Len(nodes),
         NEW path \in Texts, NEW type \in {"DIR", "FILE"}, Make(path, type)
  PROVE  Grows
<1>1. CASE CanCreate(ParentOf(path), path)
  <2>1. nodes' = Created(ParentOf(path), path, type) /\ Len(nodes) < MaxNodes
    BY <1>1 DEF Make, Room
  <2>2. /\ TreeIs(nodes') /\ Grown(nodes, nodes') /\ Len(nodes') = Len(nodes) + 1
    BY <1>1, <2>1, CanCreateIs
  <2>3. Len(nodes) \in Nat
    BY DEF TreeIs
  <2> QED
    BY <2>1, <2>2, <2>3, BoundIs DEF Grows
<1>2. CASE ~CanCreate(ParentOf(path), path)
  BY <1>2, StaysIs DEF Make
<1> QED
  BY <1>1, <1>2

LEMMA WriteExistingGrows ==
  ASSUME TreeIs(nodes), Len(nodes) <= MaxNodes, cwd \in 1 .. Len(nodes),
         NEW path \in Texts, NEW data \in Data, WriteExisting(path, data)
  PROVE  Grows
<1> DEFINE node == Find(path)
<1>1. node \in 0 .. Len(nodes) /\ node # 0
  BY PathIs, FoundIs DEF Find, WriteExisting, NULL
<1>2. node \in 1 .. Len(nodes)
  BY <1>1 DEF TreeIs
<1>3. CASE nodes[node].type = "FILE"
  <2>1. nodes' = [nodes EXCEPT ![node].content = data]
    BY <1>3 DEF WriteExisting
  <2> HIDE DEF node
  <2> QED
    BY <1>2, <2>1, WrittenIs DEF Grows
<1>4. CASE nodes[node].type # "FILE"
  BY <1>4, StaysIs DEF WriteExisting
<1> QED
  BY <1>3, <1>4

LEMMA WriteNewGrows ==
  ASSUME TreeIs(nodes), Len(nodes) <= MaxNodes, cwd \in 1 .. Len(nodes),
         NEW path \in Texts, NEW data \in Data, WriteNew(path, data)
  PROVE  Grows
<1> DEFINE tree == Created(ParentOf(path), path, "FILE")
           node == FindIn(tree, path)
<1>1. CASE ~CanCreate(ParentOf(path), path)
  BY <1>1, StaysIs DEF WriteNew
<1>2. CASE CanCreate(ParentOf(path), path)
  <2>1. /\ nodes' = IF node # 0 THEN [tree EXCEPT ![node].content = data] ELSE tree
        /\ Len(nodes) < MaxNodes
    BY <1>2 DEF WriteNew, Room, NULL
  <2>2. TreeIs(tree) /\ Grown(nodes, tree) /\ Len(tree) = Len(nodes) + 1
    BY <1>2, CanCreateIs
  <2>3. Len(tree) \in Nat /\ Len(nodes) \in Nat /\ cwd \in 1 .. Len(tree)
    BY <2>2 DEF TreeIs
  <2>4. Len(tree) <= MaxNodes
    BY <2>1, <2>2, <2>3, BoundIs
  <2> HIDE DEF tree
  <2>5. node \in 0 .. Len(tree)
    BY <2>2, <2>3, PathIs, FoundIs
  <2> HIDE DEF node
  <2>6. CASE node = 0
    BY <2>1, <2>2, <2>4, <2>6 DEF Grows
  <2>7. CASE node # 0
    <3>1. node \in 1 .. Len(tree)
      BY <2>3, <2>5, <2>7
    <3>2. TreeIs(nodes') /\ Grown(tree, nodes') /\ Len(nodes') = Len(tree)
      BY <2>1, <2>2, <2>7, <3>1, WrittenIs
    <3>3. Grown(nodes, nodes')
      BY <2>2, <3>2, GrownOn
    <3> QED
      BY <2>4, <3>2, <3>3 DEF Grows
  <2> QED
    BY <2>6, <2>7
<1> QED
  BY <1>1, <1>2

LEMMA EnterHere ==
  ASSUME NEW tree, NEW current, current # 0, NEW seg, Stays(seg)
  PROVE  Enter(tree, current, seg) = current
BY DEF Enter, NULL, Root, Stays

LEMMA EnterUp ==
  ASSUME NEW tree, NEW current, current # 0
  PROVE  Enter(tree, current, "..") = Max({tree[current].parent, 1})
BY DEF Enter, NULL, Root

LEMMA EnterName ==
  ASSUME NEW tree, NEW current, current # 0, NEW name, Ordinary(name)
  PROVE  Enter(tree, current, name) = FindInDir(tree, current, name)
BY DEF Enter, NULL, Root, Ordinary

LEMMA FindInDirGrown ==
  ASSUME NEW a, NEW b, TreeIs(a), TreeIs(b), Grown(a, b), NEW dir \in 1 .. Len(a), NEW name,
         FindInDir(a, dir, name) # 0
  PROVE  FindInDir(b, dir, name) = FindInDir(a, dir, name)
<1> DEFINE f == FindInDir(a, dir, name)
           g == FindInDir(b, dir, name)
<1>1. f \in 2 .. Len(a) /\ a[f].parent = dir /\ a[f].name = name
  BY FindInDirIs
<1>2. /\ Len(a) \in Nat /\ Len(b) \in Nat /\ Len(b) >= Len(a)
      /\ dir \in 1 .. Len(b) /\ f \in 1 .. Len(a) /\ f \in 2 .. Len(b)
  BY <1>1 DEF TreeIs, Grown
<1>3. b[f].parent = dir /\ b[f].name = name
  BY <1>1, <1>2 DEF Grown
<1>4. \/ g = 0 /\ \A m \in 2 .. Len(b) : b[m].parent = dir => b[m].name # name
      \/ \A m \in 2 .. Len(b) : b[m].parent = dir /\ b[m].name = name => m = g
  BY <1>2, FindInDirIs
<1> HIDE DEF f, g
<1>5. f = g
  BY <1>2, <1>3, <1>4
<1> QED
  BY <1>5 DEF f, g

LEMMA EnterGrown ==
  ASSUME NEW a, NEW b, TreeIs(a), TreeIs(b), Grown(a, b), NEW current \in 1 .. Len(a), NEW seg,
         Enter(a, current, seg) # 0
  PROVE  Enter(b, current, seg) = Enter(a, current, seg)
<1>1. current # 0 /\ a[current].parent = b[current].parent
  BY NodeIs DEF Grown
<1>2. CASE seg \in {"", "."}
  <2>1. Enter(a, current, seg) = current /\ Enter(b, current, seg) = current
    <3>1. Stays(seg)
      BY <1>2, Zenon DEF Stays
    <3> QED
      BY ONLY <1>1, <3>1, EnterHere
  <2> QED
    BY <2>1
<1>3. CASE seg = ".."
  <2>1. /\ Enter(a, current, seg) = Max({a[current].parent, 1})
        /\ Enter(b, current, seg) = Max({b[current].parent, 1})
    BY ONLY <1>1, <1>3, EnterUp
  <2> QED
    BY <1>1, <2>1
<1>4. CASE Ordinary(seg)
  <2>1. /\ Enter(a, current, seg) = FindInDir(a, current, seg)
        /\ Enter(b, current, seg) = FindInDir(b, current, seg)
    BY ONLY <1>1, <1>4, EnterName
  <2> QED
    BY <2>1, FindInDirGrown
<1> QED
  BY <1>2, <1>3, <1>4 DEF Ordinary

LEMMA WalkGrown ==
  ASSUME NEW a, NEW b, TreeIs(a), TreeIs(b), Grown(a, b), NEW start \in 1 .. Len(a),
         NEW path, Len(path) \in Nat
  PROVE  \A i \in 0 .. Len(path) :
           WalkFrom(a, start, path)[i] # 0 =>
             WalkFrom(b, start, path)[i] = WalkFrom(a, start, path)[i]
<1> DEFINE n == Len(path)
           v == WalkFrom(a, start, path)
           w == WalkFrom(b, start, path)
           T == {i \in 0 .. n : v[i] # 0 => w[i] = v[i]}
<1>1. Len(a) \in Nat /\ Len(b) \in Nat /\ Len(b) >= Len(a)
  BY DEF TreeIs, Grown
<1>2. start \in 0 .. Len(a) /\ start \in 0 .. Len(b)
  BY <1>1
<1>3. /\ v[0] = start /\ \A i \in 1 .. n : v[i] = Enter(a, v[i - 1], path[i])
      /\ \A i \in 0 .. n : v[i] \in 0 .. Len(a)
  BY <1>2, WalkIs
<1>4. w[0] = start /\ \A i \in 1 .. n : w[i] = Enter(b, w[i - 1], path[i])
  BY <1>2, WalkIs
<1> HIDE DEF v, w, n
<1>5. n \in Nat
  BY DEF n
<1>6. 0 \in T
  BY <1>3, <1>4, <1>5
<1>7. ASSUME NEW i \in 1 .. n, i - 1 \in T PROVE i \in T
  <2>1. i \in 0 .. n /\ i - 1 \in 0 .. n /\ (v[i - 1] # 0 => w[i - 1] = v[i - 1])
    BY <1>5, <1>7
  <2>2. CASE v[i - 1] = 0
    <3>1. v[i] = 0
      BY <1>3, <2>2 DEF Enter, NULL
    <3> QED
      BY <2>1, <3>1
  <2>3. CASE v[i - 1] # 0
    <3>1. v[i - 1] \in 1 .. Len(a)
      <4>1. v[i - 1] \in 0 .. Len(a)
        BY <1>3, <2>1
      <4> QED
        BY <1>1, <2>3, <4>1
    <3>2. v[i] = Enter(a, v[i - 1], path[i]) /\ w[i] = Enter(b, v[i - 1], path[i])
      BY <1>3, <1>4, <2>1, <2>3
    <3>3. v[i] # 0 => w[i] = v[i]
      BY <3>1, <3>2, EnterGrown
    <3> QED
      BY <2>1, <3>3
  <2> QED
    BY <2>2, <2>3
<1> HIDE DEF T
<1>8. 0 .. n \subseteq T
  BY <1>5, <1>6, <1>7, UpTo
<1> QED
  BY <1>8 DEF T, v, w, n

(* Once nothing was found, nothing is. *)
LEMMA WalkNone ==
  ASSUME NEW tree, TreeIs(tree), NEW start \in 0 .. Len(tree), NEW path, Len(path) \in Nat,
         NEW k \in 0 .. Len(path), WalkFrom(tree, start, path)[k] = 0
  PROVE  WalkFrom(tree, start, path)[Len(path)] = 0
<1> DEFINE n == Len(path)
           w == WalkFrom(tree, start, path)
           T == {i \in 0 .. n : i >= k => w[i] = 0}
<1>1. \A i \in 1 .. n : w[i] = Enter(tree, w[i - 1], path[i])
  BY WalkIs
<1>2. n \in Nat /\ k \in 0 .. n /\ w[k] = 0
  OBVIOUS
<1> HIDE DEF w, n
<1>3. 0 \in T
  BY <1>2
<1>4. ASSUME NEW i \in 1 .. n, i - 1 \in T PROVE i \in T
  <2>1. i \in 0 .. n /\ (i - 1 >= k => w[i - 1] = 0) /\ (i >= k => i = k \/ i - 1 >= k)
    BY <1>2, <1>4
  <2>2. w[i - 1] = 0 => w[i] = 0
    BY <1>1 DEF Enter, NULL
  <2> QED
    BY <1>2, <2>1, <2>2
<1> HIDE DEF T
<1>5. 0 .. n \subseteq T
  BY <1>2, <1>3, <1>4, UpTo
<1>6. n \in 0 .. n /\ n >= k
  BY <1>2
<1> QED
  BY <1>5, <1>6 DEF T, w, n

(* Paths with the same first segments lead the same way. *)
LEMMA WalkPrefix ==
  ASSUME NEW tree, TreeIs(tree), NEW start \in 0 .. Len(tree),
         NEW p, Len(p) \in Nat, NEW q, Len(q) \in Nat, Len(p) <= Len(q),
         \A i \in 1 .. Len(p) : p[i] = q[i]
  PROVE  \A i \in 0 .. Len(p) : WalkFrom(tree, start, p)[i] = WalkFrom(tree, start, q)[i]
<1> DEFINE n == Len(p)
           v == WalkFrom(tree, start, p)
           w == WalkFrom(tree, start, q)
           T == {i \in 0 .. n : v[i] = w[i]}
<1>1. v[0] = start /\ \A i \in 1 .. n : v[i] = Enter(tree, v[i - 1], p[i])
  BY WalkIs
<1>2. w[0] = start /\ \A i \in 1 .. Len(q) : w[i] = Enter(tree, w[i - 1], q[i])
  BY WalkIs
<1>3. n \in Nat /\ \A i \in 1 .. n : i \in 1 .. Len(q) /\ p[i] = q[i]
  OBVIOUS
<1> HIDE DEF v, w, n
<1>4. 0 \in T
  BY <1>1, <1>2, <1>3
<1>5. ASSUME NEW i \in 1 .. n, i - 1 \in T PROVE i \in T
  <2>1. i \in 0 .. n /\ v[i - 1] = w[i - 1]
    BY <1>3, <1>5
  <2> QED
    BY <1>1, <1>2, <1>3, <2>1
<1> HIDE DEF T
<1>6. 0 .. n \subseteq T
  BY <1>3, <1>4, <1>5, UpTo
<1> QED
  BY <1>6 DEF T, v, w, n

LEMMA TreeStepFiles ==
  ASSUME FilesInv, TreeStep
  PROVE  FilesInv'
<1>1. Len(nodes) \in Nat /\ Len(nodes') \in Nat /\ Len(nodes') >= Len(nodes)
  BY DEF FilesInv, TreeStep, Grows, Grown, TreeIs
<1>2. /\ TreeIs(nodes)' /\ Len(nodes') <= MaxNodes /\ nodes'[cwd].type = nodes[cwd].type
  BY DEF FilesInv, TreeStep, Grows, Grown, TreeIs
<1> QED
  BY <1>1, <1>2 DEF FilesInv, TreeStep

LEMMA CommandTree ==
  ASSUME FilesInv, NEW path \in Texts,
         \/ \E type \in {"DIR", "FILE"} : Make(path, type)
         \/ \E data \in Data : WriteExisting(path, data) \/ WriteNew(path, data)
  PROVE  TreeStep
<1>1. TreeIs(nodes) /\ Len(nodes) <= MaxNodes /\ cwd \in 1 .. Len(nodes)
  BY DEF FilesInv
<1>2. ASSUME NEW type \in {"DIR", "FILE"}, Make(path, type) PROVE TreeStep
  BY <1>1, <1>2, MakeGrows DEF TreeStep, Make
<1>3. ASSUME NEW data \in Data, WriteExisting(path, data) PROVE TreeStep
  BY <1>1, <1>3, WriteExistingGrows DEF TreeStep, WriteExisting
<1>4. ASSUME NEW data \in Data, WriteNew(path, data) PROVE TreeStep
  BY <1>1, <1>4, WriteNewGrows DEF TreeStep, WriteNew
<1> QED
  BY <1>2, <1>3, <1>4

LEMMA MainNodeIs ==
  ASSUME FilesInv, main.node # 0
  PROVE  /\ main.node \in 1 .. Len(nodes) /\ Len(nodes) \in Nat /\ Len(nodes) >= 1
         /\ Len(nodes[main.node].kids) \in Nat
<1>1. main.node \in 0 .. Len(nodes) /\ Len(nodes) \in Nat /\ Len(nodes) >= 1
  BY DEF FilesInv, TreeIs
<1>2. main.node \in 1 .. Len(nodes)
  BY <1>1
<1> QED
  BY <1>1, <1>2, NodeIs DEF FilesInv

LEMMA PathTexts ==
  /\ "" \in STRING /\ <<"">> \in Seq(STRING) /\ Len(<<"">>) = 1
  /\ <<"", "">> \in Seq(STRING) \ {<<>>} /\ Len(<<"", "">>) = 2
<1>1. "" \in STRING
  BY VfsAssumption DEF VfsConstants
<1> QED
  BY <1>1, ShortPaths, Zenon

(* The text that cd stores. *)
LEMMA TextIs ==
  ASSUME TreeIs(nodes), NEW dir \in 1 .. Len(nodes)
  PROVE  /\ TextOf(dir) = IF dir = 1 THEN <<"", "">> ELSE NamesFrom(<<"">>)[dir]
         /\ TextOf(dir) \in Seq(STRING)
<1>1. TextOf(dir) = IF dir = 1 THEN <<"", "">> ELSE NamesFrom(<<"">>)[dir]
  BY DEF TextOf, NamesFrom, Root
<1>2. NamesFrom(<<"">>)[dir] \in Seq(STRING)
  BY PathTexts, NamesIs
<1> QED
  BY <1>1, <1>2, PathTexts

LEMMA ChdirFiles ==
  ASSUME FilesInv, NEW path \in Texts, Chdir(path)
  PROVE  FilesInv'
<1> DEFINE node == Find(path)
<1>1. node \in 0 .. Len(nodes)
  BY PathIs, FoundIs DEF FilesInv, Find
<1>2. CASE IsDir(node)
  <2>1. node \in 1 .. Len(nodes) /\ nodes[node].type = "DIR"
    BY <1>1, <1>2 DEF IsDir, NULL, FilesInv, TreeIs
  <2>2. cwd' = node /\ cwd_path' = TextOf(node)
    BY <1>2 DEF Chdir
  <2> HIDE DEF node
  <2>3. TextOf(node) \in Seq(STRING)
    BY <2>1, TextIs DEF FilesInv
  <2>4. UNCHANGED <<nodes, browser, main, began>>
    BY DEF Chdir
  <2> QED
    BY <2>1, <2>2, <2>3, <2>4 DEF FilesInv
<1>3. CASE ~IsDir(node)
  BY <1>3 DEF Chdir, FilesInv
<1> QED
  BY <1>2, <1>3

LEMMA IdleIs == Idle \in MainType /\ Idle.node = 0 /\ Idle.pc = "idle"
<1>1. <<>> \in Seq(STRING)
  OBVIOUS
<1> QED
  BY <1>1 DEF Idle, MainType, NULL

LEMMA FilesFiles ==
  ASSUME FilesInv, NEW path \in Texts, Files(path)
  PROVE  FilesInv'
<1>1. browser' \in Seq(STRING) \ {<<>>} /\ UNCHANGED <<nodes, cwd, cwd_path, main, began>>
  BY PathIs DEF Files, Texts
<1> QED
  BY <1>1 DEF FilesInv

LEMMA LookFiles ==
  ASSUME FilesInv, Look
  PROVE  FilesInv'
<1> DEFINE start == IF IsAbsolute(browser) THEN 1 ELSE cwd
<1>1. Len(nodes) \in Nat /\ Len(nodes) >= 1
  BY DEF FilesInv, TreeIs
<1>2. start \in 0 .. Len(nodes) /\ start \in Nat
  BY <1>1 DEF FilesInv
<1> HIDE DEF start
<1>3. main' \in MainType /\ main'.node = start
  <2>1. main' = [pc |-> "walk", segs |-> browser, child |-> 0, node |-> start]
    BY DEF Look, start, Root
  <2> QED
    BY <1>2, <2>1 DEF MainType, FilesInv
<1>4. began' \in 0 .. Len(nodes)
  <2>1. Len(browser) \in Nat
    BY DEF FilesInv
  <2> QED
    BY <2>1, FoundIs DEF Look, FilesInv, Find
<1>5. UNCHANGED <<nodes, cwd, cwd_path, browser>>
  BY DEF Look
<1> QED
  BY <1>2, <1>3, <1>4, <1>5 DEF FilesInv

LEMMA EnteredIs ==
  ASSUME FilesInv, NEW n \in 0 .. Len(nodes), main.segs # <<>>, Entered(n)
  PROVE  /\ main' \in MainType /\ main'.node = n /\ main'.pc = main.pc
         /\ main'.segs = Tail(main.segs) /\ main'.child = 0
<1>1. main \in MainType /\ n \in Nat
  BY DEF FilesInv, TreeIs
<1>2. Tail(main.segs) \in Seq(STRING)
  BY <1>1 DEF MainType
<1>3. main' = [main EXCEPT !.segs = Tail(main.segs), !.node = n, !.child = 0]
  BY DEF Entered
<1> QED
  BY <1>1, <1>2, <1>3 DEF MainType

LEMMA WalkSegmentFiles ==
  ASSUME FilesInv, WalkSegment
  PROVE  FilesInv'
<1> DEFINE n == Enter(nodes, main.node, Head(main.segs))
<1>1. n \in 0 .. Len(nodes)
  BY EnterIs DEF FilesInv
<1>2. main.segs # <<>> /\ Entered(n) /\ UNCHANGED <<nodes, cwd, cwd_path, browser, began>>
  BY DEF WalkSegment, Walking
<1> HIDE DEF n
<1>3. main' \in MainType /\ main'.node = n
  BY <1>1, <1>2, EnteredIs
<1> QED
  BY <1>1, <1>2, <1>3 DEF FilesInv

LEMMA WalkChildFiles ==
  ASSUME FilesInv, WalkChild
  PROVE  FilesInv'
<1> DEFINE kids == nodes[main.node].kids
           next == main.child + 1
<1>1. /\ main.segs # <<>> /\ main.node # 0
      /\ IF next > Len(kids) THEN Entered(0)
         ELSE IF nodes[kids[next]].name = Head(main.segs) THEN Entered(kids[next])
         ELSE main' = [main EXCEPT !.child = next]
      /\ UNCHANGED <<nodes, cwd, cwd_path, browser, began>>
  BY DEF WalkChild, Walking, NULL
<1>2. /\ main.node \in 1 .. Len(nodes) /\ Len(nodes) \in Nat /\ Len(kids) \in Nat
      /\ main \in MainType /\ main.child \in Nat /\ next \in Nat \ {0}
  BY <1>1, MainNodeIs DEF FilesInv, MainType
<1>3. \A i \in 1 .. Len(kids) : kids[i] \in 0 .. Len(nodes)
  <2>1. \A i \in 1 .. Len(kids) : kids[i] \in 2 .. Len(nodes)
    BY <1>2 DEF FilesInv, TreeIs, KidsAre
  <2> QED
    BY <1>2, <2>1
<1> HIDE DEF kids, next
<1>4. main' \in MainType /\ main'.node \in 0 .. Len(nodes)
  <2>1. CASE next > Len(kids)
    <3>1. Entered(0) /\ 0 \in 0 .. Len(nodes)
      BY <1>1, <1>2, <2>1
    <3> QED
      BY <1>1, <3>1, EnteredIs
  <2>2. CASE next <= Len(kids) /\ nodes[kids[next]].name = Head(main.segs)
    <3>1. kids[next] \in 0 .. Len(nodes) /\ ~(next > Len(kids))
      BY <1>2, <1>3, <2>2
    <3>2. Entered(kids[next])
      BY <1>1, <2>2, <3>1
    <3> QED
      BY <1>1, <3>1, <3>2, EnteredIs
  <2>3. CASE next <= Len(kids) /\ nodes[kids[next]].name # Head(main.segs)
    <3>1. ~(next > Len(kids))
      BY <1>2, <2>3
    <3>2. main' = [main EXCEPT !.child = next]
      BY <1>1, <2>3, <3>1
    <3> QED
      BY <1>2, <3>2 DEF FilesInv, MainType
  <2> QED
    BY <1>2, <2>1, <2>2, <2>3
<1> QED
  BY <1>1, <1>4 DEF FilesInv

LEMMA PaintedFiles ==
  ASSUME FilesInv, browser' \in Seq(STRING) \ {<<>>}, main' = Idle, began' = 0,
         UNCHANGED <<nodes, cwd, cwd_path>>
  PROVE  FilesInv'
<1>1. 0 \in 0 .. Len(nodes)
  BY DEF FilesInv, TreeIs
<1> QED
  BY <1>1, IdleIs DEF FilesInv

LEMMA ClickUpFiles ==
  ASSUME FilesInv, ClickUp
  PROVE  FilesInv'
<1>1. Front(browser) \in Seq(STRING)
  BY FrontIs DEF FilesInv
<1>2. browser' \in Seq(STRING) \ {<<>>}
  BY <1>1, PathTexts DEF ClickUp
<1> QED
  BY <1>2, PaintedFiles DEF ClickUp, NULL

LEMMA ShownIs ==
  ASSUME FilesInv, NEW i, ClickDir(i)
  PROVE  /\ main.node \in 1 .. Len(nodes) /\ Shown(i) \in 2 .. Len(nodes)
         /\ nodes[Shown(i)].parent = main.node /\ nodes[Shown(i)].name \in Names
<1>1. main.node \in 1 .. Len(nodes)
  BY MainNodeIs DEF ClickDir, IsDir, NULL
<1>2. i \in 1 .. Len(nodes[main.node].kids)
  BY <1>1, NodeIs DEF ClickDir, FilesInv
<1>3. Shown(i) \in 2 .. Len(nodes) /\ nodes[Shown(i)].parent = main.node
  BY <1>1, <1>2 DEF Shown, FilesInv, TreeIs, KidsAre
<1>4. Shown(i) \in 1 .. Len(nodes)
  BY <1>3 DEF FilesInv, TreeIs
<1>5. nodes[Shown(i)].name \in Names
  BY <1>4, NodeIs DEF FilesInv, NodeType
<1> QED
  BY <1>1, <1>3, <1>5

LEMMA ShortIs ==
  ASSUME NEW path \in Short
  PROVE  Len(path) = 1 /\ path[1] \in {n \in Names : CharsOf[n] <= 1}
<1>1. PICK c \in {n \in Names : CharsOf[n] <= 1} : path = <<c>>
  BY DEF Short
<1>2. Len(<<c>>) = 1 /\ <<c>>[1] = c
  OBVIOUS
<1> QED
  BY <1>1, <1>2, Zenon

LEMMA ClickDirFiles ==
  ASSUME FilesInv, NEW i, ClickDir(i)
  PROVE  FilesInv'
<1> DEFINE name == nodes[Shown(i)].name
           joined == Joined[browser[1], name]
<1>1. name \in Names /\ name \in STRING /\ (browser \in Short => joined \in STRING)
  BY ShownIs, ShortIs, VfsAssumption DEF VfsConstants
<1>2. /\ \/ browser' = browser \/ browser' = <<"", name>> \/ browser' = Append(browser, name)
         \/ browser \in Short /\ browser' = <<joined>>
      /\ main' = Idle /\ began' = 0 /\ UNCHANGED <<nodes, cwd, cwd_path>>
  BY Zenon DEF ClickDir, Behind, NULL
<1> HIDE DEF name, joined
<1>3. browser \in Seq(STRING) \ {<<>>} /\ "" \in STRING
  BY PathTexts DEF FilesInv
<1>4. browser' \in Seq(STRING) \ {<<>>}
  <2>1. /\ <<"", name>> \in Seq(STRING) \ {<<>>}
        /\ browser \in Short => <<joined>> \in Seq(STRING) \ {<<>>}
    BY <1>1, <1>3, ShortPaths, Zenon
  <2>2. Append(browser, name) \in Seq(STRING) \ {<<>>}
    <3>1. browser \in Seq(STRING) /\ name \in STRING
      BY <1>1, <1>3
    <3> QED
      BY <3>1, LongerPath, Zenon
  <2> QED
    BY <1>2, <1>3, <2>1, <2>2
<1> QED
  BY <1>2, <1>4, PaintedFiles

LEMMA NextIs ==
  ASSUME FilesInv, Next
  PROVE  VfsStep
<1>1. Paths \subseteq Texts
  BY VfsAssumption DEF VfsConstants, Texts
<1>2. CASE Command
  <2>1. PICK path \in Paths :
          \/ \E type \in {"DIR", "FILE"} : Make(path, type)
          \/ \E data \in Data : WriteExisting(path, data) \/ WriteNew(path, data)
          \/ Chdir(path)
          \/ Files(path)
    BY <1>2, Zenon DEF Command
  <2>2. path \in Texts
    BY <1>1
  <2>3. CASE \/ \E type \in {"DIR", "FILE"} : Make(path, type)
             \/ \E data \in Data : WriteExisting(path, data) \/ WriteNew(path, data)
    BY <2>2, <2>3, CommandTree, Zenon DEF VfsStep
  <2> QED
    BY <2>1, <2>2, <2>3, Zenon DEF VfsStep
<1>3. CASE Browse
  BY <1>3, Zenon DEF Browse, VfsStep, Clicked
<1> QED
  BY <1>2, <1>3 DEF Next

LEMMA ReadsIs ==
  ASSUME FilesInv, Reads
  PROVE  VfsStep
<1>1. Viewed \subseteq Texts
  BY ReadingAssumption DEF ReadingConstants, Texts
<1>2. ASSUME NEW path \in Viewed, Change(path) PROVE VfsStep
  <2>1. \/ \E type \in {"DIR", "FILE"} : Make(path, type)
        \/ \E data \in Data : WriteExisting(path, data) \/ WriteNew(path, data)
    BY <1>2 DEF Change
  <2> QED
    BY <1>1, <2>1, CommandTree DEF VfsStep
<1>3. ASSUME NEW path, Open(path) PROVE VfsStep
  BY <1>3, Zenon DEF Open, View, VfsStep, vars
<1>4. ASSUME NEW path, ReadCommand(path) PROVE VfsStep
  BY <1>4, Zenon DEF ReadCommand, VfsStep, vars
<1>5. ASSUME Viewing PROVE VfsStep
  <2>1. ASSUME NEW step, View(step) PROVE VfsStep
    BY <2>1, Zenon DEF View, VfsStep, vars
  <2>2. ASSUME CopyBlock PROVE VfsStep
    BY <2>1, <2>2, Zenon DEF CopyBlock
  <2> QED
    BY <1>5, <2>1, <2>2, Zenon
       DEF Viewing, CopyEnds, FindFile, TakeContent, Decode, Opened
<1> QED
  BY <1>2, <1>3, <1>4, <1>5, Zenon DEF Reads

LEMMA AppsStepIs ==
  ASSUME FilesInv, [AppsNext]_AllVars
  PROVE  VfsStep
<1>1. CASE UNCHANGED vars
  BY <1>1 DEF VfsStep
<1>2. CASE Next
  BY <1>2, NextIs
<1>3. CASE Reads
  BY <1>3, ReadsIs
<1>4. CASE ListRoot \/ \E path \in Read : ReadCommand(path)
  BY <1>4, Zenon DEF ListRoot, ReadCommand, VfsStep, vars
<1>5. UNCHANGED vars \/ Next \/ Reads \/ ListRoot \/ \E path \in Read : ReadCommand(path)
  BY Zenon DEF AppsNext, FileSteps, ScreenSteps, AllVars
<1> QED
  BY <1>1, <1>2, <1>3, <1>4, <1>5, Zenon

LEMMA FilesStep ==
  ASSUME FilesInv, VfsStep
  PROVE  FilesInv'
<1>1. CASE TreeStep
  BY <1>1, TreeStepFiles
<1>2. CASE UNCHANGED vars
  BY <1>2 DEF FilesInv, vars
<1>3. ASSUME NEW path \in Texts, Chdir(path) \/ Files(path) PROVE FilesInv'
  BY <1>3, ChdirFiles, FilesFiles
<1>4. CASE Look \/ WalkSegment \/ WalkChild
  BY <1>4, LookFiles, WalkSegmentFiles, WalkChildFiles
<1>5. CASE Painted
  BY <1>5, PaintedFiles DEF Painted, NULL, FilesInv
<1>6. CASE Clicked
  BY <1>6, ClickUpFiles, ClickDirFiles DEF Clicked
<1> QED
  BY <1>1, <1>2, <1>3, <1>4, <1>5, <1>6, Zenon DEF VfsStep

------------------------------------------------------------------------------
(* The tree that fs_init makes. *)
LEMMA DefaultIs ==
  LET tree == DefaultTree IN
  /\ Len(tree) = 6
  /\ \A n \in 1 .. 6 : tree[n] \in NodeType
  /\ tree[1].kids = <<2, 3, 4>> /\ tree[4].kids = <<5, 6>>
  /\ \A n \in {2, 3, 5, 6} : tree[n].kids = <<>>
  /\ tree[1].type = "DIR" /\ tree[4].type = "DIR" /\ tree[1].parent = 0
  /\ \A n \in {2, 3, 4} : tree[n].parent = 1
  /\ \A n \in {5, 6} : tree[n].parent = 4
  /\ tree[2].name # tree[3].name /\ tree[2].name # tree[4].name
  /\ tree[3].name # tree[4].name /\ tree[5].name # tree[6].name
<1> DEFINE tree == DefaultTree
<1>1. {"/", "readme.txt", "bin", "etc", "motd", "hzsh.conf"} \subseteq Names \ {LongName}
  BY ONLY VfsAssumption DEF VfsConstants
<1>2. ASSUME NEW name \in Names \ {LongName}, NEW type \in {"DIR", "FILE"}, NEW parent \in Nat,
             NEW kids \in Seq(Nat), NEW content \in {"none", "default"}
      PROVE  Node(name, type, parent, kids, content) \in NodeType
  BY DEF Node, NodeType
<1>3. <<>> \in Seq(Nat) /\ <<2, 3, 4>> \in Seq(Nat) /\ <<5, 6>> \in Seq(Nat)
  OBVIOUS
<1>4. tree = << Node("/", "DIR", 0, <<2, 3, 4>>, "none"),
                Node("readme.txt", "FILE", 1, <<>>, "default"),
                Node("bin", "DIR", 1, <<>>, "none"),
                Node("etc", "DIR", 1, <<5, 6>>, "none"),
                Node("motd", "FILE", 4, <<>>, "default"),
                Node("hzsh.conf", "FILE", 4, <<>>, "default") >>
  BY DEF DefaultTree, NULL, Root
<1> HIDE DEF tree
<1>5. /\ Len(tree) = 6
      /\ tree[1] = Node("/", "DIR", 0, <<2, 3, 4>>, "none")
      /\ tree[2] = Node("readme.txt", "FILE", 1, <<>>, "default")
      /\ tree[3] = Node("bin", "DIR", 1, <<>>, "none")
      /\ tree[4] = Node("etc", "DIR", 1, <<5, 6>>, "none")
      /\ tree[5] = Node("motd", "FILE", 4, <<>>, "default")
      /\ tree[6] = Node("hzsh.conf", "FILE", 4, <<>>, "default")
  BY <1>4
<1>6. \A n \in 1 .. 6 : tree[n] \in NodeType
  <2>1. \A n \in 1 .. 6 : n = 1 \/ n = 2 \/ n = 3 \/ n = 4 \/ n = 5 \/ n = 6
    OBVIOUS
  <2>2. /\ tree[1] \in NodeType /\ tree[2] \in NodeType /\ tree[3] \in NodeType
        /\ tree[4] \in NodeType /\ tree[5] \in NodeType /\ tree[6] \in NodeType
    BY <1>1, <1>2, <1>3, <1>5
  <2> QED
    BY ONLY <2>1, <2>2, Zenon
<1> QED
  BY <1>5, <1>6 DEF Node, tree

LEMMA StartIs ==
  ASSUME Init
  PROVE  FilesInv
<1> DEFINE tree == DefaultTree
<1>1. nodes = tree
  BY DEF Init
<1> HIDE DEF tree
<1>2. /\ Len(tree) = 6 /\ tree \in Seq(NodeType)
      /\ tree[1].kids = <<2, 3, 4>> /\ tree[4].kids = <<5, 6>>
      /\ \A n \in {2, 3, 5, 6} : tree[n].kids = <<>>
      /\ tree[1].type = "DIR" /\ tree[4].type = "DIR" /\ tree[1].parent = 0
      /\ \A n \in {2, 3, 4} : tree[n].parent = 1
      /\ \A n \in {5, 6} : tree[n].parent = 4
      /\ tree[2].name # tree[3].name /\ tree[2].name # tree[4].name
      /\ tree[3].name # tree[4].name /\ tree[5].name # tree[6].name
  <2>1. tree \in Seq(NodeType)
    <3>1. DOMAIN tree = 1 .. 6 /\ tree = [n \in 1 .. 6 |-> tree[n]]
      BY DEF tree, DefaultTree
    <3>2. tree \in [1 .. 6 -> NodeType]
      BY <3>1, DefaultIs DEF tree
    <3> QED
      BY <3>2
  <2> QED
    BY <2>1, DefaultIs DEF tree
<1>3. \A n \in 2 .. 6 : n \in {2, 3, 4} \/ n \in {5, 6}
  OBVIOUS
<1>4. \A n \in 2 .. 6 : tree[n].parent \in 1 .. n - 1 /\ tree[tree[n].parent].type = "DIR"
  BY <1>2, <1>3
<1>5. ASSUME NEW n \in 1 .. 6 PROVE KidsAre(tree, n)
  <2>1. CASE n = 1
    <3> DEFINE kids == <<2, 3, 4>>
    <3>1. Len(kids) = 3 /\ kids[1] = 2 /\ kids[2] = 3 /\ kids[3] = 4
      OBVIOUS
    <3>2. \A i \in 1 .. 3 : i = 1 \/ i = 2 \/ i = 3
      OBVIOUS
    <3>3. \A m \in 2 .. 6 : tree[m].parent = 1 => m = 2 \/ m = 3 \/ m = 4
      BY <1>2, <1>3
    <3>4. tree[n].kids = kids /\ tree[2].parent = 1 /\ tree[3].parent = 1 /\ tree[4].parent = 1
      BY <1>2, <2>1
    <3> HIDE DEF kids
    <3>5. \A i, j \in 1 .. 3 : kids[i] \in 2 .. 6 /\ (kids[i] = kids[j] => i = j)
      BY <3>1, <3>2
    <3>6. \A i \in 1 .. 3 : tree[kids[i]].parent = n
      BY <2>1, <3>1, <3>2, <3>4
    <3>7. \A m \in 2 .. 6 : tree[m].parent = n => \E i \in 1 .. 3 : kids[i] = m
      BY <2>1, <3>1, <3>2, <3>3
    <3>8. Len(tree) = 6 /\ tree[n].kids = kids
      BY <1>2, <3>4
    <3> QED
      BY ONLY <3>1, <3>5, <3>6, <3>7, <3>8 DEF KidsAre
  <2>2. CASE n = 4
    <3> DEFINE kids == <<5, 6>>
    <3>1. Len(kids) = 2 /\ kids[1] = 5 /\ kids[2] = 6
      OBVIOUS
    <3>2. \A i \in 1 .. 2 : i = 1 \/ i = 2
      OBVIOUS
    <3>3. \A m \in 2 .. 6 : tree[m].parent = 4 => m = 5 \/ m = 6
      BY <1>2, <1>3
    <3>4. tree[n].kids = kids /\ tree[5].parent = 4 /\ tree[6].parent = 4
      BY <1>2, <2>2
    <3> HIDE DEF kids
    <3>5. \A i, j \in 1 .. 2 : kids[i] \in 2 .. 6 /\ (kids[i] = kids[j] => i = j)
      BY <3>1, <3>2
    <3>6. \A i \in 1 .. 2 : tree[kids[i]].parent = n
      BY <2>2, <3>1, <3>2, <3>4
    <3>7. \A m \in 2 .. 6 : tree[m].parent = n => \E i \in 1 .. 2 : kids[i] = m
      BY <2>2, <3>1, <3>2, <3>3
    <3>8. Len(tree) = 6 /\ tree[n].kids = kids
      BY <1>2, <3>4
    <3> QED
      BY ONLY <3>1, <3>5, <3>6, <3>7, <3>8 DEF KidsAre
  <2>3. CASE n # 1 /\ n # 4
    <3>1. tree[n].kids = <<>> /\ \A m \in 2 .. 6 : tree[m].parent # n
      BY <1>2, <1>3, <2>3
    <3>2. \A i \in 1 .. Len(tree[n].kids) : FALSE
      BY <3>1
    <3> QED
      BY <1>2, <3>1, <3>2 DEF KidsAre
  <2> QED
    BY <2>1, <2>2, <2>3
<1>6. \A k, m \in 2 .. 6 :
        tree[k].parent = tree[m].parent /\ tree[k].name = tree[m].name => k = m
  BY <1>2, <1>3
<1>7. TreeIs(tree)
  BY <1>2, <1>4, <1>5, <1>6 DEF TreeIs
<1>8. cwd = 1 /\ cwd_path = <<"", "">> /\ browser = <<"", "">> /\ main = Idle /\ began = 0
  BY DEF Init, Root, NULL
<1>9. TreeIs(nodes) /\ Len(nodes) = 6 /\ nodes[1].type = "DIR"
  BY <1>1, <1>2, <1>7
<1>10. cwd_path \in Seq(STRING) /\ browser \in Seq(STRING) \ {<<>>}
  BY <1>8, PathTexts, Zenon
<1>11. main \in MainType /\ main.node = 0
  BY <1>8, IdleIs
<1>12. cwd \in 1 .. Len(nodes) /\ nodes[cwd].type = "DIR" /\ Len(nodes) <= MaxNodes
  <2>1. cwd = 1
    BY <1>8
  <2> QED
    BY <1>9, <2>1, BoundIs
<1>13. main.node \in 0 .. Len(nodes) /\ began \in 0 .. Len(nodes)
  <2>1. began = 0
    BY <1>8
  <2> QED
    BY <1>9, <1>11, <2>1
<1> QED
  BY <1>9, <1>10, <1>11, <1>12, <1>13 DEF FilesInv

(* What the run checks of the tree follows. *)
LEMMA SoundIs ==
  ASSUME FilesInv
  PROVE  TreeSound
<1>1. /\ TreeIs(nodes) /\ Len(nodes) \in Nat /\ Ids = 1 .. Len(nodes)
  BY DEF FilesInv, TreeIs, Ids
<1>2. TypeOK
  <2>1. \A n \in Ids : /\ nodes[n].type \in {"DIR", "FILE"}
                       /\ nodes[n].content \in Data \cup {"none", "default"}
    BY <1>1, NodeIs DEF NodeType
  <2>2. \A n \in 0 .. Len(nodes) : n \in Ids \cup {0}
    BY <1>1
  <2> QED
    BY <1>1, <2>1, <2>2 DEF TypeOK, FilesInv, MainType, NULL
<1>3. ASSUME NEW n \in Ids PROVE nodes[n].name # LongName
  BY <1>1, NodeIs DEF NodeType
<1>4. ASSUME NEW n \in Ids, n # Root
      PROVE  nodes[n].parent \in 1 .. n - 1 /\ IsDir(nodes[n].parent)
  <2>1. n \in 2 .. Len(nodes)
    BY <1>1, <1>4 DEF Root
  <2> QED
    BY <1>1, <2>1 DEF TreeIs, IsDir, NULL
<1>5. ASSUME NEW n \in Ids, NEW m \in Ids \ {Root}
      PROVE  Cardinality({i \in DOMAIN nodes[n].kids : nodes[n].kids[i] = m})
               = IF nodes[m].parent = n THEN 1 ELSE 0
  <2> DEFINE kids == nodes[n].kids
             places == {i \in DOMAIN nodes[n].kids : nodes[n].kids[i] = m}
  <2>1. m \in 2 .. Len(nodes) /\ DOMAIN kids = 1 .. Len(kids) /\ KidsAre(nodes, n)
    BY <1>1, NodeIs DEF Root, TreeIs
  <2>2. CASE nodes[m].parent = n
    <3>1. PICK i \in 1 .. Len(kids) : kids[i] = m
      BY <2>1, <2>2 DEF KidsAre
    <3>2. places = {i}
      BY <2>1, <3>1 DEF KidsAre
    <3> HIDE DEF places
    <3>3. Cardinality(places) = 1
      BY <3>2, FS_Singleton
    <3> QED
      BY <2>2, <3>3 DEF places
  <2>3. CASE nodes[m].parent # n
    <3>1. places = {}
      BY <2>1, <2>3 DEF KidsAre
    <3> HIDE DEF places
    <3>2. Cardinality(places) = 0
      BY <3>1, FS_EmptySet
    <3> QED
      BY <2>3, <3>2 DEF places
  <2> QED
    BY <2>2, <2>3
<1>6. ASSUME NEW n \in Ids, NEW k \in Ids \ {Root, n}, NEW m \in Ids \ {Root, n},
             nodes[k].parent = n, nodes[m].parent = n, nodes[k].name = nodes[m].name
      PROVE  k = m
  <2>1. k \in 2 .. Len(nodes) /\ m \in 2 .. Len(nodes)
    BY <1>1 DEF Root
  <2> QED
    BY <1>1, <1>6, <2>1 DEF TreeIs
<1> QED
  BY <1>2, <1>3, <1>4, <1>5, <1>6 DEF TreeSound

(* The tree of files stays one, whatever is made, written or looked at. *)
THEOREM TreeIsSound == AppsSpec => []TreeStaysSound
<1>1. AppsInit => FilesInv
  BY StartIs DEF AppsInit, ReadingInit
<1>2. FilesInv /\ [AppsNext]_AllVars => FilesInv'
  BY AppsStepIs, FilesStep
<1>3. FilesInv => TreeStaysSound
  BY SoundIs DEF TreeStaysSound
<1> QED
  BY <1>1, <1>2, <1>3, PTL DEF AppsSpec

LEMMA AtIs ==
  ASSUME FilesInv
  PROVE  /\ Len(browser) \in Nat \ {0} /\ Len(nodes) \in Nat /\ 1 \in 1 .. Len(nodes)
         /\ At(0) = 1 /\ \A k \in 0 .. Len(browser) : At(k) \in 0 .. Len(nodes)
         /\ \A k \in 1 .. Len(browser) : At(k) = Enter(nodes, At(k - 1), browser[k])
         /\ IsAbsolute(browser) => Find(browser) = At(Len(browser))
<1>1. /\ Len(browser) \in Nat \ {0} /\ Len(nodes) \in Nat /\ 1 \in 1 .. Len(nodes)
      /\ 1 \in 0 .. Len(nodes) /\ TreeIs(nodes)
  BY DEF FilesInv, TreeIs
<1>2. Find(browser) = WalkFrom(nodes, StartOf(browser), browser)[Len(browser)]
  BY FindIs DEF Find
<1>3. LET w == WalkFrom(nodes, 1, browser) IN
      /\ w[0] = 1
      /\ \A i \in 1 .. Len(browser) : w[i] = Enter(nodes, w[i - 1], browser[i])
      /\ \A i \in 0 .. Len(browser) : w[i] \in 0 .. Len(nodes)
  BY <1>1, WalkIs
<1> QED
  BY <1>1, <1>2, <1>3, Zenon DEF StartOf, At

LEMMA SegsIs ==
  ASSUME FilesInv
  PROVE  /\ Len(main.segs) \in Nat /\ main.segs \in Seq(STRING) /\ main.child \in Nat
         /\ main.segs = <<>> <=> Len(main.segs) = 0
         /\ main.segs # <<>> => Head(main.segs) = main.segs[1]
  BY DEF FilesInv, MainType

LEMMA TreeStepWalk ==
  ASSUME FilesInv, WalkInv, TreeStep
  PROVE  WalkInv'
<1>1. /\ TreeIs(nodes) /\ TreeIs(nodes') /\ Grown(nodes, nodes')
      /\ UNCHANGED <<browser, main, began>>
  BY DEF FilesInv, TreeStep, Grows
<1>2. CASE main.pc = "walk" /\ IsAbsolute(browser)
  <2>1. \A k \in 0 .. Len(browser) : At(k) # 0 => At(k)' = At(k)
    BY <1>1, AtIs, WalkGrown DEF At
  <2>2. Gone' = Gone /\ Gone \in 0 .. Len(browser)
    BY <1>1, <1>2, AtIs, SegsIs DEF Gone, WalkInv
  <2>3. main.node # 0 => main.node = At(Gone)'
    BY <1>1, <1>2, <2>1, <2>2 DEF WalkInv
  <2>4. began # 0 => began = At(Len(browser))'
    <3>1. Len(browser) \in 0 .. Len(browser)
      BY AtIs
    <3> QED
      BY <1>1, <1>2, <2>1, <3>1 DEF WalkInv
  <2>5. ASSUME main.node # 0 PROVE Passed'
    <3> DEFINE old == nodes[main.node].kids
               new == nodes'[main.node].kids
    <3>1. /\ main.node \in 1 .. Len(nodes) /\ KidsAre(nodes, main.node)
          /\ Len(old) \in Nat /\ Len(new) >= Len(old) /\ Len(new) \in Nat
      <4>1. main.node \in 1 .. Len(nodes)
        BY <2>5, MainNodeIs
      <4>2. main.node \in 1 .. Len(nodes')
        BY <1>1, <4>1 DEF Grown, TreeIs
      <4> QED
        BY <1>1, <4>1, <4>2, NodeIs DEF Grown, TreeIs
    <3>2. ASSUME NEW i \in 1 .. main.child
          PROVE  i <= Len(new) /\ nodes'[new[i]].name # main.segs[1]
      <4>1. i <= Len(old) /\ nodes[old[i]].name # main.segs[1] /\ i \in 1 .. Len(old)
        BY <1>2, <2>5, <3>1, SegsIs DEF WalkInv, Passed
      <4>2. new[i] = old[i] /\ old[i] \in 2 .. Len(nodes) /\ old[i] \in 1 .. Len(nodes)
        <5>1. \A j \in 1 .. Len(old) : new[j] = old[j]
          BY <1>1, <3>1 DEF Grown
        <5>2. old[i] \in 2 .. Len(nodes)
          BY <3>1, <4>1 DEF KidsAre
        <5> QED
          BY <4>1, <5>1, <5>2, AtIs
      <4>3. nodes'[old[i]].name = nodes[old[i]].name
        BY <1>1, <4>2 DEF Grown
      <4> QED
        BY <3>1, <4>1, <4>2, <4>3
    <3> QED
      BY <1>1, <3>2 DEF Passed
  <2> QED
    BY <1>1, <1>2, <2>2, <2>3, <2>4, <2>5 DEF WalkInv
<1>3. CASE ~(main.pc = "walk" /\ IsAbsolute(browser))
  BY <1>1, <1>3 DEF WalkInv, IsAbsolute
<1> QED
  BY <1>2, <1>3

LEMMA SameWalk ==
  ASSUME WalkInv, UNCHANGED <<nodes, browser, main, began>>
  PROVE  WalkInv'
<1>1. \A k : At(k)' = At(k)
  BY DEF At
<1> QED
  BY <1>1 DEF WalkInv, IsAbsolute, Gone, Passed

LEMMA IdleWalk ==
  ASSUME main'.pc = "idle"
  PROVE  WalkInv'
  BY DEF WalkInv

LEMMA LookWalk ==
  ASSUME FilesInv, Look
  PROVE  WalkInv'
<1>1. /\ main'.segs = browser /\ main'.child = 0 /\ began' = Find(browser)
      /\ browser' = browser /\ nodes' = nodes
  BY DEF Look
<1>2. ASSUME IsAbsolute(browser) PROVE main'.node = 1
  BY <1>2 DEF Look, Root
<1>3. \A k : At(k)' = At(k)
  BY <1>1 DEF At
<1>4. Gone' = 0
  BY <1>1, AtIs DEF Gone
<1>5. \A i \in 1 .. Len(browser) : 0 + i = i
  OBVIOUS
<1>6. Passed'
  <2>1. \A i \in 1 .. main'.child : FALSE
    BY <1>1
  <2> QED
    BY <2>1 DEF Passed
<1>7. CASE IsAbsolute(browser)
  <2>1. main'.node = At(Gone)' /\ main'.node # 0
    BY <1>2, <1>3, <1>4, <1>7, AtIs
  <2>2. began' = At(Len(browser))'
    BY <1>1, <1>3, <1>7, AtIs
  <2>3. Len(main'.segs) <= Len(browser')
    BY <1>1, AtIs
  <2>4. \A i \in 1 .. Len(main'.segs) : main'.segs[i] = browser'[Gone' + i]
    BY <1>1, <1>4, <1>5
  <2> QED
    BY <1>6, <2>1, <2>2, <2>3, <2>4 DEF WalkInv
<1>8. CASE ~IsAbsolute(browser)
  BY <1>1, <1>8 DEF WalkInv, IsAbsolute
<1> QED
  BY <1>7, <1>8

(* A segment is gone, to where fs_find goes with it now. *)
LEMMA EnteredWalk ==
  ASSUME FilesInv, WalkInv, Walking, UNCHANGED <<nodes, cwd, cwd_path, browser, began>>,
         Entered(Enter(nodes, main.node, main.segs[1]))
  PROVE  WalkInv'
<1> DEFINE n == Enter(nodes, main.node, main.segs[1])
           last == Len(browser)
<1>1. main.pc = "walk" /\ main.node # 0 /\ main.segs # <<>> /\ n \in 0 .. Len(nodes)
  BY EnterIs DEF Walking, NULL, FilesInv
<1>2. /\ main'.node = n /\ main'.segs = Tail(main.segs) /\ main'.child = 0
      /\ main.segs \in Seq(STRING) /\ Len(main.segs) \in Nat \ {0}
  BY <1>1, EnteredIs, SegsIs
<1>3. CASE IsAbsolute(browser)
  <2>1. /\ Len(main'.segs) = Len(main.segs) - 1
        /\ \A i \in 1 .. Len(main'.segs) : main'.segs[i] = main.segs[i + 1]
    BY <1>1, <1>2
  <2>2. Gone \in Nat /\ Gone + 1 \in 1 .. last /\ Gone' = Gone + 1 /\ last \in Nat
    <3>1. Len(main.segs) <= last /\ last \in Nat /\ Gone = last - Len(main.segs)
      BY <1>1, <1>3, AtIs DEF Gone, WalkInv
    <3>2. Gone' = last - Len(main'.segs)
      BY DEF Gone
    <3> QED
      BY <1>2, <2>1, <3>1, <3>2
  <2>3. n = At(Gone + 1) /\ \A k : At(k)' = At(k)
    <3>1. main.segs[1] = browser[Gone + 1] /\ main.node = At(Gone)
      BY <1>1, <1>2, <1>3 DEF WalkInv
    <3>2. Gone + 1 - 1 = Gone
      BY <2>2
    <3>3. At(Gone + 1) = Enter(nodes, At(Gone), browser[Gone + 1])
      BY <2>2, <3>2, AtIs
    <3> QED
      BY <3>1, <3>3 DEF At
  <2>4. \A i \in 1 .. Len(main'.segs) : main'.segs[i] = browser[Gone' + i]
    <3>1. \A i \in 1 .. Len(main'.segs) :
            i + 1 \in 1 .. Len(main.segs) /\ Gone' + i = Gone + (i + 1)
      BY <1>2, <2>1, <2>2
    <3> QED
      BY <1>1, <1>3, <2>1, <3>1 DEF WalkInv
  <2>5. ASSUME n = 0 PROVE began = 0
    <3>1. At(last) = 0
      <4>1. Gone + 1 \in 0 .. last /\ 1 \in 0 .. Len(nodes)
        BY <2>2, AtIs
      <4>2. WalkFrom(nodes, 1, browser)[Gone + 1] = 0
        BY <2>3, <2>5 DEF At
      <4> QED
        BY <2>2, <4>1, <4>2, WalkNone DEF At, FilesInv
    <3> QED
      BY <1>1, <1>3, <3>1 DEF WalkInv
  <2>6. Passed'
    <3>1. \A i \in 1 .. main'.child : FALSE
      BY <1>2
    <3> QED
      BY <3>1 DEF Passed
  <2> HIDE DEF n
  <2>7. Len(main'.segs) <= last
    BY <1>1, <1>2, <1>3, <2>1, AtIs DEF WalkInv
  <2>8. began # 0 => began = At(last)
    BY <1>1, <1>3 DEF WalkInv
  <2> QED
    BY <1>2, <2>2, <2>3, <2>4, <2>5, <2>6, <2>7, <2>8 DEF WalkInv
<1>4. CASE ~IsAbsolute(browser)
  BY <1>4 DEF WalkInv, IsAbsolute
<1> QED
  BY <1>3, <1>4

(* The children are passed until the one of that name, or until all are.   *)
LEMMA WalkSegmentWalk ==
  ASSUME FilesInv, WalkInv, WalkSegment
  PROVE  WalkInv'
<1>1. Walking /\ main.segs # <<>> /\ UNCHANGED <<nodes, cwd, cwd_path, browser, began>>
  BY DEF WalkSegment, Walking
<1>2. Entered(Enter(nodes, main.node, main.segs[1]))
  BY <1>1, SegsIs DEF WalkSegment
<1> QED
  BY <1>1, <1>2, EnteredWalk

LEMMA WalkChildWalk ==
  ASSUME FilesInv, WalkInv, WalkChild
  PROVE  WalkInv'
<1> DEFINE kids == nodes[main.node].kids
           next == main.child + 1
           seg == main.segs[1]
           f == FindInDir(nodes, main.node, seg)
<1>1. /\ Walking /\ main.segs # <<>> /\ main.node # 0 /\ main.pc = "walk" /\ Ordinary(seg)
      /\ IF next > Len(kids) THEN Entered(0)
         ELSE IF nodes[kids[next]].name = seg THEN Entered(kids[next])
         ELSE main' = [main EXCEPT !.child = next]
      /\ UNCHANGED <<nodes, cwd, cwd_path, browser, began>>
  BY SegsIs DEF WalkChild, Walking, NULL, Ordinary
<1>2. /\ main.node \in 1 .. Len(nodes) /\ Len(nodes) \in Nat /\ Len(kids) \in Nat
      /\ main.child \in Nat /\ KidsAre(nodes, main.node) /\ TreeIs(nodes)
      /\ Enter(nodes, main.node, seg) = f
  <2>1. /\ main.node \in 1 .. Len(nodes) /\ Len(nodes) \in Nat /\ Len(kids) \in Nat
        /\ main.child \in Nat /\ TreeIs(nodes)
    BY <1>1, MainNodeIs, SegsIs DEF FilesInv
  <2>2. KidsAre(nodes, main.node)
    BY <2>1 DEF TreeIs
  <2>3. Enter(nodes, main.node, seg) = f
    BY ONLY <1>1, EnterName
  <2> QED
    BY <2>1, <2>2, <2>3
<1>3. \/ f \in 2 .. Len(nodes) /\ nodes[f].parent = main.node /\ nodes[f].name = seg
      \/ f = 0 /\ \A m \in 2 .. Len(nodes) : nodes[m].parent = main.node => nodes[m].name # seg
  BY <1>2, FindInDirIs
<1>4. \A m \in 2 .. Len(nodes) : nodes[m].parent = main.node /\ nodes[m].name = seg => m = f
  BY <1>2, <1>3 DEF TreeIs
<1> HIDE DEF f
<1>5. CASE ~IsAbsolute(browser)
  BY <1>1, <1>5 DEF WalkInv, IsAbsolute
<1>6. CASE IsAbsolute(browser)
  <2>0. /\ Passed
        /\ \A i \in 1 .. main.child : i <= Len(kids) /\ nodes[kids[i]].name # seg
    BY <1>1, <1>6 DEF WalkInv, Passed
  <2>1. CASE next > Len(kids)
    <3>1. f = 0
      <4>1. ASSUME f \in 2 .. Len(nodes), nodes[f].parent = main.node, nodes[f].name = seg
            PROVE  FALSE
        <5>1. PICK i \in 1 .. Len(kids) : kids[i] = f
          BY <1>2, <4>1 DEF KidsAre
        <5>2. i \in 1 .. main.child
          BY <1>2, <2>1, <5>1
        <5> QED
          BY <2>0, <4>1, <5>1, <5>2
      <4> QED
        BY <1>3, <4>1
    <3>2. Entered(f)
      BY <1>1, <2>1, <3>1
    <3> QED
      BY <1>1, <1>2, <3>2, EnteredWalk
  <2>2. CASE next <= Len(kids) /\ nodes[kids[next]].name = seg
    <3>1. next \in 1 .. Len(kids) /\ ~(next > Len(kids))
      BY <1>2, <2>2
    <3>2. kids[next] \in 2 .. Len(nodes) /\ nodes[kids[next]].parent = main.node
      BY <1>2, <3>1 DEF KidsAre
    <3>3. kids[next] = f
      BY <1>4, <2>2, <3>2
    <3>4. Entered(f)
      BY <1>1, <2>2, <3>1, <3>3
    <3> QED
      BY <1>1, <1>2, <3>4, EnteredWalk
  <2>3. CASE next <= Len(kids) /\ nodes[kids[next]].name # seg
    <3>1. ~(next > Len(kids)) /\ next \in Nat
      BY <1>2, <2>3
    <3>2. /\ main'.pc = main.pc /\ main'.segs = main.segs /\ main'.node = main.node
          /\ main'.child = next
      <4>1. main' = [main EXCEPT !.child = next] /\ main \in MainType
        BY <1>1, <2>3, <3>1 DEF FilesInv
      <4> QED
        BY <4>1 DEF MainType
    <3>3. \A i \in 1 .. next : i \in 1 .. main.child \/ i = next
      BY <1>2
    <3>4. \A i \in 1 .. next : i <= Len(kids) /\ nodes[kids[i]].name # seg
      BY <2>0, <2>3, <3>3
    <3>5. Passed'
      BY <1>1, <3>2, <3>4 DEF Passed
    <3>6. Gone' = Gone /\ IsAbsolute(browser)' = IsAbsolute(browser) /\ \A k : At(k)' = At(k)
      BY <1>1, <3>2 DEF Gone, IsAbsolute, At
    <3> QED
      BY <1>1, <1>6, <3>2, <3>5, <3>6 DEF WalkInv
  <2> QED
    BY <1>2, <2>1, <2>2, <2>3
<1> QED
  BY <1>5, <1>6

LEMMA WalkStep ==
  ASSUME FilesInv, WalkInv, VfsStep
  PROVE  WalkInv'
<1>1. CASE TreeStep
  BY <1>1, TreeStepWalk
<1>2. CASE UNCHANGED vars
  BY <1>2, SameWalk DEF vars
<1>3. ASSUME NEW path \in Texts, Chdir(path) PROVE WalkInv'
  BY <1>3, SameWalk DEF Chdir
<1>4. ASSUME NEW path \in Texts, Files(path) PROVE WalkInv'
  BY <1>4, IdleIs, IdleWalk DEF Files
<1>5. CASE Look \/ WalkSegment \/ WalkChild
  BY <1>5, LookWalk, WalkSegmentWalk, WalkChildWalk
<1>6. CASE Painted \/ Clicked
  <2>1. main' = Idle
    BY <1>6, Zenon DEF Painted, Clicked, ClickUp, ClickDir
  <2> QED
    BY <2>1, IdleIs, IdleWalk
<1> QED
  BY <1>1, <1>2, <1>3, <1>4, <1>5, <1>6, Zenon DEF VfsStep

LEMMA FoundIsRight ==
  ASSUME FilesInv, WalkInv
  PROVE  FoundAtStartOrEnd
<1>1. ASSUME Found, IsAbsolute(browser) PROVE main.node \in {began, Find(browser)}
  <2>1. CASE main.node = 0
    BY <1>1, <2>1 DEF Found, WalkInv
  <2>2. CASE main.node # 0
    <3>1. main.segs = <<>>
      BY <1>1, <2>2 DEF Found, NULL
    <3>2. Gone = Len(browser)
      BY <3>1, SegsIs, AtIs DEF Gone
    <3> QED
      BY <1>1, <2>2, <3>2, AtIs DEF Found, WalkInv
  <2> QED
    BY <2>1, <2>2
<1> QED
  BY <1>1 DEF FoundAtStartOrEnd

(* An interrupted walk finds what an uninterrupted one finds. *)
THEOREM WalkIsRight == AppsSpec => []WalkRight
<1>1. AppsInit => FilesInv /\ WalkInv
  <2>1. Init => WalkInv
    BY IdleIs DEF Init, WalkInv
  <2> QED
    BY <2>1, StartIs DEF AppsInit, ReadingInit
<1>2. FilesInv /\ WalkInv /\ [AppsNext]_AllVars => FilesInv' /\ WalkInv'
  BY AppsStepIs, FilesStep, WalkStep
<1>3. FilesInv /\ WalkInv => WalkRight
  BY FoundIsRight DEF WalkRight
<1> QED
  BY <1>1, <1>2, <1>3, PTL DEF AppsSpec

------------------------------------------------------------------------------
(* A longer path leads one step on from where the shorter one leads. *)
LEMMA WalkLonger ==
  ASSUME NEW tree, TreeIs(tree), NEW start \in 0 .. Len(tree),
         NEW p, Len(p) \in Nat, NEW q, Len(q) = Len(p) + 1, \A i \in 1 .. Len(p) : p[i] = q[i]
  PROVE  WalkFrom(tree, start, q)[Len(q)]
           = Enter(tree, WalkFrom(tree, start, p)[Len(p)], q[Len(q)])
<1> DEFINE v == WalkFrom(tree, start, p)
           w == WalkFrom(tree, start, q)
           n == Len(p)
<1>1. n \in Nat /\ Len(q) = n + 1 /\ n + 1 - 1 = n /\ n + 1 \in 1 .. Len(q) /\ n \in 0 .. n
  OBVIOUS
<1>2. w[n + 1] = Enter(tree, w[n + 1 - 1], q[n + 1])
  <2>1. \A i \in 1 .. Len(q) : w[i] = Enter(tree, w[i - 1], q[i])
    BY <1>1, WalkIs
  <2> HIDE DEF w
  <2> QED
    BY <1>1, <2>1
<1>3. v[n] = w[n]
  BY <1>1, WalkPrefix
<1> HIDE DEF v, w
<1>4. w[Len(q)] = Enter(tree, v[n], q[Len(q)])
  BY <1>1, <1>2, <1>3
<1> QED
  BY <1>4 DEF v, w

(* Into a child, by its name, and back to its parent. *)
LEMMA EnterChild ==
  ASSUME NEW tree, TreeIs(tree), NEW kid \in 2 .. Len(tree), Ordinary(tree[kid].name)
  PROVE  Enter(tree, tree[kid].parent, tree[kid].name) = kid
<1> DEFINE dir == tree[kid].parent
           name == tree[kid].name
           f == FindInDir(tree, dir, name)
<1>0. Ordinary(name)
  OBVIOUS
<1>1. dir \in 1 .. Len(tree) /\ dir # 0
  BY DEF TreeIs
<1>2. Enter(tree, dir, name) = f
  BY ONLY <1>0, <1>1, EnterName
<1>3. f = kid
  <2>1. \/ f = 0 /\ \A m \in 2 .. Len(tree) : tree[m].parent = dir => tree[m].name # name
        \/ \A m \in 2 .. Len(tree) : tree[m].parent = dir /\ tree[m].name = name => m = f
    BY <1>1, FindInDirIs
  <2> QED
    BY <2>1
<1> QED
  BY <1>2, <1>3

LEMMA EnterParent ==
  ASSUME NEW tree, TreeIs(tree), NEW dir \in 0 .. Len(tree), NEW seg, Ordinary(seg),
         Enter(tree, dir, seg) # 0
  PROVE  /\ dir # 0 /\ Enter(tree, dir, seg) \in 2 .. Len(tree)
         /\ tree[Enter(tree, dir, seg)].parent = dir /\ tree[Enter(tree, dir, seg)].name = seg
<1>0. Ordinary(seg)
  OBVIOUS
<1>1. dir # 0
  BY DEF Enter, NULL
<1>2. dir \in 1 .. Len(tree)
  BY <1>1 DEF TreeIs
<1>3. Enter(tree, dir, seg) = FindInDir(tree, dir, seg)
  BY ONLY <1>0, <1>1, EnterName
<1> QED
  BY <1>1, <1>2, <1>3, FindInDirIs

(* Where a click starts from: an absolute path has been walked to its end. *)
LEMMA ClickedAt ==
  ASSUME FilesInv, WalkInv, Found, IsAbsolute(browser), IsDir(main.node)
  PROVE  /\ main.node \in 1 .. Len(nodes) /\ main.node = At(Len(browser))
         /\ Len(browser) \in Nat /\ Len(browser) > 1
         /\ At(1) = 1 /\ At(Len(browser) - 1) \in 0 .. Len(nodes)
         /\ At(Len(browser)) = Enter(nodes, At(Len(browser) - 1), browser[Len(browser)])
<1>1. main.node # 0 /\ main.segs = <<>> /\ main.pc = "walk"
  BY DEF IsDir, NULL, Found
<1>2. Gone = Len(browser)
  BY <1>1, SegsIs, AtIs DEF Gone
<1>3. main.node = At(Len(browser)) /\ main.node \in 1 .. Len(nodes)
  BY <1>1, <1>2, MainNodeIs DEF WalkInv
<1>4. Len(browser) \in Nat /\ Len(browser) > 1
  BY AtIs DEF IsAbsolute
<1>5. At(1) = 1
  <2>1. 1 \in 1 .. Len(browser) /\ 1 - 1 = 0
    BY <1>4
  <2>2. At(1) = Enter(nodes, At(0), browser[1]) /\ At(0) = 1
    BY <2>1, AtIs
  <2>3. Stays(browser[1])
    BY DEF IsAbsolute, Stays
  <2>4. 1 # 0
    OBVIOUS
  <2> QED
    BY ONLY <2>2, <2>3, <2>4, EnterHere
<1>6. Len(browser) - 1 \in 0 .. Len(browser) /\ Len(browser) \in 1 .. Len(browser)
  BY <1>4
<1> QED
  BY <1>3, <1>4, <1>5, <1>6, AtIs

LEMMA RootWalk ==
  ASSUME NEW tree, TreeIs(tree)
  PROVE  WalkFrom(tree, 1, <<"", "">>)[2] = 1 /\ IsAbsolute(<<"", "">>)
<1> DEFINE p == <<"", "">>
           w == WalkFrom(tree, 1, p)
<1>1. IsAbsolute(p) /\ Len(p) = 2 /\ Stays(p[1]) /\ Stays(p[2])
  BY DEF IsAbsolute, Stays
<1> HIDE DEF p
<1>2. 1 \in 1 .. Len(p) /\ 2 \in 1 .. Len(p) /\ 1 - 1 = 0 /\ 2 - 1 = 1 /\ Len(p) \in Nat
  <2>1. Len(p) = 2
    BY <1>1
  <2> QED
    BY <2>1
<1>3. 1 \in 0 .. Len(tree)
  BY DEF TreeIs
<1>4. w[0] = 1 /\ \A i \in 1 .. Len(p) : w[i] = Enter(tree, w[i - 1], p[i])
  BY <1>2, <1>3, WalkIs
<1>5. w[1] = Enter(tree, 1, p[1]) /\ w[2] = Enter(tree, w[1], p[2])
  BY <1>2, <1>4
<1> HIDE DEF w
<1>6. 1 # 0
  OBVIOUS
<1>7. w[1] = 1
  <2>1. Enter(tree, 1, p[1]) = 1
    BY ONLY <1>1, <1>6, EnterHere
  <2> QED
    BY <1>5, <2>1
<1>8. w[2] = 1
  <2>1. Enter(tree, 1, p[2]) = 1
    BY ONLY <1>1, <1>6, EnterHere
  <2> QED
    BY <1>5, <1>7, <2>1
<1> QED
  BY <1>1, <1>8 DEF p, w

LEMMA UpGoesThere ==
  ASSUME FilesInv, WalkInv, IsAbsolute(browser), ClickUp, Ordinary(Last(browser))
  PROVE  Find(browser)' = nodes[main.node].parent
<1> DEFINE n == Len(browser)
           f == Front(browser)
<1>1. /\ Found /\ IsDir(main.node) /\ nodes' = nodes /\ cwd' = cwd
      /\ browser' = IF f \in {<<>>, <<"">>} THEN <<"", "">> ELSE f
  BY DEF ClickUp
<1>2. /\ browser \in Seq(STRING) /\ browser # <<>> /\ n \in Nat /\ n > 1
      /\ f \in Seq(STRING) /\ Len(f) = n - 1 /\ \A i \in 1 .. n - 1 : f[i] = browser[i]
      /\ Last(browser) = browser[n]
  BY <1>1, ClickedAt, FrontIs DEF FilesInv
<1>3. /\ TreeIs(nodes) /\ 1 \in 0 .. Len(nodes) /\ Len(nodes) \in Nat
      /\ At(n - 1) \in 0 .. Len(nodes)
      /\ main.node = Enter(nodes, At(n - 1), browser[n]) /\ main.node # 0 /\ At(1) = 1
  <2>1. /\ TreeIs(nodes) /\ Len(nodes) \in Nat /\ 1 \in 1 .. Len(nodes)
    BY AtIs DEF FilesInv
  <2>2. /\ main.node \in 1 .. Len(nodes) /\ main.node = Enter(nodes, At(n - 1), browser[n])
        /\ At(n - 1) \in 0 .. Len(nodes) /\ At(1) = 1
    BY <1>1, ClickedAt
  <2> QED
    BY <2>1, <2>2
<1>4. nodes[main.node].parent = At(n - 1)
  <2>1. Ordinary(browser[n])
    BY <1>2
  <2> QED
    BY <1>3, <2>1, EnterParent
<1>5. Find(browser)' = WalkFrom(nodes, StartOf(browser'), browser')[Len(browser')]
  <2>1. Find(browser)' = WalkFrom(nodes', StartOf(browser)', browser')[Len(browser')]
    BY FindIs DEF Find, FindIn, WalkFrom, StartOf, Root
  <2>2. StartOf(browser)' = StartOf(browser')
    BY <1>1 DEF StartOf, IsAbsolute
  <2> QED
    BY <1>1, <2>1, <2>2
<1>6. CASE n = 2
  <2>1. f = <<"">>
    <3>1. Len(f) = 1 /\ f[1] = browser[1]
      BY <1>2, <1>6
    <3>2. browser[1] = ""
      BY DEF IsAbsolute
    <3> HIDE DEF f
    <3>3. f = <<f[1]>>
      BY <1>2, <3>1
    <3> QED
      BY <3>1, <3>2, <3>3
  <2>2. browser' = <<"", "">>
    BY <1>1, <2>1
  <2>3. WalkFrom(nodes, 1, <<"", "">>)[2] = 1 /\ IsAbsolute(<<"", "">>)
    BY <1>3, RootWalk
  <2>4. Find(browser)' = 1
    BY <1>5, <2>2, <2>3, PathTexts, Zenon DEF StartOf
  <2>5. n - 1 = 1
    BY <1>6
  <2> QED
    BY <1>3, <1>4, <2>4, <2>5
<1>7. CASE n > 2
  <2>1. Len(f) \in Nat /\ Len(f) > 1 /\ Len(f) <= n /\ Len(f) \in 0 .. Len(f) /\ n - 1 = Len(f)
    BY <1>2, <1>7
  <2>2. browser' = f
    <3>1. f # <<>> /\ f # <<"">>
      <4> HIDE DEF f
      <4>1. Len(f) > 1
        BY <2>1
      <4>2. f # <<>>
        BY <4>1
      <4>3. ASSUME f = <<"">> PROVE FALSE
        <5>1. Len(f) = 1
          BY <4>3, PathTexts, Zenon
        <5> QED
          BY <4>1, <5>1
      <4> QED
        BY <4>2, <4>3
    <3> QED
      BY <1>1, <3>1
  <2>3. IsAbsolute(f)
    <3>1. f[1] = browser[1]
      BY <1>2
    <3> QED
      BY <2>1, <3>1 DEF IsAbsolute
  <2>4. WalkFrom(nodes, 1, f)[n - 1] = At(n - 1)
    <3> HIDE DEF f
    <3>1. \A i \in 1 .. Len(f) : f[i] = browser[i]
      BY <1>2, <2>1
    <3>2. \A i \in 0 .. Len(f) : WalkFrom(nodes, 1, f)[i] = WalkFrom(nodes, 1, browser)[i]
      <4>1. Len(browser) \in Nat /\ Len(f) \in Nat /\ Len(f) <= Len(browser)
        BY <1>2, <2>1
      <4> QED
        BY <1>3, <3>1, <4>1, WalkPrefix
    <3> QED
      BY <2>1, <3>2 DEF At
  <2> QED
    BY <1>2, <1>4, <1>5, <2>2, <2>3, <2>4 DEF StartOf
<1>8. n = 2 \/ n > 2
  BY <1>2
<1> QED
  BY <1>6, <1>7, <1>8

LEMMA DownGoesThere ==
  ASSUME FilesInv, WalkInv, IsAbsolute(browser), NEW i, ClickDir(i),
         Ordinary(nodes[Shown(i)].name), browser' # browser
  PROVE  Find(browser)' = Shown(i)
<1> DEFINE n == Len(browser)
           kid == Shown(i)
           name == nodes[kid].name
<1>1. /\ Found /\ IsDir(main.node) /\ nodes' = nodes /\ cwd' = cwd
  BY DEF ClickDir
<1>2. /\ browser \in Seq(STRING) /\ n \in Nat /\ n > 1 /\ main.node = At(n)
      /\ At(1) = 1 /\ TreeIs(nodes) /\ 1 \in 0 .. Len(nodes)
  <2>1. /\ TreeIs(nodes) /\ 1 \in 1 .. Len(nodes) /\ Len(nodes) \in Nat /\ browser \in Seq(STRING)
    BY AtIs DEF FilesInv
  <2> QED
    BY <1>1, <2>1, ClickedAt
<1>3. kid \in 2 .. Len(nodes) /\ nodes[kid].parent = main.node /\ name \in STRING
  BY ShownIs, VfsAssumption DEF VfsConstants
<1>4. Enter(nodes, main.node, name) = kid
  BY <1>2, <1>3, EnterChild
<1>5. browser \notin Short
  <2>1. n \in Nat /\ n > 1
    BY <1>2, Zenon
  <2> HIDE DEF n
  <2>2. n # 1
    BY <2>1
  <2> QED
    BY <2>2, ShortIs, Zenon DEF n
<1>6. browser' = IF browser = <<"", "">> THEN <<"", name>> ELSE Append(browser, name)
  BY <1>5, Zenon DEF ClickDir, Behind
<1> HIDE DEF kid, name
<1>7. Find(browser)' = WalkFrom(nodes, StartOf(browser'), browser')[Len(browser')]
  <2>1. Find(browser)' = WalkFrom(nodes', StartOf(browser)', browser')[Len(browser')]
    BY FindIs DEF Find, FindIn, WalkFrom, StartOf, Root
  <2>2. StartOf(browser)' = StartOf(browser')
    BY <1>1 DEF StartOf, IsAbsolute
  <2> QED
    BY <1>1, <2>1, <2>2
<1>8. CASE browser = <<"", "">>
  <2> DEFINE p == <<"">>
             q == <<"", name>>
  <2>1. /\ Len(p) = 1 /\ p[1] = "" /\ Len(q) = 2 /\ q[1] = "" /\ q[2] = name
    BY <1>3, PathTexts, ShortPaths, Zenon
  <2> HIDE DEF p, q
  <2>2. Len(p) \in Nat /\ Len(q) = Len(p) + 1 /\ Len(p) <= n /\ 1 \in 0 .. Len(p)
    <3>1. Len(p) = 1 /\ Len(q) = 2
      BY <2>1
    <3> QED
      BY <1>2, <3>1
  <2>3. browser' = q
    BY <1>6, <1>8 DEF q
  <2>4. \A j \in 1 .. Len(p) : p[j] = q[j] /\ p[j] = browser[j]
    <3>1. browser[1] = ""
      BY DEF IsAbsolute
    <3>2. p[1] = q[1] /\ p[1] = browser[1]
      BY <2>1, <3>1, Zenon
    <3>3. \A j \in 1 .. Len(p) : j = 1
      <4>1. Len(p) = 1
        BY <2>1
      <4> QED
        BY <4>1
    <3> QED
      BY <3>2, <3>3
  <2>5. IsAbsolute(q)
    <3>1. Len(q) > 1
      <4>1. Len(q) = 2
        BY <2>1
      <4> QED
        BY <4>1
    <3> QED
      BY <2>1, <3>1 DEF IsAbsolute
  <2>6. WalkFrom(nodes, 1, p)[1] = 1
    <3>1. \A j \in 1 .. Len(p) : p[j] = browser[j]
      BY <2>4
    <3>2. \A j \in 0 .. Len(p) : WalkFrom(nodes, 1, p)[j] = WalkFrom(nodes, 1, browser)[j]
      BY <1>2, <2>2, <3>1, WalkPrefix
    <3> QED
      BY <1>2, <2>2, <3>2 DEF At
  <2>7. WalkFrom(nodes, 1, q)[Len(q)] = Enter(nodes, WalkFrom(nodes, 1, p)[Len(p)], q[Len(q)])
    <3>1. \A j \in 1 .. Len(p) : p[j] = q[j]
      BY <2>4
    <3> QED
      BY <1>2, <2>2, <3>1, WalkLonger
  <2>8. WalkFrom(nodes, 1, q)[2] = Enter(nodes, 1, name)
    BY <2>1, <2>6, <2>7, Zenon
  <2>9. main.node = 1
    <3>1. n = 2
      BY <1>8, PathTexts
    <3>2. WalkFrom(nodes, 1, <<"", "">>)[2] = 1
      BY <1>2, RootWalk
    <3> QED
      BY <1>2, <1>8, <3>1, <3>2, Zenon DEF At
  <2>10. Find(browser)' = WalkFrom(nodes, 1, q)[2]
    BY <1>7, <2>1, <2>3, <2>5, Zenon DEF StartOf
  <2> QED
    BY <1>4, <2>8, <2>9, <2>10, Zenon DEF kid
<1>9. CASE browser # <<"", "">>
  <2> DEFINE q == Append(browser, name)
  <2>1. /\ Len(q) = n + 1 /\ \A j \in 1 .. n : q[j] = browser[j]
        /\ q[n + 1] = name
    <3>1. browser \in Seq(STRING) /\ name \in STRING
      BY <1>2, <1>3
    <3>2. /\ Len(Append(browser, name)) = Len(browser) + 1
          /\ \A j \in 1 .. Len(browser) : Append(browser, name)[j] = browser[j]
          /\ Append(browser, name)[Len(browser) + 1] = name
      BY <3>1, LongerPath
    <3> QED
      BY <3>2
  <2>2. browser' = q
    BY <1>6, <1>9
  <2> HIDE DEF q
  <2>3. IsAbsolute(q)
    <3>1. q[1] = browser[1] /\ Len(q) > 1
      BY <1>2, <2>1
    <3> QED
      BY <3>1 DEF IsAbsolute
  <2>4. WalkFrom(nodes, 1, q)[Len(q)] = Enter(nodes, WalkFrom(nodes, 1, browser)[n], q[Len(q)])
    BY <1>2, <2>1, WalkLonger
  <2>5. WalkFrom(nodes, 1, q)[Len(q)] = Enter(nodes, main.node, name)
    BY <1>2, <2>1, <2>4, Zenon DEF At
  <2>6. Find(browser)' = WalkFrom(nodes, 1, q)[Len(q)]
    BY <1>7, <2>2, <2>3, Zenon DEF StartOf
  <2> QED
    BY <1>4, <2>5, <2>6, Zenon DEF kid
<1> QED
  BY <1>8, <1>9

(* A click in the browser goes to the directory that it shows. *)
THEOREM ClickIsRight == AppsSpec => ClickGoesThere
<1>1. AppsInit => FilesInv /\ WalkInv
  <2>1. Init => WalkInv
    BY IdleIs DEF Init, WalkInv
  <2> QED
    BY <2>1, StartIs DEF AppsInit, ReadingInit
<1>2. FilesInv /\ WalkInv /\ [AppsNext]_AllVars => FilesInv' /\ WalkInv'
  BY AppsStepIs, FilesStep, WalkStep
<1> DEFINE There ==
      IsAbsolute(browser) /\ browser' # browser =>
        /\ ClickUp /\ Ordinary(Last(browser)) => Find(browser)' = nodes[main.node].parent
        /\ \A i \in 1 .. MaxNodes :
             ClickDir(i) /\ Ordinary(nodes[Shown(i)].name) => Find(browser)' = Shown(i)
<1>3. FilesInv /\ WalkInv => There
  BY UpGoesThere, DownGoesThere
<1>4. AppsSpec => [](FilesInv /\ WalkInv)
  BY <1>1, <1>2, PTL DEF AppsSpec
<1>5. AppsSpec => [][There]_vars
  <2> HIDE DEF There
  <2> QED
    BY <1>3, <1>4, PTL
<1> QED
  BY <1>5 DEF ClickGoesThere

LEMMA RootReachable ==
  ASSUME NEW tree, TreeIs(tree)
  PROVE  Reachable(tree, 1)
<1>1. {1} \in SUBSET (1 .. Len(tree))
  BY DEF TreeIs
<1> QED
  BY <1>1 DEF Reachable

LEMMA ReachableGrown ==
  ASSUME NEW a, NEW b, TreeIs(a), TreeIs(b), Grown(a, b), NEW n, Reachable(a, n)
  PROVE  Reachable(b, n)
<1>1. PICK S \in SUBSET (1 .. Len(a)) :
        /\ n \in S
        /\ \A m \in S : m # 1 => Ordinary(a[m].name) /\ a[m].parent \in S
  BY DEF Reachable
<1>2. S \in SUBSET (1 .. Len(b))
  BY DEF TreeIs, Grown
<1>3. \A m \in S : a[m].name = b[m].name /\ a[m].parent = b[m].parent
  BY DEF Grown
<1> QED
  BY <1>1, <1>2, <1>3 DEF Reachable

LEMMA EnterReachable ==
  ASSUME NEW tree, TreeIs(tree), NEW n \in 1 .. Len(tree), Reachable(tree, n), NEW seg,
         Enter(tree, n, seg) # 0
  PROVE  Reachable(tree, Enter(tree, n, seg))
<1> DEFINE m == Enter(tree, n, seg)
<1>1. n # 0 /\ n \in 0 .. Len(tree) /\ Len(tree) \in Nat
  BY NodeIs DEF TreeIs
<1>2. PICK S \in SUBSET (1 .. Len(tree)) :
        /\ n \in S
        /\ \A x \in S : x # 1 => Ordinary(tree[x].name) /\ tree[x].parent \in S
  BY DEF Reachable
<1>3. CASE seg \in {"", "."}
  <2>1. Stays(seg)
    BY <1>3, Zenon DEF Stays
  <2>2. m = n
    BY <1>1, <2>1, EnterHere
  <2> QED
    BY <2>2 DEF m
<1>4. CASE seg = ".."
  <2>1. m = Max({tree[n].parent, 1})
    BY ONLY <1>1, <1>4, EnterUp
  <2>2. CASE n = 1
    <3>1. m = 1
      BY <2>1, <2>2, MaxIs DEF TreeIs
    <3> QED
      BY <3>1, RootReachable
  <2>3. CASE n # 1
    <3>1. n \in 2 .. Len(tree)
      BY <1>1, <2>3
    <3>2. tree[n].parent \in Nat /\ tree[n].parent # 0
      BY <3>1 DEF TreeIs
    <3>3. m = tree[n].parent
      BY <2>1, <3>2, MaxIs
    <3> HIDE DEF m
    <3> QED
      BY <1>2, <2>3, <3>3 DEF Reachable, m
  <2> QED
    BY <2>2, <2>3
<1>5. CASE Ordinary(seg)
  <2>1. m \in 2 .. Len(tree) /\ tree[m].parent = n /\ tree[m].name = seg
    BY <1>1, <1>5, EnterParent
  <2> HIDE DEF m
  <2> DEFINE U == S \cup {m}
  <2>2. U \in SUBSET (1 .. Len(tree)) /\ m \in U
    <3>1. m \in 1 .. Len(tree)
      BY <2>1
    <3> QED
      BY <3>1
  <2>3. \A x \in U : x # 1 => Ordinary(tree[x].name) /\ tree[x].parent \in U
    BY <1>2, <1>5, <2>1
  <2>4. Reachable(tree, m)
    BY <2>2, <2>3 DEF Reachable
  <2> QED
    BY <2>4 DEF m
<1> QED
  BY <1>3, <1>4, <1>5 DEF Ordinary

LEMMA WalkReachable ==
  ASSUME NEW tree, TreeIs(tree), NEW start \in 1 .. Len(tree), Reachable(tree, start),
         NEW path, Len(path) \in Nat, WalkFrom(tree, start, path)[Len(path)] # 0
  PROVE  Reachable(tree, WalkFrom(tree, start, path)[Len(path)])
<1> DEFINE n == Len(path)
           w == WalkFrom(tree, start, path)
           T == {i \in 0 .. n : w[i] # 0 => Reachable(tree, w[i])}
<1>1. start \in 0 .. Len(tree) /\ Len(tree) \in Nat
  BY DEF TreeIs
<1>2. /\ w[0] = start /\ \A i \in 1 .. n : w[i] = Enter(tree, w[i - 1], path[i])
      /\ \A i \in 0 .. n : w[i] \in 0 .. Len(tree)
  BY <1>1, WalkIs
<1>3. n \in Nat /\ w[n] # 0
  OBVIOUS
<1> HIDE DEF w, n
<1>4. 0 \in T
  BY <1>2, <1>3
<1>5. ASSUME NEW i \in 1 .. n, i - 1 \in T PROVE i \in T
  <2>1. i \in 0 .. n /\ i - 1 \in 0 .. n /\ (w[i - 1] # 0 => Reachable(tree, w[i - 1]))
    BY <1>3, <1>5
  <2>2. w[i] = Enter(tree, w[i - 1], path[i])
    BY <1>2
  <2>3. CASE w[i - 1] = 0
    BY <2>1, <2>2, <2>3 DEF Enter, NULL
  <2>4. CASE w[i - 1] # 0
    <3>1. w[i - 1] \in 1 .. Len(tree)
      <4>1. w[i - 1] \in 0 .. Len(tree)
        BY <1>2, <2>1
      <4> QED
        BY <1>1, <2>4, <4>1
    <3> QED
      BY <2>1, <2>2, <2>4, <3>1, EnterReachable
  <2> QED
    BY <2>3, <2>4
<1> HIDE DEF T
<1>6. 0 .. n \subseteq T
  BY <1>3, <1>4, <1>5, UpTo
<1>7. n \in T
  BY <1>3, <1>6
<1> QED
  BY <1>3, <1>7 DEF T, w, n

(* The names on the way to such a directory lead to it. *)
LEMMA TextLeads ==
  ASSUME TreeIs(nodes), NEW dir \in 1 .. Len(nodes), Reachable(nodes, dir)
  PROVE  IsAbsolute(TextOf(dir)) /\ WalkFrom(nodes, 1, TextOf(dir))[Len(TextOf(dir))] = dir
<1> DEFINE N == Len(nodes)
           none == ""
           t == NamesFrom(<<"">>)
           end(n) == WalkFrom(nodes, 1, t[n])[Len(t[n])]
<1>1. PICK S \in SUBSET (1 .. Len(nodes)) :
        /\ dir \in S
        /\ \A m \in S : m # 1 => Ordinary(nodes[m].name) /\ nodes[m].parent \in S
  BY DEF Reachable
<1>2. /\ t[1] = <<"">>
      /\ \A n \in 2 .. N : t[n] = Append(t[nodes[n].parent], nodes[n].name)
      /\ \A n \in 1 .. N : t[n] \in Seq(STRING)
  BY PathTexts, NamesIs
<1>3. N \in Nat /\ 1 \in 0 .. N /\ \A n \in 1 .. N : nodes[n].name \in STRING
  <2>1. ASSUME NEW n \in 1 .. N PROVE nodes[n].name \in STRING
    BY NodeIs, VfsAssumption DEF VfsConstants, NodeType
  <2> QED
    BY <2>1 DEF TreeIs
<1> HIDE DEF t, none
<1> DEFINE T == {k \in 0 .. N : \A n \in 1 .. k :
                   /\ Len(t[n]) \in Nat \ {0} /\ t[n][1] = none /\ (n # 1 => Len(t[n]) > 1)
                   /\ (n \in S => end(n) = n)}
<1>4. 0 \in T
  <2>1. 0 \in 0 .. N /\ \A n \in 1 .. 0 : FALSE
    BY <1>3
  <2> QED
    BY <2>1
<1>5. ASSUME NEW k \in 1 .. N, k - 1 \in T PROVE k \in T
  <2>1. k \in 0 .. N /\ \A n \in 1 .. k : n = k \/ n \in 1 .. k - 1
    BY <1>3
  <2>2. \A n \in 1 .. k - 1 :
          /\ Len(t[n]) \in Nat \ {0} /\ t[n][1] = none /\ (n # 1 => Len(t[n]) > 1)
          /\ (n \in S => end(n) = n)
    BY <1>5
  <2>3. CASE k = 1
    <3> DEFINE p == <<"">>
    <3>1. Len(p) = 1 /\ p[1] = none
      BY PathTexts, ShortPaths, Zenon DEF none
    <3> HIDE DEF p
    <3>2. 1 \in 1 .. Len(p) /\ 1 - 1 = 0 /\ Len(p) \in Nat
      <4>1. Len(p) = 1
        BY <3>1
      <4> QED
        BY <4>1
    <3>3. /\ WalkFrom(nodes, 1, p)[0] = 1
          /\ \A i \in 1 .. Len(p) :
               WalkFrom(nodes, 1, p)[i] = Enter(nodes, WalkFrom(nodes, 1, p)[i - 1], p[i])
      BY <1>3, <3>2, WalkIs
    <3>4. WalkFrom(nodes, 1, p)[1] = Enter(nodes, 1, p[1])
      BY <3>2, <3>3
    <3>5. 1 # 0
      OBVIOUS
    <3>6. Enter(nodes, 1, p[1]) = 1
      <4>1. Stays(none)
        BY Zenon DEF Stays, none
      <4> QED
        BY ONLY <3>1, <3>5, <4>1, EnterHere
    <3>7. t[k] = p
      BY <1>2, <2>3 DEF p
    <3>8. end(k) = k
      BY <2>3, <3>1, <3>4, <3>6, <3>7
    <3>9. Len(t[k]) \in Nat \ {0} /\ t[k][1] = none
      <4>1. Len(t[k]) = 1
        BY <3>1, <3>7
      <4> QED
        BY <3>1, <3>7, <4>1
    <3> QED
      BY <2>1, <2>2, <2>3, <3>8, <3>9, Zenon
  <2>4. CASE k # 1
    <3> DEFINE up == nodes[k].parent
               name == nodes[k].name
    <3>1. k \in 2 .. N /\ up \in 1 .. k - 1 /\ up \in 1 .. N /\ name \in STRING
      <4>1. k \in 2 .. N
        BY <1>3, <2>4
      <4>2. up \in 1 .. k - 1
        BY <4>1 DEF TreeIs
      <4> QED
        BY <1>3, <4>1, <4>2
    <3>2. /\ t[k] = Append(t[up], name) /\ t[up] \in Seq(STRING)
          /\ Len(t[up]) \in Nat \ {0} /\ t[up][1] = none
      BY <1>2, <2>2, <3>1
    <3>3. /\ Len(t[k]) = Len(t[up]) + 1 /\ \A i \in 1 .. Len(t[up]) : t[k][i] = t[up][i]
          /\ t[k][Len(t[up]) + 1] = name
      <4>1. /\ Len(Append(t[up], name)) = Len(t[up]) + 1
            /\ \A i \in 1 .. Len(t[up]) : Append(t[up], name)[i] = t[up][i]
            /\ Append(t[up], name)[Len(t[up]) + 1] = name
        BY <3>1, <3>2, LongerPath
      <4> QED
        BY <3>2, <4>1
    <3>4. t[k][1] = none /\ Len(t[k]) \in Nat \ {0} /\ Len(t[k]) > 1
      <4>1. 1 \in 1 .. Len(t[up])
        BY <3>2
      <4>2. t[k][1] = t[up][1]
        BY <3>3, <4>1
      <4>3. Len(t[k]) \in Nat \ {0} /\ Len(t[k]) > 1
        BY <3>2, <3>3
      <4> QED
        BY <3>2, <4>2, <4>3, Zenon
    <3>5. ASSUME k \in S PROVE end(k) = k
      <4>1. Ordinary(name) /\ up \in S
        BY <1>1, <2>4, <3>5
      <4>2. end(up) = up
        BY <2>2, <3>1, <4>1
      <4>3. end(k) = Enter(nodes, end(up), t[k][Len(t[k])])
        <5> DEFINE p == t[up]
                   q == t[k]
        <5>1. Len(p) \in Nat /\ Len(q) = Len(p) + 1
          BY <3>2, <3>3
        <5>2. \A i \in 1 .. Len(p) : p[i] = q[i]
          BY <3>3
        <5> HIDE DEF p, q
        <5>3. 1 \in 0 .. Len(nodes)
          BY <1>3
        <5>4. WalkFrom(nodes, 1, q)[Len(q)]
                = Enter(nodes, WalkFrom(nodes, 1, p)[Len(p)], q[Len(q)])
          BY <5>1, <5>2, <5>3, WalkLonger
        <5> QED
          BY <5>4 DEF p, q
      <4>4. Enter(nodes, up, name) = k
        BY <3>1, <4>1, EnterChild
      <4> QED
        BY <3>3, <4>2, <4>3, <4>4
    <3> QED
      BY <2>1, <2>2, <3>4, <3>5, Zenon
  <2> QED
    BY <2>3, <2>4
<1> HIDE DEF T
<1>6. 0 .. N \subseteq T
  BY <1>3, <1>4, <1>5, UpTo
<1>7. N \in T
  BY <1>3, <1>6
<1>8. /\ Len(t[dir]) \in Nat \ {0} /\ t[dir][1] = none /\ (dir # 1 => Len(t[dir]) > 1)
      /\ end(dir) = dir
  BY <1>1, <1>7 DEF T
<1>9. CASE dir = 1
  BY <1>9, RootWalk, PathTexts, TextIs, Zenon
<1>10. CASE dir # 1
  <2>1. TextOf(dir) = t[dir]
    BY <1>10, TextIs DEF t
  <2> QED
    BY <1>8, <1>10, <2>1, Zenon DEF IsAbsolute, none
<1> QED
  BY <1>9, <1>10

LEMMA CwdStep ==
  ASSUME FilesInv, CwdInv, VfsStep
  PROVE  CwdInv'
<1>1. CASE TreeStep
  <2>1. /\ TreeIs(nodes) /\ TreeIs(nodes') /\ Grown(nodes, nodes')
        /\ cwd' = cwd /\ cwd_path' = cwd_path
    BY <1>1 DEF FilesInv, TreeStep, Grows
  <2>2. Reachable(nodes', cwd')
    BY <2>1, ReachableGrown DEF CwdInv
  <2>3. /\ cwd # 0 /\ 1 \in 1 .. Len(nodes)
        /\ Len(cwd_path) \in Nat /\ Len(cwd_path) \in 0 .. Len(cwd_path)
    BY NodeIs, AtIs DEF FilesInv
  <2>4. WalkFrom(nodes', 1, cwd_path)[Len(cwd_path)] = cwd
    BY <2>1, <2>3, WalkGrown DEF CwdInv
  <2> QED
    BY <2>1, <2>2, <2>4 DEF CwdInv, IsAbsolute
<1>2. ASSUME UNCHANGED <<nodes, cwd, cwd_path>> PROVE CwdInv'
  BY <1>2 DEF CwdInv, IsAbsolute
<1>3. ASSUME NEW path \in Texts, Chdir(path) PROVE CwdInv'
  <2> DEFINE node == Find(path)
  <2>1. CASE ~IsDir(node)
    BY <1>2, <1>3, <2>1 DEF Chdir
  <2>2. CASE IsDir(node)
    <3>1. /\ TreeIs(nodes) /\ 1 \in 1 .. Len(nodes) /\ Len(nodes) \in Nat
          /\ StartOf(path) \in 1 .. Len(nodes) /\ Len(path) \in Nat
      BY AtIs, PathIs DEF FilesInv, StartOf
    <3>2. Reachable(nodes, StartOf(path))
      BY <3>1, RootReachable DEF CwdInv, StartOf
    <3>3. node = WalkFrom(nodes, StartOf(path), path)[Len(path)] /\ node # 0
      BY <2>2, FindIs DEF Find, IsDir, NULL
    <3>4. Reachable(nodes, node)
      BY <3>1, <3>2, <3>3, WalkReachable
    <3>5. node \in 1 .. Len(nodes)
      <4>1. node \in 0 .. Len(nodes)
        BY <3>1, FoundIs DEF Find, FilesInv
      <4> QED
        BY <3>1, <3>3, <4>1
    <3>6. nodes' = nodes /\ cwd' = node /\ cwd_path' = TextOf(node)
      BY <1>3, <2>2 DEF Chdir
    <3> HIDE DEF node
    <3>7. IsAbsolute(cwd_path') /\ WalkFrom(nodes', 1, cwd_path')[Len(cwd_path')] = cwd'
      BY <3>1, <3>4, <3>5, <3>6, TextLeads
    <3> QED
      BY <3>4, <3>6, <3>7 DEF CwdInv, IsAbsolute
  <2> QED
    BY <2>1, <2>2
<1> QED
  BY <1>1, <1>2, <1>3, Zenon
     DEF VfsStep, vars, Files, Look, WalkSegment, WalkChild, Painted, Clicked, ClickUp, ClickDir

LEMMA WorkOf ==
  ASSUME NEW names, NEW seg
  PROVE  /\ seg \in {"", "."} => Work(names, seg) = names
         /\ seg = ".." /\ names = <<>> => Work(names, seg) = <<>>
         /\ seg = ".." /\ names # <<>> => Work(names, seg) = Front(names)
         /\ Ordinary(seg) => Work(names, seg) = Append(names, seg)
  BY DEF Work, Ordinary

LEMMA WorkIs ==
  ASSUME NEW names \in Seq(STRING), NEW seg \in STRING
  PROVE  Work(names, seg) \in Seq(STRING)
<1>1. CASE seg \in {"", "."}
  BY <1>1, WorkOf
<1>2. CASE seg = ".."
  <2>1. CASE names = <<>>
    BY <1>2, <2>1, WorkOf
  <2>2. CASE names # <<>>
    <3>1. Front(names) \in Seq(STRING)
      BY <2>2, FrontIs
    <3> QED
      BY <1>2, <2>2, <3>1, WorkOf
  <2> QED
    BY <2>1, <2>2
<1>3. CASE Ordinary(seg)
  <2>1. Append(names, seg) \in Seq(STRING)
    BY AppendProperties
  <2> QED
    BY <1>3, <2>1, WorkOf
<1> QED
  BY <1>1, <1>2, <1>3 DEF Ordinary

LEMMA NormalIs ==
  ASSUME NEW path \in Seq(STRING), FullName(cwd) \in Seq(STRING)
  PROVE  LET v == NormalFrom(path) IN
         /\ Normal(path) = v[Len(path)]
         /\ v[0] = IF IsAbsolute(path) THEN <<>> ELSE FullName(cwd)
         /\ \A i \in 1 .. Len(path) : v[i] = Work(v[i - 1], path[i])
         /\ \A i \in 0 .. Len(path) : v[i] \in Seq(STRING)
<1> DEFINE n == Len(path)
           N == Seq(STRING)
           start == IF IsAbsolute(path) THEN <<>> ELSE FullName(cwd)
           Next1(i, x) == Work(x, path[i])
           Works(f) == f = [i \in 0 .. n |-> IF i = 0 THEN start ELSE Next1(i, f[i - 1])]
           v == NormalFrom(path)
<1>1. \A x \in N, i \in 1 .. n : Next1(i, x) \in N
  <2> TAKE x \in N, i \in 1 .. n
  <2>1. path[i] \in STRING
    OBVIOUS
  <2> QED
    BY <2>1, WorkIs
<1>2. v = CHOOSE f : Works(f)
  BY DEF NormalFrom, Work
<1>3. start \in N /\ n \in Nat
  <2>1. <<>> \in N
    OBVIOUS
  <2>2. start \in N
    BY <2>1
  <2>3. n \in Nat
    OBVIOUS
  <2> QED
    BY <2>2, <2>3, Zenon
<1>4. Normal(path) = v[n]
  BY DEF NormalFrom, Normal
<1> HIDE DEF N, Next1, v, start, n
<1>5. PICK g \in [0 .. n -> N] :
        g[0] = start /\ \A i \in 1 .. n : g[i] = Next1(i, g[i - 1])
  <2> DEFINE step == [i \in 1 .. n |-> [x \in N |-> Next1(i, x)]]
  <2>1. step \in Steps(n, N)
    BY <1>1 DEF Steps
  <2>2. \A i \in 1 .. n, x \in N : step[i][x] = Next1(i, x)
    OBVIOUS
  <2> HIDE DEF step
  <2>3. PICK f : Follows(f, n, N, start, step)
    BY <1>3, <2>1, Iterated, Zenon
  <2>4. f \in [0 .. n -> N] /\ f[0] = start /\ \A i \in 1 .. n : f[i] = step[i][f[i - 1]]
    BY <2>3 DEF Follows
  <2>5. \A i \in 1 .. n : f[i - 1] \in N
    BY <1>3, <2>4
  <2>9. ASSUME NEW i \in 1 .. n PROVE f[i] = Next1(i, f[i - 1])
    BY <2>2, <2>4, <2>5, Zenon
  <2> QED
    BY <2>4, <2>9, Zenon
<1>6. Works(g)
  <2>1. g = [i \in 0 .. n |-> g[i]]
    OBVIOUS
  <2>2. \A i \in 0 .. n : g[i] = IF i = 0 THEN start ELSE Next1(i, g[i - 1])
    <3>1. \A i \in 0 .. n : i = 0 \/ i \in 1 .. n
      BY <1>3
    <3> QED
      BY <1>5, <3>1
  <2>3. [i \in 0 .. n |-> g[i]] = [i \in 0 .. n |-> IF i = 0 THEN start ELSE Next1(i, g[i - 1])]
    BY <2>2
  <2> QED
    BY <2>1, <2>3, Zenon
<1>7. Works(v)
  <2> HIDE DEF Works
  <2> QED
    BY <1>2, <1>6
<1>8. \A i \in 0 .. n : v[i] = IF i = 0 THEN start ELSE Next1(i, v[i - 1])
  <2> TAKE i \in 0 .. n
  <2>1. v[i] = [j \in 0 .. n |-> IF j = 0 THEN start ELSE Next1(j, v[j - 1])][i]
    BY <1>7, Zenon
  <2> QED
    BY <2>1, Zenon
<1>9. v[0] = start /\ \A i \in 1 .. n : v[i] = Next1(i, v[i - 1])
  <2>1. 0 \in 0 .. n /\ \A i \in 1 .. n : i \in 0 .. n /\ i # 0
    BY <1>3
  <2> QED
    BY <1>8, <2>1
<1>10. \A i \in 0 .. n : v[i] \in N
  <2> DEFINE U == {i \in 0 .. n : v[i] \in N}
  <2>1. 0 \in U
    BY <1>3, <1>9
  <2>2. ASSUME NEW i \in 1 .. n, i - 1 \in U PROVE i \in U
    <3>1. i \in 0 .. n /\ v[i - 1] \in N
      BY <1>3, <2>2
    <3>2. v[i] = Next1(i, v[i - 1])
      BY <1>9
    <3> QED
      BY <1>1, <3>1, <3>2
  <2> HIDE DEF U
  <2>3. 0 .. n \subseteq U
    BY <1>3, <2>1, <2>2, UpTo
  <2> QED
    BY <2>3 DEF U
<1> QED
  BY <1>4, <1>9, <1>10 DEF v, n, N, Next1, start

LEMMA FullIs ==
  ASSUME TreeIs(nodes)
  PROVE  /\ Full(1) = <<>>
         /\ \A n \in 2 .. Len(nodes) : Full(n) = Append(Full(nodes[n].parent), nodes[n].name)
         /\ \A n \in 1 .. Len(nodes) : Full(n) \in Seq(STRING) /\ FullName(n) = Full(n)
         /\ \A n \in 1 .. Len(nodes) : nodes[n].name \in STRING
<1>1. <<>> \in Seq(STRING)
  OBVIOUS
<1>2. \A n \in 1 .. Len(nodes) : FullName(n) = Full(n)
  BY DEF FullName, Full, NamesFrom, Ids, Root
<1>3. ASSUME NEW n \in 1 .. Len(nodes) PROVE nodes[n].name \in STRING
  BY NodeIs, VfsAssumption DEF VfsConstants, NodeType
<1> QED
  BY <1>1, <1>2, <1>3, NamesIs DEF Full

LEMMA FullUp ==
  ASSUME TreeIs(nodes), NEW n \in 2 .. Len(nodes)
  PROVE  /\ nodes[n].parent \in 1 .. n - 1 /\ nodes[n].parent \in 1 .. Len(nodes)
         /\ nodes[n].name \in STRING /\ Full(nodes[n].parent) \in Seq(STRING)
         /\ Full(n) = Append(Full(nodes[n].parent), nodes[n].name)
         /\ Full(n) # <<>> /\ Front(Full(n)) = Full(nodes[n].parent)
<1>1. Len(nodes) \in Nat /\ n \in 1 .. Len(nodes) /\ nodes[n].parent \in 1 .. n - 1
  BY DEF TreeIs
<1>2. nodes[n].parent \in 1 .. Len(nodes)
  BY <1>1
<1>3. /\ nodes[n].name \in STRING /\ Full(nodes[n].parent) \in Seq(STRING)
      /\ Full(n) = Append(Full(nodes[n].parent), nodes[n].name)
  BY <1>1, <1>2, FullIs
<1> QED
  BY <1>1, <1>2, <1>3, FrontAppend

LEMMA FullIsOnes ==
  ASSUME TreeIs(nodes), NEW a \in 1 .. Len(nodes), NEW b \in 1 .. Len(nodes), Full(a) = Full(b)
  PROVE  a = b
<1> DEFINE N == Len(nodes)
           U == {k \in 0 .. N : \A m \in 1 .. k : \A n \in 1 .. N : Full(m) = Full(n) => m = n}
<1>1. N \in Nat /\ \A n \in 1 .. N : n = 1 \/ n \in 2 .. N
  BY DEF TreeIs
<1> HIDE DEF N
<1>2. 0 \in U
  BY <1>1
<1>3. ASSUME NEW k \in 1 .. N, k - 1 \in U PROVE k \in U
  <2>1. k \in 0 .. N /\ \A m \in 1 .. k : m = k \/ m \in 1 .. k - 1
    BY <1>1
  <2>2. ASSUME NEW n \in 1 .. N, Full(k) = Full(n) PROVE k = n
    <3>1. CASE k = 1 \/ n = 1
      <4>1. Full(1) = <<>> /\ \A m \in 2 .. N : Full(m) # <<>>
        BY FullIs, FullUp DEF N
      <4> QED
        BY <1>1, <2>2, <3>1, <4>1
    <3>2. CASE k # 1 /\ n # 1
      <4>1. k \in 2 .. N /\ n \in 2 .. N
        BY <1>1, <3>2
      <4>2. /\ nodes[k].parent \in 1 .. k - 1 /\ nodes[n].parent \in 1 .. N
            /\ Full(k) = Append(Full(nodes[k].parent), nodes[k].name)
            /\ Full(nodes[k].parent) \in Seq(STRING) /\ nodes[k].name \in STRING
        BY <4>1, FullUp DEF N
      <4>3. /\ Full(n) = Append(Full(nodes[n].parent), nodes[n].name)
            /\ Full(nodes[n].parent) \in Seq(STRING) /\ nodes[n].name \in STRING
        BY <4>1, FullUp DEF N
      <4>4. Full(nodes[k].parent) = Full(nodes[n].parent) /\ nodes[k].name = nodes[n].name
        <5> DEFINE s == Full(nodes[k].parent)
                   t == Full(nodes[n].parent)
                   e == nodes[k].name
                   f == nodes[n].name
        <5>1. s \in Seq(STRING) /\ t \in Seq(STRING) /\ e \in STRING /\ f \in STRING
          BY <4>2, <4>3
        <5>2. Append(s, e) = Append(t, f)
          BY <2>2, <4>2, <4>3
        <5> HIDE DEF s, t, e, f
        <5>3. s = t /\ e = f
          BY <5>1, <5>2, AppendSame
        <5> QED
          BY <5>3 DEF s, t, e, f
      <4>5. nodes[k].parent = nodes[n].parent
        BY <1>3, <4>2, <4>4
      <4> QED
        BY <4>1, <4>4, <4>5 DEF TreeIs, N
    <3> QED
      BY <3>1, <3>2
  <2> QED
    BY <1>3, <2>1, <2>2
<1> HIDE DEF U
<1>4. 0 .. N \subseteq U
  BY <1>1, <1>2, <1>3, UpTo
<1>5. N \in U
  BY <1>1, <1>4
<1> QED
  BY <1>5 DEF U, N

(* What one segment leads to has the names that it works off to. *)
LEMMA EnterWorks ==
  ASSUME TreeIs(nodes), NEW n \in 1 .. Len(nodes), NEW seg, Enter(nodes, n, seg) # 0
  PROVE  Full(Enter(nodes, n, seg)) = Work(Full(n), seg)
<1>1. n # 0 /\ n \in 0 .. Len(nodes) /\ (n = 1 \/ n \in 2 .. Len(nodes))
  BY DEF TreeIs
<1>2. CASE seg \in {"", "."}
  <2>1. Enter(nodes, n, seg) = n
    <3>1. Stays(seg)
      BY <1>2, Zenon DEF Stays
    <3> QED
      BY ONLY <1>1, <3>1, EnterHere
  <2>2. Work(Full(n), seg) = Full(n)
    BY <1>2, WorkOf
  <2> QED
    BY <2>1, <2>2
<1>3. CASE seg = ".."
  <2>1. Enter(nodes, n, seg) = Max({nodes[n].parent, 1})
    BY ONLY <1>1, <1>3, EnterUp
  <2>2. CASE n = 1
    <3>1. Enter(nodes, n, seg) = 1
      <4>1. nodes[n].parent = 0
        BY <2>2 DEF TreeIs
      <4>2. Max({0, 1}) = 1
        BY MaxIs
      <4> QED
        BY <2>1, <4>1, <4>2, Zenon
    <3>2. Full(n) = <<>>
      BY <2>2, FullIs
    <3>3. Work(Full(n), seg) = <<>>
      BY <1>3, <3>2, WorkOf
    <3> QED
      BY <2>2, <3>1, <3>2, <3>3
  <2>3. CASE n \in 2 .. Len(nodes)
    <3>1. /\ nodes[n].parent \in 1 .. Len(nodes)
          /\ Full(n) # <<>> /\ Front(Full(n)) = Full(nodes[n].parent)
      BY <2>3, FullUp
    <3>2. nodes[n].parent \in Nat /\ nodes[n].parent # 0
      BY <3>1
    <3>3. Enter(nodes, n, seg) = nodes[n].parent
      BY <2>1, <3>2, MaxIs
    <3>4. Work(Full(n), seg) = Front(Full(n))
      BY <1>3, <3>1, WorkOf
    <3> QED
      BY <3>1, <3>3, <3>4
  <2> QED
    BY <1>1, <2>2, <2>3
<1>4. CASE Ordinary(seg)
  <2> DEFINE m == Enter(nodes, n, seg)
  <2>1. m \in 2 .. Len(nodes) /\ nodes[m].parent = n /\ nodes[m].name = seg
    BY <1>1, <1>4, EnterParent
  <2>2. Work(Full(n), seg) = Append(Full(n), seg)
    BY <1>4, WorkOf
  <2> HIDE DEF m
  <2>3. Full(m) = Append(Full(n), seg)
    BY <2>1, FullUp
  <2> QED
    BY <2>2, <2>3 DEF m
<1> QED
  BY <1>2, <1>3, <1>4 DEF Ordinary

(* A segment that does not lead up leads to the node of these names. *)
LEMMA WorkEnters ==
  ASSUME TreeIs(nodes), NEW names \in Seq(STRING), NEW seg \in STRING, seg # "..",
         NEW m \in 1 .. Len(nodes), Full(m) = Work(names, seg), NEW at,
         \A n \in 1 .. Len(nodes) : Full(n) = names => at = n
  PROVE  Enter(nodes, at, seg) = m
<1>1. CASE seg \in {"", "."}
  <2>1. Full(m) = names
    BY <1>1, WorkOf
  <2>2. at = m
    BY <2>1
  <2>3. at # 0
    BY <2>2
  <2>4. Enter(nodes, at, seg) = at
    BY <1>1, <2>3, EnterHere, Zenon DEF Stays
  <2> QED
    BY <2>2, <2>4
<1>2. CASE Ordinary(seg)
  <2>1. Full(m) = Append(names, seg)
    BY <1>2, WorkOf
  <2>2. m # 1
    <3>1. Full(m) # <<>>
      BY <2>1, FrontAppend
    <3> QED
      BY <3>1, FullIs
  <2>3. m \in 2 .. Len(nodes)
    BY <2>2 DEF TreeIs
  <2> DEFINE up == nodes[m].parent
             name == nodes[m].name
             s == Full(up)
  <2>4. /\ up \in 1 .. Len(nodes) /\ name \in STRING /\ s \in Seq(STRING)
        /\ Full(m) = Append(s, name)
    BY <2>3, FullUp
  <2>5. s = names /\ name = seg
    <3> HIDE DEF up, name, s
    <3>1. Append(s, name) = Append(names, seg)
      BY <2>1, <2>4
    <3> QED
      BY <2>4, <3>1, AppendInjective
  <2>6. at = up
    BY <2>4, <2>5
  <2>7. Ordinary(name)
    BY <1>2, <2>5
  <2>8. Enter(nodes, up, name) = m
    BY <2>3, <2>7, EnterChild
  <2> QED
    BY <2>5, <2>6, <2>8
<1> QED
  BY <1>1, <1>2 DEF Ordinary

(* fs_find finds the node that has the names its path stands for. *)
LEMMA FoundIsNormal ==
  ASSUME FilesInv, NEW path \in Texts
  PROVE  /\ Find(path) # 0 => FullName(Find(path)) = Normal(path)
         /\ (\A i \in 1 .. Len(path) : path[i] # "..") =>
              \A m \in 1 .. Len(nodes) : FullName(m) = Normal(path) => Find(path) = m
<1> DEFINE n == Len(path)
           N == Len(nodes)
           start == StartOf(path)
           w == WalkFrom(nodes, start, path)
           v == NormalFrom(path)
           begins == IF IsAbsolute(path) THEN <<>> ELSE FullName(cwd)
<1>1. /\ TreeIs(nodes) /\ N \in Nat /\ 1 \in 1 .. N /\ start \in 1 .. N /\ start \in 0 .. N
      /\ cwd \in 1 .. N /\ n \in Nat /\ path \in Seq(STRING)
  BY AtIs, PathIs DEF FilesInv, StartOf
<1>2. /\ w[0] = start /\ \A i \in 1 .. n : w[i] = Enter(nodes, w[i - 1], path[i])
      /\ \A i \in 0 .. n : w[i] \in 0 .. N
  BY <1>1, WalkIs
<1>3. Find(path) = w[n]
  BY FindIs DEF Find
<1>4. \A m \in 1 .. N : FullName(m) = Full(m) /\ Full(m) \in Seq(STRING)
  BY <1>1, FullIs
<1>5. /\ Normal(path) = v[n] /\ v[0] = begins
      /\ \A i \in 1 .. n : v[i] = Work(v[i - 1], path[i])
      /\ \A i \in 0 .. n : v[i] \in Seq(STRING)
  BY <1>1, <1>4, NormalIs
<1>6. v[0] = Full(start)
  <2>1. Full(1) = <<>>
    BY <1>1, FullIs
  <2>2. begins = Full(start)
    BY <1>1, <1>4, <2>1, Zenon DEF StartOf
  <2> QED
    BY <1>5, <2>2
<1>7. \A i \in 1 .. n : path[i] \in STRING
  BY <1>1
<1> HIDE DEF w, v, begins, n, N, start
<1>8. w[n] # 0 => Full(w[n]) = v[n]
  <2> DEFINE U == {i \in 0 .. n : w[i] # 0 => Full(w[i]) = v[i]}
  <2>1. 0 \in U
    BY <1>1, <1>2, <1>6
  <2>2. ASSUME NEW i \in 1 .. n, i - 1 \in U PROVE i \in U
    <3>1. i \in 0 .. n /\ i - 1 \in 0 .. n /\ (w[i - 1] # 0 => Full(w[i - 1]) = v[i - 1])
      BY <1>1, <2>2
    <3>2. w[i] = Enter(nodes, w[i - 1], path[i]) /\ v[i] = Work(v[i - 1], path[i])
      BY <1>2, <1>5
    <3>3. CASE w[i - 1] = 0
      BY <3>1, <3>2, <3>3 DEF Enter, NULL
    <3>4. CASE w[i - 1] # 0
      <4>1. w[i - 1] \in 1 .. N
        <5>1. w[i - 1] \in 0 .. N
          BY <1>2, <3>1
        <5> QED
          BY <1>1, <3>4, <5>1
      <4>2. w[i - 1] \in 1 .. Len(nodes)
        BY <4>1 DEF N
      <4>3. w[i] # 0 => Full(w[i]) = Work(Full(w[i - 1]), path[i])
        BY <1>1, <3>2, <4>2, EnterWorks
      <4> QED
        BY <3>1, <3>2, <3>4, <4>3
    <3> QED
      BY <3>3, <3>4
  <2> HIDE DEF U
  <2>3. 0 .. n \subseteq U
    BY <1>1, <2>1, <2>2, UpTo
  <2>4. n \in U
    BY <1>1, <2>3
  <2> QED
    BY <2>4 DEF U
<1>9. Find(path) # 0 => FullName(Find(path)) = Normal(path)
  <2>1. w[n] # 0 => w[n] \in 1 .. N
    <3>1. w[n] \in 0 .. N
      BY <1>1, <1>2
    <3> QED
      BY <1>1, <3>1
  <2> QED
    BY <1>3, <1>4, <1>5, <1>8, <2>1
<1>10. ASSUME \A i \in 1 .. n : path[i] # "..", NEW m \in 1 .. N, FullName(m) = Normal(path)
       PROVE  Find(path) = m
  <2> DEFINE U == {i \in 0 .. n : \A k \in 1 .. N : Full(k) = v[i] => w[i] = k}
  <2>1. 0 \in U
    <3>1. ASSUME NEW k \in 1 .. N, Full(k) = v[0] PROVE w[0] = k
      <4>1. Full(k) = Full(start) /\ k \in 1 .. Len(nodes) /\ start \in 1 .. Len(nodes)
        BY <1>1, <1>6, <3>1 DEF N
      <4> QED
        BY <1>1, <1>2, <4>1, FullIsOnes
    <3> QED
      BY <1>1, <3>1
  <2>2. ASSUME NEW i \in 1 .. n, i - 1 \in U PROVE i \in U
    <3>1. i \in 0 .. n /\ i - 1 \in 0 .. n /\ \A k \in 1 .. N : Full(k) = v[i - 1] => w[i - 1] = k
      BY <1>1, <2>2
    <3>2. ASSUME NEW k \in 1 .. N, Full(k) = v[i] PROVE w[i] = k
      <4> DEFINE names == v[i - 1]
                 seg == path[i]
                 at == w[i - 1]
      <4>1. names \in Seq(STRING) /\ seg \in STRING
        BY <1>5, <1>7, <3>1
      <4>2. seg # ".."
        BY <1>10
      <4>3. Full(k) = Work(names, seg) /\ w[i] = Enter(nodes, at, seg)
        BY <1>2, <1>5, <3>2
      <4>4. k \in 1 .. Len(nodes) /\ \A x \in 1 .. Len(nodes) : Full(x) = names => at = x
        BY <3>1 DEF N
      <4> HIDE DEF names, seg, at
      <4>5. Enter(nodes, at, seg) = k
        BY <1>1, <4>1, <4>2, <4>3, <4>4, WorkEnters
      <4> QED
        BY <4>3, <4>5
    <3> QED
      BY <3>1, <3>2
  <2> HIDE DEF U
  <2>3. 0 .. n \subseteq U
    BY <1>1, <2>1, <2>2, UpTo
  <2>4. n \in U
    BY <1>1, <2>3
  <2>5. Full(m) = v[n]
    BY <1>4, <1>5, <1>10
  <2> QED
    BY <1>3, <2>4, <2>5 DEF U
<1> QED
  BY <1>9, <1>10 DEF n, N

LEMMA PathsAreNormal ==
  ASSUME FilesInv, CwdInv
  PROVE  FindIsNormal
<1>1. /\ TreeIs(nodes) /\ Ids = 1 .. Len(nodes) /\ cwd \in 1 .. Len(nodes)
  BY DEF FilesInv, TreeIs, Ids
<1>2. CwdTextRight
  <2>1. IsDir(cwd)
    BY <1>1 DEF FilesInv, IsDir, NULL
  <2>2. Find(cwd_path) = cwd
    BY FindIs, Zenon DEF Find, StartOf, CwdInv
  <2> QED
    BY <2>1, <2>2 DEF CwdTextRight
<1>3. ASSUME NEW path \in Paths
      PROVE  IF Find(path) # NULL THEN FullName(Find(path)) = Normal(path)
             ELSE ".." \notin Range(path) => \A n \in Ids : FullName(n) # Normal(path)
  <2>1. path \in Texts
    BY VfsAssumption DEF VfsConstants, Texts
  <2>2. CASE Find(path) # 0
    BY <2>1, <2>2, FoundIsNormal DEF NULL
  <2>3. CASE Find(path) = 0
    <3>1. ASSUME ".." \notin Range(path), NEW m \in 1 .. Len(nodes), FullName(m) = Normal(path)
          PROVE  FALSE
      <4>1. DOMAIN path = 1 .. Len(path)
        BY <2>1, PathIs, LenProperties
      <4>2. \A i \in 1 .. Len(path) : path[i] # ".."
        BY <3>1, <4>1 DEF Range
      <4>3. Find(path) = m
        BY <2>1, <3>1, <4>2, FoundIsNormal
      <4>4. m # 0
        OBVIOUS
      <4> QED
        BY <2>3, <4>3, <4>4
    <3> QED
      BY <1>1, <2>3, <3>1, Zenon DEF NULL
  <2> QED
    BY <2>2, <2>3, Zenon
<1> QED
  BY <1>2, <1>3 DEF FindIsNormal

(* The working directory's text leads to it, and fs_find finds a node by   *)
(* the names that its path stands for, with any tree and any path.         *)
THEOREM PathsAreRight == AppsSpec => []PathsRight
<1>1. AppsInit => FilesInv /\ CwdInv
  <2>1. ASSUME Init, FilesInv PROVE CwdInv
    <3>1. TreeIs(nodes) /\ cwd = 1 /\ cwd_path = <<"", "">>
      BY <2>1 DEF Init, FilesInv, Root
    <3>2. Reachable(nodes, cwd)
      BY <3>1, RootReachable
    <3>3. IsAbsolute(<<"", "">>) /\ WalkFrom(nodes, 1, <<"", "">>)[2] = 1 /\ Len(<<"", "">>) = 2
      BY <3>1, RootWalk, PathTexts
    <3> QED
      BY <3>1, <3>2, <3>3, Zenon DEF CwdInv
  <2> QED
    BY <2>1, StartIs DEF AppsInit, ReadingInit
<1>2. FilesInv /\ CwdInv /\ [AppsNext]_AllVars => FilesInv' /\ CwdInv'
  BY AppsStepIs, FilesStep, CwdStep
<1>3. FilesInv /\ CwdInv => PathsRight
  BY PathsAreNormal DEF PathsRight
<1> QED
  BY <1>1, <1>2, <1>3, PTL DEF AppsSpec

LEMMA SizesAre ==
  ASSUME coVesa \in BOOLEAN
  PROVE  C!ScreenRows \in Nat \ {0} /\ C!ScreenCols \in Nat \ {0}
  BY AppsAssumption DEF AppsConstants, C!ScreenRows, C!ScreenCols

(* A character moves the cursor by one place, or to the next row, which    *)
(* may be the one behind the last.                                         *)
LEMMA MovedIs ==
  ASSUME coVesa \in BOOLEAN, coCursor \in [row : Nat, col : Nat], NEW c
  PROVE  /\ C!MovedBy(c) \in [row : Nat, col : Nat]
         /\ On(coCursor, 0) => On(C!MovedBy(c), 1)
<1> DEFINE rows == C!ScreenRows
           cols == C!ScreenCols
           r == coCursor.row
           k == coCursor.col
           m == C!MovedBy(c)
<1>1. rows \in Nat \ {0} /\ cols \in Nat \ {0}
  BY SizesAre
<1>2. coCursor = [row |-> r, col |-> k] /\ r \in Nat /\ k \in Nat
  OBVIOUS
<1>3. \/ m = [row |-> r + 1, col |-> 0]
      \/ m = [coCursor EXCEPT !.col = 0]
      \/ k > 0 /\ m = [coCursor EXCEPT !.col = @ - 1]
      \/ r > 0 /\ m = [row |-> r - 1, col |-> cols - 1]
      \/ m = coCursor
      \/ ~(k + 1 >= cols) /\ m = [coCursor EXCEPT !.col = @ + 1]
  BY <1>1, <1>2, Zenon DEF C!MovedBy
<1> HIDE DEF m, rows, cols
<1>4. \/ m = [row |-> r + 1, col |-> 0]
      \/ m = [row |-> r, col |-> 0]
      \/ k > 0 /\ m = [row |-> r, col |-> k - 1]
      \/ r > 0 /\ m = [row |-> r - 1, col |-> cols - 1]
      \/ m = [row |-> r, col |-> k]
      \/ ~(k + 1 >= cols) /\ m = [row |-> r, col |-> k + 1]
  BY <1>2, <1>3
<1> HIDE DEF r, k
<1>5. \/ m.row = r + 1 /\ m.col = 0
      \/ m.row = r /\ m.col = 0
      \/ k > 0 /\ m.row = r /\ m.col = k - 1
      \/ r > 0 /\ m.row = r - 1 /\ m.col = cols - 1
      \/ m.row = r /\ m.col = k
      \/ ~(k + 1 >= cols) /\ m.row = r /\ m.col = k + 1
  BY <1>4
<1>6. m = [row |-> m.row, col |-> m.col]
  BY <1>4
<1>7. m.row \in Nat /\ m.col \in Nat
  BY <1>1, <1>2, <1>5
<1>8. m \in [row : Nat, col : Nat]
  BY <1>6, <1>7
<1>9. ASSUME r < rows, k < cols PROVE m.row < rows + 1 /\ m.col < cols
  BY <1>1, <1>2, <1>5, <1>9
<1>10. ASSUME On(coCursor, 0) PROVE On(m, 1)
  <2>1. r < rows /\ k < cols
    BY <1>1, <1>2, <1>10 DEF On, r, k, rows, cols
  <2> QED
    BY <1>8, <1>9, <2>1 DEF On, rows, cols
<1> QED
  BY <1>8, <1>10 DEF m

(* Scrolling brings it back onto the screen. *)
LEMMA ScrolledIs ==
  ASSUME coVesa \in BOOLEAN, NEW at \in [row : Nat, col : Nat]
  PROVE  /\ C!Scrolled(at) \in [row : Nat, col : Nat]
         /\ On(at, 1) => On(C!Scrolled(at), 0)
<1> DEFINE rows == C!ScreenRows
           cols == C!ScreenCols
           s == C!Scrolled(at)
<1>1. rows \in Nat \ {0} /\ cols \in Nat \ {0}
  BY SizesAre
<1>2. \/ at.row < rows /\ s = at
      \/ s = [row |-> 0, col |-> 0]
      \/ ~(at.row < rows) /\ s = [at EXCEPT !.row = @ - 1]
  BY Zenon DEF C!Scrolled
<1> HIDE DEF s, rows, cols
<1>3. at = [row |-> at.row, col |-> at.col] /\ at.row \in Nat /\ at.col \in Nat
  OBVIOUS
<1>4. \/ at.row < rows /\ s = [row |-> at.row, col |-> at.col]
      \/ s = [row |-> 0, col |-> 0]
      \/ ~(at.row < rows) /\ s = [row |-> at.row - 1, col |-> at.col]
  BY <1>2, <1>3
<1>5. /\ s = [row |-> s.row, col |-> s.col]
      /\ \/ at.row < rows /\ s.row = at.row /\ s.col = at.col
         \/ s.row = 0 /\ s.col = 0
         \/ ~(at.row < rows) /\ s.row = at.row - 1 /\ s.col = at.col
  BY <1>4
<1>6. s.row \in Nat /\ s.col \in Nat
  BY <1>1, <1>3, <1>5
<1>7. s \in [row : Nat, col : Nat]
  BY <1>5, <1>6
<1>8. ASSUME at.row < rows + 1, at.col < cols PROVE s.row < rows + 0 /\ s.col < cols
  BY <1>1, <1>3, <1>5, <1>8
<1>9. ASSUME On(at, 1) PROVE On(s, 0)
  BY <1>7, <1>8, <1>9 DEF On, rows, cols
<1> QED
  BY <1>7, <1>9 DEF s

LEMMA StoreIs ==
  ASSUME ConsoleTyped, NEW p \in RingSlots(RingSize), NEW e \in C!Chars,
         coRing' = C!Stored(p, e)
  PROVE  /\ coRing' = [buf |-> [coRing.buf EXCEPT ![p] = e], head |-> Onward(RingSize, p),
                       tail |-> coRing.tail]
         /\ coRing'.buf = [coRing.buf EXCEPT ![p] = e]
         /\ coRing'.head = Onward(RingSize, p)
         /\ coRing'.tail = coRing.tail
         /\ IsRing(RingSize, C!Chars, coRing'.buf, coRing'.head, coRing'.tail)
<1> DEFINE q == coRing.buf
           h == coRing.head
           t == coRing.tail
<1>1. coRing = [buf |-> q, head |-> h, tail |-> t]
  BY DEF ConsoleTyped
<1>2. IsRing(RingSize, C!Chars, q, h, t)
  BY DEF ConsoleTyped
<1> HIDE DEF q, h, t
<1>3. coRing' = [buf |-> [q EXCEPT ![p] = e], head |-> (p + 1) % RingSize, tail |-> t]
  BY <1>1, Zenon DEF C!Stored
<1>4. coRing' = [buf |-> [q EXCEPT ![p] = e], head |-> Onward(RingSize, p), tail |-> t]
  BY <1>3 DEF Onward
<1>5. /\ coRing'.buf = [q EXCEPT ![p] = e] /\ coRing'.head = Onward(RingSize, p)
      /\ coRing'.tail = t
  BY <1>4
<1>6. IsRing(RingSize, C!Chars, [q EXCEPT ![p] = e], Onward(RingSize, p), t)
  <2>1. Onward(RingSize, p) \in RingSlots(RingSize)
    BY <1>2, OnwardIs DEF IsRing
  <2> QED
    BY <1>2, <2>1 DEF IsRing
<1> QED
  BY <1>4, <1>5, <1>6 DEF q, h, t

LEMMA PutSinkConsole ==
  ASSUME ConsoleTyped, NEW c \in C!Chars, C!PutSink(c)
  PROVE  ConsoleTyped' /\ (ConsoleOwn => ConsoleOwn')
<1>1. /\ coPut.step = "ready" /\ UNCHANGED <<coVesa, coCursor, coRing, coKept>>
      /\ coPut' = [step |-> "load", char |-> c, head |-> 0, draws |-> ~coSink]
  BY DEF C!PutSink
<1>2. 0 \in RingSlots(RingSize)
  BY AppsAssumption DEF AppsConstants, RingSlots
<1>3. /\ coPut'.step = "load"
      /\ coPut' \in Puts
  <2>1. (~coSink) \in BOOLEAN
    OBVIOUS
  <2> QED
    BY <1>1, <1>2, <2>1 DEF Puts
<1>4. ConsoleTyped'
  BY <1>1, <1>3 DEF ConsoleTyped
<1>5. ASSUME ConsoleOwn PROVE ConsoleOwn'
  BY <1>1, <1>3, <1>5 DEF ConsoleOwn, On, Near, C!ScreenRows, C!ScreenCols
<1> QED
  BY <1>4, <1>5

LEMMA PutLoadConsole ==
  ASSUME ConsoleTyped, C!PutLoad
  PROVE  ConsoleTyped' /\ (ConsoleOwn => ConsoleOwn')
<1> DEFINE draws == coPut.draws \/ ~coSink
<1>1. /\ coPut.step = "load" /\ UNCHANGED <<coVesa, coCursor, coRing, coKept>>
      /\ coPut' = IF ~C!Full(coRing.head, coRing.tail)
                  THEN [coPut EXCEPT !.step = "store", !.head = coRing.head, !.draws = draws]
                  ELSE IF draws THEN [coPut EXCEPT !.step = "draw"] ELSE C!Ready
  BY Zenon DEF C!PutLoad
<1>2. draws \in BOOLEAN
  OBVIOUS
<1> HIDE DEF draws
<1>3. /\ coRing.head \in RingSlots(RingSize) /\ 0 \in RingSlots(RingSize)
      /\ coPut \in Puts
  <2>1. 0 \in RingSlots(RingSize)
    BY AppsAssumption DEF AppsConstants, RingSlots
  <2> QED
    BY <2>1, Zenon DEF ConsoleTyped, IsRing
<1>4. C!Ready \in Puts /\ C!Ready.step = "ready"
  BY <1>3 DEF C!Ready, C!Chars, Puts
<1>5. /\ coPut' \in Puts
      /\ coPut'.step \notin {"wrap", "scroll"}
      /\ coPut'.step = "store" =>
           coPut'.head = coRing.head /\ ~C!Full(coRing.head, coRing.tail)
  <2>1. CASE ~C!Full(coRing.head, coRing.tail)
    BY <1>1, <1>2, <1>3, <2>1 DEF Puts
  <2>2. CASE C!Full(coRing.head, coRing.tail) /\ draws
    BY <1>1, <1>3, <2>2 DEF Puts
  <2>3. CASE C!Full(coRing.head, coRing.tail) /\ ~draws
    BY <1>1, <1>4, <2>3
  <2> QED
    BY <2>1, <2>2, <2>3
<1>6. ConsoleTyped'
  BY <1>1, <1>5 DEF ConsoleTyped
<1>7. ASSUME ConsoleOwn PROVE ConsoleOwn'
  BY <1>1, <1>5, <1>7 DEF ConsoleOwn, On, Near, C!ScreenRows, C!ScreenCols, C!Full, Onward
<1> QED
  BY <1>6, <1>7

(* What was printed is kept as the ring keeps it. *)
LEMMA KeepIs ==
  ASSUME ConsoleTyped, ConsoleOwn, NEW e \in C!Chars
  PROVE  C!Keep(e) = IF Onward(RingSize, coRing.head) = coRing.tail THEN coKept
                     ELSE Append(coKept, e)
<1> DEFINE full == Onward(RingSize, coRing.head) = coRing.tail
           held == Len(coKept)
<1>1. held \in Nat /\ (held = RingSize - 1 <=> full) /\ (~full => held < RingSize - 1)
  <2>1. held \in Nat /\ (held = RingSize - 1 <=> full)
    BY RingFull DEF ConsoleTyped, ConsoleOwn
  <2>2. ~full => held < RingSize - 1
    BY RingFull DEF ConsoleTyped, ConsoleOwn
  <2> QED
    BY <2>1, <2>2
<1>2. held < RingSize - 1 <=> ~full
  BY <1>1, AppsAssumption DEF AppsConstants
<1> QED
  BY <1>2, Zenon DEF C!Keep

(* A character that a ring with room gets, and what was kept gets too. *)
LEMMA KeptOn ==
  ASSUME ConsoleTyped, ConsoleOwn, NEW e \in C!Chars,
         Onward(RingSize, coRing.head) # coRing.tail,
         coRing' = C!Stored(coRing.head, e), coKept' = C!Keep(e)
  PROVE  coKept' = Content(RingSize, coRing'.buf, coRing'.head, coRing'.tail)
<1> DEFINE q == coRing.buf
           h == coRing.head
           t == coRing.tail
           new == coRing'.buf
           g == coRing'.head
<1>1. /\ IsRing(RingSize, C!Chars, q, h, t) /\ h \in RingSlots(RingSize)
      /\ Onward(RingSize, h) # t
  BY DEF ConsoleTyped, IsRing
<1>2. /\ new = [q EXCEPT ![h] = e] /\ g = Onward(RingSize, h) /\ coRing'.tail = t
      /\ IsRing(RingSize, C!Chars, new, g, t)
  BY <1>1, StoreIs
<1>3. coKept' = Append(Content(RingSize, q, h, t), e)
  BY KeepIs DEF ConsoleOwn
<1>4. new[h] = e /\ \A i \in RingSlots(RingSize) : i # h => new[i] = q[i]
  BY <1>1, <1>2 DEF IsRing
<1> HIDE DEF q, h, t, new, g
<1>5. Content(RingSize, new, g, t) = Append(Content(RingSize, q, h, t), new[h])
  <2>1. g # t
    BY <1>1, <1>2
  <2>2. g = Onward(RingSize, h) /\ IsRing(RingSize, C!Chars, new, g, t)
    BY <1>2
  <2>3. \A i \in RingSlots(RingSize) : i # h => new[i] = q[i]
    BY <1>4
  <2> QED
    BY <1>1, <2>1, <2>2, <2>3, StoredIs
<1> QED
  BY <1>2, <1>3, <1>4, <1>5 DEF new, g

LEMMA PutStoreConsole ==
  ASSUME ConsoleTyped, C!PutStore
  PROVE  ConsoleTyped' /\ (ConsoleOwn => ConsoleOwn')
<1>1. /\ coPut.step = "store" /\ UNCHANGED <<coVesa, coCursor>>
      /\ coRing' = C!Stored(coPut.head, coPut.char) /\ coKept' = C!Keep(coPut.char)
      /\ coPut' = IF coPut.draws THEN [coPut EXCEPT !.step = "draw"] ELSE C!Ready
  BY Zenon DEF C!PutStore
<1>2. /\ coPut \in Puts
      /\ 0 \in RingSlots(RingSize)
  <2>1. 0 \in RingSlots(RingSize)
    BY AppsAssumption DEF AppsConstants, RingSlots
  <2> QED
    BY <2>1, Zenon DEF ConsoleTyped
<1>3. /\ coPut' \in Puts
      /\ coPut'.step \notin {"wrap", "scroll", "store"}
  <2>1. C!Ready \in Puts /\ C!Ready.step = "ready"
    BY <1>2 DEF C!Ready, C!Chars, Puts
  <2> QED
    BY <1>1, <1>2, <2>1 DEF Puts
<1>4. coPut.head \in RingSlots(RingSize) /\ coPut.char \in C!Chars
  BY <1>2 DEF Puts
<1>5. /\ coRing' = [buf |-> coRing'.buf, head |-> coRing'.head, tail |-> coRing'.tail]
      /\ IsRing(RingSize, C!Chars, coRing'.buf, coRing'.head, coRing'.tail)
  BY <1>1, <1>4, StoreIs
<1>6. ConsoleTyped'
  BY <1>1, <1>3, <1>5 DEF ConsoleTyped
<1>7. ASSUME ConsoleOwn PROVE ConsoleOwn'
  <2>1. coPut.head = coRing.head /\ Onward(RingSize, coRing.head) # coRing.tail
    BY <1>1, <1>7 DEF ConsoleOwn
  <2>2. coKept' = Content(RingSize, coRing'.buf, coRing'.head, coRing'.tail)
    BY <1>1, <1>4, <1>7, <2>1, KeptOn
  <2> QED
    BY <1>1, <1>3, <1>7, <2>2 DEF ConsoleOwn, On, Near, C!ScreenRows, C!ScreenCols
<1> QED
  BY <1>6, <1>7

LEMMA PutDrawConsole ==
  ASSUME ConsoleTyped, C!PutDraw
  PROVE  ConsoleTyped' /\ (ConsoleOwn => ConsoleOwn')
<1>1. /\ coPut.step = "draw" /\ UNCHANGED <<coVesa, coRing, coKept>>
      /\ \/ /\ coCursor' = [coCursor EXCEPT !.col = @ + 1]
            /\ coPut' = [coPut EXCEPT !.step = "wrap"]
         \/ coCursor' = C!MovedBy(coPut.char) /\ coPut' = [coPut EXCEPT !.step = "scroll"]
  BY Zenon DEF C!PutDraw
<1>2. coPut' \in Puts /\ coPut'.step \in {"wrap", "scroll"}
  BY <1>1 DEF ConsoleTyped, Puts
<1>3. /\ C!MovedBy(coPut.char) \in [row : Nat, col : Nat]
      /\ On(coCursor, 0) => On(C!MovedBy(coPut.char), 1)
      /\ C!ScreenRows \in Nat /\ C!ScreenCols \in Nat
  BY MovedIs, SizesAre DEF ConsoleTyped
<1>4. CASE coPut'.step = "scroll"
  <2>1. coCursor' = C!MovedBy(coPut.char)
    BY <1>1, <1>4 DEF ConsoleTyped, Puts
  <2> QED
    BY <1>1, <1>2, <1>3, <1>4, <2>1
       DEF ConsoleTyped, ConsoleOwn, On, Near, C!ScreenRows, C!ScreenCols
<1>5. CASE coPut'.step = "wrap"
  <2>1. coCursor' = [coCursor EXCEPT !.col = @ + 1]
    BY <1>1, <1>5 DEF ConsoleTyped, Puts
  <2>2. /\ coCursor' \in [row : Nat, col : Nat]
        /\ On(coCursor, 0) => Near(coCursor)'
    BY <1>1, <1>3, <2>1 DEF ConsoleTyped, On, Near, C!ScreenRows, C!ScreenCols
  <2> QED
    BY <1>1, <1>2, <1>5, <2>2 DEF ConsoleTyped, ConsoleOwn
<1> QED
  BY <1>2, <1>4, <1>5

LEMMA PutWrapConsole ==
  ASSUME ConsoleTyped, C!PutWrap
  PROVE  ConsoleTyped' /\ (ConsoleOwn => ConsoleOwn')
<1>1. /\ coPut.step = "wrap" /\ UNCHANGED <<coVesa, coRing, coKept>>
      /\ coCursor' = IF coCursor.col >= C!ScreenCols THEN [row |-> coCursor.row + 1, col |-> 0]
                     ELSE coCursor
      /\ coPut' = [coPut EXCEPT !.step = "scroll"]
  BY DEF C!PutWrap
<1>2. coPut' \in Puts /\ coPut'.step = "scroll"
  BY <1>1 DEF ConsoleTyped, Puts
<1>3. C!ScreenRows \in Nat \ {0} /\ C!ScreenCols \in Nat \ {0}
  BY SizesAre DEF ConsoleTyped
<1>4. coCursor' \in [row : Nat, col : Nat] /\ (Near(coCursor) => On(coCursor, 1)')
  BY <1>1, <1>3 DEF ConsoleTyped, On, Near, C!ScreenRows, C!ScreenCols
<1> QED
  BY <1>1, <1>2, <1>4 DEF ConsoleTyped, ConsoleOwn

LEMMA PutScrollConsole ==
  ASSUME ConsoleTyped, C!PutScroll
  PROVE  ConsoleTyped' /\ (ConsoleOwn => ConsoleOwn')
<1>1. /\ coPut.step = "scroll" /\ UNCHANGED <<coVesa, coRing, coKept>>
      /\ coCursor' = C!Scrolled(coCursor) /\ coPut' = C!Ready
  BY DEF C!PutScroll
<1>2. 0 \in RingSlots(RingSize)
  BY AppsAssumption DEF AppsConstants, RingSlots
<1>3. /\ coPut' \in Puts
      /\ coPut'.step = "ready"
  BY <1>1, <1>2 DEF C!Ready, C!Chars, Puts
<1>4. /\ C!Scrolled(coCursor) \in [row : Nat, col : Nat]
      /\ On(coCursor, 1) => On(C!Scrolled(coCursor), 0)
  BY ScrolledIs DEF ConsoleTyped
<1>5. ConsoleTyped'
  BY <1>1, <1>3, <1>4 DEF ConsoleTyped
<1>6. ASSUME ConsoleOwn PROVE ConsoleOwn'
  <2>1. On(C!Scrolled(coCursor), 0)
    BY <1>1, <1>4, <1>6 DEF ConsoleOwn
  <2> QED
    BY <1>1, <1>3, <1>6, <2>1 DEF ConsoleOwn, On, Near, C!ScreenRows, C!ScreenCols
<1> QED
  BY <1>5, <1>6

(* A handler's character comes between main's steps without harm, unless   *)
(* main has read the head or not yet looked where it left the cursor.      *)
LEMMA HandlerPutsConsole ==
  ASSUME ConsoleTyped, NEW c \in C!Chars, C!HandlerPuts(c)
  PROVE  ConsoleTyped' /\ (ConsoleOwn /\ ~coRaced' => ConsoleOwn')
<1>1. /\ UNCHANGED <<coVesa, coPut>> /\ coKept' = C!Keep(c)
      /\ coRing' = IF C!Full(coRing.head, coRing.tail) THEN coRing
                   ELSE C!Stored(coRing.head, c)
      /\ coCursor' = IF coSink THEN coCursor ELSE C!Scrolled(C!MovedBy(c))
      /\ coRaced' = (coRaced \/ coPut.step \in {"store", "wrap", "scroll"})
  BY Zenon DEF C!HandlerPuts
<1>2. /\ C!Full(coRing.head, coRing.tail) <=> Onward(RingSize, coRing.head) = coRing.tail
      /\ coRing.head \in RingSlots(RingSize)
  BY DEF C!Full, Onward, ConsoleTyped, IsRing
<1>3. /\ coRing' = [buf |-> coRing'.buf, head |-> coRing'.head, tail |-> coRing'.tail]
      /\ IsRing(RingSize, C!Chars, coRing'.buf, coRing'.head, coRing'.tail)
  <2>1. CASE C!Full(coRing.head, coRing.tail)
    BY <1>1, <2>1, Zenon DEF ConsoleTyped
  <2>2. CASE ~C!Full(coRing.head, coRing.tail)
    <3>1. coRing' = C!Stored(coRing.head, c)
      BY <1>1, <2>2
    <3> QED
      BY <1>2, <3>1, StoreIs
  <2> QED
    BY <2>1, <2>2
<1>4. /\ coCursor' \in [row : Nat, col : Nat]
      /\ On(coCursor, 0) => On(coCursor', 0)
  <2>1. /\ C!MovedBy(c) \in [row : Nat, col : Nat]
        /\ On(coCursor, 0) => On(C!MovedBy(c), 1)
    BY MovedIs DEF ConsoleTyped
  <2>2. /\ C!Scrolled(C!MovedBy(c)) \in [row : Nat, col : Nat]
        /\ On(C!MovedBy(c), 1) => On(C!Scrolled(C!MovedBy(c)), 0)
    BY <2>1, ScrolledIs DEF ConsoleTyped
  <2>3. CASE coSink
    BY <1>1, <2>3 DEF ConsoleTyped
  <2>4. CASE ~coSink
    BY <1>1, <2>1, <2>2, <2>4
  <2> QED
    BY <2>3, <2>4
<1>5. ConsoleTyped'
  BY <1>1, <1>3, <1>4 DEF ConsoleTyped
<1>6. ASSUME ConsoleOwn, ~coRaced' PROVE ConsoleOwn'
  <2>1. coPut.step \notin {"store", "wrap", "scroll"}
    BY <1>1, <1>6
  <2>2. coKept' = Content(RingSize, coRing'.buf, coRing'.head, coRing'.tail)
    <3>1. CASE C!Full(coRing.head, coRing.tail)
      <4>1. coKept' = coKept /\ coRing' = coRing
        BY <1>1, <1>2, <1>6, <3>1, KeepIs
      <4> QED
        BY <1>6, <4>1 DEF ConsoleOwn
    <3>2. CASE ~C!Full(coRing.head, coRing.tail)
      <4>1. coRing' = C!Stored(coRing.head, c)
        BY <1>1, <3>2
      <4> QED
        BY <1>1, <1>2, <1>6, <3>2, <4>1, KeptOn
    <3> QED
      BY <3>1, <3>2
  <2>3. On(coCursor', 0)
    BY <1>4, <1>6, <2>1 DEF ConsoleOwn
  <2> QED
    BY <1>1, <2>1, <2>2, <2>3 DEF ConsoleOwn, On, Near, C!ScreenRows, C!ScreenCols
<1> QED
  BY <1>5, <1>6

LEMMA HandlerClearsConsole ==
  ASSUME ConsoleTyped, C!HandlerClears
  PROVE  ConsoleTyped' /\ (ConsoleOwn => ConsoleOwn')
<1>1. coCursor' = [row |-> 0, col |-> 0] /\ UNCHANGED <<coVesa, coRing, coPut, coKept>>
  BY DEF C!HandlerClears
<1>2. C!ScreenRows \in Nat \ {0} /\ C!ScreenCols \in Nat \ {0}
  BY SizesAre DEF ConsoleTyped
<1> QED
  BY <1>1, <1>2 DEF ConsoleTyped, ConsoleOwn, On, Near, C!ScreenRows, C!ScreenCols

LEMMA SetSinkConsole ==
  ASSUME ConsoleTyped, C!SetSink
  PROVE  ConsoleTyped' /\ (ConsoleOwn => ConsoleOwn')
<1>1. UNCHANGED <<coVesa, coCursor, coRing, coPut, coKept>>
  BY DEF C!SetSink
<1> QED
  BY <1>1, Zenon DEF ConsoleTyped, ConsoleOwn, On, Near, C!ScreenRows, C!ScreenCols

LEMMA GetCharConsole ==
  ASSUME ConsoleTyped, C!GetChar
  PROVE  ConsoleTyped' /\ (ConsoleOwn => ConsoleOwn')
<1> DEFINE q == coRing.buf
           h == coRing.head
           t == coRing.tail
           u == Onward(RingSize, t)
<1>1. /\ h # t /\ UNCHANGED <<coVesa, coCursor, coPut>>
      /\ coRing' = [coRing EXCEPT !.tail = (@ + 1) % RingSize]
      /\ coKept' = IF coKept = <<>> THEN coKept ELSE Tail(coKept)
  BY Zenon DEF C!GetChar
<1>2. coRing = [buf |-> q, head |-> h, tail |-> t] /\ IsRing(RingSize, C!Chars, q, h, t)
  BY DEF ConsoleTyped
<1>3. u \in RingSlots(RingSize)
  BY <1>2, OnwardIs DEF IsRing
<1>4. coRing' = [buf |-> q, head |-> h, tail |-> u]
  BY <1>1, <1>2 DEF Onward
<1> HIDE DEF q, h, t
<1>5. coRing'.buf = q /\ coRing'.head = h /\ coRing'.tail = u
  BY <1>4
<1>6. u = Onward(RingSize, t)
  OBVIOUS
<1> HIDE DEF u
<1>7. IsRing(RingSize, C!Chars, q, h, u)
  BY <1>2, <1>3 DEF IsRing
<1>8. ConsoleTyped'
  BY <1>1, <1>4, <1>5, <1>7 DEF ConsoleTyped
<1>9. ASSUME ConsoleOwn PROVE ConsoleOwn'
  <2>1. coKept = Content(RingSize, q, h, t)
    BY <1>9 DEF ConsoleOwn, q, h, t
  <2>2. /\ Content(RingSize, q, h, t) # <<>>
        /\ Content(RingSize, q, h, u) = Tail(Content(RingSize, q, h, t))
    BY <1>1, <1>2, <1>6, <1>7, GetIs
  <2>3. coKept' = Content(RingSize, coRing'.buf, coRing'.head, coRing'.tail)
    BY <1>1, <1>5, <2>1, <2>2
  <2>4. coPut.step = "store" => Onward(RingSize, h) # u
    <3>1. h \in RingSlots(RingSize) /\ t \in RingSlots(RingSize) /\ RingSize \in Nat \ {0, 1}
      BY <1>2 DEF IsRing
    <3> QED
      BY <1>1, <1>6, <3>1, OnwardInjective
  <2> QED
    BY <1>1, <1>5, <1>9, <2>3, <2>4 DEF ConsoleOwn, On, Near, C!ScreenRows, C!ScreenCols, h
<1> QED
  BY <1>8, <1>9

(* One lemma for the part's steps, one for the others'. *)
LEMMA ConsoleSteps ==
  ASSUME ConsoleTyped, ~coRaced => ConsoleOwn, ~coRaced, C!ConsoleNext
  PROVE  ConsoleTyped' /\ (~coRaced' => ConsoleOwn')
<1>1. ASSUME NEW c \in C!Chars, C!PutSink(c) PROVE ConsoleTyped' /\ (~coRaced' => ConsoleOwn')
  BY <1>1, PutSinkConsole
<1>2. ASSUME NEW c \in C!Chars, C!HandlerPuts(c)
      PROVE  ConsoleTyped' /\ (~coRaced' => ConsoleOwn')
  BY <1>2, HandlerPutsConsole
<1>3. CASE C!PutLoad
  BY <1>3, PutLoadConsole
<1>4. CASE C!PutStore
  BY <1>4, PutStoreConsole
<1>5. CASE C!PutDraw
  BY <1>5, PutDrawConsole
<1>6. CASE C!PutScroll
  BY <1>6, PutScrollConsole
<1>7. CASE C!SetSink
  BY <1>7, SetSinkConsole
<1>8. CASE C!GetChar
  BY <1>8, GetCharConsole
<1>9. CASE C!PutWrap
  BY <1>9, PutWrapConsole
<1>10. CASE C!HandlerClears
  BY <1>10, HandlerClearsConsole
<1> QED
  BY <1>1, <1>2, <1>3, <1>4, <1>5, <1>6, <1>7, <1>8, <1>9, <1>10, Zenon DEF C!ConsoleNext

LEMMA ConsoleStep ==
  ASSUME ConsoleInv, [AppsNext]_AllVars
  PROVE  ConsoleInv'
<1>1. CASE part # "console" /\ UNCHANGED part
  BY <1>1, Zenon DEF ConsoleInv
<1>2. CASE part = "console" /\ UNCHANGED <<part, consoleVars>>
  <2>1. UNCHANGED <<part, coSink, coVesa, coCursor, coRing, coPut, coKept, coRaced>>
    BY <1>2, Zenon DEF consoleVars
  <2> QED
    BY <2>1, Zenon DEF ConsoleInv, ConsoleTyped, ConsoleOwn, On, Near, C!ScreenRows, C!ScreenCols
<1>3. CASE part = "console" /\ UNCHANGED part /\ ~coRaced /\ C!ConsoleNext
  BY <1>3, ConsoleSteps, Zenon DEF ConsoleInv
<1> QED
  BY <1>1, <1>2, <1>3, Zenon DEF AppsNext, AllVars, FileSteps, ScreenSteps

LEMMA ConsoleStart == AppsInit => ConsoleInv
<1> SUFFICES ASSUME AppsInit, part = "console" PROVE ConsoleTyped /\ ConsoleOwn
  BY Zenon DEF ConsoleInv
<1>1. /\ coVesa \in BOOLEAN
      /\ coCursor \in [row : 0 .. C!ScreenRows - 1, col : 0 .. C!ScreenCols - 1]
      /\ coRing = [buf |-> [i \in 0 .. RingSize - 1 |-> "nl"], head |-> 0, tail |-> 0]
      /\ coPut = C!Ready /\ coKept = <<>>
  BY Zenon DEF AppsInit, C!ConsoleInit
<1>2. 0 \in RingSlots(RingSize) /\ RingSize \in Nat \ {0, 1}
  BY AppsAssumption DEF AppsConstants, RingSlots
<1>3. coRing.buf = [i \in RingSlots(RingSize) |-> "nl"] /\ coRing.head = 0 /\ coRing.tail = 0
  BY <1>1 DEF RingSlots
<1>4. IsRing(RingSize, C!Chars, coRing.buf, coRing.head, coRing.tail)
  BY <1>2, <1>3 DEF IsRing, C!Chars
<1>5. C!ScreenRows \in Nat \ {0} /\ C!ScreenCols \in Nat \ {0}
  BY <1>1, SizesAre
<1>6. coCursor \in [row : Nat, col : Nat] /\ On(coCursor, 0)
  BY <1>1, <1>5 DEF On
<1>7. /\ coPut \in Puts
      /\ coPut.step = "ready"
  BY <1>1, <1>2 DEF C!Ready, C!Chars, Puts
<1>8. Content(RingSize, coRing.buf, coRing.head, coRing.tail) = <<>>
  <2>1. Fill(RingSize, 0, 0) = 0
    BY <1>2, FillIs
  <2>2. Content(RingSize, coRing.buf, 0, 0) \in Seq(C!Chars)
        /\ Len(Content(RingSize, coRing.buf, 0, 0)) = 0
    BY <1>3, <1>4, <2>1, ContentIs
  <2> QED
    BY <1>3, <2>2, EmptySeq
<1>9. ConsoleTyped
  BY <1>1, <1>3, <1>4, <1>6, <1>7 DEF ConsoleTyped, RingSlots
<1>10. ConsoleOwn
  BY <1>1, <1>6, <1>7, <1>8 DEF ConsoleOwn
<1> QED
  BY <1>9, <1>10

LEMMA ConsoleMeans ==
  ASSUME ConsoleInv
  PROVE  ConsoleUnlessRaced
<1> SUFFICES ASSUME part = "console", ~coRaced
             PROVE  /\ C!Contents = coKept
                    /\ coPut.step \notin {"wrap", "scroll"} =>
                         coCursor.row < C!ScreenRows /\ coCursor.col < C!ScreenCols
  BY Zenon DEF ConsoleUnlessRaced, C!ConsoleUnlessRaced
<1>1. ConsoleTyped /\ ConsoleOwn
  BY DEF ConsoleInv
<1>2. C!Contents = Ring(RingSize, coRing.buf, coRing.head, coRing.tail)
  BY DEF C!Contents, Ring
<1>3. C!Contents = coKept
  BY <1>1, <1>2, RingIs DEF ConsoleTyped, ConsoleOwn
<1>4. ASSUME coPut.step \notin {"wrap", "scroll"}
      PROVE  coCursor.row < C!ScreenRows /\ coCursor.col < C!ScreenCols
  <2>1. On(coCursor, 0)
    BY <1>1, <1>4 DEF ConsoleOwn
  <2>2. C!ScreenRows \in Nat
    BY <1>1, SizesAre DEF ConsoleTyped
  <2> QED
    BY <2>1, <2>2 DEF On
<1> QED
  BY <1>3, <1>4

(* On the boot console, until a handler prints between main's reading and  *)
(* writing: the ring that user programs read holds what was printed, for   *)
(* any size, and no character is drawn off the screen.                     *)
THEOREM ConsoleIsRight == AppsSpec => []ConsoleUnlessRaced
<1>1. AppsInit => ConsoleInv
  BY ConsoleStart
<1>2. ConsoleInv /\ [AppsNext]_AllVars => ConsoleInv'
  BY ConsoleStep
<1>3. ConsoleInv => ConsoleUnlessRaced
  BY ConsoleMeans
<1> QED
  BY <1>1, <1>2, <1>3, PTL DEF AppsSpec

LEMMA EndsIs ==
  ASSUME NEW T, NEW s \in Seq(T), NEW t \in Seq(T), Ends(s, t)
  PROVE  Y!EndsWith(t, s)
<1> DEFINE k == Len(s)
           n == Len(t)
           u == SubSeq(t, n - k + 1, n)
<1>1. k \in Nat /\ n \in Nat /\ k <= n /\ \A i \in 1 .. k : t[n - k + i] = s[i]
  BY DEF Ends
<1>2. u \in Seq(T) /\ Len(u) = k /\ \A i \in 1 .. k : u[i] = t[n - k + 1 + i - 1]
  BY <1>1
<1>3. \A i \in 1 .. k : n - k + 1 + i - 1 = n - k + i
  BY <1>1
<1> HIDE DEF u
<1>4. \A i \in 1 .. k : u[i] = s[i]
  BY <1>1, <1>2, <1>3
<1>5. u = s
  BY <1>2, <1>4, SeqEqual
<1> QED
  BY <1>1, <1>5, Zenon DEF Y!EndsWith, u, k, n

LEMMA SinkingWork ==
  ASSUME NEW w \in Sinking
  PROVE  /\ w # <<>> /\ Head(w) \in {"a", "nl", "unsink"}
         /\ Head(w) \in {"a", "nl"} => Tail(w) \in Sinking
         /\ Head(w) = "unsink" => Tail(w) = <<>>
<1>1. /\ Head(<<"a", "nl", "unsink">>) = "a" /\ Tail(<<"a", "nl", "unsink">>) = <<"nl", "unsink">>
      /\ Head(<<"nl", "unsink">>) = "nl" /\ Tail(<<"nl", "unsink">>) = <<"unsink">>
      /\ Head(<<"a", "unsink">>) = "a" /\ Tail(<<"a", "unsink">>) = <<"unsink">>
      /\ Head(<<"unsink">>) = "unsink" /\ Tail(<<"unsink">>) = <<>>
      /\ <<"a", "nl", "unsink">> # <<>> /\ <<"nl", "unsink">> # <<>>
      /\ <<"a", "unsink">> # <<>> /\ <<"unsink">> # <<>>
  BY HeadTail
<1>2. "a" # "unsink" /\ "nl" # "unsink"
  OBVIOUS
<1> QED
  BY <1>1, <1>2, Zenon DEF Sinking

LEMMA PromptingWork ==
  ASSUME NEW w \in Prompting
  PROVE  /\ w # <<>> /\ Head(w) \in {"a", "nl", "lock"}
         /\ Head(w) \in {"a", "nl"} => Tail(w) \in Prompting
         /\ Head(w) = "lock" => Tail(w) = <<">", "unlock">>
<1>1. /\ Head(<<"a", "nl", "lock", ">", "unlock">>) = "a"
      /\ Tail(<<"a", "nl", "lock", ">", "unlock">>) = <<"nl", "lock", ">", "unlock">>
      /\ Head(<<"nl", "lock", ">", "unlock">>) = "nl"
      /\ Tail(<<"nl", "lock", ">", "unlock">>) = <<"lock", ">", "unlock">>
      /\ Head(<<"a", "lock", ">", "unlock">>) = "a"
      /\ Tail(<<"a", "lock", ">", "unlock">>) = <<"lock", ">", "unlock">>
      /\ Head(<<"lock", ">", "unlock">>) = "lock"
      /\ Tail(<<"lock", ">", "unlock">>) = <<">", "unlock">>
      /\ <<"a", "nl", "lock", ">", "unlock">> # <<>> /\ <<"nl", "lock", ">", "unlock">> # <<>>
      /\ <<"a", "lock", ">", "unlock">> # <<>> /\ <<"lock", ">", "unlock">> # <<>>
  BY HeadTail
<1>2. "a" # "lock" /\ "nl" # "lock"
  OBVIOUS
<1> QED
  BY <1>1, <1>2, Zenon DEF Prompting

LEMMA LockedWork ==
  ASSUME NEW w \in Locked
  PROVE  /\ w # <<>> /\ Head(w) \in {"a", "nl", ">", "unlock"}
         /\ Head(w) \in {"a", "nl", ">"} => Tail(w) \in Locked
         /\ Head(w) = "unlock" => Tail(w) = <<>>
<1>1. /\ Head(<<">", "unlock">>) = ">" /\ Tail(<<">", "unlock">>) = <<"unlock">>
      /\ Head(<<"unlock">>) = "unlock" /\ Tail(<<"unlock">>) = <<>>
      /\ Head(<<"a", "nl", "unlock">>) = "a" /\ Tail(<<"a", "nl", "unlock">>) = <<"nl", "unlock">>
      /\ Head(<<"nl", "unlock">>) = "nl" /\ Tail(<<"nl", "unlock">>) = <<"unlock">>
      /\ <<">", "unlock">> # <<>> /\ <<"unlock">> # <<>>
      /\ <<"a", "nl", "unlock">> # <<>> /\ <<"nl", "unlock">> # <<>>
  BY HeadTail
<1>2. "a" # "unlock" /\ "nl" # "unlock" /\ ">" # "unlock"
  OBVIOUS
<1> QED
  BY <1>1, <1>2, Zenon DEF Locked

LEMMA MessageWork ==
  ASSUME NEW w \in Message, w # <<>>
  PROVE  /\ Head(w) \in {"a", "lock"}
         /\ Head(w) = "a" => Tail(w) = <<>>
         /\ Head(w) = "lock" => Tail(w) \in Locked
<1>1. /\ Head(<<"a">>) = "a" /\ Tail(<<"a">>) = <<>>
      /\ Head(<<"lock", "a", "nl", "unlock">>) = "lock"
      /\ Tail(<<"lock", "a", "nl", "unlock">>) = <<"a", "nl", "unlock">>
  BY HeadTail
<1>2. "a" # "lock"
  OBVIOUS
<1> QED
  BY <1>1, <1>2, Zenon DEF Message, Locked

(* What a handler begins with. *)
LEMMA OutputWork ==
  ASSUME NEW out \in Y!Outputs
  PROVE  out \o <<"unsink">> \in Sinking /\ out \o <<"lock", ">", "unlock">> \in Prompting
<1>1. <<"a", "nl">> \o <<"lock", ">", "unlock">> = <<"a", "nl", "lock", ">", "unlock">>
  BY TwoAndThree, Zenon
<1>2. <<"a">> \o <<"lock", ">", "unlock">> = <<"a", "lock", ">", "unlock">>
  BY OneAndThree, Zenon
<1>3. <<>> \o <<"lock", ">", "unlock">> = <<"lock", ">", "unlock">>
  OBVIOUS
<1>4. <<"a", "nl">> \o <<"unsink">> = <<"a", "nl", "unsink">>
  BY TwoAndOne, Zenon
<1>5. <<"a">> \o <<"unsink">> = <<"a", "unsink">> /\ <<>> \o <<"unsink">> = <<"unsink">>
  BY OneAndOne
<1> QED
  BY <1>1, <1>2, <1>3, <1>4, <1>5, Zenon DEF Y!Outputs, Sinking, Prompting

LEMMA TextMeans ==
  ASSUME TextInv
  PROVE  TextModeWorks
<1> SUFFICES ASSUME part = "text", TtyIs PROVE Y!TtyShowsLine /\ Y!SpinsOnlyInPrompt
  BY Zenon DEF TextModeWorks, Y!TextModeWorks, TextInv
<1>1. Y!TtyShowsLine
  <2> SUFFICES ASSUME ttMain.pc = "halt", ttHandler = <<>>, ~ttLost, ~ttDisturbed, ~ttRow.wrapped
               PROVE  ttSink = "tty" /\ Y!EndsWith(ttRow.text, <<">">> \o ttLine)
    BY Zenon DEF Y!TtyShowsLine
  <2>1. ttSink = "tty"
    BY DEF TtyIs, SinkIs, TtyPcs
  <2>2. ttHandler \notin Prompting /\ <<">", "unlock">> # <<>>
    BY PromptingWork, HeadTail
  <2>3. Shows
    BY <2>2, Zenon DEF TtyIs, LineIs
  <2>4. Ends(<<">">> \o ttLine, ttRow.text)
    BY <2>3 DEF Shows
  <2>5. ttRow.text \in Seq(Marks) /\ ttLine \in Seq(Marks) /\ ">" \in Marks
    BY DEF TtyIs, TextTyped, Marks
  <2>6. <<">">> \o ttLine \in Seq(Marks)
    BY <2>5, FirstStays
  <2>7. Y!EndsWith(ttRow.text, <<">">> \o ttLine)
    BY <2>4, <2>5, <2>6, EndsIs
  <2> QED
    BY <2>1, <2>7
<1>2. Y!SpinsOnlyInPrompt
  <2> SUFFICES ASSUME ttLock, ttHandler # <<>>, Head(ttHandler) = "lock", ttHandler \in Locked
               PROVE  FALSE
    BY Zenon DEF Y!SpinsOnlyInPrompt, TtyIs, LockIs
  <2> QED
    BY LockedWork
<1> QED
  BY <1>1, <1>2

LEMMA TextStart == AppsInit => TextInv
<1> SUFFICES ASSUME AppsInit PROVE TtyIs
  BY Zenon DEF TextInv
<1>1. /\ ttSink = "none" /\ ttLock = FALSE /\ ttMain = [pc |-> "gui", text |-> <<>>]
      /\ ttHandler = <<>> /\ ttHook = "gui" /\ ttRow = [text |-> <<>>, wrapped |-> FALSE]
      /\ ttLine = <<>> /\ ttLost = FALSE /\ ttDisturbed = FALSE
  BY Zenon DEF AppsInit, Y!TextInit, Y!At
<1>2. ttMain.pc = "gui" /\ ttMain.text = <<>>
  BY <1>1
<1>3. <<>> \in Seq(Marks) /\ Len(<<>>) <= LineRoom
  BY AppsAssumption DEF AppsConstants
<1>4. ttRow \in [text : Seq(Marks), wrapped : BOOLEAN]
  BY <1>1, <1>3
<1>5. TextTyped
  BY <1>1, <1>2, <1>3, <1>4, Zenon DEF TextTyped, GuiPcs
<1>6. "gui" \notin TtyPcs /\ "gui" # "hook" /\ "gui" # "prompt" /\ "gui" # "halt"
  BY DEF TtyPcs
<1> QED
  BY <1>1, <1>2, <1>5, <1>6, Zenon DEF TtyIs, HandlerIs, SinkIs, LockIs, LineIs, Message

LEMMA NoWork ==
  <<>> \notin Sinking /\ <<>> \notin Prompting /\ <<>> \notin Locked /\ <<>> \in Message
  BY SinkingWork, PromptingWork, LockedWork, Zenon DEF Message

(* tty_sink: unless the row wraps, a character comes at its end, and a     *)
(* backspace takes the last one.                                           *)
LEMMA TtyAfterIs ==
  ASSUME TextTyped, NEW c \in {"a", "nl", ">", "bs"}
  PROVE  /\ Y!TtyAfter(c) \in [text : Seq(Marks), wrapped : BOOLEAN]
         /\ c \in {"a", ">"} /\ ~Y!TtyAfter(c).wrapped =>
              ~ttRow.wrapped /\ Y!TtyAfter(c).text = Append(ttRow.text, c)
         /\ c = "bs" /\ ttRow.text # <<>> =>
              Y!TtyAfter(c).wrapped = ttRow.wrapped /\ Y!TtyAfter(c).text = Front(ttRow.text)
         /\ c = "bs" /\ ttRow.text = <<>> => Y!TtyAfter(c) = ttRow
<1> DEFINE x == ttRow.text
           w == ttRow.wrapped
           r == Y!TtyAfter(c)
<1>1. ttRow = [text |-> x, wrapped |-> w] /\ x \in Seq(Marks) /\ w \in BOOLEAN /\ c \in Marks
  BY DEF TextTyped, Marks
<1>2. \/ c = "nl" /\ r = [text |-> <<>>, wrapped |-> FALSE]
      \/ c = "bs" /\ x = <<>> /\ r = ttRow
      \/ c = "bs" /\ x # <<>> /\ r = [ttRow EXCEPT !.text = Y!Erased(@)]
      \/ c \in {"a", ">"} /\ r = [text |-> <<>>, wrapped |-> TRUE]
      \/ c \in {"a", ">"} /\ r = [ttRow EXCEPT !.text = Append(@, c)]
  BY Zenon DEF Y!TtyAfter
<1>3. x # <<>> => Y!Erased(x) = Front(x) /\ Front(x) \in Seq(Marks)
  BY <1>1, FrontIs DEF Front, Y!Erased
<1>4. <<>> \in Seq(Marks) /\ Append(x, c) \in Seq(Marks)
  BY <1>1
<1> HIDE DEF x, w, r
<1>5. \/ c = "nl" /\ r = [text |-> <<>>, wrapped |-> FALSE]
      \/ c = "bs" /\ x = <<>> /\ r = ttRow
      \/ c = "bs" /\ x # <<>> /\ r = [text |-> Front(x), wrapped |-> w]
      \/ c \in {"a", ">"} /\ r = [text |-> <<>>, wrapped |-> TRUE]
      \/ c \in {"a", ">"} /\ r = [text |-> Append(x, c), wrapped |-> w]
  <2>1. x # <<>> => [ttRow EXCEPT !.text = Y!Erased(@)] = [text |-> Front(x), wrapped |-> w]
    BY <1>1, <1>3
  <2>2. [ttRow EXCEPT !.text = Append(@, c)] = [text |-> Append(x, c), wrapped |-> w]
    <3> DEFINE y == Append(x, c)
    <3>1. [ttRow EXCEPT !.text = Append(@, c)] = [ttRow EXCEPT !.text = y]
      BY <1>1
    <3> HIDE DEF y
    <3>2. [ttRow EXCEPT !.text = y] = [text |-> y, wrapped |-> w]
      BY <1>1
    <3> QED
      BY <3>1, <3>2 DEF y
  <2> QED
    BY <1>2, <2>1, <2>2, Zenon
<1>6. r \in [text : Seq(Marks), wrapped : BOOLEAN]
  <2>1. ttRow \in [text : Seq(Marks), wrapped : BOOLEAN]
    BY DEF TextTyped
  <2>2. ASSUME NEW y \in Seq(Marks), NEW b \in BOOLEAN
        PROVE  [text |-> y, wrapped |-> b] \in [text : Seq(Marks), wrapped : BOOLEAN]
    BY <2>2
  <2> QED
    BY <1>1, <1>3, <1>4, <1>5, <2>1, <2>2, Zenon
<1>7. "a" # "nl" /\ "a" # "bs" /\ ">" # "nl" /\ ">" # "bs" /\ "nl" # "bs"
  OBVIOUS
<1>8. \/ c = "nl"
      \/ c = "bs" /\ x = <<>> /\ r = ttRow
      \/ c = "bs" /\ x # <<>> /\ r.text = Front(x) /\ r.wrapped = w
      \/ c \in {"a", ">"} /\ r.wrapped = TRUE
      \/ c \in {"a", ">"} /\ r.text = Append(x, c) /\ r.wrapped = w
  <2>1. ASSUME NEW y, NEW b, r = [text |-> y, wrapped |-> b] PROVE r.text = y /\ r.wrapped = b
    BY <2>1
  <2> QED
    BY <1>5, <2>1, Zenon
<1> QED
  BY <1>6, <1>7, <1>8, Zenon DEF x, w, r

(* main's steps. *)
LEMMA GuiEndsText ==
  ASSUME TtyIs, Y!GuiEnds
  PROVE  TtyIs'
<1>1. /\ ttHandler = <<>> /\ ttMain = Y!At("gui", <<>>) /\ ttMain' = Y!At("sink", <<>>)
      /\ UNCHANGED <<ttSink, ttLock, ttHandler, ttHook, ttRow, ttLine, ttLost, ttDisturbed>>
  BY Zenon DEF Y!GuiEnds, Y!MainStep
<1>2. ttMain.pc = "gui" /\ ttMain'.pc = "sink" /\ ttMain'.text = <<>>
      /\ ttMain' = [pc |-> ttMain'.pc, text |-> ttMain'.text]
  BY <1>1 DEF Y!At
<1>3. /\ "gui" \in GuiPcs /\ "sink" \in GuiPcs /\ "sink" \notin TtyPcs
      /\ "sink" # "hook" /\ "sink" # "prompt" /\ "sink" # "halt"
      /\ "gui" # "prompt" /\ "gui" # "halt"
  BY DEF GuiPcs, TtyPcs
<1>4. TextTyped'
  BY <1>1, <1>2, <1>3, Zenon DEF TtyIs, TextTyped
<1> QED
  BY <1>1, <1>2, <1>3, <1>4, NoWork, Zenon DEF TtyIs, HandlerIs, SinkIs, LockIs, LineIs

LEMMA SetSinkText ==
  ASSUME TtyIs, Y!SetSink
  PROVE  TtyIs'
<1>1. /\ ttHandler = <<>> /\ ttMain = Y!At("sink", <<>>) /\ ttMain' = Y!At("hook", <<>>)
      /\ ttSink' = "tty"
      /\ UNCHANGED <<ttLock, ttHandler, ttHook, ttRow, ttLine, ttLost, ttDisturbed>>
  BY Zenon DEF Y!SetSink, Y!MainStep
<1>2. ttMain.pc = "sink" /\ ttMain'.pc = "hook" /\ ttMain'.text = <<>>
      /\ ttMain' = [pc |-> ttMain'.pc, text |-> ttMain'.text]
  BY <1>1 DEF Y!At
<1>3. /\ "sink" \in GuiPcs /\ "hook" \in GuiPcs /\ "hook" \notin TtyPcs
      /\ "hook" # "prompt" /\ "hook" # "halt" /\ "sink" # "prompt" /\ "sink" # "halt"
  BY DEF GuiPcs, TtyPcs
<1>4. TextTyped'
  BY <1>1, <1>2, <1>3, Zenon DEF TtyIs, TextTyped
<1> QED
  BY <1>1, <1>2, <1>3, <1>4, NoWork, Zenon DEF TtyIs, HandlerIs, SinkIs, LockIs, LineIs

LEMMA SetHookText ==
  ASSUME TtyIs, Y!SetHook
  PROVE  TtyIs'
<1>1. /\ ttHandler = <<>> /\ ttMain = Y!At("hook", <<>>) /\ ttMain' = Y!At("kprintf", <<>>)
      /\ ttHook' = "tty"
      /\ UNCHANGED <<ttSink, ttLock, ttHandler, ttRow, ttLine, ttLost, ttDisturbed>>
  BY Zenon DEF Y!SetHook, Y!MainStep
<1>2. ttMain.pc = "hook" /\ ttMain'.pc = "kprintf" /\ ttMain'.text = <<>>
      /\ ttMain' = [pc |-> ttMain'.pc, text |-> ttMain'.text]
  BY <1>1 DEF Y!At
<1>3. /\ "kprintf" \notin GuiPcs /\ "kprintf" \in TtyPcs
      /\ "kprintf" # "prompt" /\ "kprintf" # "halt" /\ "hook" # "prompt" /\ "hook" # "halt"
      /\ "kprintf" # "hook"
  BY DEF GuiPcs, TtyPcs
<1>4. TextTyped'
  BY <1>1, <1>2, <1>3, Zenon DEF TtyIs, TextTyped
<1> QED
  BY <1>1, <1>2, <1>3, <1>4, NoWork, Zenon DEF TtyIs, HandlerIs, SinkIs, LockIs, LineIs

LEMMA LockText ==
  ASSUME TtyIs, Y!Lock
  PROVE  TtyIs'
<1>1. /\ ttHandler = <<>> /\ ttMain = Y!At("kprintf", <<>>)
      /\ ttMain' = Y!At("prompt", <<"a", "nl", ">">>)
      /\ UNCHANGED <<ttSink, ttHandler, ttHook, ttRow, ttLine, ttLost, ttDisturbed>>
  BY Zenon DEF Y!Lock, Y!MainStep
<1>2. ttMain.pc = "kprintf" /\ ttMain'.pc = "prompt" /\ ttMain'.text = <<"a", "nl", ">">>
      /\ ttMain' = [pc |-> ttMain'.pc, text |-> ttMain'.text]
  BY <1>1 DEF Y!At
<1>3. /\ "kprintf" \notin GuiPcs /\ "prompt" \notin GuiPcs /\ "prompt" \in TtyPcs
      /\ "kprintf" \in TtyPcs /\ "prompt" # "halt" /\ "kprintf" # "halt" /\ "prompt" # "hook"
  BY DEF GuiPcs, TtyPcs
<1>4. <<"a", "nl", ">">> # <<>>
  OBVIOUS
<1>5. TextTyped'
  BY <1>1, <1>2, <1>3, Zenon DEF TtyIs, TextTyped
<1> QED
  BY <1>1, <1>2, <1>3, <1>4, <1>5, NoWork, Zenon DEF TtyIs, HandlerIs, SinkIs, LockIs, LineIs

LEMMA UnlockText ==
  ASSUME TtyIs, Y!Unlock
  PROVE  TtyIs'
<1>1. /\ ttHandler = <<>> /\ ttMain = Y!At("prompt", <<>>) /\ ttMain' = Y!At("halt", <<>>)
      /\ ttLock' = FALSE
      /\ UNCHANGED <<ttSink, ttHandler, ttHook, ttRow, ttLine, ttLost, ttDisturbed>>
  BY Zenon DEF Y!Unlock, Y!MainStep
<1>2. ttMain.pc = "prompt" /\ ttMain.text = <<>> /\ ttMain'.pc = "halt" /\ ttMain'.text = <<>>
      /\ ttMain' = [pc |-> ttMain'.pc, text |-> ttMain'.text]
  BY <1>1 DEF Y!At
<1>3. /\ "halt" \notin GuiPcs /\ "prompt" \notin GuiPcs /\ "prompt" \in TtyPcs
      /\ "halt" \in TtyPcs /\ "prompt" # "halt" /\ "halt" # "hook"
  BY DEF GuiPcs, TtyPcs
<1>4. TextTyped'
  BY <1>1, <1>2, <1>3, Zenon DEF TtyIs, TextTyped
<1>5. ~ttDisturbed => Shows
  BY <1>2, Zenon DEF TtyIs, LineIs
<1>6. Shows => Shows'
  BY <1>1, Zenon DEF Shows
<1>7. LineIs'
  BY <1>1, <1>2, <1>3, <1>5, <1>6, Zenon DEF LineIs
<1> QED
  BY <1>1, <1>2, <1>3, <1>4, <1>7, NoWork, Zenon DEF TtyIs, HandlerIs, SinkIs, LockIs

LEMMA SinkShows ==
  ASSUME NEW c
  PROVE  Y!Shown(c) = IF ttSink = "tty" THEN Y!TtyAfter(c) ELSE ttRow
  BY Zenon DEF Y!Shown

(* The prompt is printed with nothing typed behind it. *)
LEMMA PromptShows ==
  ASSUME TextTyped, ~ttLost => ttSink = "tty", ttLine = <<>>, ttRow' = Y!Shown(">"),
         UNCHANGED <<ttLine, ttLost>>
  PROVE  Shows'
<1> SUFFICES ASSUME ~ttLost, ~ttRow'.wrapped PROVE Ends(<<">">> \o <<>>, ttRow'.text)
  BY Zenon DEF Shows
<1>1. ttRow' = Y!TtyAfter(">")
  BY SinkShows
<1>2. ttRow'.text = Append(ttRow.text, ">")
  BY <1>1, TtyAfterIs, Zenon
<1>3. ttRow.text \in Seq(Marks) /\ ">" \in Marks /\ <<>> \in Seq(Marks)
  BY DEF TextTyped, Marks
<1>4. <<">">> \o <<>> = <<">">>
  BY <1>3, FirstStays
<1>5. Ends(<<">">>, Append(ttRow.text, ">"))
  BY <1>3, EndsOne
<1> QED
  BY <1>2, <1>4, <1>5

LEMMA PrintsText ==
  ASSUME TtyIs, Y!Prints
  PROVE  TtyIs'
<1> DEFINE c == Head(ttMain.text)
<1>1. /\ ttHandler = <<>> /\ ttMain.text # <<>> /\ ttRow' = Y!Shown(c)
      /\ ttMain' = [ttMain EXCEPT !.text = Tail(@)]
      /\ UNCHANGED <<ttSink, ttLock, ttHandler, ttHook, ttLine, ttLost, ttDisturbed>>
  BY Zenon DEF Y!Prints
<1>2. ttMain.pc = "prompt" /\ ttMain = [pc |-> ttMain.pc, text |-> ttMain.text]
  BY <1>1, Zenon DEF TtyIs, TextTyped
<1>3. /\ ttMain'.pc = "prompt" /\ ttMain'.text = Tail(ttMain.text)
      /\ ttMain' = [pc |-> ttMain'.pc, text |-> ttMain'.text]
  BY <1>1, <1>2
<1>4. /\ Head(<<"a", "nl", ">">>) = "a" /\ Tail(<<"a", "nl", ">">>) = <<"nl", ">">>
      /\ Head(<<"nl", ">">>) = "nl" /\ Tail(<<"nl", ">">>) = <<">">>
      /\ Head(<<">">>) = ">" /\ Tail(<<">">>) = <<>>
      /\ <<"nl", ">">> # <<>> /\ <<">">> # <<>>
  BY HeadTail
<1>5. /\ c \in {"a", "nl", ">", "bs"} /\ (Tail(ttMain.text) = <<>> => c = ">")
      /\ Tail(ttMain.text) \in {<<"a", "nl", ">">>, <<"nl", ">">>, <<">">>, <<>>}
  BY <1>1, <1>4, Zenon DEF TtyIs, TextTyped
<1> HIDE DEF c
<1>6. /\ "prompt" # "halt" /\ "prompt" # "hook" /\ "prompt" \in TtyPcs /\ "prompt" \notin GuiPcs
  BY DEF TtyPcs, GuiPcs
<1>7. ttRow' \in [text : Seq(Marks), wrapped : BOOLEAN]
  BY <1>1, <1>5, TtyAfterIs, SinkShows, Zenon DEF TtyIs, TextTyped
<1>8. TextTyped'
  BY <1>1, <1>2, <1>3, <1>5, <1>6, <1>7, Zenon DEF TtyIs, TextTyped
<1>9. ASSUME ~ttDisturbed, ttMain'.text = <<>> PROVE Shows'
  <2>1. ttRow' = Y!Shown(">") /\ ttLine = <<>> /\ (~ttLost => ttSink = "tty")
    BY <1>1, <1>2, <1>3, <1>5, <1>6, <1>9, Zenon DEF TtyIs, LineIs, SinkIs
  <2> QED
    BY <1>1, <2>1, PromptShows, Zenon DEF TtyIs
<1>10. LineIs'
  BY <1>1, <1>2, <1>3, <1>6, <1>9, Zenon DEF TtyIs, LineIs
<1> QED
  BY <1>1, <1>2, <1>3, <1>8, <1>10, Zenon DEF TtyIs, HandlerIs, SinkIs, LockIs

(* Handlers that begin. *)
LEMMA BeginsIs ==
  ASSUME NEW work, Y!Begins(work)
  PROVE  /\ ttHandler = <<>> /\ ttHandler' = work
         /\ UNCHANGED <<ttLock, ttMain, ttHook, ttLost>>
  BY Zenon DEF Y!Begins

LEMMA OutputText ==
  ASSUME TtyIs, NEW work \in Message, Y!Output(work)
  PROVE  TtyIs'
<1>1. /\ ttHandler = <<>> /\ ttHandler' = work
      /\ UNCHANGED <<ttLock, ttMain, ttHook, ttLost, ttSink, ttRow, ttLine>>
      /\ ttDisturbed' = (ttDisturbed \/ ttMain.pc \in {"prompt", "halt"})
  BY BeginsIs, Zenon DEF Y!Output
<1>2. TextTyped'
  BY <1>1, Zenon DEF TtyIs, TextTyped
<1>3. work \notin Sinking
  <2>1. work # <<>> => Head(work) \in {"a", "lock"} /\ (Head(work) = "a" => Tail(work) = <<>>)
    BY MessageWork
  <2>2. work \in Sinking => /\ work # <<>> /\ Head(work) \in {"a", "nl", "unsink"}
                            /\ (Head(work) \in {"a", "nl"} => Tail(work) \in Sinking)
    BY SinkingWork
  <2>3. "a" # "lock" /\ "nl" # "lock" /\ "unsink" # "lock" /\ "unsink" # "a"
    OBVIOUS
  <2> QED
    BY <2>1, <2>2, <2>3, NoWork, Zenon
<1>4. LineIs'
  BY <1>1, Zenon DEF TtyIs, LineIs
<1> QED
  BY <1>1, <1>2, <1>3, <1>4, NoWork, Zenon DEF TtyIs, HandlerIs, SinkIs, LockIs

LEMMA WindowEnterText ==
  ASSUME TtyIs, NEW out \in Y!Outputs, Y!WindowEnter(out)
  PROVE  TtyIs'
<1>1. /\ ttHook = "gui" /\ ttHandler = <<>> /\ ttHandler' = out \o <<"unsink">>
      /\ UNCHANGED <<ttLock, ttMain, ttHook, ttLost, ttRow, ttLine, ttDisturbed>>
  BY BeginsIs, Zenon DEF Y!WindowEnter
<1>2. ttHandler' \in Sinking
  BY <1>1, OutputWork
<1>3. "gui" # "tty"
  OBVIOUS
<1>4. ttMain.pc \notin TtyPcs /\ ttMain.pc # "prompt" /\ ttMain.pc # "halt"
  <2>1. ttMain.pc \in GuiPcs
    BY <1>1, <1>3, Zenon DEF TtyIs, TextTyped
  <2> QED
    BY <2>1 DEF GuiPcs, TtyPcs
<1>5. TextTyped'
  BY <1>1, Zenon DEF TtyIs, TextTyped
<1> QED
  BY <1>1, <1>2, <1>4, <1>5, NoWork, Zenon DEF TtyIs, HandlerIs, SinkIs, LockIs, LineIs

(* The keys of text mode come when main has set its key handler. *)
LEMMA TtyHook ==
  ASSUME TextTyped, ttHook = "tty"
  PROVE  ttMain.pc \in TtyPcs /\ ttMain.pc # "hook"
<1>1. ttMain.pc \notin GuiPcs
  <2>1. "gui" # "tty"
    OBVIOUS
  <2> QED
    BY <2>1, Zenon DEF TextTyped
<1> QED
  BY <1>1 DEF TextTyped, GuiPcs

LEMMA TtyKeyText ==
  ASSUME TtyIs, Y!TtyKey
  PROVE  TtyIs'
<1>1. /\ ttHook = "tty" /\ ttHandler = <<>> /\ ttHandler' = <<>>
      /\ UNCHANGED <<ttLock, ttMain, ttHook, ttLost, ttSink>>
      /\ ttRow' = Y!TtyAfter("a")
      /\ ttLine' = IF Len(ttLine) < LineRoom THEN Append(ttLine, "a") ELSE ttLine
      /\ ttDisturbed' = (ttDisturbed \/ Len(ttLine) = LineRoom \/ ttMain.pc # "halt")
  BY BeginsIs, Zenon DEF Y!TtyKey
<1>2. /\ ttRow' \in [text : Seq(Marks), wrapped : BOOLEAN]
      /\ ~ttRow'.wrapped => ~ttRow.wrapped /\ ttRow'.text = Append(ttRow.text, "a")
  BY <1>1, TtyAfterIs, Zenon DEF TtyIs
<1>3. /\ "a" \in Marks /\ ">" \in Marks /\ ttLine \in Seq(Marks) /\ ttRow.text \in Seq(Marks)
  BY DEF TtyIs, TextTyped, Marks
<1>4. ttLine' \in Seq(Marks) /\ Len(ttLine') <= LineRoom
  <2>1. Append(ttLine, "a") \in Seq(Marks) /\ Len(Append(ttLine, "a")) = Len(ttLine) + 1
    BY <1>3, AppendProperties
  <2>2. Len(ttLine) \in Nat /\ LineRoom \in Nat /\ Len(ttLine) <= LineRoom
    BY <1>3, AppsAssumption DEF AppsConstants, TtyIs, TextTyped
  <2>3. Len(ttLine) < LineRoom => Len(ttLine) + 1 <= LineRoom
    BY <2>2
  <2> QED
    BY <1>1, <1>3, <2>1, <2>2, <2>3, Zenon
<1>5. TextTyped'
  BY <1>1, <1>2, <1>4, Zenon DEF TtyIs, TextTyped
<1>6. ASSUME ~ttDisturbed' PROVE ttMain.pc = "halt" /\ Shows'
  <2>1. ttMain.pc = "halt" /\ ~ttDisturbed /\ Len(ttLine) # LineRoom
    BY <1>1, <1>6, Zenon
  <2>2. Shows
    BY <1>1, <2>1, NoWork, HeadTail, Zenon DEF TtyIs, LineIs
  <2>3. ASSUME ~ttLost', ~ttRow'.wrapped PROVE Ends(<<">">> \o ttLine', ttRow'.text)
    <3>1. Ends(<<">">> \o ttLine, ttRow.text) /\ ttRow'.text = Append(ttRow.text, "a")
      BY <1>1, <1>2, <2>2, <2>3, Zenon DEF Shows
    <3>2. <<">">> \o ttLine \in Seq(Marks)
          /\ <<">">> \o Append(ttLine, "a") = Append(<<">">> \o ttLine, "a")
      BY <1>3, FirstStays
    <3>3. Ends(Append(<<">">> \o ttLine, "a"), Append(ttRow.text, "a"))
      BY <1>3, <3>1, <3>2, EndsAppend
    <3>4. Len(ttLine) < LineRoom
      <4>1. Len(ttLine) \in Nat /\ LineRoom \in Nat /\ Len(ttLine) <= LineRoom
        BY <1>3, AppsAssumption DEF AppsConstants, TtyIs, TextTyped
      <4> QED
        BY <2>1, <4>1
    <3>5. ttLine' = Append(ttLine, "a")
      BY <1>1, <3>4, Zenon
    <3> QED
      BY <3>1, <3>2, <3>3, <3>5
  <2> QED
    BY <2>1, <2>3, Zenon DEF Shows
<1>7. LineIs'
  <2>1. "halt" # "prompt"
    OBVIOUS
  <2> QED
    BY <1>1, <1>6, <2>1, Zenon DEF LineIs
<1> QED
  BY <1>1, <1>5, <1>7, NoWork, Zenon DEF TtyIs, HandlerIs, SinkIs, LockIs

LEMMA TtyBackspaceText ==
  ASSUME TtyIs, Y!TtyBackspace
  PROVE  TtyIs'
<1>1. /\ ttHook = "tty" /\ ttLine # <<>> /\ ttHandler = <<>> /\ ttHandler' = <<>>
      /\ UNCHANGED <<ttLock, ttMain, ttHook, ttLost, ttSink, ttDisturbed>>
      /\ ttRow' = Y!TtyAfter("bs") /\ ttLine' = Y!Erased(ttLine)
  BY BeginsIs, Zenon DEF Y!TtyBackspace
<1>2. /\ ttRow' \in [text : Seq(Marks), wrapped : BOOLEAN]
      /\ ttRow.text # <<>> => ttRow'.wrapped = ttRow.wrapped /\ ttRow'.text = Front(ttRow.text)
      /\ ttRow.text = <<>> => ttRow' = ttRow
  BY <1>1, TtyAfterIs, Zenon DEF TtyIs
<1>3. /\ "a" \in Marks /\ ">" \in Marks /\ ttLine \in Seq(Marks) /\ ttRow.text \in Seq(Marks)
  BY DEF TtyIs, TextTyped, Marks
<1>4. ttLine' = Front(ttLine) /\ ttLine' \in Seq(Marks) /\ Len(ttLine') <= LineRoom
  <2>1. ttLine' = Front(ttLine)
    BY <1>1 DEF Front, Y!Erased
  <2>2. /\ Front(ttLine) \in Seq(Marks) /\ Len(Front(ttLine)) = Len(ttLine) - 1
        /\ Len(ttLine) \in Nat
    BY <1>1, <1>3, FrontIs
  <2>3. Len(ttLine) <= LineRoom /\ LineRoom \in Nat
    BY AppsAssumption DEF AppsConstants, TtyIs, TextTyped
  <2>4. Len(Front(ttLine)) <= LineRoom
    BY <2>2, <2>3
  <2> QED
    BY <2>1, <2>2, <2>4
<1>5. TextTyped'
  BY <1>1, <1>2, <1>4, Zenon DEF TtyIs, TextTyped
<1>6. ASSUME ~ttDisturbed PROVE ttMain.pc = "halt" /\ Shows'
  <2>1. ttMain.pc = "halt"
    BY <1>1, <1>6, Zenon DEF TtyIs, LineIs
  <2>2. Shows
    BY <1>1, <1>6, <2>1, NoWork, HeadTail, Zenon DEF TtyIs, LineIs
  <2>3. ASSUME ~ttLost', ~ttRow'.wrapped PROVE Ends(<<">">> \o ttLine', ttRow'.text)
    <3>1. ~ttRow.wrapped
      BY <1>2, <2>3, Zenon
    <3>2. Ends(<<">">> \o ttLine, ttRow.text)
      BY <1>1, <2>2, <2>3, <3>1, Zenon DEF Shows
    <3>3. <<">">> \o ttLine \in Seq(Marks) /\ <<">">> \o ttLine # <<>>
          /\ <<">">> \o Front(ttLine) = Front(<<">">> \o ttLine)
      BY <1>1, <1>3, FirstStays
    <3>4. ttRow.text # <<>> /\ Ends(Front(<<">">> \o ttLine), Front(ttRow.text))
      BY <1>3, <3>2, <3>3, EndsFront
    <3> QED
      BY <1>2, <1>4, <3>3, <3>4
  <2> QED
    BY <2>1, <2>3, Zenon DEF Shows
<1>7. LineIs'
  <2>1. "halt" # "prompt"
    OBVIOUS
  <2> QED
    BY <1>1, <1>6, <2>1, Zenon DEF LineIs
<1> QED
  BY <1>1, <1>5, <1>7, NoWork, Zenon DEF TtyIs, HandlerIs, SinkIs, LockIs

LEMMA TtyEnterText ==
  ASSUME TtyIs, NEW out \in Y!Outputs, Y!TtyEnter(out)
  PROVE  TtyIs'
<1>1. /\ ttHook = "tty" /\ ttHandler = <<>> /\ ttHandler' = out \o <<"lock", ">", "unlock">>
      /\ UNCHANGED <<ttLock, ttMain, ttHook, ttLost, ttSink>>
      /\ ttRow' = Y!TtyAfter("nl") /\ ttLine' = <<>>
      /\ ttDisturbed' = (ttMain.pc # "halt")
  BY BeginsIs, Zenon DEF Y!TtyEnter
<1>2. ttRow' \in [text : Seq(Marks), wrapped : BOOLEAN] /\ ttLine' \in Seq(Marks)
      /\ Len(ttLine') <= LineRoom
  <2>1. <<>> \in Seq(Marks) /\ Len(<<>>) <= LineRoom
    BY AppsAssumption DEF AppsConstants
  <2> QED
    BY <1>1, <2>1, TtyAfterIs, Zenon DEF TtyIs
<1>3. TextTyped'
  BY <1>1, <1>2, Zenon DEF TtyIs, TextTyped
<1>4. ttHandler' \in Prompting
  BY <1>1, OutputWork
<1>5. ttHandler' \notin Sinking
  <2>1. ASSUME NEW w \in Prompting PROVE w \notin Sinking
    <3>1. /\ <<"a", "nl", "lock", ">", "unlock">> \notin Sinking
          /\ <<"nl", "lock", ">", "unlock">> \notin Sinking
          /\ <<"a", "lock", ">", "unlock">> \notin Sinking
          /\ <<"lock", ">", "unlock">> \notin Sinking
      BY DEF Sinking
    <3> QED
      BY <3>1, Zenon DEF Prompting
  <2> QED
    BY <1>4, <2>1
<1>6. LineIs'
  <2>1. "halt" # "prompt"
    OBVIOUS
  <2> QED
    BY <1>1, <1>4, <2>1, Zenon DEF LineIs
<1>7. ttMain.pc \in TtyPcs /\ ttMain.pc # "hook"
  BY <1>1, TtyHook DEF TtyIs
<1> QED
  BY <1>1, <1>3, <1>4, <1>5, <1>6, <1>7, NoWork, Zenon DEF TtyIs, HandlerIs, SinkIs, LockIs

(* The steps of a handler that has work. *)
LEMMA WorkHeads ==
  /\ Head(<<">", "unlock">>) = ">" /\ Tail(<<">", "unlock">>) = <<"unlock">>
  /\ Head(<<"unlock">>) = "unlock" /\ Tail(<<"unlock">>) = <<>>
  BY HeadTail

LEMMA HandlerPutsText ==
  ASSUME TtyIs, NEW c \in {"a", "nl", ">"}, Y!HandlerPuts(c)
  PROVE  TtyIs'
<1>1. /\ ttHandler # <<>> /\ Head(ttHandler) = c /\ ttHandler' = Tail(ttHandler)
      /\ UNCHANGED <<ttLock, ttMain, ttHook, ttLost, ttSink, ttLine, ttDisturbed>>
      /\ ttRow' = Y!Shown(c)
  BY Zenon DEF Y!HandlerPuts, Y!Handles
<1>2. ttRow' \in [text : Seq(Marks), wrapped : BOOLEAN]
  BY <1>1, TtyAfterIs, SinkShows, Zenon DEF TtyIs, TextTyped
<1>3. TextTyped'
  BY <1>1, <1>2, Zenon DEF TtyIs, TextTyped
<1>4. c # "lock" /\ c # "unlock" /\ c # "unsink"
  OBVIOUS
<1>5. /\ ttHandler \in Sinking => ttHandler' \in Sinking
      /\ ttHandler \in Prompting => ttHandler' \in Prompting /\ c # ">"
      /\ ttHandler \in Locked => ttHandler' \in Locked
      /\ ttHandler \in Message => ttHandler' = <<>>
      /\ ttHandler = <<">", "unlock">> => c = ">" /\ ttHandler' = <<"unlock">>
      /\ ttHandler # <<"unlock">>
  <2>1. ">" # "a" /\ ">" # "nl" /\ ">" # "lock"
    OBVIOUS
  <2>2. ttHandler \in Sinking => ttHandler' \in Sinking
    BY <1>1, <1>4, SinkingWork, Zenon
  <2>3. ttHandler \in Prompting => ttHandler' \in Prompting /\ c # ">"
    BY <1>1, <1>4, <2>1, PromptingWork, Zenon
  <2>4. ttHandler \in Locked => ttHandler' \in Locked
    BY <1>1, <1>4, LockedWork, Zenon
  <2>5. ttHandler \in Message => ttHandler' = <<>>
    BY <1>1, <1>4, MessageWork, Zenon
  <2> QED
    BY <1>1, <1>4, <2>2, <2>3, <2>4, <2>5, WorkHeads, Zenon
<1>6. ASSUME ~ttDisturbed PROVE LineIs'
  <2>1. ttMain.pc # "prompt"
    BY <1>1, <1>6, Zenon DEF TtyIs, LineIs
  <2>2. CASE ttMain.pc # "halt"
    BY <1>1, <1>6, <2>1, <2>2, Zenon DEF TtyIs, LineIs
  <2>3. CASE ttMain.pc = "halt"
    <3>1. ttHandler \in Prompting \cup {<<">", "unlock">>} /\ ttLine = <<>>
      BY <1>1, <1>5, <1>6, <2>3, Zenon DEF TtyIs, LineIs
    <3>2. CASE ttHandler \in Prompting
      BY <1>1, <1>5, <2>1, <2>3, <3>1, <3>2, Zenon DEF LineIs
    <3>3. CASE ttHandler = <<">", "unlock">>
      <4>1. ~ttLost => ttSink = "tty"
        BY <2>3 DEF TtyIs, SinkIs, TtyPcs
      <4>2. Shows'
        BY <1>1, <1>5, <3>1, <3>3, <4>1, PromptShows, Zenon DEF TtyIs
      <4> QED
        BY <1>1, <1>5, <2>1, <2>3, <3>3, <4>2, Zenon DEF LineIs
    <3> QED
      BY <3>1, <3>2, <3>3, Zenon
  <2> QED
    BY <2>2, <2>3
<1>7. LineIs'
  BY <1>1, <1>6, Zenon DEF LineIs
<1>8. ttHandler' \in Sinking => ttHandler \in Sinking
  <2>1. ASSUME NEW w \in Prompting \cup Locked \cup {<<>>} PROVE w \notin Sinking
    <3>1. /\ <<"a", "nl", "lock", ">", "unlock">> \notin Sinking
          /\ <<"nl", "lock", ">", "unlock">> \notin Sinking
          /\ <<"a", "lock", ">", "unlock">> \notin Sinking
          /\ <<"lock", ">", "unlock">> \notin Sinking
      BY DEF Sinking
    <3>2. /\ <<">", "unlock">> \notin Sinking /\ <<"unlock">> \notin Sinking
          /\ <<"a", "nl", "unlock">> \notin Sinking /\ <<"nl", "unlock">> \notin Sinking
      BY DEF Sinking
    <3> QED
      BY <3>1, <3>2, NoWork, Zenon DEF Prompting, Locked
  <2> QED
    BY <1>5, <2>1, Zenon DEF TtyIs, HandlerIs
<1>9. HandlerIs'
  BY <1>1, <1>5, <1>8, NoWork, Zenon DEF TtyIs, HandlerIs
<1> QED
  BY <1>1, <1>3, <1>5, <1>7, <1>9, Zenon DEF TtyIs, SinkIs, LockIs

LEMMA HandlerLocksText ==
  ASSUME TtyIs, Y!HandlerLocks
  PROVE  TtyIs'
<1>1. /\ ttHandler # <<>> /\ Head(ttHandler) = "lock" /\ ttHandler' = Tail(ttHandler)
      /\ UNCHANGED <<ttMain, ttHook, ttLost, ttSink, ttRow, ttLine, ttDisturbed>>
  BY Zenon DEF Y!HandlerLocks, Y!Handles
<1>2. TextTyped'
  BY <1>1, Zenon DEF TtyIs, TextTyped
<1>3. "lock" # "a" /\ "lock" # "nl" /\ "lock" # ">" /\ "lock" # "unlock" /\ "lock" # "unsink"
  OBVIOUS
<1>4. /\ ttHandler \notin Sinking /\ ttHandler \notin Locked
      /\ ttHandler \in Prompting => ttHandler' = <<">", "unlock">>
      /\ ttHandler' \in Locked
      /\ ttHandler # <<"unlock">> /\ ttHandler # <<">", "unlock">>
  <2>1. ttHandler \notin Sinking
    BY <1>1, <1>3, SinkingWork, Zenon
  <2>2. ttHandler \notin Locked
    BY <1>1, <1>3, LockedWork, Zenon
  <2>3. ttHandler \in Prompting => ttHandler' = <<">", "unlock">>
    BY <1>1, PromptingWork, Zenon
  <2>4. ttHandler \in Message => ttHandler' \in Locked
    BY <1>1, MessageWork, Zenon
  <2>5. <<">", "unlock">> \in Locked /\ <<"unlock">> \in Locked
    BY Zenon DEF Locked
  <2> QED
    BY <2>1, <2>2, <2>3, <2>4, <2>5, Zenon DEF TtyIs, HandlerIs
<1>5. ttHandler' \notin Sinking
  <2>1. /\ <<">", "unlock">> \notin Sinking /\ <<"unlock">> \notin Sinking
        /\ <<"a", "nl", "unlock">> \notin Sinking /\ <<"nl", "unlock">> \notin Sinking
    BY DEF Sinking
  <2> QED
    BY <1>4, <2>1, Zenon DEF Locked
<1>6. LineIs'
  BY <1>1, <1>4, Zenon DEF TtyIs, LineIs, Shows
<1>7. SinkIs'
  BY <1>1, <1>4, Zenon DEF TtyIs, SinkIs
<1> QED
  BY <1>1, <1>2, <1>4, <1>5, <1>6, <1>7, Zenon DEF TtyIs, HandlerIs, LockIs

LEMMA HandlerUnlocksText ==
  ASSUME TtyIs, Y!HandlerUnlocks
  PROVE  TtyIs'
<1>1. /\ ttHandler # <<>> /\ Head(ttHandler) = "unlock" /\ ttHandler' = Tail(ttHandler)
      /\ ttLock' = FALSE
      /\ UNCHANGED <<ttMain, ttHook, ttLost, ttSink, ttRow, ttLine, ttDisturbed>>
  BY Zenon DEF Y!HandlerUnlocks, Y!Handles
<1>2. TextTyped'
  BY <1>1, Zenon DEF TtyIs, TextTyped
<1>3. "unlock" # "a" /\ "unlock" # "nl" /\ "unlock" # ">" /\ "unlock" # "lock"
      /\ "unlock" # "unsink"
  OBVIOUS
<1>4. /\ ttHandler \notin Sinking /\ ttHandler \notin Prompting /\ ttHandler' = <<>>
      /\ ttHandler # <<">", "unlock">>
  <2>1. ttHandler \notin Sinking
    BY <1>1, <1>3, SinkingWork, Zenon
  <2>2. ttHandler \notin Prompting
    BY <1>1, <1>3, PromptingWork, Zenon
  <2>3. ttHandler \in Locked => ttHandler' = <<>>
    BY <1>1, LockedWork, Zenon
  <2>4. ttHandler \notin Message
    BY <1>1, <1>3, MessageWork, Zenon
  <2>5. ttHandler # <<">", "unlock">>
    BY <1>1, <1>3, WorkHeads, Zenon
  <2> QED
    BY <2>1, <2>2, <2>3, <2>4, <2>5, Zenon DEF TtyIs, HandlerIs
<1>5. LineIs'
  BY <1>1, <1>4, Zenon DEF TtyIs, LineIs, Shows
<1>6. SinkIs'
  BY <1>1, <1>4, Zenon DEF TtyIs, SinkIs
<1> QED
  BY <1>1, <1>2, <1>4, <1>5, <1>6, NoWork, Zenon DEF TtyIs, HandlerIs, LockIs

LEMMA HandlerUnsinksText ==
  ASSUME TtyIs, Y!HandlerUnsinks
  PROVE  TtyIs'
<1>1. /\ ttHandler # <<>> /\ Head(ttHandler) = "unsink" /\ ttHandler' = Tail(ttHandler)
      /\ ttLost' = (ttLost \/ ttMain.pc = "hook")
      /\ UNCHANGED <<ttLock, ttMain, ttHook, ttRow, ttLine, ttDisturbed>>
  BY Zenon DEF Y!HandlerUnsinks, Y!Handles
<1>2. TextTyped'
  BY <1>1, Zenon DEF TtyIs, TextTyped
<1>3. "unsink" # "a" /\ "unsink" # "nl" /\ "unsink" # ">" /\ "unsink" # "lock"
      /\ "unsink" # "unlock"
  OBVIOUS
<1>4. /\ ttHandler \in Sinking /\ ttHandler' = <<>> /\ ttHandler \notin Locked
  <2>1. ttHandler \notin Locked
    BY <1>1, <1>3, LockedWork, Zenon
  <2>2. ttHandler \notin Prompting
    BY <1>1, <1>3, PromptingWork, Zenon
  <2>3. ttHandler \notin Message
    BY <1>1, <1>3, MessageWork, Zenon
  <2>4. ttHandler \in Sinking => ttHandler' = <<>>
    BY <1>1, SinkingWork, Zenon
  <2> QED
    BY <2>1, <2>2, <2>3, <2>4, Zenon DEF TtyIs, HandlerIs
<1>5. ttMain.pc \notin TtyPcs /\ ttMain.pc # "prompt" /\ ttMain.pc # "halt"
  <2>1. ttMain.pc \notin TtyPcs
    BY <1>4 DEF TtyIs, HandlerIs
  <2> QED
    BY <2>1 DEF TtyPcs
<1>6. LineIs'
  BY <1>1, <1>5, Zenon DEF TtyIs, LineIs
<1>7. SinkIs'
  BY <1>1, <1>5, Zenon DEF SinkIs
<1> QED
  BY <1>1, <1>2, <1>4, <1>5, <1>6, <1>7, NoWork, Zenon DEF TtyIs, HandlerIs, LockIs

LEMMA TextSteps ==
  ASSUME TtyIs, Y!TextNext
  PROVE  TtyIs'
<1>1. CASE Y!Main
  BY <1>1, GuiEndsText, SetSinkText, SetHookText, LockText, PrintsText, UnlockText, Zenon
     DEF Y!Main
<1>2. CASE Y!Handler
  <2>1. <<"a">> \in Message /\ <<"lock", "a", "nl", "unlock">> \in Message
    BY Zenon DEF Message
  <2> QED
    BY <1>2, <2>1, WindowEnterText, TtyEnterText, OutputText, TtyKeyText, TtyBackspaceText,
       HandlerPutsText, HandlerLocksText, HandlerUnlocksText, HandlerUnsinksText, Zenon
       DEF Y!Handler
<1> QED
  BY <1>1, <1>2, Zenon DEF Y!TextNext

LEMMA TextStep ==
  ASSUME TextInv, [AppsNext]_AllVars
  PROVE  TextInv'
<1>1. CASE part # "text" /\ UNCHANGED part
  BY <1>1, Zenon DEF TextInv
<1>2. CASE part = "text" /\ UNCHANGED <<part, textVars>>
  <2>1. UNCHANGED <<part, ttSink, ttLock, ttMain, ttHandler, ttHook, ttRow, ttLine, ttLost,
                    ttDisturbed>>
    BY <1>2, Zenon DEF textVars
  <2> QED
    BY <2>1, Zenon DEF TextInv, TtyIs, TextTyped, HandlerIs, SinkIs, LockIs, LineIs, Shows
<1>3. CASE part = "text" /\ UNCHANGED part /\ Y!TextNext
  BY <1>3, TextSteps, Zenon DEF TextInv
<1> QED
  BY <1>1, <1>2, <1>3, Zenon DEF AppsNext, AllVars, FileSteps, ScreenSteps

(* Text mode, for any width of screen and room of the line: what is typed  *)
(* is what is shown behind the prompt, and a handler waits for the lock    *)
(* only when it interrupted main's kprintf.                                *)
THEOREM TextModeIsRight == AppsSpec => []TextModeWorks
<1>1. AppsInit => TextInv
  BY TextStart
<1>2. TextInv /\ [AppsNext]_AllVars => TextInv'
  BY TextStep
<1>3. TextInv => TextModeWorks
  BY TextMeans
<1> QED
  BY <1>1, <1>2, <1>3, PTL DEF AppsSpec

LEMMA InPrinted ==
  /\ Term!Visible = VisibleIn(printed) /\ Term!Place = PlaceIn(printed)
  /\ \A i : Term!ColourAt(i) = ColourIn(printed, i)
  /\ \A i : Term!Begins(i) = BeginsIn(printed, i)
<1>1. /\ \A i : Term!Begins(i) = BeginsIn(printed, i)
      /\ \A i : Term!EndOf(i) = EndIn(printed, i)
  BY DEF Term!Begins, BeginsIn, Term!EndOf, EndIn
<1>2. Term!Begun = BegunIn(printed)
  BY <1>1, Zenon DEF Term!Begun, BegunIn
<1>3. Term!Visible = VisibleIn(printed)
  BY <1>1, <1>2, Zenon DEF Term!Visible, VisibleIn
<1>4. ASSUME NEW i PROVE Term!ColourAt(i) = ColourIn(printed, i)
  BY <1>1, <1>2, Zenon DEF Term!ColourAt, ColourIn, AskedIn, BodyIn
<1>5. Term!Place = PlaceIn(printed)
  BY <1>3, Zenon DEF Term!Place, PlaceIn, PlaceFrom
<1> QED
  BY <1>1, <1>3, <1>4, <1>5

(* The sizes of the terminal. *)
LEMMA Sizes == Rows \in Nat \ {0} /\ Cols \in Nat \ {0} /\ EscapeRoom \in Nat
BY AppsAssumption DEF AppsConstants

(* The sequence of places is what its definition says. *)
LEMMA PlaceFromIs ==
  ASSUME NEW n \in Nat, NEW text, Len(text) = n, NEW visible
  PROVE  LET f == PlaceFrom(text, visible) IN
         /\ f \in [0 .. n -> Places]
         /\ f[0] = <<0, 0>>
         /\ \A i \in 1 .. n :
              f[i] = IF i \notin visible THEN f[i - 1] ELSE Onwards(f[i - 1], text[i])
<1> DEFINE Z == Places
           Goto(i, p) == IF i \notin visible THEN p ELSE Onwards(p, text[i])
           Goes(f) == f = [i \in 0 .. n |->
                             IF i = 0 THEN <<0, 0>>
                             ELSE LET p == f[i - 1] IN
                                  IF i \notin visible THEN p
                                  ELSE IF text[i] = "nl" \/ p[2] + 1 = Cols THEN <<p[1] + 1, 0>>
                                  ELSE <<p[1], p[2] + 1>>]
           w == PlaceFrom(text, visible)
           step == [i \in 1 .. n |-> [p \in Z |-> Goto(i, p)]]
<1>1. <<0, 0>> \in Z /\ \A i \in 1 .. n, p \in Z : Goto(i, p) \in Z
  <2>1. <<0, 0>> \in Z
    BY Sizes DEF Places
  <2>2. \A i \in 1 .. n, p \in Z : Onwards(p, text[i]) \in Z
    BY Sizes DEF Places, Onwards
  <2> HIDE DEF Z
  <2> QED
    BY <2>1, <2>2
<1>2. step \in Steps(n, Z)
  BY <1>1 DEF Steps
<1>3. \A i \in 1 .. n, p \in Z : step[i][p] = Goto(i, p)
  OBVIOUS
<1>4. w = CHOOSE f : Goes(f)
  BY DEF PlaceFrom
<1>5. \A f : Goes(f) <=> f = [i \in 0 .. n |-> IF i = 0 THEN <<0, 0>> ELSE Goto(i, f[i - 1])]
  BY DEF Onwards
<1> HIDE DEF step, Z, Goto, Goes, w
<1>6. PICK g : Follows(g, n, Z, <<0, 0>>, step)
  BY <1>1, <1>2, Iterated, Zenon
<1>7. g \in [0 .. n -> Z] /\ g[0] = <<0, 0>> /\ \A i \in 1 .. n : g[i] = step[i][g[i - 1]]
  BY <1>6 DEF Follows
<1>8. \A i \in 1 .. n : g[i] = Goto(i, g[i - 1])
  <2>1. \A i \in 1 .. n : i - 1 \in 0 .. n
    OBVIOUS
  <2> QED
    BY <1>3, <1>7, <2>1
<1>9. Goes(g)
  <2> DEFINE h == [i \in 0 .. n |-> IF i = 0 THEN <<0, 0>> ELSE Goto(i, g[i - 1])]
  <2>1. \A i \in 0 .. n : i # 0 => i \in 1 .. n
    OBVIOUS
  <2>2. \A i \in 0 .. n : g[i] = h[i]
    BY <1>7, <1>8, <2>1
  <2>3. g = h
    BY <1>7, <2>2
  <2> QED
    BY <1>5, <2>3
<1>10. Goes(w)
  BY <1>4, <1>9, Zenon
<1>11. w = [i \in 0 .. n |-> IF i = 0 THEN <<0, 0>> ELSE Goto(i, w[i - 1])]
  BY <1>5, <1>10
<1>12. /\ w[0] = <<0, 0>> /\ \A i \in 1 .. n : w[i] = Goto(i, w[i - 1])
       /\ DOMAIN w = 0 .. n
  <2>1. \A i \in 1 .. n : i \in 0 .. n /\ i # 0
    OBVIOUS
  <2>2. 0 \in 0 .. n
    OBVIOUS
  <2> QED
    BY <1>11, <2>1, <2>2
<1>13. w \in [0 .. n -> Z]
  <2> DEFINE T == {i \in 0 .. n : w[i] \in Z}
  <2>1. 0 \in T
    BY <1>1, <1>12
  <2>2. ASSUME NEW i \in 1 .. n, i - 1 \in T PROVE i \in T
    BY <1>1, <1>12, <2>2
  <2> HIDE DEF T
  <2>3. 0 .. n \subseteq T
    BY <2>1, <2>2, UpTo
  <2>4. \A i \in 0 .. n : w[i] \in Z
    BY <2>3 DEF T
  <2>5. w = [i \in 0 .. n |-> w[i]]
    BY <1>11, <1>12
  <2> QED
    BY <2>4, <2>5
<1> QED
  BY <1>12, <1>13 DEF Goto, Z, w

------------------------------------------------------------------------------
(* What one more character does to the text that the sequences and places  *)
(* are read off.                                                           *)
LEMMA OneMore ==
  ASSUME NEW text \in Seq(Glyphs), NEW c \in Glyphs
  PROVE  LET longer == Append(text, c) IN
         /\ Len(text) \in Nat /\ Len(longer) = Len(text) + 1
         /\ longer \in Seq(Glyphs)
         /\ \A i \in 1 .. Len(text) : longer[i] = text[i] /\ text[i] \in Glyphs
         /\ longer[Len(text) + 1] = c
         /\ DOMAIN text = 1 .. Len(text) /\ DOMAIN longer = 1 .. Len(text) + 1
<1> DEFINE longer == Append(text, c)
<1>1. longer \in Seq(Glyphs) /\ Len(longer) = Len(text) + 1
  BY AppendProperties
<1>2. Len(text) \in Nat /\ DOMAIN text = 1 .. Len(text) /\ DOMAIN longer = 1 .. Len(longer)
  BY <1>1, LenProperties
<1> QED
  BY <1>1, <1>2, AppendProperties, ElementOfSeq

LEMMA EndedMore ==
  ASSUME NEW text \in Seq(Glyphs), NEW c \in Glyphs, NEW i \in 1 .. Len(text)
  PROVE  Ended(Append(text, c), i) <=> Ended(text, i) \/ c \in Letters
<1> DEFINE n == Len(text)
           longer == Append(text, c)
<1>1. /\ n \in Nat /\ Len(longer) = n + 1
      /\ \A k \in 1 .. n : longer[k] = text[k]
      /\ longer[n + 1] = c
  BY OneMore
<1>2. Ended(text, i) <=> \E k \in i + 1 .. n : text[k] \in Letters
  BY DEF Ended
<1>3. Ended(longer, i) <=> \E k \in i + 1 .. n + 1 : longer[k] \in Letters
  BY <1>1 DEF Ended
<1>4. i \in 1 .. n
  OBVIOUS
<1> HIDE DEF n, longer
<1>5. /\ \A k \in i + 1 .. n + 1 : k \in i + 1 .. n \/ k = n + 1
      /\ n + 1 \in i + 1 .. n + 1 /\ i + 1 .. n \subseteq 1 .. n
      /\ i + 1 .. n \subseteq i + 1 .. n + 1
  BY <1>1, <1>4
<1>6. Ended(longer, i) <=> Ended(text, i) \/ c \in Letters
  BY <1>1, <1>2, <1>3, <1>5
<1> QED
  BY <1>6 DEF longer

LEMMA BeginsMore ==
  ASSUME NEW text \in Seq(Glyphs), NEW c \in Glyphs
  PROVE  /\ \A i \in 1 .. Len(text) : BeginsIn(Append(text, c), i) <=> BeginsIn(text, i)
         /\ BeginsIn(Append(text, c), Len(text) + 1) <=> c = "esc" /\ Settled(text)
<1> DEFINE n == Len(text)
           longer == Append(text, c)
<1>1. /\ n \in Nat /\ Len(longer) = n + 1
      /\ \A k \in 1 .. n : longer[k] = text[k]
      /\ longer[n + 1] = c
  BY OneMore
<1>0. Settled(text) <=>
        \A j \in 1 .. n : text[j] = "esc" => \E k \in j + 1 .. n : text[k] \in Letters
  BY DEF Settled, Ended
<1> HIDE DEF n, longer
<1>2. ASSUME NEW i \in 1 .. n PROVE BeginsIn(longer, i) <=> BeginsIn(text, i)
  <2>1. 1 .. i - 1 \subseteq 1 .. n /\ \A j \in 1 .. i - 1 : j + 1 .. i - 1 \subseteq 1 .. n
    BY <1>1
  <2> QED
    BY <1>1, <2>1 DEF BeginsIn
<1>3. BeginsIn(longer, n + 1) <=> c = "esc" /\ Settled(text)
  <2>1. (n + 1) - 1 = n /\ \A j \in 1 .. n : j + 1 .. n \subseteq 1 .. n
    BY <1>1
  <2>2. BeginsIn(longer, n + 1) <=>
          /\ c = "esc"
          /\ \A j \in 1 .. n : longer[j] = "esc" => \E k \in j + 1 .. n : longer[k] \in Letters
    BY <1>1, <2>1 DEF BeginsIn
  <2> QED
    BY <1>0, <1>1, <2>1, <2>2
<1> QED
  BY <1>2, <1>3 DEF n, longer

(* Where a sequence ends. *)
LEMMA EndInIs ==
  ASSUME NEW text \in Seq(Glyphs), NEW i \in 1 .. Len(text)
  PROVE  /\ Ended(text, i) =>
              /\ EndIn(text, i) \in i + 1 .. Len(text) /\ text[EndIn(text, i)] \in Letters
              /\ \A k \in i + 1 .. Len(text) : text[k] \in Letters => EndIn(text, i) <= k
         /\ ~Ended(text, i) => EndIn(text, i) = Len(text)
<1> DEFINE n == Len(text)
           ends == {j \in i + 1 .. n : text[j] \in Letters}
<1>1. n \in Nat
  BY LenProperties
<1>2. EndIn(text, i) = IF ends = {} THEN n ELSE Min(ends)
  BY DEF EndIn, Term!Min, Min
<1>3. Ended(text, i) <=> ends # {}
  BY DEF Ended
<1>4. ends # {} => Min(ends) \in ends /\ \A x \in ends : Min(ends) <= x
  <2>1. ends \subseteq Nat
    BY <1>1
  <2> HIDE DEF ends
  <2> QED
    BY <2>1, MinIs
<1>5. \A j : j \in ends <=> j \in i + 1 .. n /\ text[j] \in Letters
  OBVIOUS
<1> HIDE DEF n, ends
<1>6. CASE Ended(text, i)
  <2>1. EndIn(text, i) = Min(ends) /\ Min(ends) \in ends /\ \A x \in ends : Min(ends) <= x
    BY <1>2, <1>3, <1>4, <1>6
  <2> QED
    BY <1>5, <1>6, <2>1 DEF n
<1>7. CASE ~Ended(text, i)
  BY <1>2, <1>3, <1>7 DEF n
<1> QED
  BY <1>6, <1>7

LEMMA EndMore ==
  ASSUME NEW text \in Seq(Glyphs), NEW c \in Glyphs
  PROVE  /\ \A i \in 1 .. Len(text) :
              EndIn(Append(text, c), i) =
                IF Ended(text, i) THEN EndIn(text, i) ELSE Len(text) + 1
         /\ EndIn(Append(text, c), Len(text) + 1) = Len(text) + 1
<1> DEFINE n == Len(text)
           longer == Append(text, c)
<1>1. /\ n \in Nat /\ Len(longer) = n + 1
      /\ \A k \in 1 .. n : longer[k] = text[k]
      /\ longer[n + 1] = c /\ longer \in Seq(Glyphs)
  BY OneMore
<1>2. ASSUME NEW i \in 1 .. n + 1
      PROVE  /\ Ended(longer, i) =>
                  /\ EndIn(longer, i) \in i + 1 .. n + 1 /\ longer[EndIn(longer, i)] \in Letters
                  /\ \A k \in i + 1 .. n + 1 : longer[k] \in Letters => EndIn(longer, i) <= k
             /\ ~Ended(longer, i) => EndIn(longer, i) = n + 1
  <2> HIDE DEF n, longer
  <2>1. i \in 1 .. Len(longer)
    BY <1>1
  <2> QED
    BY <1>1, <2>1, EndInIs
<1>3. ASSUME NEW i \in 1 .. n
      PROVE  EndIn(longer, i) = IF Ended(text, i) THEN EndIn(text, i) ELSE n + 1
  <2> DEFINE e == EndIn(text, i)
             f == EndIn(longer, i)
  <2>1. Ended(longer, i) <=> Ended(text, i) \/ c \in Letters
    BY EndedMore
  <2>2. /\ Ended(text, i) => e \in i + 1 .. n /\ text[e] \in Letters
                             /\ \A k \in i + 1 .. n : text[k] \in Letters => e <= k
        /\ ~Ended(text, i) => \A k \in i + 1 .. n : text[k] \notin Letters
    BY EndInIs DEF Ended
  <2>3. i \in 1 .. n + 1
    BY <1>1
  <2>4. /\ Ended(longer, i) => f \in i + 1 .. n + 1 /\ longer[f] \in Letters
                               /\ \A k \in i + 1 .. n + 1 : longer[k] \in Letters => f <= k
        /\ ~Ended(longer, i) => f = n + 1
    BY <1>2, <2>3
  <2> HIDE DEF e, f, n, longer
  <2>6. CASE Ended(text, i)
    <3>1. e \in 1 .. n /\ e \in i + 1 .. n + 1 /\ longer[e] \in Letters
      BY <1>1, <1>3, <2>2, <2>6
    <3>2. f <= e /\ f \in i + 1 .. n /\ f \in 1 .. n
      BY <1>1, <1>3, <2>1, <2>4, <2>2, <2>6, <3>1
    <3>3. text[f] \in Letters
      BY <1>1, <2>1, <2>4, <2>6, <3>2
    <3>4. f = e
      BY <1>1, <2>2, <2>6, <3>1, <3>2, <3>3
    <3> QED
      BY <2>6, <3>4 DEF e, f
  <2>7. CASE ~Ended(text, i)
    <3>1. f = n + 1
      <4>1. CASE Ended(longer, i)
        <5>1. f \in i + 1 .. n + 1 /\ longer[f] \in Letters
          BY <2>4, <4>1
        <5>2. ~(f \in i + 1 .. n)
          <6>1. \A k \in i + 1 .. n : k \in 1 .. n
            BY <1>1, <1>3
          <6> QED
            BY <1>1, <2>2, <2>7, <5>1, <6>1
        <5> QED
          BY <1>1, <1>3, <5>1, <5>2
      <4>2. CASE ~Ended(longer, i)
        BY <2>4, <4>2
      <4> QED
        BY <4>1, <4>2
    <3> QED
      BY <2>7, <3>1 DEF e, f
  <2> QED
    BY <2>6, <2>7
<1>4. EndIn(longer, n + 1) = n + 1
  <2>1. n + 1 \in 1 .. n + 1
    BY <1>1
  <2>2. ~Ended(longer, n + 1)
    <3>1. Ended(longer, n + 1) <=> \E k \in (n + 1) + 1 .. n + 1 : longer[k] \in Letters
      BY <1>1 DEF Ended
    <3>2. ~\E k \in (n + 1) + 1 .. n + 1 : TRUE
      BY <1>1
    <3> QED
      BY <3>1, <3>2
  <2> QED
    BY <1>2, <2>1, <2>2
<1> QED
  BY <1>3, <1>4
LEMMA GreatestIs ==
  ASSUME NEW n \in Nat, NEW T, T \subseteq 1 .. n, T # {}
  PROVE  Term!Max(T) \in T /\ \A x \in T : Term!Max(T) >= x
<1> DEFINE back == {n - x : x \in T}
<1>1. back \subseteq Nat /\ back # {}
  <2>1. \A x \in T : n - x \in Nat
    OBVIOUS
  <2>2. PICK x \in T : TRUE
    OBVIOUS
  <2>3. n - x \in back
    OBVIOUS
  <2> QED
    BY <2>1, <2>3, Zenon
<1>2. PICK m \in back : \A y \in back : m <= y
  BY <1>1, Least
<1>3. PICK x \in T : m = n - x
  BY <1>2
<1>4. ASSUME NEW y \in T PROVE x >= y
  <2>1. n - y \in back /\ n - x <= n - y
    BY <1>2, <1>3
  <2>2. x \in 1 .. n /\ y \in 1 .. n
    BY <1>3, <1>4
  <2> QED
    BY <2>1, <2>2
<1> QED
  BY <1>3, <1>4 DEF Term!Max

(* Goto most one sequence is under way: the last that has begun. *)
LEMMA OneUnended ==
  ASSUME NEW text \in Seq(Glyphs), NEW s, Unended(text, s), NEW j \in BegunIn(text), j # s
  PROVE  j < s /\ Ended(text, j)
<1> DEFINE n == Len(text)
<1>1. /\ n \in Nat /\ s \in 1 .. n /\ BeginsIn(text, s) /\ ~Ended(text, s)
      /\ j \in 1 .. n /\ BeginsIn(text, j)
  BY LenProperties DEF Unended, BegunIn
<1>2. CASE j > s
  <2>1. s \in 1 .. j - 1 /\ s + 1 .. j - 1 \subseteq s + 1 .. n
    BY <1>1, <1>2
  <2> QED
    BY <1>1, <2>1 DEF BeginsIn, Ended
<1>3. CASE j < s
  <2>1. j \in 1 .. s - 1 /\ j + 1 .. s - 1 \subseteq j + 1 .. n
    BY <1>1, <1>3
  <2> QED
    BY <1>1, <1>3, <2>1 DEF BeginsIn, Ended
<1>4. j > s \/ j < s
  BY <1>1
<1> QED
  BY <1>2, <1>3, <1>4

LEMMA BegunMore ==
  ASSUME NEW text \in Seq(Glyphs), NEW c \in Glyphs
  PROVE  /\ BegunIn(text) \subseteq 1 .. Len(text)
         /\ BegunIn(Append(text, c)) =
              BegunIn(text) \cup (IF c = "esc" /\ Settled(text) THEN {Len(text) + 1} ELSE {})
<1> DEFINE n == Len(text)
           longer == Append(text, c)
<1>1. n \in Nat /\ DOMAIN text = 1 .. n /\ DOMAIN longer = 1 .. n + 1
  BY OneMore
<1>2. /\ \A i \in 1 .. n : BeginsIn(longer, i) <=> BeginsIn(text, i)
      /\ BeginsIn(longer, n + 1) <=> c = "esc" /\ Settled(text)
  BY BeginsMore
<1> HIDE DEF n, longer
<1>3. \A i : i \in 1 .. n + 1 <=> i \in 1 .. n \/ i = n + 1
  BY <1>1
<1>4. \A i : i \in 1 .. n => i # n + 1
  BY <1>1
<1>5. BegunIn(text) = {i \in 1 .. n : BeginsIn(text, i)}
  BY <1>1 DEF BegunIn
<1>6. BegunIn(longer) = {i \in 1 .. n + 1 : BeginsIn(longer, i)}
  BY <1>1 DEF BegunIn
<1>7. BegunIn(longer) = BegunIn(text) \cup (IF c = "esc" /\ Settled(text) THEN {n + 1} ELSE {})
  BY <1>2, <1>3, <1>4, <1>5, <1>6
<1> QED
  BY <1>5, <1>7 DEF n, longer

LEMMA SettledAll ==
  ASSUME NEW text \in Seq(Glyphs), Settled(text), NEW j \in BegunIn(text)
  PROVE  j \in 1 .. Len(text) /\ Ended(text, j)
BY LenProperties DEF Settled, BegunIn, BeginsIn

(* A character outside sequences is seen. *)
LEMMA VisibleMore ==
  ASSUME NEW text \in Seq(Glyphs), NEW c \in Glyphs, NEW open \in BOOLEAN,
         IF open THEN \E s : Unended(text, s) ELSE Settled(text)
  PROVE  /\ VisibleIn(text) \subseteq 1 .. Len(text)
         /\ VisibleIn(Append(text, c)) =
              VisibleIn(text) \cup (IF ~open /\ c # "esc" THEN {Len(text) + 1} ELSE {})
<1> DEFINE n == Len(text)
           longer == Append(text, c)
<1>1. /\ n \in Nat /\ DOMAIN text = 1 .. n /\ DOMAIN longer = 1 .. n + 1
      /\ \A i \in 1 .. n : longer[i] = text[i] /\ longer[n + 1] = c
  BY OneMore
<1>2. /\ BegunIn(text) \subseteq 1 .. n
      /\ BegunIn(longer) = BegunIn(text) \cup (IF c = "esc" /\ Settled(text) THEN {n + 1} ELSE {})
  BY BegunMore
<1>3. /\ \A i \in 1 .. n :
           EndIn(longer, i) = IF Ended(text, i) THEN EndIn(text, i) ELSE n + 1
      /\ EndIn(longer, n + 1) = n + 1
  BY EndMore
<1>4. \A i \in 1 .. n : /\ Ended(text, i) => EndIn(text, i) \in i + 1 .. n
                        /\ ~Ended(text, i) => EndIn(text, i) = n
  BY EndInIs
<1>5. open => \E s \in BegunIn(text) : ~Ended(text, s)
  BY <1>1 DEF Unended, BegunIn
<1>6. ~open => \A j \in BegunIn(text) : Ended(text, j)
  BY SettledAll
<1>7. open => ~Settled(text)
  BY <1>1, <1>5 DEF Settled, BegunIn, BeginsIn
<1>8. ~open => Settled(text)
  OBVIOUS
<1>9. c = "esc" \/ c \in Drawn \cup {"nl"}
  BY DEF Glyphs
<1>10. "esc" \notin Drawn \cup {"nl"}
  BY AppsAssumption DEF AppsConstants
<1>11. \A i : i \in VisibleIn(text) <=>
         /\ i \in 1 .. n /\ text[i] \in Drawn \cup {"nl"}
         /\ \A j \in BegunIn(text) : i \notin j .. EndIn(text, j)
  BY <1>1 DEF VisibleIn
<1>12. \A i : i \in VisibleIn(longer) <=>
         /\ i \in 1 .. n + 1 /\ longer[i] \in Drawn \cup {"nl"}
         /\ \A j \in BegunIn(longer) : i \notin j .. EndIn(longer, j)
  BY <1>1 DEF VisibleIn
<1> DEFINE seen == Drawn \cup {"nl"}
<1> HIDE DEF n, longer, seen
<1>13. ASSUME NEW i \in 1 .. n PROVE i \in VisibleIn(longer) <=> i \in VisibleIn(text)
  <2>1. i \in 1 .. n + 1 /\ i # n + 1 /\ longer[i] = text[i]
    BY <1>1
  <2>2. ASSUME NEW j \in BegunIn(text)
        PROVE  i \in j .. EndIn(longer, j) <=> i \in j .. EndIn(text, j)
    <3>1. j \in 1 .. n
      BY <1>2
    <3>2. CASE Ended(text, j)
      BY <1>3, <3>1, <3>2
    <3>3. CASE ~Ended(text, j)
      <4>1. EndIn(longer, j) = n + 1 /\ EndIn(text, j) = n
        BY <1>3, <1>4, <3>1, <3>3
      <4> QED
        BY <1>1, <3>1, <4>1
    <3> QED
      BY <3>2, <3>3
  <2>3. i \notin n + 1 .. EndIn(longer, n + 1)
    BY <1>1
  <2>4. (\A j \in BegunIn(longer) : i \notin j .. EndIn(longer, j))
          <=> \A j \in BegunIn(text) : i \notin j .. EndIn(text, j)
    BY <1>2, <2>2, <2>3, Zenon
  <2> QED
    BY <1>11, <1>12, <2>1, <2>4
<1>14. n + 1 \in VisibleIn(longer) <=> ~open /\ c # "esc"
  <2>0. n + 1 \in 1 .. n + 1 /\ longer[n + 1] = c
    <3>1. longer[n + 1] = c
      BY OneMore DEF n, longer
    <3> QED
      BY <1>1, <3>1
  <2>1. CASE open
    <3>1. PICK s \in BegunIn(text) : ~Ended(text, s)
      BY <1>5, <2>1
    <3>2. s \in 1 .. n /\ s \in BegunIn(longer)
      BY <1>2
    <3>3. EndIn(longer, s) = n + 1
      BY <1>3, <3>1, <3>2
    <3>4. n + 1 \in s .. EndIn(longer, s)
      BY <1>1, <3>2, <3>3
    <3> QED
      BY <1>12, <2>1, <3>2, <3>4
  <2>2. CASE ~open /\ c = "esc"
    BY <1>10, <1>12, <2>0, <2>2
  <2>3. CASE ~open /\ c # "esc"
    <3>1. BegunIn(longer) = BegunIn(text)
      BY <1>2, <2>3
    <3>2. ASSUME NEW j \in BegunIn(text) PROVE n + 1 \notin j .. EndIn(longer, j)
      <4>1. j \in 1 .. n /\ Ended(text, j)
        BY <1>2, <1>6, <2>3
      <4>2. EndIn(longer, j) \in j + 1 .. n
        BY <1>3, <1>4, <4>1
      <4> QED
        BY <1>1, <4>1, <4>2
    <3>3. longer[n + 1] \in Drawn \cup {"nl"}
      BY <1>9, <2>0, <2>3
    <3> QED
      BY <1>12, <2>0, <2>3, <3>1, <3>2, <3>3
  <2> QED
    BY <2>1, <2>2, <2>3
<1>15. \A i : i \in VisibleIn(longer) => i \in 1 .. n \/ i = n + 1
  BY <1>1, <1>12
<1>16. VisibleIn(text) \subseteq 1 .. n
  BY <1>11
<1>17. VisibleIn(longer) = VisibleIn(text) \cup (IF ~open /\ c # "esc" THEN {n + 1} ELSE {})
  BY <1>13, <1>14, <1>15, <1>16
<1> QED
  BY <1>16, <1>17 DEF n, longer

(* The places of what was there before stay. *)
LEMMA PlaceMore ==
  ASSUME NEW text \in Seq(Glyphs), NEW c \in Glyphs, NEW open \in BOOLEAN,
         IF open THEN \E s : Unended(text, s) ELSE Settled(text)
  PROVE  LET f == PlaceIn(text)
             g == PlaceIn(Append(text, c))
             n == Len(text)
         IN /\ f \in [0 .. n -> Places] /\ g \in [0 .. n + 1 -> Places]
            /\ \A i \in 0 .. n : g[i] = f[i]
            /\ g[n + 1] = IF ~open /\ c # "esc" THEN Onwards(f[n], c) ELSE f[n]
<1> DEFINE n == Len(text)
           longer == Append(text, c)
           f == PlaceIn(text)
           g == PlaceIn(longer)
           V == VisibleIn(text)
           W == VisibleIn(longer)
<1>1. /\ n \in Nat /\ Len(longer) = n + 1 /\ n + 1 \in Nat
      /\ \A i \in 1 .. n : longer[i] = text[i]
      /\ longer[n + 1] = c
  BY OneMore
<1>2. V \subseteq 1 .. n /\ W = V \cup (IF ~open /\ c # "esc" THEN {n + 1} ELSE {})
  BY VisibleMore
<1>3. /\ f \in [0 .. n -> Places] /\ f[0] = <<0, 0>>
      /\ \A i \in 1 .. n : f[i] = IF i \notin V THEN f[i - 1] ELSE Onwards(f[i - 1], text[i])
  BY <1>1, PlaceFromIs DEF PlaceIn
<1>4. /\ g \in [0 .. n + 1 -> Places] /\ g[0] = <<0, 0>>
      /\ \A i \in 1 .. n + 1 : g[i] = IF i \notin W THEN g[i - 1] ELSE Onwards(g[i - 1], longer[i])
  <2> HIDE DEF n, longer, W
  <2> QED
    BY <1>1, PlaceFromIs DEF PlaceIn, W
<1> DEFINE T == {i \in 0 .. n : g[i] = f[i]}
<1> HIDE DEF n, longer, f, g, V, W
<1>5. 0 \in T
  BY <1>1, <1>3, <1>4
<1>6. ASSUME NEW i \in 1 .. n, i - 1 \in T PROVE i \in T
  <2>1. i \in 1 .. n + 1 /\ i # n + 1 /\ i \in 0 .. n
    BY <1>1
  <2>2. i \in W <=> i \in V
    BY <1>2, <2>1
  <2>3. g[i - 1] = f[i - 1]
    BY <1>6
  <2>4. g[i] = f[i]
    BY <1>1, <1>3, <1>4, <2>1, <2>2, <2>3
  <2> QED
    BY <2>1, <2>4
<1> HIDE DEF T
<1>7. 0 .. n \subseteq T
  BY <1>1, <1>5, <1>6, UpTo
<1>8. \A i \in 0 .. n : g[i] = f[i]
  BY <1>7 DEF T
<1>9. g[n + 1] = IF ~open /\ c # "esc" THEN Onwards(f[n], c) ELSE f[n]
  <2>1. n + 1 \in 1 .. n + 1 /\ (n + 1) - 1 = n /\ n \in 0 .. n /\ n + 1 \notin V
    BY <1>1, <1>2
  <2>2. n + 1 \in W <=> ~open /\ c # "esc"
    BY <1>2, <2>1
  <2>3. g[n + 1] = IF n + 1 \notin W THEN g[n] ELSE Onwards(g[n], c)
    BY <1>1, <1>4, <2>1
  <2> QED
    BY <1>8, <2>1, <2>2, <2>3
<1> QED
  BY <1>3, <1>4, <1>8, <1>9 DEF n, longer, f, g

(* The colour asked for last. *)
LEMMA SameColour ==
  ASSUME NEW text, NEW longer, NEW i, NEW k, NEW n \in Nat,
         AskedIn(text, i) = AskedIn(longer, k), AskedIn(text, i) \subseteq 1 .. n,
         \A j \in AskedIn(text, i) : BodyIn(longer, j) = BodyIn(text, j)
  PROVE  ColourIn(longer, k) = ColourIn(text, i)
<1> DEFINE T == AskedIn(text, i)
<1>1. T # {} => Term!Max(T) \in T
  <2> HIDE DEF T
  <2>1. T \subseteq 1 .. n
    BY DEF T
  <2> QED
    BY <2>1, GreatestIs
<1> QED
  BY <1>1, Zenon DEF ColourIn

(* What asks for a colour ends with a letter, and fits. *)
LEMMA AsksLast ==
  ASSUME NEW body, Term!ColourOf(body) # "same"
  PROVE  /\ body \in Seq(Drawn) /\ Len(body) \in Nat \ {0} /\ Len(body) <= EscapeRoom
         /\ body[Len(body)] \in Letters
         /\ Term!ColourOf(body) \in Hue
<1>1. body \in DOMAIN Colours
  BY Zenon DEF Term!ColourOf
<1>2. /\ body \in Seq(Drawn) \ {<<>>} /\ Len(body) <= EscapeRoom
      /\ Last(body) \in Letters
  BY <1>1, AppsAssumption DEF AppsConstants
<1>3. Len(body) \in Nat \ {0}
  BY <1>2, EmptySeq, LenProperties
<1>4. Term!ColourOf(body) \in Hue
  BY <1>1, Zenon DEF Term!ColourOf, Hue
<1> QED
  BY <1>2, <1>3, <1>4 DEF Last

(* The part of a text that a longer one has as well. *)
LEMMA PartMore ==
  ASSUME NEW text \in Seq(Glyphs), NEW c \in Glyphs, NEW a \in Nat, NEW b \in Nat,
         a >= 1, b <= Len(text)
  PROVE  SubSeq(Append(text, c), a, b) = SubSeq(text, a, b)
  BY PartOfLonger

(* What asks for a colour in a text, and what one more character adds.     *)
LEMMA AskedBefore ==
  ASSUME NEW text \in Seq(Glyphs), NEW c \in Glyphs, NEW i \in 1 .. Len(text) + 1
  PROVE  /\ AskedIn(text, i) \subseteq 1 .. Len(text)
         /\ \A j \in AskedIn(text, i) : Ended(text, j)
         /\ AskedIn(Append(text, c), i) = AskedIn(text, i)
         /\ \A j \in BegunIn(text) :
              Ended(text, j) => BodyIn(Append(text, c), j) = BodyIn(text, j)
<1> DEFINE n == Len(text)
           longer == Append(text, c)
<1>1. n \in Nat /\ i \in 1 .. n + 1
  BY OneMore
<1>2. /\ BegunIn(text) \subseteq 1 .. n
      /\ BegunIn(longer) = BegunIn(text) \cup (IF c = "esc" /\ Settled(text) THEN {n + 1} ELSE {})
  BY BegunMore
<1>3. /\ \A j \in 1 .. n : EndIn(longer, j) = IF Ended(text, j) THEN EndIn(text, j) ELSE n + 1
      /\ EndIn(longer, n + 1) = n + 1
  BY EndMore
<1>4. \A j \in 1 .. n : /\ Ended(text, j) => EndIn(text, j) \in j + 1 .. n
                        /\ ~Ended(text, j) => EndIn(text, j) = n
  BY EndInIs
<1>5. ASSUME NEW j \in 1 .. n, Ended(text, j) PROVE BodyIn(longer, j) = BodyIn(text, j)
  <2>1. EndIn(longer, j) = EndIn(text, j) /\ EndIn(text, j) \in j + 1 .. n
    BY <1>3, <1>4, <1>5
  <2>2. j + 1 \in Nat /\ j + 1 >= 1 /\ EndIn(text, j) \in Nat /\ EndIn(text, j) <= n
    BY <1>1, <2>1
  <2> QED
    BY <2>1, <2>2, PartMore DEF BodyIn
<1>6. ASSUME NEW j \in 1 .. n, ~Ended(text, j) PROVE Term!ColourOf(BodyIn(text, j)) = "same"
  <2> DEFINE body == BodyIn(text, j)
  <2> SUFFICES ASSUME Term!ColourOf(body) # "same" PROVE FALSE
    OBVIOUS
  <2>1. Len(body) \in Nat \ {0} /\ body[Len(body)] \in Letters
    BY AsksLast
  <2>2. body = SubSeq(text, j + 1, n)
    BY <1>4, <1>6 DEF BodyIn
  <2>3. \A k \in j + 1 .. n : text[k] \in Glyphs
    <3>1. \A k \in j + 1 .. n : k \in 1 .. n
      BY <1>1
    <3> QED
      BY <3>1, OneMore
  <2> HIDE DEF body, n
  <2>4. /\ Len(body) = IF j + 1 <= n THEN n - (j + 1) + 1 ELSE 0
        /\ \A k \in 1 .. n - (j + 1) + 1 : body[k] = text[(j + 1) + k - 1]
    <3>1. j + 1 \in Int /\ n \in Int
      BY <1>1
    <3> QED
      BY <2>2, <2>3, <3>1, SubSeqProperties
  <2>5. j + 1 <= n /\ Len(body) = n - j
    BY <1>1, <2>1, <2>4
  <2>6. body[Len(body)] = text[n]
    BY <1>1, <2>4, <2>5
  <2>7. n \in j + 1 .. n
    BY <1>1, <2>5
  <2> QED
    BY <1>6, <2>1, <2>6, <2>7 DEF Ended, n
<1>7. \A j : j \in AskedIn(text, i) <=>
        j \in BegunIn(text) /\ EndIn(text, j) < i /\ Term!ColourOf(BodyIn(text, j)) # "same"
  BY DEF AskedIn
<1>8. \A j : j \in AskedIn(longer, i) <=>
        j \in BegunIn(longer) /\ EndIn(longer, j) < i /\ Term!ColourOf(BodyIn(longer, j)) # "same"
  BY DEF AskedIn
<1> HIDE DEF n, longer
<1>9. \A j \in AskedIn(text, i) : j \in 1 .. n /\ Ended(text, j)
  BY <1>2, <1>6, <1>7
<1>10. ASSUME NEW j \in 1 .. n PROVE j \in AskedIn(longer, i) <=> j \in AskedIn(text, i)
  <2>1. j \in BegunIn(longer) <=> j \in BegunIn(text)
    <3>1. j # n + 1
      BY <1>1
    <3> QED
      BY <1>2, <3>1
  <2>2. CASE Ended(text, j)
    BY <1>3, <1>5, <1>7, <1>8, <2>1, <2>2
  <2>3. CASE ~Ended(text, j)
    <3>1. ~(EndIn(longer, j) < i)
      BY <1>1, <1>3, <2>3
    <3> QED
      BY <1>6, <1>7, <1>8, <2>3, <3>1
  <2> QED
    BY <2>2, <2>3
<1>11. n + 1 \notin AskedIn(longer, i)
  BY <1>1, <1>3, <1>8
<1>12. AskedIn(longer, i) = AskedIn(text, i)
  BY <1>2, <1>8, <1>9, <1>10, <1>11
<1> QED
  BY <1>2, <1>5, <1>9, <1>12 DEF n, longer
(* Outside sequences, and inside one that does not end yet, the colour     *)
(* stays; one that ends sets what it asks for.                             *)
LEMMA ColourSettled ==
  ASSUME NEW text \in Seq(Glyphs), NEW c \in Glyphs, Settled(text)
  PROVE  ColourIn(Append(text, c), Len(text) + 2) = ColourIn(text, Len(text) + 1)
<1> DEFINE n == Len(text)
           longer == Append(text, c)
<1>1. n \in Nat
  BY OneMore
<1>2. /\ BegunIn(text) \subseteq 1 .. n
      /\ BegunIn(longer) = BegunIn(text) \cup (IF c = "esc" /\ Settled(text) THEN {n + 1} ELSE {})
  BY BegunMore
<1>3. /\ \A j \in 1 .. n : EndIn(longer, j) = IF Ended(text, j) THEN EndIn(text, j) ELSE n + 1
      /\ EndIn(longer, n + 1) = n + 1
  BY EndMore
<1>4. \A j \in BegunIn(text) : Ended(text, j) /\ EndIn(text, j) \in j + 1 .. n
  BY SettledAll, EndInIs
<1>5. /\ AskedIn(text, n + 1) \subseteq 1 .. n
      /\ \A j \in BegunIn(text) : Ended(text, j) => BodyIn(longer, j) = BodyIn(text, j)
  <2>1. n + 1 \in 1 .. n + 1
    BY <1>1
  <2> QED
    BY <2>1, AskedBefore
<1>6. \A j : j \in AskedIn(text, n + 1) <=>
        j \in BegunIn(text) /\ EndIn(text, j) < n + 1 /\ Term!ColourOf(BodyIn(text, j)) # "same"
  BY DEF AskedIn
<1>7. \A j : j \in AskedIn(longer, n + 2) <=>
        /\ j \in BegunIn(longer) /\ EndIn(longer, j) < n + 2
        /\ Term!ColourOf(BodyIn(longer, j)) # "same"
  BY DEF AskedIn
<1>8. Term!ColourOf(BodyIn(longer, n + 1)) = "same"
  <2> DEFINE body == BodyIn(longer, n + 1)
  <2> SUFFICES ASSUME Term!ColourOf(body) # "same" PROVE FALSE
    OBVIOUS
  <2>1. Len(body) \in Nat \ {0}
    BY AsksLast
  <2>2. body = SubSeq(longer, (n + 1) + 1, n + 1)
    BY <1>3 DEF BodyIn
  <2> HIDE DEF n, longer, body
  <2>3. Len(body) = 0
    <3>1. /\ (n + 1) + 1 \in Int /\ n + 1 \in Int /\ ~((n + 1) + 1 <= n + 1)
          /\ \A k \in (n + 1) + 1 .. n + 1 : longer[k] \in Glyphs
      BY <1>1
    <3> QED
      BY <2>2, <3>1, SubSeqProperties
  <2> QED
    BY <2>1, <2>3
<1> HIDE DEF n, longer
<1>9. \A j \in BegunIn(text) : j \in AskedIn(longer, n + 2) <=> j \in AskedIn(text, n + 1)
  <2> SUFFICES ASSUME NEW j \in BegunIn(text)
               PROVE  j \in AskedIn(longer, n + 2) <=> j \in AskedIn(text, n + 1)
    OBVIOUS
  <2>1. EndIn(longer, j) = EndIn(text, j) /\ EndIn(text, j) < n + 1 /\ EndIn(text, j) < n + 2
    BY <1>1, <1>2, <1>3, <1>4
  <2>2. BodyIn(longer, j) = BodyIn(text, j)
    BY <1>4, <1>5
  <2> QED
    BY <1>2, <1>6, <1>7, <2>1, <2>2
<1>10. AskedIn(text, n + 1) = AskedIn(longer, n + 2)
  BY <1>2, <1>6, <1>7, <1>8, <1>9
<1>11. \A j \in AskedIn(text, n + 1) : BodyIn(longer, j) = BodyIn(text, j)
  BY <1>4, <1>5, <1>6
<1>12. ColourIn(longer, n + 2) = ColourIn(text, n + 1)
  BY <1>1, <1>5, <1>10, <1>11, SameColour
<1> QED
  BY <1>12 DEF n, longer

LEMMA BodyNow ==
  ASSUME NEW text \in Seq(Glyphs), NEW c \in Glyphs, NEW s \in 1 .. Len(text)
  PROVE  LET body == Append(SubSeq(text, s + 1, Len(text)), c) IN
         /\ body = SubSeq(Append(text, c), s + 1, Len(text) + 1)
         /\ Len(body) = Len(text) + 1 - s /\ body[Len(body)] = c
         /\ SubSeq(text, s + 1, Len(text)) \in Seq(Glyphs)
         /\ Len(SubSeq(text, s + 1, Len(text))) = Len(text) - s
<1> DEFINE n == Len(text)
           longer == Append(text, c)
           u == SubSeq(text, s + 1, n)
           v == SubSeq(longer, s + 1, n + 1)
           body == Append(u, c)
<1>1. /\ n \in Nat /\ s \in 1 .. n
      /\ \A i \in 1 .. n : longer[i] = text[i] /\ text[i] \in Glyphs
      /\ longer[n + 1] = c
  BY OneMore
<1> HIDE DEF n, longer
<1>2. \A k \in s + 1 .. n : k \in 1 .. n /\ text[k] \in Glyphs
  BY <1>1
<1>3. \A k \in s + 1 .. n + 1 : longer[k] \in Glyphs
  <2>1. \A k \in s + 1 .. n + 1 : k \in 1 .. n \/ k = n + 1
    BY <1>1
  <2> QED
    BY <1>1, <2>1
<1>4. /\ u \in Seq(Glyphs) /\ Len(u) = n - s
      /\ \A i \in 1 .. n - s : u[i] = text[s + i]
  <2>1. /\ u \in Seq(Glyphs) /\ Len(u) = IF s + 1 <= n THEN n - (s + 1) + 1 ELSE 0
        /\ \A i \in 1 .. n - (s + 1) + 1 : u[i] = text[(s + 1) + i - 1]
    <3>1. s + 1 \in Int /\ n \in Int
      BY <1>1
    <3> QED
      BY <1>2, <3>1, SubSeqProperties
  <2> HIDE DEF u
  <2>2. n - (s + 1) + 1 = n - s /\ \A i \in 1 .. n - s : (s + 1) + i - 1 = s + i
    BY <1>1
  <2>3. Len(u) = n - s
    BY <1>1, <2>1
  <2> QED
    BY <2>1, <2>2, <2>3
<1>5. /\ v \in Seq(Glyphs) /\ Len(v) = n + 1 - s
      /\ \A i \in 1 .. n + 1 - s : v[i] = longer[s + i]
  <2>1. /\ v \in Seq(Glyphs) /\ Len(v) = IF s + 1 <= n + 1 THEN (n + 1) - (s + 1) + 1 ELSE 0
        /\ \A i \in 1 .. (n + 1) - (s + 1) + 1 : v[i] = longer[(s + 1) + i - 1]
    <3>1. s + 1 \in Int /\ n + 1 \in Int
      BY <1>1
    <3> QED
      BY <1>3, <3>1, SubSeqProperties
  <2> HIDE DEF v
  <2>2. /\ (n + 1) - (s + 1) + 1 = n + 1 - s
        /\ \A i \in 1 .. n + 1 - s : (s + 1) + i - 1 = s + i
    BY <1>1
  <2>3. Len(v) = n + 1 - s
    BY <1>1, <2>1
  <2> QED
    BY <2>1, <2>2, <2>3
<1> HIDE DEF u, v
<1>6. /\ body \in Seq(Glyphs) /\ Len(body) = n + 1 - s /\ body[n + 1 - s] = c
      /\ \A i \in 1 .. n - s : body[i] = u[i]
  <2>1. /\ body \in Seq(Glyphs) /\ Len(body) = Len(u) + 1
        /\ \A i \in 1 .. Len(u) : body[i] = u[i]
        /\ body[Len(u) + 1] = c
    <3>1. u \in Seq(Glyphs)
      BY <1>4
    <3> QED
      BY <3>1, AppendProperties, SMTT(30)
  <2>2. Len(u) + 1 = n + 1 - s
    BY <1>1, <1>4
  <2> QED
    BY <1>4, <2>1, <2>2
<1> HIDE DEF body
<1>7. \A i \in 1 .. n + 1 - s : body[i] = v[i]
  <2> SUFFICES ASSUME NEW i \in 1 .. n + 1 - s PROVE body[i] = v[i]
    OBVIOUS
  <2>1. CASE i \in 1 .. n - s
    <3>1. s + i \in 1 .. n
      BY <1>1, <2>1
    <3> QED
      BY <1>1, <1>4, <1>5, <1>6, <2>1, <3>1
  <2>2. CASE i = n + 1 - s
    <3>1. s + i = n + 1
      BY <1>1, <2>2
    <3> QED
      BY <1>1, <1>5, <1>6, <2>2, <3>1
  <2> QED
    BY <1>1, <2>1, <2>2
<1>8. body = v
  BY <1>5, <1>6, <1>7, SeqEqual
<1> QED
  BY <1>4, <1>6, <1>8 DEF n, longer, u, v, body

LEMMA ColourUnended ==
  ASSUME NEW text \in Seq(Glyphs), NEW c \in Glyphs, NEW s, Unended(text, s)
  PROVE  ColourIn(Append(text, c), Len(text) + 2) =
           IF Asks(text, s, c) = "same" THEN ColourIn(text, Len(text) + 1) ELSE Asks(text, s, c)
<1> DEFINE n == Len(text)
           longer == Append(text, c)
           old == AskedIn(text, n + 1)
           now == AskedIn(longer, n + 2)
           body == Append(SubSeq(text, s + 1, n), c)
<1>1. n \in Nat /\ s \in 1 .. n /\ s \in BegunIn(text) /\ ~Ended(text, s)
  BY OneMore DEF Unended, BegunIn
<1>2. BegunIn(text) \subseteq 1 .. n /\ BegunIn(longer) = BegunIn(text)
  <2>1. ~Settled(text)
    BY <1>1 DEF Settled, BegunIn, BeginsIn
  <2> QED
    BY <2>1, BegunMore
<1>3. \A j \in 1 .. n : EndIn(longer, j) = IF Ended(text, j) THEN EndIn(text, j) ELSE n + 1
  BY EndMore
<1>4. \A j \in 1 .. n : Ended(text, j) => EndIn(text, j) \in j + 1 .. n
  BY EndInIs
<1>5. /\ old \subseteq 1 .. n
      /\ \A j \in old : Ended(text, j)
      /\ \A j \in BegunIn(text) : Ended(text, j) => BodyIn(longer, j) = BodyIn(text, j)
  <2>1. n + 1 \in 1 .. n + 1
    BY <1>1
  <2> QED
    BY <2>1, AskedBefore
<1>6. \A j : j \in old <=>
        j \in BegunIn(text) /\ EndIn(text, j) < n + 1 /\ Term!ColourOf(BodyIn(text, j)) # "same"
  BY DEF AskedIn
<1>7. \A j : j \in now <=>
        /\ j \in BegunIn(longer) /\ EndIn(longer, j) < n + 2
        /\ Term!ColourOf(BodyIn(longer, j)) # "same"
  BY DEF AskedIn
<1>8. BodyIn(longer, s) = body /\ Asks(text, s, c) = Term!ColourOf(body)
  <2>1. EndIn(longer, s) = n + 1
    BY <1>1, <1>3
  <2> QED
    BY <1>1, <2>1, BodyNow DEF BodyIn, Asks
<1>9. \A j \in BegunIn(text) : j # s => j < s /\ Ended(text, j)
  BY OneUnended
<1> HIDE DEF n, longer, old, now, body
<1>10. ASSUME NEW j \in BegunIn(text), j # s PROVE j \in now <=> j \in old
  <2>1. EndIn(longer, j) = EndIn(text, j) /\ EndIn(text, j) < n + 1 /\ EndIn(text, j) < n + 2
    BY <1>1, <1>2, <1>3, <1>4, <1>9, <1>10
  <2>2. BodyIn(longer, j) = BodyIn(text, j)
    BY <1>5, <1>9, <1>10
  <2> QED
    BY <1>2, <1>6, <1>7, <2>1, <2>2
<1>11. s \notin old
  BY <1>1, <1>5
<1>12. s \in now <=> Asks(text, s, c) # "same"
  <2>1. EndIn(longer, s) < n + 2
    BY <1>1, <1>3
  <2> QED
    BY <1>1, <1>2, <1>7, <1>8, <2>1
<1>13. \A j \in old : j \in BegunIn(text) /\ BodyIn(longer, j) = BodyIn(text, j)
  BY <1>5, <1>6
<1>14. CASE Asks(text, s, c) = "same"
  <2>1. old = now
    BY <1>2, <1>6, <1>7, <1>10, <1>11, <1>12, <1>14
  <2>2. ColourIn(longer, n + 2) = ColourIn(text, n + 1)
    BY <1>1, <1>5, <1>13, <2>1, SameColour DEF old, now
  <2> QED
    BY <1>14, <2>2 DEF n, longer
<1>15. CASE Asks(text, s, c) # "same"
  <2>1. now = old \cup {s}
    BY <1>2, <1>6, <1>7, <1>10, <1>11, <1>12, <1>15
  <2>2. now \subseteq 1 .. n /\ now # {} /\ s \in now
    BY <1>1, <1>5, <2>1
  <2>3. Term!Max(now) \in now /\ Term!Max(now) >= s
    BY <1>1, <2>2, GreatestIs
  <2>4. Term!Max(now) = s
    <3>1. \A j \in now : j = s \/ j < s
      BY <1>9, <1>13, <2>1
    <3>2. Term!Max(now) = s \/ Term!Max(now) < s
      BY <2>3, <3>1, Zenon
    <3>3. Term!Max(now) \in 1 .. n
      BY <2>2, <2>3, Zenon
    <3> QED
      BY <1>1, <2>3, <3>2, <3>3
  <2>5. ColourIn(longer, n + 2) = Term!ColourOf(BodyIn(longer, s))
    BY <2>2, <2>4 DEF ColourIn, now
  <2> QED
    BY <1>8, <1>15, <2>5 DEF n, longer
<1> QED
  BY <1>14, <1>15
(* What escape_buf keeps of a sequence serves as well as all of it. *)
LEMMA KeptServes ==
  ASSUME NEW text \in Seq(Glyphs), NEW c \in Glyphs, NEW s, Unended(text, s)
  PROVE  LET buf == KeptOf(text, s)
             collected == IF Len(buf) < EscapeRoom THEN Append(buf, c) ELSE buf
         IN /\ collected \in Seq(Glyphs)
            /\ Term!ColourOf(collected) = Asks(text, s, c)
            /\ collected = KeptOf(Append(text, c), s)
<1> DEFINE n == Len(text)
           longer == Append(text, c)
           buf == KeptOf(text, s)
           collected == IF Len(buf) < EscapeRoom THEN Append(buf, c) ELSE buf
           all == SubSeq(text, s + 1, n)
<1>1. /\ n \in Nat /\ s \in 1 .. n /\ ~Ended(text, s) /\ Len(longer) = n + 1
      /\ EscapeRoom \in Nat
  BY OneMore, AppsAssumption DEF AppsConstants, Unended
<1>2. /\ Append(all, c) = SubSeq(longer, s + 1, n + 1)
      /\ Len(Append(all, c)) = n + 1 - s
      /\ all \in Seq(Glyphs) /\ Len(all) = n - s
  BY <1>1, BodyNow
<1>3. buf = SubSeq(text, s + 1, IF s + EscapeRoom <= n THEN s + EscapeRoom ELSE n)
  BY DEF KeptOf
<1>4. KeptOf(longer, s) =
        SubSeq(longer, s + 1, IF s + EscapeRoom <= n + 1 THEN s + EscapeRoom ELSE n + 1)
  BY <1>1 DEF KeptOf
<1>5. Asks(text, s, c) = Term!ColourOf(Append(all, c))
  BY DEF Asks
<1>6. CASE ~(s + EscapeRoom <= n)
  <2>1. buf = all /\ Len(buf) < EscapeRoom
    <3> HIDE DEF n, all, buf
    <3>1. buf = SubSeq(text, s + 1, n)
      BY <1>3, <1>6
    <3>2. buf = all
      BY <3>1 DEF all
    <3> QED
      BY <1>1, <1>2, <1>6, <3>2
  <2>2. collected = Append(all, c)
    BY <2>1
  <2>3. KeptOf(longer, s) = SubSeq(longer, s + 1, n + 1)
    <3> HIDE DEF n, longer
    <3>1. s + EscapeRoom <= n + 1 => s + EscapeRoom = n + 1
      BY <1>1, <1>6
    <3> QED
      BY <1>4, <3>1
  <2>4. Append(all, c) \in Seq(Glyphs)
    BY <1>2, AppendProperties
  <2> QED
    BY <1>2, <1>5, <2>2, <2>3, <2>4
<1>7. CASE s + EscapeRoom <= n
  <2> DEFINE e == s + EscapeRoom
  <2>1. e \in Nat /\ s + 1 \in Nat /\ s + 1 >= 1 /\ e <= n /\ e <= n + 1
    BY <1>1, <1>7
  <2>2. buf = SubSeq(text, s + 1, e) /\ KeptOf(longer, s) = SubSeq(longer, s + 1, e)
    BY <1>3, <1>4, <1>7, <2>1
  <2>3. KeptOf(longer, s) = buf
    BY <2>1, <2>2, PartMore
  <2>4. \A k \in s + 1 .. e : text[k] \in Glyphs
    <3>1. \A k \in s + 1 .. e : k \in 1 .. n
      BY <1>1, <2>1
    <3> QED
      BY <3>1, OneMore
  <2> HIDE DEF n, longer, buf, all
  <2>5. /\ buf \in Seq(Glyphs) /\ Len(buf) = EscapeRoom
        /\ \A k \in 1 .. EscapeRoom : buf[k] = text[s + k]
    <3>1. /\ buf \in Seq(Glyphs) /\ Len(buf) = IF s + 1 <= e THEN e - (s + 1) + 1 ELSE 0
          /\ \A k \in 1 .. e - (s + 1) + 1 : buf[k] = text[(s + 1) + k - 1]
      <4>1. s + 1 \in Int /\ e \in Int
        BY <1>1
      <4> QED
        BY <2>2, <2>4, <4>1, SubSeqProperties
    <3>2. /\ e - (s + 1) + 1 = EscapeRoom
          /\ \A k \in 1 .. EscapeRoom : (s + 1) + k - 1 = s + k
      BY <1>1
    <3>3. Len(buf) = EscapeRoom
      BY <1>1, <3>1
    <3> QED
      BY <3>1, <3>2, <3>3
  <2>6. collected = buf
    BY <1>1, <2>5
  <2>7. Term!ColourOf(buf) = "same"
    <3> SUFFICES ASSUME Term!ColourOf(buf) # "same" PROVE FALSE
      OBVIOUS
    <3>1. Len(buf) \in Nat \ {0} /\ buf[Len(buf)] \in Letters
      BY AsksLast
    <3>2. EscapeRoom \in 1 .. EscapeRoom /\ text[e] \in Letters
      BY <1>1, <2>5, <3>1
    <3>3. e \in s + 1 .. n
      BY <1>1, <2>1, <3>2
    <3> QED
      BY <1>1, <3>2, <3>3 DEF Ended, n
  <2>8. Term!ColourOf(Append(all, c)) = "same"
    <3> SUFFICES ASSUME Term!ColourOf(Append(all, c)) # "same" PROVE FALSE
      OBVIOUS
    <3>1. Len(Append(all, c)) <= EscapeRoom
      BY AsksLast
    <3> QED
      BY <1>1, <1>2, <2>1, <3>1
  <2> QED
    BY <1>5, <2>3, <2>5, <2>6, <2>7, <2>8 DEF n, longer, buf, all
<1> QED
  BY <1>6, <1>7

(* Whether a sequence is under way, after one more character. *)
LEMMA UnendedMore ==
  ASSUME NEW text \in Seq(Glyphs), NEW c \in Glyphs
  PROVE  LET longer == Append(text, c)
             n == Len(text)
         IN /\ \A s : Unended(text, s) /\ c \notin Letters => Unended(longer, s)
            /\ (\E s : Unended(text, s)) /\ c \in Letters => Settled(longer)
            /\ Settled(text) /\ c # "esc" => Settled(longer)
            /\ Settled(text) /\ c = "esc" =>
                 Unended(longer, n + 1) /\ KeptOf(longer, n + 1) = <<>>
<1> DEFINE n == Len(text)
           longer == Append(text, c)
<1>1. /\ n \in Nat /\ Len(longer) = n + 1
      /\ \A i \in 1 .. n : longer[i] = text[i]
      /\ longer[n + 1] = c
  BY OneMore
<1>2. \A i \in 1 .. n : Ended(longer, i) <=> Ended(text, i) \/ c \in Letters
  BY EndedMore
<1>3. /\ \A i \in 1 .. n : BeginsIn(longer, i) <=> BeginsIn(text, i)
      /\ BeginsIn(longer, n + 1) <=> c = "esc" /\ Settled(text)
  BY BeginsMore
<1>4. \A s : Unended(text, s) <=> s \in 1 .. n /\ BeginsIn(text, s) /\ ~Ended(text, s)
  BY DEF Unended
<1>5. Settled(text) <=> \A j \in 1 .. n : text[j] = "esc" => Ended(text, j)
  BY DEF Settled
<1>6. "esc" \notin Letters
  BY AppsAssumption DEF AppsConstants
<1> HIDE DEF n, longer
<1>7. \A j : j \in 1 .. n + 1 <=> j \in 1 .. n \/ j = n + 1
  BY <1>1
<1>8. Settled(longer) <=> \A j \in 1 .. n + 1 : longer[j] = "esc" => Ended(longer, j)
  BY <1>1 DEF Settled
<1>9. \A s : Unended(longer, s) <=> s \in 1 .. n + 1 /\ BeginsIn(longer, s) /\ ~Ended(longer, s)
  BY <1>1 DEF Unended
<1>10. \A s : Unended(text, s) /\ c \notin Letters => Unended(longer, s)
  BY <1>2, <1>3, <1>4, <1>7, <1>9
<1>11. c \in Letters => Settled(longer)
  BY <1>1, <1>2, <1>6, <1>7, <1>8
<1>12. Settled(text) /\ c # "esc" => Settled(longer)
  BY <1>1, <1>2, <1>5, <1>7, <1>8
<1>13. ASSUME Settled(text), c = "esc"
       PROVE  Unended(longer, n + 1) /\ KeptOf(longer, n + 1) = <<>>
  <2>1. ~Ended(longer, n + 1)
    <3>1. Ended(longer, n + 1) <=> \E k \in (n + 1) + 1 .. n + 1 : longer[k] \in Letters
      BY <1>1 DEF Ended
    <3>2. ~\E k \in (n + 1) + 1 .. n + 1 : TRUE
      BY <1>1
    <3> QED
      BY <3>1, <3>2
  <2>2. Unended(longer, n + 1)
    BY <1>3, <1>7, <1>9, <1>13, <2>1
  <2>3. KeptOf(longer, n + 1) = SubSeq(longer, (n + 1) + 1, n + 1)
    <3>1. (n + 1) + EscapeRoom <= n + 1 => (n + 1) + EscapeRoom = n + 1
      BY <1>1, AppsAssumption DEF AppsConstants
    <3> QED
      BY <1>1, <3>1 DEF KeptOf
  <2>4. (n + 1) + 1 \in Int /\ n + 1 \in Int /\ n + 1 < (n + 1) + 1
    BY <1>1
  <2> QED
    BY <2>2, <2>3, <2>4, SubSeqEmpty
<1> QED
  BY <1>10, <1>11, <1>12, <1>13 DEF n, longer

LEMMA TailIn == Term!ScreenIsTail <=> TailIs(printed, screen, row, col)
<1> DEFINE place == PlaceIn(printed)
           last == place[Len(printed)]
           gone == IF last[1] >= Rows THEN last[1] - (Rows - 1) ELSE 0
           drawn == {i \in VisibleIn(printed) : printed[i] # "nl"}
           here(r, k) == {i \in drawn : place[i - 1] = <<gone + r - 1, k - 1>>}
<1>1. Term!ScreenIsTail <=>
        /\ <<row + gone, col>> = last
        /\ \A r \in 1 .. Rows, k \in 1 .. Cols :
             \/ here(r, k) = {} /\ screen[r][k] = Term!Blank
             \/ \E i \in here(r, k) : here(r, k) = {i} /\ screen[r][k] = Seen(printed, i)
  <2> DEFINE lastT == Term!Place[Len(printed)]
             goneT == IF lastT[1] >= Rows THEN lastT[1] - (Rows - 1) ELSE 0
             drawnT == {i \in Term!Visible : printed[i] # "nl"}
             hereT(r, k) == {i \in drawnT : Term!Place[i - 1] = <<goneT + r - 1, k - 1>>}
  <2>1. Term!ScreenIsTail <=>
          /\ <<row + goneT, col>> = lastT
          /\ \A r \in 1 .. Rows, k \in 1 .. Cols :
               \/ hereT(r, k) = {} /\ screen[r][k] = Term!Blank
               \/ \E i \in hereT(r, k) :
                    /\ hereT(r, k) = {i}
                    /\ screen[r][k] = [char |-> printed[i], colour |-> Term!ColourAt(i)]
    BY Zenon DEF Term!ScreenIsTail
  <2>2. lastT = last /\ goneT = gone /\ drawnT = drawn
    BY InPrinted, Zenon
  <2>3. ASSUME NEW r, NEW k PROVE hereT(r, k) = here(r, k)
    BY <2>2, InPrinted, Zenon
  <2>4. \A i : Seen(printed, i) = [char |-> printed[i], colour |-> Term!ColourAt(i)]
    BY InPrinted DEF Seen
  <2> HIDE DEF lastT, goneT, drawnT, hereT, last, gone, drawn, here
  <2> QED
    BY <2>1, <2>2, <2>3, <2>4, Zenon
<1>2. ASSUME NEW r, NEW k PROVE here(r, k) = HereIn(printed, gone + r - 1, k - 1)
  BY Zenon DEF HereIn
<1>3. gone = GoneBy(last[1])
  BY Zenon DEF GoneBy
<1> HIDE DEF here, drawn, gone, last
<1>4. ShownAt(printed, screen, gone) <=>
        \A r \in 1 .. Rows, k \in 1 .. Cols :
          \/ here(r, k) = {} /\ screen[r][k] = Term!Blank
          \/ \E i \in here(r, k) : here(r, k) = {i} /\ screen[r][k] = Seen(printed, i)
  BY <1>2, Zenon DEF ShownAt, CellIs
<1> QED
  BY <1>1, <1>3, <1>4, Zenon DEF TailIs, last, place

(* What one more character adds to the places and the cells. *)
LEMMA ColourBefore ==
  ASSUME NEW text \in Seq(Glyphs), NEW c \in Glyphs, NEW i \in 1 .. Len(text) + 1
  PROVE  ColourIn(Append(text, c), i) = ColourIn(text, i)
<1>1. /\ AskedIn(text, i) \subseteq 1 .. Len(text)
      /\ AskedIn(Append(text, c), i) = AskedIn(text, i)
      /\ \A j \in AskedIn(text, i) : Ended(text, j)
      /\ \A j \in BegunIn(text) : Ended(text, j) => BodyIn(Append(text, c), j) = BodyIn(text, j)
  BY AskedBefore
<1>2. \A j \in AskedIn(text, i) : j \in BegunIn(text)
  BY DEF AskedIn
<1>3. \A j \in AskedIn(text, i) : BodyIn(Append(text, c), j) = BodyIn(text, j)
  BY <1>1, <1>2
<1>4. Len(text) \in Nat
  BY LenProperties
<1> QED
  BY <1>1, <1>3, <1>4, SameColour

LEMMA OnwardsAhead ==
  ASSUME NEW p \in Places, NEW c
  PROVE  Onwards(p, c) \in Places /\ Ahead(p, Onwards(p, c))
BY AppsAssumption DEF AppsConstants, Places, Onwards, Ahead

LEMMA AheadFollows ==
  ASSUME NEW p \in Places, NEW q \in Places, NEW r \in Places, Ahead(p, q),
         q = r \/ Ahead(q, r)
  PROVE  Ahead(p, r) /\ p # r /\ p[1] <= r[1]
BY DEF Places, Ahead

LEMMA PlacesGrowMore ==
  ASSUME NEW text \in Seq(Glyphs), NEW c \in Glyphs, NEW open \in BOOLEAN,
         IF open THEN \E s : Unended(text, s) ELSE Settled(text),
         PlacesGrow(text)
  PROVE  PlacesGrow(Append(text, c))
<1> DEFINE n == Len(text)
           longer == Append(text, c)
           f == PlaceIn(text)
           g == PlaceIn(longer)
           V == VisibleIn(text)
           W == VisibleIn(longer)
           new == ~open /\ c # "esc"
<1>1. n \in Nat /\ Len(longer) = n + 1
  BY OneMore
<1>2. V \subseteq 1 .. n /\ W = V \cup (IF new THEN {n + 1} ELSE {})
  BY VisibleMore
<1>3. /\ f \in [0 .. n -> Places] /\ g \in [0 .. n + 1 -> Places]
      /\ \A i \in 0 .. n : g[i] = f[i]
      /\ g[n + 1] = IF new THEN Onwards(f[n], c) ELSE f[n]
  BY PlaceMore
<1>4. /\ \A i \in V : Ahead(f[i - 1], f[n])
      /\ \A i, j \in V : f[i - 1] = f[j - 1] => i = j
  BY DEF PlacesGrow
<1>5. PlacesGrow(longer) <=> /\ \A i \in W : Ahead(g[i - 1], g[n + 1])
                             /\ \A i, j \in W : g[i - 1] = g[j - 1] => i = j
  BY <1>1 DEF PlacesGrow
<1> HIDE DEF n, longer, f, g, V, W, new
<1>6. /\ \A i \in V : i \in 1 .. n /\ i - 1 \in 0 .. n /\ f[i - 1] \in Places
      /\ n \in 0 .. n /\ f[n] \in Places /\ g[n] = f[n]
  BY <1>1, <1>2, <1>3
<1>7. \A i \in V : g[i - 1] = f[i - 1]
  BY <1>3, <1>6
<1>8. g[n + 1] \in Places /\ (g[n + 1] = f[n] \/ Ahead(f[n], g[n + 1]))
      /\ (new => Ahead(f[n], g[n + 1]))
  BY <1>3, <1>6, OnwardsAhead
<1>9. \A i \in V : Ahead(g[i - 1], g[n + 1]) /\ g[i - 1] # f[n]
  <2> SUFFICES ASSUME NEW i \in V PROVE Ahead(g[i - 1], g[n + 1]) /\ g[i - 1] # f[n]
    OBVIOUS
  <2>1. f[i - 1] \in Places /\ Ahead(f[i - 1], f[n]) /\ g[i - 1] = f[i - 1]
    BY <1>4, <1>6, <1>7
  <2>2. Ahead(f[i - 1], g[n + 1])
    BY <1>6, <1>8, <2>1, AheadFollows
  <2>3. f[i - 1] # f[n]
    BY <1>6, <2>1, AheadFollows
  <2> QED
    BY <2>1, <2>2, <2>3
<1>10. (n + 1) - 1 = n /\ n + 1 \notin V
  BY <1>1, <1>2
<1>11. \A i \in W : i \in V \/ (i = n + 1 /\ new)
  BY <1>2
<1>12. \A i \in W : Ahead(g[i - 1], g[n + 1])
  BY <1>6, <1>8, <1>9, <1>10, <1>11
<1>13. \A i, j \in W : g[i - 1] = g[j - 1] => i = j
  BY <1>4, <1>6, <1>7, <1>9, <1>10, <1>11
<1> QED
  BY <1>5, <1>12, <1>13 DEF longer

LEMMA HereMore ==
  ASSUME NEW text \in Seq(Glyphs), NEW c \in Glyphs, NEW open \in BOOLEAN,
         IF open THEN \E s : Unended(text, s) ELSE Settled(text),
         NEW a, NEW b
  PROVE  /\ HereIn(text, a, b) \subseteq 1 .. Len(text)
         /\ HereIn(Append(text, c), a, b) =
              HereIn(text, a, b)
                \cup (IF ~open /\ c \in Drawn /\ PlaceIn(text)[Len(text)] = <<a, b>>
                      THEN {Len(text) + 1} ELSE {})
<1> DEFINE n == Len(text)
           longer == Append(text, c)
           f == PlaceIn(text)
           g == PlaceIn(longer)
           V == VisibleIn(text)
           W == VisibleIn(longer)
           p == <<a, b>>
           here == HereIn(text, a, b)
           now == HereIn(longer, a, b)
<1>1. /\ n \in Nat /\ Len(longer) = n + 1
      /\ \A i \in 1 .. n : longer[i] = text[i]
      /\ longer[n + 1] = c
  BY OneMore
<1>2. V \subseteq 1 .. n /\ W = V \cup (IF ~open /\ c # "esc" THEN {n + 1} ELSE {})
  BY VisibleMore
<1>3. \A i \in 0 .. n : g[i] = f[i]
  BY PlaceMore
<1>4. here = {i \in V : text[i] # "nl" /\ f[i - 1] = p}
  BY DEF HereIn
<1>5. now = {i \in W : longer[i] # "nl" /\ g[i - 1] = p}
  BY DEF HereIn
<1>6. c \in Drawn <=> c # "esc" /\ c # "nl"
  BY AppsAssumption DEF AppsConstants, Glyphs
<1> HIDE DEF n, longer, f, g, V, W, p, here, now
<1>7. \A i \in V : i \in 1 .. n /\ i # n + 1 /\ g[i - 1] = f[i - 1] /\ longer[i] = text[i]
  BY <1>1, <1>2, <1>3
<1>8. (n + 1) - 1 = n /\ g[n] = f[n]
  BY <1>1, <1>3
<1>9. \A i \in V : i \in now <=> i \in here
  BY <1>2, <1>4, <1>5, <1>7
<1>10. n + 1 \in now <=> ~open /\ c \in Drawn /\ f[n] = p
  BY <1>1, <1>2, <1>5, <1>6, <1>7, <1>8
<1>11. \A i \in now : i \in V \/ i = n + 1
  BY <1>2, <1>5
<1>12. here \subseteq V
  BY <1>4
<1>13. now = here \cup (IF ~open /\ c \in Drawn /\ f[n] = p THEN {n + 1} ELSE {})
  BY <1>9, <1>10, <1>11, <1>12
<1> QED
  BY <1>2, <1>12, <1>13 DEF n, longer, f, p, here, now

(* Nothing is drawn yet where the cursor is, nor on a line behind. *)
LEMMA NothingAhead ==
  ASSUME NEW text \in Seq(Glyphs), PlacesGrow(text), NEW a \in Nat, NEW b,
         LET last == PlaceIn(text)[Len(text)] IN <<a, b>> = last \/ a > last[1],
         VisibleIn(text) \subseteq 1 .. Len(text)
  PROVE  HereIn(text, a, b) = {}
<1> DEFINE n == Len(text)
           f == PlaceIn(text)
           V == VisibleIn(text)
<1>1. n \in Nat /\ f \in [0 .. n -> Places]
  <2>1. n \in Nat
    BY LenProperties
  <2> QED
    BY <2>1, PlaceFromIs DEF PlaceIn
<1>2. /\ \A i \in V : Ahead(f[i - 1], f[n])
      /\ <<a, b>> = f[n] \/ a > f[n][1]
  BY DEF PlacesGrow
<1> HIDE DEF n, f, V
<1>3. ASSUME NEW i \in V, f[i - 1] = <<a, b>> PROVE FALSE
  <2>1. i - 1 \in 0 .. n /\ n \in 0 .. n
    BY <1>1 DEF V, n
  <2>2. f[i - 1] \in Places /\ f[n] \in Places /\ Ahead(f[i - 1], f[n])
    BY <1>1, <1>2, <2>1
  <2>3. f[i - 1] # f[n] /\ f[i - 1][1] <= f[n][1]
    BY <2>2, AheadFollows
  <2>4. f[i - 1][1] = a
    BY <1>3
  <2>5. a > f[n][1] /\ a <= f[n][1] /\ f[n][1] \in Nat
    BY <1>2, <1>3, <2>2, <2>3, <2>4 DEF Places
  <2> QED
    BY <2>5
<1> QED
  BY <1>3 DEF HereIn, V, f
LEMMA RowsMoveUp ==
  ASSUME NEW cells \in Cells
  PROVE  /\ Term!Scrolled(cells) \in Cells
         /\ \A r \in 1 .. Rows - 1 : Term!Scrolled(cells)[r] = cells[r + 1]
         /\ \A k \in 1 .. Cols : Term!Scrolled(cells)[Rows][k] = Term!Blank
<1> DEFINE Line == [1 .. Cols -> Cell]
           rest == Tail(cells)
           last == <<Term!BlankRow>>
           all == rest \o last
<1>1. Rows \in Nat \ {0} /\ Cols \in Nat \ {0}
  BY Sizes
<1>2. Term!BlankRow \in Line /\ \A k \in 1 .. Cols : Term!BlankRow[k] = Term!Blank
  BY DEF Term!BlankRow, Term!Blank, Cell, Hue
<1>3. cells \in Seq(Line) /\ Len(cells) = Rows
  <2>1. cells \in [1 .. Rows -> Line]
    BY DEF Cells
  <2> HIDE DEF Line
  <2> QED
    BY <1>1, <2>1
<1> HIDE DEF Line
<1>4. cells # <<>>
  BY <1>1, <1>3
<1>5. /\ rest \in Seq(Line) /\ Len(rest) = Rows - 1
      /\ \A r \in 1 .. Rows - 1 : rest[r] = cells[r + 1]
  BY <1>3, <1>4, HeadTailProperties
<1>6. last \in Seq(Line) /\ Len(last) = 1 /\ last[1] = Term!BlankRow
  BY <1>2
<1> HIDE DEF rest, last
<1>7. /\ all \in Seq(Line) /\ Len(all) = Len(rest) + Len(last)
      /\ \A r \in 1 .. Len(rest) + Len(last) :
           all[r] = IF r <= Len(rest) THEN rest[r] ELSE last[r - Len(rest)]
  BY <1>5, <1>6, ConcatProperties
<1> HIDE DEF all
<1>8. Len(all) = Rows /\ \A r \in 1 .. Rows - 1 : all[r] = cells[r + 1]
  <2>1. \A r \in 1 .. Rows - 1 : r \in 1 .. Len(rest) + Len(last) /\ r <= Len(rest)
    BY <1>1, <1>5, <1>6
  <2>2. Len(rest) + Len(last) = Rows
    BY <1>1, <1>5, <1>6
  <2> QED
    BY <1>5, <1>7, <2>1, <2>2
<1>9. all[Rows] = Term!BlankRow
  <2>1. /\ Rows \in 1 .. Len(rest) + Len(last) /\ ~(Rows <= Len(rest))
        /\ Rows - Len(rest) = 1
    BY <1>1, <1>5, <1>6
  <2> QED
    BY <1>6, <1>7, <2>1
<1>10. all \in Cells
  <2>1. all \in [1 .. Rows -> Line]
    BY <1>7, <1>8
  <2> QED
    BY <2>1 DEF Cells, Line
<1>11. Term!Scrolled(cells) = all
  BY DEF Term!Scrolled, all, rest, last
<1> QED
  BY <1>2, <1>8, <1>9, <1>10, <1>11

LEMMA ScrollShows ==
  ASSUME NEW text, NEW cells \in Cells, NEW gone \in Nat, ShownAt(text, cells, gone),
         \A b : HereIn(text, gone + Rows, b) = {}
  PROVE  ShownAt(text, Term!Scrolled(cells), gone + 1)
<1> DEFINE more == Term!Scrolled(cells)
<1>1. /\ \A r \in 1 .. Rows - 1 : more[r] = cells[r + 1]
      /\ \A k \in 1 .. Cols : more[Rows][k] = Term!Blank
  BY RowsMoveUp
<1> HIDE DEF more
<1>2. ASSUME NEW r \in 1 .. Rows, NEW k \in 1 .. Cols
      PROVE  CellIs(text, HereIn(text, (gone + 1) + r - 1, k - 1), more[r][k])
  <2>1. CASE r = Rows
    <3>1. (gone + 1) + r - 1 = gone + Rows
      BY <2>1, Sizes
    <3> QED
      BY <1>1, <2>1, <3>1 DEF CellIs
  <2>2. CASE r # Rows
    <3>1. r \in 1 .. Rows - 1 /\ r + 1 \in 1 .. Rows /\ (gone + 1) + r - 1 = gone + (r + 1) - 1
      BY <2>2, Sizes
    <3> QED
      BY <1>1, <3>1 DEF ShownAt
  <2> QED
    BY <2>1, <2>2
<1> QED
  BY <1>2 DEF ShownAt, more

(* One more character on the cells, before anything scrolls. *)
LEMMA ShownMore ==
  ASSUME NEW text \in Seq(Glyphs), NEW c \in Glyphs, NEW open \in BOOLEAN,
         IF open THEN \E s : Unended(text, s) ELSE Settled(text),
         PlacesGrow(text), NEW cells \in Cells, NEW gone \in Nat, ShownAt(text, cells, gone),
         NEW r0 \in 1 .. Rows, NEW k0 \in 1 .. Cols,
         PlaceIn(text)[Len(text)] = <<gone + r0 - 1, k0 - 1>>,
         NEW more, more = DrawnIn(text, c, open, cells, r0, k0)
  PROVE  ShownAt(Append(text, c), more, gone)
<1> DEFINE n == Len(text)
           longer == Append(text, c)
           put == ~open /\ c \in Drawn
           here(r, k) == HereIn(text, gone + r - 1, k - 1)
           now(r, k) == HereIn(longer, gone + r - 1, k - 1)
<1>1. n \in Nat /\ \A i \in 1 .. n : longer[i] = text[i]
  BY OneMore
<1>2. \A i \in 1 .. n : Seen(longer, i) = Seen(text, i)
  <2>1. \A i \in 1 .. n : i \in 1 .. n + 1
    BY <1>1
  <2> QED
    BY <1>1, <2>1, ColourBefore DEF Seen
<1>3. ASSUME NEW r \in 1 .. Rows, NEW k \in 1 .. Cols
      PROVE  /\ here(r, k) \subseteq 1 .. n
             /\ now(r, k) = here(r, k) \cup (IF put /\ r = r0 /\ k = k0 THEN {n + 1} ELSE {})
             /\ r = r0 /\ k = k0 => here(r, k) = {}
  <2>1. <<gone + r0 - 1, k0 - 1>> = <<gone + r - 1, k - 1>> <=> r = r0 /\ k = k0
    <3>1. r \in Nat /\ r0 \in Nat /\ k \in Nat /\ k0 \in Nat /\ gone \in Nat
      BY Sizes
    <3>2. gone + r0 - 1 = gone + r - 1 <=> r = r0
      BY <3>1
    <3>3. k0 - 1 = k - 1 <=> k = k0
      BY <3>1
    <3> QED
      BY <3>2, <3>3
  <2>2. /\ here(r, k) \subseteq 1 .. n
        /\ now(r, k) = here(r, k) \cup (IF put /\ PlaceIn(text)[n] = <<gone + r - 1, k - 1>>
                                        THEN {n + 1} ELSE {})
    BY HereMore
  <2>3. ASSUME r = r0, k = k0 PROVE here(r, k) = {}
    <3>1. gone + r - 1 \in Nat
      BY Sizes
    <3>2. <<gone + r - 1, k - 1>> = PlaceIn(text)[n]
      BY <2>3
    <3>3. VisibleIn(text) \subseteq 1 .. n
      BY VisibleMore
    <3> QED
      BY <3>1, <3>2, <3>3, NothingAhead
  <2> QED
    BY <2>1, <2>2, <2>3
<1>4. ASSUME NEW r \in 1 .. Rows, NEW k \in 1 .. Cols
      PROVE  more[r][k] = IF put /\ r = r0 /\ k = k0 THEN Seen(longer, n + 1) ELSE cells[r][k]
  <2> DEFINE new == Seen(longer, n + 1)
  <2>1. more = IF put THEN [cells EXCEPT ![r0][k0] = new] ELSE cells
    BY DEF DrawnIn
  <2>2. \A a \in 1 .. Rows : cells[a] = [b \in 1 .. Cols |-> cells[a][b]]
    BY DEF Cells
  <2>3. DOMAIN cells = 1 .. Rows /\ \A a \in 1 .. Rows : DOMAIN cells[a] = 1 .. Cols
    BY DEF Cells
  <2> HIDE DEF new, put
  <2>4. CASE put /\ r = r0
    <3>1. more[r] = [cells[r] EXCEPT ![k0] = new]
      BY <2>1, <2>3, <2>4
    <3> QED
      BY <2>3, <2>4, <3>1 DEF new
  <2>5. CASE ~(put /\ r = r0)
    BY <2>1, <2>3, <2>5
  <2> QED
    BY <2>4, <2>5
<1>5. ASSUME NEW r \in 1 .. Rows, NEW k \in 1 .. Cols
      PROVE  CellIs(longer, now(r, k), more[r][k])
  <2>1. CellIs(text, here(r, k), cells[r][k])
    BY DEF ShownAt
  <2>2. /\ here(r, k) \subseteq 1 .. n
        /\ now(r, k) = here(r, k) \cup (IF put /\ r = r0 /\ k = k0 THEN {n + 1} ELSE {})
        /\ r = r0 /\ k = k0 => here(r, k) = {}
    BY <1>3
  <2>3. more[r][k] = IF put /\ r = r0 /\ k = k0 THEN Seen(longer, n + 1) ELSE cells[r][k]
    BY <1>4
  <2> DEFINE H == here(r, k)
             N == now(r, k)
             P == put
  <2> HIDE DEF H, N, P, n, longer
  <2>4. CASE P /\ r = r0 /\ k = k0
    <3>1. N = {n + 1} /\ more[r][k] = Seen(longer, n + 1)
      BY <2>2, <2>3, <2>4 DEF H, N, P
    <3>2. CellIs(longer, N, more[r][k])
      BY <3>1, Zenon DEF CellIs
    <3> QED
      BY <3>2 DEF N
  <2>5. CASE ~(P /\ r = r0 /\ k = k0)
    <3>1. N = H /\ more[r][k] = cells[r][k] /\ H \subseteq 1 .. n
      BY <2>2, <2>3, <2>5 DEF H, N, P
    <3>2. CellIs(text, H, cells[r][k])
      BY <2>1 DEF H
    <3>3. CellIs(longer, N, more[r][k])
      BY <1>2, <3>1, <3>2, Zenon DEF CellIs
    <3> QED
      BY <3>3 DEF N
  <2> QED
    BY <2>4, <2>5
<1> QED
  BY <1>5 DEF ShownAt

(* The cursor moves on, by a line at most, and the lines scroll when it    *)
(* leaves the screen.                                                      *)
LEMMA TailMoves ==
  ASSUME NEW text \in Seq(Glyphs), NEW c \in Glyphs, NEW open \in BOOLEAN,
         IF open THEN \E s : Unended(text, s) ELSE Settled(text),
         PlacesGrow(text), NEW cells \in Cells, NEW r0 \in 0 .. Rows - 1, NEW k0 \in 0 .. Cols - 1,
         TailIs(text, cells, r0, k0),
         NEW more \in Cells, more = DrawnIn(text, c, open, cells, r0 + 1, k0 + 1),
         NEW r \in {r0, r0 + 1}, NEW k \in 0 .. Cols - 1,
         PlaceIn(Append(text, c))[Len(text) + 1] =
           <<r + GoneBy(PlaceIn(text)[Len(text)][1]), k>>
  PROVE  IF r >= Rows THEN TailIs(Append(text, c), Term!Scrolled(more), r - 1, k)
         ELSE TailIs(Append(text, c), more, r, k)
<1> DEFINE n == Len(text)
           longer == Append(text, c)
           f == PlaceIn(text)
           g == PlaceIn(longer)
           line == f[n][1]
           gone == GoneBy(line)
           now == GoneBy(g[n + 1][1])
<1>1. n \in Nat /\ Len(longer) = n + 1
  BY OneMore
<1>2. f \in [0 .. n -> Places] /\ g[n + 1] = <<r + gone, k>>
  BY PlaceMore
<1>3. <<r0 + gone, k0>> = f[n] /\ ShownAt(text, cells, gone)
  BY DEF TailIs
<1>4. /\ TailIs(longer, Term!Scrolled(more), r - 1, k) <=>
           <<(r - 1) + now, k>> = g[n + 1] /\ ShownAt(longer, Term!Scrolled(more), now)
      /\ TailIs(longer, more, r, k) <=>
           <<r + now, k>> = g[n + 1] /\ ShownAt(longer, more, now)
  BY <1>1 DEF TailIs
<1>5. line \in Nat /\ r0 + gone = line
  <2>1. f[n] \in Places
    BY <1>1, <1>2
  <2> QED
    BY <1>3, <2>1 DEF Places
<1>6. /\ gone \in Nat /\ r0 \in Nat /\ r0 < Rows
      /\ gone # 0 => r0 = Rows - 1
      /\ gone = IF line >= Rows THEN line - (Rows - 1) ELSE 0
  <2>1. gone = IF line >= Rows THEN line - (Rows - 1) ELSE 0
    BY DEF GoneBy
  <2> HIDE DEF gone, line
  <2> QED
    BY <1>5, <2>1, Sizes
<1>7. now = IF r >= Rows THEN gone + 1 ELSE gone
  <2>1. g[n + 1][1] = r + gone
    BY <1>2
  <2>2. now = IF r + gone >= Rows THEN (r + gone) - (Rows - 1) ELSE 0
    BY <2>1 DEF GoneBy
  <2> HIDE DEF gone, line, now
  <2>3. r = r0 \/ r = r0 + 1
    OBVIOUS
  <2> QED
    BY <1>5, <1>6, <2>2, <2>3, Sizes
<1>8. ShownAt(longer, more, gone)
  <2> DEFINE a == r0 + 1
             b == k0 + 1
  <2>1. a \in 1 .. Rows /\ b \in 1 .. Cols /\ gone + a - 1 = r0 + gone /\ b - 1 = k0
    BY <1>6, Sizes
  <2>2. f[n] = <<gone + a - 1, b - 1>>
    BY <1>3, <2>1
  <2>3. more = DrawnIn(text, c, open, cells, a, b)
    OBVIOUS
  <2> HIDE DEF a, b, gone
  <2>4. PlaceIn(text)[Len(text)] = <<gone + a - 1, b - 1>>
    BY <2>2
  <2>5. /\ ShownAt(text, cells, gone) /\ gone \in Nat /\ a \in 1 .. Rows /\ b \in 1 .. Cols
        /\ more = DrawnIn(text, c, open, cells, a, b)
    BY <1>3, <1>6, <2>1, <2>3
  <2> QED
    BY <2>4, <2>5, ShownMore
<1>9. CASE r >= Rows
  <2>1. r = Rows /\ r - 1 = r0
    BY <1>6, <1>9, Sizes
  <2>2. ASSUME NEW b PROVE HereIn(longer, gone + Rows, b) = {}
    <3>1. gone + Rows \in Nat /\ gone + Rows > line
      <4> HIDE DEF gone, line
      <4> QED
        BY <1>5, <1>6, Sizes
    <3>2. HereIn(text, gone + Rows, b) = {}
      <4>1. VisibleIn(text) \subseteq 1 .. n
        BY VisibleMore
      <4> HIDE DEF gone
      <4> QED
        BY <3>1, <4>1, NothingAhead
    <3>3. f[n] # <<gone + Rows, b>>
      BY <1>5, <3>1
    <3> QED
      BY <3>2, <3>3, HereMore
  <2>3. ShownAt(longer, Term!Scrolled(more), gone + 1)
    <3>1. gone \in Nat
      BY <1>6
    <3> HIDE DEF gone, longer
    <3> QED
      BY <1>8, <2>2, <3>1, ScrollShows
  <2>4. (r - 1) + (gone + 1) = r + gone
    <3>1. gone \in Nat /\ r \in Nat
      BY <1>6, <2>1, Sizes
    <3> HIDE DEF gone
    <3> QED
      BY <3>1
  <2>5. now = gone + 1
    BY <1>7, <1>9
  <2>6. <<(r - 1) + now, k>> = g[n + 1]
    BY <1>2, <2>4, <2>5
  <2>7. TailIs(longer, Term!Scrolled(more), r - 1, k)
    <3> HIDE DEF now, gone, longer, g, n
    <3> QED
      BY <1>4, <2>3, <2>5, <2>6
  <2> QED
    BY <1>9, <2>7
<1>10. CASE ~(r >= Rows)
  <2>1. now = gone
    BY <1>7, <1>10
  <2>2. TailIs(longer, more, r, k)
    <3> HIDE DEF now, gone, longer, g, n
    <3> QED
      BY <1>2, <1>4, <1>8, <2>1
  <2> QED
    BY <1>10, <2>2
<1> QED
  BY <1>9, <1>10

(* The escape sequence under way and the colour. *)
LEMMA PutEscape ==
  ASSUME WindowIs, EscapeIs, ColourIs, NEW c \in Glyphs, Term!Put(c)
  PROVE  EscapeIs' /\ ColourIs' /\ escape' \in [in : BOOLEAN, buf : Seq(Glyphs)] /\ colour' \in Hue
<1> DEFINE n == Len(printed)
           longer == Append(printed, c)
<1>1. printed \in Seq(Glyphs) /\ printed' = longer /\ Len(longer) = n + 1 /\ n \in Nat
  BY OneMore DEF WindowIs, Term!Put
<1>2. EscapeIs' <=> IF escape'.in THEN \E s : Unended(longer, s) /\ escape'.buf = KeptOf(longer, s)
                    ELSE Settled(longer)
  BY <1>1 DEF EscapeIs
<1>3. ColourIs' <=> colour' = ColourIn(longer, n + 2)
  <2>1. (n + 1) + 1 = n + 2
    BY <1>1
  <2> QED
    BY <1>1, <2>1 DEF ColourIs
<1>4. colour = ColourIn(printed, n + 1) /\ colour \in Hue
  BY DEF ColourIs, WindowIs
<1>5. /\ \A s : Unended(printed, s) /\ c \notin Letters => Unended(longer, s)
      /\ (\E s : Unended(printed, s)) /\ c \in Letters => Settled(longer)
      /\ Settled(printed) /\ c # "esc" => Settled(longer)
      /\ Settled(printed) /\ c = "esc" => Unended(longer, n + 1) /\ KeptOf(longer, n + 1) = <<>>
  BY <1>1, UnendedMore
<1>6. escape \in [in : BOOLEAN, buf : Seq(Glyphs)]
  BY DEF WindowIs
<1> HIDE DEF n, longer
<1>7. CASE Term!PutEscaped(c)
  <2>1. escape.in
    BY <1>7 DEF Term!PutEscaped
  <2>2. PICK s : Unended(printed, s) /\ escape.buf = KeptOf(printed, s)
    BY <2>1 DEF EscapeIs
  <2> DEFINE collected == Term!Collected(c)
             asked == Term!ColourOf(collected)
  <2>3. /\ collected \in Seq(Glyphs) /\ asked = Asks(printed, s, c)
        /\ collected = KeptOf(longer, s)
    <3>1. collected = IF Len(KeptOf(printed, s)) < EscapeRoom THEN Append(KeptOf(printed, s), c)
                      ELSE KeptOf(printed, s)
      BY <2>2 DEF Term!Collected
    <3> QED
      BY <1>1, <2>2, <3>1, KeptServes DEF longer
  <2>4. ColourIn(longer, n + 2) = IF asked = "same" THEN colour ELSE asked
    BY <1>1, <1>4, <2>2, <2>3, ColourUnended DEF n, longer
  <2>5. asked = "same" \/ asked \in Hue
    BY AsksLast
  <2> HIDE DEF collected, asked
  <2>6. CASE c \in Letters
    <3>1. escape' = Term!NoEscape /\ colour' = IF asked = "same" THEN colour ELSE asked
      BY <1>7, <2>6 DEF Term!PutEscaped, collected, asked
    <3>2. ~escape'.in /\ escape' \in [in : BOOLEAN, buf : Seq(Glyphs)]
      BY <3>1, EmptySeq DEF Term!NoEscape
    <3>3. Settled(longer)
      BY <1>5, <2>2, <2>6
    <3> QED
      BY <1>2, <1>3, <1>4, <2>4, <2>5, <3>1, <3>2, <3>3
  <2>7. CASE c \notin Letters
    <3>1. escape' = [escape EXCEPT !.buf = collected] /\ colour' = colour
      BY <1>7, <2>7 DEF Term!PutEscaped, collected
    <3>2. /\ escape'.in /\ escape'.buf = collected
          /\ escape' \in [in : BOOLEAN, buf : Seq(Glyphs)]
      <4>1. escape'.in = escape.in /\ escape'.buf = collected
        BY <1>6, <3>1
      <4>2. escape' \in [in : BOOLEAN, buf : Seq(Glyphs)]
        BY <1>6, <2>3, <3>1
      <4> QED
        BY <2>1, <4>1, <4>2, Zenon
    <3>3. Unended(longer, s)
      BY <1>5, <2>2, <2>7
    <3>4. asked = "same"
      <4>1. SUFFICES ASSUME asked # "same" PROVE FALSE
        OBVIOUS
      <4>2. LET body == Append(SubSeq(printed, s + 1, Len(printed)), c) IN
              /\ body[Len(body)] = c /\ Term!ColourOf(body) # "same"
        <5>1. s \in 1 .. Len(printed)
          BY <2>2 DEF Unended
        <5>2. LET body == Append(SubSeq(printed, s + 1, Len(printed)), c) IN body[Len(body)] = c
          BY <1>1, <5>1, BodyNow
        <5>3. Asks(printed, s, c) # "same"
          BY <2>3, <4>1
        <5> QED
          BY <5>2, <5>3 DEF Asks
      <4>3. c \in Letters
        BY <4>2, AsksLast
      <4> QED
        BY <2>7, <4>3
    <3> QED
      BY <1>2, <1>3, <1>4, <2>3, <2>4, <3>1, <3>2, <3>3, <3>4
  <2> QED
    BY <2>6, <2>7
<1>8. CASE Term!PutEsc(c)
  <2>1. ~escape.in /\ c = "esc" /\ escape' = [in |-> TRUE, buf |-> <<>>] /\ colour' = colour
    BY <1>8 DEF Term!PutEsc
  <2>2. Settled(printed)
    BY <2>1 DEF EscapeIs
  <2>3. /\ escape'.in /\ escape'.buf = <<>>
        /\ escape' \in [in : BOOLEAN, buf : Seq(Glyphs)]
    BY <2>1, EmptySeq
  <2>4. ColourIn(longer, n + 2) = colour
    BY <1>1, <1>4, <2>2, ColourSettled DEF n, longer
  <2> QED
    BY <1>2, <1>3, <1>4, <1>5, <2>1, <2>2, <2>3, <2>4
<1>9. CASE Term!PutLine(c) \/ Term!PutDrawn(c)
  <2>1. ~escape.in /\ c # "esc" /\ escape' = escape /\ colour' = colour
    BY <1>9, AppsAssumption DEF AppsConstants, Term!PutLine, Term!PutDrawn
  <2>2. Settled(printed)
    BY <2>1 DEF EscapeIs
  <2>3. ColourIn(longer, n + 2) = colour
    BY <1>1, <1>4, <2>2, ColourSettled DEF n, longer
  <2> QED
    BY <1>2, <1>3, <1>4, <1>5, <1>6, <2>1, <2>2, <2>3
<1> QED
  BY <1>7, <1>8, <1>9 DEF Term!Put
(* The cells and the cursor. *)
LEMMA PutScreen ==
  ASSUME TerminalIs, NEW c \in Glyphs, Term!Put(c)
  PROVE  /\ printed' \in Seq(Glyphs) /\ PlacesGrow(printed)'
         /\ TailIs(printed, screen, row, col)'
         /\ screen' \in Cells /\ row' \in 0 .. Rows - 1 /\ col' \in 0 .. Cols - 1
<1> DEFINE n == Len(printed)
           longer == Append(printed, c)
           f == PlaceIn(printed)
           g == PlaceIn(longer)
           gone == GoneBy(f[n][1])
           open == escape.in
<1>1. /\ WindowIs /\ EscapeIs /\ ColourIs /\ PlacesGrow(printed)
      /\ TailIs(printed, screen, row, col)
  BY DEF TerminalIs
<1>2. /\ printed \in Seq(Glyphs) /\ screen \in Cells /\ colour \in Hue /\ open \in BOOLEAN
      /\ row \in 0 .. Rows - 1 /\ col \in 0 .. Cols - 1
  BY <1>1 DEF WindowIs
<1>3. /\ printed' = longer /\ n \in Nat /\ longer \in Seq(Glyphs) /\ longer[n + 1] = c
  BY <1>2, OneMore DEF Term!Put
<1>4. IF open THEN \E s : Unended(printed, s) ELSE Settled(printed)
  BY <1>1 DEF EscapeIs
<1>5. PlacesGrow(longer)
  BY <1>1, <1>2, <1>4, PlacesGrowMore
<1>6. /\ f[n] = <<row + gone, col>> /\ f[n] \in Places
      /\ g[n + 1] = IF ~open /\ c # "esc" THEN Onwards(f[n], c) ELSE f[n]
  <2>1. f[n] = <<row + gone, col>>
    BY <1>1 DEF TailIs
  <2>2. f \in [0 .. n -> Places] /\ g[n + 1] = IF ~open /\ c # "esc" THEN Onwards(f[n], c) ELSE f[n]
    BY <1>2, <1>4, PlaceMore
  <2> QED
    BY <1>3, <2>1, <2>2
<1>9. gone \in Nat /\ (row + gone) + 1 = (row + 1) + gone
  <2>1. f[n][1] \in Nat
    BY <1>6 DEF Places
  <2> DEFINE line == f[n][1]
  <2> HIDE DEF line
  <2>2. GoneBy(line) \in Nat
    BY <2>1, Sizes DEF GoneBy, line
  <2>3. gone \in Nat
    BY <2>2 DEF line
  <2> HIDE DEF gone
  <2> QED
    BY <1>2, <2>3
<1> DEFINE drawn(cells) == cells = DrawnIn(printed, c, open, screen, row + 1, col + 1)
<1>7. ASSUME NEW cells \in Cells, drawn(cells), NEW r \in {row, row + 1}, NEW k \in 0 .. Cols - 1,
             g[n + 1] = <<r + gone, k>>, Term!Moved(cells, r, k)
      PROVE  /\ TailIs(longer, screen', row', col')
             /\ screen' \in Cells /\ row' \in 0 .. Rows - 1 /\ col' \in 0 .. Cols - 1
  <2>1. IF r >= Rows THEN TailIs(longer, Term!Scrolled(cells), r - 1, k)
        ELSE TailIs(longer, cells, r, k)
    BY <1>1, <1>2, <1>4, <1>7, TailMoves
  <2>2. r \in Nat /\ r - 1 < Rows /\ (r >= Rows => r - 1 \in 0 .. Rows - 1)
        /\ (~(r >= Rows) => r \in 0 .. Rows - 1)
    <3>1. r = row \/ r = row + 1
      OBVIOUS
    <3> QED
      BY <1>2, <3>1, Sizes
  <2> QED
    BY <1>7, <2>1, <2>2, RowsMoveUp DEF Term!Moved
<1>8. /\ TailIs(longer, screen', row', col')
      /\ screen' \in Cells /\ row' \in 0 .. Rows - 1 /\ col' \in 0 .. Cols - 1
  <2> HIDE DEF n, longer, f, g, gone
  <2>1. CASE Term!PutEscaped(c) \/ Term!PutEsc(c)
    <3>1. (open \/ c = "esc") /\ screen' = screen /\ row' = row /\ col' = col
      BY <2>1 DEF Term!PutEscaped, Term!PutEsc
    <3>2. drawn(screen)
      <4>1. "esc" \notin Drawn
        BY AppsAssumption DEF AppsConstants
      <4> QED
        BY <3>1, <4>1 DEF DrawnIn
    <3>3. g[n + 1] = <<row + gone, col>>
      BY <1>6, <3>1
    <3>4. Term!Moved(screen, row, col)
      <4>1. ~(row >= Rows)
        BY <1>2, Sizes
      <4> QED
        BY <3>1, <4>1 DEF Term!Moved
    <3> HIDE DEF drawn
    <3> QED
      BY <1>2, <1>7, <3>2, <3>3, <3>4
  <2>2. CASE Term!PutLine(c)
    <3>1. ~open /\ c = "nl" /\ Term!Moved(screen, row + 1, 0)
      BY <2>2 DEF Term!PutLine
    <3>2. drawn(screen)
      <4>1. "nl" \notin Drawn
        BY AppsAssumption DEF AppsConstants
      <4> QED
        BY <3>1, <4>1 DEF DrawnIn
    <3>3. g[n + 1] = <<(row + gone) + 1, 0>>
      BY <1>6, <3>1 DEF Onwards
    <3>4. (row + gone) + 1 = (row + 1) + gone
      BY <1>9
    <3>5. 0 \in 0 .. Cols - 1
      BY Sizes
    <3>6. g[n + 1] = <<(row + 1) + gone, 0>>
      BY <3>3, <3>4, Zenon
    <3> HIDE DEF drawn
    <3> QED
      BY <1>2, <1>7, <3>1, <3>2, <3>5, <3>6
  <2>3. CASE Term!PutDrawn(c)
    <3> DEFINE cells == DrawnIn(printed, c, open, screen, row + 1, col + 1)
    <3>1. ~open /\ c \in Drawn /\ c # "esc" /\ c # "nl"
      BY <2>3, AppsAssumption DEF AppsConstants, Term!PutDrawn
    <3>2. cells = [screen EXCEPT ![row + 1][col + 1] = [char |-> c, colour |-> colour]]
      <4>1. n + 1 \in 1 .. n + 1
        BY <1>3
      <4>2. ColourIn(longer, n + 1) = ColourIn(printed, n + 1)
        BY <1>2, <4>1, ColourBefore DEF n, longer
      <4>3. colour = ColourIn(printed, n + 1)
        BY <1>1 DEF ColourIs, n
      <4>4. Seen(longer, n + 1) = [char |-> c, colour |-> colour]
        BY <1>3, <4>2, <4>3 DEF Seen
      <4> QED
        BY <3>1, <4>4 DEF DrawnIn, n, longer
    <3>3. IF col + 1 >= Cols THEN Term!Moved(cells, row + 1, 0) ELSE Term!Moved(cells, row, col + 1)
      BY <2>3, <3>2 DEF Term!PutDrawn
    <3>4. cells \in Cells
      <4>1. [char |-> c, colour |-> colour] \in Cell
        BY <1>2, <3>1 DEF Cell
      <4> HIDE DEF cells
      <4> QED
        BY <1>2, <3>2, <4>1 DEF Cells
    <3>5. drawn(cells)
      OBVIOUS
    <3>6. g[n + 1] = IF col + 1 = Cols THEN <<(row + gone) + 1, 0>> ELSE <<row + gone, col + 1>>
      BY <1>6, <3>1 DEF Onwards
    <3>7. (row + gone) + 1 = (row + 1) + gone
      BY <1>9
    <3> HIDE DEF drawn, cells
    <3>8. CASE col + 1 >= Cols
      <4>1. col + 1 = Cols /\ 0 \in 0 .. Cols - 1
        BY <1>2, <3>8, Sizes
      <4>2. g[n + 1] = <<(row + 1) + gone, 0>>
        BY <3>6, <3>7, <4>1, Zenon
      <4> QED
        BY <1>2, <1>7, <3>3, <3>4, <3>5, <3>8, <4>1, <4>2
    <3>9. CASE ~(col + 1 >= Cols)
      <4>1. col + 1 # Cols /\ col + 1 \in 0 .. Cols - 1
        BY <1>2, <3>9, Sizes
      <4>2. g[n + 1] = <<row + gone, col + 1>>
        BY <3>6, <4>1, Zenon
      <4> QED
        BY <1>2, <1>7, <3>3, <3>4, <3>5, <3>9, <4>1, <4>2
    <3> QED
      BY <3>8, <3>9
  <2> QED
    BY <2>1, <2>2, <2>3 DEF Term!Put
<1> QED
  BY <1>3, <1>5, <1>8

LEMMA TerminalStart ==
  ASSUME Term!ScreenInit
  PROVE  TerminalIs
<1>1. /\ screen = [r \in 1 .. Rows |-> Term!BlankRow] /\ row = 0 /\ col = 0
      /\ escape = Term!NoEscape /\ colour = "default" /\ printed = <<>>
  BY DEF Term!ScreenInit
<1>2. <<>> \in Seq(Glyphs) /\ Len(<<>>) = 0 /\ DOMAIN <<>> = 1 .. 0
  BY EmptySeq
<1>3. WindowIs
  <2>1. Term!BlankRow \in [1 .. Cols -> Cell]
    BY DEF Term!BlankRow, Term!Blank, Cell, Hue
  <2>2. screen \in Cells
    BY <1>1, <2>1 DEF Cells
  <2>3. escape \in [in : BOOLEAN, buf : Seq(Glyphs)]
    BY <1>1, <1>2 DEF Term!NoEscape
  <2>4. colour \in Hue
    BY <1>1 DEF Hue
  <2>5. row \in 0 .. Rows - 1 /\ col \in 0 .. Cols - 1
    BY <1>1, Sizes
  <2> QED
    BY <1>1, <1>2, <2>2, <2>3, <2>4, <2>5 DEF WindowIs
<1>4. BegunIn(<<>>) = {} /\ VisibleIn(<<>>) = {}
  BY <1>2 DEF BegunIn, VisibleIn
<1>5. EscapeIs
  <2>1. ~escape.in
    BY <1>1 DEF Term!NoEscape
  <2>2. Settled(printed)
    BY <1>1, <1>2 DEF Settled
  <2> QED
    BY <2>1, <2>2 DEF EscapeIs
<1>6. ColourIs
  <2>1. \A i : AskedIn(<<>>, i) = {}
    BY <1>4 DEF AskedIn
  <2> QED
    BY <1>1, <2>1 DEF ColourIs, ColourIn
<1>7. PlacesGrow(printed)
  BY <1>1, <1>4 DEF PlacesGrow
<1>8. TailIs(printed, screen, row, col)
  <2> DEFINE text == <<>>
             f == PlaceIn(text)
             gone == GoneBy(f[Len(text)][1])
  <2>1. f[0] = <<0, 0>>
    <3>1. 0 \in Nat /\ Len(text) = 0
      BY <1>2
    <3> HIDE DEF text
    <3> QED
      BY <3>1, PlaceFromIs DEF PlaceIn
  <2>2. gone = 0
    BY <1>2, <2>1, Sizes DEF GoneBy
  <2>3. \A a, b : HereIn(text, a, b) = {}
    BY <1>4 DEF HereIn
  <2>4. \A r \in 1 .. Rows, k \in 1 .. Cols : screen[r][k] = Term!Blank
    BY <1>1 DEF Term!BlankRow
  <2>5. ShownAt(text, screen, gone)
    BY <2>3, <2>4 DEF ShownAt, CellIs
  <2>6. <<row + gone, col>> = f[Len(text)]
    <3> HIDE DEF gone, f
    <3> QED
      BY <1>1, <1>2, <2>1, <2>2
  <2>7. TailIs(text, screen, row, col)
    BY <2>5, <2>6, Zenon DEF TailIs
  <2> QED
    BY <1>1, <2>7
<1> QED
  BY <1>3, <1>5, <1>6, <1>7, <1>8 DEF TerminalIs

LEMMA ScreenStep ==
  ASSUME ScreenInv, [AppsNext]_AllVars
  PROVE  ScreenInv'
<1>1. CASE part # "screen" /\ UNCHANGED part
  BY <1>1, Zenon DEF ScreenInv
<1>2. CASE part = "screen" /\ UNCHANGED <<part, screenVars>>
  <2>1. UNCHANGED <<part, screen, row, col, escape, colour, printed>>
    BY <1>2, Zenon DEF screenVars
  <2> QED
    BY <2>1, Zenon DEF ScreenInv, TerminalIs, WindowIs, EscapeIs, ColourIs
<1>3. CASE part = "screen" /\ UNCHANGED part /\ Term!ScreenNext
  <2>1. PICK c \in Glyphs : Term!Put(c)
    BY <1>3, Zenon DEF Term!ScreenNext, Glyphs
  <2>2. TerminalIs /\ WindowIs /\ EscapeIs /\ ColourIs
    BY <1>3, Zenon DEF ScreenInv, TerminalIs
  <2>3. EscapeIs' /\ ColourIs' /\ escape' \in [in : BOOLEAN, buf : Seq(Glyphs)] /\ colour' \in Hue
    BY <2>1, <2>2, PutEscape, Zenon
  <2>4. /\ printed' \in Seq(Glyphs) /\ PlacesGrow(printed)'
        /\ TailIs(printed, screen, row, col)'
        /\ screen' \in Cells /\ row' \in 0 .. Rows - 1 /\ col' \in 0 .. Cols - 1
    BY <2>1, <2>2, PutScreen, Zenon
  <2>5. TerminalIs'
    BY <2>3, <2>4, Zenon DEF TerminalIs, WindowIs
  <2> QED
    BY <2>5, Zenon DEF ScreenInv
<1> QED
  BY <1>1, <1>2, <1>3, Zenon DEF AppsNext, AllVars, FileSteps, ScreenSteps

(* A terminal window of any size, whatever is printed: what it shows is    *)
(* the last lines of the text, each character in the colour set last, and  *)
(* the cursor is at their end.                                             *)
THEOREM ScreenIsRight == AppsSpec => []ScreenIsTail
<1>1. AppsInit => ScreenInv
  BY TerminalStart, Zenon DEF AppsInit, ScreenInv
<1>2. ScreenInv /\ [AppsNext]_AllVars => ScreenInv'
  BY ScreenStep
<1>3. ScreenInv => ScreenIsTail
  BY TailIn, Zenon DEF ScreenInv, TerminalIs, ScreenIsTail
<1> QED
  BY <1>1, <1>2, <1>3, PTL DEF AppsSpec

LEMMA BlockSizes ==
  BlockBytes \in Nat \ {0} /\ Direct \in Nat \ {0} /\ BlockSpace \in Nat \ {0}
<1>1. {BlockBytes, Direct, BlockSpace} \subseteq Nat \ {0}
  BY ONLY ReadingAssumption, Zenon DEF ReadingConstants
<1> QED
  BY ONLY <1>1

(* Blocks, of which the last may be shorter, put behind each other. *)
LEMMA FlatBytes ==
  ASSUME NEW seqs \in Seq(Seq(Byte)), seqs # <<>>,
         \A i \in 1 .. Len(seqs) - 1 : Len(seqs[i]) = BlockBytes
  PROVE  LET n == Len(seqs)
             flat == FlattenSeq(seqs) IN
         /\ flat \in Seq(Byte) /\ Len(flat) = (n - 1) * BlockBytes + Len(seqs[n])
         /\ \A m \in 1 .. n : \A j \in 1 .. Len(seqs[m]) :
              flat[(m - 1) * BlockBytes + j] = seqs[m][j]
<1>1. BlocksOf(Byte, BlockBytes, seqs)
  BY BlockSizes DEF BlocksOf
<1>2. FlattenSeq(seqs) \in Seq(Byte) /\ PlacedIn(BlockBytes, seqs, FlattenSeq(seqs))
  BY <1>1, FlatBlocks
<1> QED
  BY <1>2 DEF PlacedIn

------------------------------------------------------------------------------
(* What a mounted image is. *)
LEMMA DirectIs ==
  ASSUME NEW file, file.block \in Seq(Nat), Len(file.block) > Direct, file.rest \in Seq(Nat)
  PROVE  /\ RealBlocks(file) \in Seq(Nat) /\ Len(RealBlocks(file)) = Direct + Len(file.rest)
         /\ \A i \in 1 .. Direct : RealBlocks(file)[i] = file.block[i] /\ file.block[i] \in Nat
         /\ Range(RealBlocks(file)) \subseteq Nat
         /\ \A i \in 1 .. Direct : file.block[i] \in Range(RealBlocks(file))
<1> DEFINE s == SubSeq(file.block, 1, Direct)
           blocks == RealBlocks(file)
<1>1. Direct \in Nat \ {0} /\ Len(file.block) \in Nat /\ 1 \in Int /\ Direct \in Int
  BY BlockSizes
<1>2. \A i \in 1 .. Direct : file.block[i] \in Nat
  BY <1>1
<1>3. /\ s \in Seq(Nat) /\ Len(s) = (IF 1 <= Direct THEN Direct - 1 + 1 ELSE 0)
      /\ \A i \in 1 .. Direct - 1 + 1 : s[i] = file.block[1 + i - 1]
  BY <1>1, <1>2, SubSeqProperties
<1>4. Len(s) = Direct /\ \A i \in 1 .. Direct : s[i] = file.block[i]
  <2>1. \A i \in 1 .. Direct : i \in 1 .. Direct - 1 + 1 /\ 1 + i - 1 = i
    BY <1>1
  <2> QED
    BY <1>1, <1>3, <2>1
<1> HIDE DEF s
<1>5. /\ s \o file.rest \in Seq(Nat) /\ Len(s \o file.rest) = Len(s) + Len(file.rest)
      /\ \A i \in 1 .. Len(s) + Len(file.rest) :
           (s \o file.rest)[i] = IF i <= Len(s) THEN s[i] ELSE file.rest[i - Len(s)]
  BY <1>3, ConcatProperties
<1>6. blocks = s \o file.rest
  BY DEF RealBlocks, s
<1> HIDE DEF blocks
<1>7. Len(file.rest) \in Nat
  OBVIOUS
<1>8. \A i \in 1 .. Direct : i \in 1 .. Len(s) + Len(file.rest) /\ i <= Len(s)
  BY <1>1, <1>4, <1>7
<1>9. /\ blocks \in Seq(Nat) /\ Len(blocks) = Direct + Len(file.rest)
      /\ \A i \in 1 .. Direct : blocks[i] = file.block[i]
  BY <1>4, <1>5, <1>6, <1>8
<1>10. DOMAIN blocks = 1 .. Len(blocks) /\ \A i \in 1 .. Len(blocks) : blocks[i] \in Nat
  BY <1>9
<1>11. Range(blocks) \subseteq Nat
  BY <1>10 DEF Range
<1>12. \A i \in 1 .. Direct : i \in DOMAIN blocks
  BY <1>1, <1>7, <1>9, <1>10
<1>13. \A i \in 1 .. Direct : file.block[i] \in Range(blocks)
  BY <1>9, <1>12 DEF Range
<1> QED
  BY <1>2, <1>9, <1>11, <1>13 DEF blocks

LEMMA InodeIs ==
  ASSUME image \in Images, image.mounted, NEW ino \in DOMAIN image.inode
  PROVE  LET file == image.inode[ino] IN
         /\ ino \in Nat \ {0} /\ file.type \in {"DIR", "FILE", "LINK"} /\ file.size \in Nat
         /\ file.block \in Seq(Nat) /\ Len(file.block) > Direct /\ file.rest \in Seq(Nat)
<1>1. Volume(image)
  BY ReadingAssumption DEF ReadingConstants
<1> QED
  BY <1>1 DEF Volume

LEMMA BytesOfBlock ==
  ASSUME NEW b \in Nat,
         b % BlockSpace \in DOMAIN image.block => image.block[b % BlockSpace] \in Bytes
  PROVE  BlockAt(b) \in Bytes
<1>1. [i \in 1 .. BlockBytes |-> "other"] \in Bytes
  BY Zenon DEF Bytes, Byte
<1> QED
  BY <1>1 DEF BlockAt

(* The blocks that are read of a file are bytes. *)
LEMMA FileIs ==
  ASSUME image \in Images, image.mounted, NEW ino \in DOMAIN image.inode,
         image.inode[ino].type # "DIR", NEW i \in 1 .. Direct, image.inode[ino].block[i] # 0
  PROVE  BlockAt(image.inode[ino].block[i]) \in Bytes
<1> DEFINE file == image.inode[ino]
           b == file.block[i]
<1>1. Volume(image)
  BY ReadingAssumption DEF ReadingConstants
<1>2. /\ file.type \in {"FILE", "LINK"} /\ file.block \in Seq(Nat) /\ Len(file.block) > Direct
      /\ file.rest \in Seq(Nat)
  BY InodeIs
<1>0. [1 .. BlockBytes -> STRING] \subseteq Bytes
  BY DEF Bytes, Byte
<1>3. b \in Nat \ {0} /\ b \in Range(RealBlocks(file)) \ {0}
  BY <1>2, DirectIs
<1>4. BlockSpace \in Nat \ {0}
  BY BlockSizes
<1>5. CASE file.type = "FILE"
  <2>0. b < image.blocks /\ image.blocks \in 0 .. BlockSpace - 1
        /\ (b \in DOMAIN image.block => image.block[b] \in [1 .. BlockBytes -> STRING])
    BY <1>1, <1>3, <1>5 DEF Volume
  <2>1. /\ b < image.blocks /\ image.blocks \in 0 .. BlockSpace - 1
        /\ b \in DOMAIN image.block => image.block[b] \in Bytes
    BY <1>0, <2>0
  <2>2. b % BlockSpace = b
    <3> HIDE DEF b
    <3>1. b < BlockSpace
      BY <1>3, <1>4, <2>1
    <3> QED
      BY <1>3, <1>4, <3>1, WithinSpace
  <2> HIDE DEF b
  <2>3. b % BlockSpace \in DOMAIN image.block => image.block[b % BlockSpace] \in Bytes
    BY <2>1, <2>2
  <2>4. BlockAt(b) \in Bytes
    BY <1>3, <2>3, BytesOfBlock
  <2> QED
    BY <2>4 DEF b
<1>6. CASE file.type = "LINK"
  <2>0. b % BlockSpace \in DOMAIN image.block =>
          image.block[b % BlockSpace] \in [1 .. BlockBytes -> STRING]
    BY <1>1, <1>6 DEF Volume
  <2>1. b % BlockSpace \in DOMAIN image.block => image.block[b % BlockSpace] \in Bytes
    BY <1>0, <2>0
  <2> HIDE DEF b
  <2>4. BlockAt(b) \in Bytes
    BY <1>3, <2>1, BytesOfBlock
  <2> QED
    BY <2>4 DEF b
<1> QED
  BY <1>2, <1>5, <1>6

LEMMA ChunkIs ==
  ASSUME NEW file, file.size \in Nat, NEW i \in Nat \ {0}, (i - 1) * BlockBytes < file.size,
         BlockAt(file.block[i]) \in Bytes
  PROVE  /\ Chunk(file, i) \in Seq(Byte)
         /\ Len(Chunk(file, i)) = (IF i * BlockBytes <= file.size THEN BlockBytes
                                   ELSE file.size - (i - 1) * BlockBytes)
         /\ Len(Chunk(file, i)) \in 1 .. BlockBytes
         /\ \A j \in 1 .. Len(Chunk(file, i)) : Chunk(file, i)[j] = BlockAt(file.block[i])[j]
<1> DEFINE x == (i - 1) * BlockBytes
           y == i * BlockBytes
           size == file.size
           m == Min({BlockBytes, size - x})
           s == BlockAt(file.block[i])
<1>1. BlockBytes \in Nat \ {0} /\ y = x + BlockBytes /\ x \in Nat /\ y \in Nat
  BY BlockSizes, TimesLess
<1>2. Chunk(file, i) = SubSeq(s, 1, m)
  BY DEF Chunk
<1>3. size \in Nat /\ x < size /\ s \in Bytes
  OBVIOUS
<1> HIDE DEF x, y, s, size
<1>4. m = IF y <= size THEN BlockBytes ELSE size - x
  <2>1. size - x \in Nat
    BY <1>1, <1>3
  <2>2. m = IF BlockBytes <= size - x THEN BlockBytes ELSE size - x
    BY <1>1, <2>1, LeastOfTwo
  <2> QED
    BY <1>1, <1>3, <2>2
<1>5. m \in 1 .. BlockBytes /\ m \in Int
  BY <1>1, <1>3, <1>4
<1> HIDE DEF m
<1>6. \A j \in 1 .. m : s[j] \in Byte
  <2>1. \A j \in 1 .. m : j \in 1 .. BlockBytes
    BY <1>1, <1>5
  <2> QED
    BY <1>3, <2>1 DEF Bytes
<1> DEFINE t == SubSeq(s, 1, m)
<1>7. t \in Seq(Byte) /\ Len(t) = m /\ \A j \in 1 .. m : t[j] = s[j]
  <2>1. /\ t \in Seq(Byte) /\ Len(t) = (IF 1 <= m THEN m - 1 + 1 ELSE 0)
        /\ \A j \in 1 .. m - 1 + 1 : t[j] = s[1 + j - 1]
    <3>1. 1 \in Int
      OBVIOUS
    <3> QED
      BY <1>5, <1>6, <3>1, SubSeqProperties
  <2>2. \A j \in 1 .. m : j \in 1 .. m - 1 + 1 /\ 1 + j - 1 = j
    BY <1>5
  <2> HIDE DEF t
  <2> QED
    BY <1>5, <2>1, <2>2
<1> HIDE DEF t
<1>8. Chunk(file, i) = t
  BY <1>2 DEF t
<1>9. /\ t \in Seq(Byte) /\ Len(t) \in 1 .. BlockBytes
      /\ Len(t) = (IF y <= size THEN BlockBytes ELSE size - x)
      /\ \A j \in 1 .. Len(t) : t[j] = s[j]
  BY <1>4, <1>5, <1>7
<1> QED
  BY <1>8, <1>9 DEF y, x, size, s

(* The blocks that are copied are the first few. *)
LEMMA CopiedIs ==
  ASSUME NEW ino, Readable(ino)
  PROVE  LET file == image.inode[ino]
             k == Cardinality(Copied(file)) IN
         /\ file.size \in Nat /\ k \in 0 .. Direct /\ Copied(file) = 1 .. k
         /\ \A i \in 1 .. k : /\ i \in Nat \ {0} /\ (i - 1) * BlockBytes < file.size
                              /\ BlockAt(file.block[i]) \in Bytes
         /\ \A i \in Wanted(file) : /\ i \in 1 .. Direct /\ (i - 1) * BlockBytes < file.size
                                    /\ BlockAt(file.block[i]) \in Bytes
<1> DEFINE file == image.inode[ino]
           T == Copied(file)
<1>1. file.size \in Nat /\ BlockBytes \in Nat /\ Direct \in Nat
  BY InodeIs, BlockSizes DEF Readable
<1>2. ASSUME NEW i \in Wanted(file)
      PROVE  /\ i \in 1 .. Direct /\ (i - 1) * BlockBytes < file.size
             /\ \A j \in 1 .. i : file.block[j] # 0
             /\ BlockAt(file.block[i]) \in Bytes
  <2>1. /\ i \in 1 .. Direct /\ (i - 1) * BlockBytes < file.size
        /\ \A j \in 1 .. i : file.block[j] # 0
    BY DEF Wanted
  <2>2. i \in 1 .. i
    BY <1>1, <2>1
  <2>3. BlockAt(file.block[i]) \in Bytes
    BY <2>1, <2>2, FileIs DEF Readable
  <2> QED
    BY <2>1, <2>3
<1>3. T \subseteq Wanted(file)
  BY DEF Copied
<1>4. ASSUME NEW i \in T, NEW j \in 1 .. i PROVE j \in T
  <2>1. i \in 1 .. Direct /\ (i - 1) * BlockBytes < file.size
    BY <1>2, <1>3
  <2>2. j \in 1 .. Direct /\ i - 1 \in Nat /\ j - 1 \in Nat /\ j - 1 <= i - 1
    BY <1>1, <2>1
  <2>3. (j - 1) * BlockBytes < file.size
    <3> DEFINE x == (j - 1) * BlockBytes
               y == (i - 1) * BlockBytes
    <3>1. x \in Nat /\ y \in Nat /\ x <= y
      BY <1>1, <2>2, TimesLe
    <3>2. y < file.size
      BY <2>1
    <3> HIDE DEF x, y, file
    <3>3. x < file.size
      BY <1>1, <3>1, <3>2
    <3> QED
      BY <3>3 DEF x
  <2>4. \A l \in 1 .. j : l \in 1 .. i
    BY <2>1, <2>2
  <2>5. \A l \in 1 .. j : file.block[l] # 0
    BY <1>2, <1>3, <2>4
  <2>6. j \in Wanted(file)
    BY <2>2, <2>3, <2>5 DEF Wanted
  <2>7. \A l \in 1 .. j : Accepted(file.block[l])
    BY <2>4 DEF Copied
  <2> QED
    BY <2>6, <2>7 DEF Copied
<1>5. T \subseteq 1 .. Direct
  BY <1>2, <1>3
<1> HIDE DEF T
<1>6. Cardinality(T) \in 0 .. Direct /\ T = 1 .. Cardinality(T)
  BY <1>1, <1>4, <1>5, InitialIs
<1> DEFINE k == Cardinality(T)
<1>7. \A i \in 1 .. k : /\ i \in Nat \ {0} /\ (i - 1) * BlockBytes < file.size
                        /\ BlockAt(file.block[i]) \in Bytes
  <2> TAKE i \in 1 .. k
  <2>1. i \in Wanted(file)
    BY <1>3, <1>6
  <2>2. i \in Nat \ {0}
    BY <1>6
  <2> QED
    BY <1>2, <2>1, <2>2
<1> QED
  BY <1>1, <1>2, <1>6, <1>7 DEF T

(* What a call for an inode puts into the buffer, and where. *)
LEMMA LoadedIs ==
  ASSUME NEW ino, Readable(ino), ino # 0
  PROVE  LET file == image.inode[ino]
             k == Cardinality(Copied(file))
             bytes == Loaded(ino) IN
         /\ bytes \in Seq(Byte)
         /\ k = 0 => bytes = <<>>
         /\ k > 0 => Len(bytes) = (k - 1) * BlockBytes + Len(Chunk(file, k))
         /\ \A i \in 1 .. k : \A j \in 1 .. Len(Chunk(file, i)) :
              bytes[(i - 1) * BlockBytes + j] = Chunk(file, i)[j]
<1> DEFINE file == image.inode[ino]
           k == Cardinality(Copied(file))
           bytes == Loaded(ino)
           seqs == [i \in 1 .. k |-> Chunk(file, i)]
<1>1. bytes = FlattenSeq(seqs)
  BY DEF Loaded, CopiedBytes, Readable, NULL
<1>2. /\ file.size \in Nat /\ k \in 0 .. Direct /\ Direct \in Nat /\ BlockBytes \in Nat
      /\ \A i \in 1 .. k : /\ i \in Nat \ {0} /\ (i - 1) * BlockBytes < file.size
                           /\ BlockAt(file.block[i]) \in Bytes
  BY CopiedIs, BlockSizes
<1> HIDE DEF file, bytes
<1>3. \A i \in 1 .. k : Chunk(file, i) \in Seq(Byte)
  BY <1>2, ChunkIs
<1> HIDE DEF k
<1>4. seqs \in Seq(Seq(Byte)) /\ Len(seqs) = k /\ \A i \in 1 .. k : seqs[i] = Chunk(file, i)
  BY <1>2, <1>3
<1> HIDE DEF seqs
<1>5. CASE k = 0
  <2>1. seqs = <<>>
    BY <1>4, <1>5
  <2>2. bytes = <<>>
    BY <1>1, <2>1 DEF FlattenSeq
  <2> QED
    BY <1>2, <1>5, <2>2 DEF k, file, bytes
<1>6. CASE k # 0
  <2>1. seqs # <<>> /\ k \in 1 .. k /\ k > 0
    BY <1>2, <1>4, <1>6
  <2>2. ASSUME NEW i \in 1 .. Len(seqs) - 1 PROVE Len(seqs[i]) = BlockBytes
    <3>1. i \in 1 .. k /\ i + 1 \in 1 .. k /\ (i + 1) - 1 = i
      BY <1>2, <1>4
    <3>2. i * BlockBytes < file.size
      BY <1>2, <3>1
    <3>3. Len(Chunk(file, i)) = (IF i * BlockBytes <= file.size THEN BlockBytes
                                   ELSE file.size - (i - 1) * BlockBytes)
      BY <1>2, <3>1, ChunkIs
    <3> DEFINE y == i * BlockBytes
    <3>4. y \in Nat /\ y < file.size
      BY <1>2, <3>1, <3>2, TimesLess
    <3>5. y <= file.size
      <4> HIDE DEF y
      <4> QED
        BY <1>2, <3>4
    <3> QED
      BY <1>4, <3>1, <3>3, <3>5
  <2>3. /\ FlattenSeq(seqs) \in Seq(Byte)
        /\ Len(FlattenSeq(seqs)) = (Len(seqs) - 1) * BlockBytes + Len(seqs[Len(seqs)])
        /\ \A m \in 1 .. Len(seqs) : \A j \in 1 .. Len(seqs[m]) :
             FlattenSeq(seqs)[(m - 1) * BlockBytes + j] = seqs[m][j]
    <3>1. \A i \in 1 .. Len(seqs) - 1 : Len(seqs[i]) = BlockBytes
      BY <2>2
    <3>2. BlockBytes \in Nat /\ seqs \in Seq(Seq(Byte)) /\ seqs # <<>>
      BY <1>2, <1>4, <2>1
    <3> QED
      BY <3>1, <3>2, FlatBytes
  <2>4. bytes \in Seq(Byte) /\ Len(bytes) = (k - 1) * BlockBytes + Len(Chunk(file, k))
    BY <1>1, <1>4, <2>1, <2>3
  <2>5. \A i \in 1 .. k : \A j \in 1 .. Len(Chunk(file, i)) :
             bytes[(i - 1) * BlockBytes + j] = Chunk(file, i)[j]
    <3>1. bytes = FlattenSeq(seqs) /\ Len(seqs) = k /\ \A i \in 1 .. k : seqs[i] = Chunk(file, i)
      BY <1>1, <1>4
    <3> HIDE DEF bytes, seqs, k, file
    <3> QED
      BY <2>3, <3>1
  <2> QED
    BY <1>6, <2>4, <2>5 DEF k, file, bytes
<1> QED
  BY <1>5, <1>6

(* The entries that ext2_find_inode looks at are the directory's own.      *)
LEMMA EntriesIs ==
  ASSUME image \in Images, image.mounted, NEW dir \in DOMAIN image.inode, Searched(dir)
  PROVE  LET file == image.inode[dir]
             all == BlockAt(file.block[1]) IN
         /\ all \in Seq(EntryType)
         /\ all = image.block[file.block[1]]
         /\ \A i \in DOMAIN all : all[i] \in RealEntries(image, file)
         /\ \A i \in DOMAIN all : i \in Entries(dir) <=> all[i].inode # 0
<1> DEFINE file == image.inode[dir]
           b == file.block[1]
           es == image.block[b]
           all == BlockAt(b)
<1>1. Volume(image)
  BY ReadingAssumption DEF ReadingConstants
<1>2. /\ file.type = "DIR" /\ file.block \in Seq(Nat) /\ Len(file.block) > Direct
      /\ file.rest \in Seq(Nat)
  BY InodeIs DEF Searched
<1>3. b = file.block[1] /\ b # 0
  BY Zenon DEF Searched
<1>4. \A c \in Range(RealBlocks(file)) \ {0} :
        /\ c < BlockSpace /\ c \in DOMAIN image.block
        /\ image.block[c] \in Seq(EntryType)
        /\ \A i, j \in DOMAIN image.block[c] :
             i < j /\ image.block[c][i].inode = 0 => image.block[c][j].inode = 0
  BY <1>1, <1>2, Zenon DEF Volume, EntryType
<1> HIDE DEF file, b
<1>5. b \in Nat /\ b \in Range(RealBlocks(file)) \ {0}
  <2>1. 1 \in 1 .. Direct
    BY BlockSizes
  <2> QED
    BY <1>2, <1>3, <2>1, DirectIs
<1>6. /\ b < BlockSpace /\ b \in DOMAIN image.block /\ es \in Seq(EntryType)
      /\ \A i, j \in DOMAIN es : i < j /\ es[i].inode = 0 => es[j].inode = 0
  BY <1>4, <1>5, Zenon
<1>7. all = es
  <2>1. b % BlockSpace = b
    BY <1>5, <1>6, BlockSizes, WithinSpace
  <2> QED
    BY <1>6, <2>1, Zenon DEF BlockAt
<1>8. ASSUME NEW i \in DOMAIN es PROVE es[i] \in RealEntries(image, file)
  <2>1. \A x \in Range(es) : x \in RealEntries(image, file)
    BY <1>5, Zenon DEF RealEntries
  <2> HIDE DEF es
  <2> QED
    BY <2>1 DEF Range
<1>9. Entries(dir) = {l \in DOMAIN es : \A j \in 1 .. l : es[j].inode # 0}
  BY <1>7, Zenon DEF Entries, file, b
<1> HIDE DEF es
<1>10. ASSUME NEW i \in DOMAIN es PROVE i \in Entries(dir) <=> es[i].inode # 0
  <2>1. i \in Nat \ {0} /\ i \in 1 .. i /\ \A j \in 1 .. i : j \in DOMAIN es /\ (j = i \/ j < i)
    <3>1. Len(es) \in Nat /\ DOMAIN es = 1 .. Len(es)
      BY <1>6
    <3> QED
      BY <3>1
  <2>2. ASSUME es[i].inode # 0, NEW j \in 1 .. i PROVE es[j].inode # 0
    BY <1>6, <2>1, <2>2
  <2> QED
    BY <1>9, <2>1, <2>2
<1> QED
  BY <1>6, <1>7, <1>8, <1>10, Zenon DEF file, b, es, all

(* One component of a path: an entry of that name, or none that is.        *)
LEMMA EntryIs ==
  ASSUME image \in Images, image.mounted, NEW dir \in DOMAIN image.inode, NEW name
  PROVE  LET file == image.inode[dir]
             e == EntryOf(dir, name) IN
         \/ /\ e \in DOMAIN image.inode /\ e # 0 /\ file.type = "DIR"
            /\ \E entry \in RealEntries(image, file) : entry.name = name /\ entry.inode = e
         \/ /\ e = 0
            /\ Searched(dir) =>
                 \A i \in DOMAIN BlockAt(file.block[1]) :
                   BlockAt(file.block[1])[i].name = name =>
                     BlockAt(file.block[1])[i].inode = 0
<1> DEFINE file == image.inode[dir]
           b == file.block[1]
           all == BlockAt(b)
           hits == {i \in Entries(dir) : all[i].name = name}
           e == EntryOf(dir, name)
<1>1. dir # 0
  BY InodeIs
<1>2. /\ Searched(dir) =>
           /\ file.type = "DIR" /\ all \in Seq(EntryType)
           /\ \A i \in DOMAIN all : all[i] \in RealEntries(image, file)
           /\ \A i \in DOMAIN all : i \in Entries(dir) <=> all[i].inode # 0
      /\ Searched(dir) => e = IF hits = {} THEN 0 ELSE all[Min(hits)].inode
      /\ Entries(dir) \subseteq DOMAIN all
  <2>1. ASSUME Searched(dir)
        PROVE  /\ file.type = "DIR" /\ all \in Seq(EntryType)
               /\ \A i \in DOMAIN all : all[i] \in RealEntries(image, file)
               /\ \A i \in DOMAIN all : i \in Entries(dir) <=> all[i].inode # 0
    BY <2>1, EntriesIs, Zenon DEF Searched
  <2>2. Searched(dir) => e = IF hits = {} THEN 0 ELSE all[Min(hits)].inode
    BY <1>1, Zenon DEF EntryOf, NULL
  <2>3. Entries(dir) \subseteq DOMAIN all
    BY Zenon DEF Entries
  <2> QED
    BY <2>1, <2>2, <2>3, Zenon
<1>3. CASE ~Searched(dir)
  <2>1. e = 0
    BY <1>1, <1>3, Zenon DEF EntryOf, NULL
  <2> QED
    BY <1>3, <2>1, Zenon
<1> HIDE DEF file, b, all, e
<1>4. CASE Searched(dir)
  <2>1. CASE hits = {}
    <3>1. e = 0
      BY <1>2, <1>4, <2>1
    <3>2. \A i \in DOMAIN all : all[i].name = name => all[i].inode = 0
      BY <1>2, <1>4, <2>1
    <3> QED
      BY <3>1, <3>2, Zenon DEF file, b, all, e
  <2>2. CASE hits # {}
    <3> DEFINE m == Min(hits)
    <3>1. m \in hits
      <4>1. hits \subseteq Nat
        BY <1>2, <1>4
      <4> HIDE DEF hits
      <4> QED
        BY <2>2, <4>1, MinIs
    <3>2. e = all[m].inode
      BY <1>2, <1>4, <2>2
    <3> HIDE DEF m
    <3>3. m \in Entries(dir) /\ m \in DOMAIN all /\ all[m].name = name
      BY <1>2, <3>1
    <3>4. all[m] \in EntryType /\ all[m] \in RealEntries(image, file) /\ all[m].inode # 0
      BY <1>2, <1>4, <3>3
    <3>5. e \in DOMAIN image.inode /\ e # 0
      BY <3>2, <3>4 DEF EntryType
    <3>6. file.type = "DIR"
      BY <1>2, <1>4
    <3> QED
      BY <3>2, <3>3, <3>4, <3>5, <3>6, Zenon DEF file, e
  <2> QED
    BY <2>1, <2>2
<1> QED
  BY <1>3, <1>4

LEMMA NamesAre ==
  ASSUME NEW path \in Seq(STRING), IsAbsolute(path)
  PROVE  LET names == NamesOf(path) IN
         /\ Len(path) \in Nat /\ Len(path) >= 2 /\ Len(names) \in Nat
         /\ path[Len(path)] = "" => Len(names) = Len(path) - 2
         /\ path[Len(path)] # "" => Len(names) = Len(path) - 1
         /\ \A i \in 1 .. Len(names) : names[i] = path[i + 1]
<1>0. Len(path) > 1
  BY Zenon DEF IsAbsolute
<1>1. Len(path) \in Nat /\ Len(path) >= 2 /\ path # <<>>
  BY <1>0
<1>2. /\ Last(path) = path[Len(path)] /\ Front(path) \in Seq(STRING)
      /\ Len(Front(path)) = Len(path) - 1
      /\ \A i \in 1 .. Len(path) - 1 : Front(path)[i] = path[i]
  BY <1>1, FrontIs
<1>3. ASSUME NEW s \in Seq(STRING), Len(s) >= 1
      PROVE  Len(Tail(s)) = Len(s) - 1 /\ \A i \in 1 .. Len(s) - 1 : Tail(s)[i] = s[i + 1]
  <2>1. s # <<>>
    BY <1>3
  <2> QED
    BY <2>1, HeadTailProperties
<1>4. CASE path[Len(path)] = ""
  <2>1. NamesOf(path) = Tail(Front(path))
    BY <1>2, <1>4 DEF NamesOf
  <2>2. /\ Len(NamesOf(path)) = Len(Front(path)) - 1
        /\ \A i \in 1 .. Len(Front(path)) - 1 : NamesOf(path)[i] = Front(path)[i + 1]
    BY <1>1, <1>2, <1>3, <2>1
  <2>3. \A i \in 1 .. Len(path) - 2 : i + 1 \in 1 .. Len(path) - 1
    BY <1>1
  <2>4. Len(Front(path)) - 1 = Len(path) - 2
    BY <1>1, <1>2
  <2> QED
    <3>1. /\ Len(NamesOf(path)) \in Nat /\ Len(NamesOf(path)) = Len(path) - 2
          /\ \A i \in 1 .. Len(NamesOf(path)) : NamesOf(path)[i] = path[i + 1]
      BY <1>1, <1>2, <2>2, <2>3, <2>4
    <3> QED
      BY <1>1, <1>4, <3>1, Zenon
<1>5. CASE path[Len(path)] # ""
  <2>1. NamesOf(path) = Tail(path)
    BY <1>2, <1>5 DEF NamesOf
  <2>2. /\ Len(NamesOf(path)) = Len(path) - 1
        /\ \A i \in 1 .. Len(path) - 1 : NamesOf(path)[i] = path[i + 1]
    BY <1>1, <1>3, <2>1
  <2> QED
    <3>1. /\ Len(NamesOf(path)) \in Nat /\ Len(NamesOf(path)) = Len(path) - 1
          /\ \A i \in 1 .. Len(NamesOf(path)) : NamesOf(path)[i] = path[i + 1]
      BY <1>1, <2>2
    <3> QED
      BY <1>1, <1>5, <3>1, Zenon
<1> QED
  BY <1>4, <1>5, Zenon

LEMMA InodesAre ==
  ASSUME image \in Images, image.mounted, NEW path \in Seq(STRING), IsAbsolute(path)
  PROVE  LET f == InodesFrom(path)
             names == NamesOf(path) IN
         /\ FindInode(path) = f[Len(names)]
         /\ f[0] = Ext2Root
         /\ \A i \in 1 .. Len(names) : f[i] = EntryOf(f[i - 1], names[i])
         /\ \A i \in 0 .. Len(names) : f[i] \in {0} \cup DOMAIN image.inode
<1> DEFINE names == NamesOf(path)
           n == Len(names)
           N == {0} \cup DOMAIN image.inode
           Next1(i, x) == EntryOf(x, names[i])
           Walks(f) == f = [i \in 0 .. n |-> IF i = 0 THEN Ext2Root ELSE Next1(i, f[i - 1])]
           w == InodesFrom(path)
<1>1. \A x \in N, i \in 1 .. n : Next1(i, x) \in N
  <2> TAKE x \in N, i \in 1 .. n
  <2>1. CASE x = 0
    <3>1. Next1(i, x) = 0
      BY <2>1 DEF EntryOf, NULL
    <3> QED
      BY <3>1
  <2>2. CASE x \in DOMAIN image.inode
    <3>1. EntryOf(x, names[i]) \in N
      BY <2>2, EntryIs
    <3> QED
      BY <3>1
  <2> QED
    BY <2>1, <2>2
<1>2. w = CHOOSE f : Walks(f)
  BY DEF InodesFrom
<1>3. Ext2Root \in N /\ n \in Nat
  <2>1. n \in Nat
    BY NamesAre
  <2>2. Volume(image)
    BY ReadingAssumption DEF ReadingConstants
  <2>3. Ext2Root \in N
    BY <2>2, Zenon DEF Volume
  <2> QED
    BY <2>1, <2>3
<1>0. FindInode(path) = w[n]
  BY Zenon DEF FindInode, InodesFrom, NamesOf, NULL
<1> HIDE DEF N, Next1, w, names, n
<1>4. PICK g \in [0 .. n -> N] :
        g[0] = Ext2Root /\ \A i \in 1 .. n : g[i] = Next1(i, g[i - 1])
  <2> DEFINE step == [i \in 1 .. n |-> [x \in N |-> Next1(i, x)]]
  <2>1. step \in Steps(n, N)
    BY <1>1 DEF Steps
  <2>2. \A i \in 1 .. n, x \in N : step[i][x] = Next1(i, x)
    OBVIOUS
  <2> HIDE DEF step
  <2>3. PICK f : Follows(f, n, N, Ext2Root, step)
    BY <1>3, <2>1, Iterated, Zenon
  <2>4. f \in [0 .. n -> N] /\ f[0] = Ext2Root /\ \A i \in 1 .. n : f[i] = step[i][f[i - 1]]
    BY <2>3 DEF Follows
  <2>5. \A i \in 1 .. n : f[i - 1] \in N
    BY <1>3, <2>4
  <2>9. ASSUME NEW i \in 1 .. n PROVE f[i] = Next1(i, f[i - 1])
    BY <2>2, <2>4, <2>5, Zenon
  <2> QED
    BY <2>4, <2>9, Zenon
<1>8. Walks(g)
  <2>1. g = [i \in 0 .. n |-> g[i]]
    OBVIOUS
  <2>2. \A i \in 0 .. n : g[i] = IF i = 0 THEN Ext2Root ELSE Next1(i, g[i - 1])
    <3>1. \A i \in 0 .. n : i = 0 \/ i \in 1 .. n
      BY <1>3
    <3> QED
      BY <1>4, <3>1
  <2>3. [i \in 0 .. n |-> g[i]] = [i \in 0 .. n |-> IF i = 0 THEN Ext2Root ELSE Next1(i, g[i - 1])]
    BY <2>2
  <2> QED
    BY <2>1, <2>3, Zenon
<1>9. Walks(w)
  <2> HIDE DEF Walks
  <2> QED
    BY <1>2, <1>8
<1>10. \A i \in 0 .. n : w[i] = IF i = 0 THEN Ext2Root ELSE Next1(i, w[i - 1])
  <2> TAKE i \in 0 .. n
  <2>1. w[i] = [j \in 0 .. n |-> IF j = 0 THEN Ext2Root ELSE Next1(j, w[j - 1])][i]
    BY <1>9, Zenon
  <2> QED
    BY <2>1, Zenon
<1>11. w[0] = Ext2Root /\ \A i \in 1 .. n : w[i] = Next1(i, w[i - 1])
  <2>1. 0 \in 0 .. n /\ \A i \in 1 .. n : i \in 0 .. n /\ i # 0
    BY <1>3
  <2> QED
    BY <1>10, <2>1
<1>12. \A i \in 0 .. n : w[i] \in N
  <2> DEFINE U == {i \in 0 .. n : w[i] \in N}
  <2>1. 0 \in U
    BY <1>3, <1>11
  <2>2. ASSUME NEW i \in 1 .. n, i - 1 \in U PROVE i \in U
    <3>1. i \in 0 .. n /\ w[i - 1] \in N
      BY <1>3, <2>2
    <3>2. w[i] = Next1(i, w[i - 1])
      BY <1>11
    <3> QED
      BY <1>1, <3>1, <3>2
  <2> HIDE DEF U
  <2>3. 0 .. n \subseteq U
    BY <1>3, <2>1, <2>2, UpTo
  <2> QED
    BY <2>3 DEF U
<1> QED
  BY <1>0, <1>11, <1>12 DEF w, n, N, Next1, names

(* ext2_find_inode finds an inode, or nothing. *)
LEMMA InodeFound ==
  ASSUME image \in Images, NEW path \in Seq(STRING)
  PROVE  LET ino == FindInode(path) IN
         \/ ino = 0
         \/ image.mounted /\ IsAbsolute(path) /\ ino \in DOMAIN image.inode /\ ino # 0
<1>1. CASE ~image.mounted \/ ~IsAbsolute(path)
  <2>1. FindInode(path) = 0
    BY <1>1 DEF FindInode, NULL
  <2> QED
    BY <2>1
<1>2. CASE image.mounted /\ IsAbsolute(path)
  <2>0. Len(NamesOf(path)) \in Nat
    BY <1>2, NamesAre, Zenon
  <2>1. Len(NamesOf(path)) \in 0 .. Len(NamesOf(path))
    BY <2>0
  <2>2. FindInode(path) \in {0} \cup DOMAIN image.inode
    BY <1>2, <2>1, InodesAre
  <2> QED
    BY <1>2, <2>2
<1> QED
  BY <1>1, <1>2

------------------------------------------------------------------------------
(* get_parent_and_name finds what fs_find has found before the last        *)
(* segment.                                                                *)
LEMMA StartIn ==
  ASSUME TreeIs(nodes), cwd \in 1 .. Len(nodes), NEW path
  PROVE  StartOf(path) \in 0 .. Len(nodes) /\ StartOf(path) \in 1 .. Len(nodes)
<1>1. Len(nodes) \in Nat /\ Len(nodes) >= 1
  BY DEF TreeIs
<1>2. StartOf(path) = 1 \/ StartOf(path) = cwd
  BY Zenon DEF StartOf
<1> QED
  BY <1>1, <1>2

LEMMA ParentWalk ==
  ASSUME TreeIs(nodes), cwd \in 1 .. Len(nodes), NEW path \in Texts
  PROVE  ParentOf(path) = WalkFrom(nodes, StartOf(path), path)[Len(path) - 1]
<1> DEFINE n == Len(path)
           w == WalkFrom(nodes, StartOf(path), path)
<1>1. n \in Nat \ {0} /\ path \in Seq(Names) /\ path # <<>>
  BY DEF Texts
<1>2. /\ w[0] = StartOf(path)
      /\ \A i \in 1 .. n : w[i] = Enter(nodes, w[i - 1], path[i])
  <2>1. n \in Nat
    BY <1>1
  <2> QED
    BY <2>1, WalkIs, StartIn
<1>3. CASE n = 1
  <2>1. ParentOf(path) = cwd
    BY <1>3 DEF ParentOf
  <2>2. StartOf(path) = cwd
    <3>1. ~(n > 1)
      BY <1>3
    <3> QED
      BY <3>1, Zenon DEF StartOf, IsAbsolute
  <2>3. n - 1 = 0
    BY <1>3
  <2> QED
    BY <1>2, <2>1, <2>2, <2>3, Zenon
<1>4. CASE n = 2 /\ path[1] = ""
  <2>0. n # 1 /\ n > 1 /\ n - 1 = 1 /\ 1 \in 1 .. n /\ 1 - 1 = 0
    <3>1. n = 2
      BY <1>4, Zenon
    <3> QED
      BY <3>1
  <2>1. ParentOf(path) = 1
    BY <1>4, <2>0, Zenon DEF ParentOf, Root
  <2>2. StartOf(path) = 1
    BY <1>4, <2>0, Zenon DEF StartOf, IsAbsolute
  <2>3. w[1] = Enter(nodes, w[0], path[1]) /\ w[0] = 1
    <3>1. w[1] = Enter(nodes, w[1 - 1], path[1])
      BY <1>2, <2>0
    <3> QED
      BY <1>2, <2>0, <2>2, <3>1, Zenon
  <2>4. w[1] = 1
    <3>1. path[1] \in {"", "."}
      BY <1>4, Zenon
    <3>2. 1 # 0
      OBVIOUS
    <3>3. Enter(nodes, 1, path[1]) = 1
      BY <3>1, <3>2 DEF Enter, NULL
    <3> QED
      BY <2>3, <3>3, Zenon
  <2> QED
    BY <2>0, <2>1, <2>4, Zenon
<1>5. CASE n # 1 /\ ~(n = 2 /\ path[1] = "")
  <2> DEFINE front == Front(path)
  <2>1. ParentOf(path) = FindIn(nodes, front)
    BY <1>5, Zenon DEF ParentOf, Find
  <2>2. /\ Len(front) \in Nat /\ Len(front) = n - 1 /\ \A i \in 1 .. Len(front) : front[i] = path[i]
        /\ Len(front) >= 1
    <3>1. n # 1
      BY <1>5, Zenon
    <3>2. Len(front) = n - 1 /\ \A i \in 1 .. n - 1 : front[i] = path[i]
      BY <1>1, FrontIs
    <3> HIDE DEF front
    <3> QED
      BY <1>1, <3>1, <3>2
  <2>3. StartOf(front) = StartOf(path)
    <3>1. n > 1 /\ (Len(front) > 1 <=> n # 2) /\ front[1] = path[1]
      <4>1. n # 1
        BY <1>5, Zenon
      <4> HIDE DEF front
      <4> QED
        BY <1>1, <2>2, <4>1
    <3> HIDE DEF front
    <3> QED
      BY <1>5, <3>1, Zenon DEF StartOf, IsAbsolute
  <2>4. Len(front) <= n /\ n \in Nat /\ Len(front) \in 0 .. Len(front)
    BY <1>1, <2>2
  <2> HIDE DEF front
  <2>5. \A i \in 0 .. Len(front) :
          WalkFrom(nodes, StartOf(path), front)[i] = WalkFrom(nodes, StartOf(path), path)[i]
    <3> DEFINE start == StartOf(path)
    <3>1. start \in 0 .. Len(nodes)
      BY StartIn
    <3>2. /\ Len(front) \in Nat /\ Len(path) \in Nat /\ Len(front) <= Len(path)
          /\ \A i \in 1 .. Len(front) : front[i] = path[i]
      BY <2>2, <2>4
    <3> HIDE DEF start
    <3>3. \A i \in 0 .. Len(front) :
            WalkFrom(nodes, start, front)[i] = WalkFrom(nodes, start, path)[i]
      BY <3>1, <3>2, WalkPrefix
    <3> QED
      BY <3>3 DEF start
  <2>6. FindIn(nodes, front) = WalkFrom(nodes, StartOf(front), front)[Len(front)]
    BY FindIs
  <2> QED
    BY <2>1, <2>2, <2>3, <2>4, <2>5, <2>6
<1> QED
  BY <1>3, <1>4, <1>5, Zenon

(* What a path that named nothing names once its file is made, if          *)
(* anything, is that file: no other node is written.                       *)
LEMMA MadeIs ==
  ASSUME TreeIs(nodes), cwd \in 1 .. Len(nodes), NEW path \in Texts, Find(path) = 0,
         CanCreate(ParentOf(path), path)
  PROVE  FindIn(Created(ParentOf(path), path, "FILE"), path) \in {0, Len(nodes) + 1}
<1> DEFINE n == Len(path)
           parent == ParentOf(path)
           tree == Created(parent, path, "FILE")
           start == StartOf(path)
           v == WalkFrom(nodes, start, path)
           w == WalkFrom(tree, start, path)
           seg == path[n]
<1>1. n \in Nat \ {0} /\ n - 1 \in 0 .. n /\ n \in 1 .. n /\ n \in 0 .. n
  BY DEF Texts
<1>2. TreeIs(tree) /\ Grown(nodes, tree) /\ Len(tree) = Len(nodes) + 1 /\ Len(nodes) \in Nat
  BY CanCreateIs DEF TreeIs
<1>3. parent # 0 /\ parent = v[n - 1]
  BY ParentWalk DEF CanCreate, IsDir, NULL
<1>4. parent \in 1 .. Len(nodes)
  <2>1. parent \in 0 .. Len(nodes)
    BY ParentIs
  <2> HIDE DEF parent
  <2> QED
    BY <1>2, <1>3, <2>1
<1>5. start \in 1 .. Len(nodes) /\ start \in 0 .. Len(nodes) /\ start \in 0 .. Len(tree)
  BY <1>2, StartIn
<1> HIDE DEF tree, start
<1>6. w[n - 1] = parent
  BY <1>1, <1>2, <1>3, <1>5, WalkGrown
<1>7. v[n] = Enter(nodes, v[n - 1], seg) /\ w[n] = Enter(tree, w[n - 1], seg)
  BY <1>1, <1>2, <1>5, WalkIs
<1>8. v[n] = 0 /\ FindIn(tree, path) = w[n]
  BY FindIs DEF Find, start
<1> HIDE DEF v, w, parent, n, seg
<1>9. Enter(nodes, parent, seg) = 0
  BY <1>3, <1>7, <1>8
<1>10. Ordinary(seg)
  <2>1. ASSUME seg \in {"", "."} PROVE FALSE
    <3>1. Enter(nodes, parent, seg) = parent
      BY <1>3, <2>1 DEF Enter, NULL
    <3> QED
      BY <1>3, <1>9, <3>1
  <2>2. seg # ".."
    <3>1. ASSUME seg = ".." PROVE Max({nodes[parent].parent, 1}) = 0
      <4>1. Enter(nodes, parent, seg) = Max({nodes[parent].parent, 1})
        BY <1>3, <3>1 DEF Enter, NULL, Root
      <4> QED
        BY <1>9, <4>1
    <3>2. nodes[parent].parent \in Nat
      BY <1>4, NodeIs DEF NodeType
    <3>3. Max({nodes[parent].parent, 1}) # 0
      BY <3>2, MaxIs
    <3> QED
      BY <3>1, <3>3
  <2> QED
    BY <2>1, <2>2, Zenon DEF Ordinary
<1>11. FindInDir(nodes, parent, seg) = 0 /\ w[n] = FindInDir(tree, parent, seg)
  <2>1. parent # 0
    BY <1>3
  <2>2. /\ Enter(nodes, parent, seg) = FindInDir(nodes, parent, seg)
        /\ Enter(tree, parent, seg) = FindInDir(tree, parent, seg)
    BY <1>10, <2>1 DEF Enter, NULL, Ordinary
  <2> QED
    BY <1>6, <1>7, <1>9, <2>2
<1> DEFINE f == FindInDir(tree, parent, seg)
<1>12. f = 0 \/ (f \in 2 .. Len(tree) /\ tree[f].parent = parent /\ tree[f].name = seg)
  <2>1. parent \in 1 .. Len(tree)
    BY <1>2, <1>4
  <2> QED
    BY <1>2, <2>1, FindInDirIs
<1>13. ~(f \in 2 .. Len(nodes) /\ nodes[f].parent = parent /\ nodes[f].name = seg)
  <2>1. \/ FindInDir(nodes, parent, seg) \in 2 .. Len(nodes)
        \/ \A m \in 2 .. Len(nodes) : nodes[m].parent = parent => nodes[m].name # seg
    BY <1>4, FindInDirIs
  <2> HIDE DEF f
  <2> QED
    BY <1>2, <1>11, <2>1
<1> HIDE DEF f
<1>14. f \in 2 .. Len(nodes) => tree[f].parent = nodes[f].parent /\ tree[f].name = nodes[f].name
  <2>1. f \in 2 .. Len(nodes) => f \in 1 .. Len(nodes)
    BY <1>2
  <2> QED
    BY <1>2, <2>1 DEF Grown
<1>15. f \in {0, Len(nodes) + 1}
  BY <1>2, <1>12, <1>13, <1>14
<1> QED
  BY <1>8, <1>11, <1>15 DEF f, tree, parent

(* What is written or made leaves the content of every other node.         *)
LEMMA CreatedContent ==
  ASSUME TreeIs(nodes), NEW parent \in 1 .. Len(nodes), NEW path, NEW type,
         NEW n \in 1 .. Len(nodes)
  PROVE  Created(parent, path, type)[n].content = nodes[n].content
<1> DEFINE N == Len(nodes)
           more == [nodes[parent] EXCEPT !.kids = Append(@, N + 1)]
           wide == [nodes EXCEPT ![parent] = more]
           last == Node(NameOf(path), type, parent, <<>>, "none")
<1>1. nodes \in [1 .. N -> NodeType] /\ N \in Nat
  BY DEF TreeIs
<1>2. Created(parent, path, type) = Append(wide, last)
  BY <1>1 DEF Created
<1>3. more.content = nodes[parent].content
  BY <1>1 DEF NodeType
<1> HIDE DEF more, last
<1>4. wide[n].content = nodes[n].content
  BY <1>1, <1>3
<1>5. Append(wide, last)[n] = wide[n]
  <2>1. wide \in Seq({nodes[i] : i \in 1 .. N} \cup {more}) /\ Len(wide) = N
    BY <1>1
  <2> HIDE DEF wide
  <2> QED
    BY <1>1, <2>1
<1> QED
  BY <1>2, <1>4, <1>5

LEMMA ContentStays ==
  ASSUME FilesInv, NEW path \in Texts,
         \/ \E type \in {"DIR", "FILE"} : Make(path, type)
         \/ \E data \in Data : WriteExisting(path, data) \/ WriteNew(path, data),
         NEW n \in 1 .. Len(nodes), n # Find(path)
  PROVE  nodes'[n].content = nodes[n].content
<1> DEFINE parent == ParentOf(path)
<1>1. TreeIs(nodes) /\ cwd \in 1 .. Len(nodes) /\ Len(nodes) \in Nat
  BY DEF FilesInv, TreeIs
<1>2. ASSUME CanCreate(parent, path), NEW type
      PROVE  Created(parent, path, type)[n].content = nodes[n].content
  <2>1. parent \in 0 .. Len(nodes) /\ parent # 0
    BY <1>1, <1>2, ParentIs DEF CanCreate, IsDir, NULL
  <2>2. parent \in 1 .. Len(nodes)
    <3> HIDE DEF parent
    <3> QED
      BY <1>1, <2>1
  <2> QED
    BY <1>1, <2>2, CreatedContent
<1>3. ASSUME NEW type \in {"DIR", "FILE"}, Make(path, type)
      PROVE  nodes'[n].content = nodes[n].content
  BY <1>2, <1>3 DEF Make
<1>4. ASSUME NEW data \in Data, WriteExisting(path, data)
      PROVE  nodes'[n].content = nodes[n].content
  <2> DEFINE node == Find(path)
  <2>1. CASE nodes[node].type = "FILE"
    <3>1. nodes' = [nodes EXCEPT ![node].content = data]
      BY <1>4, <2>1 DEF WriteExisting
    <3>2. n # node /\ n \in DOMAIN nodes
      BY <1>1 DEF TreeIs
    <3> HIDE DEF node
    <3> QED
      BY <3>1, <3>2
  <2> QED
    BY <1>4, <2>1 DEF WriteExisting
<1>5. ASSUME NEW data \in Data, WriteNew(path, data)
      PROVE  nodes'[n].content = nodes[n].content
  <2> DEFINE tree == Created(parent, path, "FILE")
             node == FindIn(tree, path)
  <2>1. CASE ~CanCreate(parent, path)
    BY <1>5, <2>1 DEF WriteNew
  <2>2. CASE CanCreate(parent, path)
    <3>1. nodes' = IF node # 0 THEN [tree EXCEPT ![node].content = data] ELSE tree
      BY <1>5, <2>2 DEF WriteNew, NULL
    <3>2. Find(path) = 0
      BY <1>5 DEF WriteNew, NULL
    <3>3. node \in {0, Len(nodes) + 1}
      BY <1>1, <2>2, <3>2, MadeIs
    <3>4. TreeIs(tree) /\ Len(tree) = Len(nodes) + 1
      BY <1>1, <2>2, CanCreateIs
    <3>5. n # node \/ node = 0
      <4> HIDE DEF node
      <4> QED
        BY <1>1, <3>3
    <3>6. n \in DOMAIN tree
      <4> HIDE DEF tree
      <4> QED
        BY <1>1, <3>4 DEF TreeIs
    <3>7. tree[n].content = nodes[n].content
      BY <1>2, <2>2
    <3> HIDE DEF tree, node
    <3> QED
      BY <3>1, <3>5, <3>6, <3>7
  <2> QED
    BY <2>1, <2>2
<1> QED
  BY <1>3, <1>4, <1>5

(* What a path names, it names in every later tree. *)
LEMMA NodeStays ==
  ASSUME FilesInv, TreeStep, NEW path \in Texts, Find(path) # 0
  PROVE  FindIn(nodes', path) = Find(path)
<1>1. TreeIs(nodes) /\ TreeIs(nodes') /\ Grown(nodes, nodes') /\ cwd \in 1 .. Len(nodes)
  BY DEF FilesInv, TreeStep, Grows
<1>2. Len(path) \in Nat /\ Len(path) \in 0 .. Len(path)
  BY PathIs
<1>3. StartOf(path) \in 1 .. Len(nodes)
  BY <1>1, StartIn
<1> DEFINE start == StartOf(path)
<1>4. WalkFrom(nodes, start, path)[Len(path)] # 0
  BY FindIs DEF Find
<1> HIDE DEF start
<1>5. WalkFrom(nodes', start, path)[Len(path)] = WalkFrom(nodes, start, path)[Len(path)]
  BY <1>1, <1>2, <1>3, <1>4, WalkGrown DEF start
<1>6. /\ FindIn(nodes', path) = WalkFrom(nodes', start, path)[Len(path)]
      /\ Find(path) = WalkFrom(nodes, start, path)[Len(path)]
  BY FindIs DEF Find, start
<1> QED
  BY <1>5, <1>6

------------------------------------------------------------------------------
(* What is loaded fits the buffer, and something is if a block is copied.  *)
LEMMA LoadedFits ==
  ASSUME NEW ino, Readable(ino), ino # 0
  PROVE  LET k == Cardinality(Copied(image.inode[ino])) IN
         /\ Loaded(ino) \in Seq(Byte) /\ Len(Loaded(ino)) \in Nat
         /\ Len(Loaded(ino)) <= Direct * BlockBytes
         /\ k \in Nat /\ (Loaded(ino) = <<>> <=> k = 0)
<1> DEFINE file == image.inode[ino]
           k == Cardinality(Copied(file))
           bytes == Loaded(ino)
           c == Len(Chunk(file, k))
<1>1. /\ bytes \in Seq(Byte) /\ (k = 0 => bytes = <<>>)
      /\ k > 0 => Len(bytes) = (k - 1) * BlockBytes + c
  BY LoadedIs
<1>2. /\ file.size \in Nat /\ k \in 0 .. Direct /\ Direct \in Nat /\ BlockBytes \in Nat
      /\ \A i \in 1 .. k : /\ i \in Nat \ {0} /\ (i - 1) * BlockBytes < file.size
                           /\ BlockAt(file.block[i]) \in Bytes
  BY CopiedIs, BlockSizes
<1>3. Direct * BlockBytes \in Nat
  BY <1>2, TimesLe
<1>4. CASE k = 0
  <2>1. bytes = <<>> /\ Len(bytes) = 0
    BY <1>1, <1>4
  <2> HIDE DEF bytes, k
  <2> DEFINE d == Direct * BlockBytes
  <2>2. Len(bytes) <= d
    <3> HIDE DEF d
    <3>1. d \in Nat
      BY <1>3 DEF d
    <3> QED
      BY <2>1, <3>1
  <2> QED
    BY <1>1, <1>2, <1>4, <2>1, <2>2 DEF bytes, k
<1>5. CASE k # 0
  <2>1. k \in Nat \ {0} /\ k \in 1 .. k /\ k > 0 /\ k <= Direct
    <3> HIDE DEF k
    <3> QED
      BY <1>2, <1>5
  <2>2. c \in 1 .. BlockBytes
    BY <1>2, <2>1, ChunkIs
  <2> DEFINE x == (k - 1) * BlockBytes
             y == k * BlockBytes
             d == Direct * BlockBytes
  <2>3. x \in Nat /\ y = x + BlockBytes /\ y <= d /\ d \in Nat
    <3> HIDE DEF k
    <3> QED
      BY <1>2, <2>1, TimesLess, TimesLe
  <2>4. Len(bytes) = x + c
    BY <1>1, <2>1
  <2> HIDE DEF x, y, d, c, bytes
  <2>5. Len(bytes) \in Nat \ {0} /\ Len(bytes) <= d
    BY <1>2, <2>2, <2>3, <2>4
  <2>6. bytes # <<>>
    BY <2>5
  <2> QED
    BY <1>1, <1>5, <2>1, <2>5, <2>6 DEF bytes, d
<1> QED
  BY <1>4, <1>5

(* Where the copying has come to is where what is loaded goes on.          *)
LEMMA WantedDown ==
  ASSUME NEW ino, Readable(ino), ino # 0, NEW at \in 0 .. Cardinality(Copied(image.inode[ino]))
  PROVE  LET file == image.inode[ino]
             k == Cardinality(Copied(file)) IN
         /\ at + 1 \notin Wanted(file) => Copied(file) = Wanted(file) /\ at = k
         /\ at + 1 \in Copied(file) => at + 1 \in 1 .. k
<1> DEFINE file == image.inode[ino]
           k == Cardinality(Copied(file))
<1>1. /\ file.size \in Nat /\ k \in 0 .. Direct /\ Copied(file) = 1 .. k
      /\ \A i \in Wanted(file) : i \in 1 .. Direct /\ (i - 1) * BlockBytes < file.size
      /\ Direct \in Nat /\ BlockBytes \in Nat
  BY CopiedIs, BlockSizes
<1>2. /\ Copied(file) \subseteq Wanted(file)
      /\ \A i \in Wanted(file) : \A j \in 1 .. i : file.block[j] # 0
  BY DEF Copied, Wanted
<1>3. ASSUME at + 1 \notin Wanted(file), NEW i \in Wanted(file) PROVE i \in 1 .. at
  <2>1. i \in 1 .. Direct
    BY <1>1
  <2>2. ASSUME ~(i <= at) PROVE FALSE
    <3>1. /\ at \in Nat /\ i - 1 \in Nat /\ at <= i - 1 /\ at + 1 \in 1 .. Direct
          /\ (at + 1) - 1 = at /\ \A j \in 1 .. at + 1 : j \in 1 .. i
      <4> HIDE DEF k
      <4> QED
        BY <1>1, <2>1, <2>2
    <3> DEFINE x == at * BlockBytes
               y == (i - 1) * BlockBytes
    <3>2. x \in Nat /\ y \in Nat /\ x <= y
      BY <1>1, <3>1, TimesLe
    <3>3. y < file.size
      BY <1>1
    <3>4. x < file.size
      <4> HIDE DEF x, y, file
      <4> QED
        BY <1>1, <3>2, <3>3
    <3>5. \A j \in 1 .. at + 1 : file.block[j] # 0
      BY <1>2, <3>1
    <3>6. at + 1 \in Wanted(file)
      BY <3>1, <3>4, <3>5 DEF Wanted
    <3> QED
      BY <1>3, <3>6
  <2> QED
    <3> HIDE DEF k
    <3> QED
      BY <1>1, <2>1, <2>2
<1>4. ASSUME at + 1 \notin Wanted(file) PROVE Copied(file) = Wanted(file) /\ at = k
  <2>1. Wanted(file) \subseteq 1 .. at
    BY <1>3, <1>4
  <2>2. at \in Nat /\ k \in Nat /\ at <= k
    <3>1. at \in 0 .. k
      OBVIOUS
    <3> HIDE DEF k
    <3> QED
      BY <1>1, <3>1
  <2>3. 1 .. at \subseteq 1 .. k
    <3> HIDE DEF k
    <3> QED
      BY <2>2
  <2>4. at = k
    <3>1. 1 .. k \subseteq 1 .. at
      BY <1>1, <1>2, <2>1
    <3> HIDE DEF k
    <3>2. k = 0 \/ k \in 1 .. k
      BY <2>2
    <3> QED
      BY <2>2, <3>1, <3>2
  <2> QED
    BY <1>1, <1>2, <2>1, <2>3, <2>4
<1> QED
  BY <1>1, <1>4

LEMMA ContentBytes ==
  ASSUME NEW content \in Data \cup {"default"}
  PROVE  BytesOf(content) \in Seq(Byte)
<1>1. BytesOf(content) \in Seq(STRING)
  BY ReadingAssumption DEF ReadingConstants
<1>2. STRING \subseteq Byte
  BY DEF Byte
<1>3. Seq(STRING) \subseteq Seq(Byte)
  BY <1>2, SeqMonotonic
<1> QED
  BY <1>1, <1>3

LEMMA TextPath ==
  ASSUME NEW path, path \in Viewed \/ path \in Read
  PROVE  path \in Seq(STRING) /\ (path \in Viewed => path \in Texts)
<1>1. CASE path \in Viewed
  <2>1. path \in Texts
    BY <1>1, ReadingAssumption DEF ReadingConstants, Texts
  <2> QED
    BY <2>1, PathIs
<1>2. CASE path \in Read /\ path \notin Viewed
  BY <1>2, ReadingAssumption DEF ReadingConstants
<1> QED
  BY <1>1, <1>2

LEMMA LoadedFound ==
  ASSUME image \in Images, NEW path \in Seq(STRING)
  PROVE  LET ino == FindInode(path) IN
         /\ Loaded(ino) \in Seq(Byte) /\ Len(Loaded(ino)) \in Nat
         /\ Len(Loaded(ino)) <= Direct * BlockBytes
         /\ ~Overwrites(ino) => Loaded(ino) = <<>>
         /\ ino # 0 /\ image.inode[ino].type # "DIR" => Readable(ino)
<1> DEFINE ino == FindInode(path)
<1>1. \/ ino = 0
      \/ image.mounted /\ IsAbsolute(path) /\ ino \in DOMAIN image.inode /\ ino # 0
  BY InodeFound
<1> HIDE DEF ino
<1>2. CASE ino = 0 \/ image.inode[ino].type = "DIR"
  <2>1. Loaded(ino) = <<>>
    BY <1>2 DEF Loaded, NULL
  <2> DEFINE d == Direct * BlockBytes
  <2>2. d \in Nat
    BY BlockSizes, TimesLe
  <2>3. 0 <= d
    <3> HIDE DEF d
    <3> QED
      BY <2>2
  <2>4. <<>> \in Seq(Byte) /\ Len(<<>>) = 0
    OBVIOUS
  <2> QED
    BY <1>2, <2>1, <2>3, <2>4 DEF ino
<1>3. CASE ~(ino = 0 \/ image.inode[ino].type = "DIR")
  <2>1. Readable(ino) /\ ino # 0
    BY <1>1, <1>3 DEF Readable
  <2> DEFINE k == Cardinality(Copied(image.inode[ino]))
  <2>2. /\ Loaded(ino) \in Seq(Byte) /\ Len(Loaded(ino)) \in Nat
        /\ Len(Loaded(ino)) <= Direct * BlockBytes
        /\ k \in Nat /\ (Loaded(ino) = <<>> <=> k = 0)
    BY <2>1, LoadedFits
  <2>3. ASSUME ~Overwrites(ino) PROVE Loaded(ino) = <<>>
    <3>1. Copied(image.inode[ino]) = {}
      BY <1>3, <2>3 DEF Overwrites, NULL
    <3>2. k = 0
      BY <3>1, FS_EmptySet
    <3> QED
      BY <2>2, <3>2
  <2> QED
    BY <2>1, <2>2, <2>3 DEF ino
<1> QED
  BY <1>2, <1>3

LEMMA ReadingIs ==
  ASSUME image \in Images, NEW tree, TreeIs(tree), cwd \in 1 .. Len(tree), NEW path \in Viewed
  PROVE  FsReadIn(tree, path) \in Readings
<1> DEFINE ino == FindInode(path)
           node == FindIn(tree, path)
<1>1. path \in Seq(STRING) /\ Len(path) \in Nat
  BY TextPath
<1>2. Loaded(ino) \in Seq(Byte)
  BY <1>1, LoadedFound
<1>3. node \in 0 .. Len(tree)
  BY <1>1, FoundIs
<1> HIDE DEF ino, node
<1>4. FsReadIn(tree, path) =
        CASE OnVolume(ino) -> Loaded(ino)
          [] ~OnVolume(ino) /\ (node # 0 /\ tree[node].type = "FILE")
               /\ tree[node].content # "none" -> BytesOf(tree[node].content)
          [] OTHER -> Missing
  BY DEF FsReadIn, ino, node, NULL
<1>5. node # 0 /\ tree[node].content # "none" => BytesOf(tree[node].content) \in Seq(Byte)
  <2>1. Len(tree) \in Nat
    BY DEF TreeIs
  <2>2. node # 0 => node \in 1 .. Len(tree)
    BY <1>3, <2>1
  <2> DEFINE content == tree[node].content
  <2>3. node # 0 => content \in Data \cup {"none", "default"}
    BY <2>2, NodeIs DEF NodeType
  <2> HIDE DEF content
  <2>4. node # 0 /\ content # "none" => BytesOf(content) \in Seq(Byte)
    BY <2>3, ContentBytes
  <2> QED
    BY <2>4 DEF content
<1> QED
  BY <1>2, <1>4, <1>5, Zenon DEF Readings

LEMMA ViewerIn ==
  ASSUME NEW v \in ViewerType
  PROVE  /\ v.pc \in {"idle", "copy", "find", "content", "decode"} /\ v.path \in Viewed \cup {<<>>}
         /\ v.ino \in Nat /\ v.at \in Nat /\ v.len \in Nat
         /\ v.content \in Data \cup {"none", "default"}
         /\ v.decoded \in Seq(Byte) /\ Len(v.decoded) \in Nat
         /\ v.seen \in SUBSET Readings /\ v.raced \in BOOLEAN
  BY DEF ViewerType

LEMMA AsleepIs ==
  ASSUME NEW b \in [1 .. Direct * BlockBytes -> Byte], NEW t
  PROVE  ViewerOk(Asleep, b, t)
<1>1. <<>> \in Seq(Byte)
  OBVIOUS
<1>2. Asleep \in ViewerType /\ Asleep.pc = "idle"
  BY <1>1 DEF Asleep, ViewerType, NULL
<1> QED
  BY <1>2 DEF ViewerOk, Opening, Copying, Finding, Decoding, Holding

(* The call begins. *)
LEMMA OpenOk ==
  ASSUME FilesInv, image \in Images, ViewerOk(viewer, buffer, nodes),
         NEW path \in Viewed, Open(path)
  PROVE  ViewerOk(viewer', buffer', nodes')
<1> DEFINE ino == FindInode(path)
           readable == ino # 0 /\ image.inode[ino].type # "DIR"
           v == viewer'
<1>1. /\ v = [Asleep EXCEPT !.pc = IF readable THEN "copy" ELSE "find",
                            !.path = path, !.ino = IF readable THEN ino ELSE 0,
                            !.seen = {FsRead(path)}]
      /\ buffer' = buffer /\ nodes' = nodes
  BY DEF Open, View, NULL
<1>2. path \in Seq(STRING)
  BY TextPath
<1>3. ino # 0 /\ image.inode[ino].type # "DIR" => Readable(ino)
  BY <1>2, LoadedFound
<1>4. FsRead(path) \in Readings
  BY ReadingIs DEF FilesInv, FsRead
<1>5. readable => ino \in Nat \ {0}
  BY <1>3, InodeIs DEF Readable
<1>6. ~readable => ~OnVolume(ino)
  BY DEF OnVolume, Loaded, NULL
<1> HIDE DEF readable, ino
<1>7. v = [pc |-> IF readable THEN "copy" ELSE "find", path |-> path,
           ino |-> IF readable THEN ino ELSE 0, at |-> 0, len |-> 0,
           content |-> "none", decoded |-> <<>>, seen |-> {FsRead(path)}, raced |-> FALSE]
  BY <1>1 DEF Asleep
<1> HIDE DEF v
<1>8. /\ v.pc = (IF readable THEN "copy" ELSE "find") /\ v.path = path
      /\ v.ino = (IF readable THEN ino ELSE 0) /\ v.at = 0 /\ v.len = 0
      /\ v.decoded = <<>> /\ v.seen = {FsRead(path)}
  BY <1>7
<1>9. v \in ViewerType
  <2>1. <<>> \in Seq(Byte)
    OBVIOUS
  <2> QED
    BY <1>4, <1>5, <1>7, <2>1 DEF ViewerType
<1>10. Opening(v, nodes)
  BY <1>3, <1>8 DEF Opening, FsRead, readable, ino
<1>11. Copying(v)
  <2>1. ASSUME readable PROVE 0 \in 0 .. Cardinality(Copied(image.inode[ino]))
    <3> DEFINE k == Cardinality(Copied(image.inode[ino]))
    <3>1. k \in Nat
      BY <1>3, <1>5, <2>1, LoadedFits DEF readable
    <3> HIDE DEF k
    <3>2. 0 \in 0 .. k
      BY <3>1
    <3> QED
      BY <3>2 DEF k
  <2>2. readable => v.pc = "copy" /\ v.ino = ino /\ ino # 0
    BY <1>5, <1>8
  <2>3. ~readable => v.pc # "copy"
    BY <1>8
  <2> QED
    BY <1>8, <2>1, <2>2, <2>3 DEF Copying
<1>12. Finding(v, nodes)
  <2>1. readable => v.pc = "copy"
    BY <1>8
  <2>2. ~readable => v.pc = "find" /\ v.ino = 0 /\ v.path = path /\ ~OnVolume(FindInode(path))
    BY <1>6, <1>8 DEF ino
  <2> QED
    BY <2>1, <2>2 DEF Finding
<1>13. Decoding(v) /\ Holding(v, buffer)
  BY <1>8 DEF Decoding, Holding
<1> QED
  BY <1>1, <1>9, <1>10, <1>11, <1>12, <1>13 DEF ViewerOk, v

(* What is under way fits the buffer. *)
LEMMA LenFits ==
  ASSUME NEW v \in ViewerType, v.ino # 0, v.pc \in {"copy", "decode"}, NEW t,
         Opening(v, t), Copying(v), Decoding(v)
  PROVE  v.len <= Direct * BlockBytes /\ Direct * BlockBytes \in Nat
<1> DEFINE file == image.inode[v.ino]
           k == Cardinality(Copied(file))
           d == Direct * BlockBytes
<1>1. Readable(v.ino)
  BY DEF Opening
<1>2. /\ file.size \in Nat /\ k \in 0 .. Direct /\ Direct \in Nat /\ BlockBytes \in Nat
      /\ \A i \in 1 .. k : /\ i \in Nat \ {0} /\ (i - 1) * BlockBytes < file.size
                           /\ BlockAt(file.block[i]) \in Bytes
  BY <1>1, CopiedIs, BlockSizes
<1>3. d \in Nat
  BY <1>2, TimesLe
<1>4. CASE v.pc = "decode"
  <2>1. v.len = Len(Loaded(v.ino))
    BY <1>4 DEF Decoding, WholeOf
  <2> QED
    BY <1>1, <1>3, <2>1, LoadedFits
<1>5. CASE v.pc = "copy"
  <2> DEFINE c == Len(Chunk(file, v.at))
             x == (v.at - 1) * BlockBytes
             y == v.at * BlockBytes
  <2>1. v.at \in 0 .. k /\ (v.at = 0 => v.len = 0) /\ (v.at # 0 => v.len = x + c)
    BY <1>5 DEF Copying
  <2>2. CASE v.at = 0
    <3> HIDE DEF d
    <3> QED
      BY <1>3, <2>1, <2>2 DEF d
  <2>3. CASE v.at # 0
    <3>1. v.at \in 1 .. k /\ v.at <= Direct /\ v.at \in Nat \ {0}
      <4> HIDE DEF k
      <4> QED
        BY <1>2, <2>1, <2>3
    <3>2. c \in 1 .. BlockBytes
      BY <1>2, <3>1, ChunkIs
    <3>3. x \in Nat /\ y = x + BlockBytes /\ y <= d /\ y \in Nat
      BY <1>2, <3>1, TimesLess, TimesLe
    <3>4. v.len = x + c
      BY <2>1, <2>3
    <3> HIDE DEF c, x, y, d
    <3>5. v.len <= d
      BY <1>2, <1>3, <3>2, <3>3, <3>4
    <3> QED
      BY <1>3, <3>5 DEF d
  <2> QED
    BY <2>2, <2>3
<1> QED
  BY <1>4, <1>5

(* A write: what fs_read returns by now is among what it may have read,    *)
(* and the node whose length was read keeps its content, or the viewer has *)
(* been raced.                                                             *)
LEMMA ChangeOk ==
  ASSUME FilesInv, image \in Images, ViewerOk(viewer, buffer, nodes), NEW path \in Viewed,
         Change(path)
  PROVE  ViewerOk(viewer', buffer', nodes')
<1> DEFINE v == viewer
           w == viewer'
           made == \/ \E type \in {"DIR", "FILE"} : Make(path, type)
                   \/ \E data \in Data : WriteExisting(path, data) \/ WriteNew(path, data)
<1>1. /\ made /\ buffer' = buffer
      /\ w = IF v.pc = "idle" THEN v
             ELSE [v EXCEPT !.seen = v.seen \cup {FsReadIn(nodes', v.path)},
                            !.raced = v.raced \/ (v.pc = "content" /\ Find(path) = Find(v.path))]
  BY DEF Change
<1>2. path \in Texts
  BY TextPath
<1>3. TreeStep
  BY <1>1, <1>2, CommandTree
<1>4. /\ v \in ViewerType /\ buffer \in [1 .. Direct * BlockBytes -> Byte]
      /\ Opening(v, nodes) /\ Copying(v) /\ Finding(v, nodes) /\ Decoding(v) /\ Holding(v, buffer)
  BY DEF ViewerOk
<1>5. CASE v.pc = "idle"
  <2>1. w = v
    BY <1>1, <1>5
  <2>2. /\ Opening(v, nodes') /\ Finding(v, nodes')
    BY <1>5 DEF Opening, Finding
  <2> QED
    BY <1>1, <1>4, <2>1, <2>2 DEF ViewerOk
<1>6. CASE v.pc # "idle"
  <2>1. v.path \in Viewed /\ FsReadIn(nodes, v.path) \in v.seen
    BY <1>4, <1>6 DEF Opening
  <2>2. v.path \in Texts
    BY <2>1, TextPath
  <2>3. /\ TreeIs(nodes) /\ TreeIs(nodes') /\ Grown(nodes, nodes')
        /\ cwd \in 1 .. Len(nodes) /\ cwd \in 1 .. Len(nodes')
        /\ Len(nodes) \in Nat /\ Len(nodes') \in Nat /\ Len(nodes') >= Len(nodes)
    BY <1>3 DEF FilesInv, TreeStep, Grows, Grown, TreeIs
  <2>4. FsReadIn(nodes', v.path) \in Readings
    BY <2>1, <2>3, ReadingIs
  <2> DEFINE hit == v.pc = "content" /\ Find(path) = Find(v.path)
             new == FsReadIn(nodes', v.path)
  <2>5. w = [v EXCEPT !.seen = v.seen \cup {new}, !.raced = v.raced \/ hit]
    BY <1>1, <1>6
  <2> HIDE DEF new, hit, w
  <2>6. /\ w \in ViewerType /\ w.pc = v.pc /\ w.path = v.path /\ w.ino = v.ino /\ w.at = v.at
        /\ w.len = v.len /\ w.content = v.content /\ w.decoded = v.decoded
        /\ w.seen = v.seen \cup {new} /\ (~w.raced => ~v.raced /\ ~hit)
    <3>1. (v.raced \/ hit) \in BOOLEAN /\ v.seen \cup {new} \in SUBSET Readings
      BY <1>4, <2>4, ViewerIn DEF new
    <3> QED
      BY <1>4, <2>5, <3>1 DEF ViewerType
  <2>7. Opening(w, nodes')
    BY <1>4, <1>6, <2>1, <2>6 DEF Opening, new
  <2>8. Copying(w)
    BY <1>4, <2>6 DEF Copying
  <2>9. Finding(w, nodes')
    <3>1. CASE v.pc = "content"
      <4> DEFINE node == Find(v.path)
      <4>1. /\ v.ino = 0 /\ ~OnVolume(FindInode(v.path))
            /\ node \in 1 .. Len(nodes) /\ nodes[node].type = "FILE"
            /\ ~v.raced => v.len = LengthOf(nodes[node].content)
        BY <1>4, <3>1 DEF Finding, Find
      <4>2. FindIn(nodes', v.path) = node
        <5>1. node # 0
          <6> HIDE DEF node
          <6> QED
            BY <2>3, <4>1
        <5> QED
          BY <1>3, <2>2, <5>1, NodeStays
      <4>3. node \in 1 .. Len(nodes') /\ nodes'[node].type = "FILE"
        <5> HIDE DEF node
        <5> QED
          BY <2>3, <4>1 DEF Grown
      <4>4. ~w.raced => node # Find(path)
        BY <2>6, <3>1 DEF hit
      <4>5. ~w.raced => nodes'[node].content = nodes[node].content
        <5> HIDE DEF node
        <5> QED
          BY <1>1, <1>2, <4>1, <4>4, ContentStays
      <4> HIDE DEF node
      <4> QED
        BY <2>6, <3>1, <4>1, <4>2, <4>3, <4>5 DEF Finding
    <3>2. CASE v.pc # "content"
      BY <1>4, <2>6, <3>2 DEF Finding
    <3> QED
      BY <3>1, <3>2
  <2>10. WholeOf(w) = WholeOf(v)
    BY <2>6 DEF WholeOf
  <2>11. Decoding(w)
    BY <1>4, <2>6, <2>10 DEF Decoding
  <2>12. Holding(w, buffer)
    BY <1>4, <2>6 DEF Holding
  <2> QED
    BY <1>1, <1>4, <2>6, <2>7, <2>8, <2>9, <2>11, <2>12 DEF ViewerOk, w
<1> QED
  BY <1>5, <1>6

(* cat or exec: the buffer of another file is not overwritten unnoticed.   *)
LEMMA OverwrittenIs ==
  ASSUME NEW b, buffer \in [1 .. Direct * BlockBytes -> Byte], NEW from \in Nat,
         NEW bytes \in Seq(Byte), b = Overwritten(from, bytes)
  PROVE  /\ b \in [1 .. Direct * BlockBytes -> Byte]
         /\ \A i \in 1 .. Direct * BlockBytes :
              b[i] = IF i - from \in 1 .. Len(bytes) THEN bytes[i - from] ELSE buffer[i]
<1> DEFINE d == Direct * BlockBytes
<1>1. b = [i \in 1 .. d |-> IF i - from \in DOMAIN bytes THEN bytes[i - from] ELSE buffer[i]]
  BY DEF Overwritten
<1>2. DOMAIN bytes = 1 .. Len(bytes) /\ \A i \in DOMAIN bytes : bytes[i] \in Byte
  OBVIOUS
<1>3. buffer \in [1 .. d -> Byte]
  OBVIOUS
<1> HIDE DEF d
<1> QED
  BY <1>1, <1>2, <1>3 DEF d

LEMMA ReadCommandOk ==
  ASSUME FilesInv, image \in Images, ViewerOk(viewer, buffer, nodes), NEW path \in Read,
         ReadCommand(path)
  PROVE  ViewerOk(viewer', buffer', nodes')
<1> DEFINE v == viewer
           w == viewer'
           b == buffer'
           ino == FindInode(path)
           bytes == Loaded(ino)
           hit == InBuffer /\ ino # v.ino /\ Overwrites(ino)
<1>1. /\ b = Overwritten(0, bytes) /\ w = [v EXCEPT !.raced = v.raced \/ hit] /\ nodes' = nodes
  BY DEF ReadCommand
<1>2. /\ v \in ViewerType /\ buffer \in [1 .. Direct * BlockBytes -> Byte]
      /\ Opening(v, nodes) /\ Copying(v) /\ Finding(v, nodes) /\ Decoding(v) /\ Holding(v, buffer)
  BY DEF ViewerOk
<1>3. bytes \in Seq(Byte) /\ (~Overwrites(ino) => bytes = <<>>)
  BY TextPath, LoadedFound
<1>4. InBuffer <=> v.pc = "copy" \/ (v.pc = "decode" /\ v.ino # 0)
  BY DEF InBuffer, NULL
<1> HIDE DEF w, b, hit, bytes
<1>5. /\ w \in ViewerType /\ w.pc = v.pc /\ w.path = v.path /\ w.ino = v.ino /\ w.at = v.at
      /\ w.len = v.len /\ w.content = v.content /\ w.decoded = v.decoded
      /\ w.seen = v.seen /\ (~w.raced => ~v.raced /\ ~hit)
  <2>1. (v.raced \/ hit) \in BOOLEAN
    BY <1>2, ViewerIn
  <2> QED
    BY <1>1, <1>2, <2>1 DEF ViewerType
<1>6. /\ b \in [1 .. Direct * BlockBytes -> Byte]
      /\ \A i \in 1 .. Direct * BlockBytes :
           b[i] = IF i - 0 \in 1 .. Len(bytes) THEN bytes[i - 0] ELSE buffer[i]
  <2>1. b = Overwritten(0, bytes) /\ buffer \in [1 .. Direct * BlockBytes -> Byte] /\ 0 \in Nat
    BY <1>1, <1>2
  <2>2. bytes \in Seq(Byte)
    BY <1>3
  <2> QED
    BY ONLY <2>1, <2>2, OverwrittenIs
<1>7. Opening(w, nodes) /\ Copying(w)
  BY <1>2, <1>5 DEF Opening, Copying
<1>8. Finding(w, nodes)
  BY <1>2, <1>5 DEF Finding
<1>9. WholeOf(w) = WholeOf(v)
  BY <1>5 DEF WholeOf
<1>10. Decoding(w)
  BY <1>2, <1>5, <1>9 DEF Decoding
<1>11. Holding(w, b)
  <2>1. SUFFICES ASSUME v.ino # 0, v.pc \in {"copy", "decode"}, ~w.raced, NEW i \in 1 .. v.len
                 PROVE  b[i] = Loaded(v.ino)[i]
    BY <1>5 DEF Holding
  <2>2. buffer[i] = Loaded(v.ino)[i]
    BY <1>2, <1>5, <2>1 DEF Holding
  <2>3. ino = v.ino \/ bytes = <<>>
    BY <1>3, <1>4, <1>5, <2>1 DEF hit
  <2>4. i \in 1 .. Direct * BlockBytes
    <3> DEFINE d == Direct * BlockBytes
    <3>1. v.len \in Nat /\ v.len <= d /\ d \in Nat
      BY <1>2, <2>1, LenFits, ViewerIn
    <3> HIDE DEF d
    <3>2. i \in 1 .. d
      BY <2>1, <3>1
    <3> QED
      BY <3>2 DEF d
  <2>5. i - 0 = i
    OBVIOUS
  <2> QED
    BY <1>6, <2>2, <2>3, <2>4, <2>5 DEF bytes
<1> QED
  BY <1>1, <1>5, <1>6, <1>7, <1>8, <1>10, <1>11 DEF ViewerOk, w, b

(* A block is copied behind those before it. *)
LEMMA NextBlock ==
  ASSUME NEW ino, Readable(ino), ino # 0, NEW at \in 0 .. Cardinality(Copied(image.inode[ino])),
         NEW len \in Nat, at = 0 => len = 0,
         at # 0 => len = (at - 1) * BlockBytes + Len(Chunk(image.inode[ino], at)),
         at + 1 \in Copied(image.inode[ino])
  PROVE  LET file == image.inode[ino]
             c == Chunk(file, at + 1) IN
         /\ at + 1 \in 1 .. Cardinality(Copied(file))
         /\ len = at * BlockBytes /\ len \in Nat
         /\ c \in Seq(Byte) /\ Len(c) \in Nat /\ len + Len(c) <= Direct * BlockBytes
         /\ \A j \in 1 .. Len(c) : Loaded(ino)[len + j] = c[j]
<1> DEFINE file == image.inode[ino]
           k == Cardinality(Copied(file))
           i == at + 1
           c == Chunk(file, i)
           x == at * BlockBytes
<1>1. /\ file.size \in Nat /\ k \in 0 .. Direct /\ Direct \in Nat /\ BlockBytes \in Nat
      /\ \A l \in 1 .. k : /\ l \in Nat \ {0} /\ (l - 1) * BlockBytes < file.size
                           /\ BlockAt(file.block[l]) \in Bytes
  BY CopiedIs, BlockSizes
<1>2. i \in 1 .. k
  BY WantedDown
<1>3. at \in Nat /\ i \in Nat \ {0} /\ i - 1 = at /\ i <= Direct
  <2>1. at \in 0 .. k
    OBVIOUS
  <2> HIDE DEF k
  <2> QED
    BY <1>1, <1>2, <2>1
<1>4. x \in Nat /\ x < file.size
  <2>1. (i - 1) * BlockBytes < file.size
    BY <1>1, <1>2
  <2>2. x \in Nat
    BY <1>1, <1>3, TimesLe
  <2> QED
    BY <1>3, <2>1, <2>2
<1>5. c \in Seq(Byte) /\ Len(c) \in 1 .. BlockBytes
  BY <1>1, <1>2, ChunkIs
<1>6. len = x
  <2>1. CASE at = 0
    <3>1. x = 0 /\ len = 0
      BY <1>1, <2>1
    <3> QED
      BY <3>1
  <2>2. CASE at # 0
    <3> DEFINE y == (at - 1) * BlockBytes
               b == Len(Chunk(file, at))
    <3>1. at \in 1 .. k /\ at \in Nat \ {0}
      <4> HIDE DEF k
      <4> QED
        BY <1>1, <1>2, <1>3, <2>2
    <3>2. b = IF x <= file.size THEN BlockBytes ELSE file.size - y
      BY <1>1, <3>1, ChunkIs
    <3>3. x = y + BlockBytes /\ y \in Nat
      BY <1>1, <3>1, TimesLess
    <3>4. len = y + b
      BY <2>2
    <3> HIDE DEF x, y, b, file
    <3> QED
      BY <1>1, <1>4, <3>2, <3>3, <3>4
  <2> QED
    BY <2>1, <2>2
<1>7. len + Len(c) <= Direct * BlockBytes
  <2> DEFINE d == Direct * BlockBytes
             y == i * BlockBytes
  <2>1. y = (i - 1) * BlockBytes + BlockBytes /\ y <= d /\ d \in Nat /\ y \in Nat
    BY <1>1, <1>3, TimesLess, TimesLe
  <2>2. y = x + BlockBytes
    BY <1>3, <2>1
  <2> HIDE DEF d, y, x, c, file
  <2>3. len + Len(c) <= d
    BY <1>1, <1>4, <1>5, <1>6, <2>1, <2>2
  <2> QED
    BY <2>3 DEF d
<1>8. \A j \in 1 .. Len(c) : Loaded(ino)[len + j] = c[j]
  <2>1. \A j \in 1 .. Len(c) : Loaded(ino)[((i - 1) * BlockBytes) + j] = c[j]
    BY <1>2, LoadedIs
  <2>2. (i - 1) * BlockBytes = len
    BY <1>3, <1>6
  <2> HIDE DEF c, i
  <2> QED
    BY <2>1, <2>2
<1> HIDE DEF c, file
<1>9. Len(c) \in Nat
  BY <1>5
<1> QED
  BY <1>2, <1>5, <1>6, <1>7, <1>8, <1>9 DEF c, file, i, k

LEMMA CopyBlockOk ==
  ASSUME FilesInv, image \in Images, ViewerOk(viewer, buffer, nodes), CopyBlock
  PROVE  ViewerOk(viewer', buffer', nodes')
<1> DEFINE v == viewer
           w == viewer'
           b == buffer'
           ino == v.ino
           file == image.inode[ino]
           k == Cardinality(Copied(file))
           at == v.at
           next == at + 1
           c == Chunk(file, next)
<1>1. /\ v \in ViewerType /\ buffer \in [1 .. Direct * BlockBytes -> Byte]
      /\ Opening(v, nodes) /\ Copying(v) /\ Finding(v, nodes) /\ Decoding(v) /\ Holding(v, buffer)
  BY DEF ViewerOk
<1>2. /\ v.pc = "copy" /\ next \in Wanted(file) /\ nodes' = nodes
      /\ next \in Copied(file) =>
           /\ b = Overwritten(at * BlockBytes, c)
           /\ w = [v EXCEPT !.at = next, !.len = v.len + Len(c)]
      /\ next \notin Copied(file) => b = buffer /\ w = [v EXCEPT !.pc = "find", !.ino = 0]
  BY DEF CopyBlock, View, File, NULL
<1>3. /\ ino # 0 /\ Readable(ino) /\ ino = FindInode(v.path) /\ v.decoded = <<>>
      /\ v.path \in Viewed /\ FsReadIn(nodes, v.path) \in v.seen
  BY <1>1, <1>2 DEF Opening, Copying
<1>4. /\ at \in 0 .. k /\ v.len \in Nat /\ (at = 0 => v.len = 0) /\ at \in Nat
      /\ at # 0 => v.len = (at - 1) * BlockBytes + Len(Chunk(file, at))
  BY <1>1, <1>2, ViewerIn DEF Copying
<1>5. CASE next \notin Copied(file)
  <2>1. w = [v EXCEPT !.pc = "find", !.ino = 0] /\ b = buffer
    BY <1>2, <1>5
  <2>2. ~OnVolume(ino)
    BY <1>2, <1>5 DEF OnVolume
  <2> HIDE DEF w
  <2>3. /\ w \in ViewerType /\ w.pc = "find" /\ w.ino = 0 /\ w.path = v.path
        /\ w.decoded = v.decoded /\ w.seen = v.seen
    BY <1>1, <2>1 DEF ViewerType
  <2>4. Opening(w, nodes) /\ Finding(w, nodes)
    BY <1>3, <2>2, <2>3 DEF Opening, Finding
  <2>5. Copying(w) /\ Decoding(w) /\ Holding(w, b)
    BY <2>3 DEF Copying, Decoding, Holding
  <2> QED
    BY <1>1, <1>2, <2>1, <2>3, <2>4, <2>5 DEF ViewerOk, w
<1>6. CASE next \in Copied(file)
  <2>1. w = [v EXCEPT !.at = next, !.len = v.len + Len(c)] /\ b = Overwritten(at * BlockBytes, c)
    BY <1>2, <1>6
  <2>2. /\ next \in 1 .. k /\ v.len = at * BlockBytes
        /\ c \in Seq(Byte) /\ Len(c) \in Nat /\ v.len + Len(c) <= Direct * BlockBytes
        /\ \A j \in 1 .. Len(c) : Loaded(ino)[v.len + j] = c[j]
    BY <1>3, <1>4, <1>6, NextBlock, Zenon
  <2> DEFINE d == Direct * BlockBytes
             l == v.len + Len(c)
  <2>3. next \in Nat /\ next # 0 /\ next - 1 = at /\ next \in 0 .. k /\ l \in Nat
    <3>1. k \in Nat
      BY <1>3, LoadedFits
    <3> HIDE DEF k, c
    <3> QED
      BY <1>4, <2>2, <3>1
  <2>4. /\ b \in [1 .. d -> Byte]
        /\ \A i \in 1 .. d : b[i] = IF i - v.len \in 1 .. Len(c) THEN c[i - v.len] ELSE buffer[i]
    <3>1. buffer \in [1 .. d -> Byte]
      BY <1>1, Zenon
    <3>2. b = Overwritten(v.len, c) /\ v.len \in Nat /\ c \in Seq(Byte)
      BY <1>4, <2>1, <2>2, Zenon
    <3> QED
      BY ONLY <3>1, <3>2, OverwrittenIs
  <2> HIDE DEF w, b
  <2>5. /\ w \in ViewerType /\ w.pc = "copy" /\ w.ino = ino /\ w.path = v.path /\ w.at = next
        /\ w.len = l /\ w.raced = v.raced /\ w.decoded = v.decoded /\ w.seen = v.seen
    BY <1>1, <1>2, <2>1, <2>3 DEF ViewerType
  <2>6. Opening(w, nodes)
    BY <1>3, <2>5 DEF Opening
  <2>7. Copying(w)
    <3>1. l = (next - 1) * BlockBytes + Len(c)
      <4>1. l = v.len + Len(c) /\ v.len = at * BlockBytes
        BY <2>2
      <4> HIDE DEF l, next
      <4> QED
        BY <2>3, <4>1
    <3>2. /\ w.at \in 0 .. Cardinality(Copied(image.inode[w.ino])) /\ w.ino # 0 /\ w.at # 0
      BY <1>3, <2>3, <2>5
    <3>3. w.len = (w.at - 1) * BlockBytes + Len(Chunk(image.inode[w.ino], w.at))
      BY <2>5, <3>1
    <3> QED
      BY <3>2, <3>3 DEF Copying
  <2>8. Finding(w, nodes) /\ Decoding(w)
    BY <2>5 DEF Finding, Decoding
  <2>9. Holding(w, b)
    <3>1. SUFFICES ASSUME ~v.raced, NEW i \in 1 .. l PROVE b[i] = Loaded(ino)[i]
      BY <2>5 DEF Holding
    <3>2. \A j \in 1 .. v.len : buffer[j] = Loaded(ino)[j]
      BY <1>2, <1>3, <1>1, <3>1 DEF Holding
    <3>3. i \in 1 .. d /\ d \in Nat
      <4>1. d \in Nat
        BY BlockSizes, TimesLe
      <4> HIDE DEF d, l
      <4>2. l <= d /\ l \in Nat
        BY <2>2, <2>3 DEF d, l
      <4> QED
        BY <4>1, <4>2
    <3> DEFINE j == i - v.len
    <3>4. CASE j \in 1 .. Len(c)
      <4>1. b[i] = c[j]
        BY <2>4, <3>3, <3>4
      <4>2. v.len + j = i
        BY <1>4, <3>3
      <4> QED
        BY <2>2, <3>4, <4>1, <4>2
    <3>5. CASE j \notin 1 .. Len(c)
      <4>1. b[i] = buffer[i]
        BY <2>4, <3>3, <3>5
      <4>2. i \in 1 .. v.len
        <5> HIDE DEF c
        <5>1. i \in 1 .. v.len + Len(c) /\ Len(c) \in Nat /\ v.len \in Nat
          BY <1>4, <2>2, <3>1
        <5> QED
          BY <3>5, <5>1
      <4> QED
        BY <3>2, <4>1, <4>2
    <3> QED
      BY <3>4, <3>5
  <2> QED
    BY <1>2, <2>4, <2>5, <2>6, <2>7, <2>8, <2>9 DEF ViewerOk, w, b
<1> QED
  BY <1>5, <1>6

LEMMA CopyEndsOk ==
  ASSUME FilesInv, image \in Images, ViewerOk(viewer, buffer, nodes), CopyEnds
  PROVE  ViewerOk(viewer', buffer', nodes')
<1> DEFINE v == viewer
           w == viewer'
           ino == v.ino
           file == image.inode[ino]
           k == Cardinality(Copied(file))
           at == v.at
           c == Len(Chunk(file, at))
<1>1. /\ v \in ViewerType /\ buffer \in [1 .. Direct * BlockBytes -> Byte]
      /\ Opening(v, nodes) /\ Copying(v) /\ Finding(v, nodes) /\ Decoding(v) /\ Holding(v, buffer)
  BY DEF ViewerOk
<1>2. /\ v.pc = "copy" /\ at + 1 \notin Wanted(file) /\ nodes' = nodes /\ buffer' = buffer
      /\ w = IF v.len > 0 THEN [v EXCEPT !.pc = "decode"]
             ELSE [v EXCEPT !.pc = "find", !.ino = 0]
  BY DEF CopyEnds, View, File, NULL
<1>3. /\ ino # 0 /\ Readable(ino) /\ ino = FindInode(v.path) /\ v.decoded = <<>>
      /\ v.path \in Viewed /\ FsReadIn(nodes, v.path) \in v.seen
  BY <1>1, <1>2 DEF Opening, Copying
<1>4. /\ at \in 0 .. k /\ v.len \in Nat /\ (at = 0 => v.len = 0)
      /\ at # 0 => v.len = (at - 1) * BlockBytes + c
  BY <1>1, <1>2, ViewerIn DEF Copying
<1>5. Copied(file) = Wanted(file) /\ at = k
  BY <1>2, <1>3, <1>4, WantedDown
<1>6. k \in Nat /\ (Loaded(ino) = <<>> <=> k = 0) /\ Len(Loaded(ino)) \in Nat
      /\ Loaded(ino) \in Seq(Byte)
  BY <1>3, LoadedFits
<1>7. v.len = Len(Loaded(ino))
  <2>1. CASE k = 0
    <3>1. Len(Loaded(ino)) = 0
      BY <1>6, <2>1
    <3> QED
      BY <1>4, <1>5, <2>1, <3>1
  <2>2. CASE k # 0
    <3>1. k > 0
      <4> HIDE DEF k
      <4> QED
        BY <1>6, <2>2
    <3>2. Len(Loaded(ino)) = (k - 1) * BlockBytes + Len(Chunk(file, k))
      BY <1>3, <3>1, LoadedIs
    <3> QED
      BY <1>4, <1>5, <2>2, <3>2
  <2> QED
    BY <2>1, <2>2
<1>8. CASE v.len > 0
  <2>1. w = [v EXCEPT !.pc = "decode"]
    BY <1>2, <1>8
  <2> HIDE DEF w
  <2>2. /\ w \in ViewerType /\ w.pc = "decode" /\ w.ino = ino /\ w.path = v.path /\ w.len = v.len
        /\ w.raced = v.raced /\ w.decoded = <<>> /\ w.seen = v.seen
    BY <1>1, <1>3, <2>1 DEF ViewerType
  <2>3. Loaded(ino) # <<>>
    <3>1. Len(Loaded(ino)) # 0
      BY <1>4, <1>7, <1>8
    <3> QED
      BY <3>1
  <2>4. FsReadIn(nodes, v.path) = Loaded(ino)
    <3>1. OnVolume(ino)
      BY <1>5, <2>3 DEF OnVolume
    <3> QED
      BY <1>3, <3>1 DEF FsReadIn
  <2>5. Opening(w, nodes)
    BY <1>3, <2>2 DEF Opening
  <2>6. Copying(w) /\ Finding(w, nodes)
    BY <2>2 DEF Copying, Finding
  <2>7. WholeOf(w) = Loaded(ino) /\ Len(w.decoded) = 0 /\ 0 <= w.len
    BY <1>3, <1>4, <2>2 DEF WholeOf
  <2>8. Decoding(w)
    <3>1. WholeOf(w) \in w.seen
      BY <1>3, <2>2, <2>4, <2>7
    <3>2. w.len = Len(WholeOf(w)) /\ Len(w.decoded) <= w.len
      BY <1>7, <2>2, <2>7
    <3>3. \A i \in 1 .. Len(w.decoded) : FALSE
      BY <2>7
    <3> QED
      BY <1>3, <2>2, <3>1, <3>2, <3>3 DEF Decoding
  <2>9. Holding(w, buffer)
    BY <1>1, <1>2, <1>3, <2>2 DEF Holding
  <2> QED
    BY <1>1, <1>2, <2>2, <2>5, <2>6, <2>8, <2>9 DEF ViewerOk, w
<1>9. CASE ~(v.len > 0)
  <2>1. w = [v EXCEPT !.pc = "find", !.ino = 0]
    BY <1>2, <1>9
  <2>2. ~OnVolume(ino)
    <3>1. Len(Loaded(ino)) = 0
      BY <1>4, <1>7, <1>9
    <3>2. Loaded(ino) = <<>>
      BY <1>6, <3>1
    <3> QED
      BY <3>2 DEF OnVolume
  <2> HIDE DEF w
  <2>3. /\ w \in ViewerType /\ w.pc = "find" /\ w.ino = 0 /\ w.path = v.path
        /\ w.decoded = v.decoded /\ w.seen = v.seen
    BY <1>1, <2>1 DEF ViewerType
  <2>4. Opening(w, nodes) /\ Finding(w, nodes)
    BY <1>3, <2>2, <2>3 DEF Opening, Finding
  <2>5. Copying(w) /\ Decoding(w) /\ Holding(w, buffer)
    BY <2>3 DEF Copying, Decoding, Holding
  <2> QED
    BY <1>1, <1>2, <2>3, <2>4, <2>5 DEF ViewerOk, w
<1> QED
  BY <1>8, <1>9

(* The tree is looked in for the file. *)
LEMMA FindFileOk ==
  ASSUME FilesInv, image \in Images, ViewerOk(viewer, buffer, nodes), FindFile
  PROVE  ViewerOk(viewer', buffer', nodes')
<1> DEFINE v == viewer
           w == viewer'
           node == FindIn(nodes, v.path)
           content == nodes[node].content
<1>1. /\ v \in ViewerType /\ buffer \in [1 .. Direct * BlockBytes -> Byte]
      /\ Opening(v, nodes) /\ Copying(v) /\ Finding(v, nodes) /\ Decoding(v) /\ Holding(v, buffer)
  BY DEF ViewerOk
<1>2. /\ v.pc = "find" /\ buffer' = buffer /\ nodes' = nodes
      /\ w = IF node = 0 \/ nodes[node].type = "DIR" THEN Asleep
             ELSE [v EXCEPT !.pc = "content",
                            !.len = IF content = "none" THEN 0 ELSE Len(BytesOf(content))]
  <2>1. node = 0 \/ IsDir(node) <=> node = 0 \/ nodes[node].type = "DIR"
    BY DEF IsDir, NULL
  <2> QED
    BY <2>1, Zenon DEF FindFile, View, Find, NULL
<1>3. /\ v.path \in Viewed /\ FsReadIn(nodes, v.path) \in v.seen /\ v.decoded = <<>>
      /\ v.ino = 0 /\ ~OnVolume(FindInode(v.path))
  BY <1>1, <1>2 DEF Opening, Finding
<1>4. node \in 0 .. Len(nodes) /\ TreeIs(nodes) /\ Len(nodes) \in Nat
  <2>1. v.path \in Seq(STRING) /\ Len(v.path) \in Nat
    BY <1>3, TextPath
  <2>2. TreeIs(nodes) /\ cwd \in 1 .. Len(nodes)
    BY DEF FilesInv
  <2>3. Len(nodes) \in Nat
    BY <2>2 DEF TreeIs
  <2> QED
    BY <2>1, <2>2, <2>3, FoundIs
<1> HIDE DEF w, node
<1>5. CASE node = 0 \/ nodes[node].type = "DIR"
  BY <1>1, <1>2, <1>5, AsleepIs DEF w
<1>6. CASE ~(node = 0 \/ nodes[node].type = "DIR")
  <2>1. node \in 1 .. Len(nodes)
    BY <1>4, <1>6
  <2>2. nodes[node].type = "FILE" /\ content \in Data \cup {"none", "default"}
    BY <1>4, <1>6, <2>1, NodeIs DEF NodeType
  <2>3. w = [v EXCEPT !.pc = "content", !.len = LengthOf(content)]
    BY <1>2, <1>6 DEF LengthOf
  <2>4. LengthOf(content) \in Nat
    <3>1. content # "none" => BytesOf(content) \in Seq(Byte)
      BY <2>2, ContentBytes
    <3> QED
      BY <3>1 DEF LengthOf
  <2> HIDE DEF content
  <2>5. /\ w \in ViewerType /\ w.pc = "content" /\ w.ino = 0 /\ w.path = v.path
        /\ w.decoded = <<>> /\ w.seen = v.seen /\ w.len = LengthOf(content)
    BY <1>1, <1>3, <2>3, <2>4 DEF ViewerType
  <2>6. Opening(w, nodes) /\ Copying(w)
    BY <1>3, <2>5 DEF Opening, Copying
  <2>7. Finding(w, nodes)
    BY <1>3, <2>1, <2>2, <2>5 DEF Finding, node, content
  <2>8. Decoding(w) /\ Holding(w, buffer)
    BY <2>5 DEF Decoding, Holding
  <2> QED
    BY <1>1, <1>2, <2>5, <2>6, <2>7, <2>8 DEF ViewerOk, w
<1> QED
  BY <1>5, <1>6

(* The content is taken as it is by now. *)
LEMMA TakeContentOk ==
  ASSUME FilesInv, image \in Images, ViewerOk(viewer, buffer, nodes), TakeContent
  PROVE  ViewerOk(viewer', buffer', nodes')
<1> DEFINE v == viewer
           w == viewer'
           node == FindIn(nodes, v.path)
           content == nodes[node].content
<1>1. /\ v \in ViewerType /\ buffer \in [1 .. Direct * BlockBytes -> Byte]
      /\ Opening(v, nodes) /\ Copying(v) /\ Finding(v, nodes) /\ Decoding(v) /\ Holding(v, buffer)
  BY DEF ViewerOk
<1>2. /\ v.pc = "content" /\ buffer' = buffer /\ nodes' = nodes
      /\ w = IF content = "none" THEN Asleep
             ELSE [v EXCEPT !.pc = "decode", !.content = content]
  BY DEF TakeContent, View, Find
<1>3. /\ v.path \in Viewed /\ FsReadIn(nodes, v.path) \in v.seen /\ v.decoded = <<>>
      /\ v.ino = 0 /\ ~OnVolume(FindInode(v.path))
      /\ node \in 1 .. Len(nodes) /\ nodes[node].type = "FILE"
      /\ ~v.raced => v.len = LengthOf(content)
  BY <1>1, <1>2 DEF Opening, Finding
<1>4. content \in Data \cup {"none", "default"}
  BY <1>3, NodeIs DEF NodeType, FilesInv
<1>5. CASE content = "none"
  <2> HIDE DEF content
  <2> QED
    BY <1>1, <1>2, <1>5, AsleepIs
<1>6. CASE content # "none"
  <2>1. w = [v EXCEPT !.pc = "decode", !.content = content]
    BY <1>2, <1>6
  <2>2. BytesOf(content) = FsReadIn(nodes, v.path)
    <3>1. node # 0
      <4>1. Len(nodes) \in Nat
        BY DEF FilesInv, TreeIs
      <4> HIDE DEF node
      <4> QED
        BY <1>3, <4>1
    <3> QED
      BY <1>3, <1>6, <3>1 DEF FsReadIn, NULL
  <2> HIDE DEF w, content
  <2>3. /\ w \in ViewerType /\ w.pc = "decode" /\ w.ino = 0 /\ w.path = v.path /\ w.len = v.len
        /\ w.content = content /\ w.decoded = <<>> /\ w.seen = v.seen /\ w.raced = v.raced
    BY <1>1, <1>3, <1>4, <2>1 DEF ViewerType
  <2>4. Opening(w, nodes) /\ Copying(w) /\ Finding(w, nodes) /\ Holding(w, buffer)
    BY <1>3, <2>3 DEF Opening, Copying, Finding, Holding
  <2>5. WholeOf(w) = BytesOf(content) /\ Len(w.decoded) = 0 /\ 0 <= w.len
    BY <1>1, <2>3, ViewerIn DEF WholeOf
  <2>6. Decoding(w)
    <3>1. WholeOf(w) \in w.seen
      BY <1>3, <2>2, <2>3, <2>5
    <3>2. ~w.raced => w.len = Len(WholeOf(w))
      BY <1>3, <1>6, <2>3, <2>5 DEF LengthOf
    <3>3. \A i \in 1 .. Len(w.decoded) : FALSE
      BY <2>5
    <3> QED
      BY <1>6, <2>3, <2>5, <3>1, <3>2, <3>3 DEF Decoding
  <2> QED
    BY <1>1, <1>2, <2>3, <2>4, <2>6 DEF ViewerOk, w
<1> QED
  BY <1>5, <1>6

(* What is decoded from is what was read, or has been overwritten. *)
LEMMA SourceIs ==
  ASSUME FilesInv, image \in Images, ViewerOk(viewer, buffer, nodes), viewer.pc = "decode"
  PROVE  \A i \in 1 .. viewer.len :
           /\ Source[i] \in Byte
           /\ ~viewer.raced => Source[i] = WholeOf(viewer)[i]
<1> DEFINE v == viewer
<1>1. /\ v \in ViewerType /\ buffer \in [1 .. Direct * BlockBytes -> Byte]
      /\ Opening(v, nodes) /\ Copying(v) /\ Decoding(v) /\ Holding(v, buffer)
  BY DEF ViewerOk
<1>2. v.len \in Nat /\ v.ino \in Nat /\ v.content \in Data \cup {"none", "default"}
  BY <1>1, ViewerIn
<1>3. CASE v.ino # 0
  <2>1. Source = buffer
    BY <1>3 DEF Source, NULL
  <2> DEFINE d == Direct * BlockBytes
  <2>2. v.len <= d /\ d \in Nat
    BY <1>1, <1>3, LenFits
  <2>3. \A i \in 1 .. v.len : i \in 1 .. d
    <3> HIDE DEF d
    <3> QED
      BY <1>2, <2>2
  <2>4. \A i \in 1 .. v.len : buffer[i] \in Byte
    <3> HIDE DEF d
    <3> QED
      BY <1>1, <2>3 DEF d
  <2>5. ~v.raced => \A i \in 1 .. v.len : buffer[i] = Loaded(v.ino)[i]
    BY <1>1, <1>3 DEF Holding
  <2> QED
    BY <1>3, <2>1, <2>4, <2>5 DEF WholeOf
<1>4. CASE v.ino = 0
  <2> DEFINE bytes == BytesOf(v.content)
             pad == [i \in 1 .. v.len |-> "beyond"]
  <2>1. v.content # "none" /\ (~v.raced => v.len = Len(WholeOf(v)))
    BY <1>1, <1>4 DEF Decoding
  <2>2. bytes \in Seq(Byte)
    BY <1>2, <2>1, ContentBytes
  <2>3. pad \in Seq(Byte) /\ Len(pad) = v.len
    <3>1. "beyond" \in Byte
      BY DEF Byte
    <3> QED
      BY <1>2, <3>1
  <2>4. Source = bytes \o pad /\ WholeOf(v) = bytes
    BY <1>4 DEF Source, WholeOf, NULL
  <2> HIDE DEF bytes, pad
  <2>5. /\ Len(bytes) \in Nat /\ bytes \o pad \in Seq(Byte)
        /\ Len(bytes \o pad) = Len(bytes) + v.len
        /\ \A i \in 1 .. Len(bytes) : (bytes \o pad)[i] = bytes[i]
    BY <2>2, <2>3, ConcatProperties
  <2> DEFINE both == bytes \o pad
  <2>6. both \in Seq(Byte) /\ Len(both) = Len(bytes) + v.len
    BY <2>5
  <2> HIDE DEF both
  <2>7. \A i \in 1 .. v.len : both[i] \in Byte
    BY <1>2, <2>5, <2>6
  <2> QED
    BY <1>4, <2>1, <2>4, <2>5, <2>7 DEF both
<1> QED
  BY <1>3, <1>4

(* The next part is decoded. *)
LEMMA DecodeOk ==
  ASSUME FilesInv, image \in Images, ViewerOk(viewer, buffer, nodes), Decode
  PROVE  ViewerOk(viewer', buffer', nodes')
<1> DEFINE v == viewer
           w == viewer'
           done == Len(v.decoded)
           hi == Min({done + BlockBytes, v.len})
           next == SubSeq(Source, done + 1, hi)
           whole == v.decoded \o next
<1>1. /\ v \in ViewerType /\ buffer \in [1 .. Direct * BlockBytes -> Byte]
      /\ Opening(v, nodes) /\ Copying(v) /\ Finding(v, nodes) /\ Decoding(v) /\ Holding(v, buffer)
  BY DEF ViewerOk
<1>2. /\ v.pc = "decode" /\ done # v.len /\ nodes' = nodes /\ buffer' = buffer
      /\ w = [v EXCEPT !.decoded = whole]
  BY DEF Decode, Decoded, View
<1>3. /\ v.ino = 0 => v.content # "none"
      /\ WholeOf(v) \in v.seen
      /\ v.ino # 0 \/ ~v.raced => v.len = Len(WholeOf(v))
      /\ Len(v.decoded) <= v.len
      /\ ~v.raced => \A i \in 1 .. Len(v.decoded) : v.decoded[i] = WholeOf(v)[i]
      /\ v.len \in Nat /\ v.decoded \in Seq(Byte) /\ done \in Nat
  BY <1>1, <1>2, ViewerIn DEF Decoding
<1>4. hi \in done + 1 .. v.len /\ hi \in Nat
  <2>1. done + BlockBytes \in Nat /\ BlockBytes \in Nat \ {0}
    BY <1>3, BlockSizes
  <2>2. hi = IF done + BlockBytes <= v.len THEN done + BlockBytes ELSE v.len
    BY <1>3, <2>1, LeastOfTwo
  <2> HIDE DEF hi, done
  <2> QED
    BY <1>2, <1>3, <2>1, <2>2 DEF done
<1>5. \A i \in 1 .. v.len : Source[i] \in Byte /\ (~v.raced => Source[i] = WholeOf(v)[i])
  BY <1>2, SourceIs
<1> HIDE DEF hi, w
<1>6. /\ next \in Seq(Byte) /\ Len(next) = hi - done
      /\ \A j \in 1 .. hi - done : next[j] = Source[done + j]
  <2> DEFINE lo == done + 1
  <2>1. lo \in Int /\ hi \in Int /\ lo <= hi /\ lo \in Nat
    BY <1>3, <1>4
  <2>2. \A i \in lo .. hi : Source[i] \in Byte
    BY <1>3, <1>4, <1>5
  <2>3. lo - 1 = done
    BY <1>3
  <2> HIDE DEF lo, done
  <2>4. /\ SubSeq(Source, lo, hi) \in Seq(Byte)
        /\ Len(SubSeq(Source, lo, hi)) = (IF lo <= hi THEN hi - lo + 1 ELSE 0)
        /\ \A j \in 1 .. hi - lo + 1 : SubSeq(Source, lo, hi)[j] = Source[lo + j - 1]
    BY <2>1, <2>2, SubSeqProperties
  <2>5. /\ hi - lo + 1 = hi - done
        /\ \A j \in 1 .. hi - done : lo + j - 1 = done + j
    BY <1>3, <2>1, <2>3
  <2> QED
    BY <2>1, <2>4, <2>5 DEF lo
<1> HIDE DEF next, done
<1>7. /\ whole \in Seq(Byte) /\ Len(whole) = done + (hi - done)
      /\ \A i \in 1 .. done + (hi - done) :
           whole[i] = IF i <= done THEN v.decoded[i] ELSE next[i - done]
  BY <1>3, <1>6, ConcatProperties DEF done
<1>8. done + (hi - done) = hi /\ hi <= v.len /\ hi \in Nat
  BY <1>3, <1>4
<1> HIDE DEF whole
<1>9. ~v.raced => \A i \in 1 .. hi : whole[i] = WholeOf(v)[i]
  <2>1. SUFFICES ASSUME ~v.raced, NEW i \in 1 .. hi PROVE whole[i] = WholeOf(v)[i]
    OBVIOUS
  <2>2. CASE i <= done
    <3>1. i \in 1 .. done
      BY <1>3, <1>8, <2>2
    <3> QED
      BY <1>3, <1>7, <1>8, <2>1, <2>2, <3>1 DEF done
  <2>3. CASE ~(i <= done)
    <3>1. i - done \in 1 .. hi - done /\ done + (i - done) = i /\ i \in 1 .. v.len
      BY <1>3, <1>8, <2>3
    <3>2. next[i - done] = Source[i]
      BY <1>6, <3>1
    <3> QED
      BY <1>5, <1>7, <1>8, <2>1, <2>3, <3>1, <3>2
  <2> QED
    BY <2>2, <2>3
<1>10. /\ w \in ViewerType /\ w.pc = "decode" /\ w.ino = v.ino /\ w.path = v.path
       /\ w.len = v.len /\ w.content = v.content /\ w.decoded = whole
       /\ w.seen = v.seen /\ w.raced = v.raced
  BY <1>1, <1>2, <1>7 DEF ViewerType
<1>11. Opening(w, nodes) /\ Copying(w) /\ Finding(w, nodes)
  BY <1>1, <1>2, <1>10 DEF Opening, Copying, Finding
<1>12. WholeOf(w) = WholeOf(v)
  BY <1>10 DEF WholeOf
<1>13. Decoding(w)
  BY <1>3, <1>7, <1>8, <1>9, <1>10, <1>12 DEF Decoding
<1>14. Holding(w, buffer)
  BY <1>1, <1>2, <1>10 DEF Holding
<1> QED
  BY <1>1, <1>2, <1>10, <1>11, <1>13, <1>14 DEF ViewerOk, w

(* The steps of the viewer, and of what comes in between. *)
LEMMA ReadsOk ==
  ASSUME FilesInv, image \in Images, ViewerOk(viewer, buffer, nodes), Reads
  PROVE  ViewerOk(viewer', buffer', nodes')
<1>1. CASE Opened
  BY <1>1, AsleepIs DEF Opened, View, ViewerOk
<1>2. CASE Viewing
  BY <1>1, <1>2, CopyBlockOk, CopyEndsOk, FindFileOk, TakeContentOk, DecodeOk DEF Viewing
<1>3. ASSUME NEW path \in Viewed, Open(path) \/ Change(path)
      PROVE  ViewerOk(viewer', buffer', nodes')
  BY <1>3, OpenOk, ChangeOk
<1>4. ASSUME NEW path \in Read, ReadCommand(path)
      PROVE  ViewerOk(viewer', buffer', nodes')
  BY <1>4, ReadCommandOk
<1> QED
  BY <1>2, <1>3, <1>4, Zenon DEF Reads

(* Who only looks at the image finds the same in the same one. *)
LEMMA SameImage ==
  ASSUME image' = image, cwd' = cwd
  PROVE  ViewerOk(viewer, buffer, nodes)' <=> ViewerOk(viewer', buffer', nodes')
<1>1. \A ino : Loaded(ino)' = Loaded(ino)
  BY DEF Loaded, CopiedBytes, Copied, Wanted, Chunk, BlockAt, Accepted
<1>16. Loaded(viewer.ino)' = Loaded(viewer'.ino)
  BY SMT DEF Loaded, CopiedBytes, Copied, Wanted, Chunk, BlockAt, Accepted
<1>3. FindInode(viewer.path)' = FindInode(viewer'.path)
  BY SMT DEF FindInode, EntryOf, Entries, Searched, BlockAt
<1>4. Readable(viewer.ino)' <=> Readable(viewer'.ino)
  BY DEF Readable
<1>5. Copied(image.inode[viewer.ino])' = Copied(image.inode[viewer'.ino])
  BY SMT DEF Copied, Wanted, Accepted
<1>6. Chunk(image.inode[viewer.ino], viewer.at)' = Chunk(image.inode[viewer'.ino], viewer'.at)
  BY SMT DEF Chunk, BlockAt
<1>7. OnVolume(FindInode(viewer.path))' = OnVolume(FindInode(viewer'.path))
  BY SMT DEF OnVolume, Loaded, CopiedBytes, Copied, Wanted, Chunk, BlockAt, Accepted,
             FindInode, EntryOf, Entries, Searched
<1>8. FindIn(nodes, viewer.path)' = FindIn(nodes', viewer'.path)
  BY SMT DEF FindIn
<1>2. FsReadIn(nodes, viewer.path)' = FsReadIn(nodes', viewer'.path)
  <2>1. Loaded(FindInode(viewer.path))' = Loaded(FindInode(viewer'.path))
    BY SMT DEF Loaded, CopiedBytes, Copied, Wanted, Chunk, BlockAt, Accepted,
               FindInode, EntryOf, Entries, Searched
  <2> QED
    BY <1>7, <1>8, <2>1 DEF FsReadIn
<1>9. Opening(viewer, nodes)' <=> Opening(viewer', nodes')
  BY <1>2, <1>3, <1>4 DEF Opening
<1>10. Copying(viewer)' <=> Copying(viewer')
  BY <1>5, <1>6 DEF Copying
<1>11. Finding(viewer, nodes)' <=> Finding(viewer', nodes')
  BY <1>7, <1>8 DEF Finding, LengthOf
<1>12. WholeOf(viewer)' = WholeOf(viewer')
  BY <1>16 DEF WholeOf
<1>13. Decoding(viewer)' <=> Decoding(viewer')
  BY <1>12 DEF Decoding
<1>14. Holding(viewer, buffer)' <=> Holding(viewer', buffer')
  BY <1>16 DEF Holding
<1>15. (viewer \in ViewerType)' <=> viewer' \in ViewerType
  BY DEF ViewerType, Readings
<1> QED
  BY <1>9, <1>10, <1>11, <1>13, <1>14, <1>15 DEF ViewerOk

LEMMA ViewerStart ==
  ASSUME AppsInit
  PROVE  ViewerInv
<1>1. image \in Images /\ viewer = Asleep /\ buffer = [i \in 1 .. Direct * BlockBytes |-> "zero"]
  BY DEF AppsInit, ReadingInit
<1>2. buffer \in [1 .. Direct * BlockBytes -> Byte]
  <2>1. "zero" \in Byte
    BY DEF Byte
  <2> DEFINE d == Direct * BlockBytes
  <2> HIDE DEF d
  <2>2. [i \in 1 .. d |-> "zero"] \in [1 .. d -> Byte]
    BY <2>1
  <2> QED
    BY <1>1, <2>2 DEF d
<1> QED
  BY <1>1, <1>2, AsleepIs DEF ViewerInv

LEMMA ViewerStep ==
  ASSUME FilesInv, ViewerInv, [AppsNext]_AllVars
  PROVE  ViewerInv'
<1>1. part' = part
  BY Zenon DEF AppsNext, FileSteps, ScreenSteps, AllVars
<1>2. CASE part # "read"
  BY <1>1, <1>2 DEF ViewerInv
<1>3. CASE part = "read"
  <2>1. Reads \/ UNCHANGED <<nodes, cwd, image, viewer, buffer>>
    <3>1. CASE AppsNext
      BY <1>3, <3>1 DEF AppsNext, FileSteps
    <3>2. CASE UNCHANGED AllVars
      BY <3>2, Zenon DEF AllVars, vars, readVars
    <3> QED
      BY <3>1, <3>2
  <2>2. image' = image /\ cwd' = cwd
    <3>1. ASSUME Reads PROVE image' = image /\ cwd' = cwd
      <4>1. ASSUME NEW step, View(step) PROVE image' = image /\ cwd' = cwd
        BY <4>1 DEF View
      <4>2. ASSUME NEW path, Open(path) PROVE image' = image /\ cwd' = cwd
        BY <4>1, <4>2, Zenon DEF Open
      <4>3. ASSUME NEW path, ReadCommand(path) PROVE image' = image /\ cwd' = cwd
        BY <4>3 DEF ReadCommand
      <4>4. ASSUME NEW path, Change(path) PROVE image' = image /\ cwd' = cwd
        BY <4>4, Zenon DEF Change, Make, WriteExisting, WriteNew
      <4>5. ASSUME Viewing PROVE image' = image /\ cwd' = cwd
        BY <4>1, <4>5, Zenon
           DEF Viewing, CopyBlock, CopyEnds, FindFile, TakeContent, Decode, Opened
      <4> QED
        BY <3>1, <4>2, <4>3, <4>4, <4>5, Zenon DEF Reads
    <3> QED
      BY <2>1, <3>1
  <2>3. image \in Images /\ ViewerOk(viewer, buffer, nodes)
    BY <1>3 DEF ViewerInv
  <2>4. ViewerOk(viewer', buffer', nodes')
    <3>1. CASE Reads
      BY <2>3, <3>1, ReadsOk
    <3>2. CASE UNCHANGED <<nodes, cwd, image, viewer, buffer>>
      <4>1. viewer' = viewer /\ buffer' = buffer /\ nodes' = nodes
        BY <3>2
      <4> QED
        BY <2>3, <4>1, Zenon
    <3> QED
      BY <2>1, <3>1, <3>2
  <2> QED
    BY <2>2, <2>3, <2>4, SameImage DEF ViewerInv
<1> QED
  BY <1>2, <1>3

(* What is decoded in the end is what was to be. *)
LEMMA DecodedIs ==
  ASSUME ViewerInv
  PROVE  ViewerOwn
<1>1. SUFFICES ASSUME part = "read", Decoded, ~viewer.raced PROVE viewer.decoded \in viewer.seen
  BY DEF ViewerOwn, ViewerUnlessRaced
<1> DEFINE v == viewer
           whole == WholeOf(v)
<1>2. image \in Images /\ v \in ViewerType /\ Opening(v, nodes) /\ Decoding(v)
      /\ v.pc = "decode" /\ Len(v.decoded) = v.len
  BY <1>1 DEF ViewerInv, ViewerOk, Decoded
<1>3. /\ v.ino = 0 => v.content # "none"
      /\ whole \in v.seen /\ v.len = Len(whole)
      /\ \A i \in 1 .. Len(v.decoded) : v.decoded[i] = whole[i]
  BY <1>1, <1>2 DEF Decoding
<1>4. whole \in Seq(Byte)
  <2>1. CASE v.ino # 0
    <3>1. Readable(v.ino)
      BY <1>2, <2>1 DEF Opening
    <3> QED
      BY <2>1, <3>1, LoadedFits DEF WholeOf
  <2>2. CASE v.ino = 0
    <3>1. v.content \in Data \cup {"default"}
      BY <1>2, <1>3, <2>2, ViewerIn
    <3> QED
      BY <2>2, <3>1, ContentBytes DEF WholeOf
  <2> QED
    BY <2>1, <2>2
<1>5. v.decoded \in Seq(Byte)
  BY <1>2, ViewerIn
<1> HIDE DEF whole
<1>6. v.decoded = whole
  BY <1>2, <1>3, <1>4, <1>5, SeqEqual
<1> QED
  BY <1>3, <1>6

(* The image viewer decodes what fs_read would have returned at a moment   *)
(* of its call, however image_viewer_create is interrupted, unless another *)
(* file is copied into its buffer or a write comes between the length and  *)
(* the content.                                                            *)
THEOREM ViewerIsRight == AppsSpec => []ViewerOwn
<1>1. AppsInit => FilesInv /\ ViewerInv
  BY StartIs, ViewerStart DEF AppsInit, ReadingInit
<1>2. FilesInv /\ ViewerInv /\ [AppsNext]_AllVars => (FilesInv /\ ViewerInv)'
  BY AppsStepIs, FilesStep, ViewerStep
<1>3. ViewerInv => ViewerOwn
  BY DecodedIs
<1> QED
  BY <1>1, <1>2, <1>3, PTL DEF AppsSpec

------------------------------------------------------------------------------
(* What the volume holds is read of it.  The entries of a directory, which *)
(* have names, each once.                                                  *)
LEMMA RealEntriesAre ==
  ASSUME image \in Images, image.mounted, NEW dir \in DOMAIN image.inode,
         image.inode[dir].type = "DIR"
  PROVE  LET es == RealEntries(image, image.inode[dir]) IN
         /\ es \subseteq EntryType
         /\ \A e, f \in es : e.inode # 0 /\ f.inode # 0 =>
              e.name # "" /\ (e.name = f.name => e.inode = f.inode)
<1> DEFINE file == image.inode[dir]
           bs == Range(RealBlocks(file)) \ {0}
           es == RealEntries(image, file)
<1>1. Volume(image)
  BY ReadingAssumption DEF ReadingConstants
<1>2. \A b \in bs : image.block[b] \in Seq(EntryType)
  BY <1>1, Zenon DEF Volume, EntryType
<1>3. \A e, f \in {g \in es : g.inode # 0} : e.name # "" /\ (e.name = f.name => e.inode = f.inode)
  BY <1>1, Zenon DEF Volume
<1>4. es = UNION {Range(image.block[b]) : b \in bs}
  BY DEF RealEntries
<1> HIDE DEF bs, es, file
<1>5. es \subseteq EntryType
  <2>1. \A b \in bs : Range(image.block[b]) \subseteq EntryType
    <3>1. ASSUME NEW s \in Seq(EntryType) PROVE Range(s) \subseteq EntryType
      BY DEF Range
    <3> QED
      BY <1>2, <3>1
  <2> QED
    BY <1>4, <2>1, Zenon
<1> QED
  BY <1>3, <1>5 DEF es, file

(* The entry that is looked for is an entry there is. *)
LEMMA RealEntryIs ==
  ASSUME image \in Images, image.mounted, NEW dir \in {0} \cup DOMAIN image.inode, NEW name
  PROVE  LET e == RealEntry(dir, name) IN
         /\ e \in {0} \cup DOMAIN image.inode
         /\ name = "" => e = 0
         /\ dir = 0 \/ image.inode[dir].type # "DIR" => e = 0
         /\ dir # 0 /\ image.inode[dir].type = "DIR" =>
              \A f \in RealEntries(image, image.inode[dir]) :
                f.name = name /\ f.inode # 0 => e = f.inode
<1> DEFINE file == image.inode[dir]
           e == RealEntry(dir, name)
           es == RealEntries(image, file)
           hits == {f \in es : f.name = name /\ f.inode # 0}
<1>1. CASE dir = 0 \/ file.type # "DIR"
  BY <1>1 DEF RealEntry, NULL
<1>2. CASE ~(dir = 0 \/ file.type # "DIR")
  <2>1. e = IF hits = {} THEN 0 ELSE (CHOOSE f \in hits : TRUE).inode
    BY <1>2 DEF RealEntry, NULL
  <2>2. /\ es \subseteq EntryType
        /\ \A d, f \in es : d.inode # 0 /\ f.inode # 0 =>
             d.name # "" /\ (d.name = f.name => d.inode = f.inode)
    BY <1>2, RealEntriesAre
  <2> DEFINE h == CHOOSE f \in hits : TRUE
  <2>3. hits # {} => h \in hits
    BY Zenon
  <2> HIDE DEF es, h, e
  <2>4. CASE hits = {}
    BY <1>2, <2>1, <2>4 DEF e, es
  <2>5. CASE hits # {}
    <3>1. e = h.inode /\ h \in es /\ h.name = name /\ h.inode # 0
      BY <2>1, <2>3, <2>5 DEF h
    <3>2. e \in DOMAIN image.inode
      BY <2>2, <3>1 DEF EntryType
    <3>3. name # ""
      BY <2>2, <3>1
    <3>4. \A f \in es : f.name = name /\ f.inode # 0 => e = f.inode
      BY <2>2, <3>1
    <3> QED
      BY <1>2, <3>2, <3>3, <3>4 DEF e, es
  <2> QED
    BY <2>4, <2>5
<1> QED
  BY <1>1, <1>2

(* What ext2_find_inode takes for an entry is the entry, and it misses     *)
(* none of the first block.                                                *)
LEMMA EntryIsReal ==
  ASSUME image \in Images, image.mounted, NEW dir \in {0} \cup DOMAIN image.inode, NEW name
  PROVE  /\ EntryOf(dir, name) \in {0, RealEntry(dir, name)}
         /\ name = "" => EntryOf(dir, name) = 0
         /\ SmallDirectories => EntryOf(dir, name) = RealEntry(dir, name)
<1> DEFINE file == image.inode[dir]
           e == EntryOf(dir, name)
           r == RealEntry(dir, name)
<1>1. CASE dir = 0
  <2>1. e = 0
    BY <1>1, Zenon DEF EntryOf, NULL
  <2>2. r = 0
    BY <1>1, RealEntryIs, Zenon
  <2> QED
    BY <2>1, <2>2, Zenon
<1>2. CASE dir # 0 /\ file.type # "DIR"
  <2>1. e = 0
    BY <1>2, Zenon DEF EntryOf, Searched, NULL
  <2>2. r = 0
    BY <1>2, RealEntryIs, Zenon
  <2> QED
    BY <2>1, <2>2, Zenon
<1>3. CASE dir # 0 /\ file.type = "DIR"
  <2> DEFINE es == RealEntries(image, file)
             all == BlockAt(file.block[1])
  <2>1. dir \in DOMAIN image.inode
    BY <1>3
  <2>2. /\ name = "" => r = 0
        /\ \A f \in es : f.name = name /\ f.inode # 0 => r = f.inode
    BY <1>3, RealEntryIs
  <2>3. \/ e # 0 /\ \E f \in es : f.name = name /\ f.inode = e
        \/ e = 0 /\ (Searched(dir) =>
             \A i \in DOMAIN all : all[i].name = name => all[i].inode = 0)
    <3> HIDE DEF e, es, all
    <3> QED
      BY <2>1, EntryIs, Zenon DEF e, es, all
  <2>4. e \in {0, r} /\ (e # 0 => e = r /\ name # "")
    <3> HIDE DEF e, r, es, all
    <3> QED
      BY <2>2, <2>3
  <2>5. ASSUME SmallDirectories PROVE e = r
    <3>1. es = Range(image.block[file.block[1]])
      BY <1>3, <2>1, <2>5 DEF SmallDirectories
    <3>2. Searched(dir)
      <4>1. file.block[1] # 0
        <5>1. Volume(image)
          BY ReadingAssumption DEF ReadingConstants
        <5> QED
          BY <1>3, <2>1, <5>1 DEF Volume
      <4> QED
        BY <1>3, <4>1 DEF Searched
    <3>3. all = image.block[file.block[1]]
      BY <2>1, <3>2, EntriesIs, Zenon
    <3>4. \A f \in es : \E i \in DOMAIN all : f = all[i]
      BY <3>1, <3>3, Zenon DEF Range
    <3>5. CASE e # 0
      BY <2>4, <3>5
    <3>6. CASE e = 0
      <4>1. \A f \in es : f.name = name => f.inode = 0
        <5> HIDE DEF e, r, es, all
        <5> QED
          BY <2>3, <3>2, <3>4, <3>6
      <4>2. {f \in es : f.name = name /\ f.inode # 0} = {}
        <5> HIDE DEF es
        <5> QED
          BY <4>1
      <4>3. r = 0
        BY <1>3, <4>2, Zenon DEF RealEntry, NULL
      <4> QED
        BY <3>6, <4>3
    <3> QED
      BY <3>5, <3>6
  <2> QED
    BY <2>4, <2>5
<1> QED
  BY <1>1, <1>2, <1>3

LEMMA RealsAre ==
  ASSUME image \in Images, image.mounted, NEW path \in Seq(STRING), Len(path) >= 1
  PROVE  LET r == RealsFrom(path)
             N == {0} \cup DOMAIN image.inode IN
         /\ RealInode(path) = r[Len(path)]
         /\ r[1] = Ext2Root
         /\ \A i \in 2 .. Len(path) :
              r[i] = IF path[i] = "" THEN r[i - 1] ELSE RealEntry(r[i - 1], path[i])
         /\ \A i \in 1 .. Len(path) : r[i] \in N
<1> DEFINE n == Len(path)
           N == {0} \cup DOMAIN image.inode
           Next1(i, x) == IF path[i] = "" THEN x ELSE RealEntry(x, path[i])
           Reals(f) == f = [i \in 1 .. n |-> CASE i = 1 -> Ext2Root
                                               [] i > 1 /\ path[i] = "" -> f[i - 1]
                                               [] OTHER -> RealEntry(f[i - 1], path[i])]
           r == RealsFrom(path)
<1>1. \A x \in N, i \in 1 .. n : Next1(i, x) \in N
  <2> TAKE x \in N, i \in 1 .. n
  <2>1. RealEntry(x, path[i]) \in N
    BY RealEntryIs
  <2> QED
    BY <2>1
<1>2. r = CHOOSE f : Reals(f)
  BY DEF RealsFrom
<1>3. n \in Nat \ {0} /\ n - 1 \in Nat
  BY LenProperties
<1>4. Ext2Root \in N
  <2>1. Volume(image)
    BY ReadingAssumption DEF ReadingConstants
  <2> QED
    BY <2>1, Zenon DEF Volume
<1>5. RealInode(path) = r[n]
  BY Zenon DEF RealInode, RealsFrom
<1> HIDE DEF N, n, r
<1>6. PICK g \in [0 .. n - 1 -> N] :
        g[0] = Ext2Root /\ \A i \in 1 .. n - 1 : g[i] = Next1(i + 1, g[i - 1])
  <2> DEFINE step == [i \in 1 .. n - 1 |-> [x \in N |-> Next1(i + 1, x)]]
  <2>1. step \in Steps(n - 1, N)
    <3>1. \A i \in 1 .. n - 1 : i + 1 \in 1 .. n
      BY <1>3
    <3> HIDE DEF Next1
    <3> QED
      BY <1>1, <3>1 DEF Steps
  <2> HIDE DEF Next1
  <2>2. \A i \in 1 .. n - 1, x \in N : step[i][x] = Next1(i + 1, x)
    OBVIOUS
  <2> HIDE DEF step
  <2>3. PICK f : Follows(f, n - 1, N, Ext2Root, step)
    BY <1>3, <1>4, <2>1, Iterated, Zenon
  <2>4. /\ f \in [0 .. n - 1 -> N] /\ f[0] = Ext2Root
        /\ \A i \in 1 .. n - 1 : f[i] = step[i][f[i - 1]]
    BY <2>3 DEF Follows
  <2>5. \A i \in 1 .. n - 1 : f[i - 1] \in N
    BY <1>3, <2>4
  <2>9. ASSUME NEW i \in 1 .. n - 1 PROVE f[i] = Next1(i + 1, f[i - 1])
    BY <2>2, <2>4, <2>5, Zenon
  <2> QED
    BY <2>4, <2>9, Zenon
<1> DEFINE h == [i \in 1 .. n |-> g[i - 1]]
<1>7. h[1] = Ext2Root /\ \A i \in 2 .. n : h[i] = Next1(i, h[i - 1])
  <2>1. 1 \in 1 .. n /\ 1 - 1 = 0
    BY <1>3
  <2>2. \A i \in 2 .. n : /\ i \in 1 .. n /\ i - 1 \in 1 .. n /\ i - 1 \in 1 .. n - 1
                          /\ (i - 1) + 1 = i
    BY <1>3
  <2> HIDE DEF Next1
  <2>3. h[1] = g[0]
    BY <2>1
  <2>4. \A i \in 2 .. n : h[i] = g[i - 1] /\ h[i - 1] = g[(i - 1) - 1]
    BY <2>2
  <2>5. \A i \in 2 .. n : g[i - 1] = Next1((i - 1) + 1, g[(i - 1) - 1])
    BY <1>6, <2>2
  <2> QED
    BY <1>6, <2>2, <2>3, <2>4, <2>5
<1>8. Reals(h)
  <2>1. \A i \in 1 .. n : h[i] = CASE i = 1 -> Ext2Root
                                   [] i > 1 /\ path[i] = "" -> h[i - 1]
                                   [] OTHER -> RealEntry(h[i - 1], path[i])
    <3> TAKE i \in 1 .. n
    <3>1. i = 1 \/ (i \in 2 .. n /\ i > 1 /\ i # 1)
      BY <1>3
    <3> HIDE DEF h
    <3>2. CASE i = 1
      <4>1. h[1] = Ext2Root
        BY <1>7, Zenon
      <4>2. h[i] = Ext2Root /\ ~(i > 1)
        BY <3>2, <4>1
      <4> QED
        BY <3>2, <4>2
    <3>3. CASE i \in 2 .. n /\ i > 1 /\ i # 1
      <4>1. h[i] = IF path[i] = "" THEN h[i - 1] ELSE RealEntry(h[i - 1], path[i])
        BY <1>7, <3>3
      <4> QED
        BY <3>3, <4>1
    <3> QED
      BY <3>1, <3>2, <3>3
  <2>2. h = [i \in 1 .. n |-> h[i]]
    OBVIOUS
  <2> HIDE DEF h
  <2>3. [i \in 1 .. n |-> h[i]] = [i \in 1 .. n |-> CASE i = 1 -> Ext2Root
                                   [] i > 1 /\ path[i] = "" -> h[i - 1]
                                   [] OTHER -> RealEntry(h[i - 1], path[i])]
    BY <2>1, Zenon
  <2> QED
    BY <2>2, <2>3, Zenon
<1>9. Reals(r)
  <2> HIDE DEF Reals, h
  <2> QED
    BY <1>2, <1>8
<1>10. r[1] = Ext2Root /\ \A i \in 2 .. n : r[i] = Next1(i, r[i - 1])
  <2>1. ASSUME NEW i \in 1 .. n
        PROVE  r[i] = CASE i = 1 -> Ext2Root
                        [] i > 1 /\ path[i] = "" -> r[i - 1]
                        [] OTHER -> RealEntry(r[i - 1], path[i])
    <3>1. r[i] = [j \in 1 .. n |-> CASE j = 1 -> Ext2Root
                                     [] j > 1 /\ path[j] = "" -> r[j - 1]
                                     [] OTHER -> RealEntry(r[j - 1], path[j])][i]
      BY <1>9, Zenon
    <3> QED
      BY <3>1, Zenon
  <2>2. 1 \in 1 .. n /\ \A i \in 2 .. n : i \in 1 .. n /\ i > 1 /\ i # 1
    BY <1>3
  <2> HIDE DEF Reals
  <2>3. r[1] = Ext2Root
    <3>1. 1 \in 1 .. n /\ ~(1 > 1)
      BY <2>2
    <3> QED
      BY <2>1, <3>1
  <2>4. ASSUME NEW i \in 2 .. n
        PROVE  r[i] = IF path[i] = "" THEN r[i - 1] ELSE RealEntry(r[i - 1], path[i])
    <3>1. i \in 1 .. n /\ i > 1 /\ i # 1
      BY <2>2
    <3> QED
      BY <2>1, <3>1
  <2> QED
    BY <2>3, <2>4
<1>11. \A i \in 1 .. n : r[i] \in N
  <2> DEFINE U == {i \in 0 .. n - 1 : r[i + 1] \in N}
  <2>1. 0 \in U
    <3>1. 0 \in 0 .. n - 1 /\ 0 + 1 = 1
      BY <1>3
    <3>2. r[0 + 1] \in N
      BY <1>4, <1>10, <3>1
    <3> QED
      BY <3>1, <3>2
  <2>2. ASSUME NEW i \in 1 .. n - 1, i - 1 \in U PROVE i \in U
    <3>1. i \in 0 .. n - 1 /\ (i - 1) + 1 = i /\ i + 1 \in 2 .. n /\ (i + 1) - 1 = i
          /\ i + 1 \in 1 .. n
      BY <1>3
    <3>2. r[i] \in N
      BY <2>2, <3>1
    <3> HIDE DEF Next1
    <3>3. r[i + 1] = Next1(i + 1, r[i])
      BY <1>10, <3>1
    <3> QED
      BY <1>1, <3>1, <3>2, <3>3
  <2> HIDE DEF U
  <2>3. 0 .. n - 1 \subseteq U
    BY <1>3, <2>1, <2>2, UpTo
  <2>4. \A i \in 1 .. n : i - 1 \in U /\ (i - 1) + 1 = i
    BY <1>3, <2>3
  <2> QED
    BY <2>4 DEF U
<1> QED
  BY <1>5, <1>10, <1>11 DEF r, n, N, Next1

(* A path leads to what is there, or nowhere; and nowhere only if nothing  *)
(* is there, a directory has a second block or a slash is repeated.        *)
LEMMA PathIsReal ==
  ASSUME image \in Images, image.mounted, NEW path \in Seq(STRING), IsAbsolute(path)
  PROVE  LET found == FindInode(path)
             real == RealInode(path) IN
         /\ found \in {real, 0}
         /\ SmallDirectories /\ "" \notin Range(SubSeq(path, 2, Len(path) - 1)) => found = real
<1> DEFINE found == FindInode(path)
           real == RealInode(path)
           names == NamesOf(path)
           n == Len(path)
           m == Len(names)
           f == InodesFrom(path)
           r == RealsFrom(path)
           N == {0} \cup DOMAIN image.inode
<1>1. n \in Nat /\ n >= 2 /\ n >= 1 /\ m \in Nat
  <2>1. n \in Nat /\ n >= 2 /\ m \in Nat
    BY NamesAre, Zenon
  <2> HIDE DEF n
  <2> QED
    BY <2>1
<1>11. /\ path[n] = "" => m = n - 2
       /\ path[n] # "" => m = n - 1
       /\ \A i \in 1 .. m : names[i] = path[i + 1]
  BY NamesAre, Zenon
<1>2. /\ found = f[m] /\ f[0] = Ext2Root
      /\ \A i \in 1 .. m : f[i] = EntryOf(f[i - 1], names[i])
      /\ \A i \in 0 .. m : f[i] \in N
  BY InodesAre
<1>3. /\ real = r[n] /\ r[1] = Ext2Root
      /\ \A i \in 2 .. n : r[i] = IF path[i] = "" THEN r[i - 1] ELSE RealEntry(r[i - 1], path[i])
      /\ \A i \in 1 .. n : r[i] \in N
  BY <1>1, RealsAre
<1> HIDE DEF found, real, names, n, m, f, r, N
<1>12. m = n - 1 \/ (m = n - 2 /\ path[n] = "")
  BY <1>11, Zenon
<1>13. m = n - 1 \/ m = n - 2
  BY <1>12, Zenon
<1>4. /\ m + 1 \in 1 .. n
      /\ \A i \in 1 .. m : /\ i + 1 \in 2 .. n /\ (i + 1) - 1 = i /\ i \in 1 .. n
                           /\ i - 1 \in 0 .. m /\ i \in 0 .. m /\ (i - 1) + 1 = i
                           /\ i + 1 \in 2 .. n - 1 \/ (i + 1 = n /\ m # n - 2)
  BY <1>1, <1>13
<1>5. real = r[m + 1]
  <2>1. CASE m = n - 1
    <3>1. m + 1 = n
      BY <1>1, <2>1
    <3> QED
      BY <1>3, <3>1
  <2>2. CASE m = n - 2 /\ path[n] = ""
    <3>0. m = n - 2
      BY <2>2
    <3>1. n \in 2 .. n /\ n - 1 = m + 1
      BY <1>1, <3>0
    <3>2. r[n] = r[n - 1]
      BY <1>3, <2>2, <3>1, Zenon
    <3> QED
      BY <1>3, <3>1, <3>2
  <2> QED
    BY <1>12, <2>1, <2>2, Zenon
<1>6. \A i \in 1 .. m : /\ f[i] = EntryOf(f[i - 1], path[i + 1]) /\ f[i - 1] \in N
                        /\ r[i + 1] = IF path[i + 1] = "" THEN r[i]
                                      ELSE RealEntry(r[i], path[i + 1])
  <2> TAKE i \in 1 .. m
  <2>1. r[i + 1] = IF path[i + 1] = "" THEN r[(i + 1) - 1]
                   ELSE RealEntry(r[(i + 1) - 1], path[i + 1])
    BY <1>3, <1>4, Zenon
  <2>2. (i + 1) - 1 = i
    BY <1>4
  <2> QED
    BY <1>2, <1>4, <1>11, <2>1, <2>2
<1>7. \A i \in 0 .. m : f[i] \in {0, r[i + 1]}
  <2> DEFINE U == {i \in 0 .. m : f[i] \in {0, r[i + 1]}}
  <2>1. 0 \in U
    <3>1. 0 \in 0 .. m /\ 0 + 1 = 1
      BY <1>1
    <3>2. f[0] = r[0 + 1]
      BY <1>2, <1>3, <3>1
    <3> QED
      BY <3>1, <3>2
  <2>2. ASSUME NEW i \in 1 .. m, i - 1 \in U PROVE i \in U
    <3>1. i \in 0 .. m /\ (i - 1) + 1 = i
      BY <1>4
    <3>2. f[i - 1] \in {0, r[i]}
      <4>1. f[i - 1] \in {0, r[(i - 1) + 1]}
        BY <2>2, Zenon
      <4> QED
        BY <3>1, <4>1
    <3> DEFINE name == path[i + 1]
    <3>3. /\ EntryOf(f[i - 1], name) \in {0, RealEntry(f[i - 1], name)}
          /\ name = "" => EntryOf(f[i - 1], name) = 0
      BY <1>6, EntryIsReal, Zenon DEF N
    <3>4. EntryOf(0, name) = 0
      BY DEF EntryOf, NULL
    <3>5. /\ f[i] = EntryOf(f[i - 1], name)
          /\ r[i + 1] = IF name = "" THEN r[i] ELSE RealEntry(r[i], name)
      BY <1>6
    <3> HIDE DEF name
    <3>6. CASE f[i - 1] = 0 \/ name = ""
      BY <3>1, <3>3, <3>4, <3>5, <3>6
    <3>7. CASE f[i - 1] = r[i] /\ name # ""
      BY <3>1, <3>3, <3>5, <3>7
    <3> QED
      BY <3>2, <3>6, <3>7
  <2> HIDE DEF U
  <2>3. 0 .. m \subseteq U
    BY <1>1, <2>1, <2>2, UpTo
  <2> QED
    BY <2>3 DEF U
<1>8. m \in 0 .. m
  BY <1>1
<1>9. found \in {real, 0}
  <2>1. f[m] \in {0, r[m + 1]}
    BY <1>7, <1>8
  <2> QED
    BY <1>2, <1>5, <2>1
<1>10. ASSUME SmallDirectories, "" \notin Range(SubSeq(path, 2, n - 1))
       PROVE  found = real
  <2>1. \A i \in 1 .. m : path[i + 1] # ""
    <3>1. \A j \in 2 .. n - 1 : path[j] # ""
      BY <1>10, Inside, Zenon DEF n
    <3>2. ASSUME NEW i \in 1 .. m, i + 1 = n, m # n - 2 PROVE path[i + 1] # ""
      BY <1>11, <3>2, Zenon
    <3> QED
      BY <1>4, <3>1, <3>2, Zenon
  <2> DEFINE U == {i \in 0 .. m : f[i] = r[i + 1]}
  <2>2. 0 \in U
    <3>1. 0 \in 0 .. m /\ 0 + 1 = 1
      BY <1>1
    <3>2. f[0] = r[0 + 1]
      BY <1>2, <1>3, <3>1
    <3> QED
      BY <3>1, <3>2
  <2>3. ASSUME NEW i \in 1 .. m, i - 1 \in U PROVE i \in U
    <3>1. i \in 0 .. m /\ (i - 1) + 1 = i
      BY <1>4, Zenon
    <3>2. f[i - 1] = r[i]
      <4>1. f[i - 1] = r[(i - 1) + 1]
        BY <2>3, Zenon
      <4> QED
        BY <3>1, <4>1, Zenon
    <3>3. EntryOf(f[i - 1], path[i + 1]) = RealEntry(f[i - 1], path[i + 1])
      BY <1>6, <1>10, EntryIsReal, Zenon DEF N
    <3>4. f[i] = r[i + 1]
      BY <1>6, <2>1, <3>2, <3>3
    <3> QED
      BY <3>1, <3>4
  <2> HIDE DEF U
  <2>4. 0 .. m \subseteq U
    BY <1>1, <2>2, <2>3, UpTo
  <2>5. f[m] = r[m + 1]
    BY <1>8, <2>4 DEF U
  <2> QED
    BY <1>2, <1>5, <2>5
<1> QED
  BY <1>9, <1>10 DEF found, real, n

(* Every place of a file is one of a block. *)
LEMMA PlaceOf ==
  ASSUME NEW k \in Nat, NEW p \in Nat \ {0}, p <= k * BlockBytes
  PROVE  \E i \in 1 .. k : \E j \in 1 .. BlockBytes : p = (i - 1) * BlockBytes + j
<1> DEFINE T == {i \in Nat : p <= i * BlockBytes}
<1>1. T \subseteq Nat /\ k \in T
  OBVIOUS
<1>2. PICK i \in T : \A j \in T : i <= j
  BY <1>1, Least
<1>3. i \in Nat /\ i <= k /\ p <= i * BlockBytes
  BY <1>1, <1>2
<1>4. i # 0
  <2> SUFFICES ASSUME i = 0 PROVE FALSE
    OBVIOUS
  <2>1. i * BlockBytes = 0
    BY BlockSizes
  <2> QED
    BY <1>3, <2>1
<1>5. i \in 1 .. k /\ i - 1 \in Nat /\ ~(i <= i - 1)
  BY <1>3, <1>4
<1> DEFINE x == (i - 1) * BlockBytes
           y == i * BlockBytes
<1>6. y = x + BlockBytes /\ x \in Nat /\ y \in Nat
  BY <1>5, BlockSizes, TimesLess
<1>7. ~(p <= x)
  BY <1>2, <1>5
<1>8. p <= y
  BY <1>3
<1> HIDE DEF x, y
<1>9. p - x \in 1 .. BlockBytes /\ p = x + (p - x)
  BY <1>6, <1>7, <1>8, BlockSizes
<1> QED
  BY <1>5, <1>9 DEF x

(* All that is wanted of a regular file is read. *)
LEMMA AllCopied ==
  ASSUME image \in Images, image.mounted, NEW ino \in DOMAIN image.inode,
         image.inode[ino].type = "FILE"
  PROVE  LET file == image.inode[ino] IN
         /\ Copied(file) = Wanted(file)
         /\ file.size <= (Direct + Len(file.rest)) * BlockBytes
         /\ \A i \in DOMAIN RealBlocks(file) :
              RealBlocks(file)[i] # 0 => BlockAt(RealBlocks(file)[i]) \in Bytes
<1> DEFINE file == image.inode[ino]
           rb == RealBlocks(file)
<1>1. Volume(image)
  BY ReadingAssumption DEF ReadingConstants
<1>2. /\ file.size <= (Direct + Len(file.rest)) * BlockBytes
      /\ \A b \in Range(rb) \ {0} : b < image.blocks
      /\ \A b \in Range(rb) \ {0} :
           b \in DOMAIN image.block => image.block[b] \in [1 .. BlockBytes -> STRING]
      /\ image.blocks \in 0 .. BlockSpace - 1
  BY <1>1, Zenon DEF Volume
<1>3. /\ rb \in Seq(Nat) /\ Range(rb) \subseteq Nat
      /\ \A i \in 1 .. Direct : file.block[i] \in Range(rb) /\ file.block[i] \in Nat
  BY InodeIs, DirectIs
<1> HIDE DEF rb, file
<1>4. \A b \in Range(rb) \ {0} :
        b % BlockSpace = b /\ (b + 1) % BlockSpace = b + 1 /\ b + 1 <= image.blocks
  <2> TAKE b \in Range(rb) \ {0}
  <2>1. b \in Nat /\ b + 1 \in Nat /\ b < BlockSpace /\ b + 1 < BlockSpace /\ b + 1 <= image.blocks
    BY <1>2, <1>3, BlockSizes
  <2> QED
    BY <2>1, BlockSizes, WithinSpace
<1>5. \A b \in Range(rb) \ {0} : Accepted(b)
  BY <1>4 DEF Accepted
<1>6. Copied(file) = Wanted(file)
  <2>1. ASSUME NEW i \in Wanted(file), NEW j \in 1 .. i PROVE Accepted(file.block[j])
    <3>1. i \in 1 .. Direct /\ file.block[j] # 0
      BY DEF Wanted
    <3>2. j \in 1 .. Direct
      BY <3>1, BlockSizes
    <3> QED
      BY <1>3, <1>5, <3>1, <3>2
  <2> QED
    BY <2>1 DEF Copied
<1>7. \A b \in Range(rb) \ {0} : BlockAt(b) \in Bytes
  <2> TAKE b \in Range(rb) \ {0}
  <2>1. b \in Nat /\ b % BlockSpace = b
    BY <1>3, <1>4
  <2>2. b \in DOMAIN image.block => image.block[b] \in Bytes
    <3>1. [1 .. BlockBytes -> STRING] \subseteq Bytes
      <4>1. STRING \subseteq Byte
        BY DEF Byte
      <4> QED
        BY <4>1 DEF Bytes
    <3> QED
      BY <1>2, <3>1
  <2> QED
    BY <2>1, <2>2, BytesOfBlock
<1>8. \A i \in DOMAIN rb : rb[i] \in Range(rb)
  BY Zenon DEF Range
<1>9. \A i \in DOMAIN rb : rb[i] # 0 => BlockAt(rb[i]) \in Bytes
  BY <1>7, <1>8
<1> QED
  BY <1>2, <1>6, <1>9 DEF file, rb

(* The bytes of a file are those of its blocks. *)
LEMMA RealBytesAre ==
  ASSUME image \in Images, image.mounted, NEW ino \in DOMAIN image.inode,
         image.inode[ino].type = "FILE"
  PROVE  LET file == image.inode[ino]
             real == RealBytes(file) IN
         /\ real \in Seq(Byte) /\ Len(real) = file.size
         /\ \A i \in 1 .. Direct, j \in 1 .. BlockBytes :
              file.block[i] # 0 /\ (i - 1) * BlockBytes + j <= file.size =>
                real[(i - 1) * BlockBytes + j] = BlockAt(file.block[i])[j]
<1> DEFINE file == image.inode[ino]
           real == RealBytes(file)
           rb == RealBlocks(file)
           zeros == [b \in 1 .. BlockBytes |-> "zero"]
           seqs == [i \in DOMAIN rb |-> IF rb[i] = 0 THEN zeros ELSE BlockAt(rb[i])]
           flat == FlattenSeq(seqs)
           n == Len(rb)
           whole == n * BlockBytes
           size == file.size
<1>1. /\ rb \in Seq(Nat) /\ n = Direct + Len(file.rest) /\ Len(file.rest) \in Nat
      /\ \A i \in 1 .. Direct : rb[i] = file.block[i]
      /\ size \in Nat
  BY InodeIs, DirectIs
<1>2. size <= whole /\ \A i \in DOMAIN rb : rb[i] # 0 => BlockAt(rb[i]) \in Bytes
  BY <1>1, AllCopied
<1>3. n \in Nat \ {0} /\ Direct <= n /\ DOMAIN rb = 1 .. n
  BY <1>1, BlockSizes
<1>4. zeros \in Bytes
  BY DEF Bytes, Byte
<1>5. real = SubSeq(flat, 1, size)
  BY Zenon DEF RealBytes
<1> HIDE DEF zeros, rb, n, file, size, real, flat
<1>6. \A i \in 1 .. n : seqs[i] \in Bytes /\ (rb[i] # 0 => seqs[i] = BlockAt(rb[i]))
  BY <1>2, <1>3, <1>4
<1>7. \A s \in Bytes : s \in Seq(Byte) /\ Len(s) = BlockBytes
  BY BlockSizes DEF Bytes
<1>8. seqs \in Seq(Seq(Byte)) /\ Len(seqs) = n /\ seqs # <<>>
  BY <1>3, <1>6, <1>7
<1> HIDE DEF seqs
<1>9. /\ flat \in Seq(Byte) /\ Len(flat) = (n - 1) * BlockBytes + Len(seqs[n])
      /\ \A m \in 1 .. n : \A j \in 1 .. Len(seqs[m]) :
           flat[(m - 1) * BlockBytes + j] = seqs[m][j]
  <2>1. \A i \in 1 .. n - 1 : i \in 1 .. n
    BY <1>3
  <2>2. \A i \in 1 .. Len(seqs) - 1 : Len(seqs[i]) = BlockBytes
    BY <1>6, <1>7, <1>8, <2>1
  <2> QED
    BY <1>8, <2>2, FlatBytes DEF flat
<1>10. Len(flat) = whole /\ whole \in Nat
  <2>1. n \in 1 .. n
    BY <1>3
  <2>2. Len(seqs[n]) = BlockBytes
    BY <1>6, <1>7, <2>1
  <2> QED
    BY <1>3, <1>9, <2>2, BlockSizes, TimesLess
<1> HIDE DEF whole
<1>11. /\ real \in Seq(Byte) /\ Len(real) = size
       /\ \A p \in 1 .. size : real[p] = flat[p]
  <2>1. \A p \in 1 .. size : flat[p] \in Byte
    <3>1. \A p \in 1 .. size : p \in 1 .. Len(flat)
      BY <1>1, <1>2, <1>10
    <3> QED
      BY <1>9, <3>1
  <2>2. /\ real \in Seq(Byte) /\ Len(real) = (IF 1 <= size THEN size - 1 + 1 ELSE 0)
        /\ \A p \in 1 .. size - 1 + 1 : real[p] = flat[1 + p - 1]
    <3>1. 1 \in Int /\ size \in Int
      BY <1>1
    <3> QED
      BY <1>5, <2>1, <3>1, SubSeqProperties
  <2>3. \A p \in 1 .. size : p \in 1 .. size - 1 + 1 /\ 1 + p - 1 = p
    BY <1>1
  <2> QED
    BY <1>1, <2>2, <2>3
<1>12. ASSUME NEW i \in 1 .. Direct, NEW j \in 1 .. BlockBytes, file.block[i] # 0,
              (i - 1) * BlockBytes + j <= size
       PROVE  real[(i - 1) * BlockBytes + j] = BlockAt(file.block[i])[j]
  <2> DEFINE x == (i - 1) * BlockBytes
  <2>1. i \in 1 .. n /\ i \in Nat \ {0}
    BY <1>3, BlockSizes
  <2>2. seqs[i] = BlockAt(file.block[i]) /\ Len(seqs[i]) = BlockBytes
    BY <1>1, <1>6, <1>7, <1>12, <2>1
  <2>3. flat[x + j] = seqs[i][j]
    BY <1>9, <2>1, <2>2
  <2>4. x \in Nat
    BY <2>1, BlockSizes, TimesLess
  <2>5. x + j <= size
    BY <1>12
  <2> HIDE DEF x
  <2>6. x + j \in 1 .. size
    BY <1>1, <2>4, <2>5, BlockSizes
  <2> QED
    BY <1>11, <2>2, <2>3, <2>6 DEF x
<1> QED
  BY <1>11, <1>12 DEF real, file, size

(* A regular file is read as the first bytes of its content, and its       *)
(* reading ends before the file only at a hole or behind the direct        *)
(* blocks.                                                                 *)
LEMMA LoadedPrefix ==
  ASSUME image \in Images, image.mounted, NEW ino \in DOMAIN image.inode,
         image.inode[ino].type = "FILE"
  PROVE  LET file == image.inode[ino] IN
         /\ IsPrefix(Loaded(ino), RealBytes(file))
         /\ Len(Loaded(ino)) < file.size =>
              \E i \in 1 .. Direct + 1 :
                (i = Direct + 1 \/ file.block[i] = 0) /\ Len(Loaded(ino)) = (i - 1) * BlockBytes
<1> DEFINE file == image.inode[ino]
           k == Cardinality(Copied(file))
           bytes == Loaded(ino)
           real == RealBytes(file)
           size == file.size
           c == Len(Chunk(file, k))
           x == (k - 1) * BlockBytes
           y == k * BlockBytes
<1>1. Readable(ino)
  BY Zenon DEF Readable
<1>2. ino # 0
  BY InodeIs
<1>3. /\ size \in Nat /\ k \in 0 .. Direct /\ Copied(file) = 1 .. k
      /\ \A i \in 1 .. k : /\ i \in Nat \ {0} /\ (i - 1) * BlockBytes < size
                           /\ BlockAt(file.block[i]) \in Bytes
  BY <1>1, CopiedIs
<1>4. /\ bytes \in Seq(Byte)
      /\ k = 0 => bytes = <<>>
      /\ k > 0 => Len(bytes) = x + c
      /\ \A i \in 1 .. k : \A j \in 1 .. Len(Chunk(file, i)) :
           bytes[(i - 1) * BlockBytes + j] = Chunk(file, i)[j]
  BY <1>1, <1>2, LoadedIs
<1>5. Copied(file) = Wanted(file)
  BY AllCopied
<1>6. /\ real \in Seq(Byte) /\ Len(real) = size
      /\ \A i \in 1 .. Direct, j \in 1 .. BlockBytes :
           file.block[i] # 0 /\ (i - 1) * BlockBytes + j <= size =>
             real[(i - 1) * BlockBytes + j] = BlockAt(file.block[i])[j]
  BY RealBytesAre
<1>7. \A i \in 1 .. k : i \in 1 .. Direct /\ file.block[i] # 0
  <2>1. \A i \in Wanted(file) : i \in 1 .. Direct /\ i \in 1 .. i
    BY DEF Wanted
  <2>2. \A i \in Wanted(file) : file.block[i] # 0
    BY <2>1 DEF Wanted
  <2> HIDE DEF file, k
  <2> QED
    BY <1>3, <1>5, <2>1, <2>2
<1>8. \A i \in 1 .. k :
        /\ Len(Chunk(file, i)) = (IF i * BlockBytes <= size THEN BlockBytes
                                  ELSE size - (i - 1) * BlockBytes)
        /\ Len(Chunk(file, i)) \in 1 .. BlockBytes
        /\ \A j \in 1 .. Len(Chunk(file, i)) : Chunk(file, i)[j] = BlockAt(file.block[i])[j]
  <2>1. ASSUME NEW i \in 1 .. k
        PROVE  i \in Nat \ {0} /\ (i - 1) * BlockBytes < size /\ BlockAt(file.block[i]) \in Bytes
    BY <1>3, Zenon
  <2>2. file.size \in Nat
    BY <1>3
  <2> HIDE DEF file, k
  <2> QED
    BY <2>1, <2>2, ChunkIs
<1>9. \A i \in Wanted(file) : i \in 1 .. k
  BY <1>3, <1>5
<1> HIDE DEF file, k, bytes, real, size
<1>10. /\ k \in Nat /\ y \in Nat /\ BlockBytes \in Nat \ {0} /\ Direct \in Nat \ {0}
       /\ k > 0 => x \in Nat /\ y = x + BlockBytes /\ x < size /\ k \in 1 .. k
  <2>1. k \in Nat /\ BlockBytes \in Nat \ {0} /\ Direct \in Nat \ {0}
    BY <1>3, BlockSizes
  <2>2. y \in Nat
    BY <2>1, TimesLe
  <2>3. ASSUME k > 0 PROVE x \in Nat /\ y = x + BlockBytes /\ x < size /\ k \in 1 .. k
    <3>1. k \in Nat \ {0} /\ k \in 1 .. k
      BY <2>1, <2>3
    <3>2. x \in Nat /\ y = x + BlockBytes
      BY <2>1, <3>1, TimesLess
    <3> QED
      BY <1>3, <3>1, <3>2
  <2> QED
    BY <2>1, <2>2, <2>3
<1>11. k > 0 => /\ c = (IF y <= size THEN BlockBytes ELSE size - x) /\ c \in 1 .. BlockBytes
                /\ Len(bytes) = x + c
  BY <1>4, <1>8, <1>10
<1> HIDE DEF c
<1>12. /\ k = 0 => Len(bytes) = 0
       /\ Len(bytes) = (IF y <= size THEN y ELSE size)
  <2>1. CASE k = 0
    <3>1. y = 0
      BY <1>10, <2>1
    <3>2. Len(bytes) = 0
      BY <1>4, <2>1
    <3> HIDE DEF y
    <3> QED
      BY <1>3, <3>1, <3>2
  <2>2. CASE k > 0
    <3> HIDE DEF x, y
    <3> QED
      BY <1>3, <1>10, <1>11, <2>2
  <2> QED
    BY <1>10, <2>1, <2>2
<1>13. Len(bytes) <= size /\ Len(bytes) <= y /\ Len(bytes) \in Nat
  <2> HIDE DEF y
  <2> QED
    BY <1>3, <1>10, <1>12
<1>14. \A p \in 1 .. Len(bytes) : bytes[p] = real[p]
  <2> TAKE p \in 1 .. Len(bytes)
  <2>1. p \in Nat \ {0} /\ p <= size /\ p <= y
    <3> HIDE DEF y
    <3> QED
      BY <1>3, <1>10, <1>13
  <2>2. PICK i \in 1 .. k : \E j \in 1 .. BlockBytes : p = (i - 1) * BlockBytes + j
    BY <1>10, <2>1, PlaceOf
  <2>3. PICK j \in 1 .. BlockBytes : p = (i - 1) * BlockBytes + j
    BY <2>2
  <2> DEFINE z == (i - 1) * BlockBytes
             w == i * BlockBytes
             d == Len(Chunk(file, i))
  <2>4. z \in Nat /\ w = z + BlockBytes
    BY <1>3, <1>10, TimesLess
  <2>5. d = IF w <= size THEN BlockBytes ELSE size - z
    BY <1>8
  <2>6. p = z + j
    BY <2>3
  <2>7. j \in 1 .. d
    <3> HIDE DEF z, w, d
    <3> QED
      BY <1>3, <1>10, <2>1, <2>4, <2>5, <2>6
  <2>8. bytes[z + j] = Chunk(file, i)[j] /\ Chunk(file, i)[j] = BlockAt(file.block[i])[j]
    BY <1>4, <1>8, <2>7
  <2>9. real[z + j] = BlockAt(file.block[i])[j]
    <3>1. i \in 1 .. Direct /\ file.block[i] # 0 /\ z + j <= size
      BY <1>7, <2>1, <2>6
    <3> QED
      BY <1>6, <3>1
  <2> HIDE DEF z
  <2> QED
    BY <2>6, <2>8, <2>9
<1>15. IsPrefix(bytes, real)
  <2>1. Len(bytes) <= Len(real)
    BY <1>6, <1>13
  <2> QED
    BY <1>4, <1>6, <1>14, <2>1, BeginsLike
<1>16. ASSUME Len(bytes) < size
       PROVE  \E i \in 1 .. Direct + 1 :
                (i = Direct + 1 \/ file.block[i] = 0) /\ Len(bytes) = (i - 1) * BlockBytes
  <2>1. Len(bytes) = y /\ y < size
    <3> HIDE DEF y
    <3> QED
      BY <1>3, <1>10, <1>12, <1>16
  <2>2. k + 1 \in 1 .. Direct + 1 /\ (k + 1) - 1 = k /\ k + 1 \in Nat \ {0}
    BY <1>3, <1>10
  <2>3. ASSUME k + 1 # Direct + 1 PROVE file.block[k + 1] = 0
    <3>1. k + 1 \in 1 .. Direct /\ k + 1 \notin 1 .. k
      BY <1>3, <1>10, <2>3
    <3>2. k + 1 \notin Wanted(file)
      BY <1>9, <3>1
    <3>3. ((k + 1) - 1) * BlockBytes < file.size
      BY <2>1, <2>2 DEF size
    <3>4. PICK j \in 1 .. k + 1 : file.block[j] = 0
      BY <3>1, <3>2, <3>3 DEF Wanted
    <3>5. j \in 1 .. k \/ j = k + 1
      BY <1>10
    <3> QED
      BY <1>7, <3>4, <3>5
  <2>4. Len(bytes) = ((k + 1) - 1) * BlockBytes
    BY <2>1, <2>2
  <2> HIDE DEF y
  <2> QED
    BY <2>2, <2>3, <2>4
<1> QED
  BY <1>15, <1>16 DEF bytes, real, file, size

(* What ext2lsroot prints is found by its name. *)
LEMMA EntryFound ==
  ASSUME image \in Images, image.mounted, Searched(Ext2Root), NEW i \in Entries(Ext2Root)
  PROVE  LET e == BlockAt(image.inode[Ext2Root].block[1])[i]
         IN FindInode(<<"", e.name>>) = e.inode
<1> DEFINE file == image.inode[Ext2Root]
           all == BlockAt(file.block[1])
           es == RealEntries(image, file)
           e == all[i]
           path == <<"", e.name>>
           g == EntryOf(Ext2Root, e.name)
<1>1. Ext2Root \in DOMAIN image.inode /\ file.type = "DIR"
  <2>1. Volume(image)
    BY ReadingAssumption DEF ReadingConstants
  <2> QED
    BY <2>1, Zenon DEF Volume
<1>2. /\ \A j \in DOMAIN all : all[j] \in es
      /\ \A j \in DOMAIN all : j \in Entries(Ext2Root) <=> all[j].inode # 0
  BY <1>1, EntriesIs
<1>3. i \in DOMAIN all
  BY DEF Entries
<1>4. /\ es \subseteq EntryType
      /\ \A d, f \in es : d.inode # 0 /\ f.inode # 0 =>
           d.name # "" /\ (d.name = f.name => d.inode = f.inode)
  BY <1>1, RealEntriesAre
<1>5. \/ g # 0 /\ \E entry \in es : entry.name = e.name /\ entry.inode = g
      \/ g = 0 /\ \A j \in DOMAIN all : all[j].name = e.name => all[j].inode = 0
  <2> HIDE DEF file
  <2> QED
    BY <1>1, EntryIs, Zenon DEF file
<1> HIDE DEF all, es, g, file
<1>6. e \in es /\ e.inode # 0 /\ e.name # "" /\ e.name \in STRING
  <2>1. e \in es /\ e.inode # 0
    BY <1>2, <1>3
  <2> QED
    BY <1>4, <2>1 DEF EntryType
<1>7. g = e.inode
  <2> HIDE DEF e
  <2>1. CASE g = 0
    <3>1. e.inode = 0
      BY <1>3, <1>5, <2>1 DEF e
    <3> QED
      BY <1>6, <3>1
  <2>2. CASE g # 0
    BY <1>4, <1>5, <1>6, <2>2
  <2> QED
    BY <2>1, <2>2
<1>8. FindInode(path) = g
  <2> DEFINE name == e.name
             names == NamesOf(path)
             f == InodesFrom(path)
  <2>1. name \in STRING /\ name # ""
    BY <1>6
  <2>8. path = <<"", name>>
    OBVIOUS
  <2> HIDE DEF e, name, path
  <2>2. path \in Seq(STRING) /\ Len(path) = 2 /\ path[1] = "" /\ path[2] = name
    BY <2>1, <2>8, PathTexts, PairIs, Zenon
  <2>3. IsAbsolute(path)
    <3>1. Len(path) > 1
      <4>1. Len(path) = 2
        BY <2>2, Zenon
      <4> QED
        BY <4>1
    <3> QED
      BY <2>2, <3>1, Zenon DEF IsAbsolute
  <2>4. /\ Len(names) = 1
        /\ \A j \in 1 .. Len(names) : names[j] = path[j + 1]
    <3>1. /\ path[Len(path)] # "" => Len(names) = Len(path) - 1
          /\ \A j \in 1 .. Len(names) : names[j] = path[j + 1]
      BY <2>2, <2>3, NamesAre, Zenon
    <3>2. path[Len(path)] # ""
      BY <2>1, <2>2, Zenon
    <3>3. Len(names) = 2 - 1
      BY <2>2, <3>1, <3>2, Zenon
    <3>4. Len(names) = 1
      BY <3>3
    <3> QED
      BY <3>1, <3>4, Zenon
  <2>5. /\ FindInode(path) = f[Len(names)] /\ f[0] = Ext2Root
        /\ \A j \in 1 .. Len(names) : f[j] = EntryOf(f[j - 1], names[j])
    BY <2>2, <2>3, InodesAre
  <2> HIDE DEF names, f
  <2>6. FindInode(path) = f[1] /\ names[1] = path[1 + 1] /\ f[1] = EntryOf(f[1 - 1], names[1])
    <3>1. 1 \in 1 .. Len(names)
      BY <2>4
    <3> QED
      BY <2>4, <2>5, <3>1
  <2>7. 1 + 1 = 2 /\ 1 - 1 = 0
    OBVIOUS
  <2> QED
    BY <2>2, <2>5, <2>6, <2>7 DEF g, name
<1> QED
  BY <1>7, <1>8 DEF e, all, file

LEMMA VolumeStep ==
  ASSUME VolumeInv, [AppsNext]_AllVars
  PROVE  VolumeInv'
<1>1. part' = part
  BY Zenon DEF AppsNext, FileSteps, ScreenSteps, AllVars
<1>2. CASE part # "volume"
  BY <1>1, <1>2 DEF VolumeInv
<1>3. CASE part = "volume"
  <2>1. ListRoot \/ (\E path \in Read : ReadCommand(path)) \/ UNCHANGED <<image, listed>>
    <3>1. CASE AppsNext
      BY <1>3, <3>1 DEF AppsNext, FileSteps
    <3>2. CASE UNCHANGED AllVars
      BY <3>2, Zenon DEF AllVars, readVars
    <3> QED
      BY <3>1, <3>2
  <2>2. image' = image /\ (ListRoot \/ listed' = listed)
    <3>1. ASSUME NEW path \in Read, ReadCommand(path) PROVE image' = image /\ listed' = listed
      BY <3>1, Zenon DEF ReadCommand
    <3>2. ListRoot => image' = image
      BY Zenon DEF ListRoot
    <3> QED
      BY <2>1, <3>1, <3>2
  <2>3. image \in Images /\ (image.mounted => ListedFound)
    BY <1>3 DEF VolumeInv
  <2>4. ASSUME image.mounted, NEW e \in listed' PROVE FindInode(<<"", e.name>>) = e.inode
    <3>1. CASE listed' = listed
      BY <2>3, <2>4, <3>1 DEF ListedFound
    <3>2. CASE ListRoot
      <4>1. /\ Searched(Ext2Root)
            /\ listed' = {BlockAt(image.inode[Ext2Root].block[1])[i] : i \in Entries(Ext2Root)}
        BY <3>2 DEF ListRoot
      <4>2. PICK i \in Entries(Ext2Root) : e = BlockAt(image.inode[Ext2Root].block[1])[i]
        BY <2>4, <4>1
      <4>3. FindInode(<<"", BlockAt(image.inode[Ext2Root].block[1])[i].name>>) =
              BlockAt(image.inode[Ext2Root].block[1])[i].inode
        BY <2>3, <2>4, <4>1, EntryFound
      <4> QED
        BY <4>2, <4>3, Zenon
    <3> QED
      BY <2>2, <3>1, <3>2
  <2>5. \A name : FindInode(<<"", name>>)' = FindInode(<<"", name>>)
    BY <2>2, SMT DEF FindInode, EntryOf, Entries, Searched, BlockAt
  <2>6. ASSUME image.mounted, NEW e \in listed' PROVE FindInode(<<"", e.name>>)' = e.inode
    BY <2>4, <2>5, <2>6, Zenon
  <2>7. image' \in Images /\ (image.mounted <=> image.mounted')
    BY <2>2, <2>3
  <2>8. image.mounted' => ListedFound'
    BY <2>6, <2>7 DEF ListedFound
  <2> QED
    BY <2>7, <2>8 DEF VolumeInv
<1> QED
  BY <1>2, <1>3

LEMMA VolumeReads ==
  ASSUME VolumeInv
  PROVE  ReadsVolume
<1>1. SUFFICES ASSUME part = "volume", image.mounted PROVE ReadsExt2
  BY Zenon DEF ReadsVolume, ReadsExt2
<1>2. image \in Images /\ ListedFound
  BY <1>1, Zenon DEF VolumeInv
<1>3. ASSUME NEW path \in Viewed \cup Read, IsAbsolute(path)
      PROVE  LET found == FindInode(path)
                 real == RealInode(path) IN
             /\ found \in {real, NULL}
             /\ SmallDirectories /\ "" \notin Range(SubSeq(path, 2, Len(path) - 1)) => found = real
             /\ found # NULL /\ image.inode[found].type = "FILE" =>
                  /\ IsPrefix(Loaded(found), RealBytes(image.inode[found]))
                  /\ Len(Loaded(found)) < image.inode[found].size =>
                       \E i \in 1 .. Direct + 1 :
                         (i = Direct + 1 \/ image.inode[found].block[i] = 0)
                         /\ Len(Loaded(found)) = (i - 1) * BlockBytes
  <2>1. path \in Seq(STRING)
    BY TextPath
  <2> DEFINE found == FindInode(path)
  <2>2. /\ found \in {RealInode(path), NULL}
        /\ SmallDirectories /\ "" \notin Range(SubSeq(path, 2, Len(path) - 1)) =>
             found = RealInode(path)
    BY <1>1, <1>2, <1>3, <2>1, PathIsReal DEF NULL
  <2>3. found = NULL \/ found \in DOMAIN image.inode
    BY <1>2, <2>1, InodeFound DEF NULL
  <2> HIDE DEF found
  <2>4. ASSUME found # NULL, image.inode[found].type = "FILE"
        PROVE  /\ IsPrefix(Loaded(found), RealBytes(image.inode[found]))
               /\ Len(Loaded(found)) < image.inode[found].size =>
                    \E i \in 1 .. Direct + 1 :
                      (i = Direct + 1 \/ image.inode[found].block[i] = 0)
                      /\ Len(Loaded(found)) = (i - 1) * BlockBytes
    BY <1>1, <1>2, <2>3, <2>4, LoadedPrefix
  <2> QED
    BY <2>2, <2>4 DEF found
<1> QED
  BY <1>2, <1>3, Zenon DEF ReadsExt2, ListedFound

(* Of every volume that mke2fs makes, a path leads to what the volume      *)
(* holds under it, or to nothing, a regular file is read as the first      *)
(* blocks of its content, and what ext2lsroot lists is found by its name.  *)
THEOREM VolumeIsRead == AppsSpec => []ReadsVolume
<1>1. AppsInit => VolumeInv
  BY Zenon DEF AppsInit, ReadingInit, VolumeInv, ListedFound
<1>2. VolumeInv /\ [AppsNext]_AllVars => VolumeInv'
  BY VolumeStep
<1>3. VolumeInv => ReadsVolume
  BY VolumeReads
<1> QED
  BY <1>1, <1>2, <1>3, PTL DEF AppsSpec

------------------------------------------------------------------------------
(* The calculator's sizes. *)
LEMMA CalcSizes ==
  /\ Digits \subseteq 0 .. 9 /\ Width \in Nat \ {0} /\ Word \in Nat
  /\ K!Ten[Width] < K!Half
<1>1. Digits \subseteq 0 .. 9 /\ Width \in Nat \ {0} /\ Word \in Nat
  BY AppsAssumption DEF AppsConstants
<1>2. K!Ten[Width] < Word \div 2
  BY AppsAssumption, Zenon DEF AppsConstants
<1> QED
  BY <1>1, <1>2, Zenon DEF K!Half

(* The powers of ten. *)
LEMMA TenIs ==
  /\ K!Ten[0] = 1
  /\ \A k \in 1 .. Width : K!Ten[k] = 10 * K!Ten[k - 1]
  /\ \A k \in 0 .. Width : K!Ten[k] \in Nat \ {0}
<1> DEFINE n == Width
           Powers(f) == f = [k \in 0 .. n |-> IF k = 0 THEN 1 ELSE 10 * f[k - 1]]
           t == K!Ten
<1>1. t = CHOOSE f : Powers(f)
  BY Zenon DEF K!Ten
<1>2. n \in Nat
  BY CalcSizes
<1> HIDE DEF n, t
<1>3. PICK g \in [0 .. n -> Nat] : g[0] = 1 /\ \A k \in 1 .. n : g[k] = 10 * g[k - 1]
  <2> DEFINE step == [k \in 1 .. n |-> [x \in Nat |-> 10 * x]]
  <2>1. step \in Steps(n, Nat)
    BY DEF Steps
  <2>2. \A k \in 1 .. n, x \in Nat : step[k][x] = 10 * x
    OBVIOUS
  <2> HIDE DEF step
  <2>3. PICK f : Follows(f, n, Nat, 1, step)
    BY <1>2, <2>1, Iterated
  <2>4. f \in [0 .. n -> Nat] /\ f[0] = 1 /\ \A k \in 1 .. n : f[k] = step[k][f[k - 1]]
    BY <2>3 DEF Follows
  <2>5. \A k \in 1 .. n : f[k - 1] \in Nat
    BY <1>2, <2>4
  <2> QED
    BY <2>2, <2>4, <2>5
<1>4. Powers(g)
  <2>1. g = [k \in 0 .. n |-> g[k]]
    OBVIOUS
  <2>2. \A k \in 0 .. n : g[k] = IF k = 0 THEN 1 ELSE 10 * g[k - 1]
    <3>1. \A k \in 0 .. n : k = 0 \/ k \in 1 .. n
      BY <1>2
    <3>2. \A k \in 1 .. n : k # 0
      BY <1>2
    <3> QED
      BY <1>3, <3>1, <3>2, Zenon
  <2>3. [k \in 0 .. n |-> g[k]] = [k \in 0 .. n |-> IF k = 0 THEN 1 ELSE 10 * g[k - 1]]
    BY <2>2, Zenon
  <2> QED
    BY <2>1, <2>3, Zenon
<1>5. Powers(t)
  <2> HIDE DEF Powers
  <2> QED
    BY <1>1, <1>4
<1>6. \A k \in 0 .. n : t[k] = IF k = 0 THEN 1 ELSE 10 * t[k - 1]
  <2> TAKE k \in 0 .. n
  <2>1. t[k] = [j \in 0 .. n |-> IF j = 0 THEN 1 ELSE 10 * t[j - 1]][k]
    BY <1>5, Zenon
  <2> QED
    BY <2>1, Zenon
<1>7. t[0] = 1 /\ \A k \in 1 .. n : t[k] = 10 * t[k - 1]
  <2>1. 0 \in 0 .. n /\ \A k \in 1 .. n : k \in 0 .. n /\ k # 0
    BY <1>2
  <2> QED
    BY <1>6, <2>1, Zenon
<1>8. \A k \in 0 .. n : t[k] \in Nat \ {0}
  <2> DEFINE U == {k \in 0 .. n : t[k] \in Nat \ {0}}
  <2>1. 0 \in U
    BY <1>2, <1>7
  <2>2. ASSUME NEW k \in 1 .. n, k - 1 \in U PROVE k \in U
    BY <1>2, <1>7, <2>2
  <2> HIDE DEF U
  <2>3. 0 .. n \subseteq U
    BY <1>2, <2>1, <2>2, UpTo
  <2> QED
    BY <2>3 DEF U
<1> QED
  BY <1>7, <1>8 DEF t, n

LEMMA ParsedIs ==
  ASSUME NEW d
  PROVE  LET value == ValuesOf(d.digits)[Len(d.digits)]
         IN K!Parsed(d) = IF d.sign THEN -value ELSE value
  BY Zenon DEF K!Parsed, ValuesOf

LEMMA BelowTen ==
  ASSUME NEW digits \in Seq(0 .. 9), Len(digits) <= Width
  PROVE  ValuesOf(digits)[Len(digits)] < K!Ten[Len(digits)]
<1> DEFINE n == Len(digits)
           v == ValuesOf(digits)
           t == K!Ten
           U == {i \in 0 .. n : v[i] < t[i]}
<1>1. n \in Nat /\ \A i \in 1 .. n : digits[i] \in 0 .. 9
  OBVIOUS
<1>2. /\ v[0] = 0 /\ \A i \in 1 .. n : v[i] = v[i - 1] * 10 + digits[i]
      /\ \A i \in 0 .. n : v[i] \in Nat
  BY ValuesAre
<1>3. \A i \in 1 .. n : i \in 1 .. Width /\ i - 1 \in 0 .. Width /\ i - 1 \in 0 .. n
  BY <1>1, CalcSizes
<1>4. t[0] = 1 /\ \A i \in 1 .. n : t[i] = 10 * t[i - 1] /\ t[i - 1] \in Nat
  BY <1>3, TenIs
<1> HIDE DEF v, t, n
<1>5. 0 \in U
  BY <1>1, <1>2, <1>4
<1>6. ASSUME NEW i \in 1 .. n, i - 1 \in U PROVE i \in U
  <2>1. v[i - 1] < t[i - 1] /\ v[i - 1] \in Nat /\ t[i - 1] \in Nat /\ digits[i] \in 0 .. 9
    BY <1>1, <1>2, <1>3, <1>4, <1>6
  <2>2. v[i] = v[i - 1] * 10 + digits[i] /\ t[i] = 10 * t[i - 1]
    BY <1>2, <1>4
  <2>3. v[i] < t[i]
    <3>1. v[i - 1] * 10 + digits[i] < 10 * t[i - 1]
      BY <2>1, StillLess, Zenon
    <3> QED
      BY <2>2, <3>1, Zenon
  <2>4. i \in 0 .. n
    BY <1>1
  <2> QED
    BY <2>3, <2>4
<1> HIDE DEF U
<1>7. 0 .. n \subseteq U
  BY <1>1, <1>5, <1>6, UpTo
<1> QED
  BY <1>1, <1>7 DEF U, v, t, n

LEMMA LeastOf ==
  ASSUME NEW T, T \subseteq Nat, T # {}
  PROVE  K!Min(T) \in T
<1>1. \E x \in T : \A y \in T : x <= y
  BY Least
<1> QED
  BY <1>1 DEF K!Min

(* What calc_set_display shows is the number, if it has room. *)
LEMMA NumberShown ==
  ASSUME NEW n \in Int, K!Magnitude(n) < K!Ten[Width]
  PROVE  LET d == K!Text(n) IN
         /\ d.digits \in Seq(0 .. 9) /\ Len(d.digits) <= Width
         /\ d.sign \in BOOLEAN /\ (d.sign <=> n < 0) /\ d.err = FALSE
         /\ K!Parsed(d) = n
<1> DEFINE d == K!Text(n)
           v == K!Magnitude(n)
           t == K!Ten
           T == {k \in 1 .. Width : v < t[k]} \cup {Width}
           l == K!Min(T)
           digits == [i \in 1 .. l |-> (v \div t[l - i]) % 10]
           w == ValuesOf(digits)
<1>1. v \in Nat /\ v = (IF n < 0 THEN -n ELSE n)
  BY DEF K!Magnitude
<1>2. v < t[Width] /\ t[Width] < K!Half /\ Width \in Nat \ {0}
  BY CalcSizes
<1>3. /\ t[0] = 1 /\ \A k \in 1 .. Width : t[k] = 10 * t[k - 1]
      /\ \A k \in 0 .. Width : t[k] \in Nat \ {0}
  BY TenIs
<1>4. K!Half \in Int
  BY CalcSizes DEF K!Half
<1>5. n # -K!Half
  <2>1. t[Width] \in Nat
    BY <1>2, <1>3
  <2> HIDE DEF t, v
  <2> QED
    BY <1>1, <1>2, <1>4, <2>1
<1>6. d = [sign |-> n < 0, err |-> FALSE, digits |-> digits]
  BY <1>5, Zenon DEF K!Text
<1> HIDE DEF d, v, t
<1>7. l \in 1 .. Width /\ v < t[l]
  <2>1. T \subseteq Nat /\ T # {}
    BY <1>2
  <2>2. l \in T
    <3> HIDE DEF T
    <3> QED
      BY <2>1, LeastOf
  <2> HIDE DEF l
  <2> QED
    BY <1>2, <2>2
<1> HIDE DEF l
<1>8. \A i \in 0 .. l : l - i \in 0 .. Width /\ t[l - i] \in Nat \ {0}
  BY <1>2, <1>3, <1>7
<1>9. /\ digits \in Seq(0 .. 9) /\ Len(digits) = l
      /\ \A i \in 1 .. l : digits[i] = (v \div t[l - i]) % 10
  <2>1. \A i \in 1 .. l : (v \div t[l - i]) % 10 \in 0 .. 9
    <3> TAKE i \in 1 .. l
    <3>1. t[l - i] \in Nat \ {0}
      <4>1. i \in 0 .. l
        BY <1>7
      <4> QED
        BY <1>8, <4>1
    <3> QED
      BY <1>1, <3>1, DivTen
  <2>2. l \in Nat
    BY <1>7
  <2> QED
    BY <2>1, <2>2
<1> HIDE DEF digits
<1>10. w[0] = 0 /\ \A i \in 1 .. l : w[i] = w[i - 1] * 10 + digits[i]
  BY <1>9, ValuesAre
<1> HIDE DEF w
<1> DEFINE U == {i \in 0 .. l : w[i] = v \div t[l - i]}
<1>11. 0 \in U
  <2>1. t[l] \in Nat \ {0} /\ l - 0 = l /\ 0 \in 0 .. l
    BY <1>3, <1>7
  <2>2. t[l] * 0 + v = v /\ v \in 0 .. t[l] - 1
    BY <1>1, <1>7, <2>1
  <2>3. (t[l] * 0 + v) \div t[l] = 0
    BY <2>1, <2>2, DivIs
  <2> QED
    BY <1>10, <2>1, <2>2, <2>3
<1>12. ASSUME NEW i \in 1 .. l, i - 1 \in U PROVE i \in U
  <2>1. i \in 0 .. l /\ l - (i - 1) \in 1 .. Width /\ (l - (i - 1)) - 1 = l - i
    BY <1>2, <1>7
  <2>2. t[l - (i - 1)] = 10 * t[l - i] /\ t[l - i] \in Nat \ {0}
    BY <1>3, <1>8, <2>1
  <2>3. w[i - 1] = v \div (10 * t[l - i])
    BY <1>12, <2>2
  <2>4. v \div t[l - i] = (v \div (10 * t[l - i])) * 10 + ((v \div t[l - i]) % 10)
    BY <1>1, <2>2, DivTen
  <2>5. w[i] = v \div t[l - i]
    BY <1>9, <1>10, <2>3, <2>4, Zenon
  <2> QED
    BY <2>1, <2>5
<1> HIDE DEF U
<1>13. 0 .. l \subseteq U /\ l \in 0 .. l
  <2>1. l \in Nat
    BY <1>7
  <2> QED
    BY <1>11, <1>12, <2>1, UpTo
<1>14. w[l] = v
  <2>1. w[l] = v \div t[l - l] /\ l - l = 0
    BY <1>7, <1>13 DEF U
  <2>2. (1 * v + 0) \div 1 = v /\ 1 * v + 0 = v
    BY <1>1, DivIs
  <2> QED
    BY <1>3, <2>1, <2>2
<1>15. K!Parsed(d) = IF d.sign THEN -v ELSE v
  <2>1. d.digits = digits
    BY <1>6
  <2> QED
    BY <1>9, <1>14, <2>1, ParsedIs, Zenon DEF w
<1>16. K!Parsed(d) = n
  <2>1. d.sign = (n < 0)
    BY <1>6, Zenon
  <2>2. CASE n < 0
    <3>1. K!Parsed(d) = -v
      BY <1>15, <2>1, <2>2, Zenon
    <3> QED
      BY <1>1, <2>2, <3>1
  <2>3. CASE ~(n < 0)
    <3>1. K!Parsed(d) = v
      BY <1>15, <2>1, <2>3, Zenon
    <3> QED
      BY <1>1, <2>3, <3>1
  <2> QED
    BY <2>2, <2>3
<1>17. /\ d.digits = digits /\ d.err = FALSE
       /\ d.sign \in BOOLEAN /\ (d.sign <=> n < 0)
  <2>1. d.digits = digits /\ d.err = FALSE
    BY <1>6
  <2>2. d.sign = (n < 0)
    BY <1>6, Zenon
  <2>3. (n < 0) \in BOOLEAN
    OBVIOUS
  <2> QED
    BY <2>1, <2>2, <2>3, Zenon
<1>18. Len(digits) <= Width
  BY <1>2, <1>7, <1>9
<1> QED
  BY <1>9, <1>16, <1>17, <1>18, Zenon DEF d

LEMMA TensGrow ==
  ASSUME NEW n \in 0 .. Width
  PROVE  K!Ten[n] <= K!Ten[Width]
<1> DEFINE t == K!Ten
           U == {i \in 0 .. Width : t[Width - i] <= t[Width]}
<1>1. Width \in Nat
  BY CalcSizes
<1>2. /\ \A k \in 1 .. Width : t[k] = 10 * t[k - 1]
      /\ \A k \in 0 .. Width : t[k] \in Nat
  BY TenIs
<1> HIDE DEF t
<1>3. 0 \in U
  BY <1>1, <1>2
<1>4. ASSUME NEW i \in 1 .. Width, i - 1 \in U PROVE i \in U
  <2> DEFINE k == Width - (i - 1)
  <2>1. k \in 1 .. Width /\ k - 1 = Width - i /\ k \in 0 .. Width /\ k - 1 \in 0 .. Width
        /\ Width \in 0 .. Width /\ i \in 0 .. Width
    BY <1>1
  <2>2. t[k] = 10 * t[k - 1] /\ t[k] \in Nat /\ t[k - 1] \in Nat /\ t[Width] \in Nat
    BY <1>2, <2>1
  <2>3. t[k] <= t[Width]
    BY <1>4
  <2> HIDE DEF k
  <2>4. t[k - 1] <= t[Width]
    BY <2>2, <2>3
  <2> QED
    BY <2>1, <2>4
<1> HIDE DEF U
<1>5. 0 .. Width \subseteq U
  BY <1>1, <1>3, <1>4, UpTo
<1>6. Width - n \in U /\ Width - (Width - n) = n
  BY <1>1, <1>5
<1> QED
  BY <1>6 DEF U, t

(* What is on the display is less than a long holds. *)
LEMMA ParsedSmall ==
  ASSUME NEW d, d.digits \in Seq(0 .. 9), Len(d.digits) <= Width, d.sign \in BOOLEAN
  PROVE  LET value == ValuesOf(d.digits)[Len(d.digits)] IN
         /\ value \in Nat /\ value < K!Ten[Width]
         /\ K!Parsed(d) = (IF d.sign THEN -value ELSE value)
         /\ K!Parsed(d) \in Int /\ K!Magnitude(K!Parsed(d)) < K!Ten[Width]
<1> DEFINE s == d.digits
           n == Len(s)
           value == ValuesOf(s)[n]
           p == K!Parsed(d)
           top == K!Ten[Width]
<1>1. n \in 0 .. Width /\ n \in 0 .. n
  BY CalcSizes
<1>2. value \in Nat
  BY <1>1, ValuesAre
<1>3. value < K!Ten[n]
  BY BelowTen
<1>4. K!Ten[n] <= top /\ K!Ten[n] \in Nat /\ top \in Nat
  <2>1. Width \in 0 .. Width
    BY CalcSizes
  <2> HIDE DEF n
  <2> QED
    BY <1>1, <2>1, TensGrow, TenIs
<1>5. p = IF d.sign THEN -value ELSE value
  BY ParsedIs, Zenon
<1> HIDE DEF value, p, top
<1>6. value < top
  <2> DEFINE x == K!Ten[n]
  <2>1. value < x /\ x <= top /\ x \in Nat
    BY <1>3, <1>4
  <2> HIDE DEF x
  <2> QED
    BY <1>2, <1>4, <2>1
<1>7. p \in Int /\ K!Magnitude(p) = value
  <2>1. CASE d.sign
    <3>1. p = -value
      BY <1>5, <2>1
    <3> QED
      BY <1>2, <3>1 DEF K!Magnitude
  <2>2. CASE ~d.sign
    <3>1. p = value
      BY <1>5, <2>2
    <3> QED
      BY <1>2, <3>1 DEF K!Magnitude
  <2> QED
    BY <2>1, <2>2
<1> QED
  BY <1>2, <1>5, <1>6, <1>7 DEF value, p, top

LEMMA WrappedIs ==
  ASSUME NEW n \in Int, K!Magnitude(n) < K!Ten[Width]
  PROVE  K!Wrapped(n) = n
<1> DEFINE h == K!Half
           top == K!Ten[Width]
<1>1. /\ h \in Int /\ 2 * h <= Word /\ Word \in Nat /\ top < h /\ top \in Nat
  <2>1. Width \in 0 .. Width /\ Word \in Nat /\ top < h
    BY CalcSizes
  <2>2. h \in Int /\ 2 * h <= Word
    BY <2>1 DEF K!Half
  <2> QED
    BY <2>1, <2>2, TenIs
<1> HIDE DEF h, top
<1>2. K!Magnitude(n) < top
  BY DEF top
<1>3. n + h \in 0 .. 2 * h - 1
  BY <1>1, <1>2 DEF K!Magnitude
<1>4. n + h \in 0 .. 2 * Word - 1 /\ n + h < Word /\ Word \in Nat \ {0, 1}
  BY <1>1, <1>3
<1>5. (n + h) % Word = n + h
  BY <1>4, ModOnce
<1> QED
  BY <1>1, <1>5 DEF K!Wrapped, h

LEMMA ValueIs ==
  ASSUME NEW a \in Int, NEW b \in Int, NEW op \in K!Operators, ~K!Undefined(op, b)
  PROVE  K!Value(a, op, b) \in Int
<1>1. ASSUME b # 0 PROVE K!Quotient(a, b) \in Int
  <2> DEFINE x == K!Magnitude(a)
             y == K!Magnitude(b)
  <2>1. x \in Nat /\ y \in Nat \ {0}
    BY <1>1 DEF K!Magnitude
  <2> HIDE DEF x, y
  <2>2. x \div y \in Int
    BY <2>1
  <2> DEFINE q == x \div y
  <2>3. K!Quotient(a, b) \in {q, -q}
    BY DEF K!Quotient, x, y
  <2>4. q \in Int
    BY <2>2
  <2> HIDE DEF q
  <2> QED
    BY <2>3, <2>4
<1>2. ASSUME b # 0 PROVE K!Remainder(a, b) \in Int
  <2> DEFINE q == K!Quotient(a, b)
  <2>1. q \in Int
    BY <1>1, <1>2
  <2>2. K!Remainder(a, b) = a - b * q
    BY DEF K!Remainder
  <2> HIDE DEF q
  <2>3. b * q \in Int
    BY <2>1
  <2> QED
    BY <2>1, <2>2, <2>3
<1>3. a + b \in Int /\ a - b \in Int /\ a * b \in Int
  OBVIOUS
<1>4. op \in {"/", "%"} => b # 0
  BY DEF K!Undefined
<1>5. CASE op = "+"
  BY <1>3, <1>5, Zenon DEF K!Value
<1>6. CASE op = "-"
  BY <1>3, <1>6, Zenon DEF K!Value
<1>7. CASE op = "*"
  BY <1>3, <1>7, Zenon DEF K!Value
<1>8. CASE op = "/"
  BY <1>1, <1>4, <1>8, Zenon DEF K!Value
<1>9. CASE op = "%"
  BY <1>2, <1>4, <1>9, Zenon DEF K!Value
<1> QED
  BY <1>5, <1>6, <1>7, <1>8, <1>9, Zenon DEF K!Operators

(* A number shown. *)
LEMMA TextShows ==
  ASSUME NEW n \in Int, K!Magnitude(n) < K!Ten[Width]
  PROVE  /\ DisplayIs(K!Text(n), n)
         /\ K!Text(n) \in [sign : BOOLEAN, err : BOOLEAN, digits : Seq(0 .. 9)]
<1> DEFINE d == K!Text(n)
<1>1. /\ d.digits \in Seq(0 .. 9) /\ Len(d.digits) <= Width
      /\ d.sign \in BOOLEAN /\ (d.sign <=> n < 0) /\ d.err = FALSE
      /\ K!Parsed(d) = n
  BY NumberShown, Zenon
<1>2. \E g : d = [sign |-> n < 0, err |-> FALSE, digits |-> g]
  BY Zenon DEF K!Text
<1> HIDE DEF d
<1>3. d = [sign |-> d.sign, err |-> d.err, digits |-> d.digits]
  <2>1. PICK g : d = [sign |-> n < 0, err |-> FALSE, digits |-> g]
    BY <1>2
  <2>2. d.sign = (n < 0) /\ d.err = FALSE /\ d.digits = g
    BY <2>1, Zenon
  <2> QED
    BY <2>1, <2>2, Zenon
<1>4. d \in [sign : BOOLEAN, err : BOOLEAN, digits : Seq(0 .. 9)]
  BY <1>1, <1>3
<1> QED
  BY <1>1, <1>4, Zenon DEF DisplayIs, d

LEMMA ClearOk ==
  CalcOk(K!Cleared, K!Text(0), TRUE, K!Fresh)
<1>1. 0 \in Int /\ K!Magnitude(0) < K!Ten[Width]
  <2>1. Width \in 0 .. Width
    BY CalcSizes
  <2>2. K!Ten[Width] \in Nat \ {0}
    BY <2>1, TenIs
  <2> QED
    BY <2>2 DEF K!Magnitude
<1>2. /\ DisplayIs(K!Text(0), 0)
      /\ K!Text(0) \in [sign : BOOLEAN, err : BOOLEAN, digits : Seq(0 .. 9)]
  BY <1>1, TextShows
<1>3. K!Cleared \in [value1 : Int, value2 : Int, op : CalcOps] /\ K!Cleared.op = K!NoOp
  BY DEF K!Cleared, CalcOps
<1>4. /\ K!Fresh \in [left : Int, op : CalcOps, shown : Int, fresh : BOOLEAN, odd : BOOLEAN]
      /\ K!Fresh.shown = 0 /\ K!Fresh.fresh = TRUE /\ K!Fresh.op = K!NoOp
  BY DEF K!Fresh, CalcOps
<1> QED
  BY <1>2, <1>3, <1>4, Zenon DEF CalcOk

(* One digit more. *)
LEMMA AppendShows ==
  ASSUME NEW d, NEW n, DisplayIs(d, n), Len(d.digits) < Width, NEW x \in 0 .. 9,
         d \in [sign : BOOLEAN, err : BOOLEAN, digits : Seq(0 .. 9)]
  PROVE  LET e == [d EXCEPT !.digits = Append(@, x)] IN
         /\ DisplayIs(e, IF n < 0 THEN 10 * n - x ELSE 10 * n + x)
         /\ e \in [sign : BOOLEAN, err : BOOLEAN, digits : Seq(0 .. 9)]
<1> DEFINE s == d.digits
           t == Append(s, x)
           e == [d EXCEPT !.digits = Append(@, x)]
           m == IF n < 0 THEN 10 * n - x ELSE 10 * n + x
           a == ValuesOf(s)[Len(s)]
           b == ValuesOf(t)[Len(t)]
<1>1. /\ s \in Seq(0 .. 9) /\ d.sign \in BOOLEAN /\ d.err = FALSE
      /\ n \in Int /\ (d.sign <=> n < 0) /\ K!Parsed(d) = n
  BY DEF DisplayIs
<1>2. /\ e.digits = t /\ e.sign = d.sign /\ e.err = d.err
      /\ e = [sign |-> d.sign, err |-> d.err, digits |-> t]
  BY OtherDigits, Zenon DEF s
<1> HIDE DEF e, s
<1>3. /\ t \in Seq(0 .. 9) /\ Len(t) = Len(s) + 1 /\ Len(s) \in Nat
      /\ \A i \in 1 .. Len(s) : t[i] = s[i]
      /\ t[Len(s) + 1] = x
  BY <1>1, AppendProperties
<1> HIDE DEF t
<1>4. b = a * 10 + x /\ a \in Nat
  <2>1. Len(t) \in 1 .. Len(t) /\ Len(t) - 1 = Len(s) /\ Len(s) <= Len(t) /\ Len(s) \in 0 .. Len(s)
    BY <1>3
  <2>2. b = ValuesOf(t)[Len(s)] * 10 + t[Len(t)]
    <3>1. b = ValuesOf(t)[Len(t) - 1] * 10 + t[Len(t)]
      BY <1>3, <2>1, ValuesAre
    <3> QED
      BY <2>1, <3>1
  <2>3. ValuesOf(t)[Len(s)] = a
    <3>1. \A i \in 1 .. Len(s) : s[i] = t[i]
      BY <1>3
    <3> QED
      BY <1>1, <1>3, <2>1, <3>1, SameValues
  <2>4. a \in Nat
    BY <1>1, <2>1, ValuesAre
  <2>5. t[Len(t)] = x
    BY <1>3
  <2> QED
    BY <2>2, <2>3, <2>4, <2>5, Zenon
<1>5. /\ n = IF d.sign THEN -a ELSE a
      /\ K!Parsed(e) = IF d.sign THEN -b ELSE b
  <2>1. K!Parsed(d) = IF d.sign THEN -a ELSE a
    BY ParsedIs, Zenon DEF s
  <2>2. K!Parsed(e) = IF e.sign THEN -ValuesOf(e.digits)[Len(e.digits)]
                      ELSE ValuesOf(e.digits)[Len(e.digits)]
    BY ParsedIs, Zenon
  <2> QED
    BY <1>1, <1>2, <2>1, <2>2, Zenon
<1> HIDE DEF a, b
<1>6. K!Parsed(e) = m /\ m \in Int /\ (d.sign <=> m < 0)
  <2>1. CASE d.sign
    <3>1. n = -a /\ K!Parsed(e) = -b /\ n < 0
      BY <1>1, <1>5, <2>1
    <3>2. m = 10 * n - x
      BY <3>1
    <3>3. K!Parsed(e) = m /\ m \in Int /\ m < 0
      BY <1>1, <1>4, <3>1, <3>2
    <3> QED
      BY <2>1, <3>3
  <2>2. CASE ~d.sign
    <3>1. n = a /\ K!Parsed(e) = b /\ ~(n < 0)
      BY <1>1, <1>5, <2>2
    <3>2. m = 10 * n + x
      BY <3>1
    <3>3. K!Parsed(e) = m /\ m \in Int /\ ~(m < 0)
      BY <1>1, <1>4, <3>1, <3>2
    <3> QED
      BY <2>2, <3>3
  <2> QED
    BY <1>1, <2>1, <2>2
<1> HIDE DEF m
<1>7. Len(t) <= Width
  <2>1. Width \in Nat
    BY CalcSizes
  <2>2. Len(s) < Width
    BY DEF s
  <2> QED
    BY <1>3, <2>1, <2>2
<1>8. DisplayIs(e, m)
  BY <1>1, <1>2, <1>3, <1>6, <1>7, Zenon DEF DisplayIs
<1>9. e \in [sign : BOOLEAN, err : BOOLEAN, digits : Seq(0 .. 9)]
  BY <1>1, <1>2, <1>3
<1> QED
  BY <1>8, <1>9 DEF e, m

(* The keys. *)
LEMMA DigitOk ==
  ASSUME NEW x \in Digits, K!Digit(x), CalcOk(calc, display, new_input, meant), ~meant.odd,
         ~meant'.odd
  PROVE  CalcOk(calc', display', new_input', meant')
<1> DEFINE m == meant
           n == IF m.fresh THEN x ELSE IF m.shown < 0 THEN 10 * m.shown - x ELSE 10 * m.shown + x
           w == [m EXCEPT !.shown = n, !.fresh = FALSE,
                          !.odd = @ \/ (~m.fresh /\ K!Length(display) >= Width)]
<1>1. x \in 0 .. 9 /\ Width \in Nat \ {0}
  BY CalcSizes
<1>2. /\ calc \in [value1 : Int, value2 : Int, op : CalcOps]
      /\ display \in [sign : BOOLEAN, err : BOOLEAN, digits : Seq(0 .. 9)]
      /\ m \in [left : Int, op : CalcOps, shown : Int, fresh : BOOLEAN, odd : BOOLEAN]
      /\ DisplayIs(display, m.shown)
      /\ new_input = m.fresh /\ calc.op = m.op /\ (calc.op # K!NoOp => calc.value1 = m.left)
  BY DEF CalcOk
<1>3. calc' = calc /\ new_input' = FALSE /\ meant' = w
  BY Zenon DEF K!Digit, K!Noted
<1>4. display' = IF new_input THEN [sign |-> FALSE, err |-> FALSE, digits |-> <<x>>]
                 ELSE IF K!Length(display) < Width THEN [display EXCEPT !.digits = Append(@, x)]
                 ELSE display
  BY Zenon DEF K!Digit
<1>5. n \in Int
  BY <1>1, <1>2
<1>6. m.fresh \/ ~(K!Length(display) >= Width)
  BY <1>2, <1>3
<1> HIDE DEF n
<1>7. /\ w \in [left : Int, op : CalcOps, shown : Int, fresh : BOOLEAN, odd : BOOLEAN]
      /\ w.shown = n /\ w.fresh = FALSE /\ w.op = m.op /\ w.left = m.left
  BY <1>2, <1>5
<1> HIDE DEF w
<1>8. /\ DisplayIs(display', n)
      /\ display' \in [sign : BOOLEAN, err : BOOLEAN, digits : Seq(0 .. 9)]
  <2>1. CASE m.fresh
    <3> DEFINE e == [sign |-> FALSE, err |-> FALSE, digits |-> <<x>>]
               v == ValuesOf(<<x>>)
    <3>1. display' = e /\ n = x
      BY <1>2, <1>4, <2>1, Zenon DEF n
    <3>2. <<x>> \in Seq(0 .. 9) /\ Len(<<x>>) = 1 /\ <<x>>[1] = x
      BY <1>1
    <3>3. v[1] = x
      <4>1. v[0] = 0 /\ \A i \in 1 .. Len(<<x>>) : v[i] = v[i - 1] * 10 + <<x>>[i]
        BY <3>2, ValuesAre
      <4> HIDE DEF v
      <4>2. 1 \in 1 .. 1 /\ 1 - 1 = 0
        OBVIOUS
      <4>3. v[1] = v[1 - 1] * 10 + <<x>>[1]
        BY <3>2, <4>1, <4>2, Zenon
      <4> QED
        BY <1>1, <3>2, <4>1, <4>2, <4>3
    <3>4. e.digits = <<x>> /\ e.sign = FALSE /\ e.err = FALSE
      OBVIOUS
    <3>5. K!Parsed(e) = x
      <4>1. K!Parsed(e) = IF e.sign THEN -ValuesOf(e.digits)[Len(e.digits)]
                          ELSE ValuesOf(e.digits)[Len(e.digits)]
        BY ParsedIs, Zenon
      <4> HIDE DEF e
      <4> QED
        BY <3>2, <3>3, <3>4, <4>1, Zenon
    <3>6. e \in [sign : BOOLEAN, err : BOOLEAN, digits : Seq(0 .. 9)]
      BY <3>2
    <3> HIDE DEF e
    <3>7. 1 <= Width /\ x \in Int /\ ~(x < 0)
      BY <1>1
    <3>8. FALSE \in BOOLEAN
      OBVIOUS
    <3>9. DisplayIs(e, x)
      BY <3>2, <3>4, <3>5, <3>7, <3>8, Zenon DEF DisplayIs
    <3> QED
      BY <3>1, <3>6, <3>9, Zenon
  <2>2. CASE ~m.fresh
    <3>1. ~(K!Length(display) >= Width)
      BY <1>6, <2>2
    <3>2. Len(display.digits) < Width /\ K!Length(display) < Width
      <4>1. Len(display.digits) \in Nat
        BY <1>2
      <4>2. K!Length(display) = Len(display.digits) + (IF display.sign THEN 1 ELSE 0)
                                + (IF display.err THEN 3 ELSE 0)
        BY DEF K!Length
      <4> DEFINE l == K!Length(display)
      <4>3. l \in Nat /\ Len(display.digits) <= l
        <5> DEFINE a == Len(display.digits)
                   b == IF display.sign THEN 1 ELSE 0
                   c == IF display.err THEN 3 ELSE 0
        <5>1. a \in Nat /\ b \in Nat /\ c \in Nat /\ l = a + b + c
          BY <4>1, <4>2, Zenon
        <5> HIDE DEF a, b, c, l
        <5>2. l \in Nat /\ a <= l
          BY <5>1
        <5> QED
          BY <5>2 DEF a
      <4>4. ~(l >= Width)
        BY <3>1
      <4> HIDE DEF l
      <4>5. Len(display.digits) < Width /\ l < Width
        BY <1>1, <4>1, <4>3, <4>4
      <4> QED
        BY <4>5 DEF l
    <3>3. display' = [display EXCEPT !.digits = Append(@, x)]
      BY <1>2, <1>4, <2>2, <3>2, Zenon
    <3>4. n = IF m.shown < 0 THEN 10 * m.shown - x ELSE 10 * m.shown + x
      BY <2>2 DEF n
    <3> QED
      BY <1>1, <1>2, <3>2, <3>3, <3>4, AppendShows
  <2> QED
    BY <2>1, <2>2
<1> QED
  BY <1>2, <1>3, <1>7, <1>8, Zenon DEF CalcOk

LEMMA NegateOk ==
  ASSUME K!Negate, CalcOk(calc, display, new_input, meant), ~meant.odd
  PROVE  CalcOk(calc', display', new_input', meant')
<1> DEFINE m == meant
           n == -m.shown
           w == [m EXCEPT !.shown = n]
<1>1. /\ calc \in [value1 : Int, value2 : Int, op : CalcOps]
      /\ m \in [left : Int, op : CalcOps, shown : Int, fresh : BOOLEAN, odd : BOOLEAN]
      /\ DisplayIs(display, m.shown)
      /\ new_input = m.fresh /\ calc.op = m.op /\ (calc.op # K!NoOp => calc.value1 = m.left)
  BY DEF CalcOk
<1>2. /\ calc' = calc /\ new_input' = new_input /\ meant' = w
      /\ display' = K!Text(K!Wrapped(-K!Parsed(display)))
  <2>1. meant' = K!Noted(w)
    BY Zenon DEF K!Negate
  <2>2. K!Noted(w) = w
    BY Zenon DEF K!Noted
  <2> QED
    BY <2>1, <2>2, Zenon DEF K!Negate
<1>3. K!Parsed(display) = m.shown /\ K!Magnitude(m.shown) < K!Ten[Width]
  <2>1. /\ display.digits \in Seq(0 .. 9) /\ Len(display.digits) <= Width
        /\ display.sign \in BOOLEAN /\ K!Parsed(display) = m.shown
    BY <1>1, Zenon DEF DisplayIs
  <2> QED
    BY <2>1, ParsedSmall
<1>4. m.shown \in Int
  BY <1>1
<1>5. n \in Int /\ K!Magnitude(n) = K!Magnitude(m.shown)
  BY <1>4 DEF K!Magnitude
<1>6. K!Magnitude(n) < K!Ten[Width]
  BY <1>3, <1>5, Zenon
<1>7. /\ w \in [left : Int, op : CalcOps, shown : Int, fresh : BOOLEAN, odd : BOOLEAN]
      /\ w.shown = n /\ w.fresh = m.fresh /\ w.op = m.op /\ w.left = m.left
  BY <1>1, <1>5
<1>8. display' = K!Text(n)
  <2>1. K!Wrapped(-K!Parsed(display)) = K!Wrapped(n)
    BY <1>3, Zenon
  <2> HIDE DEF n
  <2>2. K!Wrapped(n) = n
    BY <1>5, <1>6, WrappedIs
  <2> QED
    BY <1>2, <2>1, <2>2, Zenon
<1> HIDE DEF n, w
<1>9. /\ DisplayIs(display', n)
      /\ display' \in [sign : BOOLEAN, err : BOOLEAN, digits : Seq(0 .. 9)]
  BY <1>5, <1>6, <1>8, TextShows, Zenon
<1> QED
  BY <1>1, <1>2, <1>7, <1>9, Zenon DEF CalcOk

LEMMA OperatorOk ==
  ASSUME NEW op \in K!Operators, K!Operator(op), CalcOk(calc, display, new_input, meant),
         ~meant.odd, ~meant'.odd
  PROVE  CalcOk(calc', display', new_input', meant')
<1> DEFINE m == meant
           w == [m EXCEPT !.left = m.shown, !.op = op, !.fresh = TRUE,
                          !.odd = @ \/ m.op # K!NoOp]
           c == [calc EXCEPT !.value1 = K!Parsed(display), !.op = op]
<1>1. /\ calc \in [value1 : Int, value2 : Int, op : CalcOps]
      /\ display \in [sign : BOOLEAN, err : BOOLEAN, digits : Seq(0 .. 9)]
      /\ m \in [left : Int, op : CalcOps, shown : Int, fresh : BOOLEAN, odd : BOOLEAN]
      /\ DisplayIs(display, m.shown) /\ calc.op = m.op
  BY DEF CalcOk
<1>2. K!Parsed(display) = m.shown /\ op \in CalcOps
  BY <1>1, Zenon DEF DisplayIs, CalcOps
<1>3. new_input' = TRUE /\ meant' = w
  <2>1. K!Noted(w) = w
    BY Zenon DEF K!Noted
  <2> QED
    BY <2>1, Zenon DEF K!Operator
<1>4. calc.op = K!NoOp
  BY <1>1, <1>3
<1>5. display' = display /\ calc' = c
  <2> DEFINE before == [calc |-> calc, display |-> display]
  <2>1. before.calc = calc /\ before.display = display
    OBVIOUS
  <2>2. /\ display' = before.display
        /\ calc' = [before.calc EXCEPT !.value1 = K!Parsed(before.display), !.op = op]
    <3> HIDE DEF before
    <3> QED
      BY <1>4, Zenon DEF K!Operator, before
  <2> HIDE DEF before
  <2> QED
    BY <2>1, <2>2, Zenon
<1>6. /\ w \in [left : Int, op : CalcOps, shown : Int, fresh : BOOLEAN, odd : BOOLEAN]
      /\ w.shown = m.shown /\ w.fresh = TRUE /\ w.op = op /\ w.left = m.shown
  BY <1>1, <1>2
<1>7. /\ c \in [value1 : Int, value2 : Int, op : CalcOps]
      /\ c.op = op /\ c.value1 = m.shown
  BY <1>1, <1>2
<1> HIDE DEF w, c
<1> QED
  BY <1>1, <1>3, <1>5, <1>6, <1>7, Zenon DEF CalcOk

LEMMA EqualsOk ==
  ASSUME K!Equals, CalcOk(calc, display, new_input, meant), ~meant.odd, ~meant'.odd
  PROVE  CalcOk(calc', display', new_input', meant')
<1> DEFINE m == meant
           p == K!Parsed(display)
           c == [calc EXCEPT !.value2 = p]
           exact == K!Value(m.left, m.op, m.shown)
           w == [m EXCEPT !.shown = exact, !.op = K!NoOp, !.fresh = TRUE,
                          !.odd = @ \/ K!Magnitude(exact) >= K!Ten[Width]]
           result == K!Wrapped(K!Value(c.value1, c.op, c.value2))
           d == [c EXCEPT !.value1 = result, !.op = K!NoOp]
<1>1. /\ calc \in [value1 : Int, value2 : Int, op : CalcOps]
      /\ display \in [sign : BOOLEAN, err : BOOLEAN, digits : Seq(0 .. 9)]
      /\ m \in [left : Int, op : CalcOps, shown : Int, fresh : BOOLEAN, odd : BOOLEAN]
      /\ DisplayIs(display, m.shown)
      /\ new_input = m.fresh /\ calc.op = m.op /\ (calc.op # K!NoOp => calc.value1 = m.left)
  BY DEF CalcOk
<1>2. CASE calc.op = K!NoOp
  <2>1. UNCHANGED <<calc, display, new_input, meant>>
    BY <1>2, Zenon DEF K!Equals
  <2> QED
    BY <2>1
<1>3. CASE calc.op # K!NoOp
  <2>1. /\ p = m.shown /\ m.shown \in Int /\ m.left \in Int
        /\ m.op \in K!Operators /\ calc.value1 = m.left
    BY <1>1, <1>3, Zenon DEF DisplayIs, CalcOps
  <2>2. /\ c \in [value1 : Int, value2 : Int, op : CalcOps]
        /\ c.value1 = m.left /\ c.op = m.op /\ c.value2 = m.shown
    BY <1>1, <2>1
  <2>3. meant' = K!Evaluated
    BY <1>3, Zenon DEF K!Equals, K!Noted
  <2>4. ~K!Undefined(m.op, m.shown)
    <3> SUFFICES ASSUME K!Undefined(m.op, m.shown) PROVE FALSE
      OBVIOUS
    <3>1. meant' = [m EXCEPT !.odd = TRUE]
      BY <2>3, Zenon DEF K!Evaluated
    <3>2. meant'.odd = TRUE
      BY <1>1, <3>1
    <3> QED
      BY <3>2
  <2>5. meant' = w
    BY <2>3, <2>4, Zenon DEF K!Evaluated
  <2>6. exact \in Int
    BY <2>1, <2>4, ValueIs
  <2> HIDE DEF c, exact
  <2>7. K!Magnitude(exact) < K!Ten[Width]
    <3>1. ~(K!Magnitude(exact) >= K!Ten[Width])
      BY <1>1, <2>5
    <3>2. K!Magnitude(exact) \in Int
      BY <2>6 DEF K!Magnitude
    <3>3. K!Ten[Width] \in Int
      <4>1. Width \in 0 .. Width
        BY CalcSizes
      <4> QED
        BY <4>1, TenIs
    <3> DEFINE a == K!Magnitude(exact)
               b == K!Ten[Width]
    <3> HIDE DEF a, b
    <3>4. ~(a >= b) /\ a \in Int /\ b \in Int
      BY <3>1, <3>2, <3>3, Zenon DEF a, b
    <3>5. a < b
      BY <3>4
    <3> QED
      BY <3>5, Zenon DEF a, b
  <2>8. /\ w \in [left : Int, op : CalcOps, shown : Int, fresh : BOOLEAN, odd : BOOLEAN]
        /\ w.shown = exact /\ w.fresh = TRUE /\ w.op = K!NoOp
    <3>1. K!NoOp \in CalcOps
      BY DEF CalcOps
    <3> DEFINE odd == m.odd \/ K!Magnitude(exact) >= K!Ten[Width]
    <3>2. odd \in BOOLEAN
      BY Zenon
    <3>3. w = [m EXCEPT !.shown = exact, !.op = K!NoOp, !.fresh = TRUE, !.odd = odd]
      BY Zenon
    <3> HIDE DEF odd, w
    <3> QED
      BY <1>1, <2>6, <3>1, <3>2, <3>3
  <2>9. result = exact
    <3>1. K!Wrapped(exact) = exact
      BY <2>6, <2>7, WrappedIs
    <3> QED
      BY <2>2, <3>1, Zenon DEF exact
  <2>10. /\ calc' = d /\ display' = K!Text(exact) /\ new_input' = TRUE
    <3> DEFINE after == [calc |-> d, display |-> K!Text(result), new |-> TRUE]
    <3>1. after.calc = d /\ after.display = K!Text(result) /\ after.new = TRUE
      <4> HIDE DEF d, result
      <4> QED
        OBVIOUS
    <3>2. K!Computed(c) = after
      BY <2>2, <2>4, Zenon DEF K!Computed
    <3> HIDE DEF after, result, d
    <3>3. /\ calc' = K!Computed(c).calc /\ display' = K!Computed(c).display
          /\ new_input' = K!Computed(c).new
      BY <1>3, Zenon DEF K!Equals, c, p
    <3> QED
      BY <2>9, <3>1, <3>2, <3>3, Zenon
  <2> HIDE DEF w, result
  <2>11. /\ d \in [value1 : Int, value2 : Int, op : CalcOps] /\ d.op = K!NoOp
    <3>1. K!NoOp \in CalcOps
      BY DEF CalcOps
    <3>2. result \in Int
      BY <2>6, <2>9
    <3> QED
      BY <2>2, <3>1, <3>2
  <2> HIDE DEF d
  <2>12. /\ DisplayIs(display', exact)
         /\ display' \in [sign : BOOLEAN, err : BOOLEAN, digits : Seq(0 .. 9)]
    BY <2>6, <2>7, <2>10, TextShows, Zenon
  <2> QED
    BY <2>5, <2>8, <2>10, <2>11, <2>12, Zenon DEF CalcOk
<1> QED
  BY <1>2, <1>3

LEMMA OddStays ==
  ASSUME K!CalcNext, meant.odd, ~meant'.odd
  PROVE  K!Clear
<1>1. ASSUME NEW new, meant' = K!Noted(new) PROVE FALSE
  BY <1>1, Zenon DEF K!Noted
<1>2. ASSUME NEW x \in Digits, K!Digit(x) PROVE FALSE
  BY <1>1, <1>2, Zenon DEF K!Digit
<1>3. ASSUME K!Negate PROVE FALSE
  BY <1>1, <1>3, Zenon DEF K!Negate
<1>4. ASSUME NEW op \in K!Operators, K!Operator(op) PROVE FALSE
  BY <1>1, <1>4, Zenon DEF K!Operator
<1>5. ASSUME K!Equals PROVE FALSE
  <2>1. CASE calc.op = K!NoOp
    BY <1>5, <2>1 DEF K!Equals
  <2>2. CASE calc.op # K!NoOp
    BY <1>1, <1>5, <2>2, Zenon DEF K!Equals
  <2> QED
    BY <2>1, <2>2
<1> QED
  BY <1>2, <1>3, <1>4, <1>5, Zenon DEF K!CalcNext

LEMMA CalcStep ==
  ASSUME CalcInv, [AppsNext]_AllVars
  PROVE  CalcInv'
<1>1. part' = part
  BY Zenon DEF AppsNext, FileSteps, ScreenSteps, AllVars
<1>2. CASE part # "keys"
  BY <1>1, <1>2 DEF CalcInv
<1>3. CASE part = "keys"
  <2>1. K!CalcNext \/ UNCHANGED <<calc, display, new_input, meant>>
    <3>1. CASE AppsNext
      BY <1>3, <3>1 DEF AppsNext
    <3>2. CASE UNCHANGED AllVars
      BY <3>2, Zenon DEF AllVars, calcVars
    <3> QED
      BY <3>1, <3>2
  <2>2. ~meant.odd => CalcOk(calc, display, new_input, meant)
    BY <1>3 DEF CalcInv
  <2>3. ASSUME ~meant'.odd PROVE CalcOk(calc', display', new_input', meant')
    <3>1. CASE UNCHANGED <<calc, display, new_input, meant>>
      BY <2>2, <2>3, <3>1
    <3>2. CASE K!Clear
      BY <3>2, ClearOk, Zenon DEF K!Clear
    <3>3. CASE K!CalcNext /\ ~K!Clear
      <4>1. CalcOk(calc, display, new_input, meant) /\ ~meant.odd
        BY <2>2, <2>3, <3>3, OddStays
      <4> QED
        BY <2>3, <3>3, <4>1, DigitOk, NegateOk, OperatorOk, EqualsOk, Zenon DEF K!CalcNext
    <3> QED
      BY <2>1, <3>1, <3>2, <3>3, Zenon
  <2>4. CalcOk(calc, display, new_input, meant)' <=> CalcOk(calc', display', new_input', meant')
    BY Zenon DEF CalcOk, DisplayIs
  <2> QED
    BY <2>3, <2>4 DEF CalcInv
<1> QED
  BY <1>2, <1>3

(* The calculator's display shows what the keys since the last C mean,     *)
(* with numbers of any width, unless one of them was odd.                  *)
THEOREM CalculatorIsRight == AppsSpec => []CalculatorRight
<1>1. AppsInit => CalcInv
  <2> SUFFICES ASSUME AppsInit PROVE CalcOk(calc, display, new_input, meant)
    BY DEF CalcInv
  <2>1. K!CalcInit
    BY Zenon DEF AppsInit
  <2> QED
    BY <2>1, ClearOk, Zenon DEF K!CalcInit
<1>2. CalcInv /\ [AppsNext]_AllVars => CalcInv'
  BY CalcStep
<1>3. CalcInv => CalculatorRight
  BY DEF CalcInv, CalcOk, DisplayIs, CalculatorRight, K!CalculatorRight
<1> QED
  BY <1>1, <1>2, <1>3, PTL DEF AppsSpec

==============================================================================
