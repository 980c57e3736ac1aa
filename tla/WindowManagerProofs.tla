------------------------- MODULE WindowManagerProofs -------------------------
(***************************************************************************)
(* Proofs about WindowManager, for any set of windows: PointersLive and    *)
(* NothingElseLost.  The first part is about linked lists: what can be     *)
(* reached from a window, with an end, without a cycle, and with one       *)
(* window before each, so that taking a window out takes out nothing else. *)
(* Induction along a list is by the least set that From is.  The second    *)
(* part says what the main thread may rely on between two of its accesses  *)
(* although processes put windows in front of the list (Hands).            *)
(***************************************************************************)
EXTENDS WindowManager, TLAPS

(* Any links, and what can be reached over them. *)
IsLinks(n) == n \in [Wins -> Wins \cup {NULL}]

Closed(n, S) == \A u \in S : n[u] \in S \cup {NULL}

Reach(n, w) ==
  {v \in Wins : \A S \in SUBSET Wins : {w} \ {NULL} \subseteq S /\ Closed(n, S) => v \in S}

(* There is a last window. *)
Ends(n, w) == w = NULL \/ \E v \in Reach(n, w) : n[v] = NULL

(* The list of windows; From is what can be reached over the next fields.  *)
List == Reach(next, windows)

LEMMA ListIs ==
  Listed = List /\ Listed' = List'
  BY DEF From, Listed, List, Reach, Closed

(* From no window nothing is reached. *)
LEMMA ReachNull == ASSUME NEW n PROVE Reach(n, NULL) = {}
<1>1. {} \in SUBSET Wins /\ Closed(n, {})
  BY DEF Closed
<1> QED
  BY <1>1 DEF Reach

(* A window reaches itself and what its links lead to. *)
LEMMA ReachClosed ==
  ASSUME NEW n, NEW w
  PROVE  /\ Reach(n, w) \subseteq Wins
         /\ w \in Wins => w \in Reach(n, w)
         /\ IsLinks(n) => Closed(n, Reach(n, w))
<1>1. Reach(n, w) \subseteq Wins
  BY DEF Reach
<1>2. w \in Wins => w \in Reach(n, w)
  BY WindowManagerAssumption DEF Reach
<1>3. ASSUME IsLinks(n), NEW u \in Reach(n, w), n[u] # NULL
      PROVE  n[u] \in Reach(n, w)
  <2>1. u \in Wins /\ n[u] \in Wins
    BY <1>1, <1>3 DEF IsLinks
  <2>2. ASSUME NEW S \in SUBSET Wins, {w} \ {NULL} \subseteq S, Closed(n, S)
        PROVE  n[u] \in S
    <3>1. u \in S
      BY <2>2 DEF Reach
    <3> QED
      BY <1>3, <2>2, <3>1 DEF Closed
  <2> QED
    BY <2>1, <2>2 DEF Reach
<1> QED
  BY <1>1, <1>2, <1>3 DEF Closed

(* Induction along a list. *)
LEMMA ReachLeast ==
  ASSUME NEW n, NEW w, NEW S \in SUBSET Wins, w \in S \cup {NULL}, Closed(n, S)
  PROVE  Reach(n, w) \subseteq S
  BY DEF Reach

(* A window, and what its next reaches. *)
LEMMA ReachStep ==
  ASSUME NEW n, IsLinks(n), NEW w \in Wins
  PROVE  Reach(n, w) = {w} \cup Reach(n, n[w])
<1>1. n[w] \in Wins \cup {NULL}
  BY DEF IsLinks
<1> DEFINE S == {w} \cup Reach(n, n[w])
<1>2. S \in SUBSET Wins
  BY ReachClosed
<1>3. Closed(n, S)
  <2>1. Closed(n, Reach(n, n[w])) /\ (n[w] # NULL => n[w] \in Reach(n, n[w]))
    BY <1>1, ReachClosed
  <2> QED
    BY <2>1 DEF Closed
<1>4. Reach(n, w) \subseteq S
  BY <1>2, <1>3, ReachLeast
<1>5. w \in Reach(n, w) /\ Closed(n, Reach(n, w)) /\ Reach(n, w) \in SUBSET Wins
  BY ReachClosed
<1>6. n[w] \in Reach(n, w) \cup {NULL}
  BY <1>5 DEF Closed
<1>7. Reach(n, n[w]) \subseteq Reach(n, w)
  BY <1>5, <1>6, ReachLeast
<1> QED
  BY <1>4, <1>5, <1>7

(* What is reached from a window on the list is on the list. *)
LEMMA ReachTrans ==
  ASSUME NEW n, IsLinks(n), NEW w, NEW v \in Reach(n, w)
  PROVE  v \in Wins /\ Reach(n, v) \subseteq Reach(n, w)
<1>1. Closed(n, Reach(n, w)) /\ Reach(n, w) \in SUBSET Wins
  BY ReachClosed
<1> QED
  BY <1>1, ReachLeast

(* Links that are not on the list do not matter. *)
LEMMA ReachSame ==
  ASSUME NEW n, NEW m, IsLinks(n), IsLinks(m), NEW w \in Wins \cup {NULL},
         \A u \in Reach(n, w) : m[u] = n[u]
  PROVE  Reach(m, w) = Reach(n, w)
<1>1. /\ Closed(n, Reach(n, w)) /\ Reach(n, w) \in SUBSET Wins
      /\ Closed(m, Reach(m, w)) /\ Reach(m, w) \in SUBSET Wins
      /\ w # NULL => w \in Reach(n, w) /\ w \in Reach(m, w)
  BY ReachClosed
<1>2. Closed(m, Reach(n, w))
  BY <1>1 DEF Closed
<1>3. Reach(m, w) \subseteq Reach(n, w)
  BY <1>1, <1>2, ReachLeast
<1> DEFINE S == Reach(n, w) \cap Reach(m, w)
<1>4. Closed(n, S)
  BY <1>1 DEF Closed
<1>5. Reach(n, w) \subseteq S
  BY <1>1, <1>4, ReachLeast
<1> QED
  BY <1>3, <1>5

(* A list with an end has one from each of its windows on. *)
LEMMA EndsFrom ==
  ASSUME NEW n, IsLinks(n), NEW w \in Wins \cup {NULL}, Ends(n, w),
         NEW v \in Reach(n, w)
  PROVE  Ends(n, v)
<1>1. w # NULL
  BY ReachNull
<1>2. PICK e \in Reach(n, w) : n[e] = NULL
  BY <1>1 DEF Ends
<1> DEFINE S == {u \in Reach(n, w) : e \in Reach(n, u)}
<1>3. Closed(n, Reach(n, w)) /\ Reach(n, w) \in SUBSET Wins /\ w \in Reach(n, w)
  BY <1>1, ReachClosed
<1>4. ASSUME NEW u \in S, n[u] # NULL
      PROVE  n[u] \in S
  <2>1. e # u
    BY <1>2, <1>4
  <2>2. Reach(n, u) = {u} \cup Reach(n, n[u])
    BY <1>3, <1>4, ReachStep
  <2> QED
    BY <1>3, <1>4, <2>1, <2>2 DEF Closed
<1>5. Closed(n, S) /\ w \in S
  BY <1>2, <1>3, <1>4 DEF Closed
<1>6. Reach(n, w) \subseteq S
  BY <1>3, <1>5, ReachLeast
<1> QED
  BY <1>2, <1>6 DEF Ends

(* A list with an end has no cycle. *)
LEMMA Acyclic ==
  ASSUME NEW n, IsLinks(n), NEW w \in Wins \cup {NULL}, Ends(n, w),
         NEW v \in Reach(n, w)
  PROVE  v \notin Reach(n, n[v])
<1> SUFFICES ASSUME v \in Reach(n, n[v]) PROVE FALSE
  OBVIOUS
<1>1. v \in Wins /\ Ends(n, v)
  BY EndsFrom, ReachClosed
<1>2. PICK e \in Reach(n, v) : n[e] = NULL
  BY <1>1, WindowManagerAssumption DEF Ends
<1> DEFINE S == {u \in Reach(n, v) : v \in Reach(n, n[u])}
<1>3. Closed(n, Reach(n, v)) /\ Reach(n, v) \in SUBSET Wins /\ v \in Reach(n, v)
  BY <1>1, ReachClosed
<1>4. ASSUME NEW u \in S, n[u] # NULL
      PROVE  n[u] \in S
  <2>1. n[u] \in Reach(n, v) /\ n[u] \in Wins
    BY <1>3, <1>4 DEF Closed
  <2>2. Reach(n, n[u]) = {n[u]} \cup Reach(n, n[n[u]])
    BY <2>1, ReachStep
  <2>3. v \in Reach(n, n[n[u]])
    BY <1>4, <2>2
  <2> QED
    BY <2>1, <2>3
<1>5. Closed(n, S) /\ v \in S
  BY <1>3, <1>4 DEF Closed
<1>6. Reach(n, v) \subseteq S
  BY <1>3, <1>5, ReachLeast
<1> QED
  BY <1>2, <1>6, ReachNull

(* Of two windows on a list one is behind the other. *)
LEMMA Comparable ==
  ASSUME NEW n, IsLinks(n), NEW w \in Wins, NEW a \in Reach(n, w), NEW b \in Reach(n, w)
  PROVE  a \in Reach(n, b) \/ b \in Reach(n, a)
<1> DEFINE S == {u \in Reach(n, w) : a \in Reach(n, u) \/ u \in Reach(n, a)}
<1>1. /\ Closed(n, Reach(n, w)) /\ Reach(n, w) \in SUBSET Wins /\ w \in Reach(n, w)
      /\ Closed(n, Reach(n, a)) /\ a \in Reach(n, a)
  BY ReachClosed
<1>2. ASSUME NEW u \in S, n[u] # NULL
      PROVE  n[u] \in S
  <2>1. n[u] \in Reach(n, w)
    BY <1>1, <1>2 DEF Closed
  <2>2. CASE u \in Reach(n, a)
    BY <1>1, <1>2, <2>1, <2>2 DEF Closed
  <2>3. CASE a \in Reach(n, u)
    <3>1. Reach(n, u) = {u} \cup Reach(n, n[u])
      BY <1>1, ReachStep
    <3>2. CASE a = u
      BY <1>1, <1>2, <2>1, <3>2 DEF Closed
    <3> QED
      BY <2>1, <2>3, <3>1, <3>2
  <2> QED
    BY <1>2, <2>2, <2>3
<1>3. Reach(n, w) \subseteq S
  BY <1>1, <1>2, ReachLeast DEF Closed
<1> QED
  BY <1>3

(* A window has one before it at most. *)
LEMMA OneBefore ==
  ASSUME NEW n, IsLinks(n), NEW w \in Wins, Ends(n, w),
         NEW a \in Reach(n, w), NEW b \in Reach(n, w), n[a] = n[b], n[a] # NULL
  PROVE  a = b
<1>1. /\ Reach(n, a) = {a} \cup Reach(n, n[a])
      /\ Reach(n, b) = {b} \cup Reach(n, n[b])
  BY ReachStep, ReachClosed
<1>2. a \notin Reach(n, n[a]) /\ b \notin Reach(n, n[b])
  BY Acyclic
<1> QED
  BY <1>1, <1>2, Comparable

(* A window that is not the first has one before it. *)
LEMMA SomeBefore ==
  ASSUME NEW n, IsLinks(n), NEW w \in Wins, NEW x \in Reach(n, w), x # w
  PROVE  \E p \in Reach(n, w) : n[p] = x
<1> DEFINE S == {u \in Reach(n, w) : u = w \/ \E p \in Reach(n, w) : n[p] = u}
<1>1. Closed(n, Reach(n, w)) /\ Reach(n, w) \in SUBSET Wins /\ w \in Reach(n, w)
  BY ReachClosed
<1>2. Closed(n, S)
  BY <1>1 DEF Closed
<1>3. Reach(n, w) \subseteq S
  BY <1>1, <1>2, ReachLeast
<1> QED
  BY <1>3

(* In m the window p links past x, which it links to in n. *)
LinksPast(n, m, p, x) ==
  /\ IsLinks(m) /\ n[p] = x /\ m[p] = n[x]
  /\ \A u \in Wins : u # p => m[u] = n[u]

(* Unlinking a window takes out that window, and no other. *)
LEMMA Unlink ==
  ASSUME NEW n, IsLinks(n), NEW w \in Wins, Ends(n, w),
         NEW p \in Reach(n, w), NEW x \in Wins, x # w, NEW m, LinksPast(n, m, p, x)
  PROVE  Reach(m, w) = Reach(n, w) \ {x} /\ Ends(m, w)
<1> DEFINE T == Reach(n, w) \ {x}
<1>1. Closed(n, Reach(n, w)) /\ Reach(n, w) \in SUBSET Wins /\ w \in Reach(n, w)
  BY ReachClosed
<1>2. x \in Reach(n, w) /\ x # NULL /\ p \in Wins /\ n[p] = x
  BY <1>1, WindowManagerAssumption DEF Closed, LinksPast
<1>3. IsLinks(m) /\ m[p] = n[x] /\ \A u \in Wins : u # p => m[u] = n[u]
  BY DEF LinksPast
<1>4. n[x] # x /\ p # x
  <2>1. x \notin Reach(n, n[x])
    BY <1>2, Acyclic
  <2> QED
    BY <1>2, <2>1, ReachClosed
<1>5. Closed(m, T)
  <2> SUFFICES ASSUME NEW u \in T PROVE m[u] \in T \cup {NULL}
    BY DEF Closed
  <2>1. CASE u = p
    BY <1>1, <1>2, <1>3, <1>4, <2>1 DEF Closed
  <2>2. CASE u # p
    <3>1. n[u] # x
      BY <1>2, <2>2, OneBefore
    <3> QED
      BY <1>1, <1>3, <2>2, <3>1 DEF Closed
  <2> QED
    BY <2>1, <2>2
<1>6. Reach(m, w) \subseteq T
  BY <1>1, <1>5, ReachLeast
<1>7. Closed(m, Reach(m, w)) /\ Reach(m, w) \in SUBSET Wins /\ w \in Reach(m, w)
  BY <1>3, ReachClosed
<1> DEFINE S == {u \in Reach(n, w) : u \in Reach(m, w) \/ (u = x /\ p \in Reach(m, w))}
<1>8. Closed(n, S)
  <2> SUFFICES ASSUME NEW u \in S, n[u] # NULL PROVE n[u] \in S
    BY DEF Closed
  <2>1. n[u] \in Reach(n, w) /\ u \in Wins
    BY <1>1 DEF Closed
  <2>2. CASE u \in Reach(m, w) /\ u = p
    BY <1>2, <2>1, <2>2
  <2>3. CASE u \in Reach(m, w) /\ u # p
    BY <1>3, <1>7, <2>1, <2>3 DEF Closed
  <2>4. CASE u = x /\ p \in Reach(m, w)
    BY <1>3, <1>7, <2>1, <2>4 DEF Closed
  <2> QED
    BY <2>2, <2>3, <2>4
<1>9. Reach(n, w) \subseteq S
  BY <1>1, <1>7, <1>8, ReachLeast
<1>10. Reach(m, w) = T
  BY <1>6, <1>9
<1>11. Ends(m, w)
  <2>1. PICK e \in Reach(n, w) : n[e] = NULL
    BY WindowManagerAssumption DEF Ends
  <2>2. CASE e = x
    BY <1>2, <1>3, <1>4, <1>10, <2>1, <2>2 DEF Ends
  <2>3. CASE e # x
    <3>1. e # p /\ e \in Wins
      BY <1>1, <1>2, <2>1
    <3> QED
      BY <1>3, <1>10, <2>1, <2>3, <3>1 DEF Ends
  <2> QED
    BY <2>2, <2>3
<1> QED
  BY <1>3, <1>10, <1>11

(* A window that is not on a list can be put in front of it. *)
LEMMA PutInFront ==
  ASSUME NEW n, IsLinks(n), NEW w \in Wins \cup {NULL}, Ends(n, w),
         NEW z \in Wins, z \notin Reach(n, w),
         NEW m, IsLinks(m), m[z] = w, \A u \in Wins : u # z => m[u] = n[u]
  PROVE  /\ Reach(m, w) = Reach(n, w)
         /\ Reach(m, z) = {z} \cup Reach(n, w)
         /\ Ends(m, w) /\ Ends(m, z)
<1>1. \A u \in Reach(n, w) : u \in Wins /\ m[u] = n[u]
  BY ReachClosed
<1>2. Reach(m, w) = Reach(n, w)
  BY <1>1, ReachSame
<1>3. Reach(m, z) = {z} \cup Reach(m, m[z])
  BY ReachStep
<1>4. Ends(m, w)
  BY <1>1, <1>2 DEF Ends
<1>5. Ends(m, z)
  BY <1>3, <1>4 DEF Ends
<1> QED
  BY <1>2, <1>3, <1>4, <1>5
------------------------------------------------------------------------------
(* Of the list there is only h and what follows, but for windows that were *)
(* opened since the main thread last knew `windows`.                       *)
Known(h) == h \in List /\ List \subseteq Reach(next, h) \cup late

(* What the main thread relies on, by where it is. *)
Hands ==
  /\ At("idle") => late = {}
  /\ ~At("idle") => main.win \in live /\ dragging_window = NULL
  /\ main.pc \in {"create_link", "front_link"} =>
       /\ main.win \in magic /\ main.win \notin closed /\ main.win \notin List
       /\ next[main.win] = NULL => List \subseteq late
       /\ next[main.win] # NULL => Known(next[main.win])
  /\ At("splice") =>
       /\ main.win \in List /\ main.win \notin closed
       /\ main.win # windows /\ main.win # main.head
       /\ main.win \in Reach(next, main.head) /\ Known(main.head)
  /\ At("front_next") =>
       /\ main.win \in magic /\ main.win \notin closed /\ main.win \notin List
       /\ Known(main.head)
  /\ At("act") => main.win \notin closed /\ Known(main.win)
  /\ main.pc \in {"remove", "remove_head"} => main.win \in closed /\ Known(main.win)
  /\ main.pc \in {"invalidate", "free"} => main.win \in closed /\ main.win \notin List
  /\ At("free") => main.win \notin magic

IInv == PointersLive /\ NothingElseLost /\ Hands

(* The list, in the terms of the lemmas about links. *)
LEMMA ListFacts ==
  ASSUME IInv
  PROVE  /\ IsLinks(next) /\ windows \in Wins \cup {NULL} /\ Ends(next, windows)
         /\ List \subseteq Wins /\ List \subseteq live /\ List \subseteq magic /\ NULL \notin List
         /\ windows # NULL => windows \in List
         /\ windows = NULL => List = {}
         /\ \A v \in List : /\ next[v] \in List \cup {NULL}
                             /\ Reach(next, v) = {v} \cup Reach(next, next[v])
                             /\ Reach(next, v) \subseteq List /\ v \notin Reach(next, next[v])
<1>1. IsLinks(next) /\ windows \in Wins \cup {NULL}
  BY DEF IInv, PointersLive, TypeOK, IsLinks
<1>2. Ends(next, windows)
  BY ListIs DEF IInv, PointersLive, ListSound, Ends, List
<1>3. List \subseteq Wins /\ (windows # NULL => windows \in List) /\ Closed(next, List)
  BY <1>1, ReachClosed DEF List
<1>4. windows = NULL => List = {}
  BY ReachNull DEF List
<1>5. List \subseteq live /\ List \subseteq magic /\ NULL \notin List
  BY <1>3, ListIs, WindowManagerAssumption DEF IInv, PointersLive, ListSound
<1>6. ASSUME NEW v \in List
      PROVE  /\ next[v] \in List \cup {NULL}
             /\ Reach(next, v) = {v} \cup Reach(next, next[v])
             /\ Reach(next, v) \subseteq List /\ v \notin Reach(next, next[v])
  <2>1. next[v] \in List \cup {NULL}
    BY <1>3 DEF Closed
  <2>2. Reach(next, v) = {v} \cup Reach(next, next[v])
    BY <1>1, <1>3, ReachStep
  <2>3. Reach(next, v) \subseteq List
    BY <1>1, ReachTrans DEF List
  <2>4. v \notin Reach(next, next[v])
    BY <1>1, <1>2, Acyclic DEF List
  <2> QED
    BY <2>1, <2>2, <2>3, <2>4
<1> QED
  BY <1>1, <1>2, <1>3, <1>4, <1>5, <1>6

(* No window yet. *)
LEMMA InitInv == Init => IInv
<1> SUFFICES ASSUME Init PROVE IInv
  OBVIOUS
<1>1. Listed = {}
  BY ListIs, ReachNull DEF Init, List
<1>2. TypeOK
  BY DEF Init, TypeOK, Idle, Pcs, Parts
<1>3. PointersLive
  BY <1>1, <1>2 DEF Init, PointersLive, ListSound, DragListed, HandleLive
<1>4. NothingElseLost
  BY DEF Init, NothingElseLost
<1>5. Hands
  BY DEF Init, Hands, At, Idle
<1> QED
  BY <1>3, <1>4, <1>5 DEF IInv

(* The properties, of a list that the step has just made. *)
LEMMA Properties ==
  ASSUME TypeOK', Ends(next, windows)', Hands',
         (List \subseteq live /\ List \subseteq magic)',
         (List \cap closed \subseteq Closing)',
         (dragging_window # NULL => dragging_window \in List \ closed)',
         HandleLive',
         (live \ closed \subseteq List \cup InHand \cup lost)'
  PROVE  IInv'
<1>1. Listed' = List'
  BY ListIs
<1>2. ListSound'
  BY <1>1 DEF ListSound, Ends, List
<1>3. DragListed' /\ NothingElseLost'
  BY <1>1 DEF DragListed, NothingElseLost
<1> QED
  BY <1>2, <1>3 DEF IInv, PointersLive

(* A new window that links to the first one. *)
LEMMA NewWindowList ==
  ASSUME IInv, NEW w \in Wins, NewWindow(w)
  PROVE  /\ w \notin List /\ w # main.win /\ IsLinks(next')
         /\ next'[w] = windows /\ \A v \in Wins : v # w => next'[v] = next[v]
         /\ \A v \in List \cup {NULL} : Reach(next', v) = Reach(next, v)
         /\ Reach(next', windows) = List /\ Reach(next', w) = {w} \cup List
         /\ Ends(next', windows) /\ Ends(next', w)
<1>1. w \notin List /\ w \notin live
  BY ListFacts DEF NewWindow
<1>2. w # main.win
  BY <1>1, WindowManagerAssumption DEF IInv, Hands, At, PointersLive, TypeOK
<1>3. /\ IsLinks(next') /\ next'[w] = windows
      /\ \A v \in Wins : v # w => next'[v] = next[v]
  BY ListFacts DEF NewWindow, IsLinks
<1>4. ASSUME NEW v \in List \cup {NULL}
      PROVE  Reach(next', v) = Reach(next, v)
  <2>1. Reach(next, v) \subseteq List
    BY ListFacts, ReachNull
  <2>2. \A u \in Reach(next, v) : next'[u] = next[u]
    BY <1>1, <1>3, <2>1, ListFacts
  <2> QED
    BY <1>3, <2>1, <2>2, ListFacts, ReachSame
<1>5. /\ Reach(next', windows) = List /\ Reach(next', w) = {w} \cup List
      /\ Ends(next', windows) /\ Ends(next', w)
  BY <1>1, <1>3, ListFacts, PutInFront DEF List
<1> QED
  BY <1>1, <1>2, <1>3, <1>4, <1>5

(* A window is created, and in the main thread's hands. *)
LEMMA CreateInv == ASSUME IInv, NEW w \in Wins, Create(w) PROVE IInv'
<1>1. /\ NewWindow(w) /\ At("idle") /\ late' = {}
      /\ windows' = windows /\ lost' = lost /\ dragging_window' = NULL
      /\ main' = [pc |-> "create_link", win |-> w, part |-> "client", head |-> NULL]
  BY DEF Create, NewWindow, Idle
<1>2. /\ live' = live \cup {w} /\ magic' = magic \cup {w} /\ closed' = closed \ {w}
      /\ minimised' = minimised \ {w}
  BY <1>1 DEF NewWindow
<1>3. /\ w \notin List /\ IsLinks(next') /\ next'[w] = windows
      /\ Reach(next', windows) = List /\ Ends(next', windows)
  BY <1>1, NewWindowList
<1>4. List' = List /\ Listed = List
  BY <1>1, <1>3, ListIs DEF List
<1>5. TypeOK'
  BY <1>1, <1>2, <1>3, WindowManagerAssumption
     DEF IInv, PointersLive, TypeOK, IsLinks, Pcs, Parts
<1>6. Ends(next, windows)'
  BY <1>1, <1>3
<1>7. Hands'
  <2>1. next'[w] # NULL => next'[w] \in List /\ Reach(next', next'[w]) = List
    BY <1>3, ListFacts
  <2>2. next'[w] = NULL => List = {}
    BY <1>3, ListFacts
  <2> QED
    BY <1>1, <1>2, <1>3, <1>4, <2>1, <2>2 DEF Hands, Known, At
<1> QED
  BY <1>1, <1>2, <1>4, <1>5, <1>6, <1>7, Properties, ListFacts
     DEF IInv, PointersLive, ListSound, HandleLive, NothingElseLost, InHand, Closing, At

(* The list begins with the window in hand, which links to what is known.  *)
LEMMA LinkedInFront ==
  ASSUME IInv, main.pc \in {"create_link", "front_link"}
  PROVE  /\ main.win \in Wins /\ main.win \in live /\ main.win \in magic
         /\ main.win \notin closed /\ main.win \notin List
         /\ Reach(next, main.win) = {main.win} \cup Reach(next, next[main.win])
         /\ Reach(next, next[main.win]) \subseteq List
         /\ List \subseteq Reach(next, next[main.win]) \cup late
         /\ Ends(next, main.win)
<1>1. /\ main.win \in Wins /\ main.win \in live /\ main.win \in magic
      /\ main.win \notin closed /\ main.win \notin List
  BY DEF IInv, Hands, At, PointersLive, TypeOK
<1>2. Reach(next, main.win) = {main.win} \cup Reach(next, next[main.win])
  BY <1>1, ListFacts, ReachStep
<1>3. next[main.win] = NULL \/ Known(next[main.win])
  BY DEF IInv, Hands
<1>4. /\ Reach(next, next[main.win]) \subseteq List
      /\ List \subseteq Reach(next, next[main.win]) \cup late
  BY <1>3, ListFacts, ReachNull DEF Known, IInv, Hands
<1>5. Ends(next, next[main.win])
  <2>1. CASE next[main.win] = NULL
    BY <2>1 DEF Ends
  <2>2. CASE next[main.win] \in List
    BY <2>2, ListFacts, EndsFrom DEF List
  <2> QED
    BY <1>3, <2>1, <2>2 DEF Known
<1>6. Ends(next, main.win)
  BY <1>2, <1>5 DEF Ends
<1> QED
  BY <1>1, <1>2, <1>4, <1>6

(* The window in hand becomes the first: what was opened meanwhile and is  *)
(* not behind it is lost.                                                  *)
LEMMA CreateLinkInv == ASSUME IInv, CreateLink PROVE IInv'
<1>1. /\ main.pc = "create_link" /\ windows' = main.win /\ lost' = lost \cup late /\ late' = {}
      /\ main' = [pc |-> "idle", win |-> NULL, part |-> "client", head |-> NULL]
      /\ UNCHANGED <<next, live, magic, minimised, dragging_window, closed>>
  BY DEF CreateLink, At, Idle
<1> DEFINE w == main.win
<1>2. /\ w \in Wins /\ w \in live /\ w \in magic /\ w \notin closed
      /\ List' = {w} \cup Reach(next, next[w]) /\ Reach(next, next[w]) \subseteq List
      /\ List \subseteq Reach(next, next[w]) \cup late
      /\ Ends(next, windows)'
  BY <1>1, LinkedInFront DEF List, Ends
<1>3. Listed = List /\ dragging_window = NULL
  BY <1>1, ListIs DEF IInv, Hands, At
<1>4. TypeOK'
  BY <1>1, <1>2 DEF IInv, PointersLive, TypeOK, Pcs, Parts
<1>5. Hands'
  BY <1>1 DEF Hands, At
<1> QED
  BY <1>1, <1>2, <1>3, <1>4, <1>5, Properties, ListFacts
     DEF IInv, PointersLive, ListSound, HandleLive, NothingElseLost, InHand, Closing

(* A process puts a window in front of the list, wherever the main thread  *)
(* is.                                                                     *)
LEMMA OpenInv == ASSUME IInv, NEW w \in Wins, Open(w) PROVE IInv'
<1>1. /\ NewWindow(w) /\ windows' = w /\ main' = main /\ lost' = lost
      /\ dragging_window' = dragging_window
      /\ late' = IF At("idle") THEN {} ELSE late \cup {w}
  BY DEF Open, NewWindow
<1>2. /\ live' = live \cup {w} /\ magic' = magic \cup {w} /\ closed' = closed \ {w}
      /\ minimised' = minimised \ {w} /\ w \notin live
  BY <1>1 DEF NewWindow
<1>3. /\ w \notin List /\ w # main.win /\ IsLinks(next')
      /\ \A v \in Wins : v # w => next'[v] = next[v]
      /\ \A v \in List \cup {NULL} : Reach(next', v) = Reach(next, v)
      /\ Reach(next', w) = {w} \cup List /\ Ends(next', w)
  BY <1>1, NewWindowList
<1>4. List' = {w} \cup List /\ Listed = List /\ Ends(next, windows)'
  BY <1>1, <1>3, ListIs DEF List
<1>5. TypeOK'
  BY <1>1, <1>2, <1>3 DEF IInv, PointersLive, TypeOK, IsLinks
<1>6. main.win \in Wins \cup {NULL} /\ (main.win = NULL <=> main.pc = "idle")
  BY DEF IInv, PointersLive, TypeOK
<1>7. ASSUME NEW h \in List, List \subseteq Reach(next, h) \cup late, main.pc # "idle"
      PROVE  /\ h \in List' /\ List' \subseteq Reach(next', h) \cup late'
             /\ Reach(next', h) = Reach(next, h)
  BY <1>1, <1>3, <1>4, <1>7 DEF At
<1>8. Hands'
  <2>1. CASE main.pc = "idle"
    BY <1>1, <2>1 DEF Hands, At
  <2>2. CASE main.pc \in {"create_link", "front_link"}
    <3>1. next'[main.win] = next[main.win] /\ late' = late \cup {w}
      BY <1>1, <1>3, <1>6, <2>2 DEF At
    <3>2. /\ main.win \in magic /\ main.win \notin closed /\ main.win \notin List
          /\ next[main.win] = NULL => List \subseteq late
          /\ next[main.win] # NULL => Known(next[main.win])
          /\ main.win \in live /\ dragging_window = NULL
      BY <2>2 DEF IInv, Hands, At
    <3>3. ASSUME next[main.win] # NULL
          PROVE  /\ next[main.win] \in List'
                 /\ List' \subseteq Reach(next', next[main.win]) \cup late'
      BY <1>7, <2>2, <3>2, <3>3 DEF Known
    <3> QED
      BY <1>1, <1>2, <1>3, <1>4, <2>2, <3>1, <3>2, <3>3 DEF Hands, At, Known
  <2>3. CASE main.pc = "splice"
    <3>1. /\ main.win \in List /\ main.win \notin closed
          /\ main.win # windows /\ main.win # main.head
          /\ main.win \in Reach(next, main.head) /\ Known(main.head)
          /\ main.win \in live /\ dragging_window = NULL
      BY <2>3 DEF IInv, Hands, At
    <3>2. /\ main.head \in List' /\ List' \subseteq Reach(next', main.head) \cup late'
          /\ Reach(next', main.head) = Reach(next, main.head)
      BY <1>7, <2>3, <3>1 DEF Known
    <3> QED
      BY <1>1, <1>2, <1>3, <1>4, <2>3, <3>1, <3>2 DEF Hands, At, Known
  <2>4. CASE main.pc = "front_next"
    <3>1. /\ main.win \in magic /\ main.win \notin closed /\ main.win \notin List
          /\ Known(main.head) /\ main.win \in live /\ dragging_window = NULL
      BY <2>4 DEF IInv, Hands, At
    <3>2. main.head \in List' /\ List' \subseteq Reach(next', main.head) \cup late'
      BY <1>7, <2>4, <3>1 DEF Known
    <3> QED
      BY <1>1, <1>2, <1>3, <1>4, <2>4, <3>1, <3>2 DEF Hands, At, Known
  <2>5. CASE main.pc \in {"act", "remove", "remove_head"}
    <3>1. /\ main.pc = "act" => main.win \notin closed
          /\ main.pc # "act" => main.win \in closed
          /\ Known(main.win) /\ main.win \in live /\ dragging_window = NULL
      BY <2>5 DEF IInv, Hands, At
    <3>2. main.win \in List' /\ List' \subseteq Reach(next', main.win) \cup late'
      BY <1>7, <2>5, <3>1 DEF Known
    <3> QED
      BY <1>1, <1>2, <1>3, <1>4, <2>5, <3>1, <3>2 DEF Hands, At, Known
  <2>6. CASE main.pc \in {"invalidate", "free"}
    BY <1>1, <1>2, <1>3, <1>4, <2>6 DEF IInv, Hands, At
  <2>7. main.pc \in Pcs
    BY DEF IInv, PointersLive, TypeOK
  <2> QED
    BY <2>1, <2>2, <2>3, <2>4, <2>5, <2>6, <2>7 DEF Pcs
<1>9. (dragging_window # NULL => dragging_window \in List \ closed)'
  BY <1>1, <1>2, <1>4 DEF IInv, PointersLive, DragListed
<1> QED
  BY <1>1, <1>2, <1>4, <1>5, <1>8, <1>9, Properties, ListFacts
     DEF IInv, PointersLive, ListSound, HandleLive, NothingElseLost, InHand, Closing

(* A window on the list is about to be focused. *)
LEMMA FocusInv ==
  ASSUME IInv, NEW w \in List, NEW part \in Parts, At("idle"), dragging_window = NULL,
         w \notin closed, Focus(w, part), minimised' \subseteq Wins,
         UNCHANGED <<windows, next, live, magic, dragging_window, closed, late, lost>>
  PROVE  IInv'
<1>1. /\ main' = [pc |-> IF windows = w THEN "act" ELSE "splice", win |-> w, part |-> part,
                  head |-> windows]
      /\ late = {} /\ List' = List /\ Listed = List
  BY ListIs DEF Focus, IInv, Hands, List
<1>2. windows \in List /\ w \in live /\ w \in Wins /\ w # NULL
  BY ListFacts
<1>3. TypeOK'
  BY <1>1, <1>2, ListFacts DEF IInv, PointersLive, TypeOK, Pcs
<1>4. Hands'
  <2>1. Known(windows)' /\ w \in Reach(next, windows)
    BY <1>1, <1>2 DEF Known, List
  <2> QED
    BY <1>1, <1>2, <2>1 DEF Hands, At
<1>5. Ends(next, windows)'
  BY ListFacts DEF Ends
<1> QED
  BY <1>1, <1>3, <1>4, <1>5, Properties, ListFacts
     DEF IInv, PointersLive, ListSound, HandleLive, NothingElseLost, InHand, Closing, At

(* A click, on a window or on its button. *)
LEMMA ClickInv ==
  ASSUME IInv, NEW w \in Wins, NEW part \in Parts, Click(w, part) \/ Taskbar(w) PROVE IInv'
<1>1. /\ At("idle") /\ dragging_window = NULL /\ w \in List /\ minimised' \subseteq Wins
      /\ UNCHANGED <<windows, next, live, magic, dragging_window, closed, late, lost>>
  BY ListIs DEF Click, Taskbar, IInv, PointersLive, TypeOK
<1>2. w \notin closed
  BY <1>1, ListIs DEF IInv, PointersLive, ListSound, Closing, At
<1>3. "taskbar" \in Parts
  BY DEF Parts
<1>4. CASE Focus(w, part) \/ Focus(w, "taskbar")
  BY <1>1, <1>2, <1>3, <1>4, FocusInv
<1>5. CASE main' = main
  <2>1. List' = List
    BY <1>1 DEF List
  <2>2. TypeOK' /\ Ends(next, windows)' /\ Hands'
    BY <1>1, <1>5, <2>1, ListFacts DEF IInv, PointersLive, TypeOK, Hands, Known, At, Ends
  <2> QED
    BY <1>1, <1>5, <2>1, <2>2, Properties, ListFacts, ListIs
       DEF IInv, PointersLive, ListSound, HandleLive, NothingElseLost, InHand, Closing, At
<1> QED
  BY <1>4, <1>5 DEF Click, Taskbar

(* A window is taken off the list: no other is, on the list or behind any  *)
(* window that it was behind.                                              *)
LEMMA TakenOut ==
  ASSUME IInv, main.win \in Wins, windows # main.win,
         NEW curr \in Listed, Before(curr, main.win),
         next' = [next EXCEPT ![curr] = next[main.win]], windows' = windows
  PROVE  /\ IsLinks(next') /\ Ends(next, windows)' /\ List' = List \ {main.win}
         /\ \A h \in List : main.win \in Reach(next, h) /\ main.win # h =>
              Reach(next', h) = Reach(next, h) \ {main.win}
<1> DEFINE w == main.win
<1>1. curr \in List /\ next[curr] = w
  BY ListIs DEF Before
<1>2. windows \in Wins /\ IsLinks(next) /\ Ends(next, windows)
  BY <1>1, ListFacts
<1>3. LinksPast(next, next', curr, w)
  BY <1>1, <1>2, ListFacts DEF IsLinks, LinksPast
<1>5. Reach(next', windows) = List \ {w} /\ Ends(next', windows)
  BY <1>1, <1>2, <1>3, Unlink DEF List
<1>4. ASSUME NEW h \in List, w \in Reach(next, h), w # h
      PROVE  Reach(next', h) = Reach(next, h) \ {w}
  <2>1. h \in Wins /\ Ends(next, h) /\ Reach(next, h) \subseteq List
    BY <1>2, ListFacts, EndsFrom DEF List
  <2>2. PICK p \in Reach(next, h) : next[p] = w
    BY <1>2, <1>4, <2>1, SomeBefore
  <2>3. w # NULL
    BY WindowManagerAssumption
  <2>4. p = curr
    BY <1>1, <1>2, <2>1, <2>2, <2>3, OneBefore DEF List
  <2> QED
    BY <1>2, <1>3, <1>4, <2>1, <2>2, <2>4, Unlink
<1> QED
  BY <1>3, <1>4, <1>5 DEF List, Ends, LinksPast

(* The window in hand is taken off the list. *)
LEMMA SpliceInv == ASSUME IInv, Splice PROVE IInv'
<1> DEFINE w == main.win
<1>1. /\ main.pc = "splice" /\ main' = [main EXCEPT !.pc = "front_next"]
      /\ UNCHANGED <<windows, live, magic, minimised, dragging_window, closed, late, lost>>
  BY DEF Splice, At, Goto
<1>2. /\ w \in List /\ w \notin closed /\ w # windows /\ w # main.head
      /\ w \in Reach(next, main.head) /\ main.head \in List
      /\ List \subseteq Reach(next, main.head) \cup late
      /\ w \in live /\ dragging_window = NULL
  BY <1>1 DEF IInv, Hands, At, Known
<1>3. w \in Wins /\ w \in magic
  BY <1>2, ListFacts
<1>4. /\ IsLinks(next') /\ Ends(next, windows)' /\ List' = List \ {w}
      /\ Reach(next', main.head) = Reach(next, main.head) \ {w}
  BY <1>1, <1>2, <1>3, TakenOut DEF Splice
<1>5. TypeOK /\ Listed = List
  BY ListIs DEF IInv, PointersLive
<1>6. /\ main'.pc = "front_next" /\ main'.win = w /\ main'.head = main.head
      /\ main' \in [pc : Pcs, win : Wins \cup {NULL}, part : Parts, head : Wins \cup {NULL}]
  BY <1>1, <1>5 DEF TypeOK, Pcs
<1>7. TypeOK'
  BY <1>1, <1>4, <1>5, <1>6 DEF TypeOK, IsLinks
<1>8. Hands'
  BY <1>1, <1>2, <1>3, <1>4, <1>6 DEF Hands, Known, At
<1> QED
  BY <1>1, <1>2, <1>4, <1>5, <1>6, <1>7, <1>8, Properties, ListFacts
     DEF IInv, PointersLive, ListSound, HandleLive, NothingElseLost, InHand, Closing

(* The window in hand links to the list, or to what was its first window.  *)
LEMMA FrontNextInv == ASSUME IInv, FrontNext PROVE IInv'
<1> DEFINE w == main.win
<1>1. /\ main.pc = "front_next" /\ main' = [main EXCEPT !.pc = "front_link"]
      /\ UNCHANGED <<windows, live, magic, minimised, dragging_window, closed, lost>>
  BY DEF FrontNext, At, Goto
<1>2. /\ w \in magic /\ w \notin closed /\ w \notin List /\ main.head \in List
      /\ List \subseteq Reach(next, main.head) \cup late
      /\ w \in live /\ dragging_window = NULL
  BY <1>1 DEF IInv, Hands, At, Known
<1>3. TypeOK /\ Listed = List
  BY ListIs DEF IInv, PointersLive
<1>4. w \in Wins
  BY <1>1, <1>3 DEF TypeOK
<1>5. /\ main'.pc = "front_link" /\ main'.win = w
      /\ main' \in [pc : Pcs, win : Wins \cup {NULL}, part : Parts, head : Wins \cup {NULL}]
  BY <1>1, <1>3 DEF TypeOK, Pcs
<1>6. PICK x \in List \cup {NULL} :
        /\ next' = [next EXCEPT ![w] = x]
        /\ \/ x = windows /\ late' = {}
           \/ x = main.head /\ late' = late
  BY <1>2, ListFacts DEF FrontNext
<1>7. IsLinks(next') /\ next'[w] = x /\ \A v \in Wins : v # w => next'[v] = next[v]
  BY <1>4, <1>6, ListFacts DEF IsLinks
<1>8. \A v \in List \cup {NULL} : Reach(next', v) = Reach(next, v)
  <2> SUFFICES ASSUME NEW v \in List \cup {NULL}
               PROVE  Reach(next', v) = Reach(next, v)
    OBVIOUS
  <2>1. Reach(next, v) \subseteq List
    BY ListFacts, ReachNull
  <2>2. \A u \in Reach(next, v) : next'[u] = next[u]
    BY <1>2, <1>7, <2>1, ListFacts
  <2> QED
    BY <1>7, <2>1, <2>2, ListFacts, ReachSame
<1>9. List' = List /\ Ends(next, windows)'
  <2>1. windows \in List \cup {NULL}
    BY ListFacts
  <2>2. Reach(next', windows) = List
    BY <1>8, <2>1 DEF List
  <2>3. Ends(next', windows)
    BY <1>2, <1>7, <2>2, ListFacts DEF Ends, List
  <2> QED
    BY <1>1, <2>2, <2>3 DEF List
<1>10. TypeOK'
  <2>1. late' \subseteq Wins
    BY <1>3, <1>6 DEF TypeOK
  <2> QED
    BY <1>1, <1>3, <1>5, <1>7, <2>1 DEF TypeOK, IsLinks
<1>11. Hands'
  <2>1. x = NULL => List \subseteq late'
    BY <1>2, <1>6, ListFacts
  <2>2. x # NULL => List \subseteq Reach(next', x) \cup late'
    BY <1>2, <1>6, <1>8 DEF List
  <2> QED
    BY <1>1, <1>2, <1>5, <1>7, <1>9, <2>1, <2>2 DEF Hands, Known, At
<1> QED
  BY <1>1, <1>2, <1>3, <1>5, <1>9, <1>10, <1>11, Properties, ListFacts
     DEF IInv, PointersLive, ListSound, HandleLive, NothingElseLost, InHand, Closing

(* The window in hand becomes the first one again. *)
LEMMA FrontLinkInv == ASSUME IInv, FrontLink PROVE IInv'
<1> DEFINE w == main.win
<1>1. /\ main.pc = "front_link" /\ windows' = w /\ lost' = lost \cup late /\ late' = {}
      /\ main' = [main EXCEPT !.pc = "act"]
      /\ UNCHANGED <<next, live, magic, minimised, dragging_window, closed>>
  BY DEF FrontLink, At, Goto
<1>2. /\ w \in Wins /\ w \in live /\ w \in magic /\ w \notin closed
      /\ List' = {w} \cup Reach(next, next[w]) /\ Reach(next, next[w]) \subseteq List
      /\ List' = Reach(next, w)
      /\ List \subseteq Reach(next, next[w]) \cup late
      /\ Ends(next, windows)'
  BY <1>1, LinkedInFront DEF List, Ends
<1>3. Listed = List /\ dragging_window = NULL /\ TypeOK
  BY <1>1, ListIs DEF IInv, Hands, At, PointersLive
<1>4. /\ main'.pc = "act" /\ main'.win = w
      /\ main' \in [pc : Pcs, win : Wins \cup {NULL}, part : Parts, head : Wins \cup {NULL}]
  BY <1>1, <1>3 DEF TypeOK, Pcs
<1>5. TypeOK'
  BY <1>1, <1>2, <1>3, <1>4 DEF TypeOK
<1>6. Hands'
  BY <1>1, <1>2, <1>3, <1>4 DEF Hands, Known, At
<1> QED
  BY <1>1, <1>2, <1>3, <1>4, <1>5, <1>6, Properties, ListFacts
     DEF IInv, PointersLive, ListSound, HandleLive, NothingElseLost, InHand, Closing

(* What the click does. *)
LEMMA ActInv == ASSUME IInv, Act PROVE IInv'
<1> DEFINE w == main.win
<1>1. /\ main.pc = "act" /\ UNCHANGED <<windows, next, live, magic, lost>>
  BY DEF Act, At
<1>2. /\ w \in List /\ List \subseteq Reach(next, w) \cup late
      /\ w \in live /\ dragging_window = NULL /\ w \notin closed
  BY <1>1 DEF IInv, Hands, At, Known
<1>3. TypeOK /\ Listed = List /\ List' = List /\ w \in Wins /\ Listed \cap closed = {}
  BY <1>1, <1>2, ListIs, ListFacts DEF IInv, PointersLive, ListSound, Closing, List
<1>4. minimised' \subseteq Wins
  BY <1>3 DEF Act, TypeOK
<1>5. Ends(next, windows)'
  BY <1>1, ListFacts DEF Ends
<1>6. CASE main.part = "close"
  <2>1. /\ main' = [main EXCEPT !.pc = "remove"] /\ late' = late /\ closed' = closed \cup {w}
        /\ dragging_window' = dragging_window
    BY <1>6 DEF Act
  <2>2. /\ main'.pc = "remove" /\ main'.win = w
        /\ main' \in [pc : Pcs, win : Wins \cup {NULL}, part : Parts, head : Wins \cup {NULL}]
    BY <1>3, <2>1 DEF TypeOK, Pcs
  <2>3. TypeOK'
    BY <1>1, <1>3, <1>4, <2>1, <2>2, WindowManagerAssumption DEF TypeOK
  <2>4. Hands'
    BY <1>1, <1>2, <1>3, <2>1, <2>2 DEF Hands, Known, At
  <2> QED
    BY <1>1, <1>2, <1>3, <1>5, <2>1, <2>2, <2>3, <2>4, Properties, ListFacts
       DEF IInv, PointersLive, HandleLive, NothingElseLost, InHand, Closing
<1>7. CASE main.part # "close"
  <2>1. /\ main' = [pc |-> "idle", win |-> NULL, part |-> "client", head |-> NULL]
        /\ late' = {} /\ closed' = closed
        /\ dragging_window' \in {w, dragging_window}
    BY <1>7 DEF Act, Idle
  <2>2. TypeOK'
    BY <1>1, <1>3, <1>4, <2>1 DEF TypeOK, Pcs, Parts
  <2>3. Hands'
    BY <2>1 DEF Hands, At
  <2> QED
    BY <1>1, <1>2, <1>3, <1>5, <2>1, <2>2, <2>3, Properties, ListFacts
       DEF IInv, PointersLive, HandleLive, NothingElseLost, InHand, Closing
<1> QED
  BY <1>6, <1>7

(* Closing begins: the window is the first, or is unlinked. *)
LEMMA RemoveInv == ASSUME IInv, Remove PROVE IInv'
<1> DEFINE w == main.win
<1>1. /\ main.pc = "remove"
      /\ UNCHANGED <<windows, live, magic, minimised, dragging_window, closed, late, lost>>
  BY DEF Remove, At
<1>2. /\ w \in List /\ List \subseteq Reach(next, w) \cup late
      /\ w \in live /\ dragging_window = NULL /\ w \in closed
  BY <1>1 DEF IInv, Hands, At, Known
<1>3. TypeOK /\ Listed = List /\ w \in Wins /\ List \cap closed \subseteq {w}
  BY <1>1, <1>2, ListIs, ListFacts DEF IInv, PointersLive, ListSound, Closing
<1>4. CASE Goto("remove_head") /\ UNCHANGED next
  <2>1. /\ main'.pc = "remove_head" /\ main'.win = w
        /\ main' \in [pc : Pcs, win : Wins \cup {NULL}, part : Parts, head : Wins \cup {NULL}]
    BY <1>3, <1>4 DEF TypeOK, Pcs, Goto
  <2>2. TypeOK'
    BY <1>1, <1>3, <1>4, <2>1, WindowManagerAssumption DEF TypeOK
  <2>3. List' = List
    BY <1>1, <1>4 DEF List
  <2>4. Hands'
    BY <1>1, <1>2, <1>3, <1>4, <2>1, <2>3 DEF Hands, Known, At
  <2>5. Ends(next, windows)'
    BY <1>1, <1>4, ListFacts DEF Ends
  <2> QED
    BY <1>1, <1>2, <1>3, <2>1, <2>2, <2>3, <2>4, <2>5, Properties, ListFacts
       DEF IInv, PointersLive, HandleLive, NothingElseLost, InHand, Closing
<1>5. CASE /\ windows # w
           /\ \E curr \in Listed :
                /\ Before(curr, main.win)
                /\ next' = [next EXCEPT ![curr] = next[main.win]]
           /\ Goto("invalidate")
  <2>1. /\ main'.pc = "invalidate" /\ main'.win = w
        /\ main' \in [pc : Pcs, win : Wins \cup {NULL}, part : Parts, head : Wins \cup {NULL}]
    BY <1>3, <1>5 DEF TypeOK, Pcs, Goto
  <2>2. IsLinks(next') /\ Ends(next, windows)' /\ List' = List \ {w}
    BY <1>1, <1>3, <1>5, TakenOut
  <2>3. TypeOK'
    BY <1>1, <1>3, <2>1, <2>2, WindowManagerAssumption DEF TypeOK, IsLinks
  <2>4. Hands'
    BY <1>1, <1>2, <1>3, <2>1, <2>2 DEF Hands, Known, At
  <2> QED
    BY <1>1, <1>2, <1>3, <2>1, <2>2, <2>3, <2>4, Properties, ListFacts
       DEF IInv, PointersLive, HandleLive, NothingElseLost, InHand, Closing
<1> QED
  BY <1>1, <1>4, <1>5 DEF Remove

(* The first window is closed: with it goes what was opened before it.     *)
LEMMA RemoveHeadInv == ASSUME IInv, RemoveHead PROVE IInv'
<1> DEFINE w == main.win
<1>1. /\ main.pc = "remove_head" /\ windows' = next[w] /\ lost' = lost \cup late /\ late' = {}
      /\ main' = [pc |-> "idle", win |-> NULL, part |-> "client", head |-> NULL]
      /\ UNCHANGED <<next, live, magic, minimised, dragging_window, closed>>
  BY DEF RemoveHead, At, Idle
<1>2. /\ w \in List /\ List \subseteq Reach(next, w) \cup late
      /\ dragging_window = NULL /\ w \in closed
  BY <1>1 DEF IInv, Hands, At, Known
<1>3. TypeOK /\ Listed = List /\ List \cap closed \subseteq {w}
  BY <1>1, <1>2, ListIs DEF IInv, PointersLive, ListSound, Closing
<1>4. /\ List' = Reach(next, next[w]) /\ Reach(next, w) = {w} \cup List'
      /\ List' \subseteq List /\ w \notin List' /\ next[w] \in List \cup {NULL}
  BY <1>1, <1>2, ListFacts DEF List
<1>5. Ends(next, windows)'
  <2>1. CASE next[w] = NULL
    BY <1>1, <2>1 DEF Ends
  <2>2. CASE next[w] \in List
    <3>1. Ends(next, next[w])
      BY <2>2, ListFacts, EndsFrom DEF List
    <3> QED
      BY <1>1, <3>1 DEF Ends
  <2> QED
    BY <1>4, <2>1, <2>2
<1>6. TypeOK'
  BY <1>1, <1>3, <1>4, ListFacts DEF TypeOK, Pcs, Parts
<1>7. Hands'
  BY <1>1 DEF Hands, At
<1> QED
  BY <1>1, <1>2, <1>3, <1>4, <1>5, <1>6, <1>7, Properties, ListFacts
     DEF IInv, PointersLive, HandleLive, NothingElseLost, InHand, Closing

(* The handle of a window that was unlinked is no handle any more, and     *)
(* then the window is freed.                                               *)
LEMMA FreeInv == ASSUME IInv, Invalidate \/ Free PROVE IInv'
<1> DEFINE w == main.win
<1>1. /\ main.pc \in {"invalidate", "free"}
      /\ UNCHANGED <<windows, next, minimised, dragging_window, closed, lost>>
      /\ w \in closed /\ w \notin List /\ dragging_window = NULL /\ w \in live
  BY DEF Invalidate, Free, At, IInv, Hands
<1>2. TypeOK /\ Listed = List /\ List' = List /\ List \cap closed = {}
  BY <1>1, ListIs DEF IInv, PointersLive, ListSound, Closing, List
<1>3. Ends(next, windows)'
  BY <1>1, ListFacts DEF Ends
<1>4. CASE Invalidate
  <2>1. magic' = magic \ {w} /\ UNCHANGED <<live, late>>
    BY <1>4 DEF Invalidate
  <2>2. /\ main'.pc = "free" /\ main'.win = w
        /\ main' \in [pc : Pcs, win : Wins \cup {NULL}, part : Parts, head : Wins \cup {NULL}]
    BY <1>2, <1>4 DEF Invalidate, TypeOK, Pcs, Goto
  <2>3. TypeOK'
    BY <1>1, <1>2, <2>1, <2>2 DEF TypeOK
  <2>4. Hands'
    BY <1>1, <1>2, <2>1, <2>2 DEF Hands, At
  <2> QED
    BY <1>1, <1>2, <1>3, <2>1, <2>2, <2>3, <2>4, Properties, ListFacts
       DEF IInv, PointersLive, HandleLive, NothingElseLost, InHand, Closing
<1>5. CASE Free
  <2>1. /\ live' = live \ {w} /\ magic' = magic /\ late' = {} /\ w \notin magic
        /\ main' = [pc |-> "idle", win |-> NULL, part |-> "client", head |-> NULL]
    BY <1>5 DEF Free, Idle, At, IInv, Hands
  <2>2. TypeOK'
    BY <1>1, <1>2, <2>1 DEF TypeOK, Pcs, Parts
  <2>3. Hands'
    BY <2>1 DEF Hands, At
  <2> QED
    BY <1>1, <1>2, <1>3, <2>1, <2>2, <2>3, Properties, ListFacts
       DEF IInv, PointersLive, HandleLive, NothingElseLost, InHand, Closing
<1> QED
  BY <1>4, <1>5

(* The button is released. *)
LEMMA DropInv == ASSUME IInv, Drop PROVE IInv'
<1>1. /\ dragging_window' = NULL
      /\ UNCHANGED <<windows, next, live, magic, minimised, main, closed, late, lost>>
  BY DEF Drop
<1>2. List' = List /\ Listed = List
  BY <1>1, ListIs DEF List
<1>3. TypeOK' /\ Ends(next, windows)' /\ Hands'
  BY <1>1, <1>2, ListFacts DEF IInv, PointersLive, TypeOK, Hands, Known, At, Ends
<1> QED
  BY <1>1, <1>2, <1>3, Properties, ListFacts
     DEF IInv, PointersLive, ListSound, HandleLive, NothingElseLost, InHand, Closing

LEMMA StepInv == IInv /\ [Next]_vars => IInv'
<1> SUFFICES ASSUME IInv, [Next]_vars PROVE IInv'
  OBVIOUS
<1>1. CASE UNCHANGED vars
  <2>1. List' = List /\ Listed = List
    BY <1>1, ListIs DEF List, vars
  <2>2. TypeOK' /\ Ends(next, windows)' /\ Hands'
    BY <1>1, <2>1, ListFacts DEF vars, IInv, PointersLive, TypeOK, Hands, Known, At, Ends
  <2> QED
    BY <1>1, <2>1, <2>2, Properties, ListFacts
       DEF vars, IInv, PointersLive, ListSound, DragListed, HandleLive, NothingElseLost,
           InHand, Closing
<1>2. CASE \E w \in Wins : Create(w) \/ Open(w)
  BY <1>2, CreateInv, OpenInv
<1>3. CASE \E w \in Wins, part \in Parts : Click(w, part) \/ Taskbar(w)
  BY <1>3, ClickInv
<1>4. CASE CreateLink \/ Splice \/ FrontNext \/ FrontLink \/ Act
  BY <1>4, CreateLinkInv, SpliceInv, FrontNextInv, FrontLinkInv, ActInv
<1>5. CASE Remove \/ RemoveHead \/ Invalidate \/ Free \/ Drop
  BY <1>5, RemoveInv, RemoveHeadInv, FreeInv, DropInv
<1>6. "client" \in Parts
  BY DEF Parts
<1> QED
  BY <1>1, <1>2, <1>3, <1>4, <1>5, <1>6 DEF Next, Main

LEMMA Invariance == Spec => []IInv
  BY InitInv, StepInv, PTL DEF Spec
------------------------------------------------------------------------------
(* Whatever a process opens between which two accesses of the main thread, *)
(* and whether the main thread reads `windows` again or not: the list has  *)
(* an end, and no pointer to a window outlives it.                         *)
THEOREM PointersStayLive == Spec => []PointersLive
<1>1. IInv => PointersLive
  BY DEF IInv
<1> QED
  BY <1>1, Invariance, PTL

(* Only the windows that a process opened while the main thread was at     *)
(* work on the list are ever lost from it.                                 *)
THEOREM OnlyRacesLose == Spec => []NothingElseLost
<1>1. IInv => NothingElseLost
  BY DEF IInv
<1> QED
  BY <1>1, Invariance, PTL
=============================================================================
