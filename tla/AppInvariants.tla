---------------------------- MODULE AppInvariants ----------------------------
(***************************************************************************)
(* The inductive invariants of what Apps runs part by part, and what they  *)
(* are made of.  AppProofs proves them.                                    *)
(***************************************************************************)
EXTENDS Apps, DataProofs

------------------------------------------------------------------------------
(* The tree, for any number of nodes.                                      *)
NodeType == [name : Names \ {LongName}, type : {"DIR", "FILE"}, parent : Nat,
             kids : Seq(Nat), content : Data \cup {"none", "default"}]

(* The children of node n are the nodes whose parent it is, each once.     *)
KidsAre(tree, n) ==
  /\ \A i \in 1 .. Len(tree[n].kids) :
       /\ tree[n].kids[i] \in 2 .. Len(tree) /\ tree[tree[n].kids[i]].parent = n
       /\ \A j \in 1 .. Len(tree[n].kids) : tree[n].kids[i] = tree[n].kids[j] => i = j
  /\ \A m \in 2 .. Len(tree) :
       tree[m].parent = n => \E i \in 1 .. Len(tree[n].kids) : tree[n].kids[i] = m

(* Children and parents are each other's, parents are older directories,   *)
(* and no two children of one have one name.                               *)
TreeIs(tree) ==
  /\ tree \in Seq(NodeType) /\ Len(tree) >= 1
  /\ tree[1].type = "DIR" /\ tree[1].parent = 0
  /\ \A n \in 2 .. Len(tree) : tree[n].parent \in 1 .. n - 1 /\ tree[tree[n].parent].type = "DIR"
  /\ \A n \in 1 .. Len(tree) : KidsAre(tree, n)
  /\ \A k, m \in 2 .. Len(tree) :
       tree[k].parent = tree[m].parent /\ tree[k].name = tree[m].name => k = m

------------------------------------------------------------------------------
(* Paths: where they lead, and what they are called.                       *)

(* Where fs_find is after each segment of a path. *)
WalkFrom(tree, start, path) ==
  CHOOSE f : f = [i \in 0 .. Len(path) |-> IF i = 0 THEN start ELSE Enter(tree, f[i - 1], path[i])]

(* fs_find walks from the root or from the working directory. *)
StartOf(path) == IF IsAbsolute(path) THEN 1 ELSE cwd

------------------------------------------------------------------------------
(* What a step of Vfs does to the tree.                                    *)

(* Nothing is removed from a tree, renamed or moved.                       *)
Grown(old, new) ==
  /\ Len(new) >= Len(old)
  /\ \A n \in 1 .. Len(old) :
       /\ new[n].name = old[n].name /\ new[n].type = old[n].type
       /\ new[n].parent = old[n].parent /\ Len(new[n].kids) >= Len(old[n].kids)
       /\ \A i \in 1 .. Len(old[n].kids) : new[n].kids[i] = old[n].kids[i]

(* Names put behind each other from the root on. *)
NamesFrom(base) ==
  CHOOSE f : f = [n \in DOMAIN nodes |->
                    IF n = Root THEN base ELSE Append(f[nodes[n].parent], nodes[n].name)]

(* What the commands are given. *)
Texts == Seq(Names) \ {<<>>}

(* What a step does to the tree. *)
Grows ==
  /\ TreeIs(nodes') /\ Grown(nodes, nodes') /\ Len(nodes') <= MaxNodes

(* A segment that leads nowhere else.                                      *)
Stays(seg) == seg \in {"", "."}

------------------------------------------------------------------------------
(* The invariants of Vfs, and the kinds of its steps.                      *)

(* What the browser's walk keeps.                                          *)
MainType == [pc : {"idle", "walk"}, segs : Seq(STRING), node : Nat, child : Nat]

(* Every variable of Vfs has its type and fits the tree.                   *)
FilesInv ==
  /\ TreeIs(nodes) /\ Len(nodes) <= MaxNodes
  /\ cwd \in 1 .. Len(nodes) /\ nodes[cwd].type = "DIR"
  /\ cwd_path \in Seq(STRING) /\ browser \in Seq(STRING) \ {<<>>}
  /\ main \in MainType /\ main.node \in 0 .. Len(nodes)
  /\ began \in 0 .. Len(nodes)

(* The tree grows, and nothing else changes.                               *)
TreeStep == Grows /\ UNCHANGED <<cwd, cwd_path, browser, main, began>>

(* Every click of the browser.                                             *)
Clicked == ClickUp \/ \E i \in 1 .. MaxNodes : ClickDir(i)

(* Everything that the commands, the browser and the viewer's part do to   *)
(* Vfs.                                                                    *)
VfsStep ==
  \/ TreeStep \/ UNCHANGED vars
  \/ \E path \in Texts : Chdir(path) \/ Files(path)
  \/ Look \/ WalkSegment \/ WalkChild \/ Painted \/ Clicked

(* Where k segments of the browser's path lead, and how many of them are   *)
(* behind the walk.                                                        *)
At(k) == WalkFrom(nodes, 1, browser)[k]
Gone == Len(browser) - Len(main.segs)

(* The children that the walk has passed have another name than it looks   *)
(* for.                                                                    *)
Passed ==
  \A i \in 1 .. main.child :
    /\ i <= Len(nodes[main.node].kids)
    /\ nodes[nodes[main.node].kids[i]].name # main.segs[1]

(* The browser's walk along an absolute path: behind it are the segments   *)
(* that lead to where it is, in the tree as it is by now; what was there   *)
(* when the walk began still is; and the children it has passed have       *)
(* another name.                                                           *)
WalkInv ==
  main.pc = "walk" /\ IsAbsolute(browser) =>
    /\ Len(main.segs) <= Len(browser)
    /\ \A i \in 1 .. Len(main.segs) : main.segs[i] = browser[Gone + i]
    /\ main.node # 0 => main.node = At(Gone)
    /\ main.node = 0 => began = 0
    /\ began # 0 => began = At(Len(browser))
    /\ main.node # 0 => Passed

(* A directory whose ancestors' names all can be entered.                  *)
Reachable(tree, n) ==
  \E S \in SUBSET (1 .. Len(tree)) :
    /\ n \in S
    /\ \A m \in S : m # 1 => Ordinary(tree[m].name) /\ tree[m].parent \in S

(* The working directory is such a one, and its path leads there.          *)
CwdInv ==
  /\ Reachable(nodes, cwd)
  /\ IsAbsolute(cwd_path) /\ WalkFrom(nodes, 1, cwd_path)[Len(cwd_path)] = cwd

(* What one segment does to the names of a path, and what a whole path     *)
(* does, which its dots and double dots are taken out of.                  *)
Work(names, seg) ==
  CASE seg \in {"", "."} -> names
    [] seg = ".." -> IF names = <<>> THEN <<>> ELSE Front(names)
    [] OTHER -> Append(names, seg)

NormalFrom(path) ==
  CHOOSE f : f = [i \in 0 .. Len(path) |->
                    IF i = 0 THEN (IF IsAbsolute(path) THEN <<>> ELSE FullName(cwd))
                    ELSE CASE path[i] \in {"", "."} -> f[i - 1]
                           [] path[i] = ".." -> IF f[i - 1] = <<>> THEN <<>> ELSE Front(f[i - 1])
                           [] OTHER -> Append(f[i - 1], path[i])]

(* The full name of a node.                                                *)
Full(n) == NamesFrom(<<>>)[n]

------------------------------------------------------------------------------
(* The boot console.                                                       *)

(* The cursor is a place of the screen, or, where `below` is 1, of the row *)
(* behind the last.                                                        *)
On(at, below) ==
  /\ at \in [row : Nat, col : Nat]
  /\ at.row < C!ScreenRows + below /\ at.col < C!ScreenCols

(* Or behind the last column.                                              *)
Near(at) == at.row < C!ScreenRows /\ at.col < C!ScreenCols + 1

(* Where main's terminal_putc is.                                          *)
Puts ==
  [step : {"ready", "load", "store", "draw", "wrap", "scroll"}, char : C!Chars,
   head : RingSlots(RingSize), draws : BOOLEAN]

(* The types of the console's variables.                                   *)
ConsoleTyped ==
  /\ coVesa \in BOOLEAN
  /\ coCursor \in [row : Nat, col : Nat]
  /\ IsRing(RingSize, C!Chars, coRing.buf, coRing.head, coRing.tail)
  /\ coRing = [buf |-> coRing.buf, head |-> coRing.head, tail |-> coRing.tail]
  /\ coPut \in Puts

(* What holds until a handler prints between main's reading and writing:   *)
(* the head that main has read is still the ring's, and there is room.     *)
ConsoleOwn ==
  /\ coKept = Content(RingSize, coRing.buf, coRing.head, coRing.tail)
  /\ coPut.step = "store" =>
       coPut.head = coRing.head /\ Onward(RingSize, coRing.head) # coRing.tail
  /\ coPut.step = "wrap" => Near(coCursor)
  /\ coPut.step # "wrap" => On(coCursor, IF coPut.step = "scroll" THEN 1 ELSE 0)

(* The types hold always, the rest until a handler has raced with main.    *)
ConsoleInv == part = "console" => ConsoleTyped /\ (~coRaced => ConsoleOwn)

------------------------------------------------------------------------------
(* Text mode, and what its handlers still print.                           *)
Marks == {"a", "nl", "bs", ">", "lock", "unlock", "unsink"}

(* What a window's command, a line, a handler that has the lock, and a     *)
(* message still print.                                                    *)
Sinking ==
  {<<"a", "nl", "unsink">>, <<"nl", "unsink">>, <<"a", "unsink">>, <<"unsink">>}
Prompting ==
  {<<"a", "nl", "lock", ">", "unlock">>, <<"nl", "lock", ">", "unlock">>,
   <<"a", "lock", ">", "unlock">>, <<"lock", ">", "unlock">>}
Locked == {<<">", "unlock">>, <<"unlock">>, <<"a", "nl", "unlock">>, <<"nl", "unlock">>}
Message == {<<>>, <<"a">>, <<"lock", "a", "nl", "unlock">>}

(* Main is in the GUI until it has set the sink and the hook.              *)
GuiPcs == {"gui", "sink", "hook"}
TtyPcs == {"kprintf", "prompt", "halt"}

(* The types of text mode's variables, and whose the hook is.              *)
TextTyped ==
  /\ ttMain = [pc |-> ttMain.pc, text |-> ttMain.text]
  /\ ttMain.pc \in GuiPcs \cup TtyPcs
  /\ ttMain.text \in {<<"a", "nl", ">">>, <<"nl", ">">>, <<">">>, <<>>}
  /\ ttMain.text # <<>> => ttMain.pc = "prompt"
  /\ ttHook = IF ttMain.pc \in GuiPcs THEN "gui" ELSE "tty"
  /\ ttRow \in [text : Seq(Marks), wrapped : BOOLEAN]
  /\ ttLine \in Seq(Marks) /\ Len(ttLine) <= LineRoom

(* What a handler may print, and when.                                     *)
HandlerIs ==
  /\ ttHandler \in Sinking \cup Prompting \cup Locked \cup Message
  /\ ttMain.pc \in TtyPcs => ttHandler \notin Sinking

(* The sink is the text mode's, unless a window's command is to give it    *)
(* back.                                                                   *)
SinkIs ==
  ~ttLost =>
    /\ ttMain.pc \in TtyPcs => ttSink = "tty"
    /\ ttMain.pc = "hook" => ttSink = "tty" \/ ttHandler \in Sinking

(* The lock is held by main's kprintf or by a handler's.                   *)
LockIs == ttLock => ttMain.pc = "prompt" \/ ttHandler \in Locked

(* What the screen ends with is the prompt and the line behind it.         *)
Shows == ~ttLost /\ ~ttRow.wrapped => Ends(<<">">> \o ttLine, ttRow.text)

(* Before the prompt the line is empty; behind it, the screen shows the    *)
(* line.                                                                   *)
LineIs ==
  ~ttDisturbed =>
    /\ ttMain.pc # "halt" => ttLine = <<>>
    /\ ttMain.pc = "prompt" => ttHandler = <<>> /\ (ttMain.text = <<>> => Shows)
    /\ ttMain.pc = "halt" =>
         \/ ttHandler \in Prompting \cup {<<">", "unlock">>} /\ ttLine = <<>>
         \/ ttHandler \in {<<"unlock">>, <<>>} /\ Shows

(* Text mode's invariant.                                                  *)
TtyIs == TextTyped /\ HandlerIs /\ SinkIs /\ LockIs /\ LineIs
TextInv == part = "text" => TtyIs

------------------------------------------------------------------------------
(* A terminal window: what its characters are, and where they go.          *)
Glyphs == Drawn \cup {"esc", "nl"}
Hue == {"default"} \cup {Colours[body] : body \in DOMAIN Colours}
Cell == [char : Drawn \cup {" "}, colour : Hue]
Cells == [1 .. Rows -> [1 .. Cols -> Cell]]

(* The types of a terminal window's variables.                             *)
WindowIs ==
  /\ printed \in Seq(Glyphs)
  /\ screen \in Cells
  /\ row \in 0 .. Rows - 1 /\ col \in 0 .. Cols - 1
  /\ colour \in Hue
  /\ escape \in [in : BOOLEAN, buf : Seq(Glyphs)]

(* Where characters go, for any set of visible ones. *)
Onwards(p, char) ==
  IF char = "nl" \/ p[2] + 1 = Cols THEN <<p[1] + 1, 0>> ELSE <<p[1], p[2] + 1>>

(* The places that a text's characters go to, if those at the positions    *)
(* `visible` are drawn.                                                    *)
PlaceFrom(text, visible) ==
  LET place[i \in 0 .. Len(text)] ==
        IF i = 0 THEN <<0, 0>>
        ELSE LET p == place[i - 1] IN
             IF i \notin visible THEN p
             ELSE IF text[i] = "nl" \/ p[2] + 1 = Cols THEN <<p[1] + 1, 0>>
             ELSE <<p[1], p[2] + 1>>
  IN place

(* A place is a line and a column; lines are counted from the first one    *)
(* ever printed.                                                           *)
Places == Nat \X (0 .. Cols - 1)

(* The module's definitions of what a text shows, for any text.            *)
Ended(text, i) == \E k \in i + 1 .. Len(text) : text[k] \in Letters

(* A sequence begins with an escape that no sequence holds.                *)
BeginsIn(text, i) ==
  /\ text[i] = "esc"
  /\ \A j \in 1 .. i - 1 : text[j] = "esc" => \E k \in j + 1 .. i - 1 : text[k] \in Letters

(* It ends with the first letter behind it, or has not ended.              *)
EndIn(text, i) ==
  LET ends == {j \in i + 1 .. Len(text) : text[j] \in Letters}
  IN IF ends = {} THEN Len(text) ELSE Term!Min(ends)

(* Where sequences begin, and what is visible: what no sequence holds.     *)
BegunIn(text) == {i \in DOMAIN text : BeginsIn(text, i)}

VisibleIn(text) ==
  {i \in DOMAIN text :
     text[i] \in Drawn \cup {"nl"} /\ \A j \in BegunIn(text) : i \notin j .. EndIn(text, j)}

(* What a sequence says, which sequences ask for a colour before i, and    *)
(* the colour that i has.                                                  *)
BodyIn(text, j) == SubSeq(text, j + 1, EndIn(text, j))
AskedIn(text, i) ==
  {j \in BegunIn(text) : EndIn(text, j) < i /\ Term!ColourOf(BodyIn(text, j)) # "same"}
ColourIn(text, i) ==
  IF AskedIn(text, i) = {} THEN "default"
  ELSE Term!ColourOf(BodyIn(text, Term!Max(AskedIn(text, i))))

PlaceIn(text) == PlaceFrom(text, VisibleIn(text))

(* What escape_buf has of the sequence that begins at s. *)
KeptOf(text, s) ==
  SubSeq(text, s + 1, IF s + EscapeRoom <= Len(text) THEN s + EscapeRoom ELSE Len(text))

(* The sequence at s is open at the text's end; or all have ended.         *)
Unended(text, s) == s \in 1 .. Len(text) /\ BeginsIn(text, s) /\ ~Ended(text, s)
Settled(text) == \A j \in 1 .. Len(text) : text[j] = "esc" => Ended(text, j)

(* The window is in a sequence exactly if one is open, and has kept what   *)
(* it says.                                                                *)
EscapeIs ==
  IF escape.in THEN \E s : Unended(printed, s) /\ escape.buf = KeptOf(printed, s)
  ELSE Settled(printed)

(* What is printed next has the colour, and its place is the cursor's.     *)
ColourIs == colour = ColourIn(printed, Len(printed) + 1)

(* One place comes before another.                                         *)
Ahead(p, q) == p[1] < q[1] \/ (p[1] = q[1] /\ p[2] < q[2])

(* No two characters are drawn at one place.                               *)
PlacesGrow(text) ==
  /\ \A i \in VisibleIn(text) : Ahead(PlaceIn(text)[i - 1], PlaceIn(text)[Len(text)])
  /\ \A i, j \in VisibleIn(text) : PlaceIn(text)[i - 1] = PlaceIn(text)[j - 1] => i = j

(* The open sequence asks for a colour if it ends with c.                  *)
Asks(text, s, c) == Term!ColourOf(Append(SubSeq(text, s + 1, Len(text)), c))

(* The screen.  GoneBy(line) lines have scrolled away when the cursor is   *)
(* on that line, and HereIn are the characters drawn at a place.           *)
GoneBy(line) == IF line >= Rows THEN line - (Rows - 1) ELSE 0

(* The characters that go to one place, and how one looks.                 *)
HereIn(text, a, b) ==
  {i \in VisibleIn(text) : text[i] # "nl" /\ PlaceIn(text)[i - 1] = <<a, b>>}

Seen(text, i) == [char |-> text[i], colour |-> ColourIn(text, i)]

(* A cell shows the one character that belongs there, or is blank.         *)
CellIs(text, here, cell) ==
  \/ here = {} /\ cell = Term!Blank
  \/ \E i \in here : here = {i} /\ cell = Seen(text, i)

(* All cells do, when `gone` lines have scrolled away.                     *)
ShownAt(text, cells, gone) ==
  \A r \in 1 .. Rows, k \in 1 .. Cols :
    CellIs(text, HereIn(text, gone + r - 1, k - 1), cells[r][k])

(* The cursor is behind the last character, and the cells show the last    *)
(* lines.                                                                  *)
TailIs(text, cells, r, k) ==
  LET last == PlaceIn(text)[Len(text)]
      gone == GoneBy(last[1])
  IN <<r + gone, k>> = last /\ ShownAt(text, cells, gone)

(* What printing c does to the cells, with no line fed and no row          *)
(* scrolled.                                                               *)
DrawnIn(text, c, open, cells, a, b) ==
  IF ~open /\ c \in Drawn
  THEN [cells EXCEPT ![a][b] = Seen(Append(text, c), Len(text) + 1)]
  ELSE cells

(* The terminal window's invariant.                                        *)
TerminalIs ==
  WindowIs /\ EscapeIs /\ ColourIs /\ PlacesGrow(printed) /\ TailIs(printed, screen, row, col)

ScreenInv == part = "screen" => TerminalIs

------------------------------------------------------------------------------
(* Files and volumes.                                                      *)
Byte == STRING \cup {"other", "zero", "beyond"}
Bytes == [1 .. BlockBytes -> Byte]

(* What fs_read may copy from the volume. *)
Readable(ino) ==
  /\ image \in Images /\ image.mounted
  /\ ino \in DOMAIN image.inode /\ image.inode[ino].type # "DIR"

(* How a path of the volume is followed. *)
EntryType == [inode : {0} \cup DOMAIN image.inode, name : STRING]

(* The names of an absolute path, and where ext2_find_inode is after each. *)
NamesOf(path) == IF Last(path) = "" THEN Tail(Front(path)) ELSE Tail(path)

InodesFrom(path) ==
  CHOOSE f : f = [i \in 0 .. Len(NamesOf(path)) |->
                    IF i = 0 THEN Ext2Root ELSE EntryOf(f[i - 1], NamesOf(path)[i])]

(* fs_read of a path returns bytes, or that nothing is there. *)
Readings == Seq(Byte) \cup {Missing}

(* What the viewer's call knows, of what type.                             *)
ViewerType ==
  [pc : {"idle", "copy", "find", "content", "decode"}, path : Viewed \cup {<<>>}, ino : Nat,
   at : Nat, len : Nat, content : Data \cup {"none", "default"}, decoded : Seq(Byte),
   seen : SUBSET Readings, raced : BOOLEAN]

(* What the viewer is to show, and how long it is in the tree.             *)
WholeOf(v) == IF v.ino # 0 THEN Loaded(v.ino) ELSE BytesOf(v.content)
LengthOf(content) == IF content = "none" THEN 0 ELSE Len(BytesOf(content))

(* A path is opened; what is open is what the path leads to.               *)
Opening(v, t) ==
  v.pc # "idle" =>
    /\ v.path \in Viewed /\ FsReadIn(t, v.path) \in v.seen
    /\ v.ino # 0 => v.ino = FindInode(v.path) /\ Readable(v.ino)
    /\ v.pc # "decode" => v.decoded = <<>>

(* Of a file of the volume, whole blocks are copied, from the first on.    *)
Copying(v) ==
  v.pc = "copy" =>
    /\ v.ino # 0 /\ v.at \in 0 .. Cardinality(Copied(image.inode[v.ino]))
    /\ v.at = 0 => v.len = 0
    /\ v.at # 0 => v.len = (v.at - 1) * BlockBytes + Len(Chunk(image.inode[v.ino], v.at))

(* What the volume has not is looked for in the tree.                      *)
Finding(v, t) ==
  /\ v.pc \in {"find", "content"} => v.ino = 0 /\ ~OnVolume(FindInode(v.path))
  /\ v.pc = "content" =>
       LET node == FindIn(t, v.path) IN
       /\ node \in 1 .. Len(t) /\ t[node].type = "FILE"
       /\ ~v.raced => v.len = LengthOf(t[node].content)

(* What is decoded is what has been read.                                  *)
Decoding(v) ==
  v.pc = "decode" =>
    /\ v.ino = 0 => v.content # "none"
    /\ WholeOf(v) \in v.seen
    /\ v.ino # 0 \/ ~v.raced => v.len = Len(WholeOf(v))
    /\ Len(v.decoded) <= v.len
    /\ ~v.raced => \A i \in 1 .. Len(v.decoded) : v.decoded[i] = WholeOf(v)[i]

(* The buffer holds it, until another read has put its own there.          *)
Holding(v, b) ==
  v.ino # 0 /\ v.pc \in {"copy", "decode"} /\ ~v.raced =>
    \A i \in 1 .. v.len : b[i] = Loaded(v.ino)[i]

(* The viewer's invariant.                                                 *)
ViewerOk(v, b, t) ==
  /\ v \in ViewerType /\ b \in [1 .. Direct * BlockBytes -> Byte]
  /\ Opening(v, t) /\ Copying(v) /\ Finding(v, t) /\ Decoding(v) /\ Holding(v, b)

ViewerInv == part = "read" => image \in Images /\ ViewerOk(viewer, buffer, nodes)

(* The inodes along a path. *)
RealsFrom(path) ==
  CHOOSE r : r = [i \in 1 .. Len(path) |->
                    CASE i = 1 -> Ext2Root
                      [] i > 1 /\ path[i] = "" -> r[i - 1]
                      [] OTHER -> RealEntry(r[i - 1], path[i])]

(* What a directory lists is found by its name.                            *)
ListedFound == \A e \in listed : FindInode(<<"", e.name>>) = e.inode

VolumeInv == part = "volume" => image \in Images /\ (image.mounted => ListedFound)

------------------------------------------------------------------------------
(* The calculator.                                                         *)
CalcOps == K!Operators \cup {K!NoOp}

(* The display d shows the number n.                                       *)
DisplayIs(d, n) ==
  /\ d.digits \in Seq(0 .. 9) /\ Len(d.digits) <= Width
  /\ d.sign \in BOOLEAN /\ d.err = FALSE
  /\ n \in Int /\ (d.sign <=> n < 0)
  /\ K!Parsed(d) = n

(* The calculator is where the meaning of the keys is.                     *)
CalcOk(c, d, new, m) ==
  /\ c \in [value1 : Int, value2 : Int, op : CalcOps]
  /\ d \in [sign : BOOLEAN, err : BOOLEAN, digits : Seq(0 .. 9)]
  /\ m \in [left : Int, op : CalcOps, shown : Int, fresh : BOOLEAN, odd : BOOLEAN]
  /\ DisplayIs(d, m.shown)
  /\ new = m.fresh
  /\ c.op = m.op
  /\ c.op # K!NoOp => c.value1 = m.left

CalcInv == part = "keys" /\ ~meant.odd => CalcOk(calc, display, new_input, meant)

==============================================================================
