-------------------------------- MODULE Vfs --------------------------------
(***************************************************************************)
(* The tree of files in memory of src/fs/filesystem.c, the commands that   *)
(* change it, and the file browser that walks it.                          *)
(*                                                                         *)
(* The commands (mkdir, touch, write, cd, files) run in the keyboard       *)
(* interrupt or in a system call, with interrupts off: one step each.  The *)
(* file browser belongs to the GUI loop; its fs_find can be interrupted    *)
(* between any two looks at the tree.                                      *)
(*                                                                         *)
(* A path is split at its slashes, as the code does while it reads it:     *)
(* "/etc/motd" is <<"", "etc", "motd">>, "etc/" is <<"etc", "">>, "" is    *)
(* <<"">>.  A name is what stands between two slashes.  LongName stands    *)
(* for a name of more than 31 characters, CutName for what create_node and *)
(* get_parent_and_name keep of it.  Nodes are numbered in the order of     *)
(* their creation; nothing removes one.                                    *)
(***************************************************************************)
EXTENDS Naturals, Sequences, SequencesExt, FiniteSetsExt

CONSTANTS
  Names,      \* the names between slashes
  Paths,      \* the paths that commands are given
  Starts,     \* those that files is given
  Data,       \* what is written
  LongName, CutName,
  CharsOf,    \* the characters a name has
  Joined,     \* a name of one character or none with another behind it
  MaxNodes,   \* bound: no node is created once there are this many
  MaxPath     \* a click makes the browser's path no longer than this, 255

(* What is assumed of the constants.  (A definition, so that a proof sees *)
(* it only where it needs it.)                                             *)
VfsConstants ==
  /\ Names \subseteq STRING /\ LongName # CutName /\ CutName \in Names
  /\ {"", "/", "readme.txt", "bin", "etc", "motd", "hzsh.conf"} \subseteq Names \ {LongName}
  /\ \A name \in Names : CharsOf[name] \in Nat
  /\ Joined \in [{c \in Names : CharsOf[c] <= 1} \X Names -> STRING]
  /\ Paths \subseteq Seq(Names) \ {<<>>} /\ Starts \subseteq Paths
  /\ MaxNodes \in Nat /\ MaxNodes >= 6 /\ MaxPath \in Nat

ASSUME VfsAssumption == VfsConstants

VARIABLES
  nodes,      \* the nodes: name, type, parent, list of children, content
  cwd,        \* fs_cwd
  cwd_path,   \* fs_cwd_path
  browser,    \* state->current_path
  main,       \* where the file browser's fs_find is
  began       \* history: what fs_find would have found when it was called

vars == <<nodes, cwd, cwd_path, browser, main, began>>

NULL == 0
Root == 1

Node(name, type, parent, kids, content) ==
  [name |-> name, type |-> type, parent |-> parent, kids |-> kids, content |-> content]

(* The tree as fs_init leaves it. *)
DefaultTree ==
  << Node("/", "DIR", NULL, <<2, 3, 4>>, "none"),
     Node("readme.txt", "FILE", Root, <<>>, "default"),
     Node("bin", "DIR", Root, <<>>, "none"),
     Node("etc", "DIR", Root, <<5, 6>>, "none"),
     Node("motd", "FILE", 4, <<>>, "default"),
     Node("hzsh.conf", "FILE", 4, <<>>, "default") >>

Idle == [pc |-> "idle", segs |-> <<>>, node |-> NULL, child |-> 0]

Init ==
  /\ nodes = DefaultTree
  /\ cwd = Root
  /\ cwd_path = <<"", "">>
  /\ browser = <<"", "">>
  /\ main = Idle
  /\ began = NULL

Cut(name) == IF name = LongName THEN CutName ELSE name

IsDir(n) == n # NULL /\ nodes[n].type = "DIR"

(* find_in_dir: the first child of that name. *)
FindInDir(tree, dir, name) ==
  LET kids == IF tree[dir].type = "DIR" THEN tree[dir].kids ELSE <<>>
      hits == {i \in DOMAIN kids : tree[kids[i]].name = name}
  IN IF hits = {} THEN NULL ELSE kids[Min(hits)]

IsAbsolute(path) == Len(path) > 1 /\ path[1] = ""

(* Mutant: the parent of a directory is the root. *)
EnterUpToRoot(tree, current, seg) ==
  CASE current = NULL -> NULL
    [] current # NULL /\ seg \in {"", "."} -> current
    [] current # NULL /\ seg = ".." -> Root
    [] OTHER -> FindInDir(tree, current, seg)

(* One segment of fs_find.  The root's ".." is the root. *)
Enter(tree, current, seg) ==
  CASE current = NULL -> NULL
    [] current # NULL /\ seg \in {"", "."} -> current
    [] current # NULL /\ seg = ".." -> Max({tree[current].parent, Root})
    [] OTHER -> FindInDir(tree, current, seg)

(* fs_find *)
FindIn(tree, path) ==
  LET current[i \in 0 .. Len(path)] ==
        IF i = 0 THEN (IF IsAbsolute(path) THEN Root ELSE cwd)
        ELSE Enter(tree, current[i - 1], path[i])
  IN current[Len(path)]

Find(path) == FindIn(nodes, path)

(* get_parent_and_name *)
ParentOf(path) ==
  IF Len(path) = 1 THEN cwd
  ELSE IF Len(path) = 2 /\ path[1] = "" THEN Root
  ELSE Find(Front(path))

NameOf(path) == Cut(Last(path))

(* Mutant: the name is looked for before it is cut. *)
CanCreateUncut(parent, path) == IsDir(parent) /\ FindInDir(nodes, parent, Last(path)) = NULL

(* fs_mkdir and fs_mkfile create a node under these conditions. *)
CanCreate(parent, path) == IsDir(parent) /\ FindInDir(nodes, parent, NameOf(path)) = NULL

(* The tree after create_node and add_child. *)
Created(parent, path, type) ==
  Append([nodes EXCEPT ![parent].kids = Append(@, Len(nodes) + 1)],
         Node(NameOf(path), type, parent, <<>>, "none"))
------------------------------------------------------------------------------
Room == Len(nodes) < MaxNodes

(* fs_mkdir and fs_mkfile, called by mkdir and touch.  A call that returns *)
(* -1 changes nothing.                                                     *)
Make(path, type) ==
  LET parent == ParentOf(path) IN
  /\ IF CanCreate(parent, path)
     THEN Room /\ nodes' = Created(parent, path, type)
     ELSE UNCHANGED nodes
  /\ UNCHANGED <<cwd, cwd_path, browser, main, began>>

(* fs_write_file of a path that names a node. *)
WriteExisting(path, data) ==
  LET node == Find(path) IN
  /\ node # NULL
  /\ IF nodes[node].type = "FILE"
     THEN nodes' = [nodes EXCEPT ![node].content = data]
     ELSE UNCHANGED nodes
  /\ UNCHANGED <<cwd, cwd_path, browser, main, began>>

(* fs_write_file of a path that names none: fs_mkfile, and fs_find again,  *)
(* which misses a file whose name was cut.                                 *)
WriteNew(path, data) ==
  LET parent == ParentOf(path)
      tree == Created(parent, path, "FILE")
      node == FindIn(tree, path)
  IN
  /\ Find(path) = NULL
  /\ IF ~CanCreate(parent, path) THEN UNCHANGED nodes
     ELSE /\ Room
          /\ nodes' = IF node # NULL THEN [tree EXCEPT ![node].content = data] ELSE tree
  /\ UNCHANGED <<cwd, cwd_path, browser, main, began>>

(* The path text of a directory, put together from its end. *)
TextOf(dir) ==
  LET text[n \in DOMAIN nodes] ==
        IF n = Root THEN <<"">> ELSE Append(text[nodes[n].parent], nodes[n].name)
  IN IF dir = Root THEN <<"", "">> ELSE text[dir]

(* fs_chdir, called by cd. *)
Chdir(path) ==
  LET node == Find(path) IN
  /\ IF IsDir(node)
     THEN cwd' = node /\ cwd_path' = TextOf(node)
     ELSE UNCHANGED <<cwd, cwd_path>>
  /\ UNCHANGED <<nodes, browser, main, began>>

(* file_browser_create, called by files.  One browser is modelled: opening *)
(* it anew replaces the one there was.  It copies up to 255 characters,    *)
(* more than a command line has.                                           *)
Files(path) ==
  /\ main = Idle
  /\ browser' = path
  /\ UNCHANGED <<nodes, cwd, cwd_path, main, began>>
------------------------------------------------------------------------------
(* The file browser, when it paints or is clicked on, calls fs_find. *)
Look ==
  /\ main = Idle
  /\ main' = [pc |-> "walk", segs |-> browser, child |-> 0,
              node |-> IF IsAbsolute(browser) THEN Root ELSE cwd]
  /\ began' = Find(browser)
  /\ UNCHANGED <<nodes, cwd, cwd_path, browser>>

Walking == main.pc = "walk" /\ main.node # NULL /\ main.segs # <<>>

Entered(n) == main' = [main EXCEPT !.segs = Tail(@), !.node = n, !.child = 0]

(* A segment that needs no child, or that has none to look at. *)
WalkSegment ==
  /\ Walking
  /\ Head(main.segs) \in {"", ".", ".."} \/ ~IsDir(main.node)
  /\ Entered(Enter(nodes, main.node, Head(main.segs)))
  /\ UNCHANGED <<nodes, cwd, cwd_path, browser, began>>

(* Mutant: two children are passed at a time. *)
WalkSkips ==
  LET kids == nodes[main.node].kids
      next == main.child + 1
  IN
  /\ Walking
  /\ Head(main.segs) \notin {"", ".", ".."} /\ IsDir(main.node)
  /\ IF next > Len(kids) THEN Entered(NULL)
     ELSE IF nodes[kids[next]].name = Head(main.segs) THEN Entered(kids[next])
     ELSE main' = [main EXCEPT !.child = next + 1]
  /\ UNCHANGED <<nodes, cwd, cwd_path, browser, began>>

(* The next child is looked at, or found missing. *)
WalkChild ==
  LET kids == nodes[main.node].kids
      next == main.child + 1
  IN
  /\ Walking
  /\ Head(main.segs) \notin {"", ".", ".."} /\ IsDir(main.node)
  /\ IF next > Len(kids) THEN Entered(NULL)
     ELSE IF nodes[kids[next]].name = Head(main.segs) THEN Entered(kids[next])
     ELSE main' = [main EXCEPT !.child = next]
  /\ UNCHANGED <<nodes, cwd, cwd_path, browser, began>>

Found == main.pc = "walk" /\ (main.node = NULL \/ main.segs = <<>>)

(* The browser has painted the directory, or the click opened a file of it *)
(* or hit nothing.                                                         *)
Painted ==
  /\ Found
  /\ main' = Idle
  /\ began' = NULL
  /\ UNCHANGED <<nodes, cwd, cwd_path, browser>>

(* A click on "..": the path is cut at its last slash. *)
ClickUp ==
  /\ Found /\ IsDir(main.node) /\ nodes[main.node].parent # NULL
  /\ browser' = IF Front(browser) \in {<<>>, <<"">>} THEN <<"", "">> ELSE Front(browser)
  /\ main' = Idle /\ began' = NULL
  /\ UNCHANGED <<nodes, cwd, cwd_path>>

Shown(i) == nodes[main.node].kids[i]

(* The characters of a path with its slashes. *)
Chars(path) ==
  LET chars[i \in 0 .. Len(path)] == IF i = 0 THEN 0 ELSE chars[i - 1] + CharsOf[path[i]]
  IN chars[Len(path)] + Len(path) - 1

(* Mutant: the length of the name is not counted. *)
FitsShort(name) == Chars(browser) + 1 < MaxPath

(* There is room for a slash and the name. *)
Fits(name) == Chars(browser) + 1 + CharsOf[name] < MaxPath

(* Mutant: the name takes the place of the path, as it does in the root. *)
ClickDirReplaces(i) ==
  /\ Found /\ IsDir(main.node)
  /\ i \in DOMAIN nodes[main.node].kids
  /\ IsDir(Shown(i))
  /\ LET name == nodes[Shown(i)].name IN
     browser' = IF Fits(name) THEN <<"", name>> ELSE browser
  /\ main' = Idle /\ began' = NULL
  /\ UNCHANGED <<nodes, cwd, cwd_path>>

(* Paths of one character or none, but for the root's. *)
Short == {<<c>> : c \in {n \in Names : CharsOf[n] <= 1}}

(* The path with a name put behind it, after a slash if the path has more  *)
(* than one character.                                                     *)
Behind(name) ==
  IF browser = <<"", "">> THEN <<"", name>>
  ELSE IF browser \in Short THEN <<Joined[browser[1], name]>> ELSE Append(browser, name)

(* A click on a directory: its name is put behind the path, if it has room. *)
ClickDir(i) ==
  /\ Found /\ IsDir(main.node)
  /\ i \in DOMAIN nodes[main.node].kids
  /\ IsDir(Shown(i))
  /\ LET name == nodes[Shown(i)].name IN
     browser' = IF Fits(name) THEN Behind(name) ELSE browser
  /\ main' = Idle /\ began' = NULL
  /\ UNCHANGED <<nodes, cwd, cwd_path>>

Command ==
  \E path \in Paths :
    \/ \E type \in {"DIR", "FILE"} : Make(path, type)
    \/ \E data \in Data : WriteExisting(path, data) \/ WriteNew(path, data)
    \/ Chdir(path)
    \/ path \in Starts /\ Files(path)

Browse ==
  \/ Look \/ WalkSegment \/ WalkChild \/ Painted \/ ClickUp
  \/ \E i \in 1 .. MaxNodes : ClickDir(i)

Next == Command \/ Browse

Spec == Init /\ [][Next]_vars
------------------------------------------------------------------------------
Ids == DOMAIN nodes

(* Every variable has its type. *)
TypeOK ==
  /\ Len(nodes) <= MaxNodes
  /\ \A n \in Ids : /\ nodes[n].type \in {"DIR", "FILE"}
                    /\ nodes[n].content \in Data \cup {"none", "default"}
  /\ cwd \in Ids
  /\ cwd_path \in Seq(STRING) /\ browser \in Seq(STRING)
  /\ main.pc \in {"idle", "walk"} /\ main.node \in Ids \cup {NULL}
  /\ began \in Ids \cup {NULL}

(* Every node but the root is a child of one directory, its parent, which  *)
(* is older; no directory has two children of one name, although a name is *)
(* cut to 31 characters between being typed and being stored.              *)
TreeSound ==
  /\ TypeOK
  /\ \A n \in Ids :
       /\ nodes[n].name # LongName
       /\ n # Root => nodes[n].parent \in 1 .. n - 1 /\ IsDir(nodes[n].parent)
       /\ \A m \in Ids \ {Root} :
            Cardinality({i \in DOMAIN nodes[n].kids : nodes[n].kids[i] = m})
              = IF nodes[m].parent = n THEN 1 ELSE 0
       /\ \A k, m \in Ids \ {Root, n} :
            nodes[k].parent = n /\ nodes[m].parent = n /\ nodes[k].name = nodes[m].name
              => k = m

(* The working directory's text, which pwd prints, leads to it from the    *)
(* root, whatever odd names mkdir has stored elsewhere.                    *)
CwdTextRight == IsDir(cwd) /\ Find(cwd_path) = cwd

(* The names from the root to a node, and the names a path stands for when *)
(* its dots are worked off without looking at the tree.                    *)
FullName(node) ==
  LET full[n \in Ids] == IF n = Root THEN <<>> ELSE Append(full[nodes[n].parent], nodes[n].name)
  IN full[node]

Normal(path) ==
  LET names[i \in 0 .. Len(path)] ==
        IF i = 0 THEN (IF IsAbsolute(path) THEN <<>> ELSE FullName(cwd))
        ELSE CASE path[i] \in {"", "."} -> names[i - 1]
               [] path[i] = ".." -> IF names[i - 1] = <<>> THEN <<>> ELSE Front(names[i - 1])
               [] OTHER -> Append(names[i - 1], path[i])
  IN names[Len(path)]

(* fs_find finds a node exactly by the names its path stands for.  (A path *)
(* that goes up again from what does not exist finds nothing.)             *)
FindIsNormal ==
  /\ CwdTextRight
  /\ \A path \in Paths :
       IF Find(path) # NULL THEN FullName(Find(path)) = Normal(path)
       ELSE ".." \notin Range(path) => \A n \in Ids : FullName(n) # Normal(path)

(* The browser's fs_find of an absolute path, with commands between any of *)
(* its steps, finds what an uninterrupted one would have found when it     *)
(* began or would find now.  (One that starts from fs_cwd need not.)       *)
FoundAtStartOrEnd ==
  Found /\ IsAbsolute(browser) => main.node \in {began, Find(browser)}

Ordinary(name) == name \notin {"", ".", ".."}

(* A click in a browser with an absolute path goes to the directory that   *)
(* was clicked on: up to the parent, unless the path ends in dots or a     *)
(* slash, or down, unless it has an odd name.  (A click that would make    *)
(* the path too long leaves it as it is.)                                  *)
ClickGoesThere ==
  [][IsAbsolute(browser) /\ browser' # browser =>
       /\ ClickUp /\ Ordinary(Last(browser)) => Find(browser)' = nodes[main.node].parent
       /\ \A i \in 1 .. MaxNodes :
            ClickDir(i) /\ Ordinary(nodes[Shown(i)].name) => Find(browser)' = Shown(i)]_vars

(* The browser's path never outgrows the field it is kept in, however many *)
(* clicks have made it longer.                                             *)
PathFits == Chars(browser) < MaxPath
=============================================================================
