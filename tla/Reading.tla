------------------------------ MODULE Reading ------------------------------
(***************************************************************************)
(* How a file is read: src/fs/ext2.c over the RAM disk, fs_read of         *)
(* src/fs/filesystem.c that falls back to the tree of Vfs, and its callers *)
(* in two contexts: the image viewer of the GUI loop, which interrupts can *)
(* stop anywhere, and the commands (cat, exec), which run with interrupts  *)
(* off.  All of them copy files of the volume to one static buffer.        *)
(*                                                                         *)
(* An image is what mke2fs makes of a directory of the host (one group,    *)
(* blocks of BlockBytes bytes): `inode` gives type, size and i_block, of   *)
(* which the first Direct entries are block numbers, 0 for a hole, and the *)
(* others lead to `rest`, blocks only the properties know of; `block` is   *)
(* what is in a block of a file: directory entries, or bytes.              *)
(* The i_block of a short symbolic link holds its text: numbers of any     *)
(* value.  ramdisk_read is given 32 bits of a byte offset, so that block   *)
(* numbers count modulo BlockSpace.  The 64 KB of fs_read's buffer hold    *)
(* Direct blocks of any size.                                              *)
(* read_block(gd_block, &gd) writes a whole block over the 32 bytes of a   *)
(* group descriptor on the stack: undefined in C.  As the Makefile's       *)
(* compiler and flags (-O2, no stack protector) lay the frames out, gd is  *)
(* at the bottom and buf[4096] above it: a block of at most 4096 bytes     *)
(* falls on buf, which is read into next.  That is the one outcome here;   *)
(* larger blocks and other frames are left out.                            *)
(***************************************************************************)
EXTENDS Vfs

CONSTANTS
  Images,                 \* the images that may be linked into the kernel
  Viewed,                 \* the paths the file browser opens the viewer with
  Read,                   \* the paths cat and exec are given
  BlockBytes, Direct, BlockSpace,
  BytesOf(_)              \* the bytes of a node's content

Ext2Root == 2

(* What the volume holds, without the reader's limits: the blocks of a     *)
(* file, and the entries of a directory's.                                 *)
RealBlocks(file) == SubSeq(file.block, 1, Direct) \o file.rest
RealEntries(img, dir) == UNION {Range(img.block[b]) : b \in Range(RealBlocks(dir)) \ {0}}

(* What mke2fs makes: directories without holes, whose entries have names, *)
(* each once, and name inodes, the unused ones of a block being its last;  *)
(* regular files inside the image.  What a link's text is taken for is     *)
(* either no block of the image's or one of bytes.                         *)
Volume(img) ==
  LET IsBytes(b) == b \in DOMAIN img.block => img.block[b] \in [1 .. BlockBytes -> STRING]
      IsEntries(es) ==
        /\ es \in Seq([inode : {0} \cup DOMAIN img.inode, name : STRING])
        /\ \A i, j \in DOMAIN es : i < j /\ es[i].inode = 0 => es[j].inode = 0
  IN
  /\ img.blocks \in 0 .. BlockSpace - 1
  /\ Ext2Root \in DOMAIN img.inode /\ img.inode[Ext2Root].type = "DIR"
  /\ DOMAIN img.inode \subseteq Nat \ {0}
  /\ \A ino \in DOMAIN img.inode :
       LET file == img.inode[ino] IN
       /\ file.type \in {"DIR", "FILE", "LINK"} /\ file.size \in Nat
       /\ file.block \in Seq(Nat) /\ Len(file.block) > Direct /\ file.rest \in Seq(Nat)
       /\ file.type = "DIR" =>
            /\ file.block[1] # 0
            /\ \A b \in Range(RealBlocks(file)) \ {0} :
                 b < BlockSpace /\ b \in DOMAIN img.block /\ IsEntries(img.block[b])
            /\ \A e, f \in {g \in RealEntries(img, file) : g.inode # 0} :
                 e.name # "" /\ (e.name = f.name => e.inode = f.inode)
       /\ file.type = "FILE" =>
            /\ file.size <= (Direct + Len(file.rest)) * BlockBytes
            /\ \A b \in Range(RealBlocks(file)) \ {0} : b < img.blocks /\ IsBytes(b)
       /\ file.type = "LINK" =>
            \A i \in 1 .. Direct : IsBytes(file.block[i] % BlockSpace)

(* What is assumed of the constants, and nothing else of Images. *)
ReadingConstants ==
  /\ Viewed \subseteq Seq(Names) \ {<<>>} /\ Read \subseteq Seq(STRING) \ {<<>>}
  /\ {BlockBytes, Direct, BlockSpace} \subseteq Nat \ {0}
  /\ \A content \in Data \cup {"default"} : BytesOf(content) \in Seq(STRING)
  /\ \A img \in Images : img.mounted => Volume(img)

ASSUME ReadingAssumption == ReadingConstants

VARIABLES
  image,      \* the RAM disk
  buffer,     \* ext2_buffer
  viewer,     \* where image_viewer_create is, and the history of its call
  listed      \* the inodes and names ext2lsroot printed last

readVars == <<image, buffer, viewer, listed>>

(* ramdisk_read of a block: it is refused unless it ends inside the image. *)
Accepted(number) == (number + 1) % BlockSpace <= image.blocks

BlockAt(number) ==
  LET b == number % BlockSpace
  IN IF b \in DOMAIN image.block THEN image.block[b] ELSE [i \in 1 .. BlockBytes |-> "other"]

(* The part of a directory's only block that is looked at.                 *)
Entries(dir) ==
  LET all == BlockAt(image.inode[dir].block[1])
  IN {i \in DOMAIN all : \A j \in 1 .. i : all[j].inode # 0}

Searched(dir) == image.inode[dir].type = "DIR" /\ image.inode[dir].block[1] # 0

(* One component of ext2_find_inode. *)
EntryOf(dir, name) ==
  LET all == BlockAt(image.inode[dir].block[1])
      hits == {i \in Entries(dir) : all[i].name = name}
  IN CASE dir = NULL -> NULL
       [] dir # NULL /\ ~Searched(dir) -> NULL
       [] OTHER -> IF hits = {} THEN NULL ELSE all[Min(hits)].inode

(* ext2_find_inode: of an absolute path, whose last slash ends it. *)
FindInode(path) ==
  LET names == IF Last(path) = "" THEN Tail(Front(path)) ELSE Tail(path)
      inode[i \in 0 .. Len(names)] ==
        IF i = 0 THEN Ext2Root ELSE EntryOf(inode[i - 1], names[i])
  IN IF ~image.mounted \/ ~IsAbsolute(path) THEN NULL
     ELSE inode[Len(names)]

(* Mutant: the first indirect block is copied like the direct ones. *)
WantedIndirect(file) ==
  {i \in 1 .. Direct + 1 : (i - 1) * BlockBytes < file.size /\ \A j \in 1 .. i : file.block[j] # 0}

(* The blocks that ext2_read_file copies: the first Direct ones that begin *)
(* inside the file, up to a hole or to one that cannot be read.            *)
Wanted(file) ==
  {i \in 1 .. Direct : (i - 1) * BlockBytes < file.size /\ \A j \in 1 .. i : file.block[j] # 0}

Copied(file) == {i \in Wanted(file) : \A j \in 1 .. i : Accepted(file.block[j])}

Chunk(file, i) ==
  SubSeq(BlockAt(file.block[i]), 1, Min({BlockBytes, file.size - (i - 1) * BlockBytes}))

CopiedBytes(file) == FlattenSeq([i \in 1 .. Cardinality(Copied(file)) |-> Chunk(file, i)])

(* What a call for the inode puts into the buffer. *)
Loaded(ino) ==
  IF ino = NULL \/ image.inode[ino].type = "DIR" THEN <<>>
  ELSE CopiedBytes(image.inode[ino])

(* fs_read takes the volume's file if one byte of it or more was read. *)
OnVolume(ino) ==
  /\ Loaded(ino) # <<>>
  /\ Copied(image.inode[ino]) = Wanted(image.inode[ino])

Missing == <<"missing">>

(* fs_read without interruption: the bytes, or Missing. *)
FsReadIn(tree, path) ==
  LET ino == FindInode(path)
      node == FindIn(tree, path)
      file == node # NULL /\ tree[node].type = "FILE"
  IN CASE OnVolume(ino) -> Loaded(ino)
       [] ~OnVolume(ino) /\ file /\ tree[node].content # "none" -> BytesOf(tree[node].content)
       [] OTHER -> Missing

FsRead(path) == FsReadIn(nodes, path)
------------------------------------------------------------------------------
Asleep == [pc |-> "idle", path |-> <<>>, ino |-> NULL, at |-> 0, len |-> 0,
           content |-> "none", decoded |-> <<>>, seen |-> {}, raced |-> FALSE]

ReadingInit ==
  /\ Init
  /\ image \in Images
  /\ buffer = [i \in 1 .. Direct * BlockBytes |-> "zero"]
  /\ viewer = Asleep
  /\ listed = {}

Overwritten(from, bytes) ==
  [i \in DOMAIN buffer |-> IF i - from \in DOMAIN bytes THEN bytes[i - from] ELSE buffer[i]]

InBuffer == viewer.pc = "copy" \/ (viewer.pc = "decode" /\ viewer.ino # NULL)

(* A call for the inode puts something into the buffer. *)
Overwrites(ino) ==
  ino # NULL /\ image.inode[ino].type # "DIR" /\ Copied(image.inode[ino]) # {}

(* cat and exec: fs_read, in an interrupt or a system call.  History: did  *)
(* it copy another file while the viewer needs the buffer?                 *)
ReadCommand(path) ==
  LET ino == FindInode(path) IN
  /\ buffer' = Overwritten(0, Loaded(ino))
  /\ viewer' = [viewer EXCEPT !.raced = @ \/ (InBuffer /\ ino # viewer.ino /\ Overwrites(ino))]
  /\ UNCHANGED <<nodes, cwd, cwd_path, browser, main, began, image, listed>>

(* ext2lsroot: the entries of the root's first block. *)
ListRoot ==
  /\ image.mounted /\ Searched(Ext2Root)
  /\ listed' = {BlockAt(image.inode[Ext2Root].block[1])[i] : i \in Entries(Ext2Root)}
  /\ UNCHANGED <<nodes, cwd, cwd_path, browser, main, began, image, buffer, viewer>>

(* write and touch: history: every content that fs_read would have found,  *)
(* and did the content change between its length and itself being read?    *)
Change(path) ==
  /\ \/ Make(path, "FILE")
     \/ \E data \in Data : WriteExisting(path, data) \/ WriteNew(path, data)
  /\ UNCHANGED <<image, buffer, listed>>
  /\ viewer' = IF viewer.pc = "idle" THEN viewer
               ELSE [viewer EXCEPT !.seen = @ \cup {FsReadIn(nodes', viewer.path)},
                                   !.raced = @ \/ (viewer.pc = "content"
                                                /\ Find(path) = Find(viewer.path))]
------------------------------------------------------------------------------
View(step) ==
  /\ viewer' = step
  /\ UNCHANGED <<nodes, cwd, cwd_path, browser, main, began, image, listed>>

(* A click on a .png calls image_viewer_create, which calls fs_read.       *)
Open(path) ==
  /\ viewer.pc = "idle" /\ main = Idle
  /\ LET ino == FindInode(path)
         readable == ino # NULL /\ image.inode[ino].type # "DIR"
     IN View([Asleep EXCEPT !.pc = IF readable THEN "copy" ELSE "find",
                            !.path = path, !.ino = IF readable THEN ino ELSE NULL,
                            !.seen = {FsRead(path)}])
  /\ UNCHANGED buffer

File == image.inode[viewer.ino]

(* The next block is copied; one that cannot be read sends fs_read to the  *)
(* tree.                                                                   *)
CopyBlock ==
  LET next == viewer.at + 1 IN
  /\ viewer.pc = "copy" /\ next \in Wanted(File)
  /\ IF next \in Copied(File)
     THEN /\ buffer' = Overwritten(viewer.at * BlockBytes, Chunk(File, next))
          /\ View([viewer EXCEPT !.at = next, !.len = @ + Len(Chunk(File, next))])
     ELSE View([viewer EXCEPT !.pc = "find", !.ino = NULL]) /\ UNCHANGED buffer

CopyEnds ==
  /\ viewer.pc = "copy" /\ viewer.at + 1 \notin Wanted(File)
  /\ View(IF viewer.len > 0 THEN [viewer EXCEPT !.pc = "decode"]
          ELSE [viewer EXCEPT !.pc = "find", !.ino = NULL])
  /\ UNCHANGED buffer

(* fs_find (its steps are Vfs's), and the length of what it found. *)
FindFile ==
  LET node == Find(viewer.path) IN
  /\ viewer.pc = "find"
  /\ View(IF node = NULL \/ IsDir(node) THEN Asleep
          ELSE [viewer EXCEPT !.pc = "content",
                              !.len = IF nodes[node].content = "none" THEN 0
                                      ELSE Len(BytesOf(nodes[node].content))])
  /\ UNCHANGED buffer

(* The content, which stays as it is when another is written in its place. *)
TakeContent ==
  LET content == nodes[Find(viewer.path)].content IN
  /\ viewer.pc = "content"
  /\ View(IF content = "none" THEN Asleep
          ELSE [viewer EXCEPT !.pc = "decode", !.content = content])
  /\ UNCHANGED buffer

(* Mutant: write changes the content in its place. *)
SourceInPlace ==
  IF viewer.ino # NULL THEN buffer
  ELSE BytesOf(nodes[Find(viewer.path)].content) \o [i \in 1 .. viewer.len |-> "beyond"]

(* upng_decode reads what it was given, whatever has become of it. *)
Source ==
  IF viewer.ino # NULL THEN buffer
  ELSE BytesOf(viewer.content) \o [i \in 1 .. viewer.len |-> "beyond"]

Decoded == viewer.pc = "decode" /\ Len(viewer.decoded) = viewer.len

Decode ==
  LET done == Len(viewer.decoded) IN
  /\ viewer.pc = "decode" /\ ~Decoded
  /\ View([viewer EXCEPT !.decoded =
             @ \o SubSeq(Source, done + 1, Min({done + BlockBytes, viewer.len}))])
  /\ UNCHANGED buffer

(* The window is made. *)
Opened == Decoded /\ View(Asleep) /\ UNCHANGED buffer

Viewing == CopyBlock \/ CopyEnds \/ FindFile \/ TakeContent \/ Decode \/ Opened

Reads ==
  \/ \E path \in Viewed : Open(path) \/ Change(path)
  \/ \E path \in Read : ReadCommand(path)
  \/ Viewing
------------------------------------------------------------------------------
(* The inode under a name, or a path, wherever its entry stands.           *)
RealEntry(dir, name) ==
  LET hits == IF dir = NULL \/ image.inode[dir].type # "DIR" THEN {}
              ELSE {e \in RealEntries(image, image.inode[dir]) : e.name = name /\ e.inode # 0}
  IN IF hits = {} THEN NULL ELSE (CHOOSE e \in hits : TRUE).inode

RealInode(path) ==
  LET inode[i \in 1 .. Len(path)] ==
        CASE i = 1 -> Ext2Root
          [] i > 1 /\ path[i] = "" -> inode[i - 1]
          [] OTHER -> RealEntry(inode[i - 1], path[i])
  IN inode[Len(path)]

(* The bytes of a file, holes read as zeros. *)
RealBytes(file) ==
  SubSeq(FlattenSeq([i \in DOMAIN RealBlocks(file) |->
           IF RealBlocks(file)[i] = 0 THEN [b \in 1 .. BlockBytes |-> "zero"]
           ELSE BlockAt(RealBlocks(file)[i])]),
         1, file.size)

SmallDirectories == \A dir \in DOMAIN image.inode :
  LET file == image.inode[dir]
  IN file.type = "DIR" => RealEntries(image, file) = Range(image.block[file.block[1]])

(* ext2_find_inode finds nothing but what the volume holds under the path, *)
(* and misses nothing unless a directory has a second block or a slash is  *)
(* repeated; a regular file is read as the first blocks of its content, up *)
(* to a hole or to the twelfth, and completely without these; what         *)
(* ext2lsroot lists can be opened by its name.                             *)
ReadsExt2 ==
  image.mounted =>
    /\ \A path \in {p \in Viewed \cup Read : IsAbsolute(p)} :
         LET found == FindInode(path)
             real == RealInode(path)
         IN /\ found \in {real, NULL}
            /\ SmallDirectories /\ "" \notin Range(SubSeq(path, 2, Len(path) - 1)) => found = real
            /\ found # NULL /\ image.inode[found].type = "FILE" =>
                 /\ IsPrefix(Loaded(found), RealBytes(image.inode[found]))
                 /\ Len(Loaded(found)) < image.inode[found].size =>
                      \E i \in 1 .. Direct + 1 :
                        (i = Direct + 1 \/ image.inode[found].block[i] = 0)
                        /\ Len(Loaded(found)) = (i - 1) * BlockBytes
    /\ \A entry \in listed : FindInode(<<"", entry.name>>) = entry.inode

(* The image viewer decodes what fs_read would have returned at some       *)
(* moment of the call, however it was interrupted, unless another file of  *)
(* the volume was copied into the buffer, or a write came between the      *)
(* reads of content_len and content.                                       *)
ViewerUnlessRaced == Decoded /\ ~viewer.raced => viewer.decoded \in viewer.seen
=============================================================================
