------------------------------- MODULE MCApps -------------------------------
(***************************************************************************)
(* Apps at the least size at which names are cut, directories lie in       *)
(* directories, files take more than one block and screens scroll.         *)
(***************************************************************************)
EXTENDS Apps, TLC

MCColours == <<"[", "3", "m">> :> "yellow" @@ <<"[", "m">> :> "default"

(* The default tree and two more nodes: enough for a directory in a        *)
(* directory, for two nodes of one cut name, and for a name used again.    *)
(* Paths with and without a leading slash, with dots in every place, with  *)
(* a trailing slash, through a file and through what does not exist.       *)
MCPaths ==
  { <<"", "etc">>, <<"", "etc", "new">>, <<"new">>, <<"..">>, <<".">>,
    <<"", "etc", "">>, <<"", "etc", "LONG">>, <<"..", "etc", "new", ".">>,
    <<"readme.txt", "..">>, <<"", "etc", "motd">> }
MCStarts == {<<".">>}
MCNames ==
  {"", ".", "..", "/", "readme.txt", "bin", "etc", "motd", "hzsh.conf", "new", "LONG", "LON",
   "a.png", "hole", "bad"}
MCJoined == [pair \in {"", ".", "/"} \X MCNames |-> pair[1] \o pair[2]]
MCCharsOf ==
  [name \in MCNames \cup {"." \o name : name \in MCNames} |->
     CASE name = "LON" -> 31 [] name = "LONG" -> 32 [] OTHER -> Len(name)]

MCBytesOf(content) == IF content = "text" THEN <<"t1", "t2">> ELSE <<"d1", "d2", "d3">>

MCViewed == {<<"", "a.png">>, <<"", "hole">>, <<"", "bad">>, <<"", "readme.txt">>}
MCRead ==
  { <<"", "a.png">>, <<"", "b.png">>, <<"", "d">>, <<"", "d", "c.png">>,
    <<"", "d", "", "c.png">>, <<"", "big">>, <<"", "link">>, <<"", "x">>, <<"a.png">>,
    <<"", "b.png", "">>, <<"", "">> }

(* Images: the usual one, one with a second block of entries in the root,  *)
(* one whose root lists one file, and one that is no volume.               *)
Entry(inode, name) == [inode |-> inode, name |-> name]
Inode(type, size, block, rest) ==
  [type |-> type, size |-> size, block |-> block \o <<0, 0>>, rest |-> rest]

MCUsual ==
  LET dots(dir) == <<Entry(dir, "."), Entry(2, "..")>> IN
  [ mounted |-> TRUE, blocks |-> 24,
    inode |->
      2 :> Inode("DIR", 2, <<5, 0, 0>>, <<>>) @@ 11 :> Inode("FILE", 0, <<0, 0, 0>>, <<>>) @@
      12 :> Inode("FILE", 3, <<6, 7, 0>>, <<>>) @@ 13 :> Inode("FILE", 2, <<8, 0, 0>>, <<>>) @@
      14 :> Inode("DIR", 2, <<9, 0, 0>>, <<>>) @@ 15 :> Inode("FILE", 4, <<11, 0, 0>>, <<>>) @@
      16 :> Inode("FILE", 5, <<13, 14, 15>>, <<16>>) @@ 17 :> Inode("LINK", 2, <<38, 0, 0>>, <<>>) @@
      18 :> Inode("LINK", 4, <<63, 60, 60>>, <<>>) @@ 19 :> Inode("FILE", 1, <<10, 0, 0>>, <<>>),
    block |->
      5 :> (dots(2) \o <<Entry(12, "a.png"), Entry(13, "b.png"), Entry(14, "d"), Entry(15, "hole"),
                         Entry(16, "big"), Entry(17, "link"), Entry(18, "bad")>>) @@
      6 :> <<"a1", "a2">> @@ 7 :> <<"a3", "zero">> @@ 8 :> <<"b1", "b2">> @@
      9 :> (dots(14) \o <<Entry(19, "c.png")>>) @@ 10 :> <<"c1", "zero">> @@
      11 :> <<"h1", "h2">> @@ 13 :> <<"g1", "g2">> @@ 14 :> <<"g3", "g4">> @@
      15 :> <<"ptr", "ptr">> @@ 16 :> <<"g5", "zero">> ]

Long ==
  [MCUsual EXCEPT !.inode = 2 :> Inode("DIR", 4, <<5, 20, 0>>, <<>>) @@ @,
                !.block = 20 :> <<Entry(13, "x")>> @@ @]

Hollow ==
  [MCUsual EXCEPT !.block = 5 :> <<Entry(2, "."), Entry(2, ".."), Entry(12, "a.png"), Entry(0, "")>> @@ @,
                !.inode = 12 :> Inode("FILE", 4, <<0, 6, 0>>, <<>>) @@ @]

MCImages == {MCUsual, Long, Hollow, [MCUsual EXCEPT !.mounted = FALSE]}
=============================================================================
