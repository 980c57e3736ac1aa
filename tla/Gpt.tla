-------------------------------- MODULE Gpt --------------------------------
(***************************************************************************)
(* gpt_read_table in src/fs/gpt.c with exfat_init_volume and               *)
(* fat32_init_volume, which it calls: a scan of a disk, one read of the    *)
(* block device after the other.  A disk is what its sectors say: whether  *)
(* LBA 1 holds a GPT header, how many bytes an entry of the table has, and *)
(* for each entry what it stands for.                                      *)
(*                                                                         *)
(* What an entry stands for is what the two init functions make of it: the *)
(* first looks for a name in the boot sector, the second divides a count   *)
(* of sectors by the sectors of a cluster and compares.                    *)
(***************************************************************************)
EXTENDS Naturals, Sequences

CONSTANTS
  SizeSpace     \* sizes are kept modulo this, 2^32

Volumes == {"exfat", "fat32"}

(* Basic data partitions: with a volume, with none, and with a boot sector *)
(* that claims clusters of no sectors.                                     *)
Basic == Volumes \cup {"foreign", "zero"}

(* The other entries are unused or of another type. *)
Kinds == Basic \cup {"other"}

(* A scan: what is read next ("header", "table", a kind of volume), or     *)
(* "done", or "fault" after a division by zero; the table as it was read,  *)
(* the entry looked at, and the volumes found so far.                      *)
Start == [step |-> "header", table |-> <<>>, entry |-> 0, found |-> {}]

(* The bytes of the table, and what the code takes for them. *)
TableBytes(disk) == Len(disk.table) * disk.size
TableSize(disk) == TableBytes(disk) % SizeSpace

(* The sectors a read asks for: the table's size is rounded up. *)
Sectors(scan, disk, sectorSize) ==
  IF scan.step = "table" THEN ((TableSize(disk) + sectorSize - 1) % SizeSpace) \div sectorSize
  ELSE 1

(* The init function finds its volume. *)
Holds(scan) == scan.table[scan.entry] = scan.step

(* The loop goes on to the next entry that is a basic data partition. *)
GoOn(scan, found) ==
  LET rest == {i \in scan.entry + 1 .. Len(scan.table) : scan.table[i] \in Basic} IN
  IF rest = {} THEN [scan EXCEPT !.step = "done", !.found = found]
  ELSE [scan EXCEPT !.step = "exfat", !.entry = CHOOSE i \in rest : \A j \in rest : i <= j,
                    !.found = found]

(* Mutant: what is not exFAT is not looked at again. *)
AfterReadNoFat(scan, ok, disk, seen) ==
  CASE scan.step = "header" ->
         [scan EXCEPT !.step = IF ok /\ disk.gpt THEN "table" ELSE "done"]
    [] scan.step = "table" ->
         IF ok THEN GoOn([scan EXCEPT !.table = seen], {}) ELSE [scan EXCEPT !.step = "done"]
    [] scan.step \in Volumes ->
         GoOn(scan, IF ok /\ Holds(scan) THEN scan.found \cup {<<scan.entry, scan.step>>}
                    ELSE scan.found)

(* A read has returned; if it was the table's, "seen" is what lies in the  *)
(* buffer.  A partition that is not exFAT, or cannot be read, is tried as  *)
(* FAT32.                                                                  *)
AfterRead(scan, ok, disk, seen) ==
  CASE scan.step = "header" ->
         [scan EXCEPT !.step = IF ok /\ disk.gpt THEN "table" ELSE "done"]
    [] scan.step = "table" ->
         IF ok THEN GoOn([scan EXCEPT !.table = seen], {}) ELSE [scan EXCEPT !.step = "done"]
    [] scan.step = "exfat" ->
         IF ok /\ Holds(scan) THEN GoOn(scan, scan.found \cup {<<scan.entry, "exfat">>})
         ELSE [scan EXCEPT !.step = "fat32"]
    [] scan.step = "fat32" /\ ok /\ scan.table[scan.entry] = "zero" ->
         [scan EXCEPT !.step = "fault"]
    [] scan.step = "fat32" /\ ~(ok /\ scan.table[scan.entry] = "zero") ->
         GoOn(scan, IF ok /\ Holds(scan) THEN scan.found \cup {<<scan.entry, "fat32">>}
                    ELSE scan.found)

OnDisk(disk) ==
  IF ~disk.gpt THEN {}
  ELSE {<<i, disk.table[i]>> : i \in {j \in DOMAIN disk.table : disk.table[j] \in Volumes}}
=============================================================================
