-------------------------------- MODULE MCFs --------------------------------
(* A disk with sectors of two bytes and clusters of two sectors.  The root  *)
(* directory holds a read-only file hiding a namesake whose chain ends      *)
(* before its size, a file of one and a half clusters that are out of       *)
(* order, a deleted entry, a subdirectory, and a file on a cycle.           *)
EXTENDS Fs

Entry(name, attribute, first, size) ==
  [name |-> name, attribute |-> attribute, first |-> first, size |-> size]

MCVbpb == [reserved_sectors |-> 1, num_fats |-> 2, sectors_per_fat_16 |-> 1,
           root_entry_count |-> 6, sectors_per_cluster |-> 2]

MCRootDir ==
  << Entry("B", {"read_only"}, 8, 4),
     Entry("B", {"archive"}, 3, 6),
     Entry("A", {}, 5, 6),
     Entry(Deleted, {"directory"}, 9, 0),
     Entry("D", {"directory"}, 4, 0),
     Entry("C", {}, 6, 6) >>

MCFat ==
  [c \in 0..65535 |->
     CASE c = 5 -> 2 [] c = 6 -> 6 [] c \in {2, 3, 4, 8} -> 65535 [] OTHER -> 0]

MCChain ==
  [c \in {3, 5, 6, 8} |->
     CASE c = 5 -> <<5, 2>> [] c = 6 -> <<6, 6>> [] OTHER -> <<c>>]

SomePaths == {"A", "B", "C", "D"}

(* Seeks to the start and past the end, and one that is refused: see run    *)
(* fs_seek for the others.                                                  *)
EndSeeks == {<<0, "set">>, <<1, "end">>, <<-1, "set">>}
AllSeeks == EndSeeks \cup {<<2, "set">>, <<-1, "cur">>}
=============================================================================
