------------------------------ MODULE MCInstall ------------------------------
(* Sectors of eight bytes, directories of two entries to a sector.  One of  *)
(* the two disks varies at a time: the FAT of the source (every successor   *)
(* of three clusters, one of which straddles two sectors of a FAT12), its   *)
(* directory, its boot parameters, or the target's; a target of another     *)
(* geometry comes with the plainest of the sources.  Of the FATs, those     *)
(* with 3 behind the kernel's first cluster are met by a second run.        *)
EXTENDS Installer

CONSTANT Reboots

Vbpb(root, spc, total) ==
  [signed |-> TRUE, bytes_per_sector |-> SECTOR_SIZE, num_fats |-> 1, sectors_per_fat_16 |-> 2,
   reserved_sectors |-> 1, root_entry_count |-> root, sectors_per_cluster |-> spc,
   total_sectors_16 |-> 0, total_sectors_32 |-> total]

SmallVbpb == [Vbpb(2, 1, 6) EXCEPT !.sectors_per_fat_16 = 1, !.total_sectors_16 = 6]
MCTemplate == [SmallVbpb EXCEPT !.num_fats = 2]
BadVbpb == [SmallVbpb EXCEPT !.num_fats = 0]
MCVbpbs == {SmallVbpb, BadVbpb}

Entry(name, attribute, first, size) ==
  [name |-> name, attribute |-> attribute, first |-> first, size |-> size]
KernelEntry(size) == Entry("KERNEL", {"archive"}, 2, size)
Hidden  == Entry("KERNEL", {"hidden"}, 3, 1)
Other   == Entry("OTHER", {}, 3, 1)
TheEnd  == Entry("end", {}, 0, 0)
Dirs == { <<Other, Hidden, KernelEntry(2), TheEnd>>, <<Other, TheEnd, KernelEntry(1), Other>>,
          <<Hidden, Entry("KERNEL", {}, 0, 1), KernelEntry(1), TheEnd>>,
          <<Other, Entry("KERNEL", {"directory"}, 4, 1), Other, Other>>,
          <<Entry("KERNEL", {}, 3, 0), TheEnd, TheEnd, TheEnd>>,
          <<Entry("KERNEL", {}, BAD, 1), TheEnd, TheEnd, TheEnd>> }

Chain(two, three, five) ==
  [c \in 0..LAST_CLUSTER |->
     CASE c = 0 -> BAD [] c = 2 -> two [] c = 3 -> three [] c = 5 -> five [] OTHER -> END_OF_CHAIN]

Source(same, v, dir, fat) == [same |-> same, vbpb |-> v, dir |-> dir, fat |-> fat]
KernelOf(n) == <<KernelEntry(n), TheEnd, TheEnd, TheEnd>>
PlainSource == Source(TRUE, Vbpb(4, 1, 12), KernelOf(2), Chain(3, 5, END_OF_CHAIN))

Successors == {0, 3, 5, END_OF_CHAIN}
Chained ==
  {Source(TRUE, v, KernelOf(3), Chain(two, three, five)) :
     v \in {Vbpb(4, 1, 6), Vbpb(4, 2, 30)}, two \in Successors, three \in Successors \cup {2},
     five \in {2, END_OF_CHAIN}}
Searched == {[PlainSource EXCEPT !.dir = d] : d \in Dirs}
Parsed == {[PlainSource EXCEPT !.vbpb = v] :
             v \in {BadVbpb, Vbpb(4, 1, 3), [PlainSource.vbpb EXCEPT !.sectors_per_cluster = 0],
                    [PlainSource.vbpb EXCEPT !.signed = FALSE],
                    [PlainSource.vbpb EXCEPT !.sectors_per_cluster = 3]}}

Part(active, type, lba) == [boot_indicator |-> active, system_id |-> type, start_lba |-> lba]
Mbr(a, b) == [signed |-> TRUE, entry |-> <<a, b>>]
Target(mbr, v) == [mbr |-> mbr, vbpb |-> v]
Usual == Target(Mbr(Part(0, 6, 3), Part(128, 4, 1)), SmallVbpb)
Targets ==
  {Usual, Target(Mbr(Part(128, 6, 4), Part(128, 1, 1)), SmallVbpb),
   Target(Mbr(Part(128, 7, 1), Part(0, 1, 1)), SmallVbpb),
   Target(Usual.mbr, BadVbpb), Target(Usual.mbr, MCTemplate),
   Target(Usual.mbr, [SmallVbpb EXCEPT !.sectors_per_cluster = 0]),
   [Usual EXCEPT !.mbr.signed = FALSE]}

InstallInit ==
  \/ \E s \in Chained : Medium(s, Usual) /\ reboots = IF s.fat[2] = 3 THEN Reboots ELSE 0
  \/ \E s \in Searched \cup Parsed : Medium(s, Usual) /\ reboots = Reboots
  \/ \E t \in Targets : Medium(PlainSource, t) /\ reboots = Reboots
  \/ Medium([PlainSource EXCEPT !.same = FALSE], Usual) /\ reboots = 0

InstallSpec == InstallInit /\ [][InstallNext]_installVars /\ Fairness
=============================================================================
