-------------------------- MODULE InstallerProofs --------------------------
(***************************************************************************)
(* Theorems about Installer: whatever the two disks hold, wherever a        *)
(* request fails or the power goes, and however often the program is run    *)
(* again, nothing is written before all checks have passed, nor outside the *)
(* boot sector of the partition and the room of the kernel; and what is     *)
(* copied is the chain of the kernel, in order.                             *)
(***************************************************************************)
EXTENDS Installer, TLAPS

(* The numbers of a boot sector. *)
Numbers(v) ==
  /\ v.num_fats \in Nat /\ v.sectors_per_fat_16 \in Nat
  /\ v.reserved_sectors \in Nat /\ v.root_entry_count \in Nat

(* What is assumed of the disks: they hold numbers where a number belongs,  *)
(* and the partition does not begin at the boot record.                     *)
DisksGiven ==
  /\ DOMAIN source.dir \subseteq Nat \ {0}
  /\ \A j \in DOMAIN source.dir : source.dir[j].size \in Nat
  /\ source.vbpb.sectors_per_cluster \in Nat
  /\ Numbers(target.vbpb) /\ Numbers(TEMPLATE)
  /\ Partition \in (1..LAST_SECTOR) \cup {NoPartition}

Volume == ValidVbpb(source.vbpb) /\ Divides(source.vbpb)
HasKernel == KernelStops # {} /\ IsKernel(Kernel) /\ Kernel.first # 0 /\ Kernel.size # 0
Usable == source.same => ValidVbpb(target.vbpb) /\ Divides(target.vbpb)
Passed == Volume /\ HasKernel /\ Partition # NoPartition /\ Usable

(* The sectors the installer may change. *)
Room(l) ==
  \/ l = Partition
  \/ \E v \in {target.vbpb, TEMPLATE} :
       l - (Partition + data_start_sector(v))
         \in 0..(Kernel.size + source.vbpb.sectors_per_cluster - 2)

AfterTarget == {"boot", "read", "write", "next"}
AfterMbr == AfterTarget \cup {"target_vbpb"}
AfterFind == AfterMbr \cup {"mbr"}
AfterSource == AfterFind \cup {"find"}

(* What the program knows at each of its steps. *)
Stage ==
  /\ at \in AfterSource => Volume
  /\ at \in AfterFind => HasKernel /\ file.size = Kernel.size /\ Kernel.size \in Nat
  /\ at \in AfterMbr => /\ Partition # NoPartition /\ partition \in 0..LAST_SECTOR
                        /\ source.same => partition = Partition
  /\ at \in AfterTarget =>
       /\ Usable
       /\ source.same => vbpb \in {target.vbpb, TEMPLATE} /\ ValidVbpb(vbpb)
  /\ copied \in Nat /\ (at \in {"read", "write"} => copied < Kernel.size)
  /\ at = "write" => Len(buffer) = source.vbpb.sectors_per_cluster
  /\ dir_sector \in Nat
  /\ \A i \in 0..(dir_sector - 1) : StopsIn(source.dir, i) = {}

(* What the target disk has become. *)
DiskInv ==
  /\ \A l \in 0..LAST_SECTOR : disk[l] # Old => Passed
  /\ source.same => \A l \in 0..LAST_SECTOR : disk[l] # Old => Room(l)
  /\ source.same /\ Partition \in 0..LAST_SECTOR =>
       disk[Partition] = Old \/ disk[Partition].kind = "boot"

InstallInv == DisksGiven /\ Stage /\ DiskInv

(* The disks a program has been given are the same disks at every step. *)
LEMMA MediaKept ==
  ASSUME UNCHANGED media
  PROVE  /\ source' = source /\ target' = target
         /\ DisksGiven' = DisksGiven /\ Volume' = Volume /\ HasKernel' = HasKernel
         /\ Usable' = Usable /\ Passed' = Passed /\ Kernel' = Kernel /\ Partition' = Partition
         /\ \A l \in 0..LAST_SECTOR : Room(l)' = Room(l)
<1>1. source' = source /\ target' = target
  BY DEF media
<1>2. KernelStops' = KernelStops
  BY <1>1 DEF KernelStops
<1>3. Kernel' = Kernel /\ Partition' = Partition
  BY <1>1, <1>2 DEF Kernel, Partition
<1>4. DisksGiven' = DisksGiven
  BY <1>1, <1>3 DEF DisksGiven
<1>5. Volume' = Volume /\ Usable' = Usable
  BY <1>1 DEF Volume, Usable
<1>6. HasKernel' = HasKernel
  BY <1>2, <1>3 DEF HasKernel
<1>7. Passed' = Passed
  BY <1>3, <1>5, <1>6 DEF Passed
<1>8. \A l \in 0..LAST_SECTOR : Room(l)' = Room(l)
  BY <1>1, <1>3 DEF Room
<1> QED BY <1>1, <1>3, <1>4, <1>5, <1>6, <1>7, <1>8
-----------------------------------------------------------------------------
(* The search of the root directory. *)
LEMMA Divide ==
  ASSUME NEW d \in Nat, d > 0, NEW x \in Nat
  PROVE  x \div d \in Nat /\ x % d \in 0..(d - 1) /\ x = d * (x \div d) + (x % d)
  BY SMT

LEMMA QuotientGrows ==
  ASSUME NEW d \in Nat, d > 0, NEW x \in Nat, NEW y \in Nat, x \div d < y \div d
  PROVE  x < y
<1>1. PICK p \in Nat, r \in 0..(d - 1) : p = x \div d /\ x = d * p + r
  BY Divide
<1>2. PICK q \in Nat, t \in 0..(d - 1) : q = y \div d /\ y = d * q + t
  BY Divide
<1>3. p + 1 <= q
  BY <1>1, <1>2
<1>4. d * (p + 1) <= d * q
  BY <1>3, SMT
<1>5. d * (p + 1) = d * p + d
  BY SMT
<1>6. \A a, b \in Nat : a * b \in Nat
  OBVIOUS
<1>7. d * p \in Nat /\ d * q \in Nat
  BY <1>6
<1> QED BY <1>1, <1>2, <1>4, <1>5, <1>7

LEMMA PerSector == SECTOR_SIZE \div DIR_ENTRY_SIZE \in Nat \ {0}
<1>1. /\ SECTOR_SIZE \in Nat /\ SECTOR_SIZE > 0 /\ DIR_ENTRY_SIZE \in Nat /\ DIR_ENTRY_SIZE > 0
      /\ SECTOR_SIZE % DIR_ENTRY_SIZE = 0
  BY InstFatAssumption
<1>2. PICK q \in Nat : /\ q = SECTOR_SIZE \div DIR_ENTRY_SIZE
                       /\ SECTOR_SIZE = DIR_ENTRY_SIZE * q + (SECTOR_SIZE % DIR_ENTRY_SIZE)
  BY <1>1, Divide
<1>3. CASE q = 0
  BY <1>1, <1>2, <1>3
<1> QED BY <1>2, <1>3

(* The entry the search stops at is the first that could stop it. *)
LEMMA FoundFirst ==
  ASSUME DisksGiven, Stage, NEW j \in StopsIn(source.dir, dir_sector),
         \A k \in StopsIn(source.dir, dir_sector) : j <= k
  PROVE  KernelStops # {} /\ Kernel = source.dir[j]
<1> DEFINE n == SECTOR_SIZE \div DIR_ENTRY_SIZE
           At(k) == (k - 1) \div n
<1>1. n \in Nat /\ n > 0 /\ dir_sector \in Nat
  BY PerSector DEF Stage
<1> HIDE DEF n
<1>2. KernelStops = Stops(source.dir)
  BY DEF KernelStops, Stops
<1>3. \A i : StopsIn(source.dir, i) = {k \in KernelStops : At(k) = i}
  BY <1>2 DEF StopsIn, n
<1>4. \A k \in KernelStops : k \in Nat /\ k >= 1 /\ k - 1 \in Nat /\ At(k) \in Nat
  <2> SUFFICES ASSUME NEW k \in KernelStops
               PROVE  k \in Nat /\ k >= 1 /\ k - 1 \in Nat /\ At(k) \in Nat
    OBVIOUS
  <2>1. k \in Nat /\ k >= 1 /\ k - 1 \in Nat
    BY DEF KernelStops, DisksGiven
  <2> QED BY <1>1, <2>1, Divide
<1>5. j \in KernelStops /\ At(j) = dir_sector
  BY <1>3
<1>6. ASSUME NEW k \in KernelStops PROVE j <= k
  <2>1. CASE At(k) < dir_sector
    <3>1. At(k) \in 0..(dir_sector - 1)
      BY <1>1, <1>4, <2>1
    <3>2. StopsIn(source.dir, At(k)) = {}
      BY <3>1 DEF Stage
    <3> QED BY <1>3, <3>2
  <2>2. CASE At(k) = dir_sector
    BY <1>3, <2>2
  <2>3. CASE At(k) > dir_sector
    <3>1. j - 1 < k - 1
      <4> HIDE DEF At
      <4>1. At(j) < At(k)
        BY <1>1, <1>4, <1>5, <2>3
      <4> USE DEF At
      <4> QED BY <1>1, <1>4, <1>5, <4>1, QuotientGrows
    <3> QED BY <1>4, <1>5, <3>1
  <2> HIDE DEF At
  <2> QED BY <1>1, <1>4, <2>1, <2>2, <2>3
<1>7. First(KernelStops) = j
  <2>1. \A a \in KernelStops : (\A k \in KernelStops : a <= k) => a = j
    BY <1>4, <1>5, <1>6
  <2> QED BY <1>5, <1>6, <2>1 DEF First
<1> QED BY <1>5, <1>7 DEF Kernel
-----------------------------------------------------------------------------
(* What a write of the first n sectors of a request at l changes. *)
LEMMA WrittenChanges ==
  ASSUME NEW l, NEW sectors, NEW n, NEW x \in 0..LAST_SECTOR
  PROVE  /\ x \in l..(l + n - 1) => Written(l, sectors, n)[x] = sectors[x - l + 1]
         /\ x \notin l..(l + n - 1) => Written(l, sectors, n)[x] = disk[x]
  BY DEF Written

LEMMA SamePlace == ASSUME source.same, NEW l PROVE Reaches(l) = {l}
  BY DEF Reaches

(* The tables of a partition take at least its boot sector. *)
LEMMA TablesTakeRoom ==
  ASSUME NEW v, Numbers(v), ValidVbpb(v)
  PROVE  data_start_sector(v) \in Nat \ {0}
<1>1. /\ v.num_fats \in Nat /\ v.num_fats > 0
      /\ v.sectors_per_fat_16 \in Nat /\ v.sectors_per_fat_16 > 0
      /\ v.reserved_sectors \in Nat /\ v.root_entry_count \in Nat
  BY DEF Numbers, ValidVbpb
<1>2. \A a, b \in Nat : a * b \in Nat /\ (a > 0 /\ b > 0 => a * b > 0)
  BY SMT
<1>3. v.num_fats * v.sectors_per_fat_16 \in Nat /\ v.num_fats * v.sectors_per_fat_16 > 0
  BY <1>1, <1>2
<1>4. root_dir_sectors(v) \in Nat
  <2>1. SECTOR_SIZE \in Nat /\ SECTOR_SIZE > 0 /\ DIR_ENTRY_SIZE \in Nat
    BY InstFatAssumption
  <2>2. v.root_entry_count * DIR_ENTRY_SIZE + SECTOR_SIZE - 1 \in Nat
    BY <1>1, <1>2, <2>1
  <2> QED BY <2>1, <2>2, Divide DEF root_dir_sectors
<1> QED BY <1>1, <1>3, <1>4 DEF data_start_sector, root_dir_start_sector, fat_start_sector

(* So the boot record, and the boot sector of the partition, are not in the *)
(* room of the kernel.                                                      *)
LEMMA BootRecordKept ==
  ASSUME DisksGiven, DiskInv, source.same,
         (Usable /\ Partition # NoPartition) \/ (\E l \in 0..LAST_SECTOR : disk[l] # Old)
  PROVE  0 \in 0..LAST_SECTOR /\ disk[0] = Old
<1>1. LAST_SECTOR \in Nat /\ 0 \in 0..LAST_SECTOR /\ ValidVbpb(TEMPLATE)
  BY InstallerAssumption
<1>2. Usable /\ Partition # NoPartition
  BY DEF DiskInv, Passed
<1>3. Partition \in 1..LAST_SECTOR
  BY <1>2 DEF DisksGiven
<1>4. \A v \in {target.vbpb, TEMPLATE} : data_start_sector(v) \in Nat \ {0}
  BY <1>1, <1>2, TablesTakeRoom DEF Usable, DisksGiven
<1>5. ~Room(0)
  <2> DEFINE top == Kernel.size + source.vbpb.sectors_per_cluster - 2
  <2> HIDE DEF top
  <2>1. \A v \in {target.vbpb, TEMPLATE} :
          0 - (Partition + data_start_sector(v)) \notin 0..top
    BY <1>1, <1>3, <1>4
  <2> QED BY <1>1, <1>3, <2>1 DEF Room, top
<1> QED BY <1>1, <1>5 DEF DiskInv

(***************************************************************************)
(* The steps that leave the disk alone.                                    *)
(***************************************************************************)
LEMMA DiskKept ==
  ASSUME InstallInv, UNCHANGED <<media, disk>>
  PROVE  DisksGiven' /\ DiskInv'
<1>1. source' = source /\ Partition' = Partition /\ Passed' = Passed /\ DisksGiven' = DisksGiven
      /\ \A l \in 0..LAST_SECTOR : Room(l)' = Room(l)
  BY MediaKept
<1> QED BY <1>1 DEF InstallInv, DiskInv

LEMMA StoppedKeeps ==
  ASSUME InstallInv, UNCHANGED <<media, disk, copied, dir_sector>>,
         at' \in {"end", "fault", "overrun"}
  PROVE  InstallInv'
<1>1. DisksGiven' /\ DiskInv' /\ source' = source
  BY DiskKept, MediaKept
<1>2. Stage'
  BY <1>1 DEF InstallInv, Stage, AfterSource, AfterFind, AfterMbr, AfterTarget
<1> QED BY <1>1, <1>2 DEF InstallInv

LEMMA EasySteps ==
  ASSUME InstallInv,
         PressKey \/ GetTargetParams \/ GetSourceParams \/ ReadSourceVbpb \/ End
  PROVE  InstallInv'
<1>1. /\ UNCHANGED <<media, disk, search, copied>>
      /\ at' \notin AfterFind /\ (at' \in AfterSource => Volume)
  BY DEF PressKey, GetTargetParams, GetSourceParams, ReadSourceVbpb, End, Fail, copying, search,
         Volume, AfterSource, AfterFind, AfterMbr, AfterTarget
<1>2. DisksGiven' /\ DiskInv'
  BY <1>1, DiskKept
<1>3. Volume' = Volume /\ source' = source /\ dir_sector' = dir_sector
  BY <1>1, MediaKept DEF search
<1>4. Stage'
  BY <1>1, <1>3 DEF InstallInv, Stage, AfterSource, AfterFind, AfterMbr, AfterTarget
<1> QED BY <1>2, <1>4 DEF InstallInv
LEMMA FindFileKeeps == ASSUME InstallInv, FindFile PROVE InstallInv'
<1>1. UNCHANGED <<media, disk, copied>> /\ Volume
  BY DEF FindFile, copying, InstallInv, Stage, AfterSource
<1>2. DisksGiven' /\ DiskInv'
  BY <1>1, DiskKept
<1>3. /\ source' = source /\ Volume' = Volume /\ HasKernel' = HasKernel /\ Kernel' = Kernel
  BY <1>1, MediaKept
<1>4. CASE at' = "end" /\ UNCHANGED search
  BY <1>1, <1>4, StoppedKeeps DEF search
<1>5. CASE StopsIn(source.dir, dir_sector) = {} /\ dir_sector' = dir_sector + 1 /\ at' = "find"
  <2>1. dir_sector \in Nat /\ \A i \in 0..(dir_sector - 1) : StopsIn(source.dir, i) = {}
    BY DEF InstallInv, Stage
  <2>2. dir_sector' \in Nat /\ \A i \in 0..(dir_sector' - 1) : StopsIn(source.dir, i) = {}
    <3>1. \A i \in 0..(dir_sector' - 1) : i \in 0..(dir_sector - 1) \/ i = dir_sector
      BY <1>5, <2>1
    <3> QED BY <1>5, <2>1, <3>1
  <2> QED BY <1>1, <1>2, <1>3, <1>5, <2>2
          DEF InstallInv, Stage, AfterSource, AfterFind, AfterMbr, AfterTarget
<1>6. ASSUME NEW j \in StopsIn(source.dir, dir_sector),
             \A k \in StopsIn(source.dir, dir_sector) : j <= k,
             IsKernel(source.dir[j]), source.dir[j].first # 0, source.dir[j].size # 0,
             file' = [first |-> source.dir[j].first, size |-> source.dir[j].size],
             at' = "mbr", dir_sector' = dir_sector
      PROVE  InstallInv'
  <2>1. KernelStops # {} /\ Kernel = source.dir[j]
    BY <1>6, FoundFirst DEF InstallInv
  <2>2. HasKernel /\ file'.size = Kernel.size
    BY <1>6, <2>1 DEF HasKernel
  <2>3. Kernel.size \in Nat
    BY <2>1 DEF StopsIn, Stops, InstallInv, DisksGiven
  <2> QED BY <1>1, <1>2, <1>3, <1>6, <2>2, <2>3
          DEF InstallInv, Stage, AfterSource, AfterFind, AfterMbr, AfterTarget
<1>7. CASE at' = "find" /\ UNCHANGED search
  BY <1>1, <1>2, <1>3, <1>7
  DEF InstallInv, Stage, AfterSource, AfterFind, AfterMbr, AfterTarget, search
<1>8. CASE /\ StopsIn(source.dir, dir_sector) = {}
           /\ dir_sector' = dir_sector + 1
           /\ UNCHANGED <<at, outcome, file>>
  BY <1>5, <1>8 DEF FindFile
<1>9. CASE /\ \E j \in StopsIn(source.dir, dir_sector) :
                /\ \A k \in StopsIn(source.dir, dir_sector) : j <= k
                /\ IsKernel(source.dir[j]) /\ source.dir[j].first # 0 /\ source.dir[j].size # 0
                /\ file' = [first |-> source.dir[j].first, size |-> source.dir[j].size]
           /\ at' = "mbr" /\ dir_sector' = dir_sector
  BY <1>6, <1>9
<1> QED BY <1>2, <1>4, <1>8, <1>9 DEF FindFile, Fail, InstallInv

LEMMA ParseMbrKeeps == ASSUME InstallInv, ParseMbr PROVE InstallInv'
<1>1. UNCHANGED <<media, disk, copied, search, vbpb>> /\ Volume /\ HasKernel
      /\ file.size = Kernel.size /\ Kernel.size \in Nat
  BY DEF ParseMbr, copying, InstallInv, Stage, AfterSource, AfterFind
<1>2. DisksGiven' /\ DiskInv'
  BY <1>1, DiskKept
<1>3. /\ source' = source /\ Volume' = Volume /\ HasKernel' = HasKernel /\ Kernel' = Kernel
      /\ Partition' = Partition
  BY <1>1, MediaKept
<1>4. CASE at' = "end"
  BY <1>1, <1>4, StoppedKeeps DEF search
<1>5. CASE /\ partition' \in IF disk[0] = Old THEN {FindPartition(target.mbr)} \ {NoPartition}
                                              ELSE 0..LAST_SECTOR
           /\ at' = "target_vbpb"
  <2>1. 0 \in 0..LAST_SECTOR
    BY InstallerAssumption
  <2>2. Partition # NoPartition /\ partition' \in 0..LAST_SECTOR
        /\ (source.same => partition' = Partition)
    <3>1. CASE disk[0] = Old
      <4>1. partition' = Partition /\ Partition # NoPartition
        BY <1>5, <3>1 DEF Partition
      <4> QED BY <4>1, InstallerAssumption DEF InstallInv, DisksGiven
    <3>2. CASE disk[0] # Old
      <4>1. partition' \in 0..LAST_SECTOR
        BY <1>5, <3>2
      <4>2. Passed
        BY <2>1, <3>2 DEF InstallInv, DiskInv
      <4>3. ~source.same
        BY <2>1, <3>2, BootRecordKept DEF InstallInv
      <4> QED BY <4>1, <4>2, <4>3 DEF Passed
    <3> QED BY <3>1, <3>2
  <2> QED BY <1>1, <1>2, <1>3, <1>5, <2>2
          DEF InstallInv, Stage, AfterSource, AfterFind, AfterMbr, AfterTarget, search
<1> QED BY <1>2, <1>4, <1>5 DEF ParseMbr, Fail, InstallInv

LEMMA ReadTargetVbpbKeeps == ASSUME InstallInv, ReadTargetVbpb PROVE InstallInv'
<1>1. /\ UNCHANGED <<media, disk, copied, search, partition>>
      /\ Volume /\ HasKernel /\ file.size = Kernel.size /\ Kernel.size \in Nat
      /\ Partition # NoPartition /\ partition \in 0..LAST_SECTOR
      /\ source.same => partition = Partition
  BY DEF ReadTargetVbpb, copying, InstallInv, Stage, AfterSource, AfterFind, AfterMbr
<1>2. DisksGiven' /\ DiskInv'
  BY <1>1, DiskKept
<1>3. /\ source' = source /\ Volume' = Volume /\ HasKernel' = HasKernel /\ Kernel' = Kernel
      /\ Partition' = Partition /\ target' = target /\ Usable' = Usable
  BY <1>1, MediaKept
<1>4. CASE at' \in {"end", "fault"}
  BY <1>1, <1>4, StoppedKeeps DEF search
<1>5. ASSUME NEW l \in Reaches(partition), vbpb' \in VbpbsAt(l), ValidVbpb(vbpb'),
             Divides(vbpb'), at' = "boot"
      PROVE  Stage'
  <2>1. Usable /\ (source.same => vbpb' \in {target.vbpb, TEMPLATE})
    <3> SUFFICES ASSUME source.same
                 PROVE  /\ ValidVbpb(target.vbpb) /\ Divides(target.vbpb)
                        /\ vbpb' \in {target.vbpb, TEMPLATE}
      BY DEF Usable
    <3>1. l = partition /\ partition = Partition /\ l \in 0..LAST_SECTOR
      BY <1>1, <1>5, SamePlace
    <3>2. CASE disk[l] = Old
      <4>1. disk[l].kind # "boot"
        BY <3>2 DEF Old
      <4>2. VbpbsAt(l) = {target.vbpb}
        BY <3>1, <3>2, <4>1, Zenon DEF VbpbsAt
      <4> QED BY <1>5, <4>2
    <3>3. CASE disk[l] # Old
      <4>1. disk[l].kind = "boot"
        BY <3>1, <3>3 DEF InstallInv, DiskInv
      <4>2. VbpbsAt(l) = {TEMPLATE}
        BY <3>3, <4>1, Zenon DEF VbpbsAt
      <4>3. Passed
        BY <3>1, <3>3 DEF InstallInv, DiskInv
      <4> QED BY <1>5, <4>2, <4>3 DEF Passed, Usable
    <3> QED BY <3>2, <3>3
  <2> QED BY <1>1, <1>3, <1>5, <2>1
          DEF InstallInv, Stage, AfterSource, AfterFind, AfterMbr, AfterTarget, search
<1>6. CASE \E l \in Reaches(partition) :
             /\ vbpb' \in VbpbsAt(l) /\ ValidVbpb(vbpb')
             /\ at' = IF Divides(vbpb') THEN "boot" ELSE "fault"
  BY <1>2, <1>4, <1>5, <1>6 DEF InstallInv
<1> QED BY <1>2, <1>4, <1>6 DEF ReadTargetVbpb, Fail, InstallInv

LEMMA ReadClusterKeeps == ASSUME InstallInv, ReadCluster PROVE InstallInv'
<1>1. UNCHANGED <<media, disk, copied, search, place>> /\ at = "read"
  BY DEF ReadCluster
<1>2. DisksGiven' /\ DiskInv'
  BY <1>1, DiskKept
<1>3. /\ source' = source /\ target' = target /\ Volume' = Volume /\ HasKernel' = HasKernel
      /\ Kernel' = Kernel /\ Partition' = Partition /\ Usable' = Usable
  BY <1>1, MediaKept
<1>4. CASE at' \in {"end", "overrun"}
  BY <1>1, <1>4, StoppedKeeps DEF search
<1>5. CASE /\ buffer' = [i \in 1..source.vbpb.sectors_per_cluster |->
                           Data(cluster_to_lba(source.vbpb, current_cluster) + i - 1)]
           /\ at' = "write"
  <2>1. Len(buffer') = source.vbpb.sectors_per_cluster
    BY <1>5 DEF InstallInv, DisksGiven
  <2> QED BY <1>1, <1>2, <1>3, <1>5, <2>1
          DEF InstallInv, Stage, AfterSource, AfterFind, AfterMbr, AfterTarget, search, place
<1> QED BY <1>2, <1>4, <1>5 DEF ReadCluster, Fail, InstallInv

LEMMA NextClusterKeeps == ASSUME InstallInv, NextCluster PROVE InstallInv'
<1>1. UNCHANGED <<media, disk, copied, search, place, buffer>> /\ at = "next"
  BY DEF NextCluster
<1>2. DisksGiven' /\ DiskInv'
  BY <1>1, DiskKept
<1>3. /\ source' = source /\ target' = target /\ Volume' = Volume /\ HasKernel' = HasKernel
      /\ Kernel' = Kernel /\ Partition' = Partition /\ Usable' = Usable
  BY <1>1, MediaKept
<1>4. CASE at' = "end"
  BY <1>1, <1>4, StoppedKeeps DEF search
<1>5. CASE at' = "read" /\ ~(copied >= file.size)
  <2>1. copied < Kernel.size
    <3>1. Kernel.size \in Nat /\ file.size = Kernel.size /\ copied \in Nat
      BY <1>1 DEF InstallInv, Stage, AfterFind, AfterMbr, AfterTarget
    <3> QED BY <1>5, <3>1
  <2> QED BY <1>1, <1>2, <1>3, <1>5, <2>1
          DEF InstallInv, Stage, AfterSource, AfterFind, AfterMbr, AfterTarget, search, place
<1>6. at' = "end" \/ (at' = "read" /\ ~(copied >= file.size))
  BY DEF NextCluster, LoopEnds
<1> QED BY <1>2, <1>4, <1>5, <1>6 DEF InstallInv
(***************************************************************************)
(* The two writes, whole or cut short.                                     *)
(***************************************************************************)
LEMMA BootWritten ==
  ASSUME InstallInv, at = "boot", UNCHANGED media,
         NEW l \in Reaches(partition), NEW n \in {0, 1}, disk' = Written(l, <<BootSector>>, n)
  PROVE  DisksGiven' /\ DiskInv'
<1>1. /\ source' = source /\ Partition' = Partition /\ Passed' = Passed /\ DisksGiven' = DisksGiven
      /\ \A x \in 0..LAST_SECTOR : Room(x)' = Room(x)
  BY MediaKept
<1>2. Passed
  BY DEF InstallInv, Stage, Passed, AfterSource, AfterFind, AfterMbr, AfterTarget
<1>3. \A x \in 0..LAST_SECTOR :
        /\ x \in l..(l + n - 1) => disk'[x] = <<BootSector>>[x - l + 1]
        /\ x \notin l..(l + n - 1) => disk'[x] = disk[x]
  BY WrittenChanges
<1>4. ASSUME source.same
      PROVE  /\ \A x \in 0..LAST_SECTOR : disk'[x] # Old => Room(x)
             /\ disk'[Partition] = Old \/ disk'[Partition].kind = "boot"
  <2>1. l = Partition /\ Partition \in 0..LAST_SECTOR
    BY <1>4, SamePlace DEF InstallInv, Stage, AfterMbr, AfterTarget
  <2>2. \A x \in 0..LAST_SECTOR : x = Partition \/ disk'[x] = disk[x]
    BY <1>3, <2>1
  <2>3. disk'[Partition] = disk[Partition] \/ disk'[Partition] = BootSector
    <3>1. CASE Partition \in l..(l + n - 1)
      BY <1>3, <2>1, <3>1
    <3> QED BY <1>3, <2>1, <3>1
  <2>4. BootSector.kind = "boot"
    BY DEF BootSector, Boot
  <2>5. Room(Partition)
    BY DEF Room
  <2> QED BY <1>4, <2>1, <2>2, <2>3, <2>4, <2>5 DEF InstallInv, DiskInv
<1> QED BY <1>1, <1>2, <1>4 DEF InstallInv, DiskInv

LEMMA ClusterWritten ==
  ASSUME InstallInv, at = "write", UNCHANGED media,
         NEW l \in Reaches(kernel_target_lba + copied), NEW n \in 0..Len(buffer),
         disk' = Written(l, buffer, n)
  PROVE  DisksGiven' /\ DiskInv'
<1>1. /\ source' = source /\ Partition' = Partition /\ Passed' = Passed /\ DisksGiven' = DisksGiven
      /\ \A x \in 0..LAST_SECTOR : Room(x)' = Room(x)
  BY MediaKept
<1>2. Passed
  BY DEF InstallInv, Stage, Passed, AfterSource, AfterFind, AfterMbr, AfterTarget
<1>3. \A x \in 0..LAST_SECTOR : x \notin l..(l + n - 1) => disk'[x] = disk[x]
  BY WrittenChanges
<1>4. ASSUME source.same
      PROVE  /\ \A x \in 0..LAST_SECTOR : disk'[x] # Old => Room(x)
             /\ disk'[Partition] = Old \/ disk'[Partition].kind = "boot"
  <2>1. /\ partition = Partition /\ Partition \in 0..LAST_SECTOR
        /\ vbpb \in {target.vbpb, TEMPLATE} /\ ValidVbpb(vbpb)
        /\ copied \in Nat /\ copied < Kernel.size /\ Kernel.size \in Nat
        /\ Len(buffer) = source.vbpb.sectors_per_cluster
    BY <1>4 DEF InstallInv, Stage, AfterFind, AfterMbr, AfterTarget
  <2>2. data_start_sector(vbpb) \in Nat \ {0} /\ source.vbpb.sectors_per_cluster \in Nat
    BY <2>1, TablesTakeRoom DEF InstallInv, DisksGiven
  <2> DEFINE d == data_start_sector(vbpb)
  <2>3. l = Partition + d + copied
    BY <1>4, <2>1, SamePlace DEF kernel_target_lba, kernel_start_lba_in_partition
  <2> HIDE DEF d
  <2>4. d \in Nat \ {0}
    BY <2>2 DEF d
  <2>5. \A x \in l..(l + n - 1) :
          x - (Partition + d) \in 0..(Kernel.size + source.vbpb.sectors_per_cluster - 2)
    BY <2>1, <2>2, <2>3, <2>4
  <2>6. \A x \in l..(l + n - 1) : Room(x)
    BY <2>1, <2>5 DEF Room, d
  <2>7. Partition \notin l..(l + n - 1)
    BY <2>1, <2>2, <2>3, <2>4
  <2> QED BY <1>3, <1>4, <2>1, <2>6, <2>7 DEF InstallInv, DiskInv
<1> QED BY <1>1, <1>2, <1>4 DEF InstallInv, DiskInv

LEMMA WriteBootSectorKeeps == ASSUME InstallInv, WriteBootSector PROVE InstallInv'
<1>1. UNCHANGED <<media, search, place>> /\ at = "boot" /\ copied' = 0
  BY DEF WriteBootSector
<1>2. DisksGiven' /\ DiskInv'
  BY <1>1, BootWritten DEF WriteBootSector
<1>3. /\ source' = source /\ target' = target /\ Volume' = Volume /\ HasKernel' = HasKernel
      /\ Kernel' = Kernel /\ Partition' = Partition /\ Usable' = Usable
  BY <1>1, MediaKept
<1>4. HasKernel /\ Kernel.size \in Nat
  BY <1>1 DEF InstallInv, Stage, AfterFind, AfterMbr, AfterTarget
<1>5. copied' \in Nat /\ copied' < Kernel.size
  BY <1>1, <1>4 DEF HasKernel
<1>6. at' \in {"end", "read"}
  BY DEF WriteBootSector, Fail
<1>7. Stage'
  BY <1>1, <1>3, <1>5, <1>6
  DEF InstallInv, Stage, AfterSource, AfterFind, AfterMbr, AfterTarget, search, place
<1> QED BY <1>2, <1>7 DEF InstallInv

LEMMA WriteClusterKeeps == ASSUME InstallInv, WriteCluster PROVE InstallInv'
<1>1. UNCHANGED <<media, search, place, buffer>> /\ at = "write"
  BY DEF WriteCluster
<1>2. Len(buffer) \in Nat
  BY <1>1 DEF InstallInv, Stage, DisksGiven
<1>3. \E l \in Reaches(kernel_target_lba + copied), n \in 0..Len(buffer) :
        disk' = Written(l, buffer, n)
  <2>1. Len(buffer) \in 0..Len(buffer)
    BY <1>2
  <2> QED BY <2>1 DEF WriteCluster
<1>4. DisksGiven' /\ DiskInv'
  BY <1>1, <1>3, ClusterWritten
<1>5. /\ source' = source /\ target' = target /\ Volume' = Volume /\ HasKernel' = HasKernel
      /\ Kernel' = Kernel /\ Partition' = Partition /\ Usable' = Usable
  BY <1>1, MediaKept
<1>6. copied' \in Nat /\ at' \in {"end", "next"}
  BY <1>2 DEF WriteCluster, Fail, Advance, InstallInv, Stage
<1>7. Stage'
  BY <1>1, <1>5, <1>6
  DEF InstallInv, Stage, AfterSource, AfterFind, AfterMbr, AfterTarget, search, place
<1> QED BY <1>4, <1>7 DEF InstallInv

LEMMA PowerCutKeeps == ASSUME InstallInv, PowerCut PROVE InstallInv'
<1>1. UNCHANGED <<media, search, copied>> /\ at' = "off"
  BY DEF PowerCut, copying
<1>2. DisksGiven' /\ DiskInv'
  <2>1. CASE UNCHANGED disk
    BY <1>1, <2>1, DiskKept
  <2>2. CASE at = "boot" /\ \E l \in Reaches(partition) : disk' = Written(l, <<BootSector>>, 1)
    BY <1>1, <2>2, BootWritten
  <2>3. CASE at = "write" /\ \E l \in Reaches(kernel_target_lba + copied), n \in 1..Len(buffer) :
                                disk' = Written(l, buffer, n)
    <3>1. Len(buffer) \in Nat
      BY <2>3 DEF InstallInv, Stage, DisksGiven
    <3>2. \E l \in Reaches(kernel_target_lba + copied), n \in 0..Len(buffer) :
            disk' = Written(l, buffer, n)
      BY <2>3, <3>1
    <3> QED BY <1>1, <2>3, <3>2, ClusterWritten
  <2> QED BY <2>1, <2>2, <2>3 DEF PowerCut
<1>3. source' = source
  BY <1>1, MediaKept
<1>4. Stage'
  BY <1>1, <1>3
  DEF InstallInv, Stage, AfterSource, AfterFind, AfterMbr, AfterTarget, search
<1> QED BY <1>2, <1>4 DEF InstallInv

(* The program begins again, on the disk an earlier run has left. *)
LEMMA RestartKeeps == ASSUME InstallInv, Restart PROVE InstallInv'
<1>1. UNCHANGED <<media, disk>> /\ at' = "start" /\ copied' = 0 /\ dir_sector' = 0
  BY DEF Restart
<1>2. DisksGiven' /\ DiskInv'
  BY <1>1, DiskKept
<1>3. Stage'
  BY <1>1 DEF Stage, AfterSource, AfterFind, AfterMbr, AfterTarget
<1> QED BY <1>2, <1>3 DEF InstallInv

LEMMA InstallInductive == InstallInv /\ [InstallNext]_installVars => InstallInv'
<1> SUFFICES ASSUME InstallInv, [InstallNext]_installVars PROVE InstallInv'
  OBVIOUS
<1>1. CASE PressKey \/ GetTargetParams \/ GetSourceParams \/ ReadSourceVbpb \/ End
  BY <1>1, EasySteps
<1>2. CASE FindFile
  BY <1>2, FindFileKeeps
<1>3. CASE ParseMbr
  BY <1>3, ParseMbrKeeps
<1>4. CASE ReadTargetVbpb
  BY <1>4, ReadTargetVbpbKeeps
<1>5. CASE WriteBootSector
  BY <1>5, WriteBootSectorKeeps
<1>6. CASE ReadCluster
  BY <1>6, ReadClusterKeeps
<1>7. CASE WriteCluster
  BY <1>7, WriteClusterKeeps
<1>8. CASE NextCluster
  BY <1>8, NextClusterKeeps
<1>9. CASE PowerCut
  BY <1>9, PowerCutKeeps
<1>10. CASE Restart
  BY <1>10, RestartKeeps
<1>11. CASE UNCHANGED installVars
  <2>1. UNCHANGED <<media, disk, at, file, partition, vbpb, copied, buffer, dir_sector>>
    BY <1>11 DEF installVars, search, place, copying
  <2>2. DisksGiven' /\ DiskInv'
    BY <2>1, DiskKept
  <2>3. /\ source' = source /\ target' = target /\ Volume' = Volume /\ HasKernel' = HasKernel
        /\ Kernel' = Kernel /\ Partition' = Partition /\ Usable' = Usable
    BY <2>1, MediaKept
  <2>4. Stage'
    BY <2>1, <2>3 DEF InstallInv, Stage
  <2> QED BY <2>2, <2>4 DEF InstallInv
<1> QED
  BY <1>1, <1>2, <1>3, <1>4, <1>5, <1>6, <1>7, <1>8, <1>9, <1>10, <1>11 DEF InstallNext, Program

(* For any two disks with numbers where numbers belong, and any number of   *)
(* runs, failures and power cuts: nothing is written before the checks have *)
(* passed, and on a target of the source's geometry nothing outside the     *)
(* boot sector of the partition and the room of the kernel, so that another *)
(* run still finds the partition and boot parameters it can use.            *)
THEOREM InstallerKeepsItsRoom ==
  ASSUME NEW s, NEW t
  PROVE  Medium(s, t) /\ DisksGiven /\ [][InstallNext]_installVars
           => [](ChecksFirst /\ OnlyItsRoom /\ CanRunAgain)
<1>1. Medium(s, t) /\ DisksGiven => InstallInv
  <2> SUFFICES ASSUME Medium(s, t), DisksGiven PROVE InstallInv
    OBVIOUS
  <2>1. /\ disk = [l \in 0..LAST_SECTOR |-> Old]
        /\ at = "start" /\ copied = 0 /\ dir_sector = 0
    BY DEF Medium, Start
  <2>2. Stage
    BY <2>1 DEF Stage, AfterSource, AfterFind, AfterMbr, AfterTarget
  <2>3. DiskInv
    BY <2>1 DEF DiskInv
  <2> QED BY <2>2, <2>3 DEF InstallInv
<1>2. InstallInv => ChecksFirst /\ OnlyItsRoom
  BY DEF InstallInv, DiskInv, Passed, Volume, HasKernel, Usable, Room, ChecksFirst, OnlyItsRoom
<1>3. InstallInv => CanRunAgain
  <2> SUFFICES ASSUME InstallInv, source.same, NEW l \in 0..LAST_SECTOR, disk[l] # Old
               PROVE  disk[0] = Old /\ (disk[Partition] = Old \/ disk[Partition].kind = "boot")
    BY DEF CanRunAgain
  <2>1. disk[0] = Old
    BY BootRecordKept DEF InstallInv
  <2>2. Partition \in 0..LAST_SECTOR
    BY DEF InstallInv, DisksGiven, DiskInv, Passed
  <2> QED BY <2>1, <2>2 DEF InstallInv, DiskInv
<1> QED BY <1>1, <1>2, <1>3, InstallInductive, PTL
(***************************************************************************)
(* Types.  More is assumed of the disks: what the copying reads of them is  *)
(* numbers, and an entry of a FAT one of its values.                        *)
(***************************************************************************)
ChainsGiven ==
  /\ Numbers(source.vbpb)
  /\ source.fat \in [0..LAST_CLUSTER -> FatValues]
  /\ \A j \in DOMAIN source.dir : source.dir[j].first \in 0..BAD
  /\ \A v \in Vbpbs : Numbers(v)

TypeInv == DisksGiven /\ ChainsGiven /\ InstallTypeOK /\ Numbers(vbpb)

Sector == [kind : {"old", "boot", "data"}, lba : Nat, size : Nat]
Copies == [kind : {"data"}, lba : Nat, size : {0}]

LEMMA DataStart ==
  ASSUME NEW v, Numbers(v)
  PROVE  data_start_sector(v) \in Nat /\ root_dir_sectors(v) \in Nat
<1>1. /\ v.num_fats \in Nat /\ v.sectors_per_fat_16 \in Nat
      /\ v.reserved_sectors \in Nat /\ v.root_entry_count \in Nat
  BY DEF Numbers
<1>2. \A a, b \in Nat : a * b \in Nat
  OBVIOUS
<1>3. SECTOR_SIZE \in Nat /\ SECTOR_SIZE > 0 /\ DIR_ENTRY_SIZE \in Nat
  BY InstFatAssumption
<1>4. v.root_entry_count * DIR_ENTRY_SIZE + SECTOR_SIZE - 1 \in Nat
  BY <1>1, <1>2, <1>3
<1>5. root_dir_sectors(v) \in Nat
  BY <1>3, <1>4, Divide DEF root_dir_sectors
<1>6. v.num_fats * v.sectors_per_fat_16 \in Nat
  BY <1>1, <1>2
<1> QED BY <1>1, <1>5, <1>6 DEF data_start_sector, root_dir_start_sector, fat_start_sector

LEMMA ClusterPlace ==
  ASSUME DisksGiven, ChainsGiven, NEW c \in Nat
  PROVE  cluster_to_lba(source.vbpb, c) \in Nat
<1>1. data_start_sector(source.vbpb) \in Nat /\ source.vbpb.sectors_per_cluster \in Nat
  BY DataStart DEF DisksGiven, ChainsGiven
<1>2. \A a, b \in Nat : a * b \in Nat
  OBVIOUS
<1>3. c >= 2 => (c - 2) * source.vbpb.sectors_per_cluster \in Nat
  BY <1>1, <1>2
<1> QED BY <1>1, <1>3 DEF cluster_to_lba

LEMMA FatSectorType ==
  ASSUME ChainsGiven, NEW c \in Nat
  PROVE  FatSector(source.vbpb, c) \in Nat
<1>1. source.vbpb.reserved_sectors \in Nat
  BY DEF ChainsGiven, Numbers
<1>2. c \div 2 \in Nat
  BY Divide
<1>3. FatOffset(source.vbpb, c) \in Nat
  BY <1>2 DEF FatOffset
<1>4. FatOffset(source.vbpb, c) \div SECTOR_SIZE \in Nat
  BY <1>3, Divide, InstFatAssumption
<1> QED BY <1>1, <1>4 DEF FatSector, fat_start_sector

LEMMA ChainsKept == ASSUME UNCHANGED media PROVE ChainsGiven' = ChainsGiven
  BY DEF media, ChainsGiven

LEMMA WrittenType ==
  ASSUME disk \in [0..LAST_SECTOR -> Sector], NEW sectors \in Seq(Sector),
         NEW n \in 0..Len(sectors), NEW l \in Int
  PROVE  Written(l, sectors, n) \in [0..LAST_SECTOR -> Sector]
<1>1. ASSUME NEW x \in 0..LAST_SECTOR, x \in l..(l + n - 1)
      PROVE  sectors[x - l + 1] \in Sector
  <2>1. x - l + 1 \in 1..Len(sectors)
    BY <1>1, InstallerAssumption
  <2> QED BY <2>1
<1>2. \A x \in 0..LAST_SECTOR : disk[x] \in Sector
  OBVIOUS
<1> HIDE DEF Sector
<1> QED BY <1>1, <1>2 DEF Written

LEMMA ReachesType == ASSUME NEW l \in Int PROVE Reaches(l) \subseteq Int
  BY InstallerAssumption DEF Reaches

(* The types, with the sets of sectors under their names. *)
LEMMA TypeParts ==
  InstallTypeOK <=>
    /\ disk \in [0..LAST_SECTOR -> Sector]
    /\ outcome \in {"none", "ok", "failed"} /\ geometry \in {"none", "source", "target"}
    /\ file \in [first : 0..BAD, size : Nat]
    /\ partition \in 0..LAST_SECTOR /\ ValidVbpb(vbpb)
    /\ copied \in Nat /\ current_cluster \in 0..BAD
    /\ buffer \in Seq(Copies)
    /\ fat_cache \in Nat \cup {NoSector} /\ dir_sector \in Nat /\ reboots \in Nat
  BY DEF InstallTypeOK, Sector, Copies

LEMMA TypePartsNext ==
  InstallTypeOK' <=>
    /\ disk' \in [0..LAST_SECTOR -> Sector]
    /\ outcome' \in {"none", "ok", "failed"} /\ geometry' \in {"none", "source", "target"}
    /\ file' \in [first : 0..BAD, size : Nat]
    /\ partition' \in 0..LAST_SECTOR /\ ValidVbpb(vbpb')
    /\ copied' \in Nat /\ current_cluster' \in 0..BAD
    /\ buffer' \in Seq(Copies)
    /\ fat_cache' \in Nat \cup {NoSector} /\ dir_sector' \in Nat /\ reboots' \in Nat
  BY DEF InstallTypeOK, Sector, Copies

LEMMA GivenKept ==
  ASSUME TypeInv, UNCHANGED media
  PROVE  DisksGiven' /\ ChainsGiven'
  BY MediaKept, ChainsKept DEF TypeInv

(* What the steps write. *)
LEMMA BootSectorType == ASSUME TypeInv PROVE <<BootSector>> \in Seq(Sector)
<1>1. data_start_sector(vbpb) \in Nat /\ file.size \in Nat
  BY DataStart DEF TypeInv, InstallTypeOK
<1>2. BootSector \in Sector
  BY <1>1 DEF BootSector, Boot, kernel_start_lba_in_partition, Sector
<1> HIDE DEF Sector
<1> QED BY <1>2

LEMMA BufferType == ASSUME TypeInv PROVE buffer \in Seq(Sector) /\ Len(buffer) \in Nat
<1>1. buffer \in Seq(Copies)
  BY TypeParts DEF TypeInv
<1>2. Copies \subseteq Sector
  BY DEF Copies, Sector
<1> HIDE DEF Copies, Sector
<1> QED BY <1>1, <1>2

LEMMA PlacesType ==
  ASSUME TypeInv
  PROVE  /\ partition \in Nat /\ kernel_start_lba_in_partition \in Nat
         /\ kernel_target_lba \in Nat /\ copied \in Nat
         /\ kernel_target_lba = partition + kernel_start_lba_in_partition
         /\ Reaches(partition) \subseteq Int /\ Reaches(kernel_target_lba + copied) \subseteq Int
<1>1. partition \in Nat /\ copied \in Nat /\ data_start_sector(vbpb) \in Nat
  BY DataStart, InstallerAssumption DEF TypeInv, InstallTypeOK
<1>2. /\ kernel_start_lba_in_partition \in Nat /\ kernel_target_lba \in Nat
      /\ kernel_target_lba = partition + kernel_start_lba_in_partition
  BY <1>1 DEF kernel_start_lba_in_partition, kernel_target_lba
<1> QED BY <1>1, <1>2, ReachesType

LEMMA ChecksType ==
  ASSUME TypeInv, PressKey \/ GetTargetParams \/ GetSourceParams \/ ReadSourceVbpb \/ End
  PROVE  TypeInv'
<1>1. /\ UNCHANGED <<media, disk, search, place, copied, current_cluster, buffer, reboots>>
      /\ outcome' \in {outcome, "failed"} /\ geometry' \in {geometry, "none", "source", "target"}
      /\ fat_cache' \in {fat_cache, NoSector}
  BY DEF PressKey, GetTargetParams, GetSourceParams, ReadSourceVbpb, End, Fail, copying
<1>2. DisksGiven' /\ ChainsGiven'
  BY <1>1, GivenKept
<1>3. vbpb' = vbpb
  BY <1>1 DEF place
<1>4. InstallTypeOK'
  BY <1>1, TypeParts, TypePartsNext DEF TypeInv, search, place
<1> QED BY <1>2, <1>3, <1>4 DEF TypeInv

LEMMA FindFileType == ASSUME TypeInv, FindFile PROVE TypeInv'
<1>1. UNCHANGED <<media, disk, geometry, place, copying, reboots>>
      /\ outcome' \in {outcome, "failed"}
  BY DEF FindFile, Fail
<1>2. DisksGiven' /\ ChainsGiven'
  BY <1>1, GivenKept
<1>3. dir_sector' \in Nat
  BY DEF FindFile, search, TypeInv, InstallTypeOK
<1>4. file' \in [first : 0..BAD, size : Nat]
  <2>1. CASE UNCHANGED file
    BY <2>1 DEF TypeInv, InstallTypeOK
  <2>2. ASSUME NEW j \in StopsIn(source.dir, dir_sector),
               file' = [first |-> source.dir[j].first, size |-> source.dir[j].size]
        PROVE  file' \in [first : 0..BAD, size : Nat]
    <3>1. j \in DOMAIN source.dir
      BY DEF StopsIn, Stops
    <3> QED BY <2>2, <3>1 DEF TypeInv, DisksGiven, ChainsGiven
  <2> QED BY <2>1, <2>2 DEF FindFile, search
<1>5. vbpb' = vbpb
  BY <1>1 DEF place
<1>6. InstallTypeOK'
  BY <1>1, <1>3, <1>4, TypeParts, TypePartsNext DEF TypeInv, place, copying
<1> QED BY <1>2, <1>5, <1>6 DEF TypeInv

LEMMA ParseMbrType == ASSUME TypeInv, ParseMbr PROVE TypeInv'
<1>1. UNCHANGED <<media, disk, geometry, search, vbpb, copying, reboots>>
      /\ outcome' \in {outcome, "failed"}
  BY DEF ParseMbr, Fail
<1>2. DisksGiven' /\ ChainsGiven'
  BY <1>1, GivenKept
<1>3. partition' \in 0..LAST_SECTOR
  <2>1. Partition \in (1..LAST_SECTOR) \cup {NoPartition}
    BY DEF TypeInv, DisksGiven
  <2>2. partition' = partition \/ (partition' = Partition /\ partition' # NoPartition)
        \/ partition' \in 0..LAST_SECTOR
    BY DEF ParseMbr, Partition
  <2>3. partition \in 0..LAST_SECTOR
    BY DEF TypeInv, InstallTypeOK
  <2>4. (1..LAST_SECTOR) \subseteq 0..LAST_SECTOR
    BY InstallerAssumption
  <2> QED BY <2>1, <2>2, <2>3, <2>4
<1>4. InstallTypeOK'
  BY <1>1, <1>3, TypeParts, TypePartsNext DEF TypeInv, search, copying
<1> QED BY <1>1, <1>2, <1>4 DEF TypeInv

LEMMA ReadTargetVbpbType == ASSUME TypeInv, ReadTargetVbpb PROVE TypeInv'
<1>1. UNCHANGED <<media, disk, geometry, search, partition, copying, reboots>>
      /\ outcome' \in {outcome, "failed"}
  BY DEF ReadTargetVbpb, Fail
<1>2. DisksGiven' /\ ChainsGiven'
  BY <1>1, GivenKept
<1>3. ValidVbpb(vbpb') /\ Numbers(vbpb')
  <2>1. CASE vbpb' = vbpb
    BY <2>1 DEF TypeInv, InstallTypeOK
  <2>2. ASSUME NEW l, vbpb' \in VbpbsAt(l), ValidVbpb(vbpb')
        PROVE  ValidVbpb(vbpb') /\ Numbers(vbpb')
    <3>1. vbpb' \in {TEMPLATE, target.vbpb} \cup Vbpbs
      BY <2>2 DEF VbpbsAt
    <3> QED BY <2>2, <3>1 DEF TypeInv, DisksGiven, ChainsGiven
  <2> QED BY <2>1, <2>2 DEF ReadTargetVbpb
<1>4. InstallTypeOK'
  BY <1>1, <1>3, TypeParts, TypePartsNext DEF TypeInv, search, copying
<1> QED BY <1>2, <1>3, <1>4 DEF TypeInv

LEMMA ReadClusterType == ASSUME TypeInv, ReadCluster PROVE TypeInv'
<1>1. /\ UNCHANGED <<media, disk, geometry, search, place, copied, current_cluster, fat_cache>>
      /\ UNCHANGED reboots /\ outcome' \in {outcome, "failed"}
  BY DEF ReadCluster, Fail
<1>2. DisksGiven' /\ ChainsGiven'
  BY <1>1, GivenKept
<1>3. buffer' \in Seq(Copies)
  <2> DEFINE spc == source.vbpb.sectors_per_cluster
             lba == cluster_to_lba(source.vbpb, current_cluster)
  <2>1. spc \in Nat /\ lba \in Nat
    <3>1. current_cluster \in Nat
      BY DEF TypeInv, InstallTypeOK
    <3> QED BY <3>1, ClusterPlace DEF TypeInv, DisksGiven
  <2> HIDE DEF spc, lba
  <2>2. \A i \in 1..spc : Data(lba + i - 1) \in Copies
    BY <2>1 DEF Data, Copies
  <2>3. [i \in 1..spc |-> Data(lba + i - 1)] \in Seq(Copies)
    <3> HIDE DEF Copies
    <3> QED BY <2>1, <2>2
  <2>4. buffer' = buffer \/ buffer' = [i \in 1..spc |-> Data(lba + i - 1)]
    BY DEF ReadCluster, spc, lba
  <2> QED BY <2>3, <2>4, TypeParts DEF TypeInv
<1>4. vbpb' = vbpb
  BY <1>1 DEF place
<1>5. InstallTypeOK'
  BY <1>1, <1>3, TypeParts, TypePartsNext DEF TypeInv, search, place
<1> QED BY <1>2, <1>4, <1>5 DEF TypeInv

LEMMA NextClusterType == ASSUME TypeInv, NextCluster PROVE TypeInv'
<1>1. /\ UNCHANGED <<media, disk, geometry, search, place, copied, buffer, reboots>>
      /\ outcome' \in {outcome, "ok"}
  BY DEF NextCluster
<1>2. DisksGiven' /\ ChainsGiven'
  BY <1>1, GivenKept
<1>3. current_cluster \in 0..BAD /\ LAST_CLUSTER \in Nat
  BY InstFatAssumption DEF TypeInv, InstallTypeOK
<1>4. current_cluster' \in 0..BAD
  BY <1>3 DEF NextCluster, FatValues, BAD, END_OF_CHAIN
<1>5. fat_cache' \in Nat \cup {NoSector}
  <2>1. FatSector(source.vbpb, current_cluster) \in Nat
    BY <1>3, FatSectorType DEF TypeInv, BAD
  <2>2. fat_cache' \in {fat_cache, FatSector(source.vbpb, current_cluster)}
    BY DEF NextCluster, get_fat_entry
  <2> QED BY <2>1, <2>2, TypeParts DEF TypeInv
<1>6. vbpb' = vbpb
  BY <1>1 DEF place
<1>7. InstallTypeOK'
  BY <1>1, <1>4, <1>5, TypeParts, TypePartsNext DEF TypeInv, search, place
<1> QED BY <1>2, <1>6, <1>7 DEF TypeInv

LEMMA WritesType ==
  ASSUME TypeInv, WriteBootSector \/ WriteCluster \/ PowerCut
  PROVE  TypeInv'
<1>1. /\ UNCHANGED <<media, geometry, search, place, buffer, fat_cache, reboots>>
      /\ outcome' \in {outcome, "failed"}
  BY DEF WriteBootSector, WriteCluster, PowerCut, Fail, copying
<1>2. DisksGiven' /\ ChainsGiven'
  BY <1>1, GivenKept
<1>3. /\ disk \in [0..LAST_SECTOR -> Sector]
      /\ Len(buffer) \in Nat /\ buffer \in Seq(Sector) /\ <<BootSector>> \in Seq(Sector)
      /\ Reaches(partition) \subseteq Int /\ Reaches(kernel_target_lba + copied) \subseteq Int
  BY BootSectorType, BufferType, PlacesType, TypeParts DEF TypeInv
<1>4. \A l \in Reaches(partition), n \in {0, 1} :
        Written(l, <<BootSector>>, n) \in [0..LAST_SECTOR -> Sector]
  <2>1. Len(<<BootSector>>) = 1
    OBVIOUS
  <2>2. {0, 1} \subseteq 0..Len(<<BootSector>>)
    BY <2>1
  <2> QED BY <1>3, <2>2, WrittenType
<1>5. \A l \in Reaches(kernel_target_lba + copied), n \in 0..Len(buffer) :
        Written(l, buffer, n) \in [0..LAST_SECTOR -> Sector]
  BY <1>3, WrittenType
<1>6. 1..Len(buffer) \subseteq 0..Len(buffer) /\ Len(buffer) \in 0..Len(buffer)
  BY <1>3
<1>7. disk' \in [0..LAST_SECTOR -> Sector]
  <2>1. CASE WriteBootSector
    BY <1>4, <2>1 DEF WriteBootSector
  <2>2. CASE WriteCluster
    BY <1>5, <1>6, <2>2 DEF WriteCluster
  <2>3. CASE PowerCut
    BY <1>3, <1>4, <1>5, <1>6, <2>3 DEF PowerCut
  <2> QED BY <2>1, <2>2, <2>3
<1>8. copied' \in Nat /\ current_cluster' \in 0..BAD
  <2>1. copied \in Nat /\ current_cluster \in 0..BAD /\ file.first \in 0..BAD
    BY TypeParts DEF TypeInv
  <2> QED BY <1>3, <2>1 DEF WriteBootSector, WriteCluster, PowerCut, Advance, copying
<1>9. vbpb' = vbpb
  BY <1>1 DEF place
<1>10. InstallTypeOK'
  BY <1>1, <1>7, <1>8, TypeParts, TypePartsNext DEF TypeInv, search, place
<1> QED BY <1>2, <1>9, <1>10 DEF TypeInv

LEMMA RestartType == ASSUME TypeInv, Restart PROVE TypeInv'
<1>1. UNCHANGED <<media, disk>>
  BY DEF Restart
<1>2. DisksGiven' /\ ChainsGiven'
  BY <1>1, GivenKept
<1>3. 0 \in 0..BAD /\ 0 \in 0..LAST_SECTOR /\ ValidVbpb(TEMPLATE) /\ Numbers(TEMPLATE)
  BY InstFatAssumption, InstallerAssumption DEF BAD, TypeInv, DisksGiven
<1>4. vbpb' = TEMPLATE /\ reboots' = reboots - 1 /\ reboots > 0
  BY DEF Restart
<1>5. << >> \in Seq(Copies) /\ NoFile \in [first : 0..BAD, size : Nat]
  BY <1>3 DEF NoFile, Copies
<1>6. InstallTypeOK'
  BY <1>1, <1>3, <1>4, <1>5, TypeParts, TypePartsNext DEF TypeInv, Restart
<1> QED BY <1>2, <1>3, <1>4, <1>6 DEF TypeInv

LEMMA TypeInductive == TypeInv /\ [InstallNext]_installVars => TypeInv'
<1> SUFFICES ASSUME TypeInv, [InstallNext]_installVars PROVE TypeInv'
  OBVIOUS
<1>1. CASE UNCHANGED installVars
  <2>1. UNCHANGED <<media, disk, outcome, geometry, search, place, copying, reboots>>
    BY <1>1 DEF installVars
  <2>2. DisksGiven' /\ ChainsGiven' /\ vbpb' = vbpb
    BY <2>1, GivenKept DEF place
  <2>3. InstallTypeOK'
    BY <2>1, TypeParts, TypePartsNext DEF TypeInv, search, place, copying
  <2> QED BY <2>2, <2>3 DEF TypeInv
<1> QED
  BY <1>1, ChecksType, FindFileType, ParseMbrType, ReadTargetVbpbType, ReadClusterType,
     NextClusterType, WritesType, RestartType DEF InstallNext, Program

(* The state a medium begins in. *)
LEMMA Begins ==
  ASSUME NEW s, NEW t, Medium(s, t), DisksGiven
  PROVE  InstallInv /\ (ChainsGiven /\ reboots \in Nat => TypeInv)
<1>1. /\ disk = [l \in 0..LAST_SECTOR |-> Old]
      /\ at = "start" /\ copied = 0 /\ dir_sector = 0
  BY DEF Medium, Start
<1>2. Stage
  BY <1>1 DEF Stage, AfterSource, AfterFind, AfterMbr, AfterTarget
<1>3. DiskInv
  BY <1>1 DEF DiskInv
<1>4. ASSUME ChainsGiven, reboots \in Nat PROVE TypeInv
  <2>1. /\ 0 \in 0..BAD /\ 0 \in 0..LAST_SECTOR /\ ValidVbpb(TEMPLATE) /\ Numbers(TEMPLATE)
        /\ vbpb = TEMPLATE
    BY InstFatAssumption, InstallerAssumption DEF BAD, DisksGiven, Medium, Start
  <2>2. << >> \in Seq(Copies) /\ NoFile \in [first : 0..BAD, size : Nat] /\ Old \in Sector
    BY <2>1 DEF NoFile, Copies, Old, Sector
  <2>3. InstallTypeOK
    BY <1>4, <2>1, <2>2, TypeParts DEF Medium, Start
  <2> QED BY <1>4, <2>1, <2>3 DEF TypeInv
<1> QED BY <1>2, <1>3, <1>4 DEF InstallInv

(* For any two disks whose numbers are numbers and whose FAT entries are    *)
(* FAT entries, every step keeps the types.                                 *)
THEOREM InstallerTypes ==
  ASSUME NEW s, NEW t
  PROVE  Medium(s, t) /\ reboots \in Nat /\ DisksGiven /\ ChainsGiven
           /\ [][InstallNext]_installVars => []InstallTypeOK
<1>1. Medium(s, t) /\ reboots \in Nat /\ DisksGiven /\ ChainsGiven => TypeInv
  BY Begins
<1>2. TypeInv => InstallTypeOK
  BY DEF TypeInv
<1> QED BY <1>1, <1>2, TypeInductive, PTL

(***************************************************************************)
(* The copy.                                                               *)
(***************************************************************************)
Early == {"start", "target_params", "source_params", "source_vbpb", "find", "mbr",
          "target_vbpb", "boot", "fault"}
Copying == {"read", "write", "next"}
Stopped == {"end", "halted", "off", "overrun"}

(* The last sector of a cluster of the source. *)
LastOf(c) == cluster_to_lba(source.vbpb, c) + source.vbpb.sectors_per_cluster - 1

(* The boot sector is in front of the place of the kernel, and names it. *)
Placed ==
  /\ HasKernel /\ file = [first |-> Kernel.first, size |-> Kernel.size]
  /\ Partition \in 1..LAST_SECTOR /\ partition = Partition
  /\ ValidVbpb(vbpb)
  /\ disk[Partition] = BootSector

(* What has been copied is the start of the chain. *)
ChainCopied ==
  /\ kernel_target_lba + copied - 1 <= LAST_SECTOR
  /\ disk[kernel_target_lba] = Data(cluster_to_lba(source.vbpb, Kernel.first))
  /\ \A l \in 0..(copied - 1) : disk[kernel_target_lba + l].kind = "data"
  /\ \A l \in 1..(copied - 1) :
       Follows(disk[kernel_target_lba + l - 1].lba, disk[kernel_target_lba + l].lba)

(* The sector copied last is the last one of cluster c. *)
CopiedTo(c) == copied > 0 /\ disk[kernel_target_lba + copied - 1].lba = LastOf(c)

(* The cluster to be read is the first one, or the next of the one copied   *)
(* last; BAD, the answer of a failed read, is never read.                   *)
Link ==
  /\ copied = 0 => current_cluster = Kernel.first
  /\ copied > 0 => \/ current_cluster = BAD
                   \/ \E c \in 0..LAST_CLUSTER :
                        /\ CopiedTo(c)
                        /\ current_cluster \in FatEntries(source.vbpb, source.fat, c)

InBuffer ==
  buffer = [i \in 1..source.vbpb.sectors_per_cluster |->
              Data(cluster_to_lba(source.vbpb, current_cluster) + i - 1)]

CopyInv ==
  /\ at \in Early \cup Copying \cup Stopped
  /\ at \in Early => copied = 0
  /\ outcome = "ok" => at \in Stopped
  /\ at = "mbr" \/ at = "target_vbpb" \/ at = "boot" => file.first = Kernel.first
  /\ source.same =>
       /\ at \in Copying \/ copied > 0 => Placed
       /\ copied > 0 => ChainCopied
       /\ at \in {"read", "write"} => Link
       /\ at = "write" => current_cluster < BAD /\ InBuffer
       /\ at = "next" => current_cluster < BAD /\ CopiedTo(current_cluster)
       /\ SuccessMeansCopied


LEMMA CopyFrame ==
  ASSUME UNCHANGED <<media, disk, file, place, copied>>
  PROVE  /\ Placed' <=> Placed
         /\ ChainCopied' <=> ChainCopied
         /\ \A c : CopiedTo(c)' <=> CopiedTo(c)
         /\ kernel_target_lba' = kernel_target_lba
<1>1. /\ source' = source /\ HasKernel' = HasKernel /\ Kernel' = Kernel /\ Partition' = Partition
  BY MediaKept
<1>2. vbpb' = vbpb /\ partition' = partition
  BY DEF place
<1>3. /\ kernel_target_lba' = kernel_target_lba /\ BootSector' = BootSector
  BY <1>2 DEF kernel_target_lba, BootSector, kernel_start_lba_in_partition
<1>4. Placed' <=> Placed
  BY <1>1, <1>2, <1>3 DEF Placed
<1>5. \A a, b : Follows(a, b)' <=> Follows(a, b)
  BY <1>1 DEF Follows
<1>6. ChainCopied' <=> ChainCopied
  BY <1>1, <1>3, <1>5 DEF ChainCopied
<1>7. \A c : CopiedTo(c)' <=> CopiedTo(c)
  BY <1>1, <1>3 DEF CopiedTo, LastOf
<1> QED BY <1>3, <1>4, <1>6, <1>7

(* Up to the write of the boot sector nothing has been copied. *)
LEMMA EarlySteps ==
  ASSUME InstallInv, TypeInv, CopyInv,
         \/ PressKey \/ GetTargetParams \/ GetSourceParams \/ ReadSourceVbpb
         \/ FindFile \/ ParseMbr \/ ReadTargetVbpb
  PROVE  CopyInv'
<1>1. /\ UNCHANGED <<media, disk, copied>> /\ copied = 0
      /\ at \in Early /\ at' \in Early \cup {"end"} /\ outcome' # "ok"
  <2>1. outcome = "ok" => at \in Stopped
    BY DEF CopyInv
  <2> QED BY <2>1
    DEF PressKey, GetTargetParams, GetSourceParams, ReadSourceVbpb, FindFile, ParseMbr,
        ReadTargetVbpb, Fail, copying, CopyInv, Early, Stopped
<1>2. at' \in {"mbr", "target_vbpb", "boot"} => file'.first = Kernel.first
  <2>1. CASE FindFile
    <3>1. ASSUME NEW j \in StopsIn(source.dir, dir_sector),
                 \A k \in StopsIn(source.dir, dir_sector) : j <= k,
                 file' = [first |-> source.dir[j].first, size |-> source.dir[j].size]
          PROVE  file'.first = Kernel.first
      <4>1. Kernel = source.dir[j]
        BY <3>1, FoundFirst DEF InstallInv
      <4> QED BY <3>1, <4>1
    <3>2. at = "find"
      BY <2>1 DEF FindFile
    <3> QED BY <2>1, <3>1, <3>2 DEF FindFile, Fail
  <2>2. CASE ParseMbr \/ ReadTargetVbpb
    <3>1. UNCHANGED file /\ at \in {"mbr", "target_vbpb"}
      BY <2>2 DEF ParseMbr, ReadTargetVbpb, search
    <3> QED BY <3>1 DEF CopyInv
  <2>3. CASE PressKey \/ GetTargetParams \/ GetSourceParams \/ ReadSourceVbpb
    BY <2>3 DEF PressKey, GetTargetParams, GetSourceParams, ReadSourceVbpb, Fail
  <2> QED BY <2>1, <2>2, <2>3
<1>3. source' = source /\ Kernel' = Kernel
  BY <1>1, MediaKept
<1>4. ~(at' \in Copying \/ copied' > 0) /\ at' \notin {"read", "write", "next"}
  BY <1>1 DEF Early, Copying
<1>5. SuccessMeansCopied'
  BY <1>1 DEF SuccessMeansCopied
<1> QED BY <1>1, <1>2, <1>3, <1>4, <1>5 DEF CopyInv, Stopped

(* What the program knows while it copies. *)
LEMMA Known ==
  ASSUME InstallInv, TypeInv, at \in AfterTarget
  PROVE  /\ Volume /\ HasKernel /\ Kernel.size \in Nat /\ Kernel.size > 0
         /\ Partition # NoPartition
         /\ source.same => Partition \in 1..LAST_SECTOR /\ partition = Partition
         /\ file.size = Kernel.size /\ file \in [first : 0..BAD, size : Nat]
         /\ ValidVbpb(vbpb) /\ source.vbpb.sectors_per_cluster \in Nat \ {0}
<1>1. /\ Volume /\ HasKernel /\ Kernel.size \in Nat /\ Partition # NoPartition
      /\ source.same => partition = Partition
      /\ file.size = Kernel.size
  BY DEF InstallInv, Stage, AfterSource, AfterFind, AfterMbr, AfterTarget
<1>2. Partition \in 1..LAST_SECTOR
  BY <1>1 DEF InstallInv, DisksGiven
<1>3. source.vbpb.sectors_per_cluster \in Nat \ {0}
  BY <1>1 DEF InstallInv, DisksGiven, Volume, Divides
<1> QED BY <1>1, <1>2, <1>3 DEF HasKernel, TypeInv, InstallTypeOK

LEMMA WriteBootSectorCopies ==
  ASSUME InstallInv, TypeInv, CopyInv, WriteBootSector PROVE CopyInv'
<1>1. /\ UNCHANGED <<media, search, place>> /\ copied' = 0 /\ current_cluster' = file.first
      /\ at = "boot" /\ at' \in {"end", "read"} /\ outcome' # "ok"
  BY DEF WriteBootSector, Fail, CopyInv, Stopped
<1>2. /\ source' = source /\ HasKernel' = HasKernel /\ Kernel' = Kernel /\ Partition' = Partition
      /\ file' = file /\ partition' = partition /\ vbpb' = vbpb
  BY <1>1, MediaKept DEF search, place
<1>3. SuccessMeansCopied'
  BY <1>1 DEF SuccessMeansCopied
<1>4. ASSUME source.same, at' = "read" PROVE Placed' /\ Link'
  <2>1. /\ HasKernel /\ file \in [first : 0..BAD, size : Nat] /\ file.size = Kernel.size
        /\ Partition \in 1..LAST_SECTOR /\ partition = Partition /\ ValidVbpb(vbpb)
    BY <1>1, <1>4, Known DEF AfterTarget
  <2>2. file.first = Kernel.first
    BY <1>1 DEF CopyInv
  <2>3. file = [first |-> Kernel.first, size |-> Kernel.size]
    BY <2>1, <2>2
  <2>4. disk' = Written(Partition, <<BootSector>>, 1)
    BY <1>4, <2>1, SamePlace DEF WriteBootSector, Fail
  <2>5. Partition \in 0..LAST_SECTOR /\ Partition \in Partition..(Partition + 1 - 1)
        /\ Partition - Partition + 1 = 1
    BY <2>1
  <2>6. disk'[Partition] = <<BootSector>>[1]
    BY <2>4, <2>5, WrittenChanges
  <2>7. disk'[Partition] = BootSector
    BY <2>6
  <2>8. BootSector' = BootSector
    BY <1>2 DEF BootSector, kernel_start_lba_in_partition
  <2>9. Placed'
    BY <1>2, <2>1, <2>3, <2>7, <2>8 DEF Placed
  <2> QED BY <1>1, <1>2, <2>2, <2>9 DEF Link
<1> QED BY <1>1, <1>2, <1>3, <1>4 DEF CopyInv, Early, Copying, Stopped

LEMMA ReadClusterCopies ==
  ASSUME InstallInv, TypeInv, CopyInv, ReadCluster PROVE CopyInv'
<1>1. /\ UNCHANGED <<media, disk, search, place, copied, current_cluster>>
      /\ at = "read" /\ outcome' # "ok"
      /\ \/ at' \in {"end", "overrun"}
         \/ /\ at' = "write" /\ current_cluster < BAD
            /\ buffer' = [i \in 1..source.vbpb.sectors_per_cluster |->
                            Data(cluster_to_lba(source.vbpb, current_cluster) + i - 1)]
  BY DEF ReadCluster, Fail, CopyInv, Stopped
<1>2. source' = source /\ Kernel' = Kernel /\ file' = file
  BY <1>1, MediaKept DEF search
<1>3. /\ Placed' <=> Placed
      /\ ChainCopied' <=> ChainCopied
      /\ \A c : CopiedTo(c)' <=> CopiedTo(c)
  BY <1>1, <1>2, CopyFrame
<1>4. Link' <=> Link
  BY <1>1, <1>2, <1>3 DEF Link
<1>5. at' = "write" => InBuffer'
  BY <1>1, <1>2 DEF InBuffer
<1>6. SuccessMeansCopied'
  BY <1>1 DEF SuccessMeansCopied
<1> QED BY <1>1, <1>2, <1>3, <1>4, <1>5, <1>6 DEF CopyInv, Early, Copying, Stopped

(* A write at the place of the next cluster, whole or in part, leaves what  *)
(* was copied before, and the boot sector.                                  *)
LEMMA PrefixKept ==
  ASSUME InstallInv, TypeInv, CopyInv, source.same, at = "write",
         UNCHANGED <<media, search, place>>,
         NEW l \in Reaches(kernel_target_lba + copied), NEW n \in 0..Len(buffer),
         disk' = Written(l, buffer, n)
  PROVE  /\ l = kernel_target_lba + copied /\ kernel_target_lba' = kernel_target_lba
         /\ kernel_target_lba \in Nat /\ kernel_target_lba > Partition
         /\ Placed'
         /\ \A j \in 0..(copied - 1) :
              disk'[kernel_target_lba + j] = disk[kernel_target_lba + j]
<1>1. /\ source' = source /\ HasKernel' = HasKernel /\ Kernel' = Kernel /\ Partition' = Partition
      /\ file' = file /\ partition' = partition /\ vbpb' = vbpb
  BY MediaKept DEF search, place
<1>2. kernel_target_lba' = kernel_target_lba /\ BootSector' = BootSector
  BY <1>1 DEF kernel_target_lba, BootSector, kernel_start_lba_in_partition
<1>3. l = kernel_target_lba + copied
  BY SamePlace
<1>4. Placed /\ (copied > 0 => ChainCopied)
  BY DEF CopyInv, Copying
<1>5. /\ kernel_target_lba \in Nat /\ copied \in Nat
      /\ kernel_target_lba = partition + kernel_start_lba_in_partition
  BY PlacesType
<1>6. kernel_start_lba_in_partition \in Nat \ {0}
  BY TablesTakeRoom DEF TypeInv, InstallTypeOK, kernel_start_lba_in_partition
<1>7. Partition \in 1..LAST_SECTOR /\ partition = Partition /\ LAST_SECTOR \in Nat
  BY <1>4, InstallerAssumption DEF Placed
<1>8. kernel_target_lba > Partition
  BY <1>5, <1>6, <1>7
<1>9. \A x \in 0..LAST_SECTOR : x < l => disk'[x] = disk[x]
  <2>1. \A x \in 0..LAST_SECTOR : x < l => x \notin l..(l + n - 1)
    BY <1>3, <1>5, <1>7
  <2> QED BY <2>1, WrittenChanges
<1>10. disk'[Partition] = disk[Partition]
  BY <1>3, <1>5, <1>7, <1>8, <1>9
<1>11. Placed'
  BY <1>1, <1>2, <1>4, <1>10 DEF Placed
<1>12. \A j \in 0..(copied - 1) : disk'[kernel_target_lba + j] = disk[kernel_target_lba + j]
  <2> SUFFICES ASSUME NEW j \in 0..(copied - 1)
               PROVE  disk'[kernel_target_lba + j] = disk[kernel_target_lba + j]
    OBVIOUS
  <2>1. kernel_target_lba + copied - 1 <= LAST_SECTOR
    BY <1>4, <1>5 DEF ChainCopied
  <2>2. kernel_target_lba + j \in 0..LAST_SECTOR /\ kernel_target_lba + j < l
    BY <1>3, <1>5, <1>7, <2>1
  <2> QED BY <1>9, <2>2
<1> QED BY <1>2, <1>3, <1>5, <1>8, <1>11, <1>12

(* A write that is cut short adds nothing to what counts as copied. *)
LEMMA PartWritten ==
  ASSUME InstallInv, TypeInv, CopyInv, source.same, at = "write", copied' = copied,
         UNCHANGED <<media, search, place>>,
         NEW l \in Reaches(kernel_target_lba + copied), NEW n \in 0..Len(buffer),
         disk' = Written(l, buffer, n)
  PROVE  Placed' /\ (copied > 0 => ChainCopied')
<1>0. PICK k \in Nat : k = kernel_target_lba
  BY PlacesType
<1>1. /\ kernel_target_lba' = k /\ Placed' /\ copied \in Nat
      /\ \A j \in 0..(copied - 1) : disk'[k + j] = disk[k + j]
  BY <1>0, PrefixKept, PlacesType
<1>2. source' = source /\ Kernel' = Kernel
  BY MediaKept
<1>5. ASSUME copied > 0 PROVE ChainCopied'
  <2>1. /\ k + copied - 1 <= LAST_SECTOR
        /\ disk[k] = Data(cluster_to_lba(source.vbpb, Kernel.first))
        /\ \A j \in 0..(copied - 1) : disk[k + j].kind = "data"
        /\ \A j \in 1..(copied - 1) : Follows(disk[k + j - 1].lba, disk[k + j].lba)
    BY <1>0, <1>5 DEF CopyInv, ChainCopied
  <2>2. disk'[k] = disk[k]
    <3>1. 0 \in 0..(copied - 1) /\ k + 0 = k
      BY <1>1, <1>5
    <3> QED BY <1>1, <3>1
  <2>3. \A j \in 1..(copied - 1) : disk'[k + j - 1] = disk[k + j - 1] /\ disk'[k + j] = disk[k + j]
    <3>1. \A j \in 1..(copied - 1) :
            j \in 0..(copied - 1) /\ j - 1 \in 0..(copied - 1) /\ k + (j - 1) = k + j - 1
      BY <1>1
    <3> QED BY <1>1, <3>1
  <2>4. \A j \in 1..(copied - 1) : Follows(disk[k + j - 1].lba, disk[k + j].lba)'
    BY <1>2, <2>1, <2>3 DEF Follows
  <2>5. \A j \in 0..(copied - 1) : disk'[k + j].kind = "data"
    BY <1>1, <2>1
  <2> QED BY <1>1, <1>2, <2>1, <2>2, <2>4, <2>5 DEF ChainCopied
<1> QED BY <1>1, <1>5

(* A whole cluster behind the sectors copied before: the chain goes on.     *)
LEMMA ClusterCopied ==
  ASSUME InstallInv, TypeInv, CopyInv, source.same, at = "write",
         UNCHANGED <<media, search, place, current_cluster>>,
         copied' = copied + Len(buffer),
         NEW l \in Reaches(kernel_target_lba + copied), l + Len(buffer) - 1 <= LAST_SECTOR,
         disk' = Written(l, buffer, Len(buffer))
  PROVE  Placed' /\ ChainCopied' /\ CopiedTo(current_cluster)' /\ current_cluster < BAD
<1>0. PICK k \in Nat : k = kernel_target_lba
  BY PlacesType
<1>1. PICK b \in Nat \ {0} : b = source.vbpb.sectors_per_cluster
  BY Known DEF AfterTarget
<1>2. PICK lba \in Nat : lba = cluster_to_lba(source.vbpb, current_cluster)
  BY ClusterPlace DEF TypeInv, InstallTypeOK
<1>3. /\ Len(buffer) = b /\ Link /\ current_cluster < BAD
      /\ buffer = [i \in 1..b |-> Data(lba + i - 1)]
  BY <1>1, <1>2 DEF InstallInv, Stage, CopyInv, InBuffer
<1>4. /\ l = k + copied /\ kernel_target_lba' = k /\ Placed' /\ copied \in Nat
      /\ \A j \in 0..(copied - 1) : disk'[k + j] = disk[k + j]
  <2>1. Len(buffer) \in 0..Len(buffer)
    BY <1>3
  <2> QED BY <1>0, <2>1, PrefixKept, PlacesType
<1>m. PICK m \in Nat : m = copied + b /\ copied' = m
  BY <1>3, <1>4
<1>l. l \in Nat /\ l = k + copied /\ copied \in Nat /\ k + m - 1 <= LAST_SECTOR
  <2>1. l = k + copied /\ copied \in Nat /\ l + b - 1 <= LAST_SECTOR
    BY <1>3, <1>4
  <2> QED BY <1>m, <2>1
<1>5. \A j \in copied..(m - 1) : disk'[k + j] = Data(lba + (j - copied))
  <2> SUFFICES ASSUME NEW j \in copied..(m - 1)
               PROVE  disk'[k + j] = Data(lba + (j - copied))
    OBVIOUS
  <2>1. PICK x \in 0..LAST_SECTOR : x = k + j
    BY <1>m, <1>l, InstallerAssumption
  <2>2. /\ x \in l..(l + b - 1) /\ x - l + 1 = j - copied + 1
        /\ j - copied + 1 \in 1..b /\ lba + (j - copied + 1) - 1 = lba + (j - copied)
    BY <1>m, <1>l, <2>1
  <2>3. disk' = Written(l, buffer, b)
    BY <1>3
  <2>4. disk'[x] = buffer[x - l + 1]
    BY <2>2, <2>3, WrittenChanges
  <2>5. disk'[x] = buffer[j - copied + 1]
    BY <2>2, <2>4
  <2>6. buffer[j - copied + 1] = Data(lba + (j - copied))
    BY <1>3, <2>2
  <2> QED BY <2>1, <2>5, <2>6
<1>6. source' = source /\ Kernel' = Kernel
  BY MediaKept
<1>7. copied > 0 =>
        /\ disk[k] = Data(cluster_to_lba(source.vbpb, Kernel.first))
        /\ \A j \in 0..(copied - 1) : disk[k + j].kind = "data"
        /\ \A j \in 1..(copied - 1) : Follows(disk[k + j - 1].lba, disk[k + j].lba)
  BY <1>0 DEF CopyInv, ChainCopied
<1>8. \A x : Data(x).lba = x /\ Data(x).kind = "data"
  BY DEF Data
<1>9. current_cluster \in 0..LAST_CLUSTER
  BY <1>3, InstFatAssumption DEF TypeInv, InstallTypeOK, BAD
<1>10. disk'[k] = Data(cluster_to_lba(source.vbpb, Kernel.first))
  <2>1. CASE copied > 0
    <3>1. 0 \in 0..(copied - 1) /\ k + 0 = k
      BY <1>m, <1>l, <2>1
    <3> QED BY <1>4, <1>7, <2>1, <3>1
  <2>2. CASE copied = 0
    <3>1. 0 \in copied..(m - 1) /\ k + 0 = k /\ lba + (0 - copied) = lba
      BY <1>m, <1>l, <2>2
    <3>2. current_cluster = Kernel.first
      BY <1>3, <2>2 DEF Link
    <3> QED BY <1>2, <1>5, <3>1, <3>2
  <2> QED BY <1>4, <2>1, <2>2
<1>11. \A j \in 0..(m - 1) : disk'[k + j].kind = "data"
  <2> SUFFICES ASSUME NEW j \in 0..(m - 1) PROVE disk'[k + j].kind = "data"
    OBVIOUS
  <2>1. j \in 0..(copied - 1) \/ j \in copied..(m - 1)
    BY <1>m, <1>l
  <2>2. j \in 0..(copied - 1) => copied > 0
    BY <1>m, <1>l
  <2> QED BY <1>4, <1>5, <1>7, <1>8, <2>1, <2>2
<1>12. ASSUME NEW j \in 1..(m - 1)
       PROVE  Follows(disk'[k + j - 1].lba, disk'[k + j].lba)
  <2>1. CASE j < copied
    <3>1. j \in 1..(copied - 1) /\ j \in 0..(copied - 1) /\ j - 1 \in 0..(copied - 1)
          /\ k + (j - 1) = k + j - 1 /\ copied > 0
      BY <1>m, <1>l, <2>1
    <3>2. disk'[k + j - 1] = disk[k + j - 1] /\ disk'[k + j] = disk[k + j]
      BY <1>4, <3>1
    <3> QED BY <1>7, <3>1, <3>2
  <2>2. CASE j = copied
    <3>1. copied > 0 /\ copied - 1 \in 0..(copied - 1) /\ k + (copied - 1) = k + j - 1
          /\ j \in copied..(m - 1) /\ lba + (j - copied) = lba
      BY <1>m, <1>l, <2>2
    <3>2. disk'[k + j - 1] = disk[k + copied - 1] /\ disk'[k + j].lba = lba
      <4>1. disk'[k + (copied - 1)] = disk[k + (copied - 1)]
        BY <1>4, <3>1
      <4>2. k + (copied - 1) = k + copied - 1
        BY <1>m, <1>l
      <4> QED BY <1>5, <1>8, <3>1, <4>1, <4>2
    <3>3. PICK c \in 0..LAST_CLUSTER :
            CopiedTo(c) /\ current_cluster \in FatEntries(source.vbpb, source.fat, c)
      <4>1. current_cluster # BAD
        BY <1>3, <1>9, InstFatAssumption DEF BAD
      <4> QED BY <1>3, <3>1, <4>1 DEF Link
    <3>4. disk'[k + j - 1].lba = cluster_to_lba(source.vbpb, c) + b - 1
      BY <1>0, <1>1, <3>2, <3>3 DEF CopiedTo, LastOf
    <3>5. b \in 1..b /\ ~(b < b)
      OBVIOUS
    <3> QED BY <1>1, <1>2, <3>2, <3>3, <3>4, <3>5 DEF Follows
  <2>3. CASE j > copied
    <3>1. /\ j \in copied..(m - 1) /\ j - 1 \in copied..(m - 1)
          /\ k + (j - 1) = k + j - 1 /\ j - copied \in 1..b /\ j - copied < b
      BY <1>m, <1>l, <2>3
    <3>2. disk'[k + j - 1].lba = lba + (j - 1 - copied) /\ disk'[k + j].lba = lba + (j - copied)
      BY <1>5, <1>8, <3>1
    <3>3. /\ disk'[k + j - 1].lba = lba + (j - copied) - 1
          /\ disk'[k + j].lba = disk'[k + j - 1].lba + 1
      BY <1>m, <1>l, <3>1, <3>2
    <3> QED BY <1>1, <1>2, <1>9, <3>1, <3>3 DEF Follows
  <2> QED BY <1>m, <1>l, <2>1, <2>2, <2>3
<1>13. CopiedTo(current_cluster)'
  <2>1. /\ m > 0 /\ m - 1 \in copied..(m - 1) /\ k + (m - 1) = k + m - 1
        /\ lba + (m - 1 - copied) = lba + b - 1
    BY <1>m, <1>l
  <2>2. disk'[k + m - 1].lba = lba + b - 1
    <3>1. disk'[k + (m - 1)] = Data(lba + (m - 1 - copied))
      BY <1>5, <2>1
    <3> QED BY <1>8, <2>1, <3>1
  <2> QED BY <1>1, <1>2, <1>4, <1>6, <1>m, <2>1, <2>2 DEF CopiedTo, LastOf
<1>14. ChainCopied'
  <2>1. \A j \in 1..(m - 1) : Follows(disk[k + j - 1].lba, disk[k + j].lba)'
    BY <1>6, <1>12 DEF Follows
  <2>2. disk'[k] = Data(cluster_to_lba(source'.vbpb, Kernel'.first))
    BY <1>6, <1>10
  <2>3. kernel_target_lba' = k /\ copied' = m /\ k + m - 1 <= LAST_SECTOR
    BY <1>4, <1>m, <1>l
  <2> QED BY <1>11, <2>1, <2>2, <2>3 DEF ChainCopied
<1> QED BY <1>3, <1>4, <1>13, <1>14

LEMMA WriteClusterCopies ==
  ASSUME InstallInv, TypeInv, CopyInv, WriteCluster PROVE CopyInv'
<1>1. /\ UNCHANGED <<media, search, place, current_cluster, buffer>> /\ at = "write"
      /\ at' \in {"end", "next"} /\ outcome' # "ok"
  BY DEF WriteCluster, Fail, CopyInv, Stopped
<1>2. source' = source
  BY <1>1, MediaKept
<1>3. SuccessMeansCopied'
  BY <1>1 DEF SuccessMeansCopied
<1>4. ASSUME source.same, at' = "end" PROVE copied' > 0 => Placed' /\ ChainCopied'
  <2>1. /\ copied' = copied
        /\ \E l \in Reaches(kernel_target_lba + copied), n \in 0..Len(buffer) :
             disk' = Written(l, buffer, n)
    BY <1>4 DEF WriteCluster
  <2> QED BY <1>1, <1>4, <2>1, PartWritten
<1>5. ASSUME source.same, at' = "next"
      PROVE  Placed' /\ ChainCopied' /\ CopiedTo(current_cluster)' /\ current_cluster < BAD
  <2>1. /\ copied' = copied + Len(buffer)
        /\ \E l \in Reaches(kernel_target_lba + copied) :
             l + Len(buffer) - 1 <= LAST_SECTOR /\ disk' = Written(l, buffer, Len(buffer))
    BY <1>5 DEF WriteCluster, Fail, Advance
  <2> QED BY <1>1, <1>5, <2>1, ClusterCopied
<1> QED BY <1>1, <1>2, <1>3, <1>4, <1>5 DEF CopyInv, Early, Copying, Stopped

LEMMA NextClusterCopies ==
  ASSUME InstallInv, TypeInv, CopyInv, NextCluster PROVE CopyInv'
<1>1. /\ UNCHANGED <<media, disk, search, place, copied, buffer>>
      /\ at = "next" /\ outcome # "ok"
  BY DEF NextCluster, CopyInv, Stopped
<1>2. source' = source /\ Kernel' = Kernel /\ file' = file
  BY <1>1, MediaKept DEF search
<1>3. /\ Placed' <=> Placed
      /\ ChainCopied' <=> ChainCopied
      /\ \A c : CopiedTo(c)' <=> CopiedTo(c)
      /\ kernel_target_lba' = kernel_target_lba
  BY <1>1, <1>2, CopyFrame
<1>4. PICK e \in FatValues :
        /\ get_fat_entry(current_cluster, e)
        /\ current_cluster' = IF e >= END_OF_CHAIN THEN current_cluster ELSE e
        /\ IF LoopEnds(e) THEN at' = "end" /\ outcome' = "ok"
                          ELSE at' = "read" /\ UNCHANGED outcome
  BY DEF NextCluster
<1>5. e \in FatEntries(source.vbpb, source.fat, current_cluster) \/ e = BAD
  BY <1>4 DEF get_fat_entry
<1>6. source.same => /\ copied > 0 /\ CopiedTo(current_cluster)
                     /\ current_cluster \in 0..LAST_CLUSTER /\ Placed /\ ChainCopied
  <2>1. current_cluster \in 0..BAD /\ (current_cluster < BAD => current_cluster \in 0..LAST_CLUSTER)
    BY InstFatAssumption DEF TypeInv, InstallTypeOK, BAD
  <2> QED BY <1>1, <2>1 DEF CopyInv, CopiedTo, Copying
<1>7. CASE LoopEnds(e)
  <2>1. at' = "end" /\ outcome' = "ok"
    BY <1>4, <1>7
  <2>2. source.same => SuccessMeansCopied'
    <3>1. ASSUME source.same, copied >= file.size PROVE copied' >= Kernel'.size
      BY <1>1, <1>2, <1>6, <3>1 DEF Placed
    <3>2. ASSUME source.same, e >= END_OF_CHAIN
          PROVE  /\ copied > 0
                 /\ disk[kernel_target_lba + copied - 1].lba
                      = cluster_to_lba(source.vbpb, current_cluster)
                        + source.vbpb.sectors_per_cluster - 1
                 /\ e \in FatEntries(source.vbpb, source.fat, current_cluster)
      <4>1. e # BAD
        BY <3>2, InstFatAssumption DEF BAD, END_OF_CHAIN
      <4> QED BY <1>5, <1>6, <3>2, <4>1 DEF CopiedTo, LastOf
    <3>3. ASSUME source.same, e >= END_OF_CHAIN
          PROVE  /\ copied' > 0
                 /\ \E c \in 0..LAST_CLUSTER :
                      /\ disk'[kernel_target_lba' + copied' - 1].lba
                           = cluster_to_lba(source'.vbpb, c) + source'.vbpb.sectors_per_cluster - 1
                      /\ \E d \in FatEntries(source'.vbpb, source'.fat, c) : d >= END_OF_CHAIN
      BY <1>1, <1>2, <1>3, <1>6, <3>2, <3>3
    <3> QED BY <1>7, <3>1, <3>3 DEF SuccessMeansCopied, LoopEnds
  <2> QED BY <1>1, <1>2, <1>3, <1>6, <2>1, <2>2 DEF CopyInv, Early, Copying, Stopped
<1>8. CASE ~LoopEnds(e)
  <2>1. at' = "read" /\ outcome' = outcome /\ current_cluster' = e
    BY <1>4, <1>8 DEF LoopEnds
  <2>2. SuccessMeansCopied'
    BY <1>1, <2>1 DEF SuccessMeansCopied
  <2>3. source.same => Link'
    BY <1>1, <1>2, <1>3, <1>5, <1>6, <2>1 DEF Link
  <2> QED BY <1>1, <1>2, <1>3, <1>6, <2>1, <2>2, <2>3 DEF CopyInv, Early, Copying, Stopped
<1> QED BY <1>7, <1>8

(* At the end, and when the power goes, what was copied stays.              *)
LEMMA SuccessFrame ==
  ASSUME UNCHANGED <<media, disk, file, place, copied, outcome>>
  PROVE  SuccessMeansCopied' <=> SuccessMeansCopied
<1>1. /\ source' = source /\ Kernel' = Kernel /\ kernel_target_lba' = kernel_target_lba
  BY MediaKept, CopyFrame
<1> QED BY <1>1 DEF SuccessMeansCopied

LEMMA StopCopies ==
  ASSUME InstallInv, TypeInv, CopyInv, End \/ PowerCut PROVE CopyInv'
<1>1. /\ UNCHANGED <<media, search, place, copying, outcome>> /\ at' \in {"halted", "off"}
      /\ file' = file /\ copied' = copied
  BY DEF End, PowerCut, search, copying
<1>2. source' = source
  BY <1>1, MediaKept
<1>3. CASE UNCHANGED disk
  <2>1. /\ Placed' <=> Placed
        /\ ChainCopied' <=> ChainCopied
        /\ SuccessMeansCopied' <=> SuccessMeansCopied
    BY <1>1, <1>3, CopyFrame, SuccessFrame
  <2> QED BY <1>1, <1>2, <2>1 DEF CopyInv, Early, Copying, Stopped
<1>4. CASE at \in {"boot", "write"} /\ (copied > 0 /\ source.same => Placed' /\ ChainCopied')
  <2>1. outcome' # "ok"
    BY <1>1, <1>4 DEF CopyInv, Stopped
  <2>2. SuccessMeansCopied'
    BY <2>1 DEF SuccessMeansCopied
  <2> QED BY <1>1, <1>2, <1>4, <2>1, <2>2 DEF CopyInv, Early, Copying, Stopped
<1>5. CASE at = "boot"
  <2>1. copied = 0
    BY <1>5 DEF CopyInv, Early
  <2> QED BY <1>4, <1>5, <2>1
<1>6. CASE /\ at = "write"
           /\ \E l \in Reaches(kernel_target_lba + copied), n \in 1..Len(buffer) :
                disk' = Written(l, buffer, n)
  <2>1. 1..Len(buffer) \subseteq 0..Len(buffer)
    BY BufferType
  <2>2. source.same => Placed' /\ (copied > 0 => ChainCopied')
    BY <1>1, <1>6, <2>1, PartWritten
  <2> QED BY <1>4, <1>6, <2>2
<1> QED BY <1>3, <1>5, <1>6 DEF End, PowerCut

LEMMA CopyInductive ==
  InstallInv /\ TypeInv /\ CopyInv /\ [InstallNext]_installVars => CopyInv'
<1> SUFFICES ASSUME InstallInv, TypeInv, CopyInv, [InstallNext]_installVars PROVE CopyInv'
  OBVIOUS
<1>1. CASE Restart
  <2>1. at' = "start" /\ copied' = 0 /\ outcome' # "ok"
    BY <1>1 DEF Restart
  <2>2. SuccessMeansCopied'
    BY <2>1 DEF SuccessMeansCopied
  <2> QED BY <2>1, <2>2 DEF CopyInv, Early, Copying, Stopped
<1>2. CASE UNCHANGED installVars
  <2>1. /\ UNCHANGED <<media, disk, search, file, place, copied, outcome, at>>
        /\ UNCHANGED <<current_cluster, buffer>>
    BY <1>2 DEF installVars, search, copying
  <2>2. /\ Placed' <=> Placed
        /\ ChainCopied' <=> ChainCopied
        /\ \A c : CopiedTo(c)' <=> CopiedTo(c)
        /\ SuccessMeansCopied' <=> SuccessMeansCopied
        /\ source' = source /\ Kernel' = Kernel
    BY <2>1, CopyFrame, SuccessFrame, MediaKept
  <2>3. (Link' <=> Link) /\ (InBuffer' <=> InBuffer)
    BY <2>1, <2>2 DEF Link, InBuffer
  <2> QED BY <2>1, <2>2, <2>3 DEF CopyInv
<1> QED
  BY <1>1, <1>2, EarlySteps, WriteBootSectorCopies, ReadClusterCopies, WriteClusterCopies,
     NextClusterCopies, StopCopies DEF InstallNext, Program

(* For any two such disks, on a target of the source's geometry: what has   *)
(* been copied is the start of the kernel's chain, sector by sector, with a *)
(* boot sector in front that gives its size, whatever failed or was cut     *)
(* short since; and when the program says that the installation is complete *)
(* the whole file has been copied, or its chain ends with the last sector.  *)
THEOREM InstallerCopiesInOrder ==
  ASSUME NEW s, NEW t
  PROVE  Medium(s, t) /\ reboots \in Nat /\ DisksGiven /\ ChainsGiven /\ [][InstallNext]_installVars
           => [](KernelInOrder /\ SuccessMeansCopied)
<1>1. Medium(s, t) => CopyInv
  <2> SUFFICES ASSUME Medium(s, t) PROVE CopyInv
    OBVIOUS
  <2>1. at = "start" /\ copied = 0 /\ outcome = "none"
    BY DEF Medium, Start
  <2>2. SuccessMeansCopied
    BY <2>1 DEF SuccessMeansCopied
  <2> QED BY <2>1, <2>2 DEF CopyInv, Early, Copying
<1>2. InstallInv /\ TypeInv /\ CopyInv => KernelInOrder /\ SuccessMeansCopied
  <2> SUFFICES ASSUME InstallInv, TypeInv, CopyInv PROVE KernelInOrder /\ SuccessMeansCopied
    OBVIOUS
  <2>1. ASSUME source.same, copied > 0 PROVE KernelInOrder
    <3>1. Placed /\ ChainCopied
      BY <2>1 DEF CopyInv
    <3>2. disk[Partition].kind = "boot" /\ disk[Partition].size = Kernel.size
      BY <3>1 DEF BootSector, Boot, Placed
    <3>3. 1..(copied - 1) \subseteq 0..(copied - 1)
      BY PlacesType
    <3> QED BY <3>1, <3>2, <3>3 DEF KernelInOrder, ChainCopied
  <2> QED BY <2>1 DEF KernelInOrder, CopyInv, SuccessMeansCopied
<1>3. Medium(s, t) /\ reboots \in Nat /\ DisksGiven /\ ChainsGiven => InstallInv /\ TypeInv
  BY Begins
<1> QED BY <1>1, <1>2, <1>3, InstallInductive, TypeInductive, CopyInductive, PTL
=============================================================================
