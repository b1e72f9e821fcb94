------------------------------ MODULE Installer ------------------------------
(***************************************************************************)
(* The installation program, installer.c: it checks the two disks, writes a *)
(* patched boot sector over that of the target partition and copies the     *)
(* kernel, cluster by cluster, behind the partition's tables.  Each access  *)
(* to a disk is a step and may fail, the power may go at any point, and the *)
(* program may be run again on the disk an earlier run left.                *)
(*                                                                         *)
(* A sector of the target is as it was ("old"), holds the patched boot      *)
(* sector ("boot", with the kernel's place and size) or holds what was read *)
(* from a sector of the source ("data").  Sizes are in sectors.             *)
(*                                                                         *)
(* Definitions named Bad... are seeded faults, as in Tty.                   *)
(***************************************************************************)
EXTENDS InstFat

CONSTANTS
  LAST_SECTOR,  \* of the target disk
  TEMPLATE,     \* the boot parameters in boot_sector_data
  Vbpbs         \* boot parameters a stray sector may show

ASSUME InstallerAssumption == LAST_SECTOR \in Nat /\ ValidVbpb(TEMPLATE)

VARIABLES
  source,           \* the source disk: vbpb, dir, fat, and whether its geometry
                    \* is the target's
  target,           \* what the target disk held first: mbr and vbpb
  disk,             \* the sectors of the target disk
  at,               \* how far the program has come
  outcome,          \* the last message of the run
  geometry,         \* whose geometry detected_spt and detected_heads are
  dir_sector,       \* the search of the root directory
  file,             \* kernel_first_cluster and kernel_file_size
  partition,        \* target_partition_lba
  vbpb,             \* target_vbpb_info
  copied,           \* bytes_copied, in sectors
  current_cluster,
  buffer,           \* source_sector_buffer and what a read puts behind it
  fat_cache,        \* src_fat_sector_buffer_lba_cache
  reboots           \* how often the program may still be started again

media == <<source, target>>
search == <<dir_sector, file>>
place == <<partition, vbpb>>
copying == <<copied, current_cluster, buffer, fat_cache>>
installVars == <<media, disk, at, outcome, geometry, search, place, copying, reboots>>

Old == [kind |-> "old", lba |-> 0, size |-> 0]
Boot(lba, size) == [kind |-> "boot", lba |-> lba, size |-> size]
Data(lba) == [kind |-> "data", lba |-> lba, size |-> 0]
NoSector == -1
NoFile == [first |-> 0, size |-> 0]

Start ==
  /\ at = "start" /\ outcome = "none" /\ geometry = "none"
  /\ dir_sector = 0 /\ file = NoFile /\ partition = 0 /\ vbpb = TEMPLATE
  /\ copied = 0 /\ current_cluster = 0 /\ buffer = << >> /\ fat_cache = NoSector

Fail == at' = "end" /\ outcome' = "failed"

(* A request goes where the geometry found last puts its sector number: on  *)
(* a target of another geometry that is any sector, except for sector 0.    *)
Reaches(lba) ==
  IF source.same \/ geometry = "target" \/ lba = 0 THEN {lba} ELSE 0..LAST_SECTOR

(* The first n of the sectors given, written from lba on. *)
Written(lba, sectors, n) ==
  [l \in 0..LAST_SECTOR |-> IF l \in lba..(lba + n - 1) THEN sectors[l - lba + 1] ELSE disk[l]]

PressKey ==
  /\ at = "start"
  /\ at' = "target_params"
  /\ UNCHANGED <<media, disk, outcome, geometry, search, place, copying, reboots>>

(* inst_get_drive_params sets the one pair of geometry variables. *)
GetTargetParams ==
  /\ at = "target_params"
  /\ \/ geometry' = "target" /\ at' = "source_params" /\ UNCHANGED outcome
     \/ geometry' = "none" /\ Fail
  /\ UNCHANGED <<media, disk, search, place, copying, reboots>>

GetSourceParams ==
  /\ at = "source_params"
  /\ \/ geometry' = "source" /\ at' = "source_vbpb" /\ UNCHANGED outcome
     \/ geometry' = "none" /\ Fail
  /\ UNCHANGED <<media, disk, search, place, copying, reboots>>

ReadSourceVbpb ==
  /\ at = "source_vbpb"
  /\ \/ Fail
     \/ ValidVbpb(source.vbpb) /\ Divides(source.vbpb) /\ at' = "find" /\ UNCHANGED outcome
     \/ ValidVbpb(source.vbpb) /\ ~Divides(source.vbpb) /\ at' = "fault" /\ UNCHANGED outcome
  /\ fat_cache' = NoSector
  /\ UNCHANGED <<media, disk, geometry, search, place, copied, current_cluster, buffer, reboots>>

(* One turn of the loop of inst_fat_read_find_file, which reads a sector of *)
(* the root directory.                                                      *)
FindFile ==
  /\ at = "find"
  /\ \/ Fail /\ UNCHANGED search
     \/ /\ dir_sector < root_dir_sectors(source.vbpb)
        /\ StopsIn(source.dir, dir_sector) = {}
        /\ dir_sector' = dir_sector + 1
        /\ UNCHANGED <<at, outcome, file>>
     \/ /\ dir_sector < root_dir_sectors(source.vbpb)
        /\ \E j \in StopsIn(source.dir, dir_sector) :
             /\ \A k \in StopsIn(source.dir, dir_sector) : j <= k
             /\ IsKernel(source.dir[j]) /\ source.dir[j].first # 0 /\ source.dir[j].size # 0
             /\ file' = [first |-> source.dir[j].first, size |-> source.dir[j].size]
        /\ at' = "mbr"
        /\ UNCHANGED <<outcome, dir_sector>>
  /\ UNCHANGED <<media, disk, geometry, place, copying, reboots>>

(* inst_fat_read_parse_mbr: sector 0 of the target, if it is still itself.  *)
ParseMbr ==
  /\ at = "mbr"
  /\ \/ Fail /\ UNCHANGED partition
     \/ /\ partition' \in IF disk[0] = Old THEN {FindPartition(target.mbr)} \ {NoPartition}
                                           ELSE 0..LAST_SECTOR
        /\ at' = "target_vbpb" /\ UNCHANGED outcome
  /\ UNCHANGED <<media, disk, geometry, search, vbpb, copying, reboots>>

(* The boot parameters read in a sector of the target: those of the         *)
(* partition, or those a run of the installer has put over them.            *)
VbpbsAt(l) ==
  CASE disk[l].kind = "boot" -> {TEMPLATE}
    [] disk[l] = Old /\ l = partition -> {target.vbpb}
    [] OTHER -> Vbpbs

BadReadTargetVbpb ==
  /\ at = "target_vbpb"
  /\ \/ Fail /\ UNCHANGED vbpb
     \/ \E l \in Reaches(partition) :
          vbpb' \in VbpbsAt(l) /\ at' = "boot" /\ UNCHANGED outcome
  /\ UNCHANGED <<media, disk, geometry, search, partition, copying, reboots>>
ReadTargetVbpb ==
  /\ at = "target_vbpb"
  /\ \/ Fail /\ UNCHANGED vbpb
     \/ \E l \in Reaches(partition) :
          /\ vbpb' \in VbpbsAt(l) /\ ValidVbpb(vbpb')
          /\ at' = IF Divides(vbpb') THEN "boot" ELSE "fault"
          /\ UNCHANGED outcome
  /\ UNCHANGED <<media, disk, geometry, search, partition, copying, reboots>>

(* Step 5 and 6 of c_installer_main: the kernel goes behind the tables of   *)
(* the partition; what patch_boot_sector is given (installer.c:181) is not  *)
(* the place on the disk but the one counted from the partition's start.    *)
BadKernelStart == 0             \* the tables are forgotten
kernel_start_lba_in_partition == data_start_sector(vbpb)
Bad_target_lba == kernel_start_lba_in_partition
kernel_target_lba == partition + kernel_start_lba_in_partition
BootSector == Boot(kernel_start_lba_in_partition, file.size)

WriteBootSector ==
  /\ at = "boot"
  /\ \E l \in Reaches(partition) :
       \/ \E n \in {0, 1} : disk' = Written(l, <<BootSector>>, n) /\ Fail
       \/ disk' = Written(l, <<BootSector>>, 1) /\ at' = "read" /\ UNCHANGED outcome
  /\ copied' = 0 /\ current_cluster' = file.first
  /\ UNCHANGED <<media, geometry, search, place, buffer, fat_cache, reboots>>

(* Step 7.  A cluster is read whole, its first sector into the buffer and   *)
(* the second into target_sector_buffer, which is behind it.  A larger one  *)
(* runs over what follows them; what the program does then is not modelled. *)
(* No disk has a cluster of the number BAD.                                 *)
BUFFER_SECTORS == 2

ReadCluster ==
  /\ at = "read"
  /\ \/ Fail /\ UNCHANGED buffer
     \/ /\ current_cluster < BAD /\ source.vbpb.sectors_per_cluster > BUFFER_SECTORS
        /\ at' = "overrun" /\ UNCHANGED <<outcome, buffer>>
     \/ /\ current_cluster < BAD /\ source.vbpb.sectors_per_cluster <= BUFFER_SECTORS
        /\ buffer' = [i \in 1..source.vbpb.sectors_per_cluster |->
                        Data(cluster_to_lba(source.vbpb, current_cluster) + i - 1)]
        /\ at' = "write" /\ UNCHANGED outcome
  /\ UNCHANGED <<media, disk, geometry, search, place, copied, current_cluster, fat_cache, reboots>>

BadAdvance(n) == copied + 1
StuckAdvance(n) == copied
Advance(n) == copied + n

WriteCluster ==
  /\ at = "write"
  /\ \E l \in Reaches(kernel_target_lba + copied) :
       \/ \E n \in 0..Len(buffer) : disk' = Written(l, buffer, n) /\ Fail /\ UNCHANGED copied
       \/ /\ l + Len(buffer) - 1 <= LAST_SECTOR
          /\ disk' = Written(l, buffer, Len(buffer))
          /\ copied' = Advance(Len(buffer))
          /\ at' = "next" /\ UNCHANGED outcome
  /\ UNCHANGED <<media, geometry, search, place, current_cluster, buffer, fat_cache, reboots>>

(* inst_fat_read_get_fat_entry: the sector is read unless it is the one in  *)
(* the buffer; a failed read gives BAD and leaves the buffer's number.      *)
get_fat_entry(c, e) ==
  LET s == FatSector(source.vbpb, c)
  IN  \/ e \in FatEntries(source.vbpb, source.fat, c) /\ fat_cache' = s
      \/ s # fat_cache /\ e = BAD /\ UNCHANGED fat_cache

(* The end of a turn, and of the loop; a chain that ends early is not told  *)
(* from the end of the file.                                                *)
BadLoopEnds(e) == copied >= file.size \/ e >= BAD
LoopEnds(e) == copied >= file.size \/ e >= END_OF_CHAIN

NextCluster ==
  /\ at = "next"
  /\ \E e \in FatValues :
       /\ get_fat_entry(current_cluster, e)
       /\ current_cluster' = IF e >= END_OF_CHAIN THEN current_cluster ELSE e
       /\ IF LoopEnds(e) THEN at' = "end" /\ outcome' = "ok"
                         ELSE at' = "read" /\ UNCHANGED outcome
  /\ UNCHANGED <<media, disk, geometry, search, place, copied, buffer, reboots>>

End ==
  /\ at = "end"
  /\ at' = "halted"
  /\ UNCHANGED <<media, disk, outcome, geometry, search, place, copying, reboots>>

(* What the environment does: the power goes, in the middle of a write too, *)
(* and the program is started again.                                        *)
PowerCut ==
  /\ at \notin {"halted", "off"}
  /\ at' = "off"
  /\ \/ UNCHANGED disk
     \/ at = "boot" /\ \E l \in Reaches(partition) : disk' = Written(l, <<BootSector>>, 1)
     \/ at = "write" /\ \E l \in Reaches(kernel_target_lba + copied), n \in 1..Len(buffer) :
                          disk' = Written(l, buffer, n)
  /\ UNCHANGED <<media, outcome, geometry, search, place, copying, reboots>>

Restart ==
  /\ at \in {"halted", "off"} /\ reboots > 0
  /\ reboots' = reboots - 1
  /\ at' = "start" /\ outcome' = "none" /\ geometry' = "none"
  /\ dir_sector' = 0 /\ file' = NoFile /\ partition' = 0 /\ vbpb' = TEMPLATE
  /\ copied' = 0 /\ current_cluster' = 0 /\ buffer' = << >> /\ fat_cache' = NoSector
  /\ UNCHANGED <<media, disk>>

Program ==
  \/ GetTargetParams \/ GetSourceParams \/ ReadSourceVbpb \/ FindFile \/ ParseMbr
  \/ ReadTargetVbpb \/ WriteBootSector \/ ReadCluster \/ WriteCluster \/ NextCluster

InstallNext == PressKey \/ Program \/ End \/ PowerCut \/ Restart

Medium(s, t) ==
  /\ source = s /\ target = t /\ disk = [l \in 0..LAST_SECTOR |-> Old]
  /\ Start

Fairness == WF_installVars(Program)

(***************************************************************************)
(* Properties.                                                             *)
(***************************************************************************)
InstallTypeOK ==
  /\ disk \in [0..LAST_SECTOR -> [kind : {"old", "boot", "data"}, lba : Nat, size : Nat]]
  /\ outcome \in {"none", "ok", "failed"} /\ geometry \in {"none", "source", "target"}
  /\ file \in [first : 0..BAD, size : Nat]
  /\ partition \in 0..LAST_SECTOR /\ ValidVbpb(vbpb)
  /\ copied \in Nat /\ current_cluster \in 0..BAD
  /\ buffer \in Seq([kind : {"data"}, lba : Nat, size : {0}])
  /\ fat_cache \in Nat \cup {NoSector} /\ dir_sector \in Nat /\ reboots \in Nat

(* What the disks say, whatever the program has read of them. *)
KernelStops ==
  {j \in DOMAIN source.dir : source.dir[j].name = "end" \/ IsKernel(source.dir[j])}
Kernel == source.dir[First(KernelStops)]
Partition == FindPartition(target.mbr)

(* No sector of the target is changed, by however many runs, before all the *)
(* checks have passed: the source is a FAT volume with a kernel on it, the  *)
(* target has a bootable FAT partition and, if its sectors are where the    *)
(* program looks for them, a boot sector with parameters that can be used.  *)
ChecksFirst ==
  (\E l \in 0..LAST_SECTOR : disk[l] # Old) =>
    /\ ValidVbpb(source.vbpb) /\ Divides(source.vbpb)
    /\ KernelStops # {} /\ IsKernel(Kernel) /\ Kernel.first # 0 /\ Kernel.size # 0
    /\ Partition # NoPartition
    /\ source.same => ValidVbpb(target.vbpb) /\ Divides(target.vbpb)

(* On a target of the source's geometry the boot record, the partition's    *)
(* tables and everything outside the room of the kernel stay as they were,  *)
(* wherever the power goes: what changes is the partition's boot sector and *)
(* the sectors behind the tables, up to a cluster's end past the kernel's.  *)
(* A second run finds the boot parameters of the template, so that its      *)
(* tables are the ones in front of the second copy.                         *)
OnlyItsRoom ==
  source.same =>
    \A l \in 0..LAST_SECTOR : disk[l] # Old =>
      \/ l = Partition
      \/ \E v \in {target.vbpb, TEMPLATE} :
           l - (Partition + data_start_sector(v))
             \in 0..(Kernel.size + source.vbpb.sectors_per_cluster - 2)

(* A sector of the source follows another in a file. *)
Follows(a, b) ==
  \E c \in 0..LAST_CLUSTER, i \in 1..source.vbpb.sectors_per_cluster :
    /\ a = cluster_to_lba(source.vbpb, c) + i - 1
    /\ IF i < source.vbpb.sectors_per_cluster
         THEN b = a + 1
         ELSE \E d \in FatEntries(source.vbpb, source.fat, c) :
                b = cluster_to_lba(source.vbpb, d)

(* What a run has copied is, whatever failed or was cut short since, the    *)
(* start of the kernel's file, sector by sector along its chain, and the    *)
(* boot sector in front of it gives the size of that file.                  *)
KernelInOrder ==
  source.same /\ copied > 0 =>
    /\ disk[Partition].kind = "boot" /\ disk[Partition].size = Kernel.size
    /\ disk[kernel_target_lba] = Data(cluster_to_lba(source.vbpb, Kernel.first))
    /\ \A l \in 1..(copied - 1) :
         /\ disk[kernel_target_lba + l].kind = "data"
         /\ Follows(disk[kernel_target_lba + l - 1].lba, disk[kernel_target_lba + l].lba)

(* When the program says that the installation is complete, the sectors     *)
(* copied are those of the whole file, or its chain ends with the last one. *)
SuccessMeansCopied ==
  source.same /\ outcome = "ok" =>
    \/ copied >= Kernel.size
    \/ /\ copied > 0
       /\ \E c \in 0..LAST_CLUSTER :
            /\ disk[kernel_target_lba + copied - 1].lba
                 = cluster_to_lba(source.vbpb, c) + source.vbpb.sectors_per_cluster - 1
            /\ \E e \in FatEntries(source.vbpb, source.fat, c) : e >= END_OF_CHAIN

(* Wherever a run was cut short, another one gets past its checks: the      *)
(* partition table is still there, and the boot sector of the partition is  *)
(* the one it had or the template's, never a piece of the kernel.           *)
CanRunAgain ==
  source.same /\ (\E l \in 0..LAST_SECTOR : disk[l] # Old) =>
    /\ disk[0] = Old
    /\ disk[Partition] = Old \/ disk[Partition].kind = "boot"

(* installer.c:36 calls the value patched into the boot sector "Cekirdegin  *)
(* hedef diskte baslayacagi LBA adresi", and boot.s reads the kernel from   *)
(* that sector of the disk (boot.s:36, 59-71): the kernel begins there.     *)
KernelWhereBootLooks ==
  source.same /\ outcome = "ok" =>
    \E l \in 0..LAST_SECTOR :
      /\ l = disk[Partition].lba
      /\ disk[l] = Data(cluster_to_lba(source.vbpb, Kernel.first))

(* Once it has been started the program comes to its last message, whatever *)
(* the chain of the kernel is, a cycle included, unless a volume has no     *)
(* sectors in a cluster, on which the division never gets anywhere, or more *)
(* than the buffers hold.                                                   *)
ComesToAnEnd ==
  at = "target_params" ~> \/ at \in {"end", "off"}
                          \/ at \in {"fault", "overrun"} /\ outcome = "none"
=============================================================================
