------------------------------- MODULE InstFat -------------------------------
(***************************************************************************)
(* inst_fat_read.c: what the installer reads out of a boot sector, a FAT,   *)
(* a root directory and a partition table.  A boot sector is given by the   *)
(* values found in the fields of the structure the code lays over it, which *)
(* are not those a formatter put there: struct min_vbpb is packed, without  *)
(* the gaps between the fields of a boot sector (inst_fat_read.h:13-39).    *)
(***************************************************************************)
EXTENDS Integers, Sequences

CONSTANTS
  SECTOR_SIZE,     \* in bytes
  DIR_ENTRY_SIZE,  \* sizeof(struct fat_dir_entry)
  FAT12_CLUSTERS,  \* a FAT of fewer clusters than this (4085) is a FAT12
  LAST_CLUSTER     \* of the FATs there are

ASSUME InstFatAssumption ==
  /\ DIR_ENTRY_SIZE \in Nat \ {0} /\ FAT12_CLUSTERS \in Nat \ {0}
  /\ SECTOR_SIZE \in Nat \ {0} /\ SECTOR_SIZE % DIR_ENTRY_SIZE = 0
  /\ LAST_CLUSTER \in Nat \ {0, 1}

(* The values of an entry: 0 of a free cluster, a cluster, BAD for a number *)
(* past the last cluster, which 0xFFF7, the answer of a failed read, is     *)
(* too, and END_OF_CHAIN for what the code makes 0xFFF8 or more.            *)
BAD == LAST_CLUSTER + 1
END_OF_CHAIN == LAST_CLUSTER + 2
FatValues == 0..END_OF_CHAIN

(* What the code finds in the fields, v: signed for a boot_signature of     *)
(* 0xAA55.  total_sectors_16, which it reads too, is no field of it.        *)
root_dir_sectors(v) ==
  (v.root_entry_count * DIR_ENTRY_SIZE + SECTOR_SIZE - 1) \div SECTOR_SIZE
fat_start_sector(v) == v.reserved_sectors
root_dir_start_sector(v) == fat_start_sector(v) + v.num_fats * v.sectors_per_fat_16
data_start_sector(v) == root_dir_start_sector(v) + root_dir_sectors(v)

ValidVbpb(v) ==
  /\ v.signed
  /\ v.bytes_per_sector = SECTOR_SIZE /\ v.num_fats # 0 /\ v.sectors_per_fat_16 # 0

(* With no sectors per cluster the number of clusters is a division by 0.   *)
Divides(v) == v.sectors_per_cluster # 0

(* A volume smaller than its own tables has a negative number of data       *)
(* sectors, in 32 bits a very large one.                                    *)
fs_type(v) ==
  LET total == IF v.total_sectors_16 = 0 THEN v.total_sectors_32 ELSE v.total_sectors_16
      data  == total - data_start_sector(v)
  IN  IF data >= 0 /\ data \div v.sectors_per_cluster < FAT12_CLUSTERS
        THEN "FAT12" ELSE "FAT16"

cluster_to_lba(v, c) ==
  IF c < 2 THEN 0 ELSE data_start_sector(v) + (c - 2) * v.sectors_per_cluster

(* The FAT: the sector an entry is in, and what is read for it.  A 12-bit   *)
(* entry on the last byte of a sector is completed with the byte after the  *)
(* buffer, whatever that is.                                                *)
FatOffset(v, c) == IF fs_type(v) = "FAT12" THEN c + c \div 2 ELSE 2 * c
FatSector(v, c) == fat_start_sector(v) + FatOffset(v, c) \div SECTOR_SIZE
Straddles(v, c) ==
  fs_type(v) = "FAT12" /\ FatOffset(v, c) % SECTOR_SIZE = SECTOR_SIZE - 1

FatEntries(v, fat, c) == IF Straddles(v, c) THEN FatValues ELSE {fat[c]}

(* The root directory: the first entry of a sector that stops the search.   *)
(* A set attribute bit of those a long name has makes an entry be skipped.  *)
LONG_NAME == {"read_only", "hidden", "system", "volume_id"}
IsKernel(e) == e.name = "KERNEL" /\ e.attribute \cap (LONG_NAME \cup {"directory"}) = {}

BadStops(dir) == {j \in DOMAIN dir : IsKernel(dir[j])}
Stops(dir) == {j \in DOMAIN dir : dir[j].name = "end" \/ IsKernel(dir[j])}
StopsIn(dir, i) == {j \in Stops(dir) : (j - 1) \div (SECTOR_SIZE \div DIR_ENTRY_SIZE) = i}
First(S) == CHOOSE j \in S : \A k \in S : j <= k

(* The partition table: the first bootable FAT partition. *)
NoPartition == -1
FAT_TYPES == {1, 4, 6}
FindPartition(mbr) ==
  LET fits == {i \in DOMAIN mbr.entry : /\ mbr.entry[i].boot_indicator = 128
                                        /\ mbr.entry[i].system_id \in FAT_TYPES}
  IN  IF mbr.signed /\ fits # {} THEN mbr.entry[First(fits)].start_lba ELSE NoPartition
=============================================================================
