--------------------------------- MODULE Fs ---------------------------------
(***************************************************************************)
(* The read-only FAT file system of fs.c after a successful fs_init: the   *)
(* table of open files, and fs_read walking a cluster chain sector by      *)
(* sector.                                                                 *)
(*                                                                         *)
(* A byte of the disk is its sector and its place in it.  Directory        *)
(* entries are records of a name, a set of attribute bits, the first       *)
(* cluster and the size.  No task runs while another is inside the file    *)
(* system; fs_read is cut at the turns of its loop, each of which reads    *)
(* the disk and can fail.                                                  *)
(*                                                                         *)
(* Definitions named Bad... are seeded faults, as in Tty.                   *)
(***************************************************************************)
EXTENDS Integers, Sequences

CONSTANTS
  SECTOR_SIZE,
  MAX_OPEN_FILES,
  current_vbpb,   \* reserved_sectors, num_fats, sectors_per_fat_16,
                  \* root_entry_count and sectors_per_cluster
  DIR_ENTRY_SIZE, \* sizeof(struct fat_dir_entry)
  root_dir,       \* the entries of the root directory
  Deleted, End,   \* names that stand for a first byte of 0xE5 and of 0
  fs_type,        \* "fat12" or "fat16"
  fat,            \* the FAT on the disk: a cluster's entry, 12-bit end marks widened
  FatErrors,      \* whether reading the FAT from the disk can fail
  Chain,          \* the clusters of a file, by its first cluster
  Root,           \* the path of the root directory
  Paths,          \* the paths programs open
  Counts,         \* the byte counts they read
  Seeks           \* the offsets and origins they seek

W == 65536               \* cluster numbers are 16 bits wide
END_OF_CHAIN == 65528    \* 0xFFF8
BAD_CLUSTER == 65527     \* 0xFFF7
Sectors == 256           \* the sectors the driver's uint8_t argument can name
LONG_NAME == {"read_only", "hidden", "system", "volume_id"}

ClusterBytes == current_vbpb.sectors_per_cluster * SECTOR_SIZE
Slots  == 0..(MAX_OPEN_FILES - 1)
NoSlot == MAX_OPEN_FILES
Closed == "closed"

root_dir_start_sector ==
  current_vbpb.reserved_sectors + current_vbpb.num_fats * current_vbpb.sectors_per_fat_16
data_start_sector ==
  root_dir_start_sector
    + (current_vbpb.root_entry_count * DIR_ENTRY_SIZE + SECTOR_SIZE - 1) \div SECTOR_SIZE
cluster_to_lba(c) == data_start_sector + ((c - 2) % W) * current_vbpb.sectors_per_cluster

ASSUME LayoutAssumption ==
  /\ SECTOR_SIZE \in Nat \ {0} /\ MAX_OPEN_FILES \in Nat \ {0} /\ DIR_ENTRY_SIZE \in Nat \ {0}
  /\ current_vbpb.sectors_per_cluster \in Nat \ {0} /\ ClusterBytes < W
  /\ current_vbpb.root_entry_count \in 0..(W - 1)
  /\ DOMAIN root_dir = 1..current_vbpb.root_entry_count
  /\ \A i \in DOMAIN root_dir : root_dir[i].first \in 0..(W - 1) /\ root_dir[i].size \in Nat
  /\ data_start_sector \in Nat
  /\ fs_type \in {"fat12", "fat16"}
  /\ fat \in [0..(W - 1) -> 0..(W - 1)] /\ FatErrors \in BOOLEAN
  /\ Counts \subseteq 1..(W - 1)
  /\ Seeks \subseteq Int \X {"set", "cur", "end"}
  /\ Paths \cap {Closed, Deleted, End} = {}

(* A file's chain has no free or end mark in it; it ends in the FAT, or the *)
(* size is reached before it does; and it lies in the first 256 sectors.     *)
ASSUME ChainAssumption ==
  \A e \in {root_dir[i] : i \in DOMAIN root_dir} :
    (e.first # 0 /\ "directory" \notin e.attribute) =>
      LET ch == Chain[e.first]
      IN  /\ ch \in Seq(2..(END_OF_CHAIN - 1)) /\ ch # << >> /\ ch[1] = e.first
          /\ \A k \in 2..Len(ch) : ch[k] = fat[ch[k - 1]]
          /\ fat[ch[Len(ch)]] >= END_OF_CHAIN \/ Len(ch) * ClusterBytes >= e.size
          /\ \A k \in 1..Len(ch) :
               cluster_to_lba(ch[k]) + current_vbpb.sectors_per_cluster <= Sectors

VARIABLES
  open_files, \* the table of struct file_object
  opened,     \* history: the path a slot was opened for
  call        \* the fs_read in progress

vars == <<open_files, opened, call>>

NoCall == [slot |-> NoSlot, count |-> 0, want |-> 0, got |-> << >>]
Reading == call.slot # NoSlot
F == open_files[call.slot]

Unused == [state |-> "unused", size |-> 0, current_offset |-> 0, first_cluster |-> 0,
           current_cluster |-> 0, offset_in_cluster |-> 0, current_dir_entry_index |-> 0]

Init ==
  /\ open_files = [s \in Slots |-> Unused]
  /\ opened = [s \in Slots |-> Closed]
  /\ call = NoCall
-----------------------------------------------------------------------------
(* The search of the root directory takes the first entry of that name      *)
(* before the end mark; an entry with any bit of the long-name mask is      *)
(* skipped, which hides read-only, hidden and system files as well.         *)
Visible(e) == e.attribute \cap LONG_NAME = {}

find_entry_in_root_dir(path, i) ==
  /\ root_dir[i].name = path /\ Visible(root_dir[i])
  /\ \A j \in 1..(i - 1) :
       root_dir[j].name # End /\ ~(root_dir[j].name = path /\ Visible(root_dir[j]))

FreeSlot(s) ==
  /\ open_files[s].state = "unused"
  /\ \A r \in 0..(s - 1) : open_files[r].state # "unused"

(* The size of a directory is not kept: nothing reads it. *)
Dir(s, cluster) ==
  [open_files[s] EXCEPT !.state = "dir", !.size = 0, !.current_offset = 0,
     !.first_cluster = cluster, !.current_cluster = cluster, !.offset_in_cluster = 0,
     !.current_dir_entry_index = 0]

File(s, e) ==
  [open_files[s] EXCEPT !.state = "file", !.size = e.size, !.current_offset = 0,
     !.first_cluster = e.first, !.current_cluster = e.first, !.offset_in_cluster = 0]

(* An entry was found.  A file without a first cluster counts as missing.   *)
Opens(s, path) ==
  \E i \in DOMAIN root_dir :
    LET e == root_dir[i]
    IN  /\ find_entry_in_root_dir(path, i)
        /\ \/ /\ "directory" \in e.attribute
              /\ open_files' = [open_files EXCEPT ![s] = Dir(s, e.first)]
           \/ /\ "directory" \notin e.attribute /\ e.first # 0
              /\ open_files' = [open_files EXCEPT ![s] = File(s, e)]

(* No entry was found, or the directory could not be read.  The entry       *)
(* buffer that is then examined was never written: whatever is in it, the   *)
(* outcome is that nothing is opened (the state is unchanged), or, as for   *)
(* the empty path, a handle like that of the root directory, with first     *)
(* cluster 0.                                                               *)
OpensGarbage(s) == open_files' = [open_files EXCEPT ![s] = Dir(s, 0)]

fs_open(path) ==
  \E s \in Slots :
    /\ ~Reading /\ FreeSlot(s)
    /\ Opens(s, path) \/ OpensGarbage(s)
    /\ opened' = [opened EXCEPT ![s] = path]
    /\ UNCHANGED call
-----------------------------------------------------------------------------
(* fs_read, up to its loop; the calls that return 0 at once do nothing.     *)
BadBytesToRead(f, n) ==         \* the last byte of a file is left out
  IF n >= f.size - f.current_offset THEN f.size - f.current_offset - 1 ELSE n

BytesToRead(f, n) ==
  IF n > f.size - f.current_offset THEN f.size - f.current_offset ELSE n

fs_read(s, n) ==
  LET f == open_files[s]
  IN  /\ ~Reading
      /\ f.state = "file" /\ f.current_offset < f.size
      /\ call' = [slot |-> s, count |-> n, want |-> BytesToRead(f, n), got |-> << >>]
      /\ UNCHANGED <<open_files, opened>>

(* The loop.  A turn at the end of a cluster, or with none chosen, first    *)
(* moves to a cluster; a turn within one copies the rest of a sector.       *)
Wanting == Reading /\ Len(call.got) < call.want
Done == call' = NoCall /\ UNCHANGED <<open_files, opened>>

BadEnter(c) ==                  \* offset_in_cluster keeps its old value
  /\ open_files' = [open_files EXCEPT ![call.slot].current_cluster = c]
  /\ call' = IF c = 0 THEN NoCall ELSE call
  /\ UNCHANGED opened

Enter(c) ==
  /\ open_files' = [open_files EXCEPT ![call.slot].current_cluster = c,
                                      ![call.slot].offset_in_cluster = 0]
  /\ call' = IF c = 0 THEN NoCall ELSE call
  /\ UNCHANGED opened

AtFirst == Wanting /\ F.current_cluster = 0
AtNext  == Wanting /\ F.current_cluster # 0 /\ F.offset_in_cluster >= ClusterBytes

(* An entry is taken as a word from a buffer of one sector.  A 12-bit entry *)
(* whose first byte is the sector's last has its upper bits in whatever     *)
(* lies behind the buffer: an odd cluster's has 4 bits in that byte, an     *)
(* even one's 8.                                                            *)
Straddles(c) == fs_type = "fat12" /\ (c + c \div 2) % SECTOR_SIZE = SECTOR_SIZE - 1
Widened(v) == IF v >= 4088 THEN 61440 + v ELSE v
Torn(c) ==
  LET known == IF c % 2 = 1 THEN 16 ELSE 256
  IN  {Widened(rest * known + (fat[c] % known)) : rest \in 0..(4096 \div known - 1)}

(* A disk error looks like the entry of a cluster that is marked bad. *)
get_fat_entry(c) ==
  (IF Straddles(c) THEN Torn(c) ELSE {fat[c]}) \cup (IF FatErrors THEN {BAD_CLUSTER} ELSE {})

StartChain  == AtFirst /\ Enter(F.first_cluster)
FollowChain ==
  AtNext /\ \E next_c \in get_fat_entry(F.current_cluster) :
    next_c < END_OF_CHAIN /\ Enter(next_c)

BadChainEnds ==                 \* the loop goes on at the end of the chain
  AtNext /\ (\E next_c \in get_fat_entry(F.current_cluster) : next_c >= END_OF_CHAIN)
         /\ UNCHANGED vars

ChainEnds ==
  AtNext /\ (\E next_c \in get_fat_entry(F.current_cluster) : next_c >= END_OF_CHAIN)
         /\ Done

BadReadLength ==                \* the caller's count is not looked at again
  SECTOR_SIZE - (F.offset_in_cluster % SECTOR_SIZE)

ReadLength ==
  LET in_sector == SECTOR_SIZE - (F.offset_in_cluster % SECTOR_SIZE)
      missing   == call.want - Len(call.got)
  IN  IF missing < in_sector THEN missing ELSE in_sector

(* The driver takes the sector as a uint8_t. *)
BadSectorByte(o) ==             \* the first sector of the cluster every time
  <<cluster_to_lba(F.current_cluster) % Sectors, o % SECTOR_SIZE>>

SectorByte(o) ==
  <<(cluster_to_lba(F.current_cluster) + o \div SECTOR_SIZE) % Sectors, o % SECTOR_SIZE>>

InCluster ==
  Wanting /\ F.current_cluster # 0 /\ F.offset_in_cluster < ClusterBytes

ReadSector ==
  LET n == ReadLength
  IN  /\ InCluster
      /\ call' = [call EXCEPT
           !.got = @ \o [i \in 1..n |-> SectorByte(F.offset_in_cluster + i - 1)]]
      /\ open_files' = [open_files EXCEPT ![call.slot].current_offset = @ + n,
                                          ![call.slot].offset_in_cluster = @ + n]
      /\ UNCHANGED opened

(* The disk reports an error. *)
ReadFails == InCluster /\ Done

Finish == Reading /\ ~Wanting /\ Done

ReadLoop == StartChain \/ FollowChain \/ ChainEnds \/ ReadSector \/ ReadFails \/ Finish
-----------------------------------------------------------------------------
NewOffset(f, offset, origin) ==
  CASE origin = "set" -> offset
    [] origin = "cur" -> f.current_offset + offset
    [] origin = "end" -> f.size + offset

(* A position past the end is accepted.  The cluster is to be found again   *)
(* by the next read.                                                        *)
fs_seek(s, offset, origin) ==
  LET f   == open_files[s]
      new == NewOffset(f, offset, origin)
  IN  /\ ~Reading
      /\ f.state # "unused" /\ ~(f.state = "dir" /\ origin = "end")
      /\ new >= 0
      /\ open_files' = [open_files EXCEPT
           ![s].current_offset = new, ![s].current_cluster = 0, ![s].offset_in_cluster = 0,
           ![s].current_dir_entry_index =
             IF f.state = "dir" THEN (new \div DIR_ENTRY_SIZE) % W ELSE @]
      /\ UNCHANGED <<opened, call>>

fs_close(s) ==
  /\ ~Reading
  /\ open_files[s].state # "unused"
  /\ open_files' = [open_files EXCEPT ![s].state = "unused"]
  /\ opened' = [opened EXCEPT ![s] = Closed]
  /\ UNCHANGED call

(* Lists the root directory, whichever directory with first cluster 0 the   *)
(* handle is for; at the end the listing starts again.  On a disk error     *)
(* nothing changes.                                                         *)
fs_read_dir(s) ==
  LET f == open_files[s]
  IN  /\ ~Reading
      /\ f.state = "dir" /\ f.first_cluster = 0
      /\ open_files' = [open_files EXCEPT ![s].current_dir_entry_index =
           IF @ >= current_vbpb.root_entry_count THEN 0 ELSE @ + 1]
      /\ UNCHANGED <<opened, call>>

Next ==
  \/ \E path \in Paths : fs_open(path)
  \/ \E s \in Slots :
       \/ \E n \in Counts : fs_read(s, n)
       \/ \E k \in Seeks : fs_seek(s, k[1], k[2])
       \/ fs_close(s)
       \/ fs_read_dir(s)
  \/ ReadLoop

(* A task inside fs_read keeps executing its loop. *)
Spec == Init /\ [][Next]_vars /\ WF_vars(ReadLoop)
-----------------------------------------------------------------------------
(* What is on the disk, by path: the bytes of a file's chain as far as its  *)
(* size and its chain go; nothing for directories and missing names.        *)
ChainByte(ch, k) ==
  LET place == k % ClusterBytes
  IN  <<cluster_to_lba(ch[k \div ClusterBytes + 1]) + place \div SECTOR_SIZE,
        place % SECTOR_SIZE>>

ContentOf(e) ==
  LET ch   == Chain[e.first]
      full == Len(ch) * ClusterBytes
  IN  [k \in 1..(IF e.size < full THEN e.size ELSE full) |-> ChainByte(ch, k - 1)]

IsFile(path, i) ==
  /\ find_entry_in_root_dir(path, i)
  /\ "directory" \notin root_dir[i].attribute /\ root_dir[i].first # 0

Content ==
  [path \in Paths |->
     IF \E i \in DOMAIN root_dir : IsFile(path, i)
     THEN ContentOf(root_dir[CHOOSE i \in DOMAIN root_dir : IsFile(path, i)])
     ELSE << >>]
-----------------------------------------------------------------------------
FileObject ==
  [state : {"unused", "file", "dir"}, size : Nat, current_offset : Nat,
   first_cluster : 0..(W - 1), current_cluster : 0..(W - 1),
   offset_in_cluster : 0..ClusterBytes, current_dir_entry_index : 0..(W - 1)]

TypeOK ==
  /\ open_files \in [Slots -> FileObject]
  /\ opened \in [Slots -> Paths \cup {Closed}]
  /\ call \in [slot : Slots \cup {NoSlot}, count : Counts \cup {0}, want : 0..(W - 1),
               got : Seq((0..(Sectors - 1)) \X (0..(SECTOR_SIZE - 1)))]
  /\ Len(call.got) <= call.want /\ call.want <= call.count

(* The three fields that say where a file is read agree: current_cluster is *)
(* the cluster of the file's own chain that current_offset lies in or has   *)
(* just reached the end of, offset_in_cluster the rest; with no cluster     *)
(* chosen, the file is at its start or at or past its end (fs.c:457-472,    *)
(* 511-513, 565-569 keep them apart).                                       *)
PositionAgrees(f) ==
  \/ /\ f.current_cluster = 0 /\ f.offset_in_cluster = 0
     /\ f.current_offset = 0 \/ f.current_offset >= f.size
  \/ \E k \in 1..Len(Chain[f.first_cluster]) :
       /\ f.current_cluster = Chain[f.first_cluster][k]
       /\ f.current_offset = (k - 1) * ClusterBytes + f.offset_in_cluster

PositionsAgree ==
  \A s \in Slots : open_files[s].state = "file" => PositionAgrees(open_files[s])

(* Whatever is done with several handles, each read hands out the bytes of  *)
(* the file its handle was opened for, in order, from the position the      *)
(* earlier calls have left; a handle is given to one user at a time.        *)
Files == INSTANCE Files WITH
  Handles <- Slots,
  file <- opened,
  position <- [s \in Slots |-> open_files[s].current_offset],
  reader <- call.slot,
  got <- call.got

ImplementsFiles == Files!Spec

(* fs_read returns less than was asked for only at the end of what the file *)
(* has on the disk, or because of a disk error: a short count is not taken  *)
(* for the end of the file by its callers (pkg.c:65, 94) without reason.    *)
WholeRead ==
  [][Reading /\ call' = NoCall /\ ~ReadFails =>
       \/ Len(call.got) = call.count
       \/ F.current_offset = Len(Content[opened[call.slot]])]_vars

(* fs_read comes back, on cyclic chains and chains that end early too. *)
ReadEnds == Reading ~> ~Reading

(* fs.c:566: after a seek the cluster and the offset in it are recomputed   *)
(* by the next read: what it returns are the bytes at the new offset.       *)
ReadsAtOffset ==
  Reading =>
    LET start == F.current_offset - Len(call.got)
    IN  call.got = SubSeq(Content[opened[call.slot]], start + 1, F.current_offset)

(* fs.c:465: the chain is left at an end mark "veya Bad Cluster": no data is *)
(* read from a cluster that is marked bad or whose number could not be read. *)
BadClusterNotRead == InCluster => F.current_cluster # BAD_CLUSTER

(* fs.c:44: the value of a cluster's entry in the FAT is read: the read goes *)
(* on at the cluster it names, and ends there if it is an end mark.         *)
FatFollowed ==
  [][AtNext /\ vars' # vars =>
       IF fat[F.current_cluster] >= END_OF_CHAIN THEN call' = NoCall
       ELSE open_files'[call.slot].current_cluster = fat[F.current_cluster]]_vars

=============================================================================
