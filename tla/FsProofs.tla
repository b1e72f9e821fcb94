------------------------------ MODULE FsProofs ------------------------------
(***************************************************************************)
(* Theorems about Fs for every disk that satisfies the assumptions of that *)
(* module, any number of slots and any read counts.                        *)
(*                                                                         *)
(* They rest on two assumptions, without which they are false (see the     *)
(* runs fs_seek and fs_bad): programs seek only to the start of a file, or *)
(* to its end and beyond, and the FAT can be read.                         *)
(***************************************************************************)
EXTENDS Fs, SequenceTheorems, TLAPS

SeeksToTheEnds ==
  \A k \in Seeks : (k[2] = "set" /\ k[1] <= 0) \/ (k[2] = "end" /\ k[1] >= 0)

(* The FAT can be read, and no file has an entry on two sectors, which only *)
(* a 12-bit FAT has: fs.c:69 takes such an entry from one of them.          *)
FatRead ==
  /\ ~FatErrors
  /\ \A i \in DOMAIN root_dir :
       (root_dir[i].first # 0 /\ "directory" \notin root_dir[i].attribute) =>
         \A k \in 1..Len(Chain[root_dir[i].first]) : ~Straddles(Chain[root_dir[i].first][k])

(* What is true of each slot: it is in use exactly if it was opened, and a  *)
(* file in it is the one its path names, at a position that agrees.         *)
FileOf(f, path) ==
  \E i \in DOMAIN root_dir : /\ path \in Paths /\ IsFile(path, i)
                             /\ f.size = root_dir[i].size
                             /\ f.first_cluster = root_dir[i].first

SlotInv(f, path) ==
  /\ f.state = "unused" <=> path = Closed
  /\ f.state = "file" => FileOf(f, path) /\ PositionAgrees(f)

(* A read never wants more than the file still has. *)
CallInv ==
  /\ Reading => /\ F.state = "file"
                /\ F.current_offset + (call.want - Len(call.got)) <= F.size
  /\ ~Reading => call = NoCall

IInv ==
  /\ TypeOK
  /\ \A s \in Slots : SlotInv(open_files[s], opened[s])
  /\ CallInv
-----------------------------------------------------------------------------
(* Arithmetic of sectors in clusters and clusters in chains. *)
LEMMA Divide ==
  ASSUME NEW d \in Nat, d > 0, NEW x \in Nat
  PROVE  x \div d \in Nat /\ x % d \in 0..(d - 1) /\ x = d * (x \div d) + (x % d)
  BY SMT

LEMMA Recompose ==
  ASSUME NEW d \in Nat, d > 0, NEW q \in Nat, NEW r \in Nat, r < d
  PROVE  (q * d + r) \div d = q /\ (q * d + r) % d = r
<1>1. (q * d + r) \div d = q
  BY SMT
<1>2. (q * d + r) % d = r
  BY SMT
<1> QED BY <1>1, <1>2

LEMMA WholeSectors ==
  ASSUME NEW s \in Nat, s > 0, NEW c \in Nat, NEW o \in Nat, o < c * s
  PROVE  o \div s < c /\ o + (s - (o % s)) <= c * s
<1> DEFINE q == o \div s
           r == o % s
<1>1. q \in Nat /\ r \in 0..(s - 1) /\ o = s * q + r
  BY Divide
<1> HIDE DEF q, r
<1>2. q < c
  BY <1>1
<1>3. s * q + s <= c * s
  BY <1>1, <1>2
<1>4. o + (s - r) = s * q + s
  BY <1>1
<1> QED BY <1>2, <1>3, <1>4 DEF q, r

LEMMA NextBlock ==
  ASSUME NEW k \in Nat, NEW c \in Nat
  PROVE  (k - 1) * c + c = k * c
  BY SMT

LEMMA Multiples ==
  ASSUME NEW k \in Nat, NEW m \in Nat, NEW c \in Nat, k <= m
  PROVE  k * c <= m * c
  BY SMT

LEMMA Constants ==
  /\ SECTOR_SIZE \in Nat /\ SECTOR_SIZE > 0
  /\ current_vbpb.sectors_per_cluster \in Nat /\ current_vbpb.sectors_per_cluster > 0
  /\ ClusterBytes = current_vbpb.sectors_per_cluster * SECTOR_SIZE
  /\ ClusterBytes \in Nat /\ ClusterBytes > 0 /\ data_start_sector \in Nat
  /\ NoSlot \notin Slots /\ Closed \notin Paths /\ Counts \subseteq 1..(W - 1)
<1>1. /\ SECTOR_SIZE \in Nat /\ SECTOR_SIZE > 0
      /\ Closed \notin Paths /\ Counts \subseteq 1..(W - 1) /\ MAX_OPEN_FILES \in Nat
      /\ data_start_sector \in Nat
  BY LayoutAssumption
<1>2. current_vbpb.sectors_per_cluster \in Nat /\ current_vbpb.sectors_per_cluster > 0
  BY LayoutAssumption
<1>3. NoSlot \notin Slots
  BY <1>1 DEF NoSlot, Slots
<1>4. \A c, s \in Nat : c > 0 /\ s > 0 => c * s \in Nat /\ c * s > 0
  BY SMT
<1>5. ClusterBytes \in Nat /\ ClusterBytes > 0
  BY <1>1, <1>2, <1>4 DEF ClusterBytes
<1> QED BY <1>1, <1>2, <1>3, <1>5 DEF ClusterBytes

LEMMA Limits ==
  /\ W \in Nat /\ END_OF_CHAIN \in Nat /\ Sectors \in Nat /\ Sectors > 0
  /\ BAD_CLUSTER < END_OF_CHAIN /\ 2 < END_OF_CHAIN /\ END_OF_CHAIN < W
  BY DEF W, END_OF_CHAIN, Sectors, BAD_CLUSTER
-----------------------------------------------------------------------------
(* The search finds one entry, and what it finds has a sound chain. *)
LEMMA FoundOnce ==
  ASSUME NEW path, NEW i \in DOMAIN root_dir, NEW j \in DOMAIN root_dir,
         find_entry_in_root_dir(path, i), find_entry_in_root_dir(path, j)
  PROVE  i = j
<1>1. i \in Nat /\ j \in Nat /\ i >= 1 /\ j >= 1
  BY LayoutAssumption
<1>2. ~(i < j)
  BY <1>1 DEF find_entry_in_root_dir
<1>3. ~(j < i)
  BY <1>1 DEF find_entry_in_root_dir
<1> QED BY <1>1, <1>2, <1>3

(* What find_entry_in_root_dir has found for a file. *)
ChainFacts(e, ch) ==
  /\ e.first \in 1..(W - 1) /\ e.size \in Nat
  /\ ch \in Seq(2..(END_OF_CHAIN - 1)) /\ Len(ch) \in Nat /\ Len(ch) >= 1
  /\ ch[1] = e.first
  /\ \A k \in 1..Len(ch) : ch[k] \in 2..(END_OF_CHAIN - 1)
  /\ \A k \in 2..Len(ch) : ch[k] = fat[ch[k - 1]]
  /\ fat[ch[Len(ch)]] >= END_OF_CHAIN \/ Len(ch) * ClusterBytes >= e.size
  /\ \A k \in 1..Len(ch) :
       cluster_to_lba(ch[k]) + current_vbpb.sectors_per_cluster <= Sectors

LEMMA ChainOf ==
  ASSUME NEW path, NEW i \in DOMAIN root_dir, IsFile(path, i)
  PROVE  ChainFacts(root_dir[i], Chain[root_dir[i].first])
<1> DEFINE e  == root_dir[i]
           ch == Chain[e.first]
<1>1. e.first # 0
  BY DEF IsFile
<1>2. "directory" \notin e.attribute
  BY DEF IsFile
<1>3. e \in {root_dir[j] : j \in DOMAIN root_dir}
  OBVIOUS
<1>4. /\ ch \in Seq(2..(END_OF_CHAIN - 1)) /\ ch # << >> /\ ch[1] = e.first
      /\ \A k \in 2..Len(ch) : ch[k] = fat[ch[k - 1]]
      /\ fat[ch[Len(ch)]] >= END_OF_CHAIN \/ Len(ch) * ClusterBytes >= e.size
      /\ \A k \in 1..Len(ch) :
           cluster_to_lba(ch[k]) + current_vbpb.sectors_per_cluster <= Sectors
  BY <1>1, <1>2, <1>3, ChainAssumption, Zenon
<1>5. e.first \in 0..(W - 1) /\ e.size \in Nat
  BY LayoutAssumption
<1> HIDE DEF e, ch
<1>6. e.first \in 1..(W - 1)
  BY <1>1, <1>5, Limits
<1>7. Len(ch) \in Nat /\ Len(ch) >= 1 /\ \A k \in 1..Len(ch) : ch[k] \in 2..(END_OF_CHAIN - 1)
  <2>1. Len(ch) \in Nat /\ (Len(ch) = 0 => ch = << >>)
    BY <1>4, LenProperties, EmptySeq
  <2>2. Len(ch) >= 1
    BY <1>4, <2>1
  <2>3. \A k \in 1..Len(ch) : ch[k] \in 2..(END_OF_CHAIN - 1)
    BY <1>4, ElementOfSeq
  <2> QED BY <2>1, <2>2, <2>3
<1>8. ChainFacts(e, ch)
  BY <1>4, <1>5, <1>6, <1>7 DEF ChainFacts
<1> QED BY <1>8 DEF e, ch
-----------------------------------------------------------------------------
LEMMA InitIInv == Init => IInv
<1> SUFFICES ASSUME Init PROVE IInv
  OBVIOUS
<1>1. NoCall \in [slot : Slots \cup {NoSlot}, count : Counts \cup {0}, want : 0..(W - 1),
                  got : Seq((0..(Sectors - 1)) \X (0..(SECTOR_SIZE - 1)))]
  <2>1. 0 \in 0..(W - 1)
    BY Limits
  <2>2. << >> \in Seq((0..(Sectors - 1)) \X (0..(SECTOR_SIZE - 1)))
    OBVIOUS
  <2> QED BY <2>1, <2>2 DEF NoCall
<1>2. NoCall.want = 0 /\ NoCall.count = 0 /\ Len(NoCall.got) = 0 /\ NoCall.slot = NoSlot
  BY DEF NoCall
<1>3. Unused \in FileObject
  BY Constants, Limits DEF Unused, FileObject
<1>4. TypeOK
  BY <1>1, <1>2, <1>3 DEF Init, TypeOK
<1>5. \A s \in Slots : SlotInv(open_files[s], opened[s])
  BY DEF Init, SlotInv, Unused
<1>6. CallInv
  BY <1>2 DEF CallInv, Init, Reading
<1> QED BY <1>4, <1>5, <1>6 DEF IInv

(* A step that changes one slot and leaves every call where it was. *)
LEMMA SlotStep ==
  ASSUME IInv, ~Reading, NEW s \in Slots, NEW f \in FileObject, NEW path \in Paths \cup {Closed},
         open_files' = [open_files EXCEPT ![s] = f],
         opened' = [opened EXCEPT ![s] = path],
         call' = call, SlotInv(f, path)
  PROVE  IInv'
<1>1. /\ open_files \in [Slots -> FileObject] /\ opened \in [Slots -> Paths \cup {Closed}]
      /\ \A t \in Slots : SlotInv(open_files[t], opened[t])
  BY DEF IInv, TypeOK
<1>2. /\ open_files' \in [Slots -> FileObject] /\ opened' \in [Slots -> Paths \cup {Closed}]
      /\ open_files'[s] = f /\ opened'[s] = path
      /\ \A t \in Slots : t # s => open_files'[t] = open_files[t] /\ opened'[t] = opened[t]
  BY <1>1
<1>3. TypeOK'
  BY <1>2 DEF IInv, TypeOK
<1>4. \A t \in Slots : SlotInv(open_files'[t], opened'[t])
  BY <1>1, <1>2
<1>5. CallInv'
  BY DEF IInv, CallInv, Reading
<1> QED BY <1>3, <1>4, <1>5 DEF IInv

LEMMA OpenKeeps ==
  ASSUME IInv, NEW path \in Paths, fs_open(path)
  PROVE  IInv'
<1>1. PICK s \in Slots :
        /\ ~Reading /\ FreeSlot(s)
        /\ Opens(s, path) \/ OpensGarbage(s)
        /\ opened' = [opened EXCEPT ![s] = path]
        /\ UNCHANGED call
  BY DEF fs_open
<1> DEFINE g == open_files[s]
<1>2. g \in FileObject
  BY DEF IInv, TypeOK
<1>3. path # Closed
  BY Constants
<1>4. 0 \in 0..(W - 1) /\ 0 \in 0..ClusterBytes
  BY Constants, Limits
<1>5. ASSUME NEW c \in 0..(W - 1), open_files' = [open_files EXCEPT ![s] = Dir(s, c)]
      PROVE  IInv'
  <2>1. Dir(s, c) \in FileObject /\ Dir(s, c).state = "dir"
    BY <1>2, <1>4 DEF Dir, FileObject
  <2>2. SlotInv(Dir(s, c), path)
    BY <1>3, <2>1 DEF SlotInv
  <2> QED BY <1>1, <1>5, <2>1, <2>2, SlotStep
<1>6. CASE OpensGarbage(s)
  BY <1>4, <1>5, <1>6 DEF OpensGarbage
<1>7. CASE Opens(s, path)
  <2>1. PICK i \in DOMAIN root_dir :
          /\ find_entry_in_root_dir(path, i)
          /\ \/ /\ "directory" \in root_dir[i].attribute
                /\ open_files' = [open_files EXCEPT ![s] = Dir(s, root_dir[i].first)]
             \/ /\ "directory" \notin root_dir[i].attribute /\ root_dir[i].first # 0
                /\ open_files' = [open_files EXCEPT ![s] = File(s, root_dir[i])]
    BY <1>7 DEF Opens
  <2> DEFINE e == root_dir[i]
  <2>2. e.first \in 0..(W - 1) /\ e.size \in Nat
    BY LayoutAssumption
  <2>3. CASE open_files' = [open_files EXCEPT ![s] = Dir(s, e.first)]
    BY <1>5, <2>2, <2>3
  <2>4. CASE /\ "directory" \notin e.attribute /\ e.first # 0
             /\ open_files' = [open_files EXCEPT ![s] = File(s, e)]
    <3>1. IsFile(path, i)
      BY <2>1, <2>4 DEF IsFile
    <3>2. ChainFacts(e, Chain[e.first])
      BY <3>1, ChainOf
    <3> HIDE DEF e, g
    <3> DEFINE f == File(s, e)
    <3>3. /\ f \in FileObject /\ f.state = "file" /\ f.size = e.size
          /\ f.first_cluster = e.first /\ f.current_cluster = e.first
          /\ f.current_offset = 0 /\ f.offset_in_cluster = 0
      BY <1>2, <1>4, <2>2 DEF File, FileObject, g
    <3> HIDE DEF f
    <3>4. FileOf(f, path)
      BY <3>1, <3>3 DEF FileOf, e
    <3>5. PositionAgrees(f)
      <4>1. /\ 1 \in 1..Len(Chain[f.first_cluster])
            /\ f.current_cluster = Chain[f.first_cluster][1]
        BY <3>2, <3>3 DEF ChainFacts
      <4>2. f.current_offset = (1 - 1) * ClusterBytes + f.offset_in_cluster
        BY <3>3, Constants
      <4> QED BY <4>1, <4>2 DEF PositionAgrees
    <3>6. SlotInv(f, path)
      BY <1>3, <3>3, <3>4, <3>5 DEF SlotInv
    <3>7. open_files' = [open_files EXCEPT ![s] = f]
      BY <2>4 DEF f
    <3> QED BY <1>1, <3>3, <3>6, <3>7, SlotStep
  <2> QED BY <2>1, <2>3, <2>4
<1> QED BY <1>1, <1>6, <1>7

LEMMA CloseKeeps ==
  ASSUME IInv, NEW s \in Slots, fs_close(s)
  PROVE  IInv'
<1> DEFINE f == [open_files[s] EXCEPT !.state = "unused"]
<1>1. open_files[s] \in FileObject /\ open_files \in [Slots -> FileObject]
  BY DEF IInv, TypeOK
<1>2. f \in FileObject /\ f.state = "unused"
  BY <1>1 DEF FileObject
<1>3. open_files' = [open_files EXCEPT ![s] = f]
  BY <1>1 DEF fs_close
<1>4. SlotInv(f, Closed)
  BY <1>2 DEF SlotInv
<1> HIDE DEF f
<1>5. ~Reading /\ opened' = [opened EXCEPT ![s] = Closed] /\ call' = call
  BY DEF fs_close
<1> QED BY <1>2, <1>3, <1>4, <1>5, SlotStep

LEMMA ReadDirKeeps ==
  ASSUME IInv, NEW s \in Slots, fs_read_dir(s)
  PROVE  IInv'
<1> DEFINE g == open_files[s]
           x == IF g.current_dir_entry_index >= current_vbpb.root_entry_count THEN 0
                ELSE g.current_dir_entry_index + 1
           f == [g EXCEPT !.current_dir_entry_index = x]
<1>1. /\ g \in FileObject /\ open_files \in [Slots -> FileObject]
      /\ opened \in [Slots -> Paths \cup {Closed}]
      /\ SlotInv(g, opened[s])
  BY DEF IInv, TypeOK
<1>2. g.state = "dir" /\ ~Reading /\ opened' = opened /\ call' = call
  BY DEF fs_read_dir
<1>3. x \in 0..(W - 1)
  <2>1. current_vbpb.root_entry_count \in 0..(W - 1) /\ g.current_dir_entry_index \in 0..(W - 1)
    BY <1>1, LayoutAssumption DEF FileObject
  <2> QED BY <2>1, Limits
<1>4. open_files' = [open_files EXCEPT ![s] = f]
  BY <1>1 DEF fs_read_dir
<1> HIDE DEF x
<1>5. f \in FileObject /\ f.state = "dir"
  BY <1>1, <1>2, <1>3 DEF FileObject
<1>6. SlotInv(f, opened[s])
  BY <1>1, <1>2, <1>5 DEF SlotInv
<1> HIDE DEF f, g
<1>7. opened' = [opened EXCEPT ![s] = opened[s]] /\ opened[s] \in Paths \cup {Closed}
  BY <1>1, <1>2
<1> QED BY <1>2, <1>4, <1>5, <1>6, <1>7, SlotStep

LEMMA SeekKeeps ==
  ASSUME IInv, SeeksToTheEnds, NEW s \in Slots, NEW k \in Seeks, fs_seek(s, k[1], k[2])
  PROVE  IInv'
<1> DEFINE g   == open_files[s]
           new == NewOffset(g, k[1], k[2])
           x   == IF g.state = "dir" THEN (new \div DIR_ENTRY_SIZE) % W
                  ELSE g.current_dir_entry_index
           f   == [g EXCEPT !.current_offset = new, !.current_cluster = 0,
                            !.offset_in_cluster = 0, !.current_dir_entry_index = x]
<1>1. /\ g \in FileObject /\ open_files \in [Slots -> FileObject]
      /\ opened \in [Slots -> Paths \cup {Closed}]
      /\ SlotInv(g, opened[s])
  BY DEF IInv, TypeOK
<1>2. /\ ~Reading /\ opened' = opened /\ call' = call /\ new >= 0
      /\ g.state # "unused"
  BY DEF fs_seek
<1>3. open_files' = [open_files EXCEPT ![s] = f]
  BY <1>1 DEF fs_seek
<1>4. k[1] \in Int /\ ((k[2] = "set" /\ k[1] <= 0) \/ (k[2] = "end" /\ k[1] >= 0))
  BY LayoutAssumption DEF SeeksToTheEnds
<1>5. g.size \in Nat /\ g.current_dir_entry_index \in 0..(W - 1)
  BY <1>1 DEF FileObject
<1>6. new \in Nat /\ (new = 0 \/ new >= g.size)
  <2>1. CASE k[2] = "set"
    <3>1. new = k[1]
      BY <2>1 DEF NewOffset
    <3>2. k[1] <= 0
      BY <1>4, <2>1
    <3> HIDE DEF new
    <3> QED BY <1>2, <1>4, <3>1, <3>2
  <2>2. CASE k[2] = "end"
    <3>1. new = g.size + k[1]
      BY <2>2 DEF NewOffset
    <3>2. k[1] >= 0
      BY <1>4, <2>2
    <3> HIDE DEF new, g
    <3> QED BY <1>4, <1>5, <3>1, <3>2
  <2> QED BY <1>4, <2>1, <2>2
<1> HIDE DEF new
<1>7. x \in 0..(W - 1)
  <2>1. DIR_ENTRY_SIZE \in Nat /\ DIR_ENTRY_SIZE > 0
    BY LayoutAssumption
  <2>2. new \div DIR_ENTRY_SIZE \in Nat
    BY <1>6, <2>1, Divide
  <2>3. (new \div DIR_ENTRY_SIZE) % W \in 0..(W - 1)
    BY <2>2, Limits, Divide
  <2> QED BY <1>5, <2>3
<1> HIDE DEF x
<1>8. /\ f \in FileObject /\ f.state = g.state /\ f.size = g.size
      /\ f.first_cluster = g.first_cluster /\ f.current_cluster = 0
      /\ f.offset_in_cluster = 0 /\ f.current_offset = new
  <2>1. 0 \in 0..(W - 1) /\ 0 \in 0..ClusterBytes
    BY Constants, Limits
  <2> QED BY <1>1, <1>6, <1>7, <2>1 DEF FileObject
<1> HIDE DEF f, g
<1>9. SlotInv(f, opened[s])
  <2>1. PositionAgrees(f)
    BY <1>6, <1>8 DEF PositionAgrees
  <2>2. FileOf(g, opened[s]) => FileOf(f, opened[s])
    BY <1>8 DEF FileOf
  <2> QED BY <1>1, <1>8, <2>1, <2>2 DEF SlotInv
<1>10. opened' = [opened EXCEPT ![s] = opened[s]] /\ opened[s] \in Paths \cup {Closed}
  BY <1>1, <1>2
<1> QED BY <1>2, <1>3, <1>8, <1>9, <1>10, SlotStep
-----------------------------------------------------------------------------
(* The steps of a read.                                                     *)
LEMMA StartKeeps ==
  ASSUME IInv, NEW s \in Slots, NEW n \in Counts, fs_read(s, n)
  PROVE  IInv'
<1> DEFINE f == open_files[s]
           want == BytesToRead(f, n)
<1>1. /\ ~Reading /\ f.state = "file" /\ f.current_offset < f.size
      /\ call' = [slot |-> s, count |-> n, want |-> want, got |-> << >>]
      /\ open_files' = open_files /\ opened' = opened
  BY DEF fs_read
<1>2. f.size \in Nat /\ f.current_offset \in Nat /\ n \in 1..(W - 1) /\ W \in Nat
  BY Constants, Limits DEF IInv, TypeOK, FileObject
<1>3. /\ want \in 0..(W - 1) /\ want <= n
      /\ f.current_offset + want <= f.size
  <2> DEFINE left == f.size - f.current_offset
  <2>1. want = IF n > left THEN left ELSE n
    BY DEF BytesToRead
  <2>2. left \in Nat /\ f.current_offset + left = f.size
    BY <1>1, <1>2
  <2> HIDE DEF left, want, f
  <2>3. want \in 0..(W - 1) /\ want <= n /\ want <= left /\ want \in Nat
    BY <1>2, <2>1, <2>2
  <2> QED BY <1>2, <2>2, <2>3
<1> HIDE DEF want
<1>4. /\ call'.slot = s /\ call'.count = n /\ call'.want = want /\ call'.got = << >>
      /\ Len(call'.got) = 0
  BY <1>1
<1>5. TypeOK'
  <2>1. << >> \in Seq((0..(Sectors - 1)) \X (0..(SECTOR_SIZE - 1)))
    OBVIOUS
  <2>2. call' \in [slot : Slots \cup {NoSlot}, count : Counts \cup {0}, want : 0..(W - 1),
                   got : Seq((0..(Sectors - 1)) \X (0..(SECTOR_SIZE - 1)))]
    BY <1>1, <1>3, <2>1
  <2>3. Len(call'.got) <= call'.want /\ call'.want <= call'.count
    BY <1>3, <1>4
  <2> QED BY <1>1, <2>2, <2>3 DEF IInv, TypeOK
<1>6. \A t \in Slots : SlotInv(open_files'[t], opened'[t])
  BY <1>1 DEF IInv
<1>7. CallInv'
  <2>1. Reading'
    BY <1>4, Constants DEF Reading
  <2>2. F' = f
    BY <1>1, <1>4 DEF F
  <2>3. F'.current_offset + (call'.want - Len(call'.got)) <= F'.size
    BY <1>2, <1>3, <1>4, <2>2
  <2> QED BY <1>1, <2>1, <2>2, <2>3 DEF CallInv
<1> QED BY <1>5, <1>6, <1>7 DEF IInv

LEMMA DoneKeeps ==
  ASSUME IInv, Done
  PROVE  IInv'
<1>1. call' = NoCall /\ open_files' = open_files /\ opened' = opened
  BY DEF Done
<1>2. /\ NoCall.want = 0 /\ NoCall.count = 0 /\ Len(NoCall.got) = 0 /\ NoCall.slot = NoSlot
      /\ NoCall \in [slot : Slots \cup {NoSlot}, count : Counts \cup {0}, want : 0..(W - 1),
                     got : Seq((0..(Sectors - 1)) \X (0..(SECTOR_SIZE - 1)))]
  <2>1. 0 \in 0..(W - 1)
    BY Limits
  <2>2. << >> \in Seq((0..(Sectors - 1)) \X (0..(SECTOR_SIZE - 1)))
    OBVIOUS
  <2> QED BY <2>1, <2>2 DEF NoCall
<1>3. TypeOK'
  BY <1>1, <1>2 DEF IInv, TypeOK
<1>4. \A t \in Slots : SlotInv(open_files'[t], opened'[t])
  BY <1>1 DEF IInv
<1>5. CallInv'
  BY <1>1, <1>2 DEF CallInv, Reading
<1> QED BY <1>3, <1>4, <1>5 DEF IInv

(* What is known of the file being read. *)
LEMMA InRead ==
  ASSUME IInv, Wanting
  PROVE  /\ Reading /\ call.slot \in Slots
         /\ open_files \in [Slots -> FileObject] /\ F \in FileObject
         /\ F.state = "file" /\ opened[call.slot] \in Paths
         /\ call.want \in 0..(W - 1) /\ Len(call.got) \in Nat
         /\ call.got \in Seq((0..(Sectors - 1)) \X (0..(SECTOR_SIZE - 1)))
         /\ Len(call.got) < call.want
         /\ F.current_offset + (call.want - Len(call.got)) <= F.size
         /\ F.current_offset < F.size
         /\ PositionAgrees(F)
         /\ FileOf(F, opened[call.slot])
<1>1. Reading /\ Len(call.got) < call.want
  BY DEF Wanting
<1>2. /\ call.slot \in Slots /\ call.want \in 0..(W - 1)
      /\ call.got \in Seq((0..(Sectors - 1)) \X (0..(SECTOR_SIZE - 1)))
      /\ open_files \in [Slots -> FileObject]
  BY <1>1 DEF IInv, TypeOK, Reading
<1>3. F \in FileObject
  BY <1>2 DEF F
<1>4. F.state = "file" /\ F.current_offset + (call.want - Len(call.got)) <= F.size
  BY <1>1 DEF IInv, CallInv
<1>5. FileOf(F, opened[call.slot]) /\ PositionAgrees(F)
  BY <1>2, <1>4 DEF IInv, SlotInv, F
<1>6. opened[call.slot] \in Paths
  BY <1>5 DEF FileOf
<1>7. Len(call.got) \in Nat
  BY <1>2, LenProperties
<1>8. F.current_offset \in Nat /\ F.size \in Nat
  BY <1>3 DEF FileObject
<1>9. F.current_offset < F.size
  BY <1>1, <1>2, <1>4, <1>7, <1>8
<1> QED BY <1>1, <1>2, <1>3, <1>4, <1>5, <1>6, <1>7, <1>9

(* A turn of the loop that changes the file being read. *)
LEMMA TurnStep ==
  ASSUME IInv, Wanting, NEW f \in FileObject,
         NEW got \in Seq((0..(Sectors - 1)) \X (0..(SECTOR_SIZE - 1))),
         open_files' = [open_files EXCEPT ![call.slot] = f],
         opened' = opened, call' = [call EXCEPT !.got = got],
         f.state = "file", f.size = F.size, f.first_cluster = F.first_cluster,
         PositionAgrees(f),
         Len(got) <= call.want, f.current_offset + (call.want - Len(got)) <= f.size
  PROVE  IInv'
<1>1. /\ Reading /\ call.slot \in Slots /\ open_files \in [Slots -> FileObject]
      /\ FileOf(F, opened[call.slot]) /\ opened[call.slot] \in Paths
  BY InRead
<1>2. call \in [slot : Slots \cup {NoSlot}, count : Counts \cup {0}, want : 0..(W - 1),
                got : Seq((0..(Sectors - 1)) \X (0..(SECTOR_SIZE - 1)))]
  BY DEF IInv, TypeOK
<1>3. /\ call'.slot = call.slot /\ call'.want = call.want /\ call'.count = call.count
      /\ call'.got = got
      /\ call' \in [slot : Slots \cup {NoSlot}, count : Counts \cup {0}, want : 0..(W - 1),
                    got : Seq((0..(Sectors - 1)) \X (0..(SECTOR_SIZE - 1)))]
  BY <1>2
<1>4. /\ open_files' \in [Slots -> FileObject] /\ open_files'[call.slot] = f
      /\ \A t \in Slots : t # call.slot => open_files'[t] = open_files[t]
  BY <1>1
<1>5. TypeOK'
  BY <1>3, <1>4 DEF IInv, TypeOK
<1>6. SlotInv(f, opened[call.slot])
  <2>1. FileOf(f, opened[call.slot])
    BY <1>1 DEF FileOf
  <2> QED BY <1>1, <2>1, Constants DEF SlotInv
<1>7. \A t \in Slots : SlotInv(open_files'[t], opened'[t])
  BY <1>4, <1>6 DEF IInv
<1>8. F' = f /\ Reading'
  BY <1>1, <1>3, <1>4 DEF F, Reading
<1>9. CallInv'
  BY <1>3, <1>8 DEF CallInv
<1> QED BY <1>5, <1>7, <1>9 DEF IInv

(* Entering cluster k of the chain at its start. *)
LEMMA EnterKeeps ==
  ASSUME IInv, Wanting, NEW c, Enter(c),
         NEW k \in 1..Len(Chain[F.first_cluster]),
         c = Chain[F.first_cluster][k],
         F.current_offset = (k - 1) * ClusterBytes
  PROVE  IInv' /\ call' = call
<1>1. /\ call.slot \in Slots /\ open_files \in [Slots -> FileObject] /\ F \in FileObject
      /\ F.state = "file" /\ FileOf(F, opened[call.slot])
      /\ Len(call.got) < call.want
      /\ F.current_offset + (call.want - Len(call.got)) <= F.size
      /\ call.got \in Seq((0..(Sectors - 1)) \X (0..(SECTOR_SIZE - 1)))
      /\ call.want \in 0..(W - 1) /\ Len(call.got) \in Nat
  BY InRead
<1>2. c \in 2..(END_OF_CHAIN - 1)
  <2>1. PICK i \in DOMAIN root_dir : /\ IsFile(opened[call.slot], i)
                                     /\ F.first_cluster = root_dir[i].first
    BY <1>1 DEF FileOf
  <2>2. ChainFacts(root_dir[i], Chain[F.first_cluster])
    BY <2>1, ChainOf
  <2> QED BY <2>2 DEF ChainFacts
<1>3. c \in 0..(W - 1) /\ c # 0
  BY <1>2, Limits
<1> DEFINE f == [F EXCEPT !.current_cluster = c, !.offset_in_cluster = 0]
<1>4. open_files' = [open_files EXCEPT ![call.slot] = f]
  BY <1>1 DEF Enter, F
<1>5. call' = call /\ opened' = opened
  BY <1>3 DEF Enter
<1>6. /\ f \in FileObject /\ f.state = "file" /\ f.size = F.size
      /\ f.first_cluster = F.first_cluster /\ f.current_offset = F.current_offset
      /\ f.current_cluster = c /\ f.offset_in_cluster = 0
  <2>1. 0 \in 0..ClusterBytes
    BY Constants
  <2> QED BY <1>1, <1>3, <2>1 DEF FileObject
<1> HIDE DEF f
<1>7. PositionAgrees(f)
  <2>1. k \in Nat /\ k - 1 \in Nat
    BY Limits
  <2>2. F.current_offset \in Nat
    BY <1>1 DEF FileObject
  <2>3. f.current_offset = (k - 1) * ClusterBytes + f.offset_in_cluster
    BY <1>6, <2>2
  <2> QED BY <1>6, <2>3 DEF PositionAgrees
<1>8. call' = [call EXCEPT !.got = call.got]
  BY <1>5 DEF IInv, TypeOK
<1>9. Len(call.got) <= call.want
  BY <1>1, Limits
<1> QED BY <1>1, <1>4, <1>5, <1>6, <1>7, <1>8, <1>9, TurnStep

LEMMA StartChainKeeps ==
  ASSUME IInv, StartChain
  PROVE  IInv' /\ call' = call
<1>1. Wanting /\ F.current_cluster = 0 /\ Enter(F.first_cluster)
  BY DEF StartChain, AtFirst
<1>2. /\ F \in FileObject /\ F.current_offset < F.size
      /\ PositionAgrees(F) /\ FileOf(F, opened[call.slot])
  BY <1>1, InRead
<1>3. PICK i \in DOMAIN root_dir : /\ IsFile(opened[call.slot], i)
                                   /\ F.first_cluster = root_dir[i].first
  BY <1>2 DEF FileOf
<1>4. ChainFacts(root_dir[i], Chain[F.first_cluster])
  BY <1>3, ChainOf
<1> DEFINE ch == Chain[F.first_cluster]
<1>5. /\ Len(ch) \in Nat /\ Len(ch) >= 1 /\ ch[1] = F.first_cluster
      /\ \A k \in 1..Len(ch) : ch[k] \in 2..(END_OF_CHAIN - 1)
  BY <1>3, <1>4 DEF ChainFacts
<1>6. \A k \in 1..Len(ch) : ch[k] # 0
  BY <1>5, Limits
<1>7. F.current_offset = 0 \/ F.current_offset >= F.size
  BY <1>1, <1>2, <1>6 DEF PositionAgrees
<1>8. F.current_offset \in Nat /\ F.size \in Nat
  BY <1>2 DEF FileObject
<1>9. F.current_offset = 0
  BY <1>2, <1>7, <1>8
<1>10. F.current_offset = (1 - 1) * ClusterBytes
  BY <1>9, Constants
<1>11. 1 \in 1..Len(ch)
  BY <1>5
<1> QED BY <1>1, <1>5, <1>10, <1>11, EnterKeeps

(* The cluster that is read, by its place in the chain. *)
LEMMA Place ==
  ASSUME IInv, Wanting, F.current_cluster # 0
  PROVE  \E i \in DOMAIN root_dir, k \in Nat :
           /\ k \in 1..Len(Chain[F.first_cluster])
           /\ IsFile(opened[call.slot], i) /\ F.size = root_dir[i].size
           /\ F.first_cluster = root_dir[i].first
           /\ ChainFacts(root_dir[i], Chain[F.first_cluster])
           /\ F.current_cluster = Chain[F.first_cluster][k]
           /\ F.current_offset = (k - 1) * ClusterBytes + F.offset_in_cluster
<1>1. PositionAgrees(F) /\ FileOf(F, opened[call.slot])
  BY InRead
<1>2. PICK k \in 1..Len(Chain[F.first_cluster]) :
        /\ F.current_cluster = Chain[F.first_cluster][k]
        /\ F.current_offset = (k - 1) * ClusterBytes + F.offset_in_cluster
  BY <1>1 DEF PositionAgrees
<1>3. PICK i \in DOMAIN root_dir : /\ IsFile(opened[call.slot], i)
                                   /\ F.size = root_dir[i].size
                                   /\ F.first_cluster = root_dir[i].first
  BY <1>1 DEF FileOf
<1>4. ChainFacts(root_dir[i], Chain[F.first_cluster])
  BY <1>3, ChainOf
<1>5. k \in Nat
  OBVIOUS
<1> QED BY <1>2, <1>3, <1>4, <1>5

(* The entry of a file's cluster is read as it is on the disk. *)
LEMMA EntryRead ==
  ASSUME IInv, FatRead, Wanting, F.current_cluster # 0
  PROVE  get_fat_entry(F.current_cluster) = {fat[F.current_cluster]}
<1>1. PICK i \in DOMAIN root_dir, k \in Nat :
        /\ k \in 1..Len(Chain[F.first_cluster])
        /\ IsFile(opened[call.slot], i) /\ F.first_cluster = root_dir[i].first
        /\ F.current_cluster = Chain[F.first_cluster][k]
  BY Place
<1>2. root_dir[i].first # 0 /\ "directory" \notin root_dir[i].attribute
  BY <1>1 DEF IsFile
<1>3. ~Straddles(F.current_cluster)
  BY <1>1, <1>2 DEF FatRead
<1> QED BY <1>3 DEF get_fat_entry, FatRead

LEMMA FollowChainKeeps ==
  ASSUME IInv, FatRead, FollowChain
  PROVE  IInv' /\ call' = call
<1> DEFINE ch == Chain[F.first_cluster]
           c  == fat[F.current_cluster]
<1>1. /\ Wanting /\ F.current_cluster # 0 /\ F.offset_in_cluster >= ClusterBytes
      /\ c < END_OF_CHAIN /\ Enter(c)
  <2>1. Wanting /\ F.current_cluster # 0 /\ F.offset_in_cluster >= ClusterBytes
    BY DEF FollowChain, AtNext
  <2>2. get_fat_entry(F.current_cluster) = {c}
    BY <2>1, EntryRead
  <2> QED BY <2>1, <2>2 DEF FollowChain
<1>2. F \in FileObject /\ F.current_offset < F.size
  BY <1>1, InRead
<1>3. PICK i \in DOMAIN root_dir, k \in Nat :
        /\ k \in 1..Len(ch) /\ F.size = root_dir[i].size
        /\ ChainFacts(root_dir[i], ch)
        /\ F.current_cluster = ch[k]
        /\ F.current_offset = (k - 1) * ClusterBytes + F.offset_in_cluster
  BY <1>1, Place
<1> HIDE DEF ch
<1>4. F.offset_in_cluster = ClusterBytes /\ F.current_offset \in Nat /\ F.size \in Nat
  BY <1>1, <1>2, Constants DEF FileObject
<1>5. F.current_offset = k * ClusterBytes
  BY <1>3, <1>4, Constants, NextBlock
<1>6. k # Len(ch)
  <2> SUFFICES ASSUME k = Len(ch) PROVE FALSE
    OBVIOUS
  <2>1. fat[ch[Len(ch)]] >= END_OF_CHAIN \/ Len(ch) * ClusterBytes >= F.size
    BY <1>3 DEF ChainFacts
  <2>2. CASE fat[ch[Len(ch)]] >= END_OF_CHAIN
    <3>1. c >= END_OF_CHAIN
      BY <1>3, <2>2
    <3>2. c \in Nat
      <4>1. F.current_cluster \in 0..(W - 1) /\ fat \in [0..(W - 1) -> 0..(W - 1)]
        BY <1>2, LayoutAssumption DEF FileObject
      <4>2. c \in 0..(W - 1)
        BY <4>1
      <4> QED BY <4>2, Limits
    <3> HIDE DEF c
    <3> QED BY <1>1, <3>1, <3>2, Limits
  <2>3. CASE Len(ch) * ClusterBytes >= F.size
    BY <1>2, <1>4, <1>5, <2>3
  <2> QED BY <2>1, <2>2, <2>3
<1>7. Len(ch) \in Nat /\ \A m \in 2..Len(ch) : ch[m] = fat[ch[m - 1]]
  BY <1>3 DEF ChainFacts
<1> DEFINE next == k + 1
<1>8. next \in 1..Len(ch) /\ next \in 2..Len(ch) /\ next - 1 = k
  BY <1>3, <1>6, <1>7
<1> HIDE DEF next
<1>9. c = ch[next]
  BY <1>3, <1>7, <1>8
<1>10. F.current_offset = (next - 1) * ClusterBytes
  BY <1>5, <1>8
<1> QED BY <1>1, <1>8, <1>9, <1>10, EnterKeeps DEF ch

(* A copy within a sector stays in it, in the cluster, in the file and in   *)
(* what was asked for.                                                      *)
LEMMA ReadLengthFits ==
  ASSUME IInv, InCluster
  PROVE  /\ ReadLength \in Nat /\ ReadLength >= 1
         /\ F.offset_in_cluster + ReadLength <= ClusterBytes
         /\ Len(call.got) + ReadLength <= call.want
<1> DEFINE o == F.offset_in_cluster
           s == SECTOR_SIZE
           in_sector == s - (o % s)
           missing   == call.want - Len(call.got)
<1>1. Wanting /\ o < ClusterBytes
  BY DEF InCluster
<1>2. /\ o \in Nat /\ call.want \in Nat /\ Len(call.got) \in Nat /\ Len(call.got) < call.want
  <2>1. /\ F \in FileObject /\ call.want \in 0..(W - 1) /\ Len(call.got) \in Nat
        /\ Len(call.got) < call.want
    BY <1>1, InRead
  <2> QED BY <2>1, Limits, Constants DEF FileObject
<1>3. missing \in Nat /\ missing >= 1 /\ Len(call.got) + missing = call.want
  BY <1>2
<1>4. s \in Nat /\ s > 0 /\ o % s \in 0..(s - 1)
  BY <1>2, Constants, Divide
<1>5. in_sector \in Nat /\ in_sector >= 1
  BY <1>4
<1>6. o + in_sector <= ClusterBytes
  BY <1>1, <1>2, <1>4, Constants, WholeSectors
<1>7. ReadLength = IF missing < in_sector THEN missing ELSE in_sector
  BY DEF ReadLength
<1>8. ClusterBytes \in Nat
  BY Constants
<1> HIDE DEF in_sector, missing, o, s
<1>9. /\ ReadLength \in Nat /\ ReadLength >= 1 /\ o + ReadLength <= ClusterBytes
      /\ Len(call.got) + ReadLength <= call.want
  <2>1. CASE missing < in_sector
    <3>1. ReadLength = missing
      BY <1>7, <2>1
    <3>2. o + missing <= ClusterBytes
      BY <1>2, <1>3, <1>5, <1>6, <1>8, <2>1
    <3>3. Len(call.got) + missing <= call.want
      BY <1>2, <1>3
    <3> QED BY <1>3, <3>1, <3>2, <3>3
  <2>2. CASE ~(missing < in_sector)
    <3>1. ReadLength = in_sector
      BY <1>7, <2>2
    <3>2. Len(call.got) + in_sector <= call.want
      BY <1>2, <1>3, <1>5, <2>2
    <3> QED BY <1>5, <1>6, <3>1, <3>2
  <2> QED BY <2>1, <2>2
<1> QED BY <1>9 DEF o

LEMMA SectorByteType ==
  ASSUME NEW o \in Nat, F \in FileObject
  PROVE  SectorByte(o) \in (0..(Sectors - 1)) \X (0..(SECTOR_SIZE - 1))
<1> DEFINE spc == current_vbpb.sectors_per_cluster
           q == o \div SECTOR_SIZE
           y == (F.current_cluster - 2) % W
<1>1. q \in Nat /\ o % SECTOR_SIZE \in 0..(SECTOR_SIZE - 1)
  BY Constants, Divide
<1>2. y \in Nat
  <2>1. F.current_cluster \in Int
    BY Limits DEF FileObject
  <2>2. \A a \in Int : (a - 2) % W \in Nat
    BY DEF W
  <2> QED BY <2>1, <2>2
<1> HIDE DEF y, q
<1>3. y * spc \in Nat
  <2>1. \A a, b \in Nat : a * b \in Nat
    OBVIOUS
  <2> QED BY <1>2, <2>1, Constants
<1>4. cluster_to_lba(F.current_cluster) = data_start_sector + y * spc
  BY DEF cluster_to_lba, y
<1>5. cluster_to_lba(F.current_cluster) + q \in Nat
  BY <1>1, <1>3, <1>4, Constants
<1>6. (cluster_to_lba(F.current_cluster) + q) % Sectors \in 0..(Sectors - 1)
  BY <1>5, Limits, Divide
<1> QED BY <1>1, <1>6 DEF SectorByte, q

(* The bytes a turn copies. *)
Piece == [j \in 1..ReadLength |-> SectorByte(F.offset_in_cluster + j - 1)]

LEMMA PieceIs ==
  ASSUME IInv, InCluster
  PROVE  /\ Piece \in Seq((0..(Sectors - 1)) \X (0..(SECTOR_SIZE - 1)))
         /\ Len(Piece) = ReadLength
<1>1. ReadLength \in Nat
  BY ReadLengthFits
<1>2. F \in FileObject
  BY InRead DEF InCluster
<1>3. \A j \in 1..ReadLength :
        SectorByte(F.offset_in_cluster + j - 1) \in (0..(Sectors - 1)) \X (0..(SECTOR_SIZE - 1))
  <2> SUFFICES ASSUME NEW j \in 1..ReadLength
               PROVE  SectorByte(F.offset_in_cluster + j - 1)
                        \in (0..(Sectors - 1)) \X (0..(SECTOR_SIZE - 1))
    OBVIOUS
  <2>1. F.offset_in_cluster \in Nat
    BY <1>2, Constants DEF FileObject
  <2>2. F.offset_in_cluster + j - 1 \in Nat
    BY <1>1, <2>1
  <2> QED BY <1>2, <2>2, SectorByteType
<1>4. Piece \in [1..ReadLength -> (0..(Sectors - 1)) \X (0..(SECTOR_SIZE - 1))]
  BY <1>3 DEF Piece
<1>5. Piece \in Seq((0..(Sectors - 1)) \X (0..(SECTOR_SIZE - 1)))
  BY <1>1, <1>4
<1>6. Len(Piece) = ReadLength
  <2>1. DOMAIN Piece = 1..ReadLength
    BY <1>4
  <2>2. DOMAIN Piece = 1..Len(Piece) /\ Len(Piece) \in Nat
    BY <1>5, LenProperties
  <2> QED BY <1>1, <2>1, <2>2
<1> QED BY <1>5, <1>6

LEMMA ReadSectorKeeps ==
  ASSUME IInv, ReadSector
  PROVE  IInv'
<1> DEFINE n   == ReadLength
           got == call.got \o Piece
           f   == [F EXCEPT !.current_offset = F.current_offset + n,
                            !.offset_in_cluster = F.offset_in_cluster + n]
<1>1. InCluster /\ Wanting /\ F.current_cluster # 0
  BY DEF ReadSector, InCluster
<1>2. /\ n \in Nat /\ n >= 1 /\ F.offset_in_cluster + n <= ClusterBytes
      /\ Len(call.got) + n <= call.want
  BY <1>1, ReadLengthFits
<1>3. /\ call.slot \in Slots /\ open_files \in [Slots -> FileObject] /\ F \in FileObject
      /\ F.state = "file" /\ PositionAgrees(F)
      /\ call.got \in Seq((0..(Sectors - 1)) \X (0..(SECTOR_SIZE - 1)))
      /\ call.want \in 0..(W - 1) /\ Len(call.got) \in Nat
      /\ F.current_offset + (call.want - Len(call.got)) <= F.size
  BY <1>1, InRead
<1>4. /\ F.offset_in_cluster \in Nat /\ F.current_offset \in Nat /\ F.size \in Nat
      /\ call.want \in Nat
  BY <1>3, Constants, Limits DEF FileObject
<1>5. open_files' = [open_files EXCEPT ![call.slot] = f] /\ opened' = opened
  BY <1>3 DEF ReadSector, F
<1>6. call' = [call EXCEPT !.got = got]
  BY DEF ReadSector, Piece
<1>7. /\ got \in Seq((0..(Sectors - 1)) \X (0..(SECTOR_SIZE - 1)))
      /\ Len(got) = Len(call.got) + n
  <2>1. /\ Piece \in Seq((0..(Sectors - 1)) \X (0..(SECTOR_SIZE - 1)))
        /\ Len(Piece) = n
    BY <1>1, PieceIs
  <2>2. /\ got \in Seq((0..(Sectors - 1)) \X (0..(SECTOR_SIZE - 1)))
        /\ Len(got) = Len(call.got) + Len(Piece)
    BY <1>3, <2>1, ConcatProperties
  <2> QED BY <2>1, <2>2
<1> HIDE DEF n, got
<1>8. /\ f \in FileObject /\ f.state = "file" /\ f.size = F.size
      /\ f.first_cluster = F.first_cluster
      /\ f.current_offset = F.current_offset + n
      /\ f.offset_in_cluster = F.offset_in_cluster + n
      /\ f.current_cluster = F.current_cluster
  <2>1. F.offset_in_cluster + n \in 0..ClusterBytes /\ F.current_offset + n \in Nat
    BY <1>2, <1>4, Constants
  <2> QED BY <1>3, <2>1 DEF FileObject
<1> HIDE DEF f
<1>9. PositionAgrees(f)
  <2>1. PICK k \in Nat :
          /\ k \in 1..Len(Chain[F.first_cluster])
          /\ F.current_cluster = Chain[F.first_cluster][k]
          /\ F.current_offset = (k - 1) * ClusterBytes + F.offset_in_cluster
    BY <1>1, Place
  <2> DEFINE before == (k - 1) * ClusterBytes
  <2>2. before \in Int
    <3>1. \A a, b \in Int : a * b \in Int
      OBVIOUS
    <3>2. k - 1 \in Int /\ ClusterBytes \in Int
      BY Constants
    <3> QED BY <3>1, <3>2
  <2>3. F.current_offset = before + F.offset_in_cluster
    BY <2>1
  <2> HIDE DEF before
  <2>4. f.current_offset = before + f.offset_in_cluster
    BY <1>2, <1>4, <1>8, <2>2, <2>3
  <2> QED BY <1>8, <2>1, <2>4 DEF PositionAgrees, before
<1>10. Len(got) <= call.want /\ f.current_offset + (call.want - Len(got)) <= f.size
  <2> DEFINE had  == Len(call.got)
             want == call.want
             at   == F.current_offset
             size == F.size
  <2>1. /\ had \in Nat /\ want \in Nat /\ at \in Nat /\ size \in Nat
        /\ at + (want - had) <= size /\ had + n <= want
    BY <1>2, <1>3, <1>4
  <2>2. f.current_offset = at + n /\ Len(got) = had + n /\ f.size = size
    BY <1>7, <1>8
  <2> HIDE DEF had, want, at, size
  <2>3. had + n <= want /\ (at + n) + (want - (had + n)) <= size
    BY <1>2, <2>1
  <2>4. Len(got) <= want /\ f.current_offset + (want - Len(got)) <= f.size
    BY <2>2, <2>3
  <2> QED BY <2>4 DEF want
<1> QED BY <1>1, <1>5, <1>6, <1>7, <1>8, <1>9, <1>10, TurnStep

LEMMA NextKeepsIInv ==
  ASSUME SeeksToTheEnds, FatRead, IInv, [Next]_vars
  PROVE  IInv'
<1>1. CASE \E path \in Paths : fs_open(path)
  BY <1>1, OpenKeeps
<1>2. ASSUME NEW s \in Slots, \E n \in Counts : fs_read(s, n)
      PROVE  IInv'
  BY <1>2, StartKeeps
<1>3. ASSUME NEW s \in Slots, \E k \in Seeks : fs_seek(s, k[1], k[2])
      PROVE  IInv'
  BY <1>3, SeekKeeps
<1>4. ASSUME NEW s \in Slots, fs_close(s)
      PROVE  IInv'
  BY <1>4, CloseKeeps
<1>5. ASSUME NEW s \in Slots, fs_read_dir(s)
      PROVE  IInv'
  BY <1>5, ReadDirKeeps
<1>6. CASE ReadLoop
  <2>1. CASE StartChain
    BY <2>1, StartChainKeeps
  <2>2. CASE FollowChain
    BY <2>2, FollowChainKeeps
  <2>3. CASE ChainEnds \/ ReadFails \/ Finish
    BY <2>3, DoneKeeps DEF ChainEnds, ReadFails, Finish
  <2>4. CASE ReadSector
    BY <2>4, ReadSectorKeeps
  <2> QED BY <1>6, <2>1, <2>2, <2>3, <2>4 DEF ReadLoop
<1>7. CASE UNCHANGED vars
  <2>1. open_files' = open_files /\ opened' = opened /\ call' = call
    BY <1>7 DEF vars
  <2>2. TypeOK'
    BY <2>1 DEF IInv, TypeOK
  <2>3. \A s \in Slots : SlotInv(open_files'[s], opened'[s])
    BY <2>1 DEF IInv
  <2>4. CallInv'
    BY <2>1 DEF IInv, CallInv, Reading, F
  <2> QED BY <2>2, <2>3, <2>4 DEF IInv
<1> QED BY <1>1, <1>2, <1>3, <1>4, <1>5, <1>6, <1>7 DEF Next

(* Types hold, and the three fields that make up the position of a file     *)
(* agree, whatever is opened, read, closed and listed, as long as seeks go  *)
(* to the ends and the FAT is read as it is.                                *)
THEOREM FsSafe ==
  ASSUME SeeksToTheEnds, FatRead
  PROVE  Spec => [](TypeOK /\ PositionsAgree)
<1>1. Init => IInv
  BY InitIInv
<1>2. IInv /\ [Next]_vars => IInv'
  BY NextKeepsIInv
<1>3. IInv => TypeOK /\ PositionsAgree
  BY DEF IInv, SlotInv, PositionsAgree
<1> QED BY <1>1, <1>2, <1>3, PTL DEF Spec
-----------------------------------------------------------------------------
(* The refinement.  First what is on the disk, in terms of chains.          *)
LEMMA ContentIs ==
  ASSUME NEW path \in Paths, NEW i \in DOMAIN root_dir, IsFile(path, i)
  PROVE  Content[path] = ContentOf(root_dir[i])
<1>1. \A j \in DOMAIN root_dir : IsFile(path, j) => j = i
  BY FoundOnce DEF IsFile
<1>2. (CHOOSE j \in DOMAIN root_dir : IsFile(path, j)) = i
  BY <1>1
<1> QED BY <1>2 DEF Content

LEMMA SeqOf ==
  ASSUME NEW S, NEW m \in Nat, NEW f \in [1..m -> S]
  PROVE  f \in Seq(S) /\ Len(f) = m
<1>1. f \in Seq(S)
  OBVIOUS
<1>2. DOMAIN f = 1..m
  OBVIOUS
<1>3. DOMAIN f = 1..Len(f) /\ Len(f) \in Nat
  BY <1>1, LenProperties
<1> QED BY <1>1, <1>2, <1>3

BytesOf(e, ch) == {ChainByte(ch, x - 1) : x \in 1..Len(ContentOf(e))}

LEMMA ContentBytes ==
  ASSUME NEW e, NEW ch, ch = Chain[e.first], ChainFacts(e, ch)
  PROVE  /\ Len(ContentOf(e)) \in Nat /\ Len(ContentOf(e)) <= e.size
         /\ Len(ContentOf(e)) <= Len(ch) * ClusterBytes
         /\ \A m \in Nat : m <= e.size /\ m <= Len(ch) * ClusterBytes => m <= Len(ContentOf(e))
         /\ \A x \in 1..Len(ContentOf(e)) : ContentOf(e)[x] = ChainByte(ch, x - 1)
         /\ ContentOf(e) \in Seq(BytesOf(e, ch))
<1> DEFINE full == Len(ch) * ClusterBytes
           m    == IF e.size < full THEN e.size ELSE full
<1>1. e.size \in Nat /\ full \in Nat
  <2>1. \A a, b \in Nat : a * b \in Nat
    OBVIOUS
  <2> QED BY <2>1, Constants DEF ChainFacts
<1>2. ContentOf(e) = [x \in 1..m |-> ChainByte(ch, x - 1)]
  BY DEF ContentOf
<1> HIDE DEF full
<1>3. /\ m \in Nat /\ m <= e.size /\ m <= full
      /\ \A y \in Nat : y <= e.size /\ y <= full => y <= m
  BY <1>1
<1> HIDE DEF m
<1>4. ContentOf(e) \in [1..m -> {ChainByte(ch, x - 1) : x \in 1..m}]
  BY <1>2
<1>5. ContentOf(e) \in Seq({ChainByte(ch, x - 1) : x \in 1..m}) /\ Len(ContentOf(e)) = m
  <2> DEFINE S == {ChainByte(ch, x - 1) : x \in 1..m}
             f == ContentOf(e)
  <2>1. f \in [1..m -> S] /\ m \in Nat
    BY <1>3, <1>4
  <2> HIDE DEF S, f
  <2>2. f \in Seq(S) /\ Len(f) = m
    BY <2>1, SeqOf
  <2> QED BY <2>2 DEF S, f
<1>6. \A x \in 1..m : ContentOf(e)[x] = ChainByte(ch, x - 1)
  BY <1>2
<1> QED BY <1>3, <1>5, <1>6 DEF full, BytesOf

LEMMA LbaIsNat ==
  ASSUME NEW c \in 0..(W - 1)
  PROVE  cluster_to_lba(c) \in Nat
<1> DEFINE y == (c - 2) % W
<1>1. y \in Nat
  <2>1. c \in Int
    BY Limits
  <2>2. \A a \in Int : (a - 2) % W \in Nat
    BY DEF W
  <2> QED BY <2>1, <2>2
<1>2. \A a, b \in Nat : a * b \in Nat
  OBVIOUS
<1>3. y * current_vbpb.sectors_per_cluster \in Nat
  BY <1>1, <1>2, Constants
<1>4. cluster_to_lba(c) = data_start_sector + y * current_vbpb.sectors_per_cluster
  BY DEF cluster_to_lba
<1> HIDE DEF y
<1> QED BY <1>3, <1>4, Constants

(* A byte within cluster k of the chain is where the driver is sent for it. *)
LEMMA RightByte ==
  ASSUME NEW e, NEW ch, ChainFacts(e, ch), NEW k \in Nat, k \in 1..Len(ch),
         F.current_cluster = ch[k], NEW o \in Nat, o < ClusterBytes
  PROVE  ChainByte(ch, (k - 1) * ClusterBytes + o) = SectorByte(o)
<1> DEFINE x   == (k - 1) * ClusterBytes + o
           lba == cluster_to_lba(ch[k])
           q   == o \div SECTOR_SIZE
<1>1. k - 1 \in Nat
  BY DEF ChainFacts
<1>2. x \div ClusterBytes = k - 1 /\ x % ClusterBytes = o
  <2> DEFINE d == ClusterBytes
             b == k - 1
  <2>1. d \in Nat /\ d > 0 /\ b \in Nat /\ o < d
    BY <1>1, Constants
  <2> HIDE DEF d, b
  <2>2. (b * d + o) \div d = b /\ (b * d + o) % d = o
    BY <2>1, Recompose
  <2> QED BY <2>2 DEF d, b
<1>3. ch[x \div ClusterBytes + 1] = ch[k]
  BY <1>1, <1>2
<1>4. ChainByte(ch, x) = <<lba + q, o % SECTOR_SIZE>>
  BY <1>2, <1>3 DEF ChainByte
<1> HIDE DEF x
<1>5. q \in Nat /\ q < current_vbpb.sectors_per_cluster
  <2>1. q \in Nat
    BY Constants, Divide
  <2>2. q < current_vbpb.sectors_per_cluster
    BY Constants, WholeSectors
  <2> QED BY <2>1, <2>2
<1>6. lba \in Nat /\ lba + current_vbpb.sectors_per_cluster <= Sectors
  <2>1. /\ ch[k] \in 2..(END_OF_CHAIN - 1)
        /\ lba + current_vbpb.sectors_per_cluster <= Sectors
    BY DEF ChainFacts
  <2>2. ch[k] \in 0..(W - 1)
    BY <2>1, Limits
  <2> QED BY <2>1, <2>2, LbaIsNat
<1> HIDE DEF lba, q
<1>7. lba + q \in Nat /\ lba + q < Sectors
  BY <1>5, <1>6, Constants, Limits
<1>8. (lba + q) % Sectors = lba + q
  <2>1. \A s, a \in Nat : s > 0 /\ a < s => a % s = a
    BY SMT
  <2> QED BY <1>7, <2>1, Limits
<1>9. SectorByte(o) = <<(lba + q) % Sectors, o % SECTOR_SIZE>>
  BY DEF SectorByte, lba, q
<1> QED BY <1>4, <1>8, <1>9 DEF x

LEMMA Part ==
  ASSUME NEW S, NEW s \in Seq(S), NEW a \in Nat, NEW n \in Nat, n >= 1, a + n <= Len(s)
  PROVE  SubSeq(s, a + 1, a + n) = [j \in 1..n |-> s[a + j]]
<1> DEFINE t == SubSeq(s, a + 1, a + n)
<1>1. \A i \in (a + 1)..(a + n) : s[i] \in S
  BY LenProperties
<1>2. /\ t \in Seq(S)
      /\ Len(t) = IF a + 1 <= a + n THEN a + n - (a + 1) + 1 ELSE 0
      /\ \A i \in 1..(a + n - (a + 1) + 1) : t[i] = s[a + 1 + i - 1]
  BY <1>1, SubSeqProperties
<1> HIDE DEF t
<1>3. a + n - (a + 1) + 1 = n /\ a + 1 <= a + n
  OBVIOUS
<1>4. Len(t) = n
  BY <1>2, <1>3
<1>5. t \in Seq(S) /\ DOMAIN t = 1..n
  BY <1>2, <1>4, LenProperties
<1>6. \A j \in 1..n : t[j] = s[a + j]
  <2> TAKE j \in 1..n
  <2>1. t[j] = s[a + 1 + j - 1]
    BY <1>2, <1>3
  <2>2. a + 1 + j - 1 = a + j
    OBVIOUS
  <2> QED BY <2>1, <2>2
<1>7. t = [j \in 1..n |-> t[j]]
  BY <1>5
<1> QED BY <1>6, <1>7 DEF t

(* What a turn copies is the next part of the content. *)
LEMMA PieceOfContent ==
  ASSUME IInv, InCluster
  PROVE  LET bytes == Content[opened[call.slot]]
             at    == F.current_offset
         IN  /\ ReadLength \in 1..(Len(bytes) - at)
             /\ Piece = SubSeq(bytes, at + 1, at + ReadLength)
<1> DEFINE bytes == Content[opened[call.slot]]
           at    == F.current_offset
           n     == ReadLength
           off   == F.offset_in_cluster
<1>1. Wanting /\ F.current_cluster # 0
  BY DEF InCluster
<1>2. PICK i \in DOMAIN root_dir, k \in Nat :
        /\ k \in 1..Len(Chain[F.first_cluster])
        /\ IsFile(opened[call.slot], i) /\ F.size = root_dir[i].size
        /\ F.first_cluster = root_dir[i].first
        /\ ChainFacts(root_dir[i], Chain[F.first_cluster])
        /\ F.current_cluster = Chain[F.first_cluster][k]
        /\ F.current_offset = (k - 1) * ClusterBytes + F.offset_in_cluster
  BY <1>1, Place
<1> DEFINE e  == root_dir[i]
           ch == Chain[e.first]
<1>3. /\ opened[call.slot] \in Paths /\ F \in FileObject
      /\ call.want \in 0..(W - 1) /\ Len(call.got) \in Nat
      /\ F.current_offset + (call.want - Len(call.got)) <= F.size
  BY <1>1, InRead
<1>4. n \in Nat /\ n >= 1 /\ off + n <= ClusterBytes /\ Len(call.got) + n <= call.want
  BY ReadLengthFits
<1>5. at \in Nat /\ off \in Nat /\ call.want \in Nat /\ F.size \in Nat
  BY <1>3, Constants, Limits DEF FileObject
<1>6. bytes = ContentOf(e)
  BY <1>2, <1>3, ContentIs
<1>7. /\ Len(bytes) \in Nat
      /\ \A m \in Nat : m <= e.size /\ m <= Len(ch) * ClusterBytes => m <= Len(bytes)
      /\ \A x \in 1..Len(bytes) : bytes[x] = ChainByte(ch, x - 1)
      /\ bytes \in Seq(BytesOf(e, ch))
  <2> DEFINE d == root_dir[i]
             c == Chain[d.first]
  <2>1. ChainFacts(d, c) /\ c = Chain[d.first]
    BY <1>2
  <2> HIDE DEF d, c
  <2>2. /\ Len(ContentOf(d)) \in Nat
        /\ \A m \in Nat : m <= d.size /\ m <= Len(c) * ClusterBytes => m <= Len(ContentOf(d))
        /\ \A x \in 1..Len(ContentOf(d)) : ContentOf(d)[x] = ChainByte(c, x - 1)
        /\ ContentOf(d) \in Seq(BytesOf(d, c))
    BY <2>1, ContentBytes
  <2>3. d = e /\ c = ch /\ bytes = ContentOf(d)
    BY <1>6 DEF d, c
  <2> HIDE DEF bytes, e, ch
  <2> QED BY <2>2, <2>3
<1>8. k \in 1..Len(ch) /\ F.current_cluster = ch[k] /\ Len(ch) \in Nat /\ ChainFacts(e, ch)
  BY <1>2 DEF ChainFacts
<1> DEFINE before == (k - 1) * ClusterBytes
           after  == k * ClusterBytes
           full   == Len(ch) * ClusterBytes
<1>9. /\ before \in Nat /\ after \in Nat /\ full \in Nat
      /\ before + ClusterBytes = after /\ after <= full
      /\ at = before + off
  <2>1. k - 1 \in Nat /\ k <= Len(ch) /\ Len(ch) \in Nat
    BY <1>8
  <2>2. \A a, b \in Nat : a * b \in Nat
    OBVIOUS
  <2>3. before \in Nat /\ after \in Nat /\ full \in Nat
    BY <2>1, <2>2, Constants
  <2>4. before + ClusterBytes = after
    BY Constants, NextBlock
  <2>5. after <= full
    BY <2>1, Constants, Multiples
  <2> QED BY <1>2, <2>3, <2>4, <2>5
<1>10. at + n <= e.size
  <2> DEFINE had  == Len(call.got)
             want == call.want
             size == F.size
  <2>1. /\ had \in Nat /\ want \in Nat /\ size \in Nat
        /\ at + (want - had) <= size /\ had + n <= want
    BY <1>3, <1>4, <1>5
  <2> HIDE DEF had, want, size, at, n
  <2>2. at + n <= size
    BY <1>4, <1>5, <2>1
  <2> QED BY <1>2, <2>2 DEF size
<1> HIDE DEF before, after, full, n, at, off, ch, e, bytes
<1>11. at + n <= full
  BY <1>4, <1>5, <1>9, Constants
<1>12. at + n \in Nat /\ at + n <= Len(bytes)
  BY <1>4, <1>5, <1>7, <1>10, <1>11 DEF full
<1>13. n \in 1..(Len(bytes) - at)
  BY <1>4, <1>5, <1>7, <1>12
<1>14. \A j \in 1..n : bytes[at + j] = SectorByte(off + j - 1)
  <2> SUFFICES ASSUME NEW j \in 1..n
               PROVE  bytes[at + j] = SectorByte(off + j - 1)
    OBVIOUS
  <2> DEFINE o == off + j - 1
             x == at + j
  <2>1. o \in Nat /\ o < ClusterBytes /\ x \in 1..Len(bytes) /\ x - 1 = before + o
    <3> DEFINE d == ClusterBytes
               l == Len(bytes)
    <3>1. d \in Nat /\ l \in Nat /\ at \in Nat /\ off \in Nat /\ n \in Nat /\ before \in Nat
      BY <1>4, <1>5, <1>7, <1>9, Constants
    <3>2. off + n <= d /\ at + n <= l /\ at = before + off /\ j >= 1 /\ j <= n /\ j \in Nat
      BY <1>4, <1>9, <1>12
    <3> HIDE DEF d, l
    <3>3. o \in Nat /\ o < d
      BY <3>1, <3>2
    <3>4. x \in Nat /\ x >= 1 /\ x <= l
      BY <3>1, <3>2
    <3>5. x - 1 = before + o
      BY <3>1, <3>2
    <3> QED BY <3>1, <3>3, <3>4, <3>5 DEF d, l
  <2> HIDE DEF o, x
  <2>2. bytes[x] = ChainByte(ch, x - 1)
    BY <1>7, <2>1
  <2>3. ChainByte(ch, before + o) = SectorByte(o)
    BY <1>8, <2>1, RightByte DEF before
  <2>4. bytes[x] = SectorByte(o)
    BY <2>1, <2>2, <2>3
  <2> QED BY <2>4 DEF x, o
<1>15. Piece = [j \in 1..n |-> SectorByte(off + j - 1)]
  BY DEF Piece, n, off
<1>16. SubSeq(bytes, at + 1, at + n) = [j \in 1..n |-> bytes[at + j]]
  <2> DEFINE S == BytesOf(e, ch)
             l == Len(bytes)
  <2>1. bytes \in Seq(S) /\ l \in Nat /\ at \in Nat /\ n \in Nat /\ n >= 1 /\ at + n <= l
    BY <1>4, <1>5, <1>7, <1>12
  <2> HIDE DEF S
  <2> QED BY <2>1, Part DEF l
<1>17. Piece = SubSeq(bytes, at + 1, at + n)
  BY <1>14, <1>15, <1>16
<1> QED BY <1>13, <1>17 DEF n, at, bytes
-----------------------------------------------------------------------------
(* Every step of Fs is one of Files or leaves its variables alone.          *)
Position == [s \in Slots |-> open_files[s].current_offset]

LEMMA PositionStep ==
  ASSUME open_files \in [Slots -> FileObject], NEW s \in Slots, NEW f,
         open_files' = [open_files EXCEPT ![s] = f]
  PROVE  /\ Position' = [Position EXCEPT ![s] = f.current_offset]
         /\ Position'[s] = f.current_offset
         /\ f.current_offset = open_files[s].current_offset => Position' = Position
<1>1. /\ open_files'[s] = f
      /\ \A t \in Slots : t # s => open_files'[t] = open_files[t]
  OBVIOUS
<1>2. Position' = [Position EXCEPT ![s] = f.current_offset]
  BY <1>1 DEF Position
<1>3. Position'[s] = f.current_offset
  BY <1>1 DEF Position
<1>4. f.current_offset = open_files[s].current_offset => Position' = Position
  BY <1>1 DEF Position
<1> QED BY <1>2, <1>3, <1>4

LEMMA InitRefines == Init => Files!Init
<1> SUFFICES ASSUME Init PROVE Files!Init
  OBVIOUS
<1>1. call.slot \notin Slots /\ call.got = << >>
  BY Constants DEF Init, NoCall
<1>2. [s \in Slots |-> open_files[s].current_offset] = [s \in Slots |-> 0]
  BY DEF Init, Unused
<1>3. opened = [s \in Slots |-> Closed]
  BY DEF Init
<1> QED BY <1>1, <1>2, <1>3 DEF Files!Init, Files!Idle

LEMMA OpenRefines ==
  ASSUME IInv, NEW path \in Paths, fs_open(path)
  PROVE  Files!Next
<1>1. PICK s \in Slots :
        /\ ~Reading /\ FreeSlot(s)
        /\ Opens(s, path) \/ OpensGarbage(s)
        /\ opened' = [opened EXCEPT ![s] = path]
        /\ UNCHANGED call
  BY DEF fs_open
<1>2. /\ open_files \in [Slots -> FileObject] /\ open_files[s] \in FileObject
      /\ SlotInv(open_files[s], opened[s])
  BY DEF IInv, TypeOK
<1>3. opened[s] = Closed
  BY <1>1, <1>2 DEF FreeSlot, SlotInv
<1>4. \E f : f.current_offset = 0 /\ open_files' = [open_files EXCEPT ![s] = f]
  <2>1. \A c : Dir(s, c).current_offset = 0
    BY <1>2 DEF Dir, FileObject
  <2>2. \A e : File(s, e).current_offset = 0
    BY <1>2 DEF File, FileObject
  <2>3. \/ \E c : open_files' = [open_files EXCEPT ![s] = Dir(s, c)]
        \/ \E e : open_files' = [open_files EXCEPT ![s] = File(s, e)]
    BY <1>1 DEF Opens, OpensGarbage
  <2> QED BY <2>1, <2>2, <2>3
<1>5. Position' = [Position EXCEPT ![s] = 0]
  <2>1. PICK f : f.current_offset = 0 /\ open_files' = [open_files EXCEPT ![s] = f]
    BY <1>4
  <2>2. Position' = [Position EXCEPT ![s] = f.current_offset]
    BY <1>2, <2>1, PositionStep
  <2> QED BY <2>1, <2>2
<1>6. call.slot \notin Slots
  BY <1>1, Constants DEF Reading
<1>7. Files!Open(s, path)
  BY <1>1, <1>3, <1>5, <1>6 DEF Files!Open, Files!Idle, Position
<1>8. path \in DOMAIN Content
  BY DEF Content
<1> QED BY <1>7, <1>8 DEF Files!Next

LEMMA CloseRefines ==
  ASSUME IInv, NEW s \in Slots, fs_close(s)
  PROVE  Files!Next
<1> DEFINE f == [open_files[s] EXCEPT !.state = "unused"]
<1>1. /\ open_files \in [Slots -> FileObject] /\ open_files[s] \in FileObject
      /\ SlotInv(open_files[s], opened[s])
  BY DEF IInv, TypeOK
<1>2. /\ ~Reading /\ opened' = [opened EXCEPT ![s] = Closed] /\ call' = call
      /\ open_files[s].state # "unused" /\ open_files' = [open_files EXCEPT ![s] = f]
  BY <1>1 DEF fs_close
<1>3. f.current_offset = open_files[s].current_offset
  BY <1>1 DEF FileObject
<1>4. Position' = Position
  BY <1>1, <1>2, <1>3, PositionStep
<1>5. opened[s] # Closed
  BY <1>1, <1>2 DEF SlotInv
<1>6. call.slot \notin Slots
  BY <1>2, Constants DEF Reading
<1>7. Files!Close(s)
  BY <1>2, <1>4, <1>5, <1>6 DEF Files!Close, Files!Idle, Position
<1> QED BY <1>7 DEF Files!Next

LEMMA ReadDirRefines ==
  ASSUME IInv, NEW s \in Slots, fs_read_dir(s)
  PROVE  UNCHANGED Files!vars
<1> DEFINE x == open_files'[s].current_dir_entry_index
           f == [open_files[s] EXCEPT !.current_dir_entry_index = x]
<1>1. /\ open_files \in [Slots -> FileObject] /\ open_files[s] \in FileObject
  BY DEF IInv, TypeOK
<1>2. opened' = opened /\ call' = call /\ open_files' = [open_files EXCEPT ![s] = f]
  BY <1>1 DEF fs_read_dir, FileObject
<1>3. f.current_offset = open_files[s].current_offset
  BY <1>1 DEF FileObject
<1>4. Position' = Position
  BY <1>1, <1>2, <1>3, PositionStep
<1> QED BY <1>2, <1>4 DEF Files!vars, Position

LEMMA SeekRefines ==
  ASSUME IInv, NEW s \in Slots, NEW k \in Seeks, fs_seek(s, k[1], k[2])
  PROVE  Files!Next
<1> DEFINE g   == open_files[s]
           new == NewOffset(g, k[1], k[2])
           x   == IF g.state = "dir" THEN (new \div DIR_ENTRY_SIZE) % W
                  ELSE g.current_dir_entry_index
           f   == [g EXCEPT !.current_offset = new, !.current_cluster = 0,
                            !.offset_in_cluster = 0, !.current_dir_entry_index = x]
<1>1. /\ g \in FileObject /\ open_files \in [Slots -> FileObject]
      /\ SlotInv(g, opened[s])
  BY DEF IInv, TypeOK
<1>2. /\ ~Reading /\ opened' = opened /\ call' = call /\ new >= 0
      /\ g.state # "unused" /\ open_files' = [open_files EXCEPT ![s] = f]
  BY <1>1 DEF fs_seek
<1>3. new \in Nat
  <2>1. k[1] \in Int /\ k[2] \in {"set", "cur", "end"}
    BY LayoutAssumption
  <2>2. g.size \in Nat /\ g.current_offset \in Nat
    BY <1>1 DEF FileObject
  <2>3. new = k[1] \/ new = g.current_offset + k[1] \/ new = g.size + k[1]
    BY <2>1 DEF NewOffset
  <2> HIDE DEF new, g
  <2>4. new \in Int
    BY <2>1, <2>2, <2>3
  <2> QED BY <1>2, <2>4
<1> HIDE DEF new, x
<1>4. f.current_offset = new
  BY <1>1 DEF FileObject
<1> HIDE DEF f
<1>5. Position' = [Position EXCEPT ![s] = new] /\ Position'[s] = new
  BY <1>1, <1>2, <1>4, PositionStep
<1>6. opened[s] # Closed
  BY <1>1, <1>2 DEF SlotInv
<1>7. call.slot \notin Slots
  BY <1>2, Constants DEF Reading
<1>8. Files!Seek(s)
  BY <1>2, <1>3, <1>5, <1>6, <1>7 DEF Files!Seek, Files!Idle, Position
<1> QED BY <1>8 DEF Files!Next

LEMMA StartRefines ==
  ASSUME IInv, NEW s \in Slots, NEW n \in Counts, fs_read(s, n)
  PROVE  Files!Next
<1>1. /\ ~Reading /\ open_files[s].state = "file"
      /\ call'.slot = s /\ call'.got = << >>
      /\ open_files' = open_files /\ opened' = opened
  BY DEF fs_read
<1>2. SlotInv(open_files[s], opened[s])
  BY DEF IInv
<1>3. opened[s] # Closed
  BY <1>1, <1>2 DEF SlotInv
<1>4. call.slot \notin Slots /\ call.got = << >>
  <2>1. call = NoCall
    BY <1>1 DEF IInv, CallInv
  <2> QED BY <2>1, Constants DEF NoCall
<1>5. Files!StartRead(s)
  BY <1>1, <1>3, <1>4 DEF Files!StartRead, Files!Idle
<1> QED BY <1>5 DEF Files!Next

LEMMA EnterRefines ==
  ASSUME IInv, Wanting, NEW c, Enter(c), call' = call
  PROVE  UNCHANGED Files!vars
<1> DEFINE f == [F EXCEPT !.current_cluster = c, !.offset_in_cluster = 0]
<1>1. call.slot \in Slots /\ open_files \in [Slots -> FileObject] /\ F \in FileObject
  BY InRead
<1>2. opened' = opened /\ open_files' = [open_files EXCEPT ![call.slot] = f]
  BY <1>1 DEF Enter, F
<1>3. f.current_offset = open_files[call.slot].current_offset
  BY <1>1 DEF FileObject, F
<1>4. Position' = Position
  BY <1>1, <1>2, <1>3, PositionStep
<1> QED BY <1>2, <1>4 DEF Files!vars, Position

LEMMA DoneRefines ==
  ASSUME IInv, Reading, Done
  PROVE  Files!Next
<1>1. call.slot \in Slots
  BY DEF IInv, TypeOK, Reading
<1>2. /\ call'.slot \notin Slots /\ call'.got = << >>
      /\ open_files' = open_files /\ opened' = opened
  BY Constants DEF Done, NoCall
<1>3. Files!EndRead
  BY <1>1, <1>2 DEF Files!EndRead, Files!Idle
<1> QED BY <1>3 DEF Files!Next

LEMMA ReadSectorRefines ==
  ASSUME IInv, ReadSector
  PROVE  Files!Next
<1> DEFINE n     == ReadLength
           at    == F.current_offset
           bytes == Content[opened[call.slot]]
           got   == call.got \o Piece
           f     == [F EXCEPT !.current_offset = at + n,
                              !.offset_in_cluster = F.offset_in_cluster + n]
<1>1. InCluster /\ Wanting
  BY DEF ReadSector, InCluster
<1>2. call.slot \in Slots /\ open_files \in [Slots -> FileObject] /\ F \in FileObject
  BY <1>1, InRead
<1>3. n \in 1..(Len(bytes) - at) /\ Piece = SubSeq(bytes, at + 1, at + n)
  BY <1>1, PieceOfContent
<1>4. open_files' = [open_files EXCEPT ![call.slot] = f] /\ opened' = opened
  BY <1>2 DEF ReadSector, F
<1>5. call' = [call EXCEPT !.got = got]
  BY DEF ReadSector, Piece
<1>6. call'.slot = call.slot /\ call'.got = got
  BY <1>5 DEF IInv, TypeOK
<1>7. f.current_offset = at + n
  BY <1>2 DEF FileObject
<1> HIDE DEF f, n
<1>8. Position' = [Position EXCEPT ![call.slot] = at + n]
  BY <1>2, <1>4, <1>7, PositionStep
<1>9. Position[call.slot] = at
  BY <1>2 DEF Position, F
<1> HIDE DEF at
<1>10. /\ n \in 1..(Len(bytes) - Position[call.slot])
       /\ got = call.got \o SubSeq(bytes, Position[call.slot] + 1, Position[call.slot] + n)
       /\ Position' = [Position EXCEPT ![call.slot] = Position[call.slot] + n]
  BY <1>3, <1>8, <1>9
<1>11. PICK h \in Slots : h = call.slot
  BY <1>2
<1>12. Files!Fetch(h)
  BY <1>4, <1>6, <1>10, <1>11 DEF Files!Fetch, Position
<1> QED BY <1>12 DEF Files!Next

LEMMA NextRefines ==
  ASSUME SeeksToTheEnds, FatRead, IInv, [Next]_vars
  PROVE  Files!Next \/ UNCHANGED Files!vars
<1>1. CASE \E path \in Paths : fs_open(path)
  BY <1>1, OpenRefines
<1>2. ASSUME NEW s \in Slots, \E n \in Counts : fs_read(s, n)
      PROVE  Files!Next
  BY <1>2, StartRefines
<1>3. ASSUME NEW s \in Slots, \E k \in Seeks : fs_seek(s, k[1], k[2])
      PROVE  Files!Next
  BY <1>3, SeekRefines
<1>4. ASSUME NEW s \in Slots, fs_close(s)
      PROVE  Files!Next
  BY <1>4, CloseRefines
<1>5. ASSUME NEW s \in Slots, fs_read_dir(s)
      PROVE  UNCHANGED Files!vars
  BY <1>5, ReadDirRefines
<1>6. CASE ReadLoop
  <2>1. CASE StartChain
    <3>1. Wanting /\ Enter(F.first_cluster)
      BY <2>1 DEF StartChain, AtFirst
    <3> QED BY <2>1, <3>1, StartChainKeeps, EnterRefines
  <2>2. CASE FollowChain
    <3>1. Wanting /\ \E c : Enter(c)
      BY <2>2 DEF FollowChain, AtNext
    <3> QED BY <2>2, <3>1, FollowChainKeeps, EnterRefines
  <2>3. CASE ChainEnds \/ ReadFails \/ Finish
    <3>1. Reading /\ Done
      BY <2>3 DEF ChainEnds, ReadFails, Finish, AtNext, InCluster, Wanting
    <3> QED BY <3>1, DoneRefines
  <2>4. CASE ReadSector
    BY <2>4, ReadSectorRefines
  <2> QED BY <1>6, <2>1, <2>2, <2>3, <2>4 DEF ReadLoop
<1>7. CASE UNCHANGED vars
  BY <1>7 DEF vars, Files!vars
<1> QED BY <1>1, <1>2, <1>3, <1>4, <1>5, <1>6, <1>7 DEF Next

(* Each read hands out the bytes of the file its handle was opened for, in  *)
(* order, from the position the earlier calls have left.                    *)
THEOREM FsImplementsFiles ==
  ASSUME SeeksToTheEnds, FatRead
  PROVE  Spec => ImplementsFiles
<1>1. Init => IInv
  BY InitIInv
<1>2. IInv /\ [Next]_vars => IInv'
  BY NextKeepsIInv
<1>3. Init => Files!Init
  BY InitRefines
<1>4. IInv /\ [Next]_vars => [Files!Next]_(Files!vars)
  BY NextRefines
<1> QED BY <1>1, <1>2, <1>3, <1>4, PTL DEF Spec, ImplementsFiles, Files!Spec
-----------------------------------------------------------------------------
(* Why a read comes back short.  It wants what was asked for or all the     *)
(* file still has, and once it has copied something it is in a cluster.     *)
WantInv ==
  Reading => /\ call.want = call.count
                \/ F.current_offset + (call.want - Len(call.got)) = F.size
             /\ call.want >= 1
             /\ Len(call.got) >= 1 => F.current_cluster # 0

LEMMA WantStart ==
  ASSUME IInv, NEW s \in Slots, NEW n \in Counts, fs_read(s, n)
  PROVE  WantInv'
<1> DEFINE f    == open_files[s]
           want == BytesToRead(f, n)
           left == f.size - f.current_offset
<1>1. /\ f.current_offset < f.size
      /\ call' = [slot |-> s, count |-> n, want |-> want, got |-> << >>]
      /\ open_files' = open_files
  BY DEF fs_read
<1>2. f.size \in Nat /\ f.current_offset \in Nat /\ n \in 1..(W - 1) /\ W \in Nat
  BY Constants, Limits DEF IInv, TypeOK, FileObject
<1>3. want = IF n > left THEN left ELSE n
  BY DEF BytesToRead
<1>4. left \in Nat /\ left >= 1 /\ f.current_offset + left = f.size
  BY <1>1, <1>2
<1> HIDE DEF left, want
<1>5. want \in Nat /\ want >= 1 /\ (want = n \/ want = left)
  BY <1>2, <1>3, <1>4
<1>6. call'.want = want /\ call'.count = n /\ Len(call'.got) = 0 /\ F' = f
  BY <1>1 DEF F
<1> HIDE DEF f
<1>7. want = left => f.current_offset + (want - 0) = f.size
  BY <1>2, <1>4
<1> QED BY <1>5, <1>6, <1>7 DEF WantInv

LEMMA WantEnter ==
  ASSUME IInv, WantInv, Wanting, NEW c, Enter(c), call' = call
  PROVE  WantInv'
<1>1. /\ Reading /\ call.slot \in Slots /\ open_files \in [Slots -> FileObject]
      /\ F \in FileObject
  BY InRead
<1>2. open_files'[call.slot] = [F EXCEPT !.current_cluster = c, !.offset_in_cluster = 0]
  BY <1>1 DEF Enter, F
<1>3. /\ F'.current_offset = F.current_offset /\ F'.size = F.size
      /\ F'.current_cluster = c
  BY <1>1, <1>2 DEF F, FileObject
<1>4. c # 0
  BY <1>1, Constants DEF Enter, NoCall, Reading
<1> QED BY <1>1, <1>3, <1>4 DEF WantInv

LEMMA WantSector ==
  ASSUME IInv, WantInv, ReadSector
  PROVE  WantInv'
<1> DEFINE n   == ReadLength
           got == call.got \o Piece
<1>1. InCluster /\ Wanting /\ F.current_cluster # 0
  BY DEF ReadSector, InCluster
<1>2. n \in Nat /\ n >= 1
  BY <1>1, ReadLengthFits
<1>3. /\ Reading /\ call.slot \in Slots /\ open_files \in [Slots -> FileObject]
      /\ F \in FileObject /\ call.want \in 0..(W - 1) /\ Len(call.got) \in Nat
      /\ call.got \in Seq((0..(Sectors - 1)) \X (0..(SECTOR_SIZE - 1)))
  BY <1>1, InRead
<1>4. /\ F.current_offset \in Nat /\ F.size \in Nat /\ call.want \in Nat
  BY <1>3, Limits DEF FileObject
<1>5. open_files'[call.slot] = [F EXCEPT !.current_offset = F.current_offset + n,
                                         !.offset_in_cluster = F.offset_in_cluster + n]
  BY <1>3 DEF ReadSector, F
<1>6. call' = [call EXCEPT !.got = got]
  BY DEF ReadSector, Piece
<1>7. /\ call'.slot = call.slot /\ call'.want = call.want
      /\ call'.count = call.count /\ call'.got = got
  BY <1>6 DEF IInv, TypeOK
<1>8. Len(got) = Len(call.got) + n
  <2>1. /\ Piece \in Seq((0..(Sectors - 1)) \X (0..(SECTOR_SIZE - 1)))
        /\ Len(Piece) = n
    BY <1>1, PieceIs
  <2> QED BY <1>3, <2>1, ConcatProperties
<1> HIDE DEF n, got
<1>9. /\ F'.current_offset = F.current_offset + n /\ F'.size = F.size
      /\ F'.current_cluster = F.current_cluster
  BY <1>3, <1>5, <1>7 DEF F, FileObject
<1> DEFINE had  == Len(call.got)
           want == call.want
           at   == F.current_offset
           size == F.size
<1>10. had \in Nat /\ want \in Nat /\ at \in Nat /\ size \in Nat
  BY <1>3, <1>4
<1> HIDE DEF had, want, at, size
<1>11. at + (want - had) = size => (at + n) + (want - (had + n)) = size
  BY <1>2, <1>10
<1>12. /\ want = call.count \/ at + (want - had) = size
       /\ want >= 1
  BY <1>3 DEF WantInv, had, want, at, size
<1> QED BY <1>1, <1>7, <1>8, <1>9, <1>11, <1>12 DEF WantInv, had, want, at, size

LEMMA NextKeepsWantInv ==
  ASSUME SeeksToTheEnds, FatRead, IInv, WantInv, [Next]_vars
  PROVE  WantInv'
<1>1. ASSUME ~Reading, call' = call PROVE WantInv'
  BY <1>1 DEF Reading, WantInv
<1>2. CASE \E path \in Paths : fs_open(path)
  BY <1>1, <1>2 DEF fs_open
<1>3. ASSUME NEW s \in Slots, \E n \in Counts : fs_read(s, n)
      PROVE  WantInv'
  BY <1>3, WantStart
<1>4. ASSUME NEW s \in Slots, \E k \in Seeks : fs_seek(s, k[1], k[2])
      PROVE  WantInv'
  BY <1>1, <1>4 DEF fs_seek
<1>5. ASSUME NEW s \in Slots, fs_close(s) \/ fs_read_dir(s)
      PROVE  WantInv'
  BY <1>1, <1>5 DEF fs_close, fs_read_dir
<1>6. CASE ReadLoop
  <2>1. CASE StartChain
    <3>1. Wanting /\ Enter(F.first_cluster)
      BY <2>1 DEF StartChain, AtFirst
    <3> QED BY <2>1, <3>1, StartChainKeeps, WantEnter
  <2>2. CASE FollowChain
    <3>1. Wanting /\ \E c : Enter(c)
      BY <2>2 DEF FollowChain, AtNext
    <3> QED BY <2>2, <3>1, FollowChainKeeps, WantEnter
  <2>3. CASE ChainEnds \/ ReadFails \/ Finish
    <3>1. call' = NoCall
      BY <2>3 DEF ChainEnds, ReadFails, Finish, Done
    <3> QED BY <3>1 DEF WantInv, Reading, NoCall
  <2>4. CASE ReadSector
    BY <2>4, WantSector
  <2> QED BY <1>6, <2>1, <2>2, <2>3, <2>4 DEF ReadLoop
<1>7. CASE UNCHANGED vars
  BY <1>7 DEF vars, WantInv, Reading, F
<1> QED BY <1>2, <1>3, <1>4, <1>5, <1>6, <1>7 DEF Next

(* The content ends with the size or with the chain.                        *)
LEMMA ContentLength ==
  ASSUME IInv, Reading, F.current_cluster # 0,
         \/ F.current_offset = F.size
         \/ /\ F.current_offset < F.size
            /\ F.current_offset = Len(Chain[F.first_cluster]) * ClusterBytes
  PROVE  F.current_offset = Len(Content[opened[call.slot]])
<1> DEFINE at == F.current_offset
<1>1. /\ F \in FileObject /\ FileOf(F, opened[call.slot]) /\ PositionAgrees(F)
  <2>1. call.slot \in Slots /\ open_files \in [Slots -> FileObject]
    BY DEF IInv, TypeOK, Reading
  <2>2. F.state = "file"
    BY DEF IInv, CallInv
  <2> QED BY <2>1, <2>2 DEF IInv, SlotInv, F
<1>2. PICK i \in DOMAIN root_dir : /\ opened[call.slot] \in Paths
                                   /\ IsFile(opened[call.slot], i)
                                   /\ F.size = root_dir[i].size
                                   /\ F.first_cluster = root_dir[i].first
  BY <1>1 DEF FileOf
<1> DEFINE e    == root_dir[i]
           ch   == Chain[e.first]
           full == Len(ch) * ClusterBytes
<1>3. Content[opened[call.slot]] = ContentOf(e) /\ ChainFacts(e, ch)
  BY <1>2, ContentIs, ChainOf
<1>4. PICK k \in 1..Len(ch) : at = (k - 1) * ClusterBytes + F.offset_in_cluster
  BY <1>1, <1>2 DEF PositionAgrees
<1>5. /\ Len(ch) \in Nat /\ at \in Nat /\ F.offset_in_cluster \in 0..ClusterBytes
      /\ e.size \in Nat /\ full \in Nat
  <2>1. \A a, b \in Nat : a * b \in Nat
    OBVIOUS
  <2> QED BY <1>1, <1>3, <2>1, Constants DEF ChainFacts, FileObject
<1>6. at <= full
  <2> DEFINE before == (k - 1) * ClusterBytes
             after  == k * ClusterBytes
  <2>1. k \in Nat /\ k - 1 \in Nat /\ k <= Len(ch)
    BY <1>5
  <2>2. \A a, b \in Nat : a * b \in Nat
    OBVIOUS
  <2>3. before \in Nat /\ after \in Nat
    BY <2>1, <2>2, Constants
  <2>4. before + ClusterBytes = after
    BY <2>1, Constants, NextBlock
  <2>5. after <= full
    BY <1>5, <2>1, Constants, Multiples
  <2>6. at = before + F.offset_in_cluster
    BY <1>4
  <2> HIDE DEF before, after, full, at
  <2> QED BY <1>5, <2>3, <2>4, <2>5, <2>6, Constants
<1>7. at = e.size \/ (at < e.size /\ at = full)
  BY <1>2
<1>8. LET l == Len(ContentOf(e))
      IN  /\ l \in Nat /\ l <= e.size /\ l <= full
          /\ \A m \in Nat : m <= e.size /\ m <= full => m <= l
  BY <1>3, ContentBytes
<1> HIDE DEF at, full, ch, e
<1>9. Len(ContentOf(e)) = at
  BY <1>5, <1>6, <1>7, <1>8
<1> QED BY <1>3, <1>9 DEF at

LEMMA ReadIsWhole ==
  ASSUME FatRead, SeeksToTheEnds, IInv, WantInv, Next, Reading, call' = NoCall, ~ReadFails
  PROVE  \/ Len(call.got) = call.count
         \/ F.current_offset = Len(Content[opened[call.slot]])
<1>1. call' # call
  BY DEF Reading, NoCall
<1>2. ChainEnds \/ Finish
  <2>1. ~ReadSector
    <3>1. SUFFICES ASSUME ReadSector PROVE FALSE
      OBVIOUS
    <3>2. call'.slot = call.slot
      BY <3>1 DEF ReadSector, IInv, TypeOK
    <3> QED BY <3>2 DEF Reading, NoCall
  <2>2. ~StartChain /\ ~FollowChain
    BY <1>1, StartChainKeeps, FollowChainKeeps
  <2>3. ReadLoop
    BY DEF Next, fs_open, fs_read, fs_seek, fs_close, fs_read_dir
  <2> QED BY <2>1, <2>2, <2>3 DEF ReadLoop
<1>3. /\ F \in FileObject /\ call.want \in Nat /\ Len(call.got) \in Nat
      /\ Len(call.got) <= call.want
  <2>1. call.slot \in Slots /\ open_files \in [Slots -> FileObject] /\ call.want \in 0..(W - 1)
    BY DEF IInv, TypeOK, Reading
  <2>2. Len(call.got) <= call.want /\ call.got \in Seq((0..(Sectors - 1)) \X (0..(SECTOR_SIZE - 1)))
    BY DEF IInv, TypeOK
  <2> QED BY <2>1, <2>2, Limits, LenProperties DEF F
<1>4. CASE Finish
  <2>1. Len(call.got) = call.want /\ call.want >= 1
    BY <1>3, <1>4 DEF Finish, Wanting, WantInv
  <2>2. F.current_cluster # 0
    BY <2>1 DEF WantInv
  <2>3. CASE call.want = call.count
    BY <2>1, <2>3
  <2>4. CASE F.current_offset + (call.want - Len(call.got)) = F.size
    <3>1. F.current_offset \in Nat
      BY <1>3 DEF FileObject
    <3>2. F.current_offset = F.size
      BY <1>3, <2>1, <2>4, <3>1
    <3> QED BY <2>2, <3>2, ContentLength
  <2> QED BY <2>3, <2>4 DEF WantInv
<1>5. CASE ChainEnds
  <2> DEFINE ch == Chain[F.first_cluster]
             c  == fat[F.current_cluster]
  <2>1. /\ Wanting /\ F.current_cluster # 0 /\ F.offset_in_cluster >= ClusterBytes
        /\ c >= END_OF_CHAIN
    <3>1. Wanting /\ F.current_cluster # 0 /\ F.offset_in_cluster >= ClusterBytes
      BY <1>5 DEF ChainEnds, AtNext
    <3>2. get_fat_entry(F.current_cluster) = {c}
      BY <3>1, EntryRead
    <3> QED BY <1>5, <3>1, <3>2 DEF ChainEnds
  <2>2. PICK i \in DOMAIN root_dir, k \in Nat :
          /\ k \in 1..Len(ch)
          /\ ChainFacts(root_dir[i], ch)
          /\ F.current_cluster = ch[k]
          /\ F.current_offset = (k - 1) * ClusterBytes + F.offset_in_cluster
    BY <2>1, Place
  <2>3. F.current_offset < F.size
    BY <2>1, InRead
  <2> HIDE DEF ch
  <2>4. F.offset_in_cluster = ClusterBytes
    BY <1>3, <2>1, Constants DEF FileObject
  <2>5. F.current_offset = k * ClusterBytes
    BY <2>2, <2>4, Constants, NextBlock
  <2>6. /\ Len(ch) \in Nat /\ \A m \in 2..Len(ch) : ch[m] = fat[ch[m - 1]]
        /\ \A m \in 1..Len(ch) : ch[m] \in 2..(END_OF_CHAIN - 1)
    BY <2>2 DEF ChainFacts
  <2>7. k = Len(ch)
    <3> SUFFICES ASSUME k # Len(ch) PROVE FALSE
      OBVIOUS
    <3> DEFINE next == k + 1
    <3>1. next \in 1..Len(ch) /\ next \in 2..Len(ch) /\ next - 1 = k
      BY <2>2, <2>6
    <3> HIDE DEF next
    <3>2. c = ch[next]
      BY <2>2, <2>6, <3>1
    <3>3. c \in 2..(END_OF_CHAIN - 1)
      BY <2>6, <3>1, <3>2
    <3> HIDE DEF c
    <3> QED BY <2>1, <3>3, Limits
  <2> QED BY <2>1, <2>3, <2>5, <2>7, ContentLength DEF ch
<1> QED BY <1>2, <1>4, <1>5

(* fs_read returns less than was asked for only at the end of what the file *)
(* has on the disk, or because a sector of it could not be read.            *)
THEOREM FsWholeRead ==
  ASSUME SeeksToTheEnds, FatRead
  PROVE  Spec => WholeRead
<1>1. Init => IInv /\ WantInv
  BY InitIInv DEF Init, WantInv, Reading, NoCall
<1>2. IInv /\ WantInv /\ [Next]_vars => IInv' /\ WantInv'
  BY NextKeepsIInv, NextKeepsWantInv
<1>3. IInv /\ WantInv /\ [Next]_vars =>
        [Reading /\ call' = NoCall /\ ~ReadFails =>
           \/ Len(call.got) = call.count
           \/ F.current_offset = Len(Content[opened[call.slot]])]_vars
  BY ReadIsWhole
<1> QED BY <1>1, <1>2, <1>3, PTL DEF Spec, WholeRead
=============================================================================
