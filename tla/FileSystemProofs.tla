-------------------------- MODULE FileSystemProofs --------------------------
(***************************************************************************)
(* Theorems about the file system, for every card (any files, chains,      *)
(* sizes and copies of the FAT), every request and every failure.          *)
(*                                                                         *)
(* The argument goes in layers: where each call can be (Shape), what the   *)
(* FAT can hold (Entries), how far a removal has got (Progress), and where *)
(* the cursor of a FILE is (OnChain, then Course).                         *)
(***************************************************************************)
EXTENDS FileSystemImplements, TLAPS

Removing == {"chain", "mark", "entry"}
Reading == {"fread", "fread_end"}

-----------------------------------------------------------------------------
(* Where the calls can be, and what their variables hold there. A cursor   *)
(* past the chain goes with eof, so no call goes on from there.            *)
Shape ==
    /\ pc \in Reading => fp # NULL /\ seek = NULL
    /\ pc = "fread" => ~fp.eof /\ Len(out) < total
    /\ pc \notin Reading => out = <<>>
    /\ fp # NULL => /\ fp.first_cluster \in {JUNK, first_cluster(fp.file)}
                    /\ fp.first_cluster # JUNK => fp.size = Size[fp.file]
                    /\ fp.current_cluster = EOC => fp.eof
    /\ seek # NULL => /\ fp # NULL
                      /\ seek.target = EOC => fp.eof /\ seek.steps = 0
                      /\ seek.polling => seek.steps > 0
    /\ pc \in Removing => name \in begun /\ (NULL \in dir_buffer \/ Lost \/ dir_buffer = dir)
    /\ pc = "mark" => copy \in Copies /\ InChain

(* Where a walk along the chain of f can get to, whatever was removed.     *)
Own(f) == {Chain[f][i] : i \in DOMAIN Chain[f]}
Reach(f) == {0, JUNK, EOC} \cup Own(f)

(* What the FAT holds until the card is lost: an entry of a file is its own*)
(* or free, every other cluster is free.                                   *)
Entries ==
    \A k \in Copies :
      IF Lost THEN \A c \in 0..LastCluster : fat[k][c] = JUNK ELSE
        /\ fat[k][0] = EOC /\ fat[k][1] = EOC
        /\ \A f \in Files : \A i \in DOMAIN Chain[f] : fat[k][Chain[f][i]] \in {0, Link(f, i)}
        /\ \A c \in Clusters : ~Allocated(c) => fat[k][c] = 0

(* A removal is on the chain of its file.                                  *)
RemovesItsFile ==
    /\ pc \in {"chain", "mark"} => current \in Reach(name)
    /\ pc = "mark" => next \in Reach(name)

(* Without faults, a removal has cleared the entries before its own place, *)
(* and at that place those of the copies before its own copy.              *)
Place(f, j) == IF j \in DOMAIN Chain[f] THEN Chain[f][j]
               ELSE IF Chain[f] = <<>> THEN 0 ELSE EOC

ClearedTo(j) ==
    \A k \in Copies : \A i \in DOMAIN Chain[name] :
        fat[k][Chain[name][i]] = IF i < j \/ (i = j /\ pc = "mark" /\ k < copy)
                                 THEN 0 ELSE Link(name, i)

AllCleared(f) == \A k \in Copies : \A i \in DOMAIN Chain[f] : fat[k][Chain[f][i]] = 0

Progress ==
    ~failed =>
        /\ ~Lost
        /\ \A f \in dir : (pc \in Removing /\ f = name) \/ \A k \in Copies : Whole(f, k)
        /\ \A f \in Files \ dir : AllCleared(f)
        /\ pc \in Removing => name \in dir
        /\ pc \in {"chain", "mark"} =>
              \E j \in 1..(Len(Chain[name]) + 1) :
                  current = Place(name, j) /\ ClearedTo(j) /\ (pc = "mark" => next = Link(name, j))
        /\ pc = "entry" => AllCleared(name)

(* The cursor and the walk stay on the chain of the file.                  *)
OnChain ==
    /\ fp # NULL => fp.current_cluster \in Reach(fp.file)
    /\ seek # NULL => seek.target \in Reach(fp.file)

(* Until something fails, every number is known.                           *)
Noticed ==
    ~failed =>
        /\ fp # NULL => fp.first_cluster # JUNK /\ fp.current_cluster # JUNK
        /\ seek # NULL => seek.target # JUNK

(* While the file is whole, the walk is as far as it has steps to go, ...  *)
Index == fp.fpos \div ClusterBytes
Intact == ~fp.eof /\ Chain[fp.file] # <<>> /\ Whole(fp.file, 1)
Done == Index - seek.steps
SeekOnChain ==
    seek # NULL /\ seek.target # JUNK /\ Intact =>
        /\ Done + 1 \in DOMAIN Chain[fp.file]
        /\ seek.target = Chain[fp.file][Done + 1]

(* ... and what is left of a read ends where it should.                    *)
DueAt(p, n) == IF (p + n) % Word > fp.size THEN (fp.size - p) % Word ELSE n
Course ==
    pc = "fread" =>
        /\ Intact /\ fp.current_cluster # JUNK => start + Len(out) = fp.fpos
        /\ total = DueAt(start, wanted)

-----------------------------------------------------------------------------
(* Arithmetic of positions: / and % on clusters.                           *)
LEMMA Divided ==
  ASSUME NEW i \in Int, NEW m \in Nat \ {0}
  PROVE  /\ i % m \in 0..(m - 1) /\ i \div m \in Int
         /\ i = (i \div m) * m + (i % m)
  OBVIOUS

LEMMA DividedNat ==
  ASSUME NEW i \in Nat, NEW m \in Nat \ {0}
  PROVE  i \div m \in Nat
  OBVIOUS

(* A position lies at or after the start of its cluster.                   *)
LEMMA StartOfCluster ==
  ASSUME NEW i \in Nat, NEW m \in Nat \ {0}
  PROVE  i \div m \in Nat /\ i >= (i \div m) * m
<1> DEFINE q == i \div m
           base == q * m
           r == i % m
<1>1. q \in Nat
  BY DividedNat
<1>2. r \in 0..(m - 1) /\ i = base + r
  BY Divided
<1> HIDE DEF q
<1>3. base \in Int
  BY <1>1
<1> HIDE DEF base, r
<1>4. i >= base
  BY <1>2, <1>3
<1> QED
  BY <1>1, <1>4 DEF q, base

LEMMA Quotient ==
  ASSUME NEW i \in Int, NEW m \in Nat \ {0}, NEW q \in Int, NEW r \in 0..(m - 1),
         i = q * m + r
  PROVE  i \div m = q /\ i % m = r
  OBVIOUS

(* The card.                                                               *)
LEMMA Volume ==
  /\ LastCluster \in Nat /\ LastCluster >= 1 /\ fat_count \in Nat /\ fat_count >= 1
  /\ SectorBytes \in Nat \ {0} /\ ClusterBytes \in Nat \ {0} /\ Word \in Nat \ {0}
  /\ ClusterBytes % SectorBytes = 0 /\ Word % ClusterBytes = 0
  /\ EOC \in Nat /\ EOC = LastCluster + 2 /\ JUNK = LastCluster + 1 /\ Unknown = {JUNK, EOC}
  /\ Clusters = 2..LastCluster /\ Copies = 1..fat_count
  BY VolumeAssumption DEF EOC, JUNK, Unknown, Clusters, Copies

LEMMA ChainShape ==
  ASSUME NEW f \in Files
  PROVE  /\ Len(Chain[f]) \in Nat /\ DOMAIN Chain[f] = 1..Len(Chain[f])
         /\ \A i \in DOMAIN Chain[f] : Chain[f][i] \in Clusters
         /\ Chain[f] = <<>> <=> Len(Chain[f]) = 0
         /\ Size[f] \in 0..(Len(Chain[f]) * ClusterBytes) /\ Size[f] < Word
         /\ Len(Chain[f]) * ClusterBytes <= Word
<1>1. Chain[f] \in Seq(Clusters)
  BY ChainAssumption
<1> QED
  BY <1>1, ChainAssumption

LEMMA FirstCluster == ASSUME NEW f \in Files PROVE first_cluster(f) \in Reach(f)
  BY ChainShape DEF first_cluster, Reach, Own

LEMMA LinkReaches ==
  ASSUME NEW f \in Files, NEW i \in DOMAIN Chain[f]
  PROVE  Link(f, i) \in Reach(f) /\ Link(f, i) \in Clusters \cup {EOC} /\ Link(f, i) # 0
  BY ChainShape, Volume DEF Link, Reach, Own

LEMMA ReachIsCluster ==
  ASSUME NEW f \in Files, NEW c \in Reach(f)
  PROVE  c \in 0..EOC /\ (c \notin Unknown => c \in 0..LastCluster)
  BY ChainShape, Volume DEF Reach, Own

LEMMA Fresh ==
  ASSUME NEW f \in Files, NEW i \in DOMAIN Chain[f]
  PROVE  FreshEntry(Chain[f][i]) = Link(f, i)
<1> DEFINE c == Chain[f][i]
<1>1. c \in Clusters /\ ~(c < 2) /\ Allocated(c)
  BY ChainShape, Volume DEF Allocated
<1>2. Link(f, i) \in Clusters \cup {EOC}
  BY LinkReaches
<1>3. \A g \in Files : \A j \in DOMAIN Chain[g] : Chain[g][j] = c => g = f /\ j = i
  BY ChainAssumption
<1>4. \A e \in Clusters \cup {EOC} :
         (\E g \in Files : \E j \in DOMAIN Chain[g] : Chain[g][j] = c /\ e = Link(g, j))
           <=> e = Link(f, i)
  BY <1>3
<1>5. FreshEntry(c) = CHOOSE e \in Clusters \cup {EOC} :
          \E g \in Files : \E j \in DOMAIN Chain[g] : Chain[g][j] = c /\ e = Link(g, j)
  BY <1>1 DEF FreshEntry
<1> HIDE DEF c
<1>6. FreshEntry(c) = Link(f, i)
  BY <1>2, <1>4, <1>5
<1> QED
  BY <1>6 DEF c

LEMMA FreshOthers ==
  ASSUME NEW c \in 0..LastCluster
  PROVE  /\ FreshEntry(c) \in 0..EOC
         /\ c < 2 => FreshEntry(c) = EOC
         /\ c \in Clusters /\ ~Allocated(c) => FreshEntry(c) = 0
<1>1. CASE c < 2
  BY <1>1, Volume DEF FreshEntry
<1>2. CASE ~(c < 2) /\ ~Allocated(c)
  BY <1>2, Volume DEF FreshEntry
<1>3. CASE Allocated(c)
  <2> PICK f \in Files : \E i \in DOMAIN Chain[f] : Chain[f][i] = c
    BY <1>3 DEF Allocated
  <2>1. PICK i \in DOMAIN Chain[f] : Chain[f][i] = c
    OBVIOUS
  <2>2. FreshEntry(c) \in Clusters \cup {EOC} /\ c \in Clusters
    BY <2>1, Fresh, LinkReaches, ChainShape
  <2> QED
    BY <1>3, <2>2, Volume
<1> QED
  BY <1>1, <1>2, <1>3


-----------------------------------------------------------------------------
(* Types and shape: Init, then one lemma for each group of actions.        *)
Sound == TypeOK /\ Shape

LEMMA InitSound == Init => Sound
<1> SUFFICES ASSUME Init PROVE Sound
  OBVIOUS
<1>1. fat \in [Copies -> [0..LastCluster -> 0..EOC]]
  BY FreshOthers DEF Init
<1>2. TypeOK
  <2>1. 0 \in 0..EOC /\ 0 \in 0..(Word - 1) /\ 0 \in 0..fat_count
    BY Volume
  <2>2. <<>> \in Seq((0..EOC) \X Nat)
    OBVIOUS
  <2> QED
    BY <1>1, <2>1, <2>2 DEF Init, TypeOK
<1>3. Shape
  BY DEF Init, Shape, Reading, Removing
<1> QED
  BY <1>2, <1>3 DEF Sound

(* A FILE as k_fopen() leaves it, found in the directory or in memory.     *)
LEMMA OpenedFile ==
  ASSUME Sound, NEW f \in Files, k_fopen(f)
  PROVE  /\ fp' \in FILE /\ fp' # NULL /\ fp = NULL /\ seek = NULL /\ pc = "idle"
         /\ fp'.file = f /\ fp'.current_cluster = fp'.first_cluster
         /\ fp'.current_cluster_index = 0 /\ fp'.fpos = 0 /\ fp'.eof = FALSE
         /\ fp'.first_cluster # EOC
         /\ \/ f \in dir /\ fp'.first_cluster = first_cluster(f) /\ fp'.size = Size[f]
               /\ failed' = failed
            \/ fp'.first_cluster = JUNK /\ failed' = TRUE
<1>1. first_cluster(f) \in 0..LastCluster /\ Size[f] \in Nat
  BY ChainShape, Volume DEF first_cluster
<1>2. fp = NULL /\ pc = "idle" /\ seek = NULL /\ failed \in BOOLEAN
  BY DEF k_fopen, Sound, Shape, TypeOK
<1>3. ASSUME NEW c \in 0..JUNK, NEW size \in Nat, fp' = Handle(f, c, size)
      PROVE  /\ fp' \in FILE /\ fp'.file = f /\ fp'.current_cluster = c /\ fp'.first_cluster = c
             /\ fp'.current_cluster_index = 0 /\ fp'.fpos = 0 /\ fp'.eof = FALSE
             /\ c # EOC /\ fp'.size = size
  <2>1. LastIndex \in Nat
    <3>1. Word \in Nat
      BY Volume
    <3> QED
      BY <3>1, Volume, DividedNat DEF LastIndex
  <2> QED
    BY <1>3, <2>1, Volume DEF Handle, FILE
<1>4. CASE f \in dir /\ fp' = Handle(f, first_cluster(f), Size[f]) /\ Transfer("done")
  <2>1. failed' = failed
    BY <1>2, <1>4 DEF Transfer
  <2>2. first_cluster(f) \in 0..JUNK
    BY <1>1, Volume
  <2>3. /\ fp' \in FILE /\ fp'.file = f /\ fp'.current_cluster = first_cluster(f)
        /\ fp'.first_cluster = first_cluster(f)
        /\ fp'.current_cluster_index = 0 /\ fp'.fpos = 0 /\ fp'.eof = FALSE
        /\ first_cluster(f) # EOC /\ fp'.size = Size[f]
    BY <1>1, <1>3, <1>4, <2>2
  <2> QED
    BY <1>2, <1>4, <2>1, <2>3, NullAssumption
<1>5. ASSUME NEW size \in Sizes, fp' = Handle(f, JUNK, size), Transfer("short")
      PROVE  fp' \in FILE /\ fp'.file = f /\ fp'.current_cluster = JUNK /\ fp'.first_cluster = JUNK
             /\ fp'.current_cluster_index = 0 /\ fp'.fpos = 0 /\ fp'.eof = FALSE /\ failed' = TRUE
             /\ JUNK # EOC
  <2>1. size \in Nat /\ JUNK \in 0..JUNK
    BY VolumeAssumption, Volume
  <2>2. failed' = TRUE
    BY <1>5 DEF Transfer
  <2> QED
    BY <1>3, <1>5, <2>1, <2>2
<1> QED
  BY <1>2, <1>4, <1>5, NullAssumption DEF k_fopen

LEMMA OpenSound == ASSUME Sound, NEW f \in Files, k_fopen(f) PROVE Sound'
<1>1. failed' \in BOOLEAN
  BY DEF k_fopen, Transfer, Sound, TypeOK
<1>2. TypeOK'
  BY <1>1, OpenedFile DEF k_fopen, Sound, TypeOK, disk, reading, removing
<1>3. Shape'
  BY OpenedFile DEF k_fopen, Sound, Shape, disk, reading, removing, Reading, Removing, InChain, Lost
<1> QED
  BY <1>2, <1>3 DEF Sound

LEMMA CloseSound == ASSUME Sound, k_fclose PROVE Sound'
<1>1. TypeOK'
  BY DEF k_fclose, Sound, TypeOK, disk, reading, removing
<1>2. Shape'
  BY DEF k_fclose, Sound, Shape, disk, reading, removing, Reading, Removing, InChain, Lost
<1> QED
  BY <1>1, <1>2 DEF Sound

LEMMA TotalTyped ==
  ASSUME Sound, fp # NULL, NEW n \in Requests
  PROVE  total_to_read(n) \in 0..(Word - 1) /\ (total_to_read(n) # 0 => ~fp.eof)
<1>1. n \in 0..(Word - 1)
  BY VolumeAssumption
<1>2. fp \in FILE /\ fp.size \in Nat /\ fp.fpos \in Nat
  BY DEF Sound, TypeOK, FILE
<1>3. (fp.size - fp.fpos) % Word \in 0..(Word - 1)
  <2>1. fp.size - fp.fpos \in Int
    BY <1>2
  <2> QED
    BY <2>1, Volume, Divided
<1> QED
  BY <1>1, <1>3, Volume DEF total_to_read

LEMMA ReadSound == ASSUME Sound, NEW n \in Requests, k_fread(n) PROVE Sound'
<1>1. total' \in 0..(Word - 1) /\ (total' # 0 => ~fp.eof) /\ n \in 0..(Word - 1)
  BY TotalTyped, VolumeAssumption DEF k_fread
<1>2. fp \in FILE /\ fp.fpos \in 0..(Word - 1)
  BY DEF k_fread, Sound, TypeOK, FILE
<1>3. TypeOK'
  BY <1>1, <1>2 DEF k_fread, Sound, TypeOK, disk, removing
<1>4. Shape'
  BY <1>1, Volume DEF k_fread, Sound, Shape, disk, removing, Reading, Removing, InChain, Lost
<1> QED
  BY <1>3, <1>4 DEF Sound

(* What a turn of k_fread() reads: to the end of a sector at most, so      *)
(* never past the end of a cluster.                                        *)
offset == fp.fpos % ClusterBytes
can_read == Lesser(SectorBytes - (offset % SectorBytes), total - Len(out))

LEMMA TurnReads ==
  ASSUME Sound, pc = "fread"
  PROVE  /\ fp \in FILE /\ fp.fpos \in 0..(Word - 1)
         /\ out \in Seq((0..EOC) \X Nat) /\ Len(out) \in Nat /\ total \in 0..(Word - 1)
         /\ offset \in 0..(ClusterBytes - 1)
         /\ fp.fpos = (fp.fpos \div ClusterBytes) * ClusterBytes + offset
         /\ can_read \in Nat \ {0} /\ Len(out) + can_read <= total
         /\ offset + can_read <= ClusterBytes
<1>1. fp \in FILE /\ fp.fpos \in 0..(Word - 1) /\ fp.fpos \in Int
  BY DEF Sound, Shape, TypeOK, FILE, Reading
<1>2. /\ out \in Seq((0..EOC) \X Nat) /\ Len(out) \in Nat
      /\ total \in 0..(Word - 1) /\ Len(out) < total
  BY DEF Sound, Shape, TypeOK
<1>3. /\ offset \in 0..(ClusterBytes - 1)
      /\ fp.fpos = (fp.fpos \div ClusterBytes) * ClusterBytes + offset
  BY <1>1, Volume, Divided DEF offset
<1>4. /\ offset % SectorBytes \in 0..(SectorBytes - 1)
      /\ offset + (SectorBytes - (offset % SectorBytes)) <= ClusterBytes
  <2> DEFINE i == offset \div SectorBytes
             r == offset % SectorBytes
             q == ClusterBytes \div SectorBytes
  <2>1. i \in Int /\ r \in 0..(SectorBytes - 1) /\ offset = i * SectorBytes + r
    <3>1. offset \in Int
      BY <1>3, Volume
    <3> QED
      BY <3>1, Volume, Divided
  <2>2. q \in Int /\ ClusterBytes = q * SectorBytes
    BY Volume, Divided
  <2> HIDE DEF i, q, r
  <2>3. i * SectorBytes < q * SectorBytes
    BY <1>3, <2>1, <2>2, Volume
  <2>4. i < q
    BY <2>1, <2>2, <2>3, Volume
  <2>5. (i + 1) * SectorBytes <= q * SectorBytes
    BY <2>1, <2>2, <2>4, Volume
  <2>6. (i + 1) * SectorBytes = i * SectorBytes + SectorBytes
    BY <2>1, Volume
  <2>7. offset + (SectorBytes - r) <= ClusterBytes
    BY <1>3, <2>1, <2>2, <2>5, <2>6, Volume
  <2> QED
    BY <2>1, <2>7 DEF r
<1> DEFINE left == SectorBytes - (offset % SectorBytes)
<1>5. left \in Nat \ {0} /\ offset + left <= ClusterBytes
  BY <1>3, <1>4, Volume
<1> HIDE DEF left
<1>6. can_read \in Nat \ {0} /\ can_read <= left /\ can_read <= total - Len(out)
  BY <1>2, <1>5 DEF can_read, Lesser, left
<1>7. offset + can_read <= ClusterBytes /\ Len(out) + can_read <= total
  BY <1>2, <1>3, <1>5, <1>6, Volume
<1> QED
  BY <1>1, <1>2, <1>3, <1>6, <1>7


(* The two ways a turn ends: inside a cluster, or at the start of the next *)
(* one.                                                                    *)
fpos1 == (fp.fpos + can_read) % Word
place(i) == Byte(fp.current_cluster, offset + i - 1)
Piece(sector) == [i \in 1..can_read |-> IF sector = "done" THEN place(i) ELSE JunkByte]

Inside ==
    /\ fpos1 % ClusterBytes # 0
    /\ fp' = [fp EXCEPT !.fpos = fpos1]
    /\ pc' = Turns(Len(out'))

Crosses(entry, c) ==
    /\ fpos1 % ClusterBytes = 0
    /\ c \in get_next_cluster(fp.current_cluster, entry)
    /\ fp' = [fp EXCEPT !.fpos = fpos1, !.current_cluster = c,
                        !.current_cluster_index = Lesser(@ + 1, LastIndex), !.eof = c >= EOC]
    /\ pc' = IF c >= EOC THEN "fread_end" ELSE Turns(Len(out'))
    /\ entry # "done" => failed'

LEMMA Transferred ==
  ASSUME TypeOK, NEW r, Transfer(r)
  PROVE  failed' \in BOOLEAN /\ (failed => failed') /\ (r # "done" => failed')
         /\ (r = "done" => failed' = failed)
  BY DEF TypeOK, Transfer

LEMMA TurnEnds ==
  ASSUME Sound, k_fread_turn
  PROVE  /\ pc = "fread"
         /\ UNCHANGED <<disk, seek, total, start, wanted, removing>>
         /\ failed' \in BOOLEAN /\ (failed => failed')
         /\ \E sector \in {"done", "short"} :
               out' = out \o Piece(sector) /\ (sector # "done" => failed')
         /\ Inside \/ \E entry \in Outcomes : \E c : Crosses(entry, c)
<1>1. pc = "fread" /\ UNCHANGED <<disk, seek, total, start, wanted, removing>> /\ TypeOK
  BY DEF k_fread_turn, Sound
<1>2. PICK sector \in {"done", "short"}, entry \in Outcomes :
         /\ out' = out \o Piece(sector)
         /\ IF fpos1 % ClusterBytes = 0
            THEN \E c \in get_next_cluster(fp.current_cluster, entry) :
                    /\ fp' = [fp EXCEPT !.fpos = fpos1, !.current_cluster = c,
                                        !.current_cluster_index = Lesser(@ + 1, LastIndex),
                                        !.eof = c >= EOC]
                    /\ pc' = IF c >= EOC THEN "fread_end" ELSE Turns(Len(out'))
                    /\ Transfer(IF sector = "done" THEN entry ELSE sector)
            ELSE /\ fp' = [fp EXCEPT !.fpos = fpos1]
                 /\ pc' = Turns(Len(out'))
                 /\ Transfer(sector)
  BY DEF k_fread_turn, offset, can_read, fpos1, place, Piece
<1>3. CASE fpos1 % ClusterBytes # 0
  <2>1. Inside /\ Transfer(sector)
    BY <1>2, <1>3 DEF Inside
  <2> QED
    BY <1>1, <1>2, <2>1, Transferred
<1>4. CASE fpos1 % ClusterBytes = 0
  <2>1. PICK c \in get_next_cluster(fp.current_cluster, entry) :
           /\ fp' = [fp EXCEPT !.fpos = fpos1, !.current_cluster = c,
                               !.current_cluster_index = Lesser(@ + 1, LastIndex),
                               !.eof = c >= EOC]
           /\ pc' = IF c >= EOC THEN "fread_end" ELSE Turns(Len(out'))
           /\ Transfer(IF sector = "done" THEN entry ELSE sector)
    BY <1>2, <1>4
  <2>2. /\ failed' \in BOOLEAN /\ (failed => failed')
        /\ (sector # "done" => failed') /\ (entry # "done" => failed')
    <3>1. CASE sector = "done"
      BY <1>1, <2>1, <3>1, Transferred
    <3>2. CASE sector # "done"
      BY <1>1, <2>1, <3>2, Transferred
    <3> QED
      BY <3>1, <3>2
  <2>3. Crosses(entry, c)
    BY <1>4, <2>1, <2>2 DEF Crosses
  <2> QED
    BY <1>1, <1>2, <2>2, <2>3
<1> QED
  BY <1>3, <1>4

LEMMA Appended ==
  ASSUME NEW S, NEW s \in Seq(S), NEW t \in Seq(S)
  PROVE  /\ s \o t \in Seq(S)
         /\ Len(s \o t) = Len(s) + Len(t)
         /\ \A i \in 1..Len(s) : (s \o t)[i] = s[i]
         /\ \A i \in (Len(s) + 1)..(Len(s) + Len(t)) : (s \o t)[i] = t[i - Len(s)]
  OBVIOUS

LEMMA TurnOut ==
  ASSUME Sound, k_fread_turn
  PROVE  /\ out' \in Seq((0..EOC) \X Nat)
         /\ Len(out') = Len(out) + can_read
         /\ \A i \in 1..Len(out) : out'[i] = out[i]
         /\ \A i \in (Len(out) + 1)..Len(out') :
               out'[i] = place(i - Len(out)) \/ (out'[i] = JunkByte /\ failed')
<1>1. /\ can_read \in Nat /\ offset \in Nat /\ fp.current_cluster \in 0..EOC
      /\ out \in Seq((0..EOC) \X Nat)
  BY TurnEnds, TurnReads, Volume DEF FILE
<1>2. PICK sector : out' = out \o Piece(sector) /\ (sector # "done" => failed')
  BY TurnEnds
<1> DEFINE p == Piece(sector)
<1>3. \A i \in 1..can_read : p[i] = place(i) \/ (p[i] = JunkByte /\ failed')
  BY <1>2 DEF Piece
<1>4. \A i \in 1..can_read : p[i] \in (0..EOC) \X Nat
  <2>1. JunkByte \in (0..EOC) \X Nat
    BY Volume DEF JunkByte
  <2>2. ASSUME NEW i \in 1..can_read PROVE place(i) \in (0..EOC) \X Nat
    <3>1. offset + i - 1 \in Nat /\ cluster_to_lba(fp.current_cluster) \in 0..EOC
      BY <1>1, Volume DEF cluster_to_lba
    <3> QED
      BY <2>1, <3>1 DEF place, Byte
  <2> QED
    BY <1>3, <2>1, <2>2
<1>5. p \in Seq((0..EOC) \X Nat) /\ Len(p) = can_read
  BY <1>1, <1>4 DEF Piece
<1> HIDE DEF p
<1>6. out' = out \o p
  BY <1>2 DEF p
<1>7. /\ out \o p \in Seq((0..EOC) \X Nat)
      /\ Len(out \o p) = Len(out) + can_read
      /\ \A i \in 1..Len(out) : (out \o p)[i] = out[i]
      /\ \A i \in (Len(out) + 1)..(Len(out) + can_read) : (out \o p)[i] = p[i - Len(out)]
  BY <1>1, <1>5, Appended
<1>8. ASSUME NEW i \in (Len(out) + 1)..(Len(out) + can_read)
      PROVE  out'[i] = place(i - Len(out)) \/ (out'[i] = JunkByte /\ failed')
  <2>1. i - Len(out) \in 1..can_read /\ out'[i] = p[i - Len(out)]
    BY <1>1, <1>6, <1>7
  <2> QED
    BY <1>3, <2>1
<1> QED
  BY <1>6, <1>7, <1>8

(* An index counts as long as a position can have it.                      *)
LEMMA IndexTyped ==
  ASSUME NEW p \in 0..(Word - 1)
  PROVE  LastIndex \in Nat /\ p \div ClusterBytes \in 0..LastIndex
                          /\ p \div ClusterBytes < LastIndex
<1> DEFINE q == p \div ClusterBytes
<1>1. p \in Nat /\ Word \in Nat /\ ClusterBytes \in Nat \ {0}
  BY Volume
<1>2. q \in Nat /\ p >= q * ClusterBytes /\ LastIndex \in Nat
  BY <1>1, StartOfCluster DEF LastIndex
<1>3. Word = LastIndex * ClusterBytes
  BY <1>1, Volume, Divided DEF LastIndex
<1> HIDE DEF q
<1>4. q * ClusterBytes \in Int /\ LastIndex * ClusterBytes \in Int
  BY <1>1, <1>2
<1>5. q * ClusterBytes < LastIndex * ClusterBytes
  BY <1>1, <1>2, <1>3, <1>4
<1>6. q < LastIndex
  BY <1>1, <1>2, <1>5
<1> QED
  BY <1>2, <1>6 DEF q

(* A FILE whose cursor crosses into another cluster.                       *)
LEMMA CrossesTo ==
  ASSUME Sound, pc = "fread", NEW entry \in Outcomes, NEW c \in 0..EOC, Crosses(entry, c)
  PROVE  /\ fp' \in FILE
         /\ fp'.file = fp.file /\ fp'.size = fp.size /\ fp'.first_cluster = fp.first_cluster
         /\ fp'.fpos = fpos1 /\ fp'.current_cluster = c
         /\ fp'.current_cluster_index = Lesser(fp.current_cluster_index + 1, LastIndex)
         /\ fp'.eof = (c >= EOC)
<1> DEFINE e == c >= EOC
           n == Lesser(fp.current_cluster_index + 1, LastIndex)
<1>1. /\ fp \in FILE /\ n \in 0..LastIndex /\ fp.fpos + can_read \in Int
  <2>1. fp \in FILE /\ fp.fpos + can_read \in Int
    BY TurnReads DEF FILE
  <2>2. fp.current_cluster_index \in 0..LastIndex /\ LastIndex \in Nat
    <3>1. 0 \in 0..(Word - 1)
      BY Volume
    <3> QED
      BY <2>1, <3>1, IndexTyped DEF FILE
  <2> QED
    BY <2>1, <2>2 DEF Lesser
<1>2. fpos1 \in 0..(Word - 1)
  BY <1>1, Volume, Divided DEF fpos1
<1>3. e \in BOOLEAN
  BY Volume
<1>4. fp' = [fp EXCEPT !.fpos = fpos1, !.current_cluster = c,
                       !.current_cluster_index = n, !.eof = e]
  BY DEF Crosses
<1> HIDE DEF e, n
<1>5. /\ fp' \in FILE
      /\ fp'.file = fp.file /\ fp'.size = fp.size /\ fp'.first_cluster = fp.first_cluster
      /\ fp'.fpos = fpos1 /\ fp'.current_cluster = c
      /\ fp'.current_cluster_index = n
      /\ fp'.eof = e
  BY <1>1, <1>2, <1>3, <1>4 DEF FILE
<1> QED
  BY <1>5 DEF e, n

(* The entry of a cluster, a number nobody knows, or EOC when it could not *)
(* be read.                                                                *)
LEMMA NextTyped ==
  ASSUME TypeOK, NEW c \in 0..EOC, c # EOC, NEW r \in Outcomes, NEW x \in get_next_cluster(c, r)
  PROVE  x \in 0..EOC
<1>1. c <= LastCluster => fat[1][c] \in 0..EOC
  BY Volume DEF TypeOK
<1>2. Entry(c) \subseteq 0..EOC /\ Unknown \subseteq 0..EOC /\ EOC \in 0..EOC
  BY <1>1, Volume DEF Entry
<1> QED
  BY <1>2 DEF get_next_cluster, Outcomes

LEMMA TurnSound == ASSUME Sound, k_fread_turn PROVE Sound'
<1>1. /\ pc = "fread" /\ failed' \in BOOLEAN
      /\ UNCHANGED <<disk, seek, total, start, wanted, removing>>
  BY TurnEnds
<1>2. /\ fp \in FILE /\ fp # NULL /\ ~fp.eof /\ fp.fpos \in 0..(Word - 1)
      /\ can_read \in Nat /\ total \in Nat
      /\ fp.current_cluster \in 0..EOC /\ fp.current_cluster # EOC
  BY <1>1, TurnReads DEF Sound, Shape, Reading, FILE
<1>3. out' \in Seq((0..EOC) \X Nat) /\ Len(out') \in Nat
  BY <1>1, TurnOut
<1>4. fpos1 \in 0..(Word - 1)
  <2>1. fp.fpos + can_read \in Int
    BY <1>2
  <2> QED
    BY <2>1, Volume, Divided DEF fpos1
<1> DEFINE Moved ==
      /\ fp' \in FILE /\ fp'.file = fp.file /\ fp'.size = fp.size
      /\ fp'.first_cluster = fp.first_cluster
      /\ fp'.current_cluster = EOC => fp'.eof
      /\ pc' = "fread_end" \/ (pc' = "fread" /\ ~fp'.eof /\ Len(out') < total)
<1>6. Moved
  <2>1. CASE Inside
    BY <1>2, <1>3, <1>4, <2>1 DEF Inside, FILE, Turns, Sound, TypeOK
  <2>2. ASSUME NEW entry \in Outcomes, NEW c, Crosses(entry, c)
        PROVE  Moved
    <3>1. c \in 0..EOC
      BY <1>2, <2>2, NextTyped DEF Crosses, Sound
    <3>3. /\ fp' \in FILE /\ fp'.file = fp.file /\ fp'.size = fp.size
          /\ fp'.first_cluster = fp.first_cluster /\ fp'.current_cluster = c
          /\ fp'.eof = (c >= EOC)
      BY <1>1, <2>2, <3>1, CrossesTo
    <3>4. c = EOC => c >= EOC
      BY Volume
    <3>5. pc' = "fread_end" \/ (pc' = "fread" /\ ~(c >= EOC) /\ Len(out') < total)
      BY <2>2 DEF Crosses, Turns
    <3> QED
      BY <3>3, <3>4, <3>5
  <2> QED
    BY <2>1, <2>2, TurnEnds
<1>7. fp' # NULL
  BY <1>6, NullAssumption
<1>8. TypeOK'
  BY <1>1, <1>3, <1>6 DEF Sound, TypeOK, disk, removing
<1>9. Shape'
  BY <1>1, <1>2, <1>6, <1>7 DEF Sound, Shape, disk, removing, Reading, Removing, Lost
<1> QED
  BY <1>8, <1>9 DEF Sound


LEMMA BreakSound == ASSUME Sound, k_fread_break PROVE Sound'
<1>1. TypeOK'
  BY DEF k_fread_break, Sound, TypeOK, disk, reading, removing, Transfer
<1>2. Shape'
  BY DEF k_fread_break, Sound, Shape, disk, reading, removing, Reading, Removing, Lost
<1> QED
  BY <1>1, <1>2 DEF Sound

LEMMA ReturnSound == ASSUME Sound, k_fread_return PROVE Sound'
<1>1. TypeOK'
  BY Volume DEF k_fread_return, EndRead, Sound, TypeOK, disk, removing
<1>2. Shape'
  BY DEF k_fread_return, EndRead, Sound, Shape, disk, removing, Reading, Removing, Lost
<1> QED
  BY <1>1, <1>2 DEF Sound

(* fskip() and fsetp() have positions of 32 bits.                          *)
LEMMA MoveSound == ASSUME Sound, NEW p \in 0..(Word - 1), move(p) PROVE Sound'
<1>1. fp \in FILE /\ fp # NULL
  BY DEF move, Sound, TypeOK
<1>2. /\ fp' \in FILE /\ fp'.file = fp.file /\ fp'.size = fp.size
      /\ fp'.first_cluster = fp.first_cluster /\ fp'.eof = fp.eof
      /\ fp'.current_cluster = fp.current_cluster
      /\ fp.first_cluster \in 0..EOC /\ fp.first_cluster # EOC
  <2>1. fp.first_cluster \in {JUNK, first_cluster(fp.file)} /\ fp.file \in Files
    BY <1>1 DEF Sound, Shape, FILE
  <2>2. first_cluster(fp.file) \in 0..LastCluster
    BY <2>1, ChainShape, Volume DEF first_cluster
  <2>3. fp' = [fp EXCEPT !.fpos = p]
    BY DEF move
  <2>4. fp.first_cluster \in 0..EOC /\ fp.first_cluster # EOC
    BY <2>1, <2>2, Volume
  <2> QED
    BY <1>1, <2>3, <2>4 DEF FILE
<1>3. fp' # NULL
  BY <1>2, NullAssumption
<1>4. p \div ClusterBytes \in Nat
  <2>1. p \in Nat
    OBVIOUS
  <2> QED
    BY <2>1, Volume, DividedNat
<1>5. seek' \in Walk \cup {NULL} /\ (seek' # NULL => seek'.target # EOC /\ ~seek'.polling)
  BY <1>2, <1>4 DEF move, Walk
<1>6. TypeOK'
  BY <1>2, <1>5 DEF move, Sound, TypeOK, disk, reading, removing
<1>7. Shape'
  BY <1>1, <1>2, <1>3, <1>5 DEF move, Sound, Shape, disk, reading, removing, Reading, Removing, Lost
<1> QED
  BY <1>6, <1>7 DEF Sound

LEMMA Positioned ==
  ASSUME Sound, \/ \E s \in Skips : fskip(s)
                \/ \E p \in Positions : fsetp(p)
  PROVE  \E p \in 0..(Word - 1) : move(p)
<1>1. CASE \E p \in Positions : fsetp(p)
  BY <1>1, VolumeAssumption DEF fsetp
<1>2. ASSUME NEW s \in Skips, fskip(s) PROVE \E p \in 0..(Word - 1) : move(p)
  <2>1. fp \in FILE /\ s \in 0..(Word - 1)
    BY <1>2, VolumeAssumption DEF fskip, move, Sound, TypeOK
  <2>2. fp.fpos + s \in Int
    BY <2>1 DEF FILE
  <2>3. (fp.fpos + s) % Word \in 0..(Word - 1)
    BY <2>2, Volume, Divided
  <2> QED
    BY <1>2, <2>3 DEF fskip
<1> QED
  BY <1>1, <1>2

LEMMA SyncReadSound == ASSUME Sound, sync_read PROVE Sound'
<1>1. /\ seek \in Walk /\ seek # NULL /\ seek.steps > 0
      /\ seek' = [seek EXCEPT !.polling = TRUE]
  BY DEF sync_read, Sound, TypeOK
<1>2. /\ seek' \in Walk /\ seek'.target = seek.target /\ seek'.steps = seek.steps
  BY <1>1 DEF Walk
<1>3. TypeOK'
  BY <1>2 DEF sync_read, Sound, TypeOK, disk, reading, removing
<1>4. Shape'
  BY <1>1, <1>2 DEF sync_read, Sound, Shape, disk, reading, removing, Reading, Removing, InChain, Lost
<1> QED
  BY <1>3, <1>4 DEF Sound

(* A step of the walk, to a cluster c.                                     *)
Walks(r, c) ==
    /\ c \in get_next_cluster(seek.target, r)
    /\ seek' = [target |-> c, steps |-> IF c >= EOC THEN 0 ELSE seek.steps - 1, polling |-> FALSE]
    /\ fp' = [fp EXCEPT !.eof = @ \/ c >= EOC]
    /\ Transfer(r)

LEMMA WalkStep ==
  ASSUME Sound, sync_step
  PROVE  /\ seek \in Walk /\ seek # NULL /\ seek.target \in 0..EOC /\ seek.target # EOC
         /\ seek.steps \in Nat \ {0}
         /\ fp \in FILE /\ fp # NULL /\ fp.file \in Files /\ fp.fpos \in Nat /\ pc = "idle"
         /\ UNCHANGED <<disk, pc, reading, removing>>
         /\ seek' \in Walk /\ seek' # NULL /\ ~seek'.polling
         /\ fp' \in FILE /\ fp' # NULL
         /\ fp'.file = fp.file /\ fp'.size = fp.size /\ fp'.fpos = fp.fpos
         /\ fp'.first_cluster = fp.first_cluster /\ fp'.current_cluster = fp.current_cluster
         /\ fp'.current_cluster_index = fp.current_cluster_index
         /\ failed' \in BOOLEAN /\ (failed => failed')
         /\ \E r \in Outcomes : \E c \in 0..EOC :
               /\ Walks(r, c) /\ (r # "done" => failed') /\ (r = "done" => failed' = failed)
               /\ seek'.target = c /\ seek'.steps = (IF c >= EOC THEN 0 ELSE seek.steps - 1)
               /\ fp'.eof = (fp.eof \/ c >= EOC)
<1>1. /\ seek \in Walk /\ seek # NULL /\ fp \in FILE /\ fp # NULL /\ pc = "idle"
      /\ UNCHANGED <<disk, pc, reading, removing>> /\ TypeOK
  BY DEF sync_step, Polling, Sound, Shape, TypeOK
<1>2. /\ seek.target \in 0..EOC /\ seek.target # EOC /\ seek.steps \in Nat \ {0}
      /\ fp.file \in Files /\ fp.fpos \in Nat
  BY <1>1 DEF sync_step, Polling, Sound, Shape, Walk, FILE
<1> PICK r \in Outcomes : \E c \in get_next_cluster(seek.target, r) : Walks(r, c)
  BY DEF sync_step, Walks
<1>3. PICK c \in get_next_cluster(seek.target, r) : Walks(r, c)
  OBVIOUS
<1> DEFINE e == c >= EOC
<1>4. c \in 0..EOC /\ e \in BOOLEAN
  BY <1>1, <1>2, NextTyped, Volume
<1>5. /\ failed' \in BOOLEAN /\ (failed => failed') /\ (r # "done" => failed')
      /\ (r = "done" => failed' = failed)
  BY <1>1, <1>3, Transferred DEF Walks
<1>6. /\ seek' = [target |-> c, steps |-> IF e THEN 0 ELSE seek.steps - 1, polling |-> FALSE]
      /\ fp' = [fp EXCEPT !.eof = @ \/ e]
  BY <1>3 DEF Walks
<1> HIDE DEF e
<1>7. /\ seek' \in Walk /\ seek'.target = c /\ ~seek'.polling
      /\ seek'.steps = IF e THEN 0 ELSE seek.steps - 1
  BY <1>2, <1>4, <1>6 DEF Walk
<1>8. /\ fp' \in FILE
      /\ fp'.file = fp.file /\ fp'.size = fp.size /\ fp'.fpos = fp.fpos
      /\ fp'.first_cluster = fp.first_cluster /\ fp'.current_cluster = fp.current_cluster
      /\ fp'.current_cluster_index = fp.current_cluster_index
      /\ fp'.eof = (fp.eof \/ e)
  BY <1>1, <1>4, <1>6 DEF FILE
<1>9. seek' # NULL /\ fp' # NULL
  BY <1>7, <1>8, NullAssumption
<1> QED
  BY <1>1, <1>2, <1>3, <1>4, <1>5, <1>7, <1>8, <1>9 DEF e

LEMMA SyncSound == ASSUME Sound, sync_step PROVE Sound'
<1>1. TypeOK'
  BY WalkStep DEF Sound, TypeOK, disk, reading, removing
<1>2. seek'.target = EOC => fp'.eof /\ seek'.steps = 0
  <2>1. PICK c \in 0..EOC : /\ seek'.target = c /\ seek'.steps = (IF c >= EOC THEN 0 ELSE seek.steps - 1)
                            /\ fp'.eof = (fp.eof \/ c >= EOC)
    BY WalkStep
  <2>2. c = EOC => c >= EOC
    BY Volume
  <2> QED
    BY <2>1, <2>2
<1>3. Shape'
  BY <1>2, WalkStep DEF Sound, Shape, disk, reading, removing, Reading, Removing, Lost
<1> QED
  BY <1>1, <1>3 DEF Sound

LEMMA SyncEndSound == ASSUME Sound, sync_end PROVE Sound'
<1>1. /\ seek \in Walk /\ fp \in FILE /\ fp # NULL /\ pc = "idle"
      /\ (seek.target = EOC => fp.eof)
  BY DEF sync_end, Sound, Shape, TypeOK
<1>2. fp.fpos \div ClusterBytes \in 0..LastIndex
  <2>1. fp.fpos \in 0..(Word - 1)
    BY <1>1 DEF FILE
  <2> QED
    BY <2>1, IndexTyped
<1>3. /\ fp' \in FILE /\ fp'.file = fp.file /\ fp'.size = fp.size
      /\ fp'.first_cluster = fp.first_cluster /\ fp'.current_cluster = seek.target
      /\ fp'.eof = fp.eof
  BY <1>1, <1>2 DEF sync_end, FILE, Walk
<1>4. fp' # NULL
  BY <1>3, NullAssumption
<1>5. TypeOK'
  BY <1>3 DEF sync_end, Sound, TypeOK, disk, reading, removing
<1>6. Shape'
  BY <1>1, <1>3, <1>4 DEF sync_end, Sound, Shape, disk, reading, removing, Reading, Removing, Lost
<1> QED
  BY <1>5, <1>6 DEF Sound


LEMMA RemoveSound == ASSUME Sound, NEW f \in Files, k_remove(f) PROVE Sound'
<1>1. first_cluster(f) \in 0..EOC /\ Unknown \subseteq 0..EOC
  BY FirstCluster, ReachIsCluster, Volume
<1>2. TypeOK'
  BY <1>1 DEF k_remove, Transfer, Sound, TypeOK, disk, reading
<1>3. Shape'
  BY DEF k_remove, Sound, Shape, disk, reading, Reading, Removing, Lost
<1> QED
  BY <1>2, <1>3 DEF Sound

(* free_cluster_chain() goes on with a next cluster, or breaks, or is done.*)
LEMMA ChainSteps ==
  ASSUME Sound, free_cluster_chain
  PROVE  /\ pc = "chain" /\ name \in Files /\ current \in 0..EOC
         /\ UNCHANGED <<disk, fp, seek, reading, name, dir_buffer, current, begun>>
         /\ failed' \in BOOLEAN /\ (failed => failed') /\ copy' \in 0..fat_count
         /\ \/ /\ InChain /\ pc' = "mark" /\ copy' = 1
               /\ \E r \in {"done", "short"} :
                     next' \in get_next_cluster(current, r) /\ (r # "done" => failed')
            \/ pc' = "entry" /\ next' = next /\ (InChain => failed')
<1>1. /\ pc = "chain" /\ name \in Files /\ current \in 0..EOC /\ TypeOK
      /\ UNCHANGED <<disk, fp, seek, reading, name, dir_buffer, current, begun>>
  BY DEF free_cluster_chain, Sound, TypeOK, Shape, Removing
<1>2. CASE ~InChain
  BY <1>1, <1>2 DEF free_cluster_chain, TypeOK
<1>3. CASE InChain
  <2>1. copy' = 1 /\ 1 \in 0..fat_count
    BY <1>3, Volume DEF free_cluster_chain
  <2>2. CASE \E r \in {"done", "short"} :
                /\ next' \in get_next_cluster(current, r) /\ pc' = "mark" /\ Transfer(r)
    BY <1>1, <1>3, <2>1, <2>2, Transferred
  <2>3. CASE pc' = "entry" /\ next' = next /\ Transfer("failed")
    BY <1>1, <1>3, <2>1, <2>3, Transferred
  <2> QED
    BY <1>3, <2>2, <2>3 DEF free_cluster_chain
<1> QED
  BY <1>2, <1>3

LEMMA ChainSound == ASSUME Sound, free_cluster_chain PROVE Sound'
<1>1. next' \in 0..EOC /\ copy' \in 0..fat_count /\ pc' \in {"mark", "entry"}
      /\ (pc' = "mark" => copy' \in Copies /\ InChain)
  <2>1. ASSUME NEW r \in {"done", "short"}, next' \in get_next_cluster(current, r), InChain
        PROVE  next' \in 0..EOC
    <3>1. current # EOC /\ r \in Outcomes
      BY <2>1, Volume DEF InChain, Outcomes
    <3> QED
      BY <2>1, <3>1, ChainSteps, NextTyped DEF Sound
  <2>2. next \in 0..EOC /\ 1 \in Copies
    BY Volume DEF Sound, TypeOK
  <2> QED
    BY <2>1, <2>2, ChainSteps
<1>2. TypeOK'
  BY <1>1, ChainSteps DEF Sound, TypeOK, disk, reading
<1>3. Shape'
  BY <1>1, ChainSteps DEF Sound, Shape, disk, reading, Reading, Removing, InChain, Lost
<1> QED
  BY <1>2, <1>3 DEF Sound

(* What is lost.                                                           *)
LEMMA AstrayTyped ==
  ASSUME Astray
  PROVE  /\ fat' \in [Copies -> [0..LastCluster -> 0..EOC]] /\ dir' = {NULL} /\ Lost'
         /\ \A k \in Copies : \A c \in 0..LastCluster : fat'[k][c] = JUNK
  BY Volume DEF Astray, Lost

(* mark_cluster_in_fat() writes one entry of one copy, or nothing, or      *)
(* nobody knows what.                                                      *)
LEMMA MarkWrites ==
  ASSUME Sound, mark_cluster_in_fat
  PROVE  /\ pc = "mark" /\ name \in Files /\ name \in begun
         /\ copy \in Copies /\ InChain /\ current \in Clusters \cup {JUNK}
         /\ UNCHANGED <<fp, seek, reading, name, dir_buffer, next, begun>>
         /\ failed' \in BOOLEAN /\ (failed => failed')
         /\ \/ fat' = fat /\ dir' = dir /\ failed'
            \/ current \in Clusters /\ ~Lost /\ fat' = Cleared /\ dir' = dir
            \/ Astray /\ failed'
         /\ \/ copy' = copy + 1 /\ ~LastCopy /\ pc' = "mark" /\ current' = current
            \/ copy' = copy /\ (LastCopy \/ failed') /\ pc' = "chain" /\ current' = next
<1>1. /\ pc = "mark" /\ copy \in Copies /\ InChain /\ name \in begun /\ begun \subseteq Files
      /\ UNCHANGED <<fp, seek, reading, name, dir_buffer, next, begun>> /\ TypeOK
  BY DEF mark_cluster_in_fat, Sound, Shape, TypeOK, Removing
<1>2. current \in Clusters \cup {JUNK}
  BY <1>1, Volume DEF InChain, TypeOK
<1>3. PICK w \in Outcomes :
         /\ \/ /\ current # JUNK /\ ~Lost
               /\ fat' \in k_sd_write_sector(fat, Cleared, w) /\ UNCHANGED dir
               /\ Transfer(w)
            \/ w = "failed" /\ UNCHANGED disk /\ Transfer(w)
            \/ Astray /\ Transfer("short")
         /\ Marked(w)
  BY DEF mark_cluster_in_fat
<1>4. /\ failed' \in BOOLEAN /\ (failed => failed') /\ (w = "failed" => failed')
      /\ \/ fat' = fat /\ dir' = dir /\ failed'
         \/ current \in Clusters /\ ~Lost /\ fat' = Cleared /\ dir' = dir
         \/ Astray /\ failed'
  <2>1. CASE /\ current # JUNK /\ ~Lost
             /\ fat' \in k_sd_write_sector(fat, Cleared, w) /\ UNCHANGED dir
             /\ Transfer(w)
    <3>1. /\ failed' \in BOOLEAN /\ (failed => failed') /\ (w # "done" => failed')
      BY <1>1, <2>1, Transferred
    <3>2. fat' = Cleared \/ (w # "done" /\ fat' = fat)
      BY <2>1 DEF k_sd_write_sector
    <3> QED
      BY <1>2, <2>1, <3>1, <3>2
  <2>2. CASE w = "failed" /\ UNCHANGED disk /\ Transfer(w)
    BY <1>1, <2>2, Transferred DEF disk
  <2>3. CASE Astray /\ Transfer("short")
    BY <1>1, <2>3, Transferred
  <2> QED
    BY <1>3, <2>1, <2>2, <2>3
<1>5. \/ copy' = copy + 1 /\ ~LastCopy /\ pc' = "mark" /\ current' = current
      \/ copy' = copy /\ (LastCopy \/ failed') /\ pc' = "chain" /\ current' = next
  BY <1>1, <1>3, <1>4 DEF Marked, Onward
<1> QED
  BY <1>1, <1>2, <1>4, <1>5

(* What a cleared entry leaves of the FAT.                                 *)
LEMMA ClearedEntries ==
  ASSUME Sound, fat' = Cleared, copy \in Copies, current \in Clusters
  PROVE  /\ fat' \in [Copies -> [0..LastCluster -> 0..EOC]]
         /\ \A k \in Copies : \A c \in 0..LastCluster :
               fat'[k][c] = IF k = copy /\ c = current THEN 0 ELSE fat[k][c]
<1>1. fat \in [Copies -> [0..LastCluster -> 0..EOC]] /\ current \in 0..LastCluster
  BY Volume DEF Sound, TypeOK
<1>2. fat' = [fat EXCEPT ![copy] = [fat[copy] EXCEPT ![current] = 0]]
  BY DEF Cleared
<1>3. [fat[copy] EXCEPT ![current] = 0] \in [0..LastCluster -> 0..EOC]
  BY <1>1, Volume
<1> QED
  BY <1>1, <1>2, <1>3

LEMMA MarkSound == ASSUME Sound, mark_cluster_in_fat PROVE Sound'
<1>1. fat' \in [Copies -> [0..LastCluster -> 0..EOC]] /\ (dir' = dir \/ (dir' = {NULL} /\ Lost'))
  BY MarkWrites, ClearedEntries, AstrayTyped DEF Sound, TypeOK
<1>2. copy' \in 0..fat_count /\ current' \in 0..EOC /\ pc' \in {"mark", "chain"}
      /\ (pc' = "mark" => copy' \in Copies /\ current' = current)
  <2>1. next \in 0..EOC /\ current \in 0..EOC /\ copy \in 1..fat_count
    BY MarkWrites, Volume DEF Sound, TypeOK
  <2>2. ~LastCopy => copy + 1 \in Copies
    BY <2>1, Volume DEF LastCopy
  <2> QED
    BY <2>1, <2>2, MarkWrites, Volume
<1>3. TypeOK'
  BY <1>1, <1>2, MarkWrites DEF Sound, TypeOK, reading
<1>4. Shape'
  BY <1>1, <1>2, MarkWrites DEF Sound, Shape, reading, Reading, Removing, InChain, Lost
<1> QED
  BY <1>3, <1>4 DEF Sound

(* The last step of a removal: f is gone, or nothing is, or the card is.   *)
LEMMA EntryWrites ==
  ASSUME Sound, k_remove_entry
  PROVE  /\ pc = "entry" /\ pc' = "idle" /\ name' = NULL /\ name \in begun /\ dir_buffer' = {}
         /\ current' = 0 /\ next' = 0 /\ copy' = 0
         /\ UNCHANGED <<fp, seek, reading, begun>>
         /\ failed' \in BOOLEAN /\ (failed => failed')
         /\ \/ /\ ~Lost /\ dir_buffer = dir /\ NULL \notin dir_buffer
               /\ fat' = fat /\ dir' = dir \ {name}
            \/ fat' = fat /\ dir' = dir /\ failed'
            \/ Astray /\ failed'
<1>1. /\ pc = "entry" /\ pc' = "idle" /\ name' = NULL /\ name \in begun /\ dir_buffer' = {}
      /\ current' = 0 /\ next' = 0 /\ copy' = 0
      /\ UNCHANGED <<fp, seek, reading, begun>> /\ TypeOK
      /\ NULL \in dir_buffer \/ Lost \/ dir_buffer = dir
  BY DEF k_remove_entry, EndRemove, Sound, Shape, Removing
<1>2. ASSUME NEW w \in Outcomes, NULL \notin dir_buffer, ~Lost,
             dir' \in k_sd_write_sector(dir, dir_buffer \ {name}, w), fat' = fat, Transfer(w)
      PROVE  /\ failed' \in BOOLEAN /\ (failed => failed')
             /\ dir' = dir \ {name} \/ (dir' = dir /\ failed')
             /\ dir_buffer = dir
  <2>1. failed' \in BOOLEAN /\ (failed => failed') /\ (w # "done" => failed')
    BY <1>1, <1>2, Transferred
  <2> QED
    BY <1>1, <1>2, <2>1 DEF k_sd_write_sector
<1>3. ASSUME Transfer("failed") \/ Transfer("short")
      PROVE  failed' \in BOOLEAN /\ (failed => failed') /\ failed'
  BY <1>1, <1>3, Transferred
<1> QED
  BY <1>1, <1>2, <1>3 DEF k_remove_entry, disk

LEMMA EntrySound == ASSUME Sound, k_remove_entry PROVE Sound'
<1>1. fat' \in [Copies -> [0..LastCluster -> 0..EOC]] /\ (dir' \subseteq Files \/ dir' = {NULL})
  BY EntryWrites, AstrayTyped DEF Sound, TypeOK, Lost
<1>2. TypeOK'
  <2>1. 0 \in 0..EOC /\ 0 \in 0..fat_count
    BY Volume
  <2> QED
    BY <1>1, <2>1, EntryWrites DEF Sound, TypeOK, reading
<1>3. Shape'
  BY EntryWrites DEF Sound, Shape, reading, Reading, Removing
<1> QED
  BY <1>2, <1>3 DEF Sound

LEMMA ResetSound == ASSUME Sound, Reset PROVE Sound'
<1>1. TypeOK'
  BY Volume DEF Reset, EndRead, EndRemove, Transfer, Sound, TypeOK, disk
<1>2. Shape'
  BY DEF Reset, EndRead, EndRemove, Shape, Reading, Removing
<1> QED
  BY <1>1, <1>2 DEF Sound

LEMMA StutterSound == ASSUME Sound, UNCHANGED vars PROVE Sound'
<1>1. TypeOK'
  BY DEF vars, disk, reading, removing, Sound, TypeOK
<1>2. Shape'
  BY DEF vars, disk, reading, removing, Sound, Shape, InChain, Lost
<1> QED
  BY <1>1, <1>2 DEF Sound

(* The state of the file system stays typed: cursors, entries and bytes    *)
(* are those of the card, positions have their 32 bits.                    *)
LEMMA AlwaysSound == Spec => []Sound
<1>1. Sound /\ [Next]_vars => Sound'
  BY OpenSound, CloseSound, ReadSound, TurnSound, BreakSound, ReturnSound, Positioned,
     MoveSound, SyncReadSound, SyncSound, SyncEndSound, RemoveSound, ChainSound, MarkSound, EntrySound,
     ResetSound, StutterSound DEF Next
<1> QED
  BY InitSound, <1>1, PTL DEF Spec

THEOREM FileSystemTyped == Spec => []TypeOK
<1>1. Sound => TypeOK
  BY DEF Sound
<1> QED
  BY AlwaysSound, <1>1, PTL


-----------------------------------------------------------------------------
(* What a removal does to files that are not its own.                      *)
Safe == Entries /\ RemovesItsFile /\ OthersIntact

(* Every other action leaves the card and a removal on its way alone.      *)
Outside ==
    /\ fat' = fat /\ dir' = dir /\ begun' = begun
    /\ failed' \in BOOLEAN /\ (failed => failed')
    /\ pc' \notin Removing \/ UNCHANGED <<pc, name, dir_buffer, current, next, copy>>
    /\ pc \in Removing /\ pc' \notin Removing => failed'

Removes == (\E f \in Files : k_remove(f)) \/ free_cluster_chain \/ mark_cluster_in_fat \/ k_remove_entry

LEMMA TurnOutside == ASSUME Sound, k_fread_turn PROVE Outside
<1>1. /\ pc = "fread" /\ UNCHANGED <<disk, removing>> /\ failed' \in BOOLEAN /\ (failed => failed')
      /\ Inside \/ \E entry \in Outcomes : \E c : Crosses(entry, c)
  BY TurnEnds
<1>2. pc' \notin Removing
  BY <1>1 DEF Inside, Crosses, Turns, Removing
<1> QED
  BY <1>1, <1>2 DEF Outside, disk, removing, Removing

LEMMA RestOutside ==
  ASSUME Sound, [Next]_vars, ~Removes
  PROVE  Outside
<1>0. failed \in BOOLEAN /\ TypeOK
  BY DEF Sound, TypeOK
<1> USE <1>0 DEF Outside, disk, reading, removing, Removing
<1>1. CASE UNCHANGED vars
  BY <1>1 DEF vars
<1>2. ASSUME NEW f \in Files, k_fopen(f) PROVE Outside
  BY <1>2, OpenedFile DEF k_fopen
<1>3. CASE k_fclose
  BY <1>3 DEF k_fclose
<1>4. ASSUME NEW n \in Requests, k_fread(n) PROVE Outside
  BY <1>4 DEF k_fread
<1>5. CASE k_fread_turn
  BY <1>5, TurnOutside
<1>6. CASE k_fread_break
  BY <1>6, Transferred DEF k_fread_break
<1>7. CASE k_fread_return
  BY <1>7 DEF k_fread_return
<1>8. ASSUME NEW p, move(p) PROVE Outside
  BY <1>8 DEF move
<1>9. CASE sync_step
  BY <1>9, WalkStep
<1>10. CASE sync_end
  BY <1>10 DEF sync_end
<1>11. CASE Reset
  BY <1>11, Transferred DEF Reset
<1>12. CASE sync_read
  BY <1>12 DEF sync_read
<1> QED
  BY <1>1, <1>2, <1>3, <1>4, <1>5, <1>6, <1>7, <1>8, <1>9, <1>10, <1>11, <1>12
  DEF Next, Removes, fskip, fsetp

LEMMA OutsideSafe == ASSUME Safe, Outside PROVE Safe'
<1>1. Entries'
  BY DEF Outside, Safe, Entries, Lost
<1>2. RemovesItsFile'
  BY DEF Outside, Safe, RemovesItsFile, Removing
<1>3. OthersIntact'
  BY DEF Outside, Safe, OthersIntact, Whole, Lost
<1> QED
  BY <1>1, <1>2, <1>3 DEF Safe

LEMMA InitSafe == Init => Safe
<1> SUFFICES ASSUME Init PROVE Safe
  OBVIOUS
<1>1. \A k \in Copies : \A c \in 0..LastCluster : fat[k][c] = FreshEntry(c)
  BY DEF Init
<1>2. \A k \in Copies : fat[k][0] = EOC /\ fat[k][1] = EOC
  BY <1>1, FreshOthers, Volume
<1>3. ASSUME NEW k \in Copies, NEW f \in Files, NEW i \in DOMAIN Chain[f]
      PROVE  fat[k][Chain[f][i]] = Link(f, i)
  BY <1>1, Fresh, ChainShape, Volume
<1>4. ASSUME NEW k \in Copies, NEW c \in Clusters, ~Allocated(c) PROVE fat[k][c] = 0
  BY <1>1, <1>4, FreshOthers, Volume
<1>5. Entries
  <2>1. ~Lost
    BY VolumeAssumption DEF Init, Lost
  <2> QED
    BY <1>2, <1>3, <1>4, <2>1 DEF Entries
<1>6. RemovesItsFile
  BY DEF Init, RemovesItsFile
<1>7. OthersIntact
  BY <1>2, <1>3 DEF OthersIntact, Whole, Init
<1> QED
  BY <1>5, <1>6, <1>7 DEF Safe

LEMMA RemoveSafe == ASSUME Sound, Safe, NEW f \in Files, k_remove(f) PROVE Safe'
<1>1. fat' = fat /\ dir' = dir /\ begun \subseteq begun' /\ begun' \subseteq Files
  BY DEF k_remove, disk, Sound, TypeOK
<1>2. Entries'
  BY <1>1 DEF Safe, Entries, Lost
<1>3. OthersIntact'
  BY <1>1 DEF Safe, OthersIntact, Whole, Lost
<1>4. RemovesItsFile'
  <2>1. Unknown \subseteq Reach(f)
    BY DEF Unknown, Reach
  <2> QED
    BY <2>1, FirstCluster DEF k_remove, RemovesItsFile
<1> QED
  BY <1>2, <1>3, <1>4 DEF Safe

(* A walk along the entries of a file's clusters leaves them only with a   *)
(* number nobody knows, and stays lost then.                               *)
LEMMA WalkStays ==
  ASSUME Entries, NEW f \in Files, NEW c \in Reach(f), c # EOC,
         NEW r \in Outcomes, NEW x \in get_next_cluster(c, r)
  PROVE  x \in Reach(f)
<1>1. 1 \in Copies
  BY Volume
<1>2. Unknown \subseteq Reach(f) /\ EOC \in Reach(f)
  BY DEF Unknown, Reach
<1>3. CASE r # "done"
  BY <1>2, <1>3 DEF get_next_cluster, Outcomes
<1>4. CASE r = "done" /\ c <= LastCluster /\ fat[1][c] # JUNK
  <2>0. ~(c > LastCluster)
    BY <1>4, ReachIsCluster, Volume
  <2>1. x = fat[1][c]
    BY <1>4, <2>0 DEF get_next_cluster, Entry
  <2>2. c \in 0..LastCluster /\ c # JUNK
    BY <1>4, ReachIsCluster, Volume
  <2>3. ~Lost
    BY <1>1, <1>4, <2>2 DEF Entries
  <2>4. CASE c = 0
    BY <1>1, <1>2, <2>1, <2>3, <2>4 DEF Entries
  <2>5. CASE c \in Own(f)
    <3>1. PICK i \in DOMAIN Chain[f] : c = Chain[f][i]
      BY <2>5 DEF Own
    <3>2. fat[1][c] \in {0, Link(f, i)}
      BY <1>1, <2>3, <3>1 DEF Entries
    <3> QED
      BY <2>1, <3>2, LinkReaches DEF Reach
  <2> QED
    BY <2>2, <2>4, <2>5, <1>4, Volume DEF Reach
<1>5. CASE r = "done" /\ ~(c <= LastCluster /\ fat[1][c] # JUNK)
  <2>1. x \in Unknown
    BY <1>5, ReachIsCluster, Volume DEF get_next_cluster, Entry
  <2> QED
    BY <1>2, <2>1
<1> QED
  BY <1>3, <1>4, <1>5

LEMMA ChainSafe == ASSUME Sound, Safe, free_cluster_chain PROVE Safe'
<1>1. fat' = fat /\ dir' = dir /\ begun' = begun /\ name' = name /\ current' = current
  BY DEF free_cluster_chain, disk
<1>2. Entries'
  BY <1>1 DEF Safe, Entries, Lost
<1>3. OthersIntact'
  BY <1>1 DEF Safe, OthersIntact, Whole, Lost
<1>4. name \in Files /\ current \in Reach(name)
  BY ChainSteps DEF Safe, RemovesItsFile
<1>5. ASSUME NEW r \in {"done", "short"}, next' \in get_next_cluster(current, r), InChain
      PROVE  next' \in Reach(name)
  <2>1. current # EOC /\ r \in Outcomes
    BY <1>4, <1>5, ReachIsCluster, Volume DEF InChain, Outcomes
  <2> QED
    BY <1>4, <1>5, <2>1, WalkStays DEF Safe
<1>6. pc' \in {"mark", "entry"} /\ (pc' = "mark" => next' \in Reach(name))
  BY <1>5, ChainSteps
<1>7. RemovesItsFile'
  BY <1>1, <1>4, <1>6 DEF RemovesItsFile, Reach, Own
<1> QED
  BY <1>2, <1>3, <1>7 DEF Safe

LEMMA AstraySafe == ASSUME Astray, RemovesItsFile' PROVE Safe'
<1>1. Entries' /\ OthersIntact'
  BY AstrayTyped DEF Entries, OthersIntact, Lost
<1> QED
  BY <1>1 DEF Safe

(* The entries of the other files stay when one of name is cleared.        *)
LEMMA ClearSafe ==
  ASSUME Sound, Safe, pc = "mark", name \in Files, name \in begun, copy \in Copies,
         current \in Clusters, ~Lost, fat' = Cleared, dir' = dir, begun' = begun
  PROVE  Entries' /\ OthersIntact'
<1>1. \A k \in Copies : \A c \in 0..LastCluster :
         fat'[k][c] = fat[k][c] \/ (c = current /\ fat'[k][c] = 0)
  BY ClearedEntries
<1>2. ~Lost'
  BY DEF Lost
<1>3. current \in Own(name) /\ current # 0 /\ current # 1
  BY Volume DEF Safe, RemovesItsFile, Reach
<1>4. \A k \in Copies : fat'[k][0] = EOC /\ fat'[k][1] = EOC
  BY <1>1, <1>3, Volume DEF Safe, Entries
<1>5. \A f \in Files : \A i \in DOMAIN Chain[f] :
         /\ Chain[f][i] \in 0..LastCluster
         /\ f # name => Chain[f][i] # current
  <2>1. PICK j \in DOMAIN Chain[name] : current = Chain[name][j]
    BY <1>3 DEF Own
  <2>2. ASSUME NEW f \in Files, NEW i \in DOMAIN Chain[f]
        PROVE  Chain[f][i] \in 0..LastCluster
    BY ChainShape, Volume
  <2>3. ASSUME NEW f \in Files, NEW i \in DOMAIN Chain[f], Chain[f][i] = Chain[name][j]
        PROVE  f = name
    BY <2>3, ChainAssumption
  <2> QED
    BY <2>1, <2>2, <2>3
<1>6. Entries'
  <2>1. ASSUME NEW k \in Copies, NEW c \in Clusters, ~Allocated(c) PROVE fat'[k][c] = 0
    BY <1>1, <2>1, Volume DEF Safe, Entries
  <2>2. ASSUME NEW k \in Copies, NEW f \in Files, NEW i \in DOMAIN Chain[f]
        PROVE  fat'[k][Chain[f][i]] \in {0, Link(f, i)}
    BY <1>1, <1>5 DEF Safe, Entries
  <2> QED
    BY <1>2, <1>4, <2>1, <2>2 DEF Entries
<1>7. OthersIntact'
  <2>1. ASSUME NEW f \in Files \ begun, NEW k \in Copies PROVE Whole(f, k)'
    BY <1>1, <1>5 DEF Safe, OthersIntact, Whole
  <2> QED
    BY <1>4, <2>1 DEF Safe, OthersIntact
<1> QED
  BY <1>6, <1>7

LEMMA MarkSafe == ASSUME Sound, Safe, mark_cluster_in_fat PROVE Safe'
<1>1. RemovesItsFile'
  <2>1. /\ pc = "mark" /\ name' = name /\ next' = next
        /\ (pc' = "mark" /\ current' = current) \/ (pc' = "chain" /\ current' = next)
    BY MarkWrites
  <2> QED
    BY <2>1 DEF Safe, RemovesItsFile, Reach, Own
<1>2. CASE fat' = fat /\ dir' = dir
  <2>1. Entries' /\ OthersIntact'
    BY <1>2, MarkWrites DEF Safe, Entries, OthersIntact, Whole, Lost
  <2> QED
    BY <1>1, <2>1 DEF Safe
<1>3. CASE current \in Clusters /\ ~Lost /\ fat' = Cleared /\ dir' = dir
  BY <1>1, <1>3, MarkWrites, ClearSafe DEF Safe
<1>4. CASE Astray
  BY <1>1, <1>4, AstraySafe
<1> QED
  BY <1>2, <1>3, <1>4, MarkWrites

LEMMA EntrySafe == ASSUME Sound, Safe, k_remove_entry PROVE Safe'
<1>1. pc' = "idle" /\ begun' = begun /\ name \in begun
  BY EntryWrites
<1>2. RemovesItsFile'
  BY <1>1 DEF RemovesItsFile
<1>3. CASE fat' = fat /\ (dir' = dir \/ (~Lost /\ dir' = dir \ {name}))
  <2>1. Lost' <=> Lost
    BY <1>3, EntryWrites DEF Lost
  <2>2. Entries' /\ OthersIntact'
    BY <1>1, <1>3, <2>1 DEF Safe, Entries, OthersIntact, Whole
  <2> QED
    BY <1>2, <2>2 DEF Safe
<1>4. CASE Astray
  BY <1>2, <1>4, AstraySafe
<1> QED
  BY <1>3, <1>4, EntryWrites

LEMMA AlwaysSafe == Spec => []Safe
<1>1. Sound /\ Safe /\ [Next]_vars => Safe'
  BY OutsideSafe, RestOutside, RemoveSafe, ChainSafe, MarkSafe, EntrySafe DEF Removes
<1> QED
  BY InitSafe, <1>1, AlwaysSound, PTL DEF Spec

(* Whatever is removed, fails or is reset, and until a removal writes words*)
(* it has not read over the card, a file nobody removed stays listed and   *)
(* whole in every copy of the FAT.                                         *)
THEOREM RemovalSparesOthers == Spec => []OthersIntact
<1>1. Safe => OthersIntact
  BY DEF Safe
<1> QED
  BY AlwaysSafe, <1>1, PTL


-----------------------------------------------------------------------------
(* How far a removal has got, when nothing failed.                         *)
LEMMA InitProgress == Init => Progress
<1> SUFFICES ASSUME Init PROVE Progress
  OBVIOUS
<1>1. OthersIntact /\ begun = {} /\ dir = Files /\ pc = "idle" /\ ~Lost
  BY InitSafe, VolumeAssumption DEF Safe, Init, Lost
<1> QED
  BY <1>1 DEF Progress, OthersIntact, Removing

LEMMA OutsideProgress == ASSUME Progress, Outside PROVE Progress'
<1> SUFFICES ASSUME ~failed' PROVE Progress'
  BY DEF Progress
<1>1. ~failed /\ fat' = fat /\ dir' = dir
  BY DEF Outside
<1>2. \A f \in Files : AllCleared(f) => AllCleared(f)'
  BY <1>1 DEF AllCleared
<1>3. \A f \in Files : \A k \in Copies : Whole(f, k) => Whole(f, k)'
  BY <1>1 DEF Whole
<1>4. CASE pc \notin Removing /\ pc' \notin Removing
  BY <1>1, <1>4 DEF Progress, Whole, AllCleared, Removing, Lost
<1>5. CASE UNCHANGED <<pc, name, dir_buffer, current, next, copy>>
  BY <1>1, <1>5 DEF Progress, Whole, AllCleared, ClearedTo, Lost
<1> QED
  BY <1>4, <1>5 DEF Outside

LEMMA RemoveProgress == ASSUME Sound, Progress, NEW f \in Files, k_remove(f) PROVE Progress'
<1> SUFFICES ASSUME ~failed' PROVE Progress'
  BY DEF Progress
<1>1. /\ ~failed /\ fat' = fat /\ dir' = dir /\ pc = "idle" /\ pc' = "chain"
      /\ f \in dir /\ name' = f /\ current' = first_cluster(f)
  <2>1. TypeOK /\ ~Transfer("short")
    BY Transferred DEF Sound
  <2> QED
    BY <2>1, Transferred DEF k_remove, disk
<1>2. \A g \in dir : \A k \in Copies : Whole(g, k)
  BY <1>1 DEF Progress, Removing
<1>3. current' = Place(f, 1)
  BY <1>1, ChainShape DEF Place, first_cluster
<1>4. ClearedTo(1)'
  <2>1. ASSUME NEW k \in Copies, NEW i \in DOMAIN Chain[f]
        PROVE  fat'[k][Chain[f][i]] = Link(f, i) /\ ~(i < 1)
    BY <1>1, <1>2, ChainShape DEF Whole
  <2> QED
    BY <1>1, <2>1 DEF ClearedTo
<1>5. 1 \in 1..(Len(Chain[f]) + 1)
  BY ChainShape
<1>6. Place(f, 1)' = Place(f, 1)
  BY DEF Place
<1> QED
  BY <1>1, <1>2, <1>3, <1>4, <1>5, <1>6 DEF Progress, Whole, AllCleared, Removing, Lost

(* The place of a removal: on the chain exactly as long as InChain holds.  *)
LEMMA PlaceInChain ==
  ASSUME NEW f \in Files, NEW j \in 1..(Len(Chain[f]) + 1), current = Place(f, j)
  PROVE  /\ InChain <=> j \in DOMAIN Chain[f]
         /\ j \in DOMAIN Chain[f] => /\ current = Chain[f][j]
                                     /\ Link(f, j) = Place(f, j + 1)
                                     /\ j + 1 \in 1..(Len(Chain[f]) + 1)
         /\ j \notin DOMAIN Chain[f] => \A i \in DOMAIN Chain[f] : i < j
<1>1. Len(Chain[f]) \in Nat /\ DOMAIN Chain[f] = 1..Len(Chain[f])
  BY ChainShape
<1>2. CASE j \in DOMAIN Chain[f]
  <2>1. current = Chain[f][j] /\ current \in Clusters /\ Chain[f] # <<>>
    BY <1>1, <1>2, ChainShape DEF Place
  <2> QED
    BY <1>1, <1>2, <2>1, Volume DEF InChain, Place, Link
<1>3. CASE j \notin DOMAIN Chain[f]
  <2>1. current \in {0, EOC}
    BY <1>3 DEF Place
  <2> QED
    BY <1>1, <1>3, <2>1, Volume DEF InChain
<1> QED
  BY <1>2, <1>3

LEMMA ChainProgress == ASSUME Sound, Progress, free_cluster_chain PROVE Progress'
<1> SUFFICES ASSUME ~failed' PROVE Progress'
  BY DEF Progress
<1>1. /\ fat' = fat /\ dir' = dir /\ name' = name /\ current' = current
      /\ pc = "chain" /\ name \in Files /\ (Lost' <=> Lost)
  BY ChainSteps DEF disk, Lost
<1>2. ~failed /\ name \in dir
  BY <1>1, ChainSteps DEF Progress, Removing
<1>3. PICK j \in 1..(Len(Chain[name]) + 1) : current = Place(name, j) /\ ClearedTo(j)
  BY <1>1, <1>2 DEF Progress
<1>4. CASE ~InChain
  <2>1. pc' = "entry"
    BY <1>4, ChainSteps
  <2>2. AllCleared(name)
    BY <1>1, <1>3, <1>4, PlaceInChain DEF ClearedTo, AllCleared
  <2> QED
    BY <1>1, <1>2, <2>1, <2>2 DEF Progress, Whole, AllCleared, Removing
<1>5. CASE InChain
  <2>1. pc' = "mark" /\ copy' = 1 /\ next' \in get_next_cluster(current, "done")
    BY <1>5, ChainSteps
  <2>2. j \in DOMAIN Chain[name] /\ current = Chain[name][j] /\ j \in Int
    BY <1>1, <1>3, <1>5, PlaceInChain
  <2>3. next' = Link(name, j)
    <3>1. fat[1][current] = Link(name, j)
      BY <1>1, <1>3, <2>2, Volume DEF ClearedTo
    <3>2. Link(name, j) # JUNK /\ ~(current > LastCluster)
      BY <1>1, <2>2, LinkReaches, ChainShape, Volume
    <3> QED
      BY <2>1, <3>1, <3>2 DEF get_next_cluster, Entry
  <2>4. ClearedTo(j)'
    BY <1>1, <1>3, <2>1, <2>2, Volume DEF ClearedTo
  <2> QED
    BY <1>1, <1>2, <1>3, <2>1, <2>3, <2>4 DEF Progress, Whole, AllCleared, Removing, Place
<1> QED
  BY <1>4, <1>5

LEMMA MarkProgress == ASSUME Sound, Safe, Progress, mark_cluster_in_fat PROVE Progress'
<1> SUFFICES ASSUME ~failed' PROVE Progress'
  BY DEF Progress
<1>1. /\ pc = "mark" /\ name \in Files /\ copy \in Copies
      /\ current \in Clusters /\ InChain /\ ~failed
      /\ UNCHANGED <<dir, name, next>>
  BY MarkWrites
<1>3. (Lost' <=> Lost) /\ ~Lost
  BY <1>1 DEF Lost, Progress
<1>4. fat' = Cleared
  BY MarkWrites
<1>5. \A k \in Copies : \A c \in 0..LastCluster :
         fat'[k][c] = IF k = copy /\ c = current THEN 0 ELSE fat[k][c]
  BY <1>1, <1>4, ClearedEntries
<1>6. PICK j \in 1..(Len(Chain[name]) + 1) :
         current = Place(name, j) /\ ClearedTo(j) /\ next = Link(name, j)
  BY <1>1 DEF Progress
<1>7. /\ j \in DOMAIN Chain[name] /\ current = Chain[name][j] /\ j \in Nat
      /\ Link(name, j) = Place(name, j + 1) /\ j + 1 \in 1..(Len(Chain[name]) + 1)
  BY <1>1, <1>6, PlaceInChain
<1>8. \A f \in Files : \A i \in DOMAIN Chain[f] :
         /\ Chain[f][i] \in 0..LastCluster
         /\ Chain[f][i] = current <=> f = name /\ i = j
  <2>1. ASSUME NEW f \in Files, NEW i \in DOMAIN Chain[f]
        PROVE  Chain[f][i] \in 0..LastCluster
    BY ChainShape, Volume
  <2>2. ASSUME NEW f \in Files, NEW i \in DOMAIN Chain[f], Chain[f][i] = Chain[name][j]
        PROVE  f = name /\ i = j
    BY <1>1, <1>7, <2>2, ChainAssumption
  <2> QED
    BY <1>7, <2>1, <2>2
<1>9. ASSUME NEW k \in Copies, NEW i \in DOMAIN Chain[name]
      PROVE  fat'[k][Chain[name][i]] = IF i < j \/ (i = j /\ k <= copy) THEN 0 ELSE Link(name, i)
  <2>1. fat[k][Chain[name][i]] = IF i < j \/ (i = j /\ k < copy) THEN 0 ELSE Link(name, i)
    BY <1>1, <1>6 DEF ClearedTo
  <2>2. fat'[k][Chain[name][i]] = IF k = copy /\ i = j THEN 0 ELSE fat[k][Chain[name][i]]
    BY <1>1, <1>5, <1>8
  <2>3. k \in Int /\ copy \in Int
    BY <1>1, Volume
  <2>4. Len(Chain[name]) \in Nat /\ DOMAIN Chain[name] = 1..Len(Chain[name])
    BY <1>1, ChainShape
  <2>5. i \in Int
    BY <2>4
  <2> QED
    BY <1>7, <2>1, <2>2, <2>3, <2>5
<1>10. ASSUME NEW f \in Files, f # name, NEW k \in Copies, NEW i \in DOMAIN Chain[f]
       PROVE  fat'[k][Chain[f][i]] = fat[k][Chain[f][i]]
  BY <1>5, <1>8, <1>10
<1>11. pc' \in {"chain", "mark"} /\ name \in dir /\ dir \subseteq Files
  BY <1>1, <1>3, MarkWrites DEF Progress, Removing, Sound, TypeOK, Lost
<1>12. /\ \A f \in dir : f = name \/ \A k \in Copies : Whole(f, k)'
       /\ \A f \in Files \ dir : AllCleared(f)'
  BY <1>1, <1>10, <1>11 DEF Progress, Whole, AllCleared
<1>13. \E i \in 1..(Len(Chain[name]) + 1) :
          current' = Place(name, i) /\ ClearedTo(i)' /\ (pc' = "mark" => next = Link(name, i))
  <2>1. CASE ~LastCopy
    <3>1. copy' = copy + 1 /\ pc' = "mark" /\ current' = current
      BY <2>1, MarkWrites
    <3>2. ASSUME NEW k \in Copies PROVE k < copy' <=> k <= copy
      BY <1>1, <3>1, Volume
    <3>3. ClearedTo(j)'
      BY <1>1, <1>9, <3>1, <3>2 DEF ClearedTo
    <3> QED
      BY <1>6, <3>1, <3>3
  <2>2. CASE LastCopy
    <3>1. pc' = "chain" /\ current' = next
      BY <2>2, MarkWrites
    <3>2. ASSUME NEW k \in Copies, NEW i \in DOMAIN Chain[name]
          PROVE  k <= copy /\ (i < j + 1 <=> i < j \/ i = j)
      BY <1>1, <1>7, <2>2, ChainShape, Volume DEF LastCopy
    <3>3. ClearedTo(j + 1)'
      BY <1>1, <1>9, <3>1, <3>2 DEF ClearedTo
    <3> QED
      BY <1>6, <1>7, <3>1, <3>3
  <2> QED
    BY <2>1, <2>2
<1> QED
  BY <1>1, <1>3, <1>11, <1>12, <1>13 DEF Progress, Removing, Place

LEMMA EntryProgress == ASSUME Sound, Progress, k_remove_entry PROVE Progress'
<1> SUFFICES ASSUME ~failed' PROVE Progress'
  BY DEF Progress
<1>2. ~failed /\ ~Lost
  BY EntryWrites DEF Progress
<1>3. /\ fat' = fat /\ pc = "entry" /\ pc' = "idle" /\ dir' = dir \ {name} /\ dir \subseteq Files
      /\ ~Lost'
  BY <1>2, EntryWrites DEF Sound, TypeOK, Lost
<1>4. AllCleared(name)
  BY <1>2, <1>3 DEF Progress
<1>5. \A f \in Files : AllCleared(f) => AllCleared(f)'
  BY <1>3 DEF AllCleared
<1>6. \A f \in dir \ {name} : \A k \in Copies : Whole(f, k)
  BY <1>2, <1>3 DEF Progress
<1>7. \A f \in dir' : \A k \in Copies : Whole(f, k)'
  BY <1>3, <1>6 DEF Whole
<1>8. \A f \in Files \ dir' : AllCleared(f)'
  BY <1>2, <1>3, <1>4, <1>5 DEF Progress
<1> QED
  BY <1>3, <1>7, <1>8 DEF Progress, Removing

LEMMA AlwaysProgress == Spec => []Progress
<1>1. Sound /\ Safe /\ Progress /\ [Next]_vars => Progress'
  BY OutsideProgress, RestOutside, RemoveProgress, ChainProgress, MarkProgress, EntryProgress
  DEF Removes
<1> QED
  BY InitProgress, <1>1, AlwaysSound, AlwaysSafe, PTL DEF Spec

(* Until something fails, the copies of the FAT agree after any number of  *)
(* removals: no cluster is lost, none is taken twice.                      *)
THEOREM RemovalLeavesConsistent == Spec => []ConsistentWithoutFaults
<1>1. Safe /\ Progress /\ TypeOK => ConsistentWithoutFaults
  <2> SUFFICES ASSUME Safe, Progress, TypeOK, pc \notin Removing, ~failed,
                      NEW k \in Copies, NEW c \in Clusters
               PROVE  fat[k][c] = IF \E f \in dir : \E i \in DOMAIN Chain[f] : Chain[f][i] = c
                                  THEN FreshEntry(c) ELSE 0
    BY DEF ConsistentWithoutFaults, Removing
  <2>1. CASE \E f \in dir : \E i \in DOMAIN Chain[f] : Chain[f][i] = c
    <3>1. PICK f \in dir : \E i \in DOMAIN Chain[f] : Chain[f][i] = c
      BY <2>1
    <3>2. PICK i \in DOMAIN Chain[f] : Chain[f][i] = c
      BY <3>1
    <3>3. f \in Files /\ Whole(f, k)
      BY DEF TypeOK, Progress, Lost
    <3>4. fat[k][c] = Link(f, i) /\ FreshEntry(c) = Link(f, i)
      BY <3>2, <3>3, Fresh DEF Whole
    <3> QED
      BY <2>1, <3>4
  <2>2. CASE ~\E f \in dir : \E i \in DOMAIN Chain[f] : Chain[f][i] = c
    <3>1. ASSUME Allocated(c) PROVE fat[k][c] = 0
      <4>1. PICK f \in Files : \E i \in DOMAIN Chain[f] : Chain[f][i] = c
        BY <3>1 DEF Allocated
      <4>2. AllCleared(f)
        BY <2>2, <4>1 DEF Progress
      <4> QED
        BY <4>1, <4>2 DEF AllCleared
    <3>2. ASSUME ~Allocated(c) PROVE fat[k][c] = 0
      BY <3>2 DEF Safe, Entries, Progress
    <3> QED
      BY <2>2, <3>1, <3>2
  <2> QED
    BY <2>1, <2>2
<1>2. Sound => TypeOK
  BY DEF Sound
<1> QED
  BY <1>1, <1>2, AlwaysSound, AlwaysSafe, AlwaysProgress, PTL


-----------------------------------------------------------------------------
(* Where the cursor of a FILE is. A file that is whole was so before.      *)
Track == OnChain /\ Noticed /\ SeekOnChain /\ CursorOnChain

LEMMA FailedStays == ASSUME Sound, [Next]_vars PROVE failed' \in BOOLEAN /\ (failed => failed')
<1>1. CASE ~Removes
  BY <1>1, RestOutside DEF Outside
<1>2. ASSUME NEW f \in Files, k_remove(f) PROVE failed' \in BOOLEAN /\ (failed => failed')
  BY <1>2, Transferred DEF k_remove, Sound
<1> QED
  BY <1>1, <1>2, ChainSteps, MarkWrites, EntryWrites DEF Removes

LEMMA AstrayBreaks ==
  ASSUME Astray, NEW f \in Files, NEW k \in Copies, Whole(f, k)'
  PROVE  Chain[f] = <<>>
<1> SUFFICES ASSUME Chain[f] # <<>> PROVE FALSE
  OBVIOUS
<1>1. 1 \in DOMAIN Chain[f]
  BY ChainShape
<1>2. fat'[k][Chain[f][1]] = JUNK
  BY <1>1, AstrayTyped, ChainShape, Volume
<1>3. Link(f, 1) # JUNK
  BY <1>1, LinkReaches, Volume
<1> QED
  BY <1>1, <1>2, <1>3 DEF Whole

LEMMA WholeOnlyLost ==
  ASSUME Sound, Safe, [Next]_vars, NEW f \in Files, NEW k \in Copies, Whole(f, k)'
  PROVE  Whole(f, k)
<1>1. CASE fat' = fat
  BY <1>1 DEF Whole
<1>2. CASE mark_cluster_in_fat /\ current \in Clusters /\ fat' = Cleared
  <2>1. ASSUME NEW i \in DOMAIN Chain[f] PROVE fat[k][Chain[f][i]] = Link(f, i)
    <3>1. fat'[k][Chain[f][i]] = Link(f, i) /\ Chain[f][i] \in 0..LastCluster /\ Link(f, i) # 0
      BY LinkReaches, ChainShape, Volume DEF Whole
    <3>2. copy \in Copies
      BY <1>2, MarkWrites
    <3> QED
      BY <1>2, <3>1, <3>2, ClearedEntries
  <2> QED
    BY <2>1 DEF Whole
<1>3. CASE Astray
  BY <1>3, AstrayBreaks DEF Whole
<1>4. fat' = fat \/ Astray \/ (mark_cluster_in_fat /\ current \in Clusters /\ fat' = Cleared)
  <2>1. CASE mark_cluster_in_fat
    BY <2>1, MarkWrites
  <2>2. CASE ~Removes
    BY <2>2, RestOutside DEF Outside
  <2>3. CASE (\E g \in Files : k_remove(g)) \/ free_cluster_chain
    BY <2>3 DEF k_remove, free_cluster_chain, disk
  <2>4. CASE k_remove_entry
    BY <2>4, EntryWrites
  <2> QED
    BY <2>1, <2>2, <2>3, <2>4 DEF Removes
<1> QED
  BY <1>1, <1>2, <1>3, <1>4

(* A step that moves no cursor.                                            *)
Still == (fp' = NULL /\ seek' = NULL) \/ (fp' = fp /\ seek' = seek)

LEMMA StillTrack == ASSUME Sound, Safe, Track, [Next]_vars, Still PROVE Track'
<1>1. CASE fp' = NULL /\ seek' = NULL
  BY <1>1 DEF Track, OnChain, Noticed, SeekOnChain, CursorOnChain
<1>2. CASE fp' = fp /\ seek' = seek
  <2>1. OnChain'
    BY <1>2 DEF Track, OnChain
  <2>2. fp # NULL => fp.file \in Files
    BY DEF Sound, TypeOK, FILE
  <2>3. ASSUME NEW f \in Files, \A i \in DOMAIN Chain[f] : fat'[1][Chain[f][i]] = Link(f, i)
        PROVE  Whole(f, 1)
    BY <2>3, WholeOnlyLost, Volume DEF Whole
  <2>4. SeekOnChain'
    <3> SUFFICES ASSUME seek' # NULL, seek'.target # JUNK, Intact' PROVE (SeekOnChain!2)'
      BY DEF SeekOnChain
    <3>1. seek # NULL /\ fp # NULL
      BY <1>2 DEF Sound, Shape
    <3>2. Intact
      BY <1>2, <2>2, <2>3, <3>1 DEF Intact, Whole
    <3> QED
      BY <1>2, <3>1, <3>2 DEF Track, SeekOnChain, Done, Index
  <2>5. CursorOnChain'
    BY <1>2, <2>2, <2>3 DEF Track, CursorOnChain, Whole
  <2>6. Noticed'
    BY <1>2, FailedStays DEF Track, Noticed
  <2> QED
    BY <2>1, <2>4, <2>5, <2>6 DEF Track
<1> QED
  BY <1>1, <1>2 DEF Still

LEMMA OpenTrack == ASSUME Sound, NEW f \in Files, k_fopen(f) PROVE Track'
<1>1. /\ fp' # NULL /\ seek' = NULL /\ failed' \in BOOLEAN
      /\ fp'.file = f /\ fp'.current_cluster = fp'.first_cluster
      /\ fp'.current_cluster_index = 0 /\ fp'.fpos = 0
      /\ \/ fp'.first_cluster = first_cluster(f)
         \/ fp'.first_cluster = JUNK /\ failed' = TRUE
  BY OpenedFile DEF k_fopen, Sound, TypeOK
<1>2. OnChain' /\ SeekOnChain'
  BY <1>1, FirstCluster DEF OnChain, SeekOnChain, Reach
<1>3. 0 \div ClusterBytes = 0
  BY Volume, Quotient
<1>4. first_cluster(f) # JUNK
  BY ChainShape, Volume DEF first_cluster
<1>5. CursorOnChain'
  BY <1>1, <1>3, ChainShape DEF CursorOnChain, first_cluster
<1>6. Noticed'
  BY <1>1, <1>4 DEF Noticed
<1> QED
  BY <1>2, <1>5, <1>6 DEF Track

(* The arithmetic of a turn: it stays in its cluster, or it ends exactly   *)
(* at the end of it, which is the end of the positions at the latest.      *)
LEMMA Advance ==
  ASSUME Sound, pc = "fread"
  PROVE  LET q == fp.fpos \div ClusterBytes
         IN  /\ q \in Nat /\ (q + 1) * ClusterBytes <= Word
             /\ offset + can_read < ClusterBytes =>
                   /\ fpos1 = fp.fpos + can_read
                   /\ fpos1 \div ClusterBytes = q /\ fpos1 % ClusterBytes # 0
             /\ offset + can_read = ClusterBytes =>
                   /\ fpos1 % ClusterBytes = 0
                   /\ fp.fpos + can_read = (q + 1) * ClusterBytes
                   /\ (q + 1) * ClusterBytes < Word =>
                         fpos1 = fp.fpos + can_read /\ fpos1 \div ClusterBytes = q + 1
<1> DEFINE q == fp.fpos \div ClusterBytes
           w == Word \div ClusterBytes
<1>1. /\ fp.fpos \in 0..(Word - 1) /\ offset \in 0..(ClusterBytes - 1)
      /\ fp.fpos = q * ClusterBytes + offset
      /\ can_read \in Nat \ {0} /\ offset + can_read <= ClusterBytes
  BY TurnReads
<1>2. q \in Nat
  <2>1. fp.fpos \in Nat
    BY <1>1
  <2> QED
    BY <2>1, Volume, DividedNat
<1>3. w \in Int /\ Word = w * ClusterBytes
  <2>1. Word \in Int
    BY Volume
  <2> QED
    BY <2>1, Volume, Divided
<1> HIDE DEF q, w
<1>4. q + 1 <= w
  <2>1. q * ClusterBytes < w * ClusterBytes
    BY <1>1, <1>2, <1>3, Volume
  <2> QED
    BY <1>2, <1>3, <2>1, Volume
<1>5. (q + 1) * ClusterBytes <= Word /\ (q + 1) * ClusterBytes = q * ClusterBytes + ClusterBytes
  BY <1>2, <1>3, <1>4, Volume
<1>6. ASSUME NEW i \in 0..(Word - 1) PROVE i % Word = i
  BY Volume
<1>7. ASSUME offset + can_read < ClusterBytes
      PROVE  /\ fpos1 = fp.fpos + can_read
             /\ fpos1 \div ClusterBytes = q /\ fpos1 % ClusterBytes # 0
  <2>1. fp.fpos + can_read = q * ClusterBytes + (offset + can_read)
        /\ fp.fpos + can_read \in 0..(Word - 1)
    BY <1>1, <1>2, <1>5, <1>7, Volume
  <2>2. fpos1 = fp.fpos + can_read
    BY <1>6, <2>1 DEF fpos1
  <2>3. offset + can_read \in 0..(ClusterBytes - 1) /\ offset + can_read # 0
    BY <1>1, <1>7, Volume
  <2> DEFINE r == offset + can_read
  <2>4. fpos1 \in Int /\ fpos1 = q * ClusterBytes + r /\ r \in 0..(ClusterBytes - 1) /\ r # 0
    BY <2>1, <2>2, <2>3
  <2> HIDE DEF r
  <2>5. fpos1 \div ClusterBytes = q /\ fpos1 % ClusterBytes = r
    BY <1>2, <2>4, Volume, Quotient
  <2> QED
    BY <2>2, <2>4, <2>5
<1>8. ASSUME offset + can_read = ClusterBytes
      PROVE  /\ fpos1 % ClusterBytes = 0
             /\ fp.fpos + can_read = (q + 1) * ClusterBytes
             /\ (q + 1) * ClusterBytes < Word =>
                   fpos1 = fp.fpos + can_read /\ fpos1 \div ClusterBytes = q + 1
  <2>1. fp.fpos + can_read = (q + 1) * ClusterBytes /\ fp.fpos + can_read \in Nat
    BY <1>1, <1>2, <1>5, <1>8, Volume
  <2>2. CASE (q + 1) * ClusterBytes < Word
    <3>1. fpos1 = (q + 1) * ClusterBytes + 0
      BY <1>2, <1>6, <2>1, <2>2, Volume DEF fpos1
    <3>2. fpos1 \div ClusterBytes = q + 1 /\ fpos1 % ClusterBytes = 0
      <4>1. q + 1 \in Int /\ 0 \in 0..(ClusterBytes - 1) /\ fpos1 \in Int
        BY <1>2, <2>1, <3>1, Volume
      <4> QED
        BY <3>1, <4>1, Volume, Quotient
    <3> QED
      BY <1>2, <2>1, <3>1, <3>2, Volume
  <2>3. CASE (q + 1) * ClusterBytes = Word
    <3>1. fpos1 = 0
      <4>1. Word % Word = 0
        BY Volume
      <4> QED
        BY <2>1, <2>3, <4>1 DEF fpos1
    <3>2. 0 % ClusterBytes = 0
      BY Volume
    <3> QED
      BY <2>1, <2>3, <3>1, <3>2, Volume
  <2> QED
    BY <1>2, <1>5, <2>2, <2>3, Volume
<1> QED
  BY <1>2, <1>5, <1>7, <1>8 DEF q


(* A number nobody knows leads to none that is known; one that is known    *)
(* does as long as the entries are read.                                   *)
LEMMA NextOfJunk ==
  ASSUME NEW r \in Outcomes, NEW x \in get_next_cluster(JUNK, r)
  PROVE  x \in Unknown
  BY Volume DEF get_next_cluster, Outcomes, Entry

LEMMA NextKnown ==
  ASSUME Entries, ~Lost, NEW f \in Files, NEW c \in Reach(f), c \notin Unknown,
         NEW x \in get_next_cluster(c, "done")
  PROVE  x # JUNK
<1>1. 1 \in Copies /\ c \in 0..LastCluster /\ ~(c > LastCluster)
  BY ReachIsCluster, Volume
<1>2. fat[1][c] # JUNK
  <2>1. CASE c = 0
    BY <1>1, <2>1, Volume DEF Entries
  <2>2. CASE c \in Own(f)
    <3>1. PICK i \in DOMAIN Chain[f] : c = Chain[f][i]
      BY <2>2 DEF Own
    <3>2. fat[1][c] \in {0, Link(f, i)}
      BY <1>1, <3>1 DEF Entries
    <3> QED
      BY <3>2, LinkReaches, Volume
  <2> QED
    BY <2>1, <2>2, Volume DEF Reach
<1> QED
  BY <1>1, <1>2 DEF get_next_cluster, Entry

(* The next cluster of a file that is whole.                               *)
LEMMA NextOnChain ==
  ASSUME NEW f \in Files, NEW i \in DOMAIN Chain[f], Whole(f, 1), NEW r \in Outcomes,
         NEW x \in get_next_cluster(Chain[f][i], r)
  PROVE  /\ x = JUNK \/ x >= EOC \/ (i + 1 \in DOMAIN Chain[f] /\ x = Chain[f][i + 1])
         /\ x = JUNK => r # "done"
         /\ x >= EOC => x = EOC /\ (r # "done" \/ i = Len(Chain[f]))
<1>1. fat[1][Chain[f][i]] = Link(f, i)
  BY DEF Whole
<1>2. /\ Len(Chain[f]) \in Nat /\ DOMAIN Chain[f] = 1..Len(Chain[f]) /\ EOC \in Nat
      /\ Link(f, i) # JUNK /\ ~(Chain[f][i] > LastCluster)
  BY ChainShape, LinkReaches, Volume
<1>3. CASE r # "done"
  <2>1. x \in {JUNK, EOC}
    BY <1>3, Volume DEF get_next_cluster, Outcomes
  <2> QED
    BY <1>3, <2>1, Volume
<1>4. CASE r = "done"
  <2>1. x = Link(f, i)
    BY <1>1, <1>2, <1>4 DEF get_next_cluster, Entry
  <2>2. CASE i = Len(Chain[f])
    BY <1>2, <2>1, <2>2, Volume DEF Link
  <2>3. CASE i # Len(Chain[f])
    <3>1. i + 1 \in DOMAIN Chain[f] /\ x = Chain[f][i + 1] /\ x \in Clusters
      BY <1>2, <2>1, <2>3, ChainShape DEF Link
    <3> QED
      BY <3>1, Volume
  <2> QED
    BY <2>2, <2>3
<1> QED
  BY <1>3, <1>4

(* Where a read of a file that is whole crosses into another cluster: the  *)
(* next of its chain, unless the transfer failed or the chain ended.       *)
LEMMA CrossesWhole ==
  ASSUME Sound, Track, pc = "fread", NEW entry \in Outcomes, NEW c, Crosses(entry, c),
         Chain[fp.file] # <<>>, Whole(fp.file, 1), fp.current_cluster # JUNK
  PROVE  LET f == fp.file
             q == fp.fpos \div ClusterBytes
         IN  /\ q \in Nat /\ fp.fpos + can_read = (q + 1) * ClusterBytes
             /\ fp.current_cluster_index = q
             /\ c >= EOC => entry # "done" \/ q + 1 = Len(Chain[f])
             /\ ~(c >= EOC) /\ c # JUNK =>
                   /\ q + 1 + 1 \in DOMAIN Chain[f] /\ c = Chain[f][q + 1 + 1]
                   /\ fpos1 = fp.fpos + can_read /\ fpos1 \div ClusterBytes = q + 1
<1> DEFINE f == fp.file
           q == fp.fpos \div ClusterBytes
<1>1. fp # NULL /\ seek = NULL /\ ~fp.eof /\ f \in Files
  BY TurnReads DEF Sound, Shape, Reading, FILE
<1>2. /\ fp.current_cluster_index = q
      /\ q + 1 \in DOMAIN Chain[f] /\ fp.current_cluster = Chain[f][q + 1]
  BY <1>1 DEF Track, CursorOnChain
<1>3. q \in Nat /\ (q + 1) * ClusterBytes <= Word
  BY Advance
<1>4. offset + can_read = ClusterBytes
  <2>1. fpos1 % ClusterBytes = 0
    BY DEF Crosses
  <2>2. ~(offset + can_read < ClusterBytes)
    BY <2>1, Advance
  <2> QED
    BY <2>2, TurnReads, Volume
<1>5. fp.fpos + can_read = (q + 1) * ClusterBytes
  BY <1>4, Advance
<1>6. /\ c = JUNK \/ c >= EOC \/ (q + 1 + 1 \in DOMAIN Chain[f] /\ c = Chain[f][q + 1 + 1])
      /\ c >= EOC => entry # "done" \/ q + 1 = Len(Chain[f])
  BY <1>1, <1>2, NextOnChain DEF Crosses
<1>7. ASSUME ~(c >= EOC), c # JUNK
      PROVE  fpos1 = fp.fpos + can_read /\ fpos1 \div ClusterBytes = q + 1
  <2>1. q + 2 <= Len(Chain[f]) /\ Len(Chain[f]) \in Nat
    BY <1>1, <1>3, <1>6, <1>7, ChainShape
  <2>2. Len(Chain[f]) * ClusterBytes <= Word
    BY <1>1, ChainShape
  <2>3. (q + 1) * ClusterBytes < Word
    <3> HIDE DEF f, q
    <3>1. (q + 1) * ClusterBytes < Len(Chain[f]) * ClusterBytes
      BY <1>3, <2>1, Volume
    <3> QED
      BY <1>3, <2>1, <2>2, <3>1, Volume
  <2> QED
    BY <1>4, <2>3, Advance
<1> QED
  BY <1>2, <1>3, <1>5, <1>6, <1>7

LEMMA TurnTrack == ASSUME Sound, Safe, Progress, Track, k_fread_turn PROVE Track'
<1>1. /\ pc = "fread" /\ fat' = fat /\ dir' = dir /\ seek' = seek /\ seek = NULL /\ fp # NULL
      /\ fp \in FILE /\ ~fp.eof /\ fp.current_cluster # EOC /\ (failed => failed')
      /\ Inside \/ \E entry \in Outcomes : \E c : Crosses(entry, c)
  BY TurnEnds, TurnReads DEF disk, Sound, Shape, Reading
<1>2. fp.file \in Files /\ fp.current_cluster \in Reach(fp.file) /\ fp.current_cluster \in 0..EOC
  BY <1>1 DEF FILE, Track, OnChain
<1> DEFINE f == fp.file
           q == fp.fpos \div ClusterBytes
<1>3. Chain[f] # <<>> /\ Whole(f, 1) /\ fp.current_cluster # JUNK =>
         /\ fp.current_cluster_index = q
         /\ q + 1 \in DOMAIN Chain[f] /\ fp.current_cluster = Chain[f][q + 1]
  BY <1>1 DEF Track, CursorOnChain
<1>4. offset + can_read \in Nat /\ offset + can_read <= ClusterBytes
  BY <1>1, TurnReads
<1>5. CASE Inside
  <2>1. /\ fp'.file = f /\ fp'.current_cluster = fp.current_cluster /\ fp'.fpos = fpos1
        /\ fp'.current_cluster_index = fp.current_cluster_index
        /\ fp'.first_cluster = fp.first_cluster
    BY <1>1, <1>5 DEF Inside, FILE
  <2>2. fpos1 \div ClusterBytes = q
    <3>1. offset + can_read < ClusterBytes
      BY <1>1, <1>4, <1>5, Advance, Volume DEF Inside
    <3> QED
      BY <1>1, <3>1, Advance
  <2>3. OnChain' /\ SeekOnChain' /\ Noticed'
    BY <1>1, <1>2, <2>1 DEF OnChain, SeekOnChain, Track, Noticed
  <2>4. CursorOnChain'
    BY <1>1, <1>3, <2>1, <2>2 DEF CursorOnChain, Whole
  <2> QED
    BY <2>3, <2>4 DEF Track
<1>6. ASSUME NEW entry \in Outcomes, NEW c, Crosses(entry, c) PROVE Track'
  <2>1. c \in get_next_cluster(fp.current_cluster, entry) /\ c \in 0..EOC
    BY <1>1, <1>2, <1>6, NextTyped DEF Crosses, Sound
  <2>2. /\ fp'.file = f /\ fp'.current_cluster = c /\ fp'.fpos = fpos1
        /\ fp'.current_cluster_index = Lesser(fp.current_cluster_index + 1, LastIndex)
        /\ fp'.first_cluster = fp.first_cluster
        /\ fp'.eof = (c >= EOC)
    BY <1>1, <1>6, <2>1, CrossesTo
  <2>3. c \in Reach(f)
    BY <1>1, <1>2, <2>1, WalkStays DEF Safe
  <2>4. OnChain' /\ SeekOnChain'
    BY <1>1, <2>2, <2>3 DEF OnChain, SeekOnChain
  <2>5. CursorOnChain'
    <3> SUFFICES ASSUME ~(c >= EOC), c # JUNK, Chain[f] # <<>>, Whole(f, 1)
                 PROVE  /\ Lesser(fp.current_cluster_index + 1, LastIndex) = fpos1 \div ClusterBytes
                        /\ fpos1 \div ClusterBytes + 1 \in DOMAIN Chain[f]
                        /\ c = Chain[f][fpos1 \div ClusterBytes + 1]
      BY <1>1, <2>2 DEF CursorOnChain, Whole
    <3>1. fp.current_cluster # JUNK
      BY <2>1, NextOfJunk, Volume
    <3>2. /\ fp.current_cluster_index = q /\ q \in Nat
          /\ fpos1 \div ClusterBytes = q + 1
          /\ q + 1 + 1 \in DOMAIN Chain[f] /\ c = Chain[f][q + 1 + 1]
      BY <1>1, <1>6, <3>1, CrossesWhole
    <3>3. q + 1 < LastIndex /\ LastIndex \in Nat
      <4>1. fpos1 \in 0..(Word - 1)
        <5>1. fp.fpos + can_read \in Int
          BY <1>1, TurnReads
        <5> QED
          BY <5>1, Volume, Divided DEF fpos1
      <4> QED
        BY <3>2, <4>1, IndexTyped
    <3> HIDE DEF q, f
    <3>4. Lesser(q + 1, LastIndex) = q + 1
      BY <3>2, <3>3 DEF Lesser
    <3> QED
      BY <3>2, <3>4
  <2>6. Noticed'
    <3> SUFFICES ASSUME ~failed' PROVE c # JUNK
      BY <1>1, <2>2 DEF Track, Noticed
    <3>1. ~failed /\ entry = "done"
      BY <1>1, <1>6 DEF Crosses
    <3>2. ~Lost /\ fp.current_cluster \notin Unknown
      BY <1>1, <3>1, Volume DEF Progress, Track, Noticed
    <3> QED
      BY <1>2, <2>1, <3>1, <3>2, NextKnown DEF Safe
  <2> QED
    BY <2>4, <2>5, <2>6 DEF Track
<1> QED
  BY <1>1, <1>5, <1>6

LEMMA MoveTrack == ASSUME Sound, Track, NEW p \in 0..(Word - 1), move(p) PROVE Track'
<1>1. /\ fp \in FILE /\ fp # NULL /\ seek = NULL /\ fat' = fat /\ failed' = failed
      /\ fp' = [fp EXCEPT !.fpos = p]
      /\ fp.first_cluster \in {JUNK, first_cluster(fp.file)}
  BY DEF move, Sound, TypeOK, Shape, disk
<1> DEFINE f == fp.file
<1>2. /\ f \in Files /\ fp'.file = f /\ fp'.fpos = p /\ fp'.eof = fp.eof
      /\ fp'.current_cluster = fp.current_cluster /\ fp'.first_cluster = fp.first_cluster
      /\ fp'.current_cluster_index = fp.current_cluster_index
  BY <1>1 DEF FILE
<1>3. seek' = NULL \/ seek' = [target |-> fp.first_cluster, steps |-> p \div ClusterBytes,
                               polling |-> FALSE]
  BY <1>1 DEF move
<1>4. OnChain'
  BY <1>1, <1>2, <1>3, FirstCluster DEF Track, OnChain, Reach
<1>5. SeekOnChain'
  <2> SUFFICES ASSUME seek' # NULL, seek'.target # JUNK, Chain[f] # <<>>
               PROVE  /\ Done' + 1 \in DOMAIN Chain[f]
                      /\ seek'.target = Chain[f][Done' + 1]
    BY <1>2 DEF SeekOnChain, Intact
  <2>1. p \div ClusterBytes \in Int
    BY Volume, Divided
  <2>2. Done' = 0
    BY <1>2, <1>3, <2>1 DEF Done, Index
  <2> QED
    BY <1>1, <1>2, <1>3, <2>2, ChainShape DEF first_cluster
<1>6. CursorOnChain'
  <2> SUFFICES ASSUME seek' = NULL, fp.current_cluster # JUNK, ~fp.eof, Chain[f] # <<>>, Whole(f, 1)
               PROVE  /\ fp.current_cluster_index = p \div ClusterBytes
                      /\ fp.current_cluster_index + 1 \in DOMAIN Chain[f]
                      /\ fp.current_cluster = Chain[f][fp.current_cluster_index + 1]
    BY <1>1, <1>2 DEF CursorOnChain, Whole
  <2>1. p \div ClusterBytes = fp.current_cluster_index
    <3>1. [target |-> fp.first_cluster, steps |-> p \div ClusterBytes, polling |-> FALSE] \in Walk
      <4>1. p \in Nat /\ fp.first_cluster \in 0..EOC
        BY <1>1 DEF FILE
      <4>2. p \div ClusterBytes \in Nat
        BY <4>1, Volume, DividedNat
      <4> QED
        BY <4>1, <4>2 DEF Walk
    <3> QED
      BY <3>1, NullAssumption DEF move
  <2> QED
    BY <1>1, <2>1 DEF Track, CursorOnChain
<1>7. Noticed'
  BY <1>1, <1>2, <1>3 DEF Track, Noticed
<1> QED
  BY <1>4, <1>5, <1>6, <1>7 DEF Track

LEMMA SyncTrack == ASSUME Sound, Safe, Progress, Track, sync_step PROVE Track'
<1> DEFINE f == fp.file
<1>1. /\ seek \in Walk /\ seek # NULL /\ seek.target \in 0..EOC /\ seek.target # EOC
      /\ seek.steps \in Nat \ {0}
      /\ fp # NULL /\ f \in Files /\ fp.fpos \in Nat /\ fat' = fat /\ dir' = dir
      /\ seek' # NULL /\ fp' # NULL
      /\ fp'.file = f /\ fp'.fpos = fp.fpos
      /\ fp'.first_cluster = fp.first_cluster /\ fp'.current_cluster = fp.current_cluster
      /\ (failed => failed')
  BY WalkStep DEF disk
<1>2. PICK r \in Outcomes : \E c \in 0..EOC :
               /\ Walks(r, c) /\ (r # "done" => failed') /\ (r = "done" => failed' = failed)
               /\ seek'.target = c /\ seek'.steps = (IF c >= EOC THEN 0 ELSE seek.steps - 1)
               /\ fp'.eof = (fp.eof \/ c >= EOC)
  BY WalkStep
<1>3. PICK c \in 0..EOC :
               /\ Walks(r, c) /\ (r # "done" => failed')
               /\ seek'.target = c /\ seek'.steps = (IF c >= EOC THEN 0 ELSE seek.steps - 1)
               /\ fp'.eof = (fp.eof \/ c >= EOC)
  BY <1>2
<1>4. c \in get_next_cluster(seek.target, r) /\ seek.target \in Reach(f)
  BY <1>1, <1>3 DEF Walks, Track, OnChain
<1>5. c \in Reach(f)
  BY <1>1, <1>4, WalkStays DEF Safe
<1>6. OnChain'
  BY <1>1, <1>3, <1>5 DEF Track, OnChain
<1>7. SeekOnChain'
  <2> SUFFICES ASSUME ~fp.eof, ~(c >= EOC), c # JUNK, Chain[f] # <<>>, Whole(f, 1)
               PROVE  /\ Done' + 1 \in DOMAIN Chain[f]
                      /\ seek'.target = Chain[f][Done' + 1]
    BY <1>1, <1>3 DEF SeekOnChain, Intact, Whole
  <2>0. seek.target # JUNK
    BY <1>4, NextOfJunk, Volume
  <2>1. Done + 1 \in DOMAIN Chain[f] /\ seek.target = Chain[f][Done + 1]
    BY <1>1, <2>0 DEF Track, SeekOnChain, Intact
  <2>2. Done' = Done + 1
    <3>1. fp.fpos \div ClusterBytes \in Nat
      BY <1>1, Volume, DividedNat
    <3> QED
      BY <1>1, <1>3, <3>1 DEF Done, Index
  <2>3. Done + 1 + 1 \in DOMAIN Chain[f] /\ c = Chain[f][Done + 1 + 1]
    BY <1>1, <1>4, <2>1, NextOnChain
  <2> QED
    BY <1>3, <2>2, <2>3
<1>8. CursorOnChain'
  BY <1>1 DEF CursorOnChain
<1>9. Noticed'
  <2> SUFFICES ASSUME ~failed' PROVE c # JUNK
    BY <1>1, <1>3 DEF Track, Noticed
  <2>1. ~failed /\ r = "done"
    BY <1>1, <1>3
  <2>2. ~Lost /\ seek.target \notin Unknown
    BY <1>1, <2>1, Volume DEF Progress, Track, Noticed
  <2> QED
    BY <1>1, <1>4, <2>1, <2>2, NextKnown DEF Safe
<1> QED
  BY <1>6, <1>7, <1>8, <1>9 DEF Track

LEMMA SyncReadTrack == ASSUME Sound, Track, sync_read PROVE Track'
<1>1. /\ seek \in Walk /\ seek # NULL /\ seek' = [seek EXCEPT !.polling = TRUE]
      /\ fp' = fp /\ fat' = fat /\ failed' = failed
  BY DEF sync_read, Sound, TypeOK, disk
<1>2. seek' \in Walk /\ seek'.target = seek.target /\ seek'.steps = seek.steps
  BY <1>1 DEF Walk
<1>3. seek' # NULL
  BY <1>2, NullAssumption
<1>4. OnChain' /\ Noticed' /\ CursorOnChain'
  BY <1>1, <1>2, <1>3 DEF Track, OnChain, Noticed, CursorOnChain
<1>5. SeekOnChain'
  BY <1>1, <1>2, <1>3 DEF Track, SeekOnChain, Intact, Whole, Done, Index
<1> QED
  BY <1>4, <1>5 DEF Track

LEMMA SyncEndTrack == ASSUME Sound, Track, sync_end PROVE Track'
<1>1. /\ seek \in Walk /\ fp \in FILE /\ fp # NULL /\ seek # NULL
      /\ fat' = fat /\ seek.steps = 0 /\ seek' = NULL /\ failed' = failed
      /\ fp' = [fp EXCEPT !.current_cluster = seek.target,
                          !.current_cluster_index = fp.fpos \div ClusterBytes]
  BY DEF sync_end, Sound, TypeOK, Shape, disk
<1> DEFINE f == fp.file
<1>2. /\ fp'.file = f /\ fp'.fpos = fp.fpos /\ fp'.current_cluster = seek.target
      /\ fp'.current_cluster_index = fp.fpos \div ClusterBytes
      /\ fp'.eof = fp.eof /\ fp'.first_cluster = fp.first_cluster
      /\ f \in Files /\ fp.fpos \in Nat
  BY <1>1 DEF FILE
<1>3. OnChain' /\ SeekOnChain' /\ Noticed'
  BY <1>1, <1>2 DEF Track, OnChain, SeekOnChain, Noticed
<1>4. fp.fpos \div ClusterBytes \in Nat
  BY <1>2, Volume, DividedNat
<1>5. Done = fp.fpos \div ClusterBytes
  BY <1>1, <1>4 DEF Done, Index
<1>6. CursorOnChain'
  BY <1>1, <1>2, <1>5 DEF Track, SeekOnChain, CursorOnChain, Intact, Whole
<1> QED
  BY <1>3, <1>6 DEF Track

LEMMA InitTrack == Init => Track
  BY DEF Init, Track, OnChain, Noticed, SeekOnChain, CursorOnChain

LEMMA NextTrack == ASSUME Sound, Safe, Progress, Track, [Next]_vars PROVE Track'
<1>1. CASE Still
  BY <1>1, StillTrack
<1>2. ASSUME NEW f \in Files, k_fopen(f) PROVE Track'
  BY <1>2, OpenTrack
<1>3. CASE \/ \E s \in Skips : fskip(s)
           \/ \E p \in Positions : fsetp(p)
  BY <1>3, Positioned, MoveTrack
<1>4. k_fclose \/ Reset => Still
  BY DEF k_fclose, Reset, Still
<1>5. \A n \in Requests : k_fread(n) => Still
  BY DEF k_fread, Still
<1>6. k_fread_break \/ k_fread_return => Still
  BY DEF k_fread_break, k_fread_return, Still
<1>7. (\E f \in Files : k_remove(f)) \/ free_cluster_chain \/ k_remove_entry => Still
  BY DEF k_remove, free_cluster_chain, k_remove_entry, Still
<1>8. mark_cluster_in_fat => Still
  BY DEF mark_cluster_in_fat, Still
<1>9. UNCHANGED vars => Still
  BY DEF vars, Still
<1> QED
  BY <1>1, <1>2, <1>3, <1>4, <1>5, <1>6, <1>7, <1>8, <1>9, TurnTrack, SyncTrack, SyncReadTrack,
     SyncEndTrack
  DEF Next

LEMMA AlwaysTrack == Spec => []Track
  BY InitTrack, NextTrack, AlwaysSound, AlwaysSafe, AlwaysProgress, PTL DEF Spec

(* Reads, moves, failures and the removal of other files, in any order:    *)
(* while its file is whole, the cursor of a FILE is at the cluster its     *)
(* position is in, or was taken from words that were not read.             *)
THEOREM CursorFollowsPosition == Spec => []CursorOnChain
<1>1. Track => CursorOnChain
  BY DEF Track
<1> QED
  BY AlwaysTrack, <1>1, PTL


-----------------------------------------------------------------------------
(* What a read gives. The steps that matter to it; the rest is outside.    *)
Quiet == out' = <<>> /\ pc' \notin Reading

LEMMA ReadSteps ==
  ASSUME Sound, [Next]_vars
  PROVE  k_fread_turn \/ (\E n \in Requests : k_fread(n)) \/ k_fread_break \/ Quiet \/ UNCHANGED vars
<1>1. pc \notin Reading => out = <<>>
  BY DEF Sound, Shape
<1>2. (\E f \in Files : k_fopen(f)) \/ k_fclose => Quiet
  BY <1>1 DEF k_fopen, k_fclose, Quiet, reading, Reading
<1>3. k_fread_return \/ Reset => Quiet
  BY DEF k_fread_return, Reset, EndRead, Quiet, Reading
<1>4. ASSUME NEW p, move(p) PROVE Quiet
  BY <1>1, <1>4 DEF move, Quiet, reading, Reading
<1>5. sync_read \/ sync_step \/ sync_end => Quiet
  BY <1>1 DEF sync_read, sync_step, sync_end, Quiet, reading, Reading
<1>6. (\E f \in Files : k_remove(f)) \/ k_remove_entry => Quiet
  BY <1>1 DEF k_remove, k_remove_entry, Quiet, reading, Reading
<1>7. free_cluster_chain => Quiet
  BY <1>1 DEF free_cluster_chain, Quiet, reading, Reading
<1>8. mark_cluster_in_fat => Quiet
  BY <1>1, MarkWrites DEF Quiet, reading, Reading
<1> QED
  BY <1>2, <1>3, <1>4, <1>5, <1>6, <1>7, <1>8 DEF Next, fskip, fsetp

(* Once the card is lost, no byte is read from it.                         *)
LostReads == Lost => \A i \in DOMAIN out : out[i] = JunkByte

Reads == Course /\ ReadsItsFile /\ LostReads

LEMMA InitReads == Init => Reads
  BY DEF Init, Reads, Course, ReadsItsFile, LostReads

LEMMA QuietReads == ASSUME Quiet PROVE Reads'
  BY DEF Quiet, Reads, Course, ReadsItsFile, LostReads, Reading

LEMMA SameReads == ASSUME Reads, UNCHANGED vars PROVE Reads'
<1>1. /\ fat' = fat /\ fp' = fp /\ pc' = pc /\ total' = total /\ out' = out
      /\ start' = start /\ wanted' = wanted /\ failed' = failed /\ dir' = dir
  BY DEF vars, disk, reading
<1> QED
  BY <1>1 DEF Reads, Course, Intact, DueAt, ReadsItsFile, Whole, LostReads, Lost

LEMMA BreakReads == ASSUME Sound, Reads, k_fread_break PROVE Reads'
<1>1. /\ pc' = "fread_end" /\ fat' = fat /\ fp' = fp /\ out' = out /\ start' = start
      /\ dir' = dir /\ (failed => failed')
  BY Transferred DEF k_fread_break, Sound, disk, reading
<1> QED
  BY <1>1 DEF Reads, Course, ReadsItsFile, Whole, LostReads, Lost

LEMMA BeginReads == ASSUME Sound, NEW n \in Requests, k_fread(n) PROVE Reads'
<1>1. /\ fp # NULL /\ fp' = fp /\ out' = <<>> /\ start' = fp.fpos /\ wanted' = n
      /\ total' = total_to_read(n)
      /\ pc' = IF total' = 0 THEN "fread_end" ELSE "fread"
  BY DEF k_fread
<1>2. fp.fpos \in Nat /\ Len(<<>>) = 0
  BY <1>1 DEF Sound, TypeOK, FILE
<1>3. total' # 0 => ~fp.eof
  BY <1>1, TotalTyped
<1>4. ~fp.eof => total' = DueAt(start, wanted)'
  BY <1>1 DEF total_to_read, DueAt
<1>5. Course'
  BY <1>1, <1>2, <1>3, <1>4 DEF Course, DueAt
<1>6. ReadsItsFile' /\ LostReads'
  BY <1>1 DEF ReadsItsFile, LostReads
<1> QED
  BY <1>5, <1>6 DEF Reads

(* The bytes of a turn are those of the cursor's cluster, from its place.  *)
LEMMA TurnGives == ASSUME Sound, Progress, Track, Reads, k_fread_turn PROVE ReadsItsFile'
<1>1. /\ pc = "fread" /\ fat' = fat /\ start' = start /\ (failed => failed')
      /\ seek = NULL /\ fp # NULL /\ fp \in FILE /\ ~fp.eof /\ fp.current_cluster # EOC
      /\ fp.file \in Files /\ fp.current_cluster \in Reach(fp.file)
  <2>1. pc = "fread" /\ fat' = fat /\ start' = start /\ (failed => failed')
    BY TurnEnds DEF disk
  <2>2. seek = NULL /\ fp # NULL /\ ~fp.eof /\ fp.current_cluster # EOC
    BY <2>1 DEF Sound, Shape, Reading
  <2>3. fp \in FILE /\ fp.file \in Files
    BY <2>1, TurnReads DEF FILE
  <2> QED
    BY <2>1, <2>2, <2>3 DEF Track, OnChain
<1> DEFINE f == fp.file
           q == fp.fpos \div ClusterBytes
<1>2. fp'.file = f
  BY <1>1, TurnEnds DEF Inside, Crosses, FILE
<1>3. /\ Len(out) \in Nat /\ DOMAIN out' = 1..Len(out') /\ DOMAIN out = 1..Len(out)
      /\ Len(out') = Len(out) + can_read /\ can_read \in Nat
      /\ \A i \in 1..Len(out) : out'[i] = out[i]
      /\ \A i \in (Len(out) + 1)..Len(out') :
            out'[i] = place(i - Len(out)) \/ (out'[i] = JunkByte /\ failed')
  BY <1>1, TurnOut, TurnReads
<1> DEFINE Known == ~Lost /\ fp.current_cluster # JUNK
<1>K. ~Known => failed' /\ \A i : place(i) = JunkByte
  <2>1. fp.current_cluster = JUNK => fp.current_cluster > LastCluster
    BY Volume
  <2> QED
    BY <1>1, <2>1 DEF place, Byte, Progress, Track, Noticed
<1>P. ASSUME Known
      PROVE  \A i : place(i) = <<cluster_to_lba(fp.current_cluster), offset + i - 1>>
  <2>1. fp.current_cluster \in 0..LastCluster
    BY <1>1, <1>P, ReachIsCluster, Volume
  <2>2. ~(fp.current_cluster > LastCluster)
    BY <2>1, Volume
  <2> QED
    BY <1>P, <2>2 DEF place, Byte
<1>4. ASSUME Known
      PROVE  \/ cluster_to_lba(fp.current_cluster) = 0
             \/ /\ cluster_to_lba(fp.current_cluster) = fp.current_cluster
                /\ \E j \in DOMAIN Chain[f] : Chain[f][j] = fp.current_cluster
  BY <1>1, <1>4, ChainShape, Volume DEF Reach, Own, cluster_to_lba
<1>5. ASSUME NEW i \in (Len(out) + 1)..Len(out'), Known, out'[i] = place(i - Len(out)),
             Chain[f] # <<>>, Whole(f, 1)
      PROVE  out'[i] = Contents(f, start + i - 1)
  <2>1. q + 1 \in DOMAIN Chain[f] /\ fp.current_cluster = Chain[f][q + 1]
    BY <1>1, <1>5 DEF Track, CursorOnChain
  <2>2. start + Len(out) = fp.fpos
    BY <1>1, <1>5 DEF Reads, Course, Intact
  <2> DEFINE r == offset + (i - Len(out)) - 1
  <2>3. /\ fp.fpos = q * ClusterBytes + offset /\ q \in Nat
        /\ offset \in Nat /\ i \in Nat /\ r \in 0..(ClusterBytes - 1)
    <3>1. q \in Nat
      BY <1>1, Advance
    <3>2. /\ fp.fpos = q * ClusterBytes + offset
          /\ offset \in 0..(ClusterBytes - 1) /\ offset + can_read <= ClusterBytes
      BY <1>1, TurnReads
    <3> HIDE DEF q
    <3> QED
      BY <1>3, <3>1, <3>2, Volume
  <2>4. start \in Nat
    BY DEF Sound, TypeOK
  <2>5. out'[i] = <<cluster_to_lba(fp.current_cluster), r>>
    BY <1>5, <1>P
  <2>6. start + i - 1 = q * ClusterBytes + r /\ start + i - 1 \in Int
    <3>1. start + i - 1 = fp.fpos + (i - Len(out)) - 1
      BY <1>3, <2>2, <2>3, <2>4
    <3> DEFINE base == q * ClusterBytes
    <3>2. base \in Int
      BY <2>3, Volume
    <3> HIDE DEF base
    <3>3. fp.fpos = base + offset
      BY <2>3 DEF base
    <3>4. start + i - 1 = base + r /\ start + i - 1 \in Int
      BY <1>3, <2>3, <2>4, <3>1, <3>2, <3>3
    <3> QED
      BY <3>4 DEF base
  <2>7. cluster_to_lba(fp.current_cluster) = Chain[f][q + 1]
    BY <1>1, <2>1, ChainShape, Volume DEF cluster_to_lba
  <2> HIDE DEF r, q
  <2>8. (start + i - 1) \div ClusterBytes = q /\ (start + i - 1) % ClusterBytes = r
    <3>1. q \in Int
      BY <2>3
    <3> QED
      BY <2>3, <2>6, <3>1, Volume, Quotient
  <2> QED
    BY <2>5, <2>7, <2>8 DEF Contents
<1>6. ASSUME NEW i \in 1..Len(out')
      PROVE  \/ out'[i] = JunkByte /\ failed'
             \/ /\ out'[i][1] = 0 \/ \E j \in DOMAIN Chain[f] : Chain[f][j] = out'[i][1]
                /\ Whole(f, 1) /\ Chain[f] # <<>> => out'[i] = Contents(f, start + i - 1)
  <2>1. CASE i \in 1..Len(out)
    BY <1>1, <1>3, <2>1 DEF Reads, ReadsItsFile
  <2>2. CASE i \in (Len(out) + 1)..Len(out')
    <3>1. CASE out'[i] = JunkByte /\ failed'
      BY <3>1
    <3>2. CASE out'[i] = place(i - Len(out)) /\ Known
      <4>1. out'[i][1] = cluster_to_lba(fp.current_cluster)
        BY <1>P, <3>2
      <4> QED
        BY <1>4, <1>5, <2>2, <3>2, <4>1
    <3>3. CASE out'[i] = place(i - Len(out)) /\ ~Known
      BY <1>K, <3>3
    <3> QED
      BY <1>3, <2>2, <3>1, <3>2, <3>3
  <2> QED
    BY <1>3, <2>1, <2>2
<1> QED
  BY <1>1, <1>2, <1>3, <1>6 DEF ReadsItsFile, Whole

LEMMA TurnLost == ASSUME Sound, Reads, k_fread_turn PROVE LostReads'
<1> SUFFICES ASSUME Lost, NEW i \in DOMAIN out' PROVE out'[i] = JunkByte
  BY TurnEnds DEF LostReads, Lost, disk
<1>1. \A j : place(j) = JunkByte
  BY DEF place, Byte
<1>2. /\ out' \in Seq((0..EOC) \X Nat) /\ out \in Seq((0..EOC) \X Nat)
      /\ Len(out') = Len(out) + can_read /\ can_read \in Nat
      /\ \A j \in 1..Len(out) : out'[j] = out[j]
      /\ \A j \in (Len(out) + 1)..Len(out') :
            out'[j] = place(j - Len(out)) \/ (out'[j] = JunkByte /\ failed')
  BY TurnOut, TurnEnds, TurnReads
<1>3. /\ Len(out) \in Nat /\ Len(out') \in Nat
      /\ DOMAIN out' = 1..Len(out') /\ DOMAIN out = 1..Len(out)
  BY <1>2
<1>4. i \in 1..Len(out) \/ i \in (Len(out) + 1)..Len(out')
  BY <1>3
<1>5. i \in 1..Len(out) => out[i] = JunkByte
  BY <1>3 DEF Reads, LostReads
<1> QED
  BY <1>1, <1>2, <1>4, <1>5

(* What a turn of a read keeps.                                            *)
LEMMA TurnKeeps ==
  ASSUME Sound, Reads, k_fread_turn
  PROVE  /\ pc = "fread" /\ fat' = fat /\ dir' = dir
         /\ start' = start /\ total' = total /\ wanted' = wanted
         /\ seek = NULL /\ fp # NULL /\ fp \in FILE /\ ~fp.eof /\ fp.file \in Files
         /\ fp.current_cluster # EOC /\ fp.current_cluster \in 0..EOC
         /\ fp.fpos \in Nat /\ fp.size \in Nat
         /\ start \in Nat /\ wanted \in Nat /\ total \in Nat
         /\ Len(out) \in Nat /\ can_read \in Nat \ {0}
         /\ Len(out') = Len(out) + can_read /\ Len(out') <= total
         /\ fp'.file = fp.file /\ fp'.size = fp.size /\ fp'.fpos = fpos1
         /\ fp'.first_cluster = fp.first_cluster
         /\ Intact /\ fp.current_cluster # JUNK => start + Len(out) = fp.fpos
         /\ total = DueAt(start, wanted)
<1>1. /\ pc = "fread" /\ fat' = fat /\ dir' = dir
      /\ start' = start /\ total' = total /\ wanted' = wanted
  BY TurnEnds DEF disk
<1>2. seek = NULL /\ fp # NULL /\ ~fp.eof /\ fp.current_cluster # EOC
  BY <1>1 DEF Sound, Shape, Reading
<1>3. /\ fp \in FILE /\ fp.file \in Files /\ fp.fpos \in Nat /\ fp.size \in Nat
      /\ fp.current_cluster \in 0..EOC
  BY <1>1, TurnReads DEF FILE
<1>4. start \in Nat /\ wanted \in Nat
  BY <1>1 DEF Sound, TypeOK, Shape
<1>5. /\ Len(out') = Len(out) + can_read /\ Len(out) \in Nat /\ can_read \in Nat \ {0}
      /\ Len(out') <= total /\ total \in Nat
  BY <1>1, TurnReads, TurnOut
<1>6. /\ fp'.file = fp.file /\ fp'.size = fp.size /\ fp'.fpos = fpos1
      /\ fp'.first_cluster = fp.first_cluster
  BY <1>1, <1>3, TurnEnds DEF Inside, Crosses, FILE
<1>7. /\ Intact /\ fp.current_cluster # JUNK => start + Len(out) = fp.fpos
      /\ total = DueAt(start, wanted)
  BY <1>1 DEF Reads, Course
<1> QED
  BY <1>1, <1>2, <1>3, <1>4, <1>5, <1>6, <1>7

(* A read that crosses into no other cluster of a file that is whole ends  *)
(* where the room of the file does.                                        *)
LEMMA CrossesEnd ==
  ASSUME Sound, Track, Reads, k_fread_turn, NEW c, Crosses("done", c), c >= EOC,
         Whole(fp.file, 1), Chain[fp.file] # <<>>, fp.current_cluster # JUNK
  PROVE  start + Len(out') = Len(Chain[fp.file]) * ClusterBytes
<1> DEFINE f == fp.file
           q == fp.fpos \div ClusterBytes
<1>1. q + 1 = Len(Chain[f]) /\ fp.fpos + can_read = (q + 1) * ClusterBytes
  BY TurnKeeps, CrossesWhole DEF Outcomes
<1>2. start + Len(out) = fp.fpos
  BY TurnKeeps DEF Intact
<1>3. start + Len(out') = fp.fpos + can_read
  <2> HIDE DEF f, q
  <2> QED
    BY <1>2, TurnKeeps
<1> QED
  BY <1>1, <1>3

LEMMA TurnCourse == ASSUME Sound, Track, Reads, k_fread_turn PROVE Course'
<1> DEFINE f == fp.file
<1>1. ASSUME pc' = "fread", Intact', fp'.current_cluster # JUNK PROVE start + Len(out') = fpos1
  <2>1. Chain[f] # <<>> /\ Whole(f, 1)
    BY <1>1, TurnKeeps DEF Intact, Whole
  <2>2. CASE Inside
    <3>1. fp'.current_cluster = fp.current_cluster
      BY <2>2, TurnKeeps DEF Inside, FILE
    <3>2. fpos1 % ClusterBytes # 0 /\ offset + can_read <= ClusterBytes /\ offset + can_read \in Nat
      BY <2>2, TurnKeeps, TurnReads DEF Inside
    <3>3. fpos1 = fp.fpos + can_read
      BY <3>2, TurnKeeps, Advance, Volume
    <3> QED
      BY <1>1, <2>1, <3>1, <3>3, TurnKeeps DEF Intact
  <2>3. ASSUME NEW entry \in Outcomes, NEW c, Crosses(entry, c) PROVE start + Len(out') = fpos1
    <3>1. c \in 0..EOC
      BY <2>3, TurnKeeps, NextTyped DEF Crosses, Sound
    <3>2. fp'.current_cluster = c /\ ~(c >= EOC)
      BY <1>1, <2>3, <3>1, TurnKeeps, CrossesTo DEF Crosses
    <3>3. fp.current_cluster # JUNK
      BY <1>1, <2>3, <3>1, <3>2, NextOfJunk, Volume DEF Crosses
    <3>4. fpos1 = fp.fpos + can_read
      BY <1>1, <2>1, <2>3, <3>2, <3>3, TurnKeeps, CrossesWhole
    <3> QED
      BY <2>1, <3>3, <3>4, TurnKeeps DEF Intact
  <2> QED
    BY <2>2, <2>3, TurnEnds
<1> QED
  BY <1>1, TurnKeeps DEF Course, DueAt

LEMMA AlwaysReads == Spec => []Reads
<1>1. Sound /\ Progress /\ Track /\ Reads /\ [Next]_vars => Reads'
  BY ReadSteps, TurnGives, TurnCourse, TurnLost, BeginReads, BreakReads, QuietReads, SameReads DEF Reads
<1> QED
  BY <1>1, InitReads, AlwaysSound, AlwaysProgress, AlwaysTrack, PTL DEF Spec

(* Every byte a read gives is the file's own, the one that follows the     *)
(* bytes before it, as long as the file is whole; and never another        *)
(* file's, even when it is not. Only a byte of a sector that was not read, *)
(* or of a cluster whose number was not, is excepted, and there are none   *)
(* until something fails.                                                  *)
THEOREM ReadsGiveTheFile == Spec => []ReadsItsFile
<1>1. Reads => ReadsItsFile
  BY DEF Reads
<1> QED
  BY AlwaysReads, <1>1, PTL

-----------------------------------------------------------------------------
(* FileService. Until it ends, a read moves fpos by the bytes it has.      *)
Advanced ==
    pc = "fread" => wanted \in Requests /\ fp.fpos = (start + Len(out)) % Word

Whither == Sound /\ Safe /\ Progress /\ Track /\ Reads /\ Advanced

LEMMA Modulo ==
  ASSUME NEW i \in Int, NEW j \in Int
  PROVE  ((i % Word) + j) % Word = (i + j) % Word
<1>1. Word \in Nat \ {0}
  BY Volume
<1> DEFINE d == i \div Word
           k == (i + j) \div Word
           r == (i + j) % Word
<1>2. d \in Int /\ i % Word \in Int /\ i = d * Word + (i % Word)
  BY <1>1, Divided
<1>3. k \in Int /\ r \in 0..(Word - 1) /\ i + j = k * Word + r
  <2>1. i + j \in Int
    OBVIOUS
  <2> QED
    BY <1>1, <2>1, Divided
<1> HIDE DEF d, k, r
<1>4. (k - d) * Word = k * Word - d * Word
  BY <1>1, <1>2, <1>3
<1>5. (i % Word) + j = (k - d) * Word + r
  <2> DEFINE dw == d * Word
             kw == k * Word
             s == i % Word
  <2>1. dw \in Int /\ kw \in Int
    BY <1>1, <1>2, <1>3
  <2>2. s \in Int /\ i = dw + s /\ i + j = kw + r /\ (k - d) * Word = kw - dw
    BY <1>2, <1>3, <1>4
  <2> HIDE DEF dw, kw, s
  <2>3. s + j = (kw - dw) + r
    BY <1>3, <2>1, <2>2
  <2> QED
    BY <2>2, <2>3 DEF s
<1>6. (i % Word) + j \in Int /\ k - d \in Int
  BY <1>2, <1>3
<1> QED
  BY <1>1, <1>3, <1>5, <1>6, Quotient DEF r

LEMMA NoNull == ASSUME Sound PROVE fp # NULL => fp \in FILE /\ fp.file \in Files /\ fp.file # NULL
  BY VolumeAssumption DEF Sound, TypeOK, FILE

LEMMA TurnAdvances ==
  ASSUME Whither, k_fread_turn
  PROVE  fpos1 = (start + Len(out')) % Word
<1>1. /\ fp.fpos = (start + Len(out)) % Word
      /\ start + Len(out) \in Int /\ can_read \in Int
      /\ start + Len(out') = (start + Len(out)) + can_read
  BY TurnKeeps DEF Whither, Advanced
<1>2. fpos1 = ((start + Len(out)) + can_read) % Word
  BY <1>1, Modulo DEF fpos1
<1> QED
  BY <1>1, <1>2

LEMMA BeginAdvances == ASSUME Sound, NEW n \in Requests, k_fread(n) PROVE Advanced'
<1>1. fp' = fp /\ out' = <<>> /\ start' = fp.fpos /\ wanted' = n /\ fp # NULL
  BY DEF k_fread
<1>2. fp.fpos \in 0..(Word - 1) /\ Len(<<>>) = 0
  BY <1>1, NoNull DEF FILE
<1>3. fp.fpos = (fp.fpos + 0) % Word
  BY <1>2, Volume
<1> QED
  BY <1>1, <1>2, <1>3 DEF Advanced

LEMMA NextAdvanced == ASSUME Whither, [Next]_vars PROVE Advanced'
<1>1. CASE k_fread_turn
  BY <1>1, TurnAdvances, TurnKeeps DEF Whither, Advanced
<1>2. ASSUME NEW n \in Requests, k_fread(n) PROVE Advanced'
  BY <1>2, BeginAdvances DEF Whither
<1>3. CASE k_fread_break
  BY <1>3 DEF k_fread_break, Advanced
<1>4. CASE Quiet
  BY <1>4 DEF Quiet, Advanced, Reading
<1>5. CASE UNCHANGED vars
  BY <1>5 DEF vars, reading, Whither, Advanced
<1> QED
  BY <1>1, <1>2, <1>3, <1>4, <1>5, ReadSteps DEF Whither

(* Opening and closing.                                                    *)
LEMMA OpenServes == ASSUME Sound, NEW f \in Files, k_fopen(f) PROVE Service!Open(f)
<1>1. /\ fp = NULL /\ pc = "idle" /\ pc' = pc /\ dir' = dir /\ begun' = begun
      /\ name' = name /\ out' = out /\ failed \in BOOLEAN
      /\ fp' # NULL /\ fp'.file = f /\ fp'.fpos = 0 /\ fp'.eof = FALSE
  BY OpenedFile DEF k_fopen, disk, reading, removing, Sound, TypeOK
<1>2. \/ Sure' = TRUE /\ f \in dir /\ failed' = failed
      \/ Sure' = FALSE /\ failed' = TRUE
  <2>1. first_cluster(f) # JUNK
    BY ChainShape, Volume DEF first_cluster
  <2> QED
    BY <1>1, <2>1, OpenedFile DEF Sure
<1> QED
  BY <1>1, <1>2 DEF Service!Open, Service!card, Service!MayFail, Opened, Position, Over, State, Answer

LEMMA CloseServes == ASSUME Sound, k_fclose PROVE Service!Close
  BY NoNull DEF k_fclose, disk, reading, removing, Service!Close, Service!card, Opened, Sure,
                Position, Over, State, Answer

(* A read is done when its call is about to return.                        *)
Unharmed == fp.file \notin begun

LEMMA UnharmedWhole == ASSUME Sound, Safe, ~Lost, fp # NULL, Unharmed PROVE Whole(fp.file, 1)
  BY NoNull, Volume DEF Safe, OthersIntact, Unharmed

LEMMA DueTyped ==
  ASSUME Sound, fp # NULL, NEW p \in Nat, NEW n \in Requests
  PROVE  DueAt(p, n) \in Nat
<1>1. fp.size \in Nat /\ n \in Nat /\ Word \in Nat \ {0}
  BY NoNull, VolumeAssumption, Volume DEF FILE
<1>2. (fp.size - p) % Word \in 0..(Word - 1)
  <2>1. fp.size - p \in Int
    BY <1>1
  <2> QED
    BY <1>1, <2>1, Divided
<1> QED
  BY <1>1, <1>2 DEF DueAt

LEMMA ReadServes ==
  ASSUME Sound, Sound', Safe, Progress, Noticed, ReadsItsFile', LostReads', NEW n \in Requests,
         State = "idle", pc' = "fread_end", fp # NULL, fp' # NULL, fp'.file = fp.file,
         fp'.first_cluster = fp.first_cluster, start' = Position,
         fat' = fat, dir' = dir, begun' = begun, name' = name, failed => failed',
         fp.eof => fp'.eof /\ out' = <<>>,
         fp'.fpos = (Position + Len(out')) % Word,
         Len(out') <= DueAt(Position, n),
         ~failed' /\ ~fp.eof /\ Unharmed => Len(out') = DueAt(Position, n) \/ fp'.eof,
         fp'.eof /\ ~fp.eof =>
             failed' \/ ~Unharmed \/ Position + Len(out') >= Len(Chain[fp.file]) * ClusterBytes
  PROVE  Service!Read(n)
<1> DEFINE f == fp.file
<1>1. f \in Files /\ f # NULL /\ failed' \in BOOLEAN /\ (fp.first_cluster # JUNK => fp.size = Size[f])
  BY NoNull DEF Sound, Shape, TypeOK
<1>2. /\ Opened = f /\ Opened' = f /\ Over = fp.eof /\ Over' = fp'.eof /\ Position' = fp'.fpos
      /\ State' = "answered" /\ Answer' = out' /\ Room[f] = Len(Chain[f]) * ClusterBytes
      /\ Sure' = Sure /\ (Sure <=> fp.first_cluster # JUNK)
  BY <1>1 DEF Opened, Over, Position, State, Answer, Room, Sure
<1>3. Service!Right(out')
  <2> SUFFICES ASSUME NEW i \in DOMAIN out'
               PROVE  \/ out'[i] = JunkByte /\ failed'
                      \/ IF f \notin begun /\ Position + i - 1 < Room[f]
                         THEN out'[i] = Contents(f, Position + i - 1)
                         ELSE Stray(f, out'[i])
    BY <1>2 DEF Service!Right
  <2>0. CASE Lost
    BY <2>0 DEF LostReads, Lost, Progress
  <2>1. CASE out'[i] = JunkByte /\ failed'
    BY <2>1
  <2>2. CASE ~Lost /\ ~(out'[i] = JunkByte /\ failed')
    <3>1. /\ out'[i][1] = 0 \/ \E j \in DOMAIN Chain[f] : Chain[f][j] = out'[i][1]
          /\ Whole(f, 1) /\ Chain[f] # <<>> => out'[i] = Contents(f, Position + i - 1)
      BY <2>2 DEF ReadsItsFile, Whole
    <3>2. Stray(f, out'[i])
      BY <3>1 DEF Stray
    <3>3. ASSUME f \notin begun, Position + i - 1 < Room[f]
          PROVE  Whole(f, 1) /\ Chain[f] # <<>>
      <4>1. Whole(f, 1)
        BY <2>2, <3>3, UnharmedWhole DEF Unharmed
      <4>2. Position \in Nat /\ i \in Nat \ {0}
        <5>1. Position \in Nat
          BY NoNull DEF Position, Sound, TypeOK, FILE
        <5>2. out' \in Seq((0..EOC) \X Nat)
          BY DEF Sound, TypeOK
        <5> QED
          BY <5>1, <5>2
      <4>3. Room[f] > 0
        <5>1. Room[f] \in Int
          BY <1>1, <1>2, ChainShape, Volume
        <5> QED
          BY <3>3, <4>2, <5>1
      <4> QED
        BY <1>1, <1>2, <4>1, <4>3, ChainShape, Volume
    <3> QED
      BY <3>1, <3>2, <3>3
  <2> QED
    BY <2>0, <2>1, <2>2
<1>4. Service!Enough(n, out')
  <2>1. Sure => Service!Due(n) = DueAt(Position, n)
    BY <1>1, <1>2 DEF Service!Due, DueAt
  <2>2. ~failed' => Sure
    BY <1>2 DEF Noticed
  <2> QED
    BY <1>2, <2>1, <2>2 DEF Service!Enough, Unharmed
<1>5. Service!MayFail
  BY <1>1 DEF Service!MayFail, Sound, TypeOK
<1>6. Over' /\ ~Over => Service!MayEnd(Position + Len(out'))
  BY <1>2 DEF Service!MayEnd, Unharmed
<1> QED
  BY <1>1, <1>2, <1>3, <1>4, <1>5, <1>6 DEF Service!Read, Service!card

LEMMA BeginServes ==
  ASSUME Whither, Sound', Reads', NEW n \in Requests, k_fread(n)
  PROVE  Service!Read(n) \/ UNCHANGED Service!vars
<1>1. /\ pc = "idle" /\ fp # NULL /\ fp' = fp /\ dir' = dir /\ fat' = fat /\ begun' = begun
      /\ name' = name /\ failed' = failed /\ out' = <<>> /\ start' = fp.fpos /\ wanted' = n
      /\ pc' = "fread" \/ pc' = "fread_end"
  BY DEF k_fread, disk, removing
<1>2. Position = fp.fpos /\ State = "idle" /\ Answer = <<>>
  BY <1>1 DEF Position, State, Answer
<1>3. CASE pc' = "fread"
  <2>1. Position' = Position /\ State' = State /\ Answer' = Answer
    BY <1>1, <1>2, <1>3 DEF Position, State, Answer
  <2>2. Opened' = Opened /\ Over' = Over /\ Sure' = Sure
    BY <1>1 DEF Opened, Over, Sure
  <2> QED
    BY <1>1, <2>1, <2>2 DEF Service!vars
<1>4. CASE pc' = "fread_end"
  <2>1. fp.fpos \in 0..(Word - 1) /\ Len(<<>>) = 0
    BY <1>1, NoNull DEF Whither, FILE
  <2>2. fp'.fpos = (Position + Len(out')) % Word
    BY <1>1, <1>2, <2>1, Volume
  <2>3. DueAt(Position, n) \in Nat
    BY <1>1, <1>2, <2>1, DueTyped DEF Whither
  <2>4. Len(out') <= DueAt(Position, n)
    BY <1>1, <2>1, <2>3
  <2>5. ~fp.eof => Len(out') = DueAt(Position, n)
    <3>1. total_to_read(n) = 0
      BY <1>1, <1>4 DEF k_fread
    <3>2. ~fp.eof => total_to_read(n) = DueAt(Position, n)
      BY <1>2 DEF total_to_read, DueAt
    <3> QED
      BY <1>1, <2>1, <3>1, <3>2
  <2>6. ReadsItsFile' /\ LostReads' /\ Noticed
    BY DEF Reads, Whither, Track
  <2> QED
    BY <1>1, <1>2, <1>4, <2>2, <2>4, <2>5, <2>6, ReadServes DEF Whither
<1> QED
  BY <1>1, <1>3, <1>4

LEMMA BreakServes ==
  ASSUME Whither, Sound', Reads', k_fread_break
  PROVE  Service!Read(wanted)
<1>1. /\ pc = "fread" /\ pc' = "fread_end" /\ fp' = fp /\ dir' = dir /\ fat' = fat
      /\ begun' = begun /\ name' = name /\ out' = out /\ start' = start
      /\ (failed => failed') /\ failed'
  BY Transferred DEF k_fread_break, disk, reading, removing, Whither, Sound
<1>2. /\ fp # NULL /\ ~fp.eof /\ Len(out) < total /\ wanted \in Requests
      /\ fp.fpos = (start + Len(out)) % Word /\ total = DueAt(start, wanted)
  BY <1>1 DEF Whither, Advanced, Sound, Shape, Reading, Reads, Course
<1>3. Position = start /\ State = "idle"
  BY <1>1, <1>2 DEF Position, State
<1>4. Len(out') <= DueAt(Position, wanted)
  <2>1. Len(out) \in Nat /\ total \in Nat
    BY DEF Whither, Sound, TypeOK
  <2> QED
    BY <1>1, <1>2, <1>3, <2>1
<1>5. ReadsItsFile' /\ LostReads' /\ Noticed
  BY DEF Reads, Whither, Track
<1> QED
  BY <1>1, <1>2, <1>3, <1>4, <1>5, ReadServes DEF Whither

(* The end of a turn that leaves FALSE in failed.                          *)
LEMMA TurnEndsAt ==
  ASSUME Whither, k_fread_turn, fp'.eof, ~failed', Unharmed
  PROVE  start + Len(out') >= Len(Chain[fp.file]) * ClusterBytes
<1> DEFINE f == fp.file
           room == Len(Chain[f]) * ClusterBytes
<1>1. ~failed /\ ~Lost /\ fp.current_cluster # JUNK
  <2>1. ~failed /\ fp # NULL
    BY TurnEnds, TurnKeeps DEF Whither
  <2> QED
    BY <2>1 DEF Whither, Progress, Track, Noticed
<1>2. Whole(f, 1)
  BY <1>1, TurnKeeps, UnharmedWhole DEF Whither
<1>3. f \in Files /\ start \in Nat /\ Len(out') \in Nat
  BY TurnKeeps DEF Whither
<1>4. CASE Chain[f] = <<>>
  <2>1. room = 0
    BY <1>3, <1>4, ChainShape, Volume
  <2> HIDE DEF room
  <2> QED
    BY <1>3, <2>1 DEF room
<1>5. CASE Chain[f] # <<>>
  <2>1. ~Inside
    BY TurnKeeps DEF Inside, FILE, Whither
  <2> PICK entry \in Outcomes : \E c : Crosses(entry, c)
    BY <2>1, TurnEnds DEF Whither
  <2>2. PICK c : Crosses(entry, c)
    OBVIOUS
  <2>3. entry = "done"
    BY <2>2 DEF Crosses
  <2>4. c \in 0..EOC
    BY <2>2, TurnKeeps, NextTyped DEF Crosses, Whither, Sound
  <2>5. c >= EOC
    BY <2>2, <2>4, TurnKeeps, CrossesTo DEF Whither
  <2>6. start + Len(out') = room
    BY <1>1, <1>2, <1>5, <2>2, <2>3, <2>5, CrossesEnd DEF Whither
  <2>7. start + Len(out') \in Int
    BY <1>3
  <2> HIDE DEF room
  <2> QED
    BY <2>6, <2>7 DEF room
<1> QED
  BY <1>4, <1>5

LEMMA TurnServes ==
  ASSUME Whither, Sound', Reads', k_fread_turn
  PROVE  Service!vars' = Service!vars \/ Service!Fail \/ Service!Read(wanted)
<1> DEFINE f == fp.file
<1>1. /\ pc = "fread" /\ dir' = dir /\ fat' = fat /\ begun' = begun /\ name' = name
      /\ start' = start /\ failed' \in BOOLEAN /\ (failed => failed')
      /\ Inside \/ \E entry \in Outcomes : \E c : Crosses(entry, c)
  BY TurnEnds DEF disk, removing, Whither
<1>2. /\ fp # NULL /\ ~fp.eof /\ f \in Files /\ fp'.file = f /\ fp'.fpos = fpos1
      /\ fp'.first_cluster = fp.first_cluster
      /\ total = DueAt(start, wanted) /\ Len(out') <= total /\ wanted \in Requests
      /\ total \in Nat /\ Len(out') \in Nat
  BY <1>1, TurnKeeps DEF Whither, Advanced
<1>3. fp' # NULL /\ pc' \in {"fread", "fread_end"}
  <2>1. pc' \in {"fread", "fread_end"}
    BY <1>1 DEF Inside, Crosses, Turns
  <2> QED
    BY <2>1 DEF Sound, Shape, Reading
<1>4. /\ Position = start /\ State = "idle" /\ Answer = <<>> /\ Over = FALSE /\ Opened = f
      /\ Sure' = Sure
  <2>1. fp.eof = FALSE
    BY <1>2, TurnKeeps DEF FILE, Whither
  <2> QED
    BY <1>1, <1>2, <1>3, <2>1 DEF Position, State, Answer, Over, Opened, Sure
<1>5. fp'.fpos = (Position + Len(out')) % Word
  BY <1>2, <1>4, TurnAdvances
<1>6. CASE pc' = "fread"
  <2>1. fp'.eof = FALSE
    <3>1. ~fp'.eof
      BY <1>6 DEF Sound, Shape
    <3>2. fp' \in FILE
      BY <1>3 DEF Sound, TypeOK
    <3>3. fp'.eof \in BOOLEAN
      BY <3>2 DEF FILE
    <3> QED
      BY <3>1, <3>3
  <2>2. Opened' = f /\ Over' = FALSE /\ Position' = start /\ State' = "idle" /\ Answer' = <<>>
    BY <1>1, <1>2, <1>3, <1>6, <2>1 DEF Position, State, Answer, Over, Opened
  <2>3. CASE failed' = failed
    BY <1>1, <1>4, <2>2, <2>3 DEF Service!vars
  <2>4. CASE failed' # failed
    <3>1. failed' = TRUE
      BY <1>1, <2>4 DEF Whither, Sound, TypeOK
    <3> QED
      BY <1>1, <1>4, <2>2, <3>1 DEF Service!Fail, Service!MayFail, Service!opened
  <2> QED
    BY <2>3, <2>4
<1>7. CASE pc' = "fread_end"
  <2>1. fp'.eof \/ Len(out') = DueAt(Position, wanted)
    <3>1. CASE pc' = Turns(Len(out'))
      <4>1. ~(Len(out') < total)
        BY <1>7, <3>1 DEF Turns
      <4> QED
        BY <1>2, <1>4, <4>1
    <3>2. ASSUME NEW entry \in Outcomes, NEW c, Crosses(entry, c), c >= EOC
          PROVE  fp'.eof
      <4>1. c \in 0..EOC
        BY <3>2, TurnKeeps, NextTyped DEF Crosses, Whither, Sound
      <4> QED
        BY <1>1, <3>2, <4>1, CrossesTo DEF Whither
    <3> QED
      BY <1>1, <3>1, <3>2 DEF Inside, Crosses
  <2>2. ~failed' /\ ~fp.eof /\ Unharmed => Len(out') = DueAt(Position, wanted) \/ fp'.eof
    BY <2>1
  <2>3. fp'.eof /\ ~fp.eof =>
           failed' \/ ~Unharmed \/ Position + Len(out') >= Len(Chain[fp.file]) * ClusterBytes
    BY <1>4, TurnEndsAt
  <2>4. ReadsItsFile' /\ LostReads' /\ Noticed
    BY DEF Reads, Whither, Track
  <2> QED
    BY <1>1, <1>2, <1>3, <1>4, <1>5, <1>7, <2>2, <2>3, <2>4, ReadServes DEF Whither
<1> QED
  BY <1>3, <1>6, <1>7

LEMMA ReturnServes == ASSUME Sound, k_fread_return PROVE Service!Return
<1>1. /\ pc = "fread_end" /\ pc' = "idle" /\ fp' = fp /\ dir' = dir /\ begun' = begun
      /\ name' = name /\ failed' = failed
  BY DEF k_fread_return, disk, removing
<1> QED
  BY <1>1 DEF Service!Return, Service!card, Service!opened, Opened, Sure, Position, Over, State,
              Answer

(* Moves: fpos at once, the cursor and eof on the way.                     *)
LEMMA MoveServes ==
  ASSUME Sound, NEW p \in 0..(Word - 1), move(p)
  PROVE  Service!Move(p) /\ Position = fp.fpos
<1>1. /\ pc = "idle" /\ pc' = pc /\ fp # NULL /\ fp' = [fp EXCEPT !.fpos = p] /\ dir' = dir
      /\ begun' = begun /\ name' = name /\ failed' = failed /\ out' = out
  BY DEF move, disk, reading, removing
<1>2. /\ fp \in FILE /\ fp' \in FILE /\ fp'.file = fp.file /\ fp'.eof = fp.eof /\ fp'.fpos = p
      /\ fp.file # NULL /\ fp'.first_cluster = fp.first_cluster
  BY <1>1, NoNull DEF FILE
<1>3. fp' # NULL
  BY <1>2, NullAssumption
<1> QED
  BY <1>1, <1>2, <1>3 DEF Service!Move, Service!card, Opened, Sure, Position, Over, State, Answer

LEMMA SyncReadServes == ASSUME Sound, sync_read PROVE UNCHANGED Service!vars
  BY DEF sync_read, disk, reading, removing, Service!vars, Opened, Sure, Position, Over, State,
         Answer

(* A step of the walk that ends it while nothing has failed.               *)
LEMMA WalkEndsAt ==
  ASSUME Whither, sync_step, fp'.eof, ~fp.eof, ~failed', Unharmed
  PROVE  fp.fpos >= Len(Chain[fp.file]) * ClusterBytes
<1> DEFINE f == fp.file
           room == Len(Chain[f]) * ClusterBytes
<1>1. /\ seek # NULL /\ seek.target \in 0..EOC /\ seek.steps \in Nat \ {0}
      /\ fp # NULL /\ f \in Files /\ fp.fpos \in Nat /\ ~failed
  BY WalkStep DEF Whither
<1> PICK r \in Outcomes : \E c \in 0..EOC :
        Walks(r, c) /\ (r # "done" => failed') /\ fp'.eof = (fp.eof \/ c >= EOC)
  BY WalkStep DEF Whither
<1>2. PICK c \in 0..EOC : Walks(r, c) /\ r = "done" /\ c >= EOC
  OBVIOUS
<1>3. ~Lost /\ seek.target # JUNK
  BY <1>1 DEF Whither, Progress, Track, Noticed
<1>4. Whole(f, 1)
  BY <1>1, <1>3, UnharmedWhole DEF Whither
<1>5. CASE Chain[f] = <<>>
  <2>1. room = 0
    BY <1>1, <1>5, ChainShape, Volume
  <2> QED
    BY <1>1, <2>1
<1>6. CASE Chain[f] # <<>>
  <2>1. Done + 1 \in DOMAIN Chain[f] /\ seek.target = Chain[f][Done + 1]
    BY <1>1, <1>3, <1>4, <1>6 DEF Whither, Track, SeekOnChain, Intact
  <2>2. Done + 1 = Len(Chain[f])
    BY <1>1, <1>2, <1>4, <2>1, NextOnChain DEF Walks
  <2>3. Index \in Nat /\ fp.fpos >= Index * ClusterBytes
    <3>1. fp.fpos \in Nat /\ ClusterBytes \in Nat \ {0}
      BY <1>1, Volume
    <3> QED
      BY <3>1, StartOfCluster DEF Index
  <2>4. Index >= Len(Chain[f]) /\ Len(Chain[f]) \in Nat
    BY <1>1, <2>2, <2>3, ChainShape DEF Done
  <2>5. Index * ClusterBytes >= room
    <3> HIDE DEF f
    <3> QED
      BY <2>3, <2>4, Volume
  <2>6. Index * ClusterBytes \in Int /\ room \in Int
    BY <2>3, <2>4, Volume
  <2> HIDE DEF room
  <2>7. fp.fpos >= room
    BY <1>1, <2>3, <2>5, <2>6
  <2> QED
    BY <2>7 DEF room
<1> QED
  BY <1>5, <1>6

LEMMA SyncServes ==
  ASSUME Whither, sync_step
  PROVE  UNCHANGED Service!vars \/ Service!Fail \/ Service!Lose
<1> DEFINE f == fp.file
<1>1. /\ pc = "idle" /\ pc' = pc /\ fp \in FILE /\ fp # NULL /\ fp' \in FILE /\ fp' # NULL
      /\ fp'.file = f /\ fp'.fpos = fp.fpos /\ fp'.first_cluster = fp.first_cluster
      /\ f \in Files /\ f # NULL /\ failed' \in BOOLEAN /\ (failed => failed')
      /\ dir' = dir /\ begun' = begun /\ name' = name /\ out' = out
  BY WalkStep, NoNull DEF Whither, disk, reading, removing
<1>2. fp.eof \in BOOLEAN /\ fp'.eof \in BOOLEAN /\ (fp.eof => fp'.eof)
  <2>1. fp.eof \in BOOLEAN /\ fp'.eof \in BOOLEAN
    BY <1>1 DEF FILE
  <2>2. \E c \in 0..EOC : fp'.eof = (fp.eof \/ c >= EOC)
    BY WalkStep DEF Whither
  <2> QED
    BY <2>1, <2>2
<1>3. /\ Opened = f /\ Opened' = f /\ Position = fp.fpos /\ Position' = fp.fpos
      /\ Over = fp.eof /\ Over' = fp'.eof /\ State = "idle" /\ State' = "idle"
      /\ Answer = <<>> /\ Answer' = <<>> /\ Sure' = Sure
  BY <1>1 DEF Opened, Position, Over, State, Answer, Sure
<1>4. Service!MayFail
  BY <1>1 DEF Service!MayFail, Whither, Sound, TypeOK
<1>5. CASE ~fp.eof /\ fp'.eof
  <2>1. Service!MayEnd(Position)
    BY <1>1, <1>3, <1>5, WalkEndsAt DEF Service!MayEnd, Room, Unharmed
  <2> QED
    BY <1>1, <1>3, <1>4, <1>5, <2>1 DEF Service!Lose, Service!card
<1>6. CASE fp'.eof = fp.eof /\ failed' = failed
  BY <1>1, <1>3, <1>6 DEF Service!vars
<1>7. CASE fp'.eof = fp.eof /\ failed' # failed
  <2>1. failed' = TRUE
    BY <1>1, <1>7 DEF Whither, Sound, TypeOK
  <2> QED
    BY <1>1, <1>3, <1>4, <1>7, <2>1 DEF Service!Fail, Service!opened
<1> QED
  BY <1>2, <1>5, <1>6, <1>7

LEMMA SyncEndServes == ASSUME Sound, sync_end PROVE UNCHANGED Service!vars
<1>1. /\ pc = "idle" /\ pc' = pc /\ seek \in Walk /\ fp \in FILE /\ fp # NULL
      /\ dir' = dir /\ begun' = begun /\ name' = name /\ failed' = failed /\ out' = out
      /\ fp' = [fp EXCEPT !.current_cluster = seek.target,
                          !.current_cluster_index = fp.fpos \div ClusterBytes]
  BY DEF sync_end, Sound, TypeOK, Shape, disk, reading, removing
<1>2. /\ fp'.file = fp.file /\ fp'.fpos = fp.fpos /\ fp'.eof = fp.eof
      /\ fp'.first_cluster = fp.first_cluster
  BY <1>1 DEF FILE
<1>3. fp' # NULL
  <2>1. fp.fpos \div ClusterBytes \in 0..LastIndex /\ seek.target \in 0..EOC
    <3>1. fp.fpos \in 0..(Word - 1)
      BY <1>1 DEF FILE
    <3> QED
      BY <1>1, <3>1, IndexTyped DEF Walk
  <2>2. fp' \in FILE
    BY <1>1, <2>1 DEF FILE
  <2> QED
    BY <2>2, NullAssumption
<1> QED
  BY <1>1, <1>2, <1>3 DEF Service!vars, Opened, Sure, Position, Over, State, Answer

(* Removals and resets.                                                    *)
LEMMA RemoveServes == ASSUME Sound, NEW f \in Files, k_remove(f) PROVE Service!Remove(f)
<1>1. /\ pc = "idle" /\ pc' = "chain" /\ dir' = dir /\ fp' = fp /\ name' = f
      /\ begun' = begun \cup {f} /\ failed \in BOOLEAN
      /\ (f \in dir /\ Transfer("done")) \/ Transfer("short")
  BY DEF k_remove, disk, Sound, TypeOK
<1>2. Service!MayFail /\ (f \in dir \/ failed')
  BY <1>1 DEF Transfer, Service!MayFail
<1> QED
  BY <1>1, <1>2 DEF Service!Remove, Service!opened, Opened, Sure, Position, Over, State, Answer

(* On the way along the FAT only the failures show.                        *)
LEMMA FreeingServes ==
  ASSUME Sound, free_cluster_chain \/ mark_cluster_in_fat
  PROVE  UNCHANGED Service!vars \/ Service!Fail
<1>1. /\ pc \in {"chain", "mark"} /\ pc' \in Removing /\ fp' = fp
      /\ name' = name /\ begun' = begun /\ failed' \in BOOLEAN /\ (failed => failed')
      /\ dir' = dir \/ (dir' = {NULL} /\ failed')
  <2>1. CASE free_cluster_chain
    BY <2>1, ChainSteps DEF Removing, disk
  <2>2. CASE mark_cluster_in_fat
    BY <2>2, MarkWrites, AstrayTyped DEF Removing
  <2> QED
    BY <2>1, <2>2
<1>2. /\ Opened' = Opened /\ Over' = Over /\ Position' = Position /\ State' = State
      /\ Answer' = Answer /\ Sure' = Sure /\ State = "removing"
  BY <1>1 DEF Opened, Sure, Over, Position, State, Answer, Removing
<1>3. failed \in BOOLEAN
  BY DEF Sound, TypeOK
<1>4. CASE failed' = failed /\ dir' = dir
  BY <1>1, <1>2, <1>4 DEF Service!vars
<1>5. CASE failed' = TRUE
  BY <1>1, <1>2, <1>5 DEF Service!Fail, Service!MayFail, Service!Damage, Service!opened
<1> QED
  BY <1>1, <1>3, <1>4, <1>5

LEMMA EntryServes == ASSUME Sound, k_remove_entry PROVE Service!Removed
<1>1. /\ pc = "entry" /\ pc' = "idle" /\ name' = NULL /\ fp' = fp /\ begun' = begun
      /\ failed' \in BOOLEAN /\ (failed => failed') /\ failed \in BOOLEAN
      /\ dir' = dir \ {name} \/ (failed' /\ dir' \in {dir, {NULL}})
  BY EntryWrites, AstrayTyped DEF Sound, TypeOK
<1>2. /\ Opened' = Opened /\ Over' = Over /\ Position' = Position /\ State = "removing"
      /\ State' = "idle" /\ Answer' = Answer /\ Sure' = Sure
  BY <1>1 DEF Opened, Sure, Over, Position, State, Answer
<1>3. Service!MayFail
  BY <1>1 DEF Service!MayFail
<1> QED
  BY <1>1, <1>2, <1>3 DEF Service!Removed, Service!opened, Service!Damage

LEMMA ResetServes == Reset => Service!Reset
  BY DEF Reset, EndRead, EndRemove, Transfer, disk, Service!Reset, Opened, Sure, Position, Over,
         State, Answer

LEMMA StutterServes == UNCHANGED vars => UNCHANGED Service!vars
  BY DEF vars, disk, reading, removing, Service!vars, Opened, Sure, Position, Over, State, Answer

LEMMA StepServes ==
  ASSUME Whither, Sound', Reads', [Next]_vars
  PROVE  [Service!Next]_(Service!vars)
<1>1. ASSUME NEW f \in Files, k_fopen(f) PROVE Service!Next
  BY <1>1, OpenServes DEF Whither, Service!Next
<1>2. CASE k_fclose
  BY <1>2, CloseServes DEF Whither, Service!Next
<1>3. ASSUME NEW n \in Requests, k_fread(n) PROVE [Service!Next]_(Service!vars)
  BY <1>3, BeginServes DEF Service!Next
<1>4. CASE k_fread_turn
  <2>1. wanted \in Requests
    BY <1>4, TurnEnds DEF Whither, Advanced
  <2> QED
    BY <1>4, <2>1, TurnServes DEF Service!Next
<1>5. CASE k_fread_break
  <2>1. wanted \in Requests
    BY <1>5 DEF k_fread_break, Whither, Advanced
  <2> QED
    BY <1>5, <2>1, BreakServes DEF Service!Next
<1>6. CASE k_fread_return
  BY <1>6, ReturnServes DEF Whither, Service!Next
<1>7. ASSUME NEW s \in Skips, fskip(s) PROVE Service!Next
  <2>1. (fp.fpos + s) % Word \in 0..(Word - 1)
    <3>1. fp.fpos + s \in Int
      BY <1>7, NoNull, VolumeAssumption DEF fskip, move, Whither, FILE
    <3> QED
      BY <3>1, Volume, Divided
  <2>2. Service!Move((Position + s) % Word)
    BY <1>7, <2>1, MoveServes DEF Whither, fskip
  <2> QED
    BY <2>2 DEF Service!Next
<1>8. ASSUME NEW p \in Positions, fsetp(p) PROVE Service!Next
  <2>1. p \in 0..(Word - 1)
    BY VolumeAssumption
  <2>2. Service!Move(p)
    BY <1>8, <2>1, MoveServes DEF Whither, fsetp
  <2> QED
    BY <2>2 DEF Service!Next
<1>9. CASE sync_step
  BY <1>9, SyncServes DEF Service!Next
<1>10. CASE sync_end
  BY <1>10, SyncEndServes DEF Whither
<1>11. ASSUME NEW f \in Files, k_remove(f) PROVE Service!Next
  BY <1>11, RemoveServes DEF Whither, Service!Next
<1>12. CASE free_cluster_chain \/ mark_cluster_in_fat
  BY <1>12, FreeingServes DEF Whither, Service!Next
<1>13. CASE k_remove_entry
  BY <1>13, EntryServes DEF Whither, Service!Next
<1>14. CASE Reset
  BY <1>14, ResetServes DEF Service!Next
<1>15. CASE UNCHANGED vars
  BY <1>15, StutterServes
<1>16. CASE sync_read
  BY <1>16, SyncReadServes DEF Whither
<1> QED
  BY <1>1, <1>2, <1>3, <1>4, <1>5, <1>6, <1>7, <1>8, <1>9, <1>10, <1>11, <1>12, <1>13, <1>14,
     <1>15, <1>16 DEF Next

LEMMA AlwaysWhither == Spec => []Whither
<1>1. Init => Advanced
  BY DEF Init, Advanced
<1>2. Sound /\ Safe /\ Progress /\ Track /\ Reads /\ Advanced /\ [Next]_vars => Advanced'
  BY NextAdvanced DEF Whither
<1>3. Spec => []Advanced
  BY <1>1, <1>2, AlwaysSound, AlwaysSafe, AlwaysProgress, AlwaysTrack, AlwaysReads,
     PTL DEF Spec
<1>4. Sound /\ Safe /\ Progress /\ Track /\ Reads /\ Advanced => Whither
  BY DEF Whither
<1> QED
  BY <1>3, <1>4, AlwaysSound, AlwaysSafe, AlwaysProgress, AlwaysTrack, AlwaysReads,
     PTL

(* FileSystem implements FileService, for every card, whatever fails: what *)
(* a task can see of a read or a removal is one step. What FileService does*)
(* not promise once something has failed is said there: bytes that were    *)
(* not read, and a card written over with words that were not.             *)
THEOREM FileSystemServes == Spec => ImplementsService
<1>1. Init => Service!Init
  BY DEF Init, Service!Init, Opened, Sure, Position, Over, State, Answer
<1>2. Whither /\ Whither' /\ [Next]_vars => [Service!Next]_(Service!vars)
  BY StepServes DEF Whither
<1> QED
  BY <1>1, <1>2, AlwaysWhither, PTL DEF Spec, ImplementsService, Service!Spec
=============================================================================
