----------------------------- MODULE FileSystem -----------------------------
(***************************************************************************)
(* The FAT32 file system (core/filesystem.c): opening, reading, moving in, *)
(* closing and removing files, on a card whose transfers may fail, openly  *)
(* (-1) or not, and in a machine that may be reset between any two of them.*)
(*                                                                         *)
(* Two tasks use it: one has a file open, any other may remove files. A    *)
(* system call runs with IRQs masked, so the other task runs between two   *)
(* calls; fskip() and fsetp() are plain user code, so it also runs between *)
(* two steps of their walk along the FAT, and in the middle of a transfer. *)
(* Nothing in the kernel allocates clusters: the files are those the card  *)
(* came with.                                                              *)
(***************************************************************************)
EXTENDS Integers, Sequences, FiniteSets

CONSTANTS
    NULL,
    Files,         \* files in the root directory of the card
    Chain,         \* the clusters of each, in order
    Size,          \* the bytes of each
    LastCluster,   \* clusters are numbered 2..LastCluster
    fat_count,     \* copies of the FAT
    SectorBytes,   \* 512 in the code
    ClusterBytes,  \* sectors_per_cluster * SectorBytes
    Word,          \* 2^32 in the code: fpos wraps here
    Requests,      \* bytes asked of fread()
    Skips,         \* arguments of fskip()
    Positions,     \* arguments of fsetp()
    Sizes          \* what an entry of the directory that was not read may show

Clusters == 2..LastCluster
JUNK == LastCluster + 1     \* a number nobody knows: any cluster, or past the card
EOC == LastCluster + 2      \* end of chain: 0x0FFFFFF8 and above
Unknown == {JUNK, EOC}
Copies == 1..fat_count
Lesser(a, b) == IF a <= b THEN a ELSE b
LastIndex == Word \div ClusterBytes   \* past the cluster of any position

ASSUME VolumeAssumption ==
    /\ NULL \notin Files
    /\ LastCluster \in Nat \ {0} /\ fat_count \in Nat \ {0}
    /\ SectorBytes \in Nat \ {0} /\ ClusterBytes \in Nat \ {0} /\ Word \in Nat \ {0}
    /\ ClusterBytes % SectorBytes = 0 /\ Word % ClusterBytes = 0
    /\ Requests \cup Skips \cup Positions \cup Sizes \subseteq 0..(Word - 1)
ASSUME ChainAssumption ==
    \A f \in Files :
        /\ Chain[f] \in Seq(Clusters)
        /\ Size[f] \in 0..(Len(Chain[f]) * ClusterBytes) /\ Size[f] < Word
        /\ Len(Chain[f]) * ClusterBytes <= Word
        /\ \A g \in Files : \A i \in DOMAIN Chain[f], j \in DOMAIN Chain[g] :
              Chain[f][i] = Chain[g][j] => f = g /\ i = j

(* The values of a FILE and of the walk of sync_file_cluster().            *)
FILE == [file : Files, size : Nat, first_cluster : 0..EOC, current_cluster : 0..EOC,
         current_cluster_index : 0..LastIndex, fpos : 0..(Word - 1), eof : BOOLEAN]
Walk == [target : 0..EOC, steps : Nat, polling : BOOLEAN]

ASSUME NullAssumption == NULL \notin FILE /\ NULL \notin Walk

VARIABLES
    fat,        \* the copies of the FAT
    dir,        \* files the root directory lists; {NULL} once the card is Lost
    fp,         \* the open FILE; its `file` is not in the code
    seek,       \* the walk of sync_file_cluster(), or NULL
    pc,         \* where the system call that runs has got to
    total, out,                          \* of k_fread()
    name, dir_buffer, current, next, copy,  \* of k_remove()
    start, wanted,   \* not in the code: where the k_fread() began, what it was asked
    begun, failed    \* nor these: files whose removal began; whether anything failed

disk == <<fat, dir>>
reading == <<total, out, start, wanted>>
removing == <<name, dir_buffer, current, next, copy, begun>>
vars == <<disk, fp, seek, pc, reading, removing, failed>>

first_cluster(f) == IF Chain[f] = <<>> THEN 0 ELSE Chain[f][1]

(* The entry of cluster c while its file f is whole.                       *)
Link(f, i) == IF i = Len(Chain[f]) THEN EOC ELSE Chain[f][i + 1]
Allocated(c) == \E f \in Files : \E i \in DOMAIN Chain[f] : Chain[f][i] = c
FreshEntry(c) ==
    IF c < 2 THEN EOC
    ELSE IF ~Allocated(c) THEN 0
    ELSE CHOOSE e \in Clusters \cup {EOC} :
            \E f \in Files : \E i \in DOMAIN Chain[f] :
                Chain[f][i] = c /\ e = Link(f, i)

Init ==
    /\ fat = [k \in Copies |-> [c \in 0..LastCluster |-> FreshEntry(c)]]
    /\ dir = Files
    /\ fp = NULL
    /\ seek = NULL
    /\ pc = "idle"
    /\ total = 0 /\ out = <<>> /\ start = 0 /\ wanted = 0
    /\ name = NULL /\ dir_buffer = {} /\ current = 0 /\ next = 0 /\ copy = 0
    /\ begun = {}
    /\ failed = FALSE

(* A call's variables once it is over.                                     *)
EndRead == total' = 0 /\ out' = <<>> /\ start' = 0 /\ wanted' = 0
EndRemove == name' = NULL /\ dir_buffer' = {} /\ current' = 0 /\ next' = 0 /\ copy' = 0

-----------------------------------------------------------------------------
(* What a read that is not done leaves is not known. It fails (-1), or it  *)
(* is short: after a million turns, or when another task has used the card *)
(* meanwhile, it returns 0, and the rest of its buffer is what was in      *)
(* memory before (sd.c:106, 117). A write that is not done may or may not  *)
(* reach the card; a short one returned 0 (sd.c:164-168).                  *)
Outcomes == {"done", "failed", "short"}
k_sd_write_sector(old, new, w) == IF w = "done" THEN {new} ELSE {old, new}
Transfer(r) == failed' = (failed \/ r # "done")

(* The card is Lost once words that were not read are written to it. They  *)
(* go over the other entries of one sector, or to a sector nobody knows;   *)
(* of what the whole card holds, nothing is said from then on.             *)
Lost == NULL \in dir
Astray ==
    /\ fat' = [k \in Copies |-> [c \in 0..LastCluster |-> JUNK]]
    /\ dir' = {NULL}

(* The byte at `offset` of a cluster, by its place on the card, if anybody *)
(* knows it; a cluster below 2 has the FAT's sectors.                      *)
cluster_to_lba(cluster) == IF cluster < 2 THEN 0 ELSE cluster
JunkByte == <<JUNK, 0>>
Byte(cluster, offset) ==
    IF Lost \/ cluster > LastCluster THEN JunkByte ELSE <<cluster_to_lba(cluster), offset>>

(* The entry of a cluster, and what get_next_cluster() makes of it. The    *)
(* operators named X_... are mistakes one could make in X: PROJECT.json    *)
(* names the property that notices each.                                   *)
Entry(c) == IF c > LastCluster \/ fat[1][c] = JUNK THEN Unknown ELSE {fat[1][c]}

get_next_cluster_Contiguous(c, r) == IF r = "done" THEN {Lesser(c + 1, EOC)} ELSE {EOC}

get_next_cluster(c, r) ==
    CASE r = "done"   -> Entry(c)
      [] r = "failed" -> {EOC}
      [] r = "short"  -> Unknown

-----------------------------------------------------------------------------
(* k_fopen(): when the sector of the directory is not read, or does not    *)
(* list f, nothing changes; when it is short or lost, f may be found in    *)
(* what memory held, with any cluster and size.                            *)
Handle(f, cluster, size) ==
    [file |-> f, size |-> size, first_cluster |-> cluster,
     current_cluster |-> cluster, current_cluster_index |-> 0,
     fpos |-> 0, eof |-> FALSE]

k_fopen(f) ==
    /\ pc = "idle" /\ fp = NULL
    /\ \/ f \in dir /\ fp' = Handle(f, first_cluster(f), Size[f]) /\ Transfer("done")
       \/ (\E size \in Sizes : fp' = Handle(f, JUNK, size)) /\ Transfer("short")
    /\ UNCHANGED <<disk, seek, pc, reading, removing>>

k_fclose ==
    /\ pc = "idle" /\ fp # NULL /\ seek = NULL
    /\ fp' = NULL
    /\ UNCHANGED <<disk, seek, pc, reading, removing, failed>>

(* k_fread(ptr, 1, n, fp): the bytes to read, ...                          *)
total_to_read_Signed(n) ==
    IF fp.eof THEN 0
    ELSE IF (fp.fpos + n) % Word > fp.size THEN fp.size - fp.fpos
    ELSE n

total_to_read(n) ==
    IF fp.eof THEN 0
    ELSE IF (fp.fpos + n) % Word > fp.size THEN (fp.size - fp.fpos) % Word
    ELSE n

k_fread(n) ==
    /\ pc = "idle" /\ fp # NULL /\ seek = NULL
    /\ total' = total_to_read(n)
    /\ pc' = IF total' = 0 THEN "fread_end" ELSE "fread"
    /\ out' = <<>>
    /\ start' = fp.fpos
    /\ wanted' = n
    /\ UNCHANGED <<disk, fp, seek, removing, failed>>

(* ... one turn of its loop, a sector or part of it (an index that is past *)
(* every position need not count further), ...                             *)
Turns(read) == IF read < total THEN "fread" ELSE "fread_end"

k_fread_turn ==
    LET offset == fp.fpos % ClusterBytes
        left == SectorBytes - (offset % SectorBytes)
        can_read == Lesser(left, total - Len(out))
        fpos == (fp.fpos + can_read) % Word
        cluster == fp.current_cluster
    IN  /\ pc = "fread"
        /\ \E sector \in {"done", "short"}, entry \in Outcomes :
              /\ out' = out \o [i \in 1..can_read |-> IF sector = "done"
                                                     THEN Byte(cluster, offset + i - 1)
                                                     ELSE JunkByte]
              /\ IF fpos % ClusterBytes = 0
                 THEN \E c \in get_next_cluster(cluster, entry) :
                         /\ fp' = [fp EXCEPT !.fpos = fpos, !.current_cluster = c,
                                             !.current_cluster_index = Lesser(@ + 1, LastIndex),
                                             !.eof = c >= EOC]
                         /\ pc' = IF c >= EOC THEN "fread_end" ELSE Turns(Len(out'))
                         /\ Transfer(IF sector = "done" THEN entry ELSE sector)
                 ELSE /\ fp' = [fp EXCEPT !.fpos = fpos]
                      /\ pc' = Turns(Len(out'))
                      /\ Transfer(sector)
        /\ UNCHANGED <<disk, seek, total, start, wanted, removing>>

(* ... a sector that could not be read, ...                                *)
k_fread_break ==
    /\ pc = "fread"
    /\ pc' = "fread_end"
    /\ Transfer("failed")
    /\ UNCHANGED <<disk, fp, seek, reading, removing>>

(* ... and the result, Len(out).                                           *)
k_fread_return ==
    /\ pc = "fread_end"
    /\ pc' = "idle"
    /\ EndRead
    /\ UNCHANGED <<disk, fp, seek, removing, failed>>

-----------------------------------------------------------------------------
(* fskip() and fsetp(): fpos, then sync_file_cluster(), whose walk starts  *)
(* over at the first cluster, one entry of the FAT after the other. A tick *)
(* between sync_read and sync_step falls into the transfer.                *)
move(p) ==
    /\ pc = "idle" /\ fp # NULL /\ seek = NULL
    /\ fp' = [fp EXCEPT !.fpos = p]
    /\ seek' = IF p \div ClusterBytes = fp.current_cluster_index THEN NULL
               ELSE [target |-> fp.first_cluster, steps |-> p \div ClusterBytes,
                     polling |-> FALSE]
    /\ UNCHANGED <<disk, pc, reading, removing, failed>>

fskip_Absolute(s) == move(s)
fskip(s) == move((fp.fpos + s) % Word)
fsetp(p) == move(p)

Polling == seek # NULL /\ seek.polling

sync_read ==
    /\ pc = "idle" /\ seek # NULL
    /\ seek.steps > 0 /\ ~Polling
    /\ seek' = [seek EXCEPT !.polling = TRUE]
    /\ UNCHANGED <<disk, fp, pc, reading, removing, failed>>

sync_step ==
    /\ pc = "idle" /\ Polling
    /\ \E r \in Outcomes : \E c \in get_next_cluster(seek.target, r) :
          /\ seek' = [target |-> c, steps |-> IF c >= EOC THEN 0 ELSE seek.steps - 1,
                      polling |-> FALSE]
          /\ fp' = [fp EXCEPT !.eof = @ \/ c >= EOC]
          /\ Transfer(r)
    /\ UNCHANGED <<disk, pc, reading, removing>>

sync_end_KeepsIndex ==
    /\ pc = "idle" /\ seek # NULL
    /\ seek.steps = 0
    /\ fp' = [fp EXCEPT !.current_cluster = seek.target]
    /\ seek' = NULL
    /\ UNCHANGED <<disk, pc, reading, removing, failed>>

sync_end ==
    /\ pc = "idle" /\ seek # NULL
    /\ seek.steps = 0
    /\ fp' = [fp EXCEPT !.current_cluster = seek.target,
                        !.current_cluster_index = fp.fpos \div ClusterBytes]
    /\ seek' = NULL
    /\ UNCHANGED <<disk, pc, reading, removing, failed>>

-----------------------------------------------------------------------------
(* k_remove(f): the directory is read, and when it lists f, or what memory *)
(* held does, ...                                                          *)
k_remove(f) ==
    /\ pc = "idle"
    /\ \/ f \in dir /\ dir_buffer' = dir /\ current' = first_cluster(f) /\ Transfer("done")
       \/ dir_buffer' = {NULL} /\ current' \in Unknown /\ Transfer("short")
    /\ name' = f
    /\ begun' = begun \cup {f}
    /\ pc' = "chain"
    /\ UNCHANGED <<disk, fp, seek, reading, next, copy>>

(* ... free_cluster_chain() goes along the chain, ...                      *)
InChain == current >= 2 /\ current < EOC

free_cluster_chain ==
    /\ pc = "chain"
    /\ IF InChain
       THEN /\ copy' = 1
            /\ \/ \E r \in {"done", "short"} :
                     /\ next' \in get_next_cluster(current, r)
                     /\ pc' = "mark" /\ Transfer(r)
               \/ pc' = "entry" /\ UNCHANGED next /\ Transfer("failed")
       ELSE /\ pc' = "entry"
            /\ UNCHANGED <<next, copy, failed>>
    /\ UNCHANGED <<disk, fp, seek, reading, name, dir_buffer, current, begun>>

(* ... mark_cluster_in_fat() clears the entry of each cluster in one copy  *)
(* after the other and, if it gives up, nobody looks, ...                  *)
Cleared_NextEntry == [fat EXCEPT ![copy][current + 1] = 0]
Cleared == [fat EXCEPT ![copy][current] = 0]

Onward_Stays == current
Onward == next

LastCopy_First == TRUE
LastCopy == copy = fat_count

Marked(r) ==
    IF r # "failed" /\ ~LastCopy
    THEN copy' = copy + 1 /\ UNCHANGED <<pc, current>>
    ELSE pc' = "chain" /\ current' = Onward /\ UNCHANGED copy

mark_cluster_in_fat ==
    /\ pc = "mark"
    /\ \E w \in Outcomes :
          /\ \/ /\ current # JUNK /\ ~Lost
                /\ fat' \in k_sd_write_sector(fat, Cleared, w) /\ UNCHANGED dir
                /\ Transfer(w)
             \/ w = "failed" /\ UNCHANGED disk /\ Transfer(w)
             \/ Astray /\ Transfer("short")
          /\ Marked(w)
    /\ UNCHANGED <<fp, seek, reading, name, dir_buffer, next, begun>>

(* ... and the directory is written back without f: 0, or -2. A transfer   *)
(* that another one was in the middle of may write anything.               *)
k_remove_entry ==
    /\ pc = "entry"
    /\ pc' = "idle"
    /\ \/ \E w \in Outcomes :
             /\ NULL \notin dir_buffer /\ ~Lost
             /\ dir' \in k_sd_write_sector(dir, dir_buffer \ {name}, w) /\ UNCHANGED fat
             /\ Transfer(w)
       \/ UNCHANGED disk /\ Transfer("failed")
       \/ (NULL \in dir_buffer \/ Lost \/ Polling) /\ Astray /\ Transfer("short")
    /\ EndRemove
    /\ UNCHANGED <<fp, seek, reading, begun>>

-----------------------------------------------------------------------------
(* A reset: k_fs_init() finds the card as it is.                           *)
Reset ==
    /\ fp' = NULL
    /\ seek' = NULL
    /\ pc' = "idle"
    /\ EndRead
    /\ EndRemove
    /\ Transfer("failed")
    /\ UNCHANGED <<disk, begun>>

Step ==
    \/ k_fread_turn \/ k_fread_break \/ k_fread_return
    \/ free_cluster_chain \/ mark_cluster_in_fat \/ k_remove_entry

Next ==
    \/ \E f \in Files : k_fopen(f)
    \/ k_fclose
    \/ \E n \in Requests : k_fread(n)
    \/ k_fread_turn
    \/ k_fread_break
    \/ k_fread_return
    \/ \E s \in Skips : fskip(s)
    \/ \E p \in Positions : fsetp(p)
    \/ sync_read
    \/ sync_step
    \/ sync_end
    \/ \E f \in Files : k_remove(f)
    \/ free_cluster_chain
    \/ mark_cluster_in_fat
    \/ k_remove_entry
    \/ Reset

(* A call that has begun keeps running: nothing interrupts it.             *)
Spec == Init /\ [][Next]_vars /\ WF_vars(Step)

-----------------------------------------------------------------------------
Whole(f, k) == \A i \in DOMAIN Chain[f] : fat[k][Chain[f][i]] = Link(f, i)

TypeOK ==
    /\ fat \in [Copies -> [0..LastCluster -> 0..EOC]]
    /\ dir \subseteq Files \/ dir = {NULL}
    /\ fp \in FILE \cup {NULL}
    /\ seek \in Walk \cup {NULL}
    /\ pc \in {"idle", "fread", "fread_end", "chain", "mark", "entry"}
    /\ total \in 0..(Word - 1) /\ out \in Seq((0..EOC) \X Nat)
    /\ start \in 0..(Word - 1) /\ wanted \in 0..(Word - 1)
    /\ name \in Files \cup {NULL} /\ (dir_buffer \subseteq Files \/ dir_buffer = {NULL})
    /\ current \in 0..EOC /\ next \in 0..EOC /\ copy \in 0..fat_count
    /\ begun \subseteq Files /\ failed \in BOOLEAN

(* Removals, resets and failures, in any order, leave the files nobody     *)
(* removed as they were: listed, and whole in every copy of the FAT with   *)
(* the two reserved entries. Only a removal that writes words it has not   *)
(* read may harm them, and no FILE ever does (filesystem.c:45-71, 230-296).*)
OthersIntact ==
    ~Lost =>
        /\ \A f \in Files \ begun : f \in dir /\ \A k \in Copies : Whole(f, k)
        /\ \A k \in Copies : fat[k][0] = EOC /\ fat[k][1] = EOC

(* Until something fails, what a removal leaves is consistent: the copies  *)
(* agree and a cluster is taken exactly when a listed file has it          *)
(* (filesystem.c:54, 281-288).                                             *)
ConsistentWithoutFaults ==
    pc \notin {"chain", "mark", "entry"} /\ ~failed =>
        \A k \in Copies : \A c \in Clusters :
            fat[k][c] = IF \E f \in dir : \E i \in DOMAIN Chain[f] : Chain[f][i] = c
                        THEN FreshEntry(c) ELSE 0

(* While the file is whole, the cursor of its FILE is the cluster its      *)
(* position is in, whatever reads, moves, failures and removals led there. *)
(* Only JUNK, a number taken from words that were not read, is exempt: no  *)
(* such number comes back as another cluster, and a walk that reads all    *)
(* its words gets rid of it (filesystem.c:163-164, 183-190, 299-316).      *)
CursorOnChain ==
    fp # NULL /\ fp.current_cluster # JUNK =>
        LET f == fp.file
        IN  seek = NULL /\ ~fp.eof /\ Chain[f] # <<>> /\ Whole(f, 1) =>
                /\ fp.current_cluster_index = fp.fpos \div ClusterBytes
                /\ fp.current_cluster_index + 1 \in DOMAIN Chain[f]
                /\ fp.current_cluster = Chain[f][fp.current_cluster_index + 1]

(* What a read gives: the bytes of the file that follow the position it    *)
(* began at, once each, as long as the file is whole; removed while open,  *)
(* it may give bytes of the FAT, but never another file's. Bytes of sectors*)
(* that were not read are exempt, as are those of a cluster whose number   *)
(* was not (they may be another file's), and until something fails there   *)
(* are none (filesystem.c:162-192).                                        *)
Contents(f, p) == <<Chain[f][(p \div ClusterBytes) + 1], p % ClusterBytes>>

ReadsItsFile ==
    fp # NULL =>
        LET f == fp.file
        IN  \A i \in DOMAIN out :
                \/ out[i] = JunkByte /\ failed
                \/ /\ out[i][1] = 0 \/ \E j \in DOMAIN Chain[f] : Chain[f][j] = out[i][1]
                   /\ Whole(f, 1) /\ Chain[f] # <<>> => out[i] = Contents(f, start + i - 1)

(* The loops of a call end, on a chain cut short or cleared as on a whole  *)
(* one, and those of a read whatever it takes for the next cluster; only a *)
(* removal that follows numbers it has not read may go on                  *)
(* (filesystem.c:162, 235).                                                *)
CallsReturn ==
    /\ (pc \in {"fread", "fread_end"}) ~> (pc = "idle")
    /\ (pc # "idle") ~> (pc = "idle" \/ current = JUNK)

(* "2. Liberar todos os clusters na FAT" (filesystem.c:281): when a file   *)
(* is no longer listed, its clusters are free.                             *)
RemoveFreesAll ==
    pc = "idle" /\ ~Lost =>
        \A f \in Files \ dir : \A i \in DOMAIN Chain[f] : fat[1][Chain[f][i]] = 0

=============================================================================
