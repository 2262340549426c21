------------------------ MODULE FileSystemImplements ------------------------
(***************************************************************************)
(* FileSystem implements FileService. A read takes effect when its last    *)
(* byte is there, a move when it sets fpos, a removal when the directory   *)
(* is written back.                                                        *)
(***************************************************************************)
EXTENDS FileSystem

Room == [f \in Files |-> Len(Chain[f]) * ClusterBytes]
Stray(f, byte) == byte[1] = 0 \/ \E i \in DOMAIN Chain[f] : Chain[f][i] = byte[1]

Opened == IF fp = NULL THEN NULL ELSE fp.file
Position == IF fp = NULL THEN 0 ELSE IF pc = "fread" THEN start ELSE fp.fpos
Sure == fp = NULL \/ fp.first_cluster # JUNK
Over == IF fp = NULL THEN FALSE ELSE fp.eof
State == IF pc = "fread_end" THEN "answered"
         ELSE IF pc \in {"chain", "mark", "entry"} THEN "removing" ELSE "idle"
Answer == IF pc = "fread_end" THEN out ELSE <<>>

Service == INSTANCE FileService WITH
    Room <- Room, Unread <- JunkByte, Contents <- Contents, Stray <- Stray,
    listed <- dir, harmed <- begun, leaving <- name,
    file <- Opened, sure <- Sure, position <- Position, over <- Over,
    state <- State, answer <- Answer

(* fread() gives the next bytes of the file, once each, and moves by as    *)
(* many as it gave; whatever another task removes, however far a reset or  *)
(* a failed transfer lets a call get, and wherever moves have led, a task  *)
(* sees no more of it than FileService says (filesystem.c:100-316).        *)
ImplementsService == Service!Spec
=============================================================================
