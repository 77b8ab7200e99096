------------------------------- MODULE Files -------------------------------
(***************************************************************************)
(* The file calls of src/hle/iofilemgr.c (its POSIX build) over stdio and  *)
(* a host directory.  A path stands for what map_path makes of it; what a  *)
(* file holds, and the position in it, are stdio's.                        *)
(***************************************************************************)
EXTENDS Integers, FiniteSets, FiniteSetsExt, Sequences

CONSTANTS Path, NoStream,
          MaxFiles, MaxDirs,   \* MAX_FILES, MAX_DIRS
          MaxBytes,            \* bound: bytes read in all, and in one call
          MaxForgot            \* bound: directory streams lost to resets

FileStream == [id : Nat, mode : {"r", "r+", "w", "w+", "a"}]
DirStream  == [id : Nat, more : BOOLEAN]

ASSUME FilesAssumption == /\ {MaxFiles, MaxDirs, MaxForgot} \subseteq Nat
                          /\ NoStream \notin FileStream /\ NoStream \notin DirStream

VARIABLES file,       \* g_file, [fd - 3 -> a stream or NoStream]
          dir,        \* g_dir, [id - 1 -> a stream or NoStream]
          bytesRead,  \* g_bytes_read
          there,      \* external: the paths that exist
          host,       \* external: the streams stdio and the directory API hold open
          forgot      \* history: the directory streams a reset has forgotten

ioVars == <<file, dir, bytesRead, there, host, forgot>>

Fd  == 0..MaxFiles - 1
Dir == 0..MaxDirs - 1

Used(slots)      == {i \in DOMAIN slots : slots[i] # NoStream}
FreeSlots(slots) == DOMAIN slots \ Used(slots)
Streams(slots)   == {slots[i].id : i \in Used(slots)}

FilesInit == /\ file = [i \in Fd |-> NoStream] /\ dir = [i \in Dir |-> NoStream]
             /\ bytesRead = 0
             /\ there \in SUBSET Path
             /\ host = {} /\ forgot = {}

-----------------------------------------------------------------------------
NewStream == Min((1..MaxFiles + MaxDirs + MaxForgot + 1) \ host)

(* The mode hle_Open asks fopen for. *)
ModeOf(flags) ==
    LET both == {"rd", "wr"} \subseteq flags
    IN CASE "trunc" \in flags                        -> IF both THEN "w+" ELSE "w"
         [] flags \cap {"trunc", "append"} = {"append"} -> "a"
         [] OTHER -> IF "wr" \notin flags THEN "r"
                     ELSE IF both \/ "creat" \notin flags THEN "r+" ELSE "w"

(* Mutant: the stream of a full table is not closed. *)
OpenedLeaks(id, mode) ==
    /\ host' = host \cup {id}
    /\ IF FreeSlots(file) = {} THEN UNCHANGED file
       ELSE file' = [file EXCEPT ![Min(FreeSlots(file))] = [id |-> id, mode |-> mode]]

(* The end of hle_Open: the first slot that is free, or the stream is closed again. *)
Opened(id, mode) ==
    IF FreeSlots(file) = {} THEN UNCHANGED <<file, host>>
    ELSE /\ file' = [file EXCEPT ![Min(FreeSlots(file))] = [id |-> id, mode |-> mode]]
         /\ host' = host \cup {id}

(* hle_Open.  A file that is not there is created when the mode says so or, by a second
   fopen, when the flags do - and before a slot is looked for. *)
Open(p, flags) ==
    LET mode  == ModeOf(flags)
        finds == p \in there \/ mode \notin {"r", "r+"}
    IN /\ IF ~finds /\ "creat" \notin flags THEN UNCHANGED <<file, host, there>>
          ELSE /\ there' = there \cup {p}
               /\ Opened(NewStream, IF finds THEN mode ELSE "w+")
       /\ UNCHANGED <<dir, bytesRead, forgot>>

(* hle_Close, of a descriptor fd_arg accepts; any other is refused. *)
Close(i) == /\ i \in Used(file)
            /\ host' = host \ {file[i].id}
            /\ file' = [file EXCEPT ![i] = NoStream]
            /\ UNCHANGED <<dir, bytesRead, there, forgot>>

(* hle_Read: fread gets what there is, nothing from a stream opened to write; the bytes
   go to guest memory. *)
Read(i, got) == /\ i \in Used(file)
                /\ got > 0 => file[i].mode \in {"r", "r+", "w+"}
                /\ bytesRead + got <= MaxBytes
                /\ bytesRead' = bytesRead + got
                /\ UNCHANGED <<file, dir, there, host, forgot>>

(* hle_Write (descriptors 1 and 2 are stderr) and hle_Lseek: the host's file changes, or
   the position in it. *)
Write(i) == i \in Used(file) /\ UNCHANGED ioVars

Lseek(i) == i \in Used(file) /\ UNCHANGED ioVars

(* hle_Rename *)
Rename(p, q) == /\ there' = IF p \in there THEN (there \ {p}) \cup {q} ELSE there
                /\ UNCHANGED <<file, dir, bytesRead, host, forgot>>

(* hle_Dopen: a slot first, then opendir, which may find nothing. *)
Dopen(found) == /\ IF FreeSlots(dir) = {} \/ ~found THEN UNCHANGED <<dir, host>>
                   ELSE /\ dir' = [dir EXCEPT ![Min(FreeSlots(dir))] = [id |-> NewStream, more |-> TRUE]]
                        /\ host' = host \cup {NewStream}
                /\ UNCHANGED <<file, bytesRead, there, forgot>>

(* hle_Dread: one more name, until readdir has none. *)
Dread(i, more) == /\ i \in Used(dir) /\ (more => dir[i].more)
                  /\ dir' = [dir EXCEPT ![i].more = more]
                  /\ UNCHANGED <<file, bytesRead, there, host, forgot>>

Dclose(i) == /\ i \in Used(dir)
             /\ host' = host \ {dir[i].id}
             /\ dir' = [dir EXCEPT ![i] = NoStream]
             /\ UNCHANGED <<file, bytesRead, there, forgot>>

(* psp_io_reset: the files are closed, the directories only forgotten. *)
IoReset == /\ Cardinality(forgot \cup Streams(dir)) <= MaxForgot
           /\ forgot' = forgot \cup Streams(dir)
           /\ host' = host \ Streams(file)
           /\ file' = [i \in Fd |-> NoStream]
           /\ dir' = [i \in Dir |-> NoStream]
           /\ bytesRead' = 0
           /\ UNCHANGED there

FilesNext ==
    \/ \E p \in Path, flags \in SUBSET {"rd", "wr", "append", "creat", "trunc"} : Open(p, flags)
    \/ \E i \in Fd : Close(i)
    \/ \E i \in Fd, got \in 0..MaxBytes : Read(i, got)
    \/ \E i \in Fd : Write(i)
    \/ \E i \in Fd : Lseek(i)
    \/ \E p, q \in Path : Rename(p, q)
    \/ \E found \in BOOLEAN : Dopen(found)
    \/ \E i \in Dir, more \in BOOLEAN : Dread(i, more)
    \/ \E i \in Dir : Dclose(i)
    \/ IoReset

FilesSpec == FilesInit /\ [][FilesNext]_ioVars

-----------------------------------------------------------------------------
(* Every stream the host holds open is the one stream of one descriptor, so each can be
   closed, none is closed twice and two descriptors never share a position; only the
   directories a reset forgets are lost.
   (hle_Open with a full table, hle_Close, hle_Dclose, psp_io_reset) *)
StreamsExact ==
    LET held == Streams(file) \cup Streams(dir)
    IN /\ host = held \cup forgot
       /\ held \cap forgot = {}
       /\ Cardinality(held) = Cardinality(Used(file)) + Cardinality(Used(dir))
=============================================================================
