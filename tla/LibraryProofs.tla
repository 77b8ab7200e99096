--------------------------- MODULE LibraryProofs ---------------------------
(***************************************************************************)
(* Proofs about parts of the runtime library: files, audio channels,       *)
(* display lists, module loading, the trace instruments, the dispatch      *)
(* table, the firmware-call registry and the mixer's voices.  Each is      *)
(* proved of the part's own specification, which the behaviours of Runtime *)
(* that use the part satisfy: a step of Runtime is a step of one part and  *)
(* leaves the others unchanged.                                            *)
(***************************************************************************)
EXTENDS Dispatch, HleRegistry, Files, Devices, GeLists, Loader, Sas, Trace, SetLemmas,
        SequenceTheorems

(* The numbers up to n. *)
LEMMA UpTo == \A n \in Nat : IsFiniteSet(1..n) /\ Cardinality(1..n) = n
BY FS_Interval

-----------------------------------------------------------------------------
(* Files. *)
Alone(slots) == \A i, j \in Used(slots) : i # j => slots[i].id # slots[j].id

(* Every descriptor and every directory has a stream of its own, and the host holds
   these and the ones a reset has forgotten. *)
Exact(f, d, h, g) == /\ f \in [Fd -> {NoStream} \cup FileStream]
                     /\ d \in [Dir -> {NoStream} \cup DirStream]
                     /\ IsFiniteSet(g) /\ Cardinality(g) <= MaxForgot
                     /\ Alone(f) /\ Alone(d)
                     /\ Streams(f) \cap Streams(d) = {}
                     /\ (Streams(f) \cup Streams(d)) \cap g = {}
                     /\ h = Streams(f) \cup Streams(d) \cup g

FilesInv == Exact(file, dir, host, forgot)

LEMMA FilesCounts == MaxFiles \in Nat /\ MaxDirs \in Nat /\ MaxForgot \in Nat
                     /\ NoStream \notin FileStream /\ NoStream \notin DirStream
BY FilesAssumption

(* The streams of a table are as many as the slots it uses. *)
LEMMA StreamCount ==
    ASSUME NEW n \in Nat, NEW slots, DOMAIN slots = 0..n - 1, Alone(slots)
    PROVE  /\ IsFiniteSet(Used(slots)) /\ Cardinality(Used(slots)) \in Nat
           /\ Cardinality(Used(slots)) <= n
           /\ IsFiniteSet(Streams(slots)) /\ Cardinality(Streams(slots)) = Cardinality(Used(slots))
<1>1. IsFiniteSet(0..n - 1) /\ Cardinality(0..n - 1) = n
  <2>1. n - 1 \in Int /\ (0 > n - 1 => n = 0) /\ n - 1 - 0 + 1 = n
    OBVIOUS
  <2> QED
    BY <2>1, FS_Interval
<1>2. Used(slots) \in SUBSET (0..n - 1)
  BY DEF Used
<1>3. IsFiniteSet(Used(slots)) /\ Cardinality(Used(slots)) <= n /\ Cardinality(Used(slots)) \in Nat
  BY <1>1, <1>2, FS_Subset, FS_CardinalityType
<1> DEFINE f == [i \in Used(slots) |-> slots[i].id]
<1>4. f \in Bijection(Used(slots), Streams(slots))
  <2>1. f \in [Used(slots) -> Streams(slots)]
    BY DEF Streams
  <2>2. \A i, j \in Used(slots) : f[i] = f[j] => i = j
    BY DEF Alone
  <2>3. \A x \in Streams(slots) : \E i \in Used(slots) : f[i] = x
    BY DEF Streams
  <2> QED
    BY <2>1, <2>2, <2>3 DEF Bijection, Injection, Surjection, IsInjective
<1>5. ExistsBijection(Used(slots), Streams(slots))
  BY <1>4 DEF ExistsBijection
<1> QED
  BY <1>3, <1>5, FS_Bijection

(* There is always a number for one more stream: the model does not run out of them. *)
LEMMA NewStreamIsNew ==
    ASSUME FilesInv
    PROVE  NewStream \in Nat /\ NewStream \notin host
<1> DEFINE n == MaxFiles + MaxDirs + MaxForgot
           S == 1..n + 1
           A == Streams(file)
           B == Streams(dir)
<1>0. n \in Nat /\ MaxFiles \in Nat /\ MaxDirs \in Nat /\ MaxForgot \in Nat
  BY FilesCounts
<1>1. IsFiniteSet(A) /\ Cardinality(A) <= MaxFiles /\ Cardinality(A) \in Nat
  <2>1. DOMAIN file = 0..MaxFiles - 1
    BY DEF FilesInv, Exact, Fd
  <2> QED
    BY <1>0, <2>1, StreamCount DEF FilesInv, Exact
<1>2. IsFiniteSet(B) /\ Cardinality(B) <= MaxDirs /\ Cardinality(B) \in Nat
  <2>1. DOMAIN dir = 0..MaxDirs - 1
    BY DEF FilesInv, Exact, Dir
  <2> QED
    BY <1>0, <2>1, StreamCount DEF FilesInv, Exact
<1>3. IsFiniteSet(forgot) /\ Cardinality(forgot) <= MaxForgot /\ Cardinality(forgot) \in Nat
  BY FS_CardinalityType DEF FilesInv, Exact
<1> HIDE DEF n, A, B
<1>4. IsFiniteSet(A \cup B) /\ Cardinality(A \cup B) = Cardinality(A) + Cardinality(B)
  BY <1>1, <1>2, DisjointSum DEF FilesInv, Exact, A, B
<1>5. IsFiniteSet(host) /\ Cardinality(host) = Cardinality(A) + Cardinality(B) + Cardinality(forgot)
  BY <1>3, <1>4, DisjointSum DEF FilesInv, Exact, A, B
<1>6. Cardinality(host) <= n
  BY <1>0, <1>1, <1>2, <1>3, <1>5 DEF n
<1>7. IsFiniteSet(S) /\ Cardinality(S) = n + 1
  BY <1>0, FS_Interval
<1>8. ~(S \subseteq host)
  <2>1. SUFFICES ASSUME S \in SUBSET host PROVE FALSE
    OBVIOUS
  <2>2. Cardinality(S) <= Cardinality(host)
    BY <1>5, <2>1, FS_Subset
  <2>3. Cardinality(host) \in Nat
    BY <1>5, FS_CardinalityType
  <2> QED
    BY <1>0, <1>6, <1>7, <2>2, <2>3
<1>9. S \ host \in SUBSET Nat
  BY <1>0
<1>10. S \ host # {}
  BY <1>8
<1>11. NewStream = Min(S \ host)
  BY DEF NewStream, n
<1> HIDE DEF S
<1>12. Min(S \ host) \in S \ host
  BY <1>9, <1>10, MinIsLeast
<1> QED
  BY <1>9, <1>11, <1>12

(* A slot is taken by a stream that is new. *)
LEMMA SlotTaken ==
    ASSUME NEW slots, Alone(slots), NEW i \in FreeSlots(slots), NEW r, r # NoStream,
           r.id \notin Streams(slots)
    PROVE  /\ Alone([slots EXCEPT ![i] = r])
           /\ Streams([slots EXCEPT ![i] = r]) = Streams(slots) \cup {r.id}
<1> DEFINE new == [slots EXCEPT ![i] = r]
<1>1. i \in DOMAIN slots /\ slots[i] = NoStream
  BY DEF FreeSlots, Used
<1>2. DOMAIN new = DOMAIN slots /\ new[i] = r /\ \A j \in DOMAIN slots \ {i} : new[j] = slots[j]
  BY <1>1
<1> HIDE DEF new
<1>3. Used(new) = Used(slots) \cup {i} /\ i \notin Used(slots)
  BY <1>1, <1>2 DEF Used
<1>4. \A j \in Used(slots) : new[j] = slots[j] /\ slots[j].id # r.id
  BY <1>2, <1>3 DEF Streams, Used
<1>5. Alone(new)
  BY <1>2, <1>3, <1>4 DEF Alone
<1>6. Streams(new) = Streams(slots) \cup {r.id}
  <2>1. \A x : x \in Streams(new) <=> \E j \in Used(slots) \cup {i} : new[j].id = x
    BY <1>3 DEF Streams
  <2>2. \A x : x \in Streams(slots) <=> \E j \in Used(slots) : slots[j].id = x
    BY DEF Streams
  <2>3. \A x : x \in Streams(new) <=> x \in Streams(slots) \/ x = r.id
    BY <1>2, <1>4, <2>1, <2>2
  <2> QED
    BY <2>3
<1> QED
  BY <1>5, <1>6 DEF new

(* A slot is given back. *)
LEMMA SlotFreed ==
    ASSUME NEW slots, Alone(slots), NEW i \in Used(slots)
    PROVE  /\ Alone([slots EXCEPT ![i] = NoStream])
           /\ Streams([slots EXCEPT ![i] = NoStream]) = Streams(slots) \ {slots[i].id}
<1> DEFINE new == [slots EXCEPT ![i] = NoStream]
<1>1. i \in DOMAIN slots
  BY DEF Used
<1>2. DOMAIN new = DOMAIN slots /\ new[i] = NoStream /\ \A j \in DOMAIN slots \ {i} : new[j] = slots[j]
  BY <1>1
<1> HIDE DEF new
<1>3. Used(new) = Used(slots) \ {i}
  BY <1>1, <1>2 DEF Used
<1>4. \A j \in Used(new) : new[j] = slots[j] /\ slots[j].id # slots[i].id
  BY <1>2, <1>3 DEF Alone, Used
<1>5. Alone(new)
  BY <1>3, <1>4 DEF Alone
<1>6. Streams(new) = Streams(slots) \ {slots[i].id}
  <2>1. \A x : x \in Streams(new) <=> \E j \in Used(slots) \ {i} : slots[j].id = x
    BY <1>3, <1>4 DEF Streams
  <2>2. \A x : x \in Streams(slots) <=> \E j \in Used(slots) : slots[j].id = x
    BY DEF Streams
  <2>3. \A j \in Used(slots) \ {i} : slots[j].id # slots[i].id
    BY <1>3, <1>4
  <2>4. \A x : x \in Streams(new) <=> x \in Streams(slots) /\ x # slots[i].id
    BY <2>1, <2>2, <2>3
  <2> QED
    BY <2>4
<1> QED
  BY <1>5, <1>6 DEF new

(* A table in which every slot is free. *)
LEMMA NoSlotUsed ==
    ASSUME NEW I
    PROVE  Streams([i \in I |-> NoStream]) = {} /\ Alone([i \in I |-> NoStream])
<1>1. Used([i \in I |-> NoStream]) = {}
  BY DEF Used
<1> QED
  BY <1>1 DEF Streams, Alone

LEMMA FirstFreeSlot ==
    ASSUME NEW n \in Nat, NEW slots, DOMAIN slots = 0..n - 1, FreeSlots(slots) # {}
    PROVE  Min(FreeSlots(slots)) \in FreeSlots(slots)
<1>1. FreeSlots(slots) \in SUBSET Nat
  BY DEF FreeSlots
<1> QED
  BY <1>1, MinIsLeast

LEMMA InitFilesInv == FilesInit => FilesInv
<1> SUFFICES ASSUME FilesInit PROVE Exact(file, dir, host, forgot)
  BY DEF FilesInv
<1>1. Streams(file) = {} /\ Alone(file) /\ Streams(dir) = {} /\ Alone(dir)
  BY NoSlotUsed DEF FilesInit
<1>2. IsFiniteSet(forgot) /\ Cardinality(forgot) <= MaxForgot
  BY FilesCounts, FS_EmptySet DEF FilesInit
<1> QED
  BY <1>1, <1>2 DEF FilesInit, Exact

(* One file more, or one less. *)
LEMMA FileOpened ==
    ASSUME NEW f, NEW d, NEW h, NEW g, Exact(f, d, h, g), NEW i \in FreeSlots(f),
           NEW r \in FileStream, r.id \notin h
    PROVE  Exact([f EXCEPT ![i] = r], d, h \cup {r.id}, g)
<1>1. /\ f \in [Fd -> {NoStream} \cup FileStream] /\ Alone(f) /\ r.id \notin Streams(f)
      /\ NoStream \notin FileStream
  BY FilesCounts DEF Exact
<1> DEFINE new == [f EXCEPT ![i] = r]
<1>2. new \in [Fd -> {NoStream} \cup FileStream]
  BY <1>1
<1>3. Alone(new) /\ Streams(new) = Streams(f) \cup {r.id}
  BY <1>1, SlotTaken
<1> HIDE DEF new
<1>4. Exact(new, d, h \cup {r.id}, g)
  BY <1>2, <1>3 DEF Exact
<1> QED
  BY <1>4 DEF new

LEMMA FileClosed ==
    ASSUME NEW f, NEW d, NEW h, NEW g, Exact(f, d, h, g), NEW i \in Used(f)
    PROVE  Exact([f EXCEPT ![i] = NoStream], d, h \ {f[i].id}, g)
<1>1. f \in [Fd -> {NoStream} \cup FileStream] /\ Alone(f)
  BY DEF Exact
<1> DEFINE new == [f EXCEPT ![i] = NoStream]
<1>2. new \in [Fd -> {NoStream} \cup FileStream]
  BY <1>1
<1>3. Alone(new) /\ Streams(new) = Streams(f) \ {f[i].id}
  BY <1>1, SlotFreed
<1>4. f[i].id \in Streams(f)
  BY DEF Streams
<1> HIDE DEF new
<1>5. Exact(new, d, h \ {f[i].id}, g)
  BY <1>2, <1>3, <1>4 DEF Exact
<1> QED
  BY <1>5 DEF new

(* One directory more, or one less. *)
LEMMA DirOpened ==
    ASSUME NEW f, NEW d, NEW h, NEW g, Exact(f, d, h, g), NEW i \in FreeSlots(d),
           NEW r \in DirStream, r.id \notin h
    PROVE  Exact(f, [d EXCEPT ![i] = r], h \cup {r.id}, g)
<1>1. /\ d \in [Dir -> {NoStream} \cup DirStream] /\ Alone(d) /\ r.id \notin Streams(d)
      /\ NoStream \notin DirStream
  BY FilesCounts DEF Exact
<1> DEFINE new == [d EXCEPT ![i] = r]
<1>2. new \in [Dir -> {NoStream} \cup DirStream]
  BY <1>1
<1>3. Alone(new) /\ Streams(new) = Streams(d) \cup {r.id}
  BY <1>1, SlotTaken
<1> HIDE DEF new
<1>4. Exact(f, new, h \cup {r.id}, g)
  BY <1>2, <1>3 DEF Exact
<1> QED
  BY <1>4 DEF new

LEMMA DirClosed ==
    ASSUME NEW f, NEW d, NEW h, NEW g, Exact(f, d, h, g), NEW i \in Used(d)
    PROVE  Exact(f, [d EXCEPT ![i] = NoStream], h \ {d[i].id}, g)
<1>1. d \in [Dir -> {NoStream} \cup DirStream] /\ Alone(d)
  BY DEF Exact
<1> DEFINE new == [d EXCEPT ![i] = NoStream]
<1>2. new \in [Dir -> {NoStream} \cup DirStream]
  BY <1>1
<1>3. Alone(new) /\ Streams(new) = Streams(d) \ {d[i].id}
  BY <1>1, SlotFreed
<1>4. d[i].id \in Streams(d)
  BY DEF Streams
<1> HIDE DEF new
<1>5. Exact(f, new, h \ {d[i].id}, g)
  BY <1>2, <1>3, <1>4 DEF Exact
<1> QED
  BY <1>5 DEF new

(* The next name of a directory. *)
LEMMA DirRead ==
    ASSUME NEW f, NEW d, NEW h, NEW g, Exact(f, d, h, g), NEW i \in Used(d), NEW more \in BOOLEAN
    PROVE  Exact(f, [d EXCEPT ![i].more = more], h, g)
<1> DEFINE new == [d EXCEPT ![i].more = more]
<1>1. d \in [Dir -> {NoStream} \cup DirStream] /\ i \in Dir /\ d[i] \in DirStream
  BY DEF Exact, Used
<1>2. [d[i] EXCEPT !.more = more] \in DirStream /\ [d[i] EXCEPT !.more = more].id = d[i].id
  BY <1>1 DEF DirStream
<1>3. /\ new \in [Dir -> {NoStream} \cup DirStream]
      /\ new[i] \in DirStream /\ new[i].id = d[i].id
      /\ \A j \in Dir \ {i} : new[j] = d[j]
  BY <1>1, <1>2
<1> HIDE DEF new
<1>4. DOMAIN new = Dir /\ DOMAIN d = Dir
  BY <1>1, <1>3
<1>5. Used(new) = Used(d)
  BY <1>1, <1>3, <1>4, FilesCounts DEF Used
<1>6. \A j \in Used(d) : new[j].id = d[j].id
  BY <1>3, <1>4 DEF Used
<1>7. Alone(new) /\ Streams(new) = Streams(d)
  BY <1>5, <1>6 DEF Alone, Streams, Exact
<1>8. Exact(f, new, h, g)
  BY <1>3, <1>7 DEF Exact
<1> QED
  BY <1>8 DEF new

(* psp_io_reset *)
LEMMA TablesForgotten ==
    ASSUME NEW f, NEW d, NEW h, NEW g, Exact(f, d, h, g),
           Cardinality(g \cup Streams(d)) <= MaxForgot
    PROVE  Exact([i \in Fd |-> NoStream], [i \in Dir |-> NoStream], h \ Streams(f),
                 g \cup Streams(d))
<1> DEFINE nf == [i \in Fd |-> NoStream]
           nd == [i \in Dir |-> NoStream]
<1>1. Streams(nf) = {} /\ Alone(nf) /\ Streams(nd) = {} /\ Alone(nd)
  BY NoSlotUsed
<1>2. nf \in [Fd -> {NoStream} \cup FileStream] /\ nd \in [Dir -> {NoStream} \cup DirStream]
  OBVIOUS
<1> HIDE DEF nf, nd
<1>3. IsFiniteSet(Streams(d))
  <2>1. DOMAIN d = 0..MaxDirs - 1
    BY DEF Exact, Dir
  <2>2. Alone(d)
    BY DEF Exact
  <2> QED
    BY <2>1, <2>2, FilesCounts, StreamCount
<1>4. IsFiniteSet(g \cup Streams(d))
  BY <1>3, FS_Union DEF Exact
<1>5. Exact(nf, nd, h \ Streams(f), g \cup Streams(d))
  BY <1>1, <1>2, <1>4 DEF Exact
<1> QED
  BY <1>5 DEF nf, nd

LEMMA OpenKeeps ==
    ASSUME FilesInv, NEW mode \in {"r", "r+", "w", "w+", "a"}, Opened(NewStream, mode)
    PROVE  Exact(file', dir, host', forgot)
<1>1. CASE FreeSlots(file) = {}
  BY <1>1 DEF Opened, FilesInv
<1>2. CASE FreeSlots(file) # {}
  <2> DEFINE r == [id |-> NewStream, mode |-> mode]
  <2>1. r \in FileStream /\ r.id = NewStream /\ r.id \notin host
    BY NewStreamIsNew DEF FileStream
  <2>2. Min(FreeSlots(file)) \in FreeSlots(file)
    <3>1. DOMAIN file = 0..MaxFiles - 1
      BY DEF FilesInv, Exact, Fd
    <3> QED
      BY <1>2, <3>1, FilesCounts, FirstFreeSlot
  <2>3. file' = [file EXCEPT ![Min(FreeSlots(file))] = r] /\ host' = host \cup {NewStream}
    BY <1>2 DEF Opened
  <2> HIDE DEF r
  <2> QED
    BY <2>1, <2>2, <2>3, FileOpened DEF FilesInv
<1> QED
  BY <1>1, <1>2

LEMMA DopenKeeps ==
    ASSUME FilesInv, NEW found, Dopen(found)
    PROVE  Exact(file, dir', host', forgot)
<1>1. CASE UNCHANGED <<dir, host>>
  BY <1>1 DEF FilesInv
<1>2. CASE ~(FreeSlots(dir) = {} \/ ~found)
  <2> DEFINE r == [id |-> NewStream, more |-> TRUE]
  <2>1. r \in DirStream /\ r.id = NewStream /\ r.id \notin host
    BY NewStreamIsNew DEF DirStream
  <2>2. Min(FreeSlots(dir)) \in FreeSlots(dir)
    <3>1. DOMAIN dir = 0..MaxDirs - 1
      BY DEF FilesInv, Exact, Dir
    <3> QED
      BY <1>2, <3>1, FilesCounts, FirstFreeSlot
  <2>3. dir' = [dir EXCEPT ![Min(FreeSlots(dir))] = r] /\ host' = host \cup {NewStream}
    BY <1>2 DEF Dopen
  <2> HIDE DEF r
  <2> QED
    BY <2>1, <2>2, <2>3, DirOpened DEF FilesInv
<1> QED
  BY <1>1, <1>2 DEF Dopen

LEMMA NextFilesInv == ASSUME FilesInv, [FilesNext]_ioVars PROVE FilesInv'
<1> SUFFICES Exact(file', dir', host', forgot')
  BY DEF FilesInv, Exact, Alone, Streams, Used
<1>1. CASE UNCHANGED <<file, dir, host, forgot>>
  BY <1>1 DEF FilesInv
<1>2. ASSUME NEW p \in Path, NEW flags \in SUBSET {"rd", "wr", "append", "creat", "trunc"},
             Open(p, flags)
      PROVE  Exact(file', dir', host', forgot')
  <2> DEFINE mode == IF p \in there \/ ModeOf(flags) \notin {"r", "r+"} THEN ModeOf(flags) ELSE "w+"
  <2>1. mode \in {"r", "r+", "w", "w+", "a"}
    BY DEF ModeOf
  <2>2. UNCHANGED <<file, host>> \/ Opened(NewStream, mode)
    BY <1>2 DEF Open
  <2> HIDE DEF mode
  <2>3. UNCHANGED <<dir, forgot>>
    BY <1>2 DEF Open
  <2> QED
    BY <1>1, <2>1, <2>2, <2>3, OpenKeeps
<1>3. ASSUME NEW i \in Fd, Close(i) PROVE Exact(file', dir', host', forgot')
  BY <1>3, FileClosed DEF Close, FilesInv
<1>4. ASSUME NEW found \in BOOLEAN, Dopen(found) PROVE Exact(file', dir', host', forgot')
  BY <1>4, DopenKeeps DEF Dopen
<1>5. ASSUME NEW i \in Dir, NEW more \in BOOLEAN, Dread(i, more)
      PROVE  Exact(file', dir', host', forgot')
  BY <1>5, DirRead DEF Dread, FilesInv
<1>6. ASSUME NEW i \in Dir, Dclose(i) PROVE Exact(file', dir', host', forgot')
  BY <1>6, DirClosed DEF Dclose, FilesInv
<1>7. CASE IoReset
  BY <1>7, TablesForgotten DEF IoReset, FilesInv
<1>8. CASE FilesNext
  BY <1>1, <1>2, <1>3, <1>4, <1>5, <1>6, <1>7, <1>8
     DEF FilesNext, Read, Write, Lseek, Rename, ioVars
<1> QED
  BY <1>1, <1>8 DEF ioVars

(* hle_Open, hle_Close, hle_Dopen, hle_Dread, hle_Dclose and psp_io_reset, with tables of
   any size: every stream the host holds open is the one stream of one descriptor -
   a failed or refused call leaks none and none is closed twice - except the
   directories that a reset forgets. *)
THEOREM StreamsStayExact == FilesSpec => []StreamsExact
<1>1. FilesInit => FilesInv
  BY InitFilesInv
<1>2. FilesInv /\ [FilesNext]_ioVars => FilesInv'
  BY NextFilesInv
<1>3. FilesInv => StreamsExact
  <2> SUFFICES ASSUME FilesInv PROVE StreamsExact
    OBVIOUS
  <2>0. /\ DOMAIN file = 0..MaxFiles - 1 /\ DOMAIN dir = 0..MaxDirs - 1
        /\ Alone(file) /\ Alone(dir) /\ Streams(file) \cap Streams(dir) = {}
    BY DEF FilesInv, Exact, Fd, Dir
  <2>1. IsFiniteSet(Streams(file)) /\ Cardinality(Streams(file)) = Cardinality(Used(file))
    BY <2>0, FilesCounts, StreamCount
  <2>2. IsFiniteSet(Streams(dir)) /\ Cardinality(Streams(dir)) = Cardinality(Used(dir))
    BY <2>0, FilesCounts, StreamCount
  <2>3. Cardinality(Streams(file) \cup Streams(dir)) = Cardinality(Streams(file)) + Cardinality(Streams(dir))
    BY <2>0, <2>1, <2>2, DisjointSum
  <2> QED
    BY <2>1, <2>2, <2>3 DEF FilesInv, Exact, StreamsExact
<1> QED
  BY <1>1, <1>2, <1>3, PTL DEF FilesSpec

-----------------------------------------------------------------------------
(* The audio queue. *)
Longest == Max(PlayTimes)

LEMMA LongestPlay == Longest \in Nat /\ \A n \in PlayTimes : n \in Nat /\ n <= Longest
<1>1. PlayTimes \subseteq Nat /\ \E m \in PlayTimes : \A n \in PlayTimes : n <= m
  BY DevicesAssumption
<1>2. Longest \in PlayTimes /\ \A n \in PlayTimes : n <= Longest
  BY <1>1 DEF Longest, Max
<1> QED
  BY <1>1, <1>2

Outputs == [ch : Channel \cup {-1}, play : 0..Longest]

(* How far a channel is ahead of the clock, against what the threads it holds have put
   there. *)
AudioInv == /\ audio \in [Channel -> [reserved : BOOLEAN, samples : 0..Longest]]
            /\ due \in [Channel -> Nat] /\ now \in Nat
            /\ output \in [Caller -> Outputs]
            /\ \A c \in Channel : /\ IsFiniteSet(HeldTime(c))
                                  /\ due[c] <= now + (Longest + Cardinality(HeldTime(c)))

LEMMA Channels == Channel \in SUBSET Nat /\ -1 \notin Channel
BY DevicesAssumption DEF Channel

LEMMA HeldUnits ==
    ASSUME NEW c, NEW p
    PROVE  p \in HeldTime(c) <=> \E t \in Caller : output[t].ch = c /\ p \in {t} \X (1..output[t].play)
BY DEF HeldTime

LEMMA InitAudioInv == DevicesInit => AudioInv
<1> SUFFICES ASSUME DevicesInit PROVE AudioInv
  OBVIOUS
<1>1. 0 \in 0..Longest /\ Longest \in Nat
  BY LongestPlay
<1>2. Idle \in Outputs /\ Idle.ch = -1
  BY <1>1 DEF Idle, Outputs
<1>3. /\ audio \in [Channel -> [reserved : BOOLEAN, samples : 0..Longest]]
      /\ due \in [Channel -> Nat] /\ now \in Nat /\ output \in [Caller -> Outputs]
  BY <1>1, <1>2 DEF DevicesInit
<1>4. ASSUME NEW c \in Channel
      PROVE  IsFiniteSet(HeldTime(c)) /\ due[c] <= now + (Longest + Cardinality(HeldTime(c)))
  <2>1. HeldTime(c) = {}
    BY <1>2, Channels DEF DevicesInit, HeldTime
  <2>2. 0 <= 0 + (Longest + 0)
    BY <1>1
  <2> QED
    BY <2>1, <2>2, FS_EmptySet DEF DevicesInit
<1> QED
  BY <1>3, <1>4 DEF AudioInv

(* Nothing of the queue changes but the channels' settings. *)
LEMMA SettingsKeep ==
    ASSUME AudioInv, audio' \in [Channel -> [reserved : BOOLEAN, samples : 0..Longest]],
           UNCHANGED <<due, now, output>>
    PROVE  AudioInv'
BY DEF AudioInv, HeldTime

\* The larger of two numbers is one of them.
LEMMA MaxOfTwo == ASSUME NEW a \in Nat, NEW b \in Nat PROVE Max({a, b}) \in {a, b}
<1>1. {a, b} \in SUBSET (0..a + b) /\ {a, b} # {}
  OBVIOUS
<1>2. a + b \in Nat
  OBVIOUS
<1> QED
  BY <1>1, <1>2, MaxIsGreatest

LEMMA OutputBlockingKeeps ==
    ASSUME AudioInv, NEW t \in Caller, NEW c \in Channel, OutputBlocking(t, c)
    PROVE  AudioInv'
<1> DEFINE play == audio[c].samples
           late == Max({due[c], now})
           o == [ch |-> c, play |-> play]
<1>1. /\ output[t] = Idle /\ due' = [due EXCEPT ![c] = late + play]
      /\ output' = [output EXCEPT ![t] = o] /\ UNCHANGED <<audio, now>>
  BY DEF OutputBlocking
<1>2. play \in Nat /\ play <= Longest /\ Longest \in Nat /\ due[c] \in Nat /\ now \in Nat
  BY LongestPlay DEF AudioInv
<1>3. late \in Nat /\ (late = due[c] \/ late = now)
  <2>3. Max({due[c], now}) \in {due[c], now}
    BY <1>2, MaxOfTwo
  <2> QED
    BY <1>2, <2>3
<1>4. o \in Outputs /\ o.ch = c /\ o.play = play
  BY <1>2 DEF Outputs
<1> HIDE DEF late, o, play
<1>5. /\ due' \in [Channel -> Nat] /\ output' \in [Caller -> Outputs]
      /\ late + play \in Nat
      /\ \A d \in Channel : due'[d] = IF d = c THEN late + play ELSE due[d]
      /\ \A u \in Caller : output'[u] = IF u = t THEN o ELSE output[u]
  BY <1>1, <1>2, <1>3, <1>4 DEF AudioInv
<1>6. output[t].ch = -1
  BY <1>1 DEF Idle
<1>7. ASSUME NEW d \in Channel
      PROVE  IsFiniteSet(HeldTime(d)') /\ due'[d] <= now + (Longest + Cardinality(HeldTime(d)'))
  <2>1. \A p : p \in HeldTime(d)' <=>
                 \E u \in Caller : output'[u].ch = d /\ p \in {u} \X (1..output'[u].play)
    BY DEF HeldTime
  <2>2. IsFiniteSet(HeldTime(d)) /\ due[d] <= now + (Longest + Cardinality(HeldTime(d)))
    BY DEF AudioInv
  <2>3. CASE d # c
    <3>1. HeldTime(d)' = HeldTime(d)
      <4>1. \A p : p \in HeldTime(d)' <=> p \in HeldTime(d)
        BY <1>4, <1>5, <1>6, <2>1, <2>3, Channels, HeldUnits
      <4> QED
        BY <4>1
    <3> QED
      BY <1>5, <2>2, <2>3, <3>1
  <2>4. CASE d = c
    <3> DEFINE new == {t} \X (1..play)
    <3>1. HeldTime(d)' = HeldTime(d) \cup new
      <4>1. \A p : p \in HeldTime(d)' <=> p \in HeldTime(d) \/ p \in new
        BY <1>4, <1>5, <1>6, <2>1, <2>4, Channels, HeldUnits
      <4> QED
        BY <4>1
    <3>2. HeldTime(d) \cap new = {}
      <4>1. ASSUME NEW p, p \in HeldTime(d), p \in new PROVE FALSE
        <5>1. PICK u \in Caller : output[u].ch = d /\ p \in {u} \X (1..output[u].play)
          BY <4>1, HeldUnits
        <5>2. u = t
          BY <4>1, <5>1
        <5> QED
          BY <1>6, <5>1, <5>2, Channels
      <4> QED
        BY <4>1
    <3>3. IsFiniteSet(new) /\ Cardinality(new) = play
      BY <1>2, Parts
    <3> HIDE DEF new
    <3>4. /\ IsFiniteSet(HeldTime(d) \cup new) /\ Cardinality(HeldTime(d)) \in Nat
          /\ Cardinality(HeldTime(d) \cup new) = Cardinality(HeldTime(d)) + play
      BY <2>2, <3>2, <3>3, DisjointSum
    <3>5. late + play <= now + (Longest + (Cardinality(HeldTime(d)) + play))
      BY <1>2, <1>3, <2>2, <2>4, <3>4
    <3> QED
      BY <1>5, <2>4, <3>1, <3>4, <3>5
  <2> QED
    BY <2>3, <2>4
<1> QED
  BY <1>1, <1>5, <1>7 DEF AudioInv

LEMMA OutputReturnsKeeps ==
    ASSUME AudioInv, NEW t \in Caller, OutputReturns(t)
    PROVE  AudioInv'
<1>1. /\ output[t] # Idle /\ ~(now + output[t].play < due[output[t].ch])
      /\ output' = [output EXCEPT ![t] = Idle] /\ UNCHANGED <<audio, due, now>>
  BY DEF OutputReturns, Ahead
<1>2. Idle \in Outputs /\ Idle.ch = -1 /\ Longest \in Nat
  BY LongestPlay DEF Idle, Outputs
<1>3. /\ output' \in [Caller -> Outputs]
      /\ \A u \in Caller : output'[u] = IF u = t THEN Idle ELSE output[u]
  BY <1>1, <1>2 DEF AudioInv
<1>4. ASSUME NEW d \in Channel
      PROVE  IsFiniteSet(HeldTime(d)') /\ due[d] <= now + (Longest + Cardinality(HeldTime(d)'))
  <2>1. \A p : p \in HeldTime(d)' <=>
                 \E u \in Caller : output'[u].ch = d /\ p \in {u} \X (1..output'[u].play)
    BY DEF HeldTime
  <2>2. IsFiniteSet(HeldTime(d)) /\ due[d] <= now + (Longest + Cardinality(HeldTime(d)))
    BY DEF AudioInv
  <2>3. CASE d # output[t].ch
    <3>1. HeldTime(d)' = HeldTime(d)
      <4>1. \A p : p \in HeldTime(d)' <=> p \in HeldTime(d)
        BY <1>2, <1>3, <2>1, <2>3, Channels, HeldUnits
      <4> QED
        BY <4>1
    <3> QED
      BY <2>2, <3>1
  <2>4. CASE d = output[t].ch
    <3>1. \A p : p \in HeldTime(d)' => p \in HeldTime(d)
      BY <1>2, <1>3, <2>1, Channels, HeldUnits
    <3>2. HeldTime(d)' \in SUBSET HeldTime(d)
      BY <3>1
    <3>3. IsFiniteSet(HeldTime(d)') /\ Cardinality(HeldTime(d)') \in Nat
      BY <2>2, <3>2, FS_Subset, FS_CardinalityType
    <3>4. /\ output[t].play \in 0..Longest /\ now \in Nat /\ due[d] \in Nat
          /\ ~(now + output[t].play < due[d])
      BY <1>1, <2>4 DEF AudioInv, Outputs
    <3>5. due[d] <= now + (Longest + Cardinality(HeldTime(d)'))
      BY <1>2, <3>3, <3>4
    <3> QED
      BY <3>3, <3>5
  <2> QED
    BY <2>3, <2>4
<1> QED
  BY <1>1, <1>3, <1>4 DEF AudioInv

(* The clock and a reset only shorten the queue. *)
LEMMA ShorterKeeps ==
    ASSUME AudioInv, audio' \in [Channel -> [reserved : BOOLEAN, samples : 0..Longest]],
           due' \in [Channel -> Nat], now' \in Nat, UNCHANGED output,
           \A c \in Channel : due'[c] = 0 \/ (due'[c] = due[c] /\ now' >= now)
    PROVE  AudioInv'
<1>1. ASSUME NEW c \in Channel
      PROVE  IsFiniteSet(HeldTime(c)') /\ due'[c] <= now' + (Longest + Cardinality(HeldTime(c)'))
  <2>1. HeldTime(c)' = HeldTime(c)
    BY DEF HeldTime
  <2>2. IsFiniteSet(HeldTime(c)) /\ due[c] <= now + (Longest + Cardinality(HeldTime(c)))
        /\ due[c] \in Nat /\ now \in Nat
    BY DEF AudioInv
  <2>3. Cardinality(HeldTime(c)) \in Nat /\ Longest \in Nat
    BY <2>2, FS_CardinalityType, LongestPlay
  <2>4. due'[c] <= now' + (Longest + Cardinality(HeldTime(c)))
    BY <2>2, <2>3
  <2> QED
    BY <2>1, <2>2, <2>4
<1> QED
  BY <1>1 DEF AudioInv

LEMMA NextAudioInv == ASSUME AudioInv, [AudioNext \/ GadgetNext]_deviceVars PROVE AudioInv'
<1> DEFINE Setting == [reserved : BOOLEAN, samples : 0..Longest]
<1>0. audio \in [Channel -> Setting] /\ Longest \in Nat /\ \A n \in PlayTimes : n \in 0..Longest
  BY LongestPlay DEF AudioInv
<1>1. CASE UNCHANGED audioVars
  BY <1>0, <1>1, SettingsKeep DEF audioVars
<1>2. ASSUME NEW c \in Channel \cup {-1}, NEW n \in PlayTimes, ChReserve(c, n) PROVE AudioInv'
  <2> DEFINE free == {i \in Channel : ~audio[i].reserved}
             ch == IF c >= 0 THEN c ELSE IF free # {} THEN Min(free) ELSE -1
             r == [reserved |-> TRUE, samples |-> n]
  <2>1. r \in Setting
    BY <1>0
  <2>2. free # {} => Min(free) \in Channel
    <3>1. free \in SUBSET Nat
      BY Channels
    <3> QED
      BY <3>1, MinIsLeast
  <2>3. ch \in Channel \cup {-1}
    <3>1. c \in Channel \/ c = -1
      OBVIOUS
    <3>2. c = -1 => ~(c >= 0)
      OBVIOUS
    <3> HIDE DEF free
    <3> QED
      BY <2>2, <3>1, <3>2
  <2>4. /\ audio' = IF ch = -1 THEN audio ELSE [audio EXCEPT ![ch] = r]
        /\ UNCHANGED <<due, now, output>>
    BY <1>2 DEF ChReserve
  <2> HIDE DEF ch, r, free
  <2>5. audio' \in [Channel -> Setting]
    BY <1>0, <2>1, <2>3, <2>4
  <2> QED
    BY <2>4, <2>5, SettingsKeep
<1>3. ASSUME NEW c \in Channel, ChRelease(c) PROVE AudioInv'
  <2>1. audio' \in [Channel -> Setting]
    BY <1>0, <1>3 DEF ChRelease
  <2> QED
    BY <1>3, <2>1, SettingsKeep DEF ChRelease
<1>4. ASSUME NEW c \in Channel, NEW n \in PlayTimes, SetChannelDataLen(c, n) PROVE AudioInv'
  <2>1. audio' \in [Channel -> Setting]
    BY <1>0, <1>4 DEF SetChannelDataLen
  <2> QED
    BY <1>4, <2>1, SettingsKeep DEF SetChannelDataLen
<1>5. CASE Clock
  <2>1. now' \in Nat /\ now' >= now
    BY <1>5 DEF Clock, AudioInv
  <2> QED
    BY <1>5, <2>1, ShorterKeeps DEF Clock, AudioInv
<1>6. CASE MiscReset
  <2>1. audio' \in [Channel -> Setting]
    BY <1>0, <1>6 DEF MiscReset
  <2> QED
    BY <1>6, <2>1, ShorterKeeps DEF MiscReset, AudioInv
<1>7. CASE AudioNext
  BY <1>2, <1>3, <1>4, <1>5, <1>6, <1>7, OutputBlockingKeeps, OutputReturnsKeeps DEF AudioNext
<1>8. CASE GadgetNext
  BY <1>1, <1>8 DEF GadgetNext
<1> QED
  BY <1>1, <1>7, <1>8 DEF deviceVars

(* hle_OutputBlocking, for any number of threads and channels and any buffer lengths: the
   queue a channel's due time stands for is at most one buffer longer than what the
   threads held by it have put there, so a game's audio thread never runs further
   ahead of the clock than the hardware lets it - when several threads share a channel,
   when its length changes while one waits, after an underrun and after a reset. *)
THEOREM AheadStaysBounded == DevicesSpec => []AheadBounded
<1>1. DevicesInit => AudioInv
  BY InitAudioInv
<1>2. AudioInv /\ [AudioNext \/ GadgetNext]_deviceVars => AudioInv'
  BY NextAudioInv
<1>3. AudioInv => AheadBounded
  <2> SUFFICES ASSUME AudioInv, NEW c \in Channel
               PROVE  due[c] - now <= Max(PlayTimes) + Cardinality(HeldTime(c))
    BY DEF AheadBounded
  <2>1. /\ due[c] \in Nat /\ now \in Nat /\ Longest \in Nat /\ Cardinality(HeldTime(c)) \in Nat
        /\ due[c] <= now + (Longest + Cardinality(HeldTime(c)))
    BY LongestPlay, FS_CardinalityType DEF AudioInv
  <2>2. due[c] - now <= Longest + Cardinality(HeldTime(c))
    BY <2>1
  <2> QED
    BY <2>2 DEF Longest
<1> QED
  BY <1>1, <1>2, <1>3, PTL DEF DevicesSpec

-----------------------------------------------------------------------------
(* The vertices of a display list. *)

(* What vertex_layout's rounding promises for every size an element has. *)
LEMMA Rounds ==
    ASSUME NEW n \in Nat, NEW m \in {0, 1, 2, 4}
    PROVE  /\ AlignTo(n, m) \in Nat /\ n <= AlignTo(n, m)
           /\ m # 0 => AlignTo(n, m) % m = 0
<1>1. CASE m = 0
  BY <1>1 DEF AlignTo
<1>2. CASE m = 1
  BY <1>2 DEF AlignTo
<1>3. CASE m = 2
  BY <1>3 DEF AlignTo
<1>4. CASE m = 4
  BY <1>4 DEF AlignTo
<1> QED
  BY <1>1, <1>2, <1>3, <1>4

(* The sizes divide one another. *)
LEMMA Divides ==
    ASSUME NEW n \in Nat, NEW e \in {1, 2, 4}, NEW m \in {1, 2, 4}, e <= m, n % m = 0
    PROVE  n % e = 0
<1>1. CASE e = 1
  BY <1>1
<1>2. CASE e = 2 /\ m = 2
  BY <1>2
<1>3. CASE e = 2 /\ m = 4
  BY <1>3
<1>4. CASE e = 4
  BY <1>4
<1> QED
  BY <1>1, <1>2, <1>3, <1>4

LEMMA Elements ==
    ASSUME NEW v \in VTypes
    PROVE  /\ \A p \in Component : ElemSize(v, p) \in {0, 1, 2, 4}
           /\ Bytes(v, "tex") = ElemSize(v, "tex") * 2
           /\ Bytes(v, "color") = ElemSize(v, "color")
           /\ Bytes(v, "normal") = ElemSize(v, "normal") * 3
           /\ Bytes(v, "pos") = ElemSize(v, "pos") * 3
<1>1. /\ v.tex \in 0..3 /\ v.color \in 0..7 /\ v.normal \in 0..3 /\ v.pos \in 0..3
  BY GeAssumption
<1>2. \A i \in 0..3 : <<0, 1, 2, 4>>[i + 1] \in {0, 1, 2, 4}
  OBVIOUS
<1>3. \A i \in 0..7 : <<0, 0, 0, 0, 2, 2, 2, 4>>[i + 1] \in {0, 2, 4}
  OBVIOUS
<1>4. ElemSize(v, "tex") \in {0, 1, 2, 4}
  BY <1>1, <1>2 DEF ElemSize
<1>5. ElemSize(v, "color") \in {0, 1, 2, 4}
  BY <1>1, <1>3 DEF ElemSize
<1>6. ElemSize(v, "normal") \in {0, 1, 2, 4}
  BY <1>1, <1>2 DEF ElemSize
<1>7. ElemSize(v, "pos") \in {0, 1, 2, 4}
  BY <1>1, <1>2 DEF ElemSize
<1> QED
  BY <1>4, <1>5, <1>6, <1>7 DEF Component, Bytes

LEMMA Widths ==
    ASSUME NEW v \in VTypes
    PROVE  /\ Bytes(v, "tex") \in Nat /\ Bytes(v, "color") \in Nat
           /\ Bytes(v, "normal") \in Nat /\ Bytes(v, "pos") \in Nat
<1> DEFINE tex == ElemSize(v, "tex")
           col == ElemSize(v, "color")
           nor == ElemSize(v, "normal")
           pos == ElemSize(v, "pos")
<1>1. tex \in {0, 1, 2, 4} /\ col \in {0, 1, 2, 4} /\ nor \in {0, 1, 2, 4} /\ pos \in {0, 1, 2, 4}
  BY Elements DEF Component
<1> HIDE DEF tex, col, nor, pos
<1>2. tex * 2 \in Nat /\ col \in Nat /\ nor * 3 \in Nat /\ pos * 3 \in Nat
  BY <1>1
<1> QED
  BY <1>2, Elements DEF tex, col, nor, pos

(* The layout in the terms of the four element sizes. *)
LEMMA LayoutOf ==
    ASSUME NEW v \in VTypes, Layout(v).stride # 0
    PROVE  LET l == Layout(v) IN
           /\ l.tex = 0 /\ l.color \in Nat /\ l.normal \in Nat /\ l.pos \in Nat /\ l.stride \in Nat
           /\ l.tex + Bytes(v, "tex") <= l.color /\ l.color + Bytes(v, "color") <= l.normal
           /\ l.normal + Bytes(v, "normal") <= l.pos /\ l.pos + Bytes(v, "pos") <= l.stride
           /\ \A p \in Component : ElemSize(v, p) # 0 =>
                 l[p] % ElemSize(v, p) = 0 /\ l.stride % ElemSize(v, p) = 0
<1> DEFINE tex == ElemSize(v, "tex")
           col == ElemSize(v, "color")
           nor == ElemSize(v, "normal")
           pos == ElemSize(v, "pos")
           S == {ElemSize(v, p) : p \in Component}
           atC == AlignTo(Bytes(v, "tex"), col)
           endC == atC + Bytes(v, "color")
           atN == AlignTo(endC, nor)
           endN == atN + Bytes(v, "normal")
           atP == AlignTo(endN, pos)
           endP == atP + Bytes(v, "pos")
           end == AlignTo(endP, Max(S))
<1>1. /\ tex \in {0, 1, 2, 4} /\ col \in {0, 1, 2, 4} /\ nor \in {0, 1, 2, 4} /\ pos \in {0, 1, 2, 4}
      /\ Bytes(v, "tex") \in Nat /\ Bytes(v, "color") \in Nat /\ Bytes(v, "normal") \in Nat
      /\ Bytes(v, "pos") \in Nat
  BY Elements, Widths DEF Component
<1>2. /\ Layout(v).tex = 0 /\ Layout(v).color = atC /\ Layout(v).normal = atN
      /\ Layout(v).pos = atP /\ Layout(v).stride = end /\ pos # 0
  BY DEF Layout
<1>3. Max(S) \in {0, 1, 2, 4} /\ \A p \in Component : ElemSize(v, p) <= Max(S)
  <2>1. S \in SUBSET (0..4)
    BY Elements
  <2>2. S # {}
    BY DEF Component
  <2>3. Max(S) \in S /\ \A y \in S : Max(S) >= y
    BY <2>1, <2>2, MaxIsGreatest
  <2> HIDE DEF S
  <2>4. Max(S) \in {0, 1, 2, 4}
    BY <2>3, Elements DEF S
  <2>5. ASSUME NEW p \in Component PROVE ElemSize(v, p) <= Max(S)
    <3>1. ElemSize(v, p) \in S /\ ElemSize(v, p) \in {0, 1, 2, 4}
      BY Elements DEF S
    <3> QED
      BY <2>3, <2>4, <3>1
  <2> QED
    BY <2>4, <2>5
<1> HIDE DEF S, tex, col, nor, pos
<1>4. atC \in Nat /\ Bytes(v, "tex") <= atC /\ (col # 0 => atC % col = 0)
  BY <1>1, Rounds
<1> HIDE DEF atC
<1>. endC \in Nat
  BY <1>1, <1>4
<1> HIDE DEF endC
<1>5. atN \in Nat /\ endC <= atN /\ (nor # 0 => atN % nor = 0)
  BY <1>1, Rounds
<1> HIDE DEF atN
<1>. endN \in Nat
  BY <1>1, <1>5
<1> HIDE DEF endN
<1>6. atP \in Nat /\ endN <= atP /\ (pos # 0 => atP % pos = 0)
  BY <1>1, Rounds
<1> HIDE DEF atP
<1>. endP \in Nat
  BY <1>1, <1>6
<1> HIDE DEF endP
<1>7. end \in Nat /\ endP <= end /\ (Max(S) # 0 => end % Max(S) = 0)
  BY <1>1, <1>3, Rounds
<1> HIDE DEF end
<1>8. ASSUME NEW p \in Component, ElemSize(v, p) # 0
      PROVE  Layout(v)[p] % ElemSize(v, p) = 0 /\ Layout(v).stride % ElemSize(v, p) = 0
  <2>1. ElemSize(v, p) \in {1, 2, 4} /\ Max(S) \in {1, 2, 4} /\ ElemSize(v, p) <= Max(S)
    BY <1>3, <1>8, Elements
  <2>2. end % ElemSize(v, p) = 0
    BY <1>7, <2>1, Divides
  <2>3. Layout(v)[p] % ElemSize(v, p) = 0
    <3>1. CASE p = "tex"
      <4>1. Layout(v)[p] = 0
        BY <1>2, <3>1
      <4> QED
        BY <2>1, <4>1
    <3>2. CASE p = "color"
      BY <1>2, <1>4, <1>8, <3>2 DEF col
    <3>3. CASE p = "normal"
      BY <1>2, <1>5, <1>8, <3>3 DEF nor
    <3>4. CASE p = "pos"
      BY <1>2, <1>6, <1>8, <3>4 DEF pos
    <3> QED
      BY <3>1, <3>2, <3>3, <3>4 DEF Component
  <2> QED
    BY <1>2, <2>2, <2>3
<1>9. 0 + Bytes(v, "tex") <= atC
  BY <1>1, <1>4
<1> QED
  BY <1>2, <1>4, <1>5, <1>6, <1>7, <1>8, <1>9 DEF endC, endN, endP

(* A vertex type any list may set is laid out soundly. *)
LEMMA SoundLayouts == ASSUME verts.vtype \in VTypes PROVE LayoutSound
<1> DEFINE v == verts.vtype
           l == Layout(v)
<1> SUFFICES ASSUME l.stride # 0,
                    NEW p \in Component, ElemSize(v, p) # 0, NEW r \in Component, p # r
             PROVE  /\ l[p] % ElemSize(v, p) = 0 /\ l.stride % ElemSize(v, p) = 0
                    /\ l[p] + Bytes(v, p) <= l.stride
                    /\ l[p] + Bytes(v, p) <= l[r] \/ l[r] + Bytes(v, r) <= l[p]
  <2>1. \A p \in Component : \E r \in Component : p # r
    BY DEF Component
  <2> QED
    BY <2>1 DEF LayoutSound
<1>1. /\ l.tex = 0 /\ l.color \in Nat /\ l.normal \in Nat /\ l.pos \in Nat /\ l.stride \in Nat
      /\ l.tex + Bytes(v, "tex") <= l.color /\ l.color + Bytes(v, "color") <= l.normal
      /\ l.normal + Bytes(v, "normal") <= l.pos /\ l.pos + Bytes(v, "pos") <= l.stride
      /\ \A q \in Component : ElemSize(v, q) # 0 =>
            l[q] % ElemSize(v, q) = 0 /\ l.stride % ElemSize(v, q) = 0
  BY LayoutOf
<1>2. /\ Bytes(v, "tex") \in Nat /\ Bytes(v, "color") \in Nat /\ Bytes(v, "normal") \in Nat
      /\ Bytes(v, "pos") \in Nat
  BY Widths
<1> HIDE DEF l, v
<1>3. l[p] + Bytes(v, p) <= l.stride
  BY <1>1, <1>2 DEF Component
<1>4. l[p] + Bytes(v, p) <= l[r] \/ l[r] + Bytes(v, r) <= l[p]
  BY <1>1, <1>2 DEF Component
<1> QED
  BY <1>1, <1>3, <1>4

-----------------------------------------------------------------------------
(* Display lists. *)
Stacks   == Seq(Nat \ {0})
Commands == Steering \cup Drawing
Slots    == [used : BOOLEAN, id : Nat, list : Nat, stall : Nat]
Runs     == [q : 0..NQueues, stack : Stacks, budget : Nat]
Refs     == [pc : Nat, stack : Stacks]
Vertices == [vtype : VTypes, vaddr : BOOLEAN, iaddr : BOOLEAN, submitted : Nat, drawn : Nat,
             unsupported : Nat]

GeTyped == /\ words \in Seq(Commands)
           /\ verts \in Vertices
           /\ queue \in [Queue -> Slots]
           /\ nextId \in Nat \ {0}
           /\ run \in Runs
           /\ hw \in Seq(Refs)

(* A list that has not ended has one slot, which the running one keeps. *)
SlotsOwned ==
    /\ Len(run.stack) <= GeStack
    /\ Len(hw) = nextId - 1
    /\ run.q # 0 => queue[run.q].used
    /\ \A q \in Queue : queue[q].used => queue[q].id \in 1..nextId - 1 /\ queue[q].list # 0
    /\ \A q, r \in Queue : queue[q].used /\ queue[r].used /\ queue[q].id = queue[r].id => q = r
    /\ \A id \in (1..nextId - 1) \ astray :
          hw[id].pc # AtEnd => \E q \in Queue : queue[q].used /\ queue[q].id = id

(* A list that can be followed is where the reference is; between two runs it has no
   return addresses. *)
Followed ==
    \A q \in Queue : queue[q].used /\ queue[q].id \notin astray =>
        /\ hw[queue[q].id].pc = queue[q].list
        /\ hw[queue[q].id].stack = IF run.q = q THEN run.stack ELSE << >>

GeInv == GeTyped /\ SlotsOwned /\ Followed

LEMMA GeCounts == NQueues \in Nat /\ GeStack \in Nat /\ WalkBudget \in Nat /\ ListLen \in Nat
BY GeAssumption

LEMMA NoRunTyped == NoRun \in Runs /\ Len(NoRun.stack) = 0 /\ NoRun.q = 0 /\ NoRun.stack = << >>
BY GeCounts, EmptySeq DEF NoRun, Runs, Stacks

LEMMA InitGeInv == ASSUME GeInit PROVE GeInv
<1>1. words \in Seq(Commands) /\ hw \in Seq(Refs) /\ Len(hw) = 0
  BY EmptySeq DEF GeInit
<1>2. queue \in [Queue -> Slots] /\ \A q \in Queue : ~queue[q].used
  BY DEF GeInit, NoQueue, Slots
<1>3. verts \in Vertices
  <2>1. (CHOOSE v \in VTypes : TRUE) \in VTypes
    BY GeAssumption
  <2> QED
    BY <2>1 DEF GeInit, Vertices
<1>4. run \in Runs /\ Len(run.stack) = 0 /\ run.q = 0
  BY NoRunTyped DEF GeInit
<1> QED
  BY <1>1, <1>2, <1>3, <1>4, GeCounts DEF GeInit, GeInv, GeTyped, SlotsOwned, Followed

LEMMA WhatCommandsSay ==
    ASSUME NEW c \in Commands
    PROVE  /\ c.op \in {"jump", "call"} => c.arg \in Nat \ {0}
           /\ c.op = "vtype" => c.arg \in VTypes
           /\ c.op = "prim" => c.arg = 1
BY GeCounts DEF Commands, Steering, Drawing

LEMMA Fetched == ASSUME GeTyped, NEW a PROVE Fetch(a) \in Commands
<1>1. [op |-> "nop", arg |-> 0] \in Commands
  BY DEF Commands, Steering
<1>2. ASSUME a \in DOMAIN words PROVE words[a] \in Commands
  BY <1>2, LenProperties, ElementOfSeq DEF GeTyped
<1> QED
  BY <1>1, <1>2 DEF Fetch

(* Calls and returns on a stack. *)
LEMMA StackSteps ==
    ASSUME NEW s \in Stacks, NEW a \in Nat
    PROVE  /\ Len(s) \in Nat
           /\ Append(s, a + 1) \in Stacks /\ Len(Append(s, a + 1)) = Len(s) + 1
           /\ s # << >> => /\ s[Len(s)] \in Nat \ {0}
                           /\ SubSeq(s, 1, Len(s) - 1) \in Stacks
                           /\ Len(SubSeq(s, 1, Len(s) - 1)) = Len(s) - 1
<1>1. Len(s) \in Nat /\ (s # << >> => Len(s) \in Nat \ {0})
  BY EmptySeq, LenProperties DEF Stacks
<1>2. Append(s, a + 1) \in Stacks /\ Len(Append(s, a + 1)) = Len(s) + 1
  <2>1. a + 1 \in Nat \ {0}
    OBVIOUS
  <2> QED
    BY <2>1, AppendProperties DEF Stacks
<1>3. ASSUME s # << >>
      PROVE  /\ s[Len(s)] \in Nat \ {0}
             /\ SubSeq(s, 1, Len(s) - 1) \in Stacks
             /\ Len(SubSeq(s, 1, Len(s) - 1)) = Len(s) - 1
  <2>1. Len(s) \in 1..Len(s) /\ Len(s) - 1 \in Int /\ \A i \in 1..Len(s) - 1 : i \in 1..Len(s)
    BY <1>1, <1>3
  <2>2. s[Len(s)] \in Nat \ {0} /\ \A i \in 1..Len(s) - 1 : s[i] \in Nat \ {0}
    BY <2>1, ElementOfSeq DEF Stacks
  <2>3. /\ SubSeq(s, 1, Len(s) - 1) \in Stacks
        /\ Len(SubSeq(s, 1, Len(s) - 1)) = IF 1 <= Len(s) - 1 THEN Len(s) - 1 - 1 + 1 ELSE 0
    BY <2>1, <2>2, SubSeqProperties DEF Stacks
  <2>4. \A n \in Nat \ {0} : (IF 1 <= n - 1 THEN n - 1 - 1 + 1 ELSE 0) = n - 1
    OBVIOUS
  <2>5. Len(SubSeq(s, 1, Len(s) - 1)) = Len(s) - 1
    BY <1>1, <1>3, <2>3, <2>4, Zenon
  <2> QED
    BY <2>2, <2>3, <2>5
<1> QED
  BY <1>1, <1>2, <1>3

LEMMA LostTyped == Lost \in Refs /\ Lost.pc = AtEnd
BY EmptySeq DEF Lost, AtEnd, Refs, Stacks

LEMMA HwTyped == ASSUME NEW h \in Refs, NEW c \in Commands PROVE HwAfter(h, c) \in Refs
<1>1. h.pc \in Nat /\ h.stack \in Stacks
  BY DEF Refs
<1>2. /\ Append(h.stack, h.pc + 1) \in Stacks
      /\ h.stack # << >> => /\ h.stack[Len(h.stack)] \in Nat
                            /\ SubSeq(h.stack, 1, Len(h.stack) - 1) \in Stacks
  BY <1>1, StackSteps
<1>3. Lost \in Refs
  BY LostTyped
<1>4. h.pc + 1 \in Nat /\ h = [pc |-> h.pc, stack |-> h.stack]
  BY <1>1 DEF Refs
<1> HIDE DEF Lost
<1> QED
  BY <1>1, <1>2, <1>3, <1>4, WhatCommandsSay DEF HwAfter, Refs

(* Where a command that does not end the list takes it. *)
LEMMA HwMoves ==
    ASSUME NEW a, NEW s, NEW c, c.op # "finish"
    PROVE  LET g == HwAfter([pc |-> a, stack |-> s], c)
               back == c.op = "ret" /\ s # << >>
           IN /\ g.pc = IF c.op \in {"jump", "call"} THEN c.arg
                        ELSE IF back THEN s[Len(s)] ELSE a + 1
              /\ g.stack = IF c.op = "call" THEN Append(s, a + 1)
                           ELSE IF back THEN SubSeq(s, 1, Len(s) - 1) ELSE s
<1>1. CASE c.op = "jump"
  BY <1>1 DEF HwAfter
<1>2. CASE c.op = "call"
  BY <1>2 DEF HwAfter
<1>3. CASE c.op = "ret" /\ s # << >>
  BY <1>3 DEF HwAfter
<1>4. CASE c.op \notin {"jump", "call"} /\ ~(c.op = "ret" /\ s # << >>)
  BY <1>4 DEF HwAfter
<1> QED
  BY <1>1, <1>2, <1>3, <1>4

LEMMA RefChanged ==
    ASSUME GeInv, NEW h \in 1..nextId - 1, NEW x \in Refs, hw' = [hw EXCEPT ![h] = x]
    PROVE  /\ hw' \in Seq(Refs) /\ Len(hw') = nextId - 1
           /\ \A id \in 1..nextId - 1 : hw'[id] = IF id = h THEN x ELSE hw[id]
<1>1. hw \in Seq(Refs) /\ Len(hw) = nextId - 1
  BY DEF GeInv, GeTyped, SlotsOwned
<1>2. h \in 1..Len(hw)
  BY <1>1
<1>3. /\ hw' \in Seq(Refs) /\ Len(hw') = Len(hw)
      /\ \A id \in 1..Len(hw) : hw'[id] = IF id = h THEN x ELSE hw[id]
  <2> DEFINE k == [hw EXCEPT ![h] = x]
  <2>1. /\ k \in Seq(Refs) /\ Len(k) = Len(hw)
        /\ \A id \in 1..Len(hw) : k[id] = IF id = h THEN x ELSE hw[id]
    BY <1>1, <1>2, ExceptSeq
  <2> QED
    BY <2>1
<1> QED
  BY <1>1, <1>3, Zenon

(* The list that runs moves to l, and its reference to x. *)
LEMMA Moves ==
    ASSUME GeInv, run.q # 0, NEW x \in Refs, NEW l \in Nat \ {0},
           hw' = [hw EXCEPT ![queue[run.q].id] = x],
           queue' = [queue EXCEPT ![run.q].list = l],
           run' \in Runs, run'.q = run.q, Len(run'.stack) <= GeStack,
           astray' \in {astray, astray \cup {queue[run.q].id}},
           queue[run.q].id \notin astray' => x.pc = l /\ x.stack = run'.stack,
           verts' \in Vertices, UNCHANGED <<words, nextId>>
    PROVE  GeInv'
<1> DEFINE q == run.q
           h == queue[run.q].id
<1>1. q \in Queue /\ queue[q].used /\ h \in 1..nextId - 1 /\ nextId \in Nat \ {0}
  BY GeCounts DEF GeInv, GeTyped, SlotsOwned, Runs, Queue
<1>2. /\ hw' \in Seq(Refs) /\ Len(hw') = nextId - 1
      /\ \A id \in 1..nextId - 1 : hw'[id] = IF id = h THEN x ELSE hw[id]
  BY <1>1, RefChanged
<1>3. /\ queue' \in [Queue -> Slots]
      /\ \A r \in Queue : /\ queue'[r].used = queue[r].used /\ queue'[r].id = queue[r].id
                          /\ queue'[r].list = IF r = q THEN l ELSE queue[r].list
  BY <1>1 DEF GeInv, GeTyped, Slots
<1>4. GeTyped'
  BY <1>2, <1>3 DEF GeInv, GeTyped
<1>5. SlotsOwned'
  <2>1. \A r \in Queue : queue'[r].used => queue'[r].id \in 1..nextId - 1 /\ queue'[r].list # 0
    BY <1>3 DEF GeInv, SlotsOwned
  <2>2. \A r, s \in Queue : queue'[r].used /\ queue'[s].used /\ queue'[r].id = queue'[s].id => r = s
    BY <1>3 DEF GeInv, SlotsOwned
  <2>3. \A id \in (1..nextId - 1) \ astray' :
          hw'[id].pc # AtEnd => \E r \in Queue : queue'[r].used /\ queue'[r].id = id
    BY <1>1, <1>2, <1>3 DEF GeInv, SlotsOwned
  <2> QED
    BY <1>1, <1>2, <1>3, <2>1, <2>2, <2>3 DEF SlotsOwned
<1>6. Followed'
  <2> SUFFICES ASSUME NEW r \in Queue, queue'[r].used, queue'[r].id \notin astray'
               PROVE  /\ hw'[queue'[r].id].pc = queue'[r].list
                      /\ hw'[queue'[r].id].stack = IF run'.q = r THEN run'.stack ELSE << >>
    BY DEF Followed
  <2>1. queue[r].used /\ queue'[r].id = queue[r].id /\ queue[r].id \in 1..nextId - 1
    BY <1>3 DEF GeInv, SlotsOwned
  <2>2. CASE r = q
    BY <1>2, <1>3, <2>1, <2>2
  <2>3. CASE r # q
    <3>1. queue[r].id # h
      BY <1>1, <2>1, <2>3 DEF GeInv, SlotsOwned
    <3> QED
      BY <1>2, <1>3, <2>1, <2>3, <3>1 DEF GeInv, Followed
  <2> QED
    BY <2>2, <2>3
<1> QED
  BY <1>4, <1>5, <1>6 DEF GeInv

(* It ends. *)
LEMMA Ends ==
    ASSUME GeInv, run.q # 0, hw' = [hw EXCEPT ![queue[run.q].id] = Lost],
           EndList(run.q), astray' = astray, verts' \in Vertices, UNCHANGED <<words, nextId>>
    PROVE  GeInv'
<1> DEFINE q == run.q
           h == queue[run.q].id
<1>1. q \in Queue /\ queue[q].used /\ h \in 1..nextId - 1 /\ nextId \in Nat \ {0}
  BY GeCounts DEF GeInv, GeTyped, SlotsOwned, Runs, Queue
<1>2. /\ hw' \in Seq(Refs) /\ Len(hw') = nextId - 1
      /\ \A id \in 1..nextId - 1 : hw'[id] = IF id = h THEN Lost ELSE hw[id]
  BY <1>1, RefChanged, LostTyped
<1>3. /\ queue' \in [Queue -> Slots]
      /\ \A r \in Queue : /\ queue'[r].used <=> queue[r].used /\ r # q
                          /\ queue'[r].id = queue[r].id /\ queue'[r].list = queue[r].list
  BY <1>1 DEF EndList, GeInv, GeTyped, Slots
<1>4. run' = NoRun
  BY DEF EndList
<1>5. \A r \in Queue : queue[r].used /\ r # q => queue[r].id \in 1..nextId - 1 /\ queue[r].id # h
  BY <1>1 DEF GeInv, SlotsOwned
<1>6. GeTyped'
  BY <1>2, <1>3, <1>4, NoRunTyped DEF GeInv, GeTyped
<1>7. SlotsOwned'
  <2>1. \A id \in (1..nextId - 1) \ astray :
          hw'[id].pc # AtEnd => \E r \in Queue : queue'[r].used /\ queue'[r].id = id
    <3> SUFFICES ASSUME NEW id \in (1..nextId - 1) \ astray, hw'[id].pc # AtEnd
                 PROVE  \E r \in Queue : queue'[r].used /\ queue'[r].id = id
      OBVIOUS
    <3>1. id # h /\ hw[id].pc # AtEnd
      BY <1>2 DEF Lost
    <3>2. PICK r \in Queue : queue[r].used /\ queue[r].id = id
      BY <3>1 DEF GeInv, SlotsOwned
    <3>3. r # q
      BY <3>1, <3>2
    <3>4. queue'[r].used /\ queue'[r].id = id
      <4> HIDE DEF q
      <4>1. queue'[r].used
        BY <1>3, <3>2, <3>3
      <4> QED
        BY <1>3, <3>2, <4>1
    <3> QED
      BY <3>4
  <2> QED
    BY <1>2, <1>3, <1>4, <2>1, NoRunTyped, GeCounts DEF GeInv, SlotsOwned
<1>8. Followed'
  BY <1>2, <1>3, <1>4, <1>5, NoRunTyped DEF GeInv, Followed, Queue
<1> QED
  BY <1>6, <1>7, <1>8 DEF GeInv

LEMMA VerticesDrawn ==
    ASSUME GeInv, NEW c \in Commands
    PROVE  CASE c.op = "vtype" -> [verts EXCEPT !.vtype = c.arg] \in Vertices
             [] c.op = "vaddr" -> [verts EXCEPT !.vaddr = TRUE] \in Vertices
             [] c.op = "iaddr" -> [verts EXCEPT !.iaddr = TRUE] \in Vertices
             [] c.op = "prim"  -> DrawPrim(c.arg) \in Vertices
             [] OTHER -> verts \in Vertices
<1>1. verts \in Vertices
  BY DEF GeInv, GeTyped
<1>2. ASSUME c.op = "prim" PROVE DrawPrim(c.arg) \in Vertices
  <2>1. c.arg = 1
    BY <1>2, WhatCommandsSay
  <2>2. /\ verts.submitted + 1 \in Nat /\ verts.drawn + 1 \in Nat
        /\ verts.unsupported + 1 \in Nat
    BY <1>1 DEF Vertices
  <2> QED
    BY <1>1, <2>1, <2>2 DEF DrawPrim, Vertices
<1>3. ASSUME c.op = "vtype" PROVE [verts EXCEPT !.vtype = c.arg] \in Vertices
  BY <1>1, <1>3, WhatCommandsSay DEF Vertices
<1>4. [verts EXCEPT !.vaddr = TRUE] \in Vertices /\ [verts EXCEPT !.iaddr = TRUE] \in Vertices
  BY <1>1 DEF Vertices
<1> QED
  BY <1>1, <1>2, <1>3, <1>4

LEMMA WalkCommandKeeps == ASSUME GeInv, WalkCommand PROVE GeInv'
<1> DEFINE q == run.q
           a == queue[q].list
           c == Fetch(a)
           h == queue[q].id
           s == run.stack
           x == IF h \in astray' THEN Lost ELSE HwAfter(hw[h], c)
           back == c.op = "ret" /\ s # << >>
           l == IF c.op \in {"jump", "call"} THEN c.arg ELSE IF back THEN s[Len(s)] ELSE a + 1
           rest == IF c.op = "call" THEN Push(s, a)
                   ELSE IF back THEN SubSeq(s, 1, Len(s) - 1) ELSE s
<1>1. /\ q # 0 /\ run.budget > 0 /\ UNCHANGED <<words, nextId>>
      /\ astray' = IF c.op = "call" /\ Len(s) = GeStack THEN astray \cup {h} ELSE astray
  BY DEF WalkCommand
<1>2. /\ q \in Queue /\ queue[q].used /\ h \in 1..nextId - 1 /\ a \in Nat \ {0}
      /\ s \in Stacks /\ Len(s) \in Nat /\ Len(s) <= GeStack /\ run \in Runs
  <2>1. q \in Queue /\ run \in Runs /\ s \in Stacks
    BY <1>1, GeCounts DEF GeInv, GeTyped, Runs, Queue
  <2>2. queue[q].used /\ queue[q] \in Slots
    BY <1>1, <2>1 DEF GeInv, GeTyped, SlotsOwned
  <2> QED
    BY <2>1, <2>2, LenProperties DEF GeInv, SlotsOwned, Slots, Stacks
<1>3. c \in Commands
  BY Fetched DEF GeInv
<1>4. hw[h] \in Refs /\ h \in DOMAIN hw
  <2>1. hw \in Seq(Refs) /\ Len(hw) = nextId - 1
    BY DEF GeInv, GeTyped, SlotsOwned
  <2> QED
    BY <1>2, <2>1, ElementOfSeq, LenProperties
<1>5. x \in Refs
  BY <1>3, <1>4, HwTyped, LostTyped
<1>6. hw' = [hw EXCEPT ![h] = x]
  BY <1>4 DEF WalkCommand
<1>7. verts' \in Vertices
  BY <1>3, VerticesDrawn DEF WalkCommand
<1>8. CASE c.op = "finish"
  <2>1. EndList(q) /\ astray' = astray
    BY <1>1, <1>8 DEF WalkCommand
  <2>2. x = Lost
    BY <1>8 DEF HwAfter
  <2> HIDE DEF x
  <2> QED
    BY <1>1, <1>6, <1>7, <2>1, <2>2, Ends
<1>9. CASE c.op # "finish"
  <2>1. queue' = [queue EXCEPT ![q].list = l]
        /\ run' = [run EXCEPT !.budget = @ - 1, !.stack = rest]
    BY <1>9 DEF WalkCommand
  <2>2. /\ l \in Nat \ {0} /\ rest \in Stacks /\ Len(rest) <= GeStack
    <3>1. /\ Append(s, a + 1) \in Stacks /\ Len(Append(s, a + 1)) = Len(s) + 1
          /\ s # << >> => /\ s[Len(s)] \in Nat \ {0}
                          /\ SubSeq(s, 1, Len(s) - 1) \in Stacks
                          /\ Len(SubSeq(s, 1, Len(s) - 1)) = Len(s) - 1
      BY <1>2, StackSteps
    <3> HIDE DEF s, a, c
    <3>2. Len(s) < GeStack => Len(s) + 1 <= GeStack
      BY <1>2, GeCounts
    <3>3. Push(s, a) \in Stacks /\ Len(Push(s, a)) <= GeStack
      BY <1>2, <3>1, <3>2, GeCounts DEF Push
    <3>4. s # << >> => Len(SubSeq(s, 1, Len(s) - 1)) <= GeStack
      BY <1>2, <3>1, GeCounts
    <3>5. l \in Nat \ {0}
      BY <1>2, <1>3, <3>1, WhatCommandsSay
    <3> QED
      BY <1>2, <3>1, <3>3, <3>4, <3>5
  <2>3. ASSUME h \notin astray' PROVE x.pc = l /\ x.stack = rest
    <3>1. hw[h].pc = a /\ hw[h].stack = s
      BY <1>1, <1>2, <2>3 DEF GeInv, Followed
    <3>2. c.op = "call" => Push(s, a) = Append(s, a + 1)
      BY <1>1, <1>2, <2>3, GeCounts DEF Push
    <3>3. x = HwAfter([pc |-> a, stack |-> s], c)
      <4>1. hw[h] = [pc |-> a, stack |-> s]
        BY <1>4, <3>1 DEF Refs
      <4> QED
        BY <2>3, <4>1
    <3> HIDE DEF a, s, c
    <3> DEFINE g == HwAfter([pc |-> a, stack |-> s], c)
    <3>4. /\ g.pc = l
          /\ g.stack = IF c.op = "call" THEN Append(s, a + 1)
                       ELSE IF back THEN SubSeq(s, 1, Len(s) - 1) ELSE s
      BY <1>9, HwMoves
    <3> HIDE DEF g
    <3>5. g.stack = rest
      BY <3>2, <3>4
    <3> HIDE DEF x, l, rest
    <3>6. x = g
      BY <3>3 DEF g
    <3> QED
      BY <3>4, <3>5, <3>6
  <2>4. run' \in Runs /\ run'.q = q /\ run'.stack = rest
    <3> HIDE DEF rest
    <3>1. run.budget - 1 \in Nat
      BY <1>1, <1>2 DEF Runs
    <3> QED
      BY <1>2, <2>1, <2>2, <3>1 DEF Runs
  <2> HIDE DEF x, l, rest
  <2> QED
    BY <1>1, <1>5, <1>6, <1>7, <2>1, <2>2, <2>3, <2>4, Moves
<1> QED
  BY <1>8, <1>9

(* The run stops: a list that still has return addresses is followed no longer. *)
LEMMA WalkStopsKeeps == ASSUME GeInv, WalkStops PROVE GeInv'
<1> DEFINE q == run.q
           h == queue[run.q].id
<1>1. q # 0 /\ run' = NoRun /\ UNCHANGED <<words, queue, nextId, verts>>
  BY DEF WalkStops
<1>2. q \in Queue /\ queue[q].used /\ h \in 1..nextId - 1 /\ nextId \in Nat \ {0}
  BY <1>1, GeCounts DEF GeInv, GeTyped, SlotsOwned, Runs, Queue
<1>3. CASE run.stack = << >>
  <2>1. UNCHANGED <<hw, astray>>
    BY <1>3 DEF WalkStops
  <2>2. GeTyped' /\ SlotsOwned'
    BY <1>1, <2>1, NoRunTyped, GeCounts DEF GeInv, GeTyped, SlotsOwned
  <2>3. Followed'
    BY <1>1, <1>3, <2>1, NoRunTyped DEF GeInv, Followed
  <2> QED
    BY <2>2, <2>3 DEF GeInv
<1>4. CASE run.stack # << >>
  <2>1. astray' = astray \cup {h} /\ hw' = [hw EXCEPT ![h] = Lost]
    BY <1>4 DEF WalkStops
  <2>2. /\ hw' \in Seq(Refs) /\ Len(hw') = nextId - 1
        /\ \A id \in 1..nextId - 1 : hw'[id] = IF id = h THEN Lost ELSE hw[id]
    BY <1>2, <2>1, RefChanged, LostTyped
  <2>3. GeTyped'
    BY <1>1, <2>2, NoRunTyped DEF GeInv, GeTyped
  <2>4. SlotsOwned'
    <3>1. \A id \in (1..nextId - 1) \ astray' :
            hw'[id].pc # AtEnd => \E r \in Queue : queue[r].used /\ queue[r].id = id
      BY <2>1, <2>2 DEF GeInv, SlotsOwned
    <3> QED
      BY <1>1, <2>2, <3>1, NoRunTyped, GeCounts DEF GeInv, SlotsOwned
  <2>5. Followed'
    <3> SUFFICES ASSUME NEW r \in Queue, queue[r].used, queue[r].id \notin astray'
                 PROVE  hw'[queue[r].id].pc = queue[r].list /\ hw'[queue[r].id].stack = << >>
      BY <1>1, NoRunTyped DEF Followed, Queue
    <3>1. queue[r].id \in 1..nextId - 1 /\ queue[r].id # h /\ r # q /\ queue[r].id \notin astray
      BY <2>1 DEF GeInv, SlotsOwned
    <3> QED
      BY <2>2, <3>1 DEF GeInv, Followed
  <2> QED
    BY <2>3, <2>4, <2>5 DEF GeInv
<1> QED
  BY <1>3, <1>4

LEMMA RunBegins ==
    ASSUME NEW q \in Queue
    PROVE  /\ Running(q) \in Runs /\ Running(q).q = q /\ q # 0
           /\ Running(q).stack = << >> /\ Len(Running(q).stack) = 0
BY GeCounts, EmptySeq DEF Running, Runs, Stacks, Queue

LEMMA ListEnQueueKeeps ==
    ASSUME GeInv, NEW list \in 1..ListLen, NEW stall \in Nat, ListEnQueue(list, stall)
    PROVE  GeInv'
<1> DEFINE free == {r \in Queue : ~queue[r].used}
           q == Min(free)
           new == [used |-> TRUE, id |-> nextId, list |-> list, stall |-> stall]
           ref == [pc |-> list, stack |-> << >>]
<1>1. /\ run = NoRun /\ queue' = [queue EXCEPT ![q] = new] /\ run' = Running(q)
      /\ nextId' = nextId + 1 /\ hw' = Append(hw, ref) /\ UNCHANGED <<words, verts, astray>>
  BY DEF ListEnQueue
<1>2. q \in Queue /\ ~queue[q].used
  <2>1. free \in SUBSET Nat
    BY GeCounts DEF Queue
  <2>2. free # {}
    BY DEF ListEnQueue
  <2>3. q \in free
    BY <2>1, <2>2, MinIsLeast
  <2> QED
    BY <2>3
<1> HIDE DEF q
<1>3. new \in Slots /\ new.used /\ new.id = nextId /\ new.list = list /\ list \in Nat \ {0}
  BY GeCounts DEF Slots, GeInv, GeTyped
<1>4. ref \in Refs /\ ref.pc = list /\ ref.stack = << >>
  BY <1>3, EmptySeq DEF Refs, Stacks
<1> HIDE DEF new, ref
<1>5. nextId \in Nat \ {0} /\ hw \in Seq(Refs) /\ Len(hw) = nextId - 1
  BY DEF GeInv, GeTyped, SlotsOwned
<1>6. /\ hw' \in Seq(Refs) /\ Len(hw') = nextId /\ hw'[nextId] = ref
      /\ \A id \in 1..nextId - 1 : hw'[id] = hw[id]
  <2>1. /\ hw' \in Seq(Refs) /\ Len(hw') = Len(hw) + 1 /\ hw'[Len(hw) + 1] = ref
        /\ \A id \in 1..Len(hw) : hw'[id] = hw[id]
    BY <1>1, <1>4, <1>5, AppendProperties
  <2>2. Len(hw) + 1 = nextId
    BY <1>5
  <2> QED
    BY <1>5, <2>1, <2>2
<1>7. /\ queue' \in [Queue -> Slots]
      /\ \A r \in Queue : queue'[r] = IF r = q THEN new ELSE queue[r]
  BY <1>1, <1>2, <1>3 DEF GeInv, GeTyped
<1>8. /\ \A id : id \in 1..nextId' - 1 <=> id \in 1..nextId - 1 \/ id = nextId
      /\ nextId \notin 1..nextId - 1 /\ nextId' \in Nat \ {0} /\ nextId' - 1 = nextId
  BY <1>1, <1>5
<1>9. \A r \in Queue : queue[r].used => queue[r].id \in 1..nextId - 1 /\ queue[r].id # nextId
  BY <1>8 DEF GeInv, SlotsOwned
<1>10. /\ run' \in Runs /\ run'.q = q /\ q # 0 /\ run'.stack = << >> /\ Len(run'.stack) = 0
       /\ run.q = 0
  BY <1>1, <1>2, RunBegins, NoRunTyped
<1>11. GeTyped'
  BY <1>1, <1>6, <1>7, <1>8, <1>10 DEF GeInv, GeTyped
<1>12. SlotsOwned'
  <2>1. \A r \in Queue : queue'[r].used => queue'[r].id \in 1..nextId' - 1 /\ queue'[r].list # 0
    BY <1>3, <1>7, <1>8 DEF GeInv, SlotsOwned
  <2>2. \A r, s \in Queue : queue'[r].used /\ queue'[s].used /\ queue'[r].id = queue'[s].id => r = s
    BY <1>3, <1>7, <1>9 DEF GeInv, SlotsOwned
  <2>3. ASSUME NEW id \in (1..nextId' - 1) \ astray', hw'[id].pc # AtEnd
        PROVE  \E r \in Queue : queue'[r].used /\ queue'[r].id = id
    <3>1. CASE id = nextId
      BY <1>2, <1>3, <1>7, <3>1
    <3>2. CASE id \in 1..nextId - 1
      <4>1. PICK r \in Queue : queue[r].used /\ queue[r].id = id
        BY <1>1, <1>6, <2>3, <3>2 DEF GeInv, SlotsOwned
      <4> QED
        BY <1>2, <1>7, <4>1
    <3> QED
      BY <1>8, <3>1, <3>2
  <2>4. queue'[q].used
    BY <1>2, <1>3, <1>7
  <2>5. Len(run'.stack) <= GeStack /\ Len(hw') = nextId' - 1
    BY <1>6, <1>8, <1>10, GeCounts
  <2>6. run'.q # 0 => queue'[run'.q].used
    BY <1>10, <2>4
  <2> QED
    BY <2>1, <2>2, <2>3, <2>5, <2>6 DEF SlotsOwned
<1>13. Followed'
  <2> SUFFICES ASSUME NEW r \in Queue, queue'[r].used, queue'[r].id \notin astray
               PROVE  hw'[queue'[r].id].pc = queue'[r].list /\ hw'[queue'[r].id].stack = << >>
    BY <1>1, <1>10 DEF Followed
  <2>1. CASE r = q
    BY <1>3, <1>4, <1>6, <1>7, <2>1
  <2>2. CASE r # q
    <3>1. queue'[r] = queue[r] /\ queue[r].used
      BY <1>7, <2>2
    <3>2. hw[queue[r].id].pc = queue[r].list /\ hw[queue[r].id].stack = << >>
      BY <1>10, <3>1 DEF GeInv, Followed, Queue
    <3> QED
      BY <1>6, <1>9, <3>1, <3>2
  <2> QED
    BY <2>1, <2>2
<1> QED
  BY <1>11, <1>12, <1>13 DEF GeInv

LEMMA ListUpdateStallAddrKeeps ==
    ASSUME GeInv, NEW id \in Nat, NEW stall \in Nat, ListUpdateStallAddr(id, stall)
    PROVE  GeInv'
<1>1. PICK q \in Queue : /\ queue[q].used /\ queue' = [queue EXCEPT ![q].stall = stall]
                         /\ run' = Running(q)
  BY DEF ListUpdateStallAddr
<1>2. run = NoRun /\ UNCHANGED <<words, nextId, verts, hw, astray>>
  BY DEF ListUpdateStallAddr
<1>3. /\ queue' \in [Queue -> Slots]
      /\ \A r \in Queue : /\ queue'[r].used = queue[r].used /\ queue'[r].id = queue[r].id
                          /\ queue'[r].list = queue[r].list
  BY <1>1 DEF GeInv, GeTyped, Slots
<1>4. /\ run' \in Runs /\ run'.q = q /\ q # 0 /\ run'.stack = << >> /\ Len(run'.stack) = 0
      /\ run.q = 0
  BY <1>1, <1>2, RunBegins, NoRunTyped
<1>5. GeTyped'
  BY <1>2, <1>3, <1>4 DEF GeInv, GeTyped
<1>6. SlotsOwned'
  BY <1>1, <1>2, <1>3, <1>4, GeCounts DEF GeInv, SlotsOwned
<1>7. Followed'
  BY <1>2, <1>3, <1>4 DEF GeInv, Followed, Queue
<1> QED
  BY <1>5, <1>6, <1>7 DEF GeInv

LEMMA NextGeInv == ASSUME GeInv, [GeNext(Commands)]_geVars PROVE GeInv'
<1>1. CASE UNCHANGED geVars
  BY <1>1 DEF geVars, GeInv, GeTyped, SlotsOwned, Followed
<1>2. ASSUME NEW c \in Commands, WriteWord(c) PROVE GeInv'
  <2>1. words' \in Seq(Commands)
    BY <1>2, AppendProperties DEF WriteWord, GeInv, GeTyped
  <2> QED
    BY <1>2, <2>1 DEF WriteWord, GeInv, GeTyped, SlotsOwned, Followed
<1>3. Len(words) + 1 \in Nat /\ nextId - 1 \in Nat
  BY LenProperties DEF GeInv, GeTyped
<1>4. ASSUME NEW list \in 1..ListLen, NEW stall \in 0..Len(words) + 1, ListEnQueue(list, stall)
      PROVE  GeInv'
  BY <1>3, <1>4, ListEnQueueKeeps
<1>5. ASSUME NEW id \in 1..nextId - 1, NEW stall \in 0..Len(words) + 1, ListUpdateStallAddr(id, stall)
      PROVE  GeInv'
  BY <1>3, <1>5, ListUpdateStallAddrKeeps
<1>6. CASE GeAnswer
  BY <1>1, <1>6 DEF GeAnswer
<1> QED
  BY <1>1, <1>2, <1>4, <1>5, <1>6, WalkCommandKeeps, WalkStopsKeeps DEF GeNext

(* run_list, hle_ListEnQueue and hle_ListUpdateStallAddr, for any number of slots, any
   depth of stack and any lists: a list that is run in pieces as the CPU moves its stall
   address takes the same path as one that is not, and a list has a slot until it has
   ended and no longer - as long as it does not stall inside a CALL or nest too deep. *)
THEOREM ListsStayInLockstep == GeSpec => []ListsInLockstep
<1>1. GeInit => GeInv
  BY InitGeInv
<1>2. GeInv /\ [GeNext(Commands)]_geVars => GeInv'
  BY NextGeInv
<1>3. GeInv => ListsInLockstep
  <2> SUFFICES ASSUME GeInv, NEW id \in DOMAIN hw \ astray
               PROVE  LET slots == {q \in Queue : queue[q].used /\ queue[q].id = id}
                      IN IF hw[id].pc = AtEnd THEN slots = {}
                         ELSE \E q \in slots : /\ hw[id].pc = queue[q].list
                                               /\ run.q = q => hw[id].stack = run.stack
    BY DEF ListsInLockstep
  <2>1. id \in (1..nextId - 1) \ astray
    BY LenProperties DEF GeInv, GeTyped, SlotsOwned
  <2>2. \A q \in Queue : queue[q].used /\ queue[q].id = id =>
           /\ hw[id].pc = queue[q].list /\ queue[q].list # 0
           /\ run.q = q => hw[id].stack = run.stack
    BY DEF GeInv, SlotsOwned, Followed
  <2> QED
    BY <2>1, <2>2 DEF GeInv, SlotsOwned, AtEnd
<1> QED
  BY <1>1, <1>2, <1>3, PTL DEF GeSpec, Commands

(* vertex_layout, for every vertex type GE_VERTEXTYPE can set: components are aligned in
   every vertex of an array, lie within the vertex and share no byte. *)
THEOREM LayoutsStaySound == GeSpec => []LayoutSound
<1>1. GeInit => GeInv
  BY InitGeInv
<1>2. GeInv /\ [GeNext(Commands)]_geVars => GeInv'
  BY NextGeInv
<1>3. GeInv => LayoutSound
  BY SoundLayouts DEF GeInv, GeTyped, Vertices
<1> QED
  BY <1>1, <1>2, <1>3, PTL DEF GeSpec, Commands

-----------------------------------------------------------------------------
(* Loading a module. *)
Imaged == \E n \in 1..ImageLen : image \in [0..n - 1 -> {"null", "code", "other"}]

LEMMA Segment ==
    ASSUME Imaged
    PROVE  /\ Filesz \in Nat /\ Filesz > 0 /\ Filesz <= ImageLen /\ ImageLen \in Nat
           /\ DOMAIN image = 0..Filesz - 1
           /\ Low \in Nat /\ Low <= Filesz
           /\ \A p \in Nat : p >= Filesz => Read32(p) = "null"
<1>1. PICK n \in 1..ImageLen : image \in [0..n - 1 -> {"null", "code", "other"}]
  BY DEF Imaged
<1>2. n \in Nat /\ n > 0 /\ n <= ImageLen /\ ImageLen \in Nat /\ Window \in Nat /\ DOMAIN image = 0..n - 1
  BY <1>1, LoaderAssumption
<1>3. Filesz = n
  <2>1. n - 1 \in Int /\ ~(0 > n - 1) /\ n - 1 - 0 + 1 = n
    BY <1>2
  <2> QED
    BY <1>2, <2>1, FS_Interval DEF Filesz
<1> QED
  BY <1>2, <1>3 DEF Low, Read32

LEMMA RunOf ==
    ASSUME Imaged, NEW a \in Nat, RunAt(a).n <= MaxTable
    PROVE  /\ RunAt(a).n \in Nat /\ RunAt(a).stop = a + RunAt(a).n
           /\ Read32(a + RunAt(a).n) # "code"
           /\ \A p \in a..a + RunAt(a).n - 1 : Read32(p) = "code"
<1> DEFINE S == {p \in a..a + Filesz + 1 : Read32(p) # "code"}
           stop == Min(S)
<1>1. Filesz \in Nat /\ MaxTable \in Nat
  BY Segment, LoaderAssumption
<1>2. S \in SUBSET Nat
  BY <1>1
<1>3. a + Filesz \in S
  <2>1. a + Filesz \in a..a + Filesz + 1 /\ a + Filesz \in Nat /\ a + Filesz >= Filesz
    BY <1>1
  <2>2. Read32(a + Filesz) = "null"
    BY <2>1, Segment
  <2> QED
    BY <2>1, <2>2
<1>4. stop \in S /\ \A y \in S : stop <= y
  BY <1>2, <1>3, MinIsLeast
<1>5. stop \in Nat /\ a <= stop /\ stop <= a + Filesz /\ Read32(stop) # "code"
  BY <1>1, <1>3, <1>4
<1>6. ASSUME NEW p \in a..stop - 1 PROVE Read32(p) = "code"
  <2>1. p \in a..a + Filesz + 1 /\ ~(stop <= p)
    BY <1>1, <1>5
  <2> QED
    BY <1>4, <2>1
<1>7. RunAt(a) = IF stop - a > MaxTable THEN [n |-> MaxTable + 1, stop |-> a + MaxTable]
                 ELSE [n |-> stop - a, stop |-> stop]
  BY DEF RunAt
<1> HIDE DEF stop, S
<1>8. RunAt(a).n = stop - a /\ RunAt(a).stop = stop
  BY <1>1, <1>5, <1>7
<1>9. stop - a \in Nat /\ a + (stop - a) = stop
  BY <1>5
<1> QED
  BY <1>5, <1>6, <1>8, <1>9

(* A run is a table of its own length or none, and nothing in its middle is. *)
LEMMA TableIsRun ==
    ASSUME Imaged, NEW a \in Nat, RunAt(a).n <= MaxTable, NEW n \in Nat, Table(a, n)
    PROVE  n = RunAt(a).n
<1> DEFINE k == RunAt(a).n
<1>1. k \in Nat /\ Read32(a + k) # "code" /\ \A p \in a..a + k - 1 : Read32(p) = "code"
  BY RunOf
<1>2. Read32(a + n) = "null" /\ \A p \in a..a + n - 1 : Read32(p) = "code"
  BY DEF Table
<1> HIDE DEF k
<1>3. ~(n < k)
  <2>1. n < k => a + n \in a..a + k - 1
    BY <1>1
  <2> QED
    BY <1>1, <1>2, <2>1
<1>4. ~(k < n)
  <2>1. k < n => a + k \in a..a + n - 1
    BY <1>1
  <2> QED
    BY <1>1, <1>2, <2>1
<1>5. n = k
  BY <1>1, <1>3, <1>4
<1> QED
  BY <1>5 DEF k

(* A table lies in the image. *)
LEMMA TableInside ==
    ASSUME Imaged, NEW a \in Nat, NEW n \in Nat, Table(a, n)
    PROVE  n >= 2 /\ a \in DOMAIN image /\ a + 1 < Filesz /\ n <= Filesz
<1>1. n >= 2 /\ \A p \in a..a + n - 1 : Read32(p) = "code"
  BY DEF Table
<1>2. Filesz \in Nat /\ DOMAIN image = 0..Filesz - 1
  BY Segment
<1>3. \A p \in Nat : Read32(p) = "code" => p < Filesz
  BY <1>2 DEF Read32
<1>4. a + n - 1 \in Nat /\ a + n - 1 \in a..a + n - 1
  BY <1>1
<1>5. a + n - 1 < Filesz
  BY <1>1, <1>3, <1>4
<1> QED
  BY <1>1, <1>2, <1>4, <1>5

NoLongRun == \A a \in DOMAIN image : RunAt(a).n <= MaxTable

(* The scan has found the longest table before x, the first of equals. *)
BestBefore(x) ==
    \/ best = NoTable /\ \A a, n \in Nat : a < x => ~Table(a, n)
    \/ /\ best.addr \in Nat /\ best.n \in Nat /\ best.addr < x /\ Table(best.addr, best.n)
       /\ \A a, n \in Nat : a < x /\ Table(a, n) => n < best.n \/ (n = best.n /\ best.addr <= a)

Walked == /\ called \in Seq(Int) /\ Len(called) <= best.n
          /\ \A i \in 1..Len(called) : called[i] = best.addr + i - 1

Progress ==
    /\ phase \in {"file", "scan", "loaded", "start", "started", "failed"}
    /\ phase = "file" => best = NoTable
    /\ phase = "scan" => /\ at \in Nat /\ Low <= at /\ BestBefore(at)
                         /\ at = Low \/ Read32(at - 1) # "code" \/ Read32(at) # "code"
    /\ phase \in {"loaded", "start", "started"} => BestBefore(Filesz)
    /\ phase \in {"file", "scan", "loaded"} => called = << >>
    /\ phase = "start" => Walked /\ at = best.addr + Len(called)
    /\ phase = "started" => /\ called \in Seq(Int) /\ Len(called) = best.n + 1
                            /\ called[best.n + 1] = EntryPoint
                            /\ \A i \in 1..best.n : called[i] = best.addr + i - 1

LoaderInv == Imaged /\ (NoLongRun => Progress)

LEMMA InitLoaderInv == ASSUME LoaderInit PROVE LoaderInv
<1>1. Imaged
  BY DEF LoaderInit, Imaged
<1> QED
  BY <1>1 DEF LoaderInit, LoaderInv, Progress

LEMMA CtorsFindKeeps ==
    ASSUME Imaged, NoLongRun, Progress, CtorsFind
    PROVE  /\ at' \in Nat /\ Low <= at' /\ BestBefore(at)'
           /\ at' = Low \/ Read32(at' - 1) # "code" \/ Read32(at') # "code"
<1> DEFINE r == RunAt(at)
           n == r.n
<1>1. /\ phase = "scan" /\ at + 1 < Filesz /\ UNCHANGED image
      /\ best' = IF Accepts(r) THEN [addr |-> at, n |-> n] ELSE best
      /\ at' = IF n > 0 THEN r.stop ELSE at + 1
  BY DEF CtorsFind
<1>2. /\ at \in Nat /\ Low <= at /\ BestBefore(at) /\ Low \in Nat /\ Filesz \in Nat
      /\ at = Low \/ Read32(at - 1) # "code" \/ Read32(at) # "code"
  BY <1>1, Segment DEF Progress
<1>3. at \in DOMAIN image /\ RunAt(at).n <= MaxTable
  BY <1>1, <1>2, Segment DEF NoLongRun
<1>4. /\ n \in Nat /\ r.stop = at + n /\ Read32(at + n) # "code"
      /\ \A p \in at..at + n - 1 : Read32(p) = "code"
  BY <1>2, <1>3, RunOf
<1>5. \A b \in Nat, m \in Nat : Table(b, m) /\ b = at => m = n
  BY <1>3, TableIsRun
<1>6. Accepts(r) <=> n >= 2 /\ Read32(at + n) = "null" /\ n > best.n
  BY <1>4 DEF Accepts
<1> HIDE DEF n, r
<1>7. at' \in Nat /\ at' > at /\ at' = IF n > 0 THEN at + n ELSE at + 1
  BY <1>1, <1>2, <1>4
<1>8. at' = Low \/ Read32(at' - 1) # "code" \/ Read32(at') # "code"
  <2>1. CASE n > 0
    BY <1>4, <1>7, <2>1
  <2>2. CASE n = 0
    <3>1. at' - 1 = at /\ at + n = at
      BY <1>2, <1>7, <2>2
    <3> QED
      BY <1>4, <3>1
  <2> QED
    BY <1>4, <2>1, <2>2
<1>9. ASSUME NEW b \in Nat, NEW m \in Nat, b < at', at <= b, Table(b, m)
      PROVE  b = at /\ m = n /\ n >= 2 /\ Read32(at + n) = "null"
  <2>1. b = at
    <3>1. b > at => b - 1 \in at..at + n - 1 /\ b > Low
      BY <1>2, <1>4, <1>7, <1>9
    <3>2. b > Low => Read32(b - 1) # "code"
      BY <1>9 DEF Table
    <3>3. ~(b > at)
      BY <1>4, <3>1, <3>2
    <3> QED
      BY <1>2, <1>9, <3>3
  <2>2. m = n
    BY <1>5, <1>9, <2>1
  <2> QED
    BY <1>9, <2>1, <2>2 DEF Table
<1>10. CASE Accepts(r)
  <2>1. best' = [addr |-> at, n |-> n] /\ n >= 2 /\ Read32(at + n) = "null" /\ n > best.n
    BY <1>1, <1>6, <1>10
  <2>2. Table(at, n)
    <3>1. at \in at..at + n - 1
      BY <1>2, <1>4, <2>1
    <3>2. Read32(at) = "code"
      BY <1>4, <3>1
    <3>3. at > Low => Read32(at - 1) # "code"
      BY <1>2, <3>2
    <3> QED
      BY <1>2, <1>4, <2>1, <3>3 DEF Table
  <2>3. ASSUME NEW b \in Nat, NEW m \in Nat, b < at', Table(b, m)
        PROVE  m < n \/ (m = n /\ at <= b)
    <3>1. CASE at <= b
      BY <1>9, <2>3, <3>1
    <3>2. CASE b < at
      <4>1. best.n \in Nat /\ m <= best.n
        BY <1>2, <2>3, <3>2 DEF BestBefore, NoTable
      <4> QED
        BY <1>4, <2>1, <4>1
    <3> QED
      BY <1>2, <3>1, <3>2
  <2>4. best'.addr = at /\ best'.n = n
    BY <2>1
  <2>5. \A b, m \in Nat : Table(b, m)' <=> Table(b, m)
    BY <1>1 DEF Table, Low, Read32, Filesz
  <2>6. BestBefore(at)'
    BY <1>2, <1>4, <1>7, <2>2, <2>3, <2>4, <2>5 DEF BestBefore
  <2> QED
    BY <1>2, <1>7, <1>8, <2>6
<1>11. CASE ~Accepts(r)
  <2>1. best' = best
    BY <1>1, <1>11
  <2>2. \A b, m \in Nat : Table(b, m)' <=> Table(b, m)
    BY <1>1 DEF Table, Low, Read32, Filesz
  <2>3. CASE best = NoTable /\ \A b, m \in Nat : b < at => ~Table(b, m)
    <3>1. ASSUME NEW b \in Nat, NEW m \in Nat, b < at', Table(b, m) PROVE FALSE
      <4>1. at <= b
        BY <1>2, <2>3, <3>1
      <4>2. n >= 2 /\ Read32(at + n) = "null" /\ best.n = 0
        BY <1>9, <2>3, <3>1, <4>1 DEF NoTable
      <4> QED
        BY <1>4, <1>6, <1>11, <4>2
    <3> QED
      BY <1>2, <1>7, <1>8, <2>1, <2>2, <2>3, <3>1 DEF BestBefore
  <2>4. CASE /\ best.addr \in Nat /\ best.n \in Nat /\ best.addr < at /\ Table(best.addr, best.n)
             /\ \A b, m \in Nat : b < at /\ Table(b, m) => m < best.n \/ (m = best.n /\ best.addr <= b)
    <3>1. ASSUME NEW b \in Nat, NEW m \in Nat, b < at', Table(b, m)
          PROVE  m < best.n \/ (m = best.n /\ best.addr <= b)
      <4>1. CASE b < at
        BY <2>4, <3>1, <4>1
      <4>2. CASE at <= b
        <5>1. m = n /\ n >= 2 /\ Read32(at + n) = "null"
          BY <1>9, <3>1, <4>2
        <5>2. m <= best.n
          BY <1>4, <1>6, <1>11, <2>4, <5>1
        <5> QED
          BY <1>2, <2>4, <4>2, <5>2
      <4> QED
        BY <1>2, <4>1, <4>2
    <3>2. best.addr < at'
      BY <1>2, <1>7, <2>4
    <3>3. BestBefore(at)'
      BY <2>1, <2>2, <2>4, <3>1, <3>2 DEF BestBefore
    <3> QED
      BY <1>2, <1>7, <1>8, <3>3
  <2> QED
    BY <1>2, <2>3, <2>4 DEF BestBefore
<1> QED
  BY <1>10, <1>11

(* The scan may stop one word early: a table has two pointers. *)
LEMMA AllScanned ==
    ASSUME Imaged, at \in Nat, BestBefore(at), at + 1 >= Filesz
    PROVE  BestBefore(Filesz)
<1>1. Filesz \in Nat
  BY Segment
<1>2. \A a, n \in Nat : Table(a, n) => a < at /\ a < Filesz
  <2> TAKE a \in Nat, n \in Nat
  <2> HAVE Table(a, n)
  <2>1. a + 1 < Filesz
    BY TableInside
  <2> QED
    BY <1>1, <2>1
<1> QED
  BY <1>2 DEF BestBefore

(* Calling along the table, from its first pointer to the null after its last. *)
LEMMA CtorsRunKeeps ==
    ASSUME Imaged, BestBefore(Filesz), Walked, at = best.addr + Len(called), CtorsRun
    PROVE  Walked' /\ at' = best'.addr + Len(called')
<1>1. /\ best.n > 0 /\ Read32(at) # "null" /\ best' = best
      /\ called' = Append(called, at) /\ at' = at + 1
  BY DEF CtorsRun
<1>2. best.addr \in Nat /\ best.n \in Nat /\ Table(best.addr, best.n)
  BY <1>1 DEF BestBefore, NoTable
<1>3. called \in Seq(Int) /\ Len(called) \in Nat /\ Len(called) <= best.n
  BY LenProperties DEF Walked
<1>4. Len(called) # best.n
  BY <1>1, <1>2 DEF Table
<1>5. at \in Int
  BY <1>2, <1>3
<1>6. /\ called' \in Seq(Int) /\ Len(called') = Len(called) + 1 /\ called'[Len(called) + 1] = at
      /\ \A i \in 1..Len(called) : called'[i] = called[i]
  BY <1>1, <1>3, <1>5, AppendProperties
<1>7. ASSUME NEW i \in 1..Len(called') PROVE called'[i] = best.addr + i - 1
  <2>1. CASE i = Len(called) + 1
    <3>1. best.addr + i - 1 = at
      BY <1>2, <1>3, <2>1
    <3> QED
      BY <1>6, <2>1, <3>1
  <2>2. CASE i # Len(called) + 1
    <3>1. i \in 1..Len(called)
      BY <1>3, <1>6, <2>2
    <3> QED
      BY <1>6, <3>1 DEF Walked
  <2> QED
    BY <2>1, <2>2
<1>8. Len(called') <= best'.n /\ at' = best'.addr + Len(called')
  BY <1>1, <1>2, <1>3, <1>4, <1>6
<1> QED
  BY <1>1, <1>6, <1>7, <1>8 DEF Walked

LEMMA CallEntryKeeps ==
    ASSUME Imaged, NoLongRun, BestBefore(Filesz), Walked, at = best.addr + Len(called), CallEntry
    PROVE  /\ called' \in Seq(Int) /\ Len(called') = best.n + 1
           /\ called'[best.n + 1] = EntryPoint
           /\ \A i \in 1..best.n : called'[i] = best.addr + i - 1
<1>1. /\ best.n = 0 \/ Read32(at) = "null" \/ Len(called) > MaxTable
      /\ called' = Append(called, EntryPoint)
  BY DEF CallEntry
<1>2. called \in Seq(Int) /\ Len(called) \in Nat /\ Len(called) <= best.n
  BY LenProperties DEF Walked
<1>3. best.n \in Nat /\ Len(called) = best.n
  <2>1. CASE best = NoTable
    BY <1>2, <2>1 DEF NoTable
  <2>2. CASE best # NoTable
    <3>1. best.addr \in Nat /\ best.n \in Nat /\ Table(best.addr, best.n)
      BY <2>2 DEF BestBefore
    <3>2. best.addr \in DOMAIN image /\ best.n >= 2
      BY <3>1, TableInside
    <3>3. RunAt(best.addr).n <= MaxTable
      BY <3>2 DEF NoLongRun
    <3>4. best.n = RunAt(best.addr).n
      BY <3>1, <3>3, TableIsRun
    <3>5. Read32(at) = "null"
      <4>1. ~(Len(called) > MaxTable)
        BY <1>2, <3>1, <3>3, <3>4, LoaderAssumption
      <4> QED
        BY <1>1, <3>2, <3>1, <4>1
    <3>6. Len(called) < best.n => Read32(at) = "code"
      <4>1. Len(called) < best.n => at \in best.addr..best.addr + best.n - 1
        BY <1>2, <3>1
      <4> QED
        BY <3>1, <4>1 DEF Table
    <3> QED
      BY <1>2, <3>1, <3>5, <3>6
  <2> QED
    BY <2>1, <2>2
<1>4. EntryPoint \in Int
  BY DEF EntryPoint
<1>5. /\ called' \in Seq(Int) /\ Len(called') = Len(called) + 1
      /\ called'[Len(called) + 1] = EntryPoint
      /\ \A i \in 1..Len(called) : called'[i] = called[i]
  BY <1>1, <1>2, <1>4, AppendProperties
<1> QED
  BY <1>3, <1>5 DEF Walked

LEMMA NextLoaderInv == ASSUME LoaderInv, [LoaderNext]_loaderVars PROVE LoaderInv'
<1>1. CASE UNCHANGED loaderVars
  <2>1. UNCHANGED <<image, phase, at, best, called>>
    BY <1>1 DEF loaderVars
  <2>2. /\ Filesz' = Filesz /\ Low' = Low /\ (NoLongRun' <=> NoLongRun) /\ (Imaged' <=> Imaged)
        /\ \A a, n \in Nat : Table(a, n)' <=> Table(a, n)
    BY <2>1 DEF Imaged, NoLongRun, RunAt, Table, Read32, Low, Filesz
  <2>3. (BestBefore(at)' <=> BestBefore(at)) /\ (BestBefore(Filesz)' <=> BestBefore(Filesz))
    BY <2>1, <2>2 DEF BestBefore
  <2>4. (Walked' <=> Walked) /\ Read32(at)' = Read32(at) /\ Read32(at - 1)' = Read32(at - 1)
    BY <2>1 DEF Walked, Read32
  <2>5. Progress => Progress'
    BY <2>1, <2>2, <2>3, <2>4 DEF Progress
  <2> QED
    BY <2>2, <2>5 DEF LoaderInv
<1>2. CASE LoaderNext
  <2>1. image' = image
    BY <1>2 DEF LoaderNext, ModuleLoad, CtorsFind, CtorsFound, ModuleStart, CtorsRun, CallEntry,
                LoaderIdle, loaderVars
  <2>2. Imaged /\ Imaged'
    BY <2>1 DEF LoaderInv, Imaged
  <2>3. /\ Filesz' = Filesz /\ Low' = Low /\ (NoLongRun' <=> NoLongRun)
        /\ \A a, n \in Nat : Table(a, n)' <=> Table(a, n)
    BY <2>1 DEF NoLongRun, RunAt, Table, Read32, Low, Filesz
  <2> SUFFICES ASSUME NoLongRun, Progress PROVE Progress'
    BY <2>2, <2>3 DEF LoaderInv
  <2>4. UNCHANGED best => (BestBefore(Filesz)' <=> BestBefore(Filesz))
    BY <2>3 DEF BestBefore
  <2>5. CASE ModuleLoad
    <3>1. phase = "file" /\ UNCHANGED <<best, called>>
      BY <2>5 DEF ModuleLoad
    <3>2. CASE phase' = "failed"
      BY <3>2 DEF Progress
    <3>3. CASE phase' = "scan" /\ at' = Low
      <4>1. at' \in Nat /\ Low' = at' /\ best' = NoTable
        BY <2>2, <2>3, <3>1, <3>3, Segment DEF Progress
      <4>2. \A a, n \in Nat : Table(a, n) => a >= Low
        BY DEF Table
      <4>3. BestBefore(at)'
        BY <2>2, <2>3, <3>3, <4>1, <4>2, Segment DEF BestBefore
      <4> QED
        BY <3>1, <3>3, <4>1, <4>3 DEF Progress
    <3> QED
      BY <2>5, <3>2, <3>3 DEF ModuleLoad
  <2>6. CASE CtorsFind
    <3>1. phase = "scan" /\ UNCHANGED <<phase, called>>
      BY <2>6 DEF CtorsFind
    <3>2. /\ at' \in Nat /\ Low <= at' /\ BestBefore(at)'
          /\ at' = Low \/ Read32(at' - 1) # "code" \/ Read32(at') # "code"
      BY <2>2, <2>6, CtorsFindKeeps
    <3>3. at' = Low' \/ Read32(at - 1)' # "code" \/ Read32(at)' # "code"
      BY <2>1, <2>3, <3>2 DEF Read32
    <3> QED
      BY <2>3, <3>1, <3>2, <3>3 DEF Progress
  <2>7. CASE CtorsFound
    <3>1. /\ phase = "scan" /\ at + 1 >= Filesz /\ phase' = "loaded"
          /\ UNCHANGED <<at, best, called>>
      BY <2>7 DEF CtorsFound
    <3>2. BestBefore(Filesz)'
      BY <2>2, <2>4, <3>1, AllScanned DEF Progress
    <3> QED
      BY <3>1, <3>2 DEF Progress
  <2>8. CASE ModuleStart
    <3>1. /\ phase = "loaded" /\ phase' = "start" /\ at' = best.addr /\ UNCHANGED <<best, called>>
      BY <2>8 DEF ModuleStart
    <3>2. best.addr \in Int /\ best.n \in Nat
      BY <3>1 DEF Progress, BestBefore, NoTable
    <3>3. called = << >> /\ << >> \in Seq(Int) /\ Len(<< >>) = 0
      BY <3>1, EmptySeq DEF Progress
    <3>4. Walked' /\ at' = best'.addr + Len(called')
      BY <3>1, <3>2, <3>3 DEF Walked
    <3> QED
      BY <2>4, <3>1, <3>4 DEF Progress
  <2>9. CASE CtorsRun
    <3>1. phase = "start" /\ UNCHANGED <<phase, best>>
      BY <2>9 DEF CtorsRun
    <3>2. Walked' /\ at' = best'.addr + Len(called')
      BY <2>2, <2>9, <3>1, CtorsRunKeeps DEF Progress
    <3> QED
      BY <2>4, <3>1, <3>2 DEF Progress
  <2>10. CASE CallEntry
    <3>1. phase = "start" /\ phase' = "started" /\ UNCHANGED best
      BY <2>10 DEF CallEntry
    <3>2. /\ called' \in Seq(Int) /\ Len(called') = best.n + 1
          /\ called'[best.n + 1] = EntryPoint
          /\ \A i \in 1..best.n : called'[i] = best.addr + i - 1
      BY <2>2, <2>10, <3>1, CallEntryKeeps DEF Progress
    <3> QED
      BY <2>4, <3>1, <3>2 DEF Progress, EntryPoint
  <2>11. CASE LoaderIdle
    BY <1>1, <2>2, <2>3, <2>11 DEF LoaderIdle, LoaderInv
  <2> QED
    BY <1>2, <2>5, <2>6, <2>7, <2>8, <2>9, <2>10, <2>11 DEF LoaderNext
<1> QED
  BY <1>1, <1>2

(* psp_ctors_find, psp_ctors_run and psp_module_start, for every image, window and limit:
   the module starts with every constructor of its longest table, each once and in
   order, and then its entry point. *)
THEOREM CtorsAlwaysRunOnce == LoaderSpec => []CtorsRunOnce
<1>1. LoaderInit => LoaderInv
  BY InitLoaderInv
<1>2. LoaderInv /\ [LoaderNext]_loaderVars => LoaderInv'
  BY NextLoaderInv
<1>3. ASSUME LoaderInv, phase = "started", NoLongRun
      PROVE  IF TableSizes = {} THEN called = <<EntryPoint>>
             ELSE LET n == Max(TableSizes)   a == Min({b \in DOMAIN image : Table(b, n)})
                  IN called = [i \in 1..n + 1 |-> IF i = n + 1 THEN EntryPoint ELSE a + i - 1]
  <2>1. Imaged /\ BestBefore(Filesz)
    BY <1>3 DEF LoaderInv, Progress
  <2>2. /\ called \in Seq(Int) /\ Len(called) = best.n + 1 /\ called[best.n + 1] = EntryPoint
        /\ \A i \in 1..best.n : called[i] = best.addr + i - 1
    BY <1>3 DEF LoaderInv, Progress
  <2>3. /\ Filesz \in Nat /\ Filesz <= ImageLen /\ ImageLen \in Nat
        /\ DOMAIN image = 0..Filesz - 1
    BY <2>1, Segment
  <2>4. \A n : n \in TableSizes <=>
           n \in Nat /\ \E a \in Nat : a < Filesz /\ Table(a, n)
    <3>1. ASSUME NEW n \in Nat, NEW a \in Nat, Table(a, n) PROVE n \in 2..ImageLen /\ a \in DOMAIN image
      BY <2>1, <2>3, <3>1, TableInside
    <3>2. \A n \in 2..ImageLen : n \in Nat
      BY <2>3
    <3>3. \A a \in DOMAIN image : a \in Nat /\ a < Filesz
      BY <2>3
    <3> QED
      BY <3>1, <3>2, <3>3 DEF TableSizes
  <2>5. CASE best = NoTable
    <3>1. TableSizes = {}
      BY <2>1, <2>4, <2>5, TableInside DEF BestBefore, NoTable
    <3>2. best.n = 0
      BY <2>5 DEF NoTable
    <3>3. called = <<EntryPoint>>
      BY <2>2, <3>2 DEF EntryPoint
    <3> QED
      BY <3>1, <3>3
  <2>6. CASE best # NoTable
    <3>1. /\ best.addr \in Nat /\ best.n \in Nat /\ best.addr < Filesz /\ Table(best.addr, best.n)
          /\ \A a, n \in Nat : a < Filesz /\ Table(a, n) =>
                n < best.n \/ (n = best.n /\ best.addr <= a)
      BY <2>1, <2>6 DEF BestBefore
    <3>2. TableSizes # {} /\ best.n \in TableSizes
      BY <2>4, <3>1
    <3>3. Max(TableSizes) = best.n
      <4>1. TableSizes \in SUBSET (0..ImageLen)
        BY <2>3 DEF TableSizes
      <4>2. Max(TableSizes) \in TableSizes /\ \A y \in TableSizes : Max(TableSizes) >= y
        BY <2>3, <3>2, <4>1, MaxIsGreatest
      <4>3. \A y \in TableSizes : y \in Nat /\ y <= best.n
        BY <2>4, <3>1
      <4> QED
        BY <3>1, <3>2, <4>2, <4>3
    <3> DEFINE first == {b \in DOMAIN image : Table(b, best.n)}
    <3>4. Min(first) = best.addr
      <4>1. first \in SUBSET Nat
        BY <2>3
      <4>2. best.addr \in first
        BY <2>3, <3>1
      <4>3. Min(first) \in first /\ \A y \in first : Min(first) <= y
        BY <4>1, <4>2, MinIsLeast
      <4>4. \A y \in first : y \in Nat /\ best.addr <= y
        BY <2>3, <3>1
      <4> QED
        BY <3>1, <4>2, <4>3, <4>4
    <3> DEFINE n == best.n
               a == best.addr
    <3>5. called = [i \in 1..n + 1 |-> IF i = n + 1 THEN EntryPoint ELSE a + i - 1]
      <4>1. n \in Nat /\ DOMAIN called = 1..n + 1
        BY <2>2, <3>1, LenProperties
      <4>2. \A i \in 1..n + 1 : i # n + 1 => i \in 1..n
        BY <4>1
      <4>3. called \in Seq(Int) /\ called = [i \in DOMAIN called |-> called[i]]
        BY <2>2
      <4>4. \A i \in 1..n + 1 : called[i] = IF i = n + 1 THEN EntryPoint ELSE a + i - 1
        BY <2>2, <4>2
      <4> QED
        BY <4>1, <4>3, <4>4
    <3> QED
      BY <3>2, <3>3, <3>4, <3>5
  <2> QED
    BY <2>5, <2>6
<1>4. LoaderInv => CtorsRunOnce
  BY <1>3 DEF CtorsRunOnce, NoLongRun
<1> QED
  BY <1>1, <1>2, <1>4, PTL DEF LoaderSpec

-----------------------------------------------------------------------------
(* The trace instruments. *)

(* Entries less than a ring apart have places of their own. *)
LEMMA RingPlaces ==
    ASSUME NEW d \in Nat \ {0}, NEW x \in Nat, NEW y \in Nat, x < y, y - x < d
    PROVE  x % d # y % d
<1>1. /\ x = d * (x \div d) + (x % d) /\ y = d * (y \div d) + (y % d)
      /\ x \div d \in Int /\ y \div d \in Int /\ x % d \in 0..d - 1 /\ y % d \in 0..d - 1
  OBVIOUS
<1> DEFINE q == y \div d
           p == x \div d
<1>2. x % d = y % d => y - x = d * q - d * p
  BY <1>1
<1>3. q \in Int /\ p \in Int
  BY <1>1
<1> HIDE DEF p, q
<1>4. d * q - d * p = d * (q - p)
  BY <1>3
<1>5. q - p \in Int /\ (q - p >= 1 => d * (q - p) >= d) /\ (q - p <= 0 => d * (q - p) <= 0)
  BY <1>3
<1> QED
  BY <1>2, <1>3, <1>4, <1>5

RingInv == /\ ring \in [0..TraceDepth - 1 -> Site \cup {0}]
           /\ log \in Seq(Site) /\ entries = Len(log)
           /\ \A k \in 1..Len(log) : Len(log) - k < TraceDepth => ring[(k - 1) % TraceDepth] = log[k]

LEMMA EnterKeeps == ASSUME RingInv, NEW a \in Site, TraceEnter(a) PROVE RingInv'
<1> DEFINE n == Len(log)
<1>1. n \in Nat /\ entries = n /\ TraceDepth \in Nat \ {0} /\ log \in Seq(Site)
  BY TraceAssumption, LenProperties DEF RingInv
<1>2. ring' = [ring EXCEPT ![n % TraceDepth] = a] /\ entries' = n + 1 /\ log' = Append(log, a)
  BY <1>1 DEF TraceEnter
<1>3. /\ log' \in Seq(Site) /\ Len(log') = n + 1 /\ log'[n + 1] = a
      /\ \A k \in 1..n : log'[k] = log[k]
  BY <1>1, <1>2, AppendProperties
<1>4. n % TraceDepth \in 0..TraceDepth - 1
  BY <1>1
<1>5. ASSUME NEW k \in 1..n + 1, n + 1 - k < TraceDepth
      PROVE  ring'[(k - 1) % TraceDepth] = log'[k]
  <2>1. CASE k = n + 1
    <3>1. k - 1 = n
      BY <1>1, <2>1
    <3> QED
      BY <1>2, <1>3, <1>4, <2>1, <3>1 DEF RingInv
  <2>2. CASE k # n + 1
    <3>1. /\ k \in 1..n /\ n - k < TraceDepth /\ k - 1 \in Nat /\ k - 1 < n
          /\ n - (k - 1) < TraceDepth
      BY <1>1, <1>5, <2>2
    <3>2. (k - 1) % TraceDepth # n % TraceDepth /\ (k - 1) % TraceDepth \in 0..TraceDepth - 1
      BY <1>1, <3>1, RingPlaces
    <3>3. ring[(k - 1) % TraceDepth] = log[k]
      BY <3>1 DEF RingInv
    <3> QED
      BY <1>2, <1>3, <3>1, <3>2, <3>3 DEF RingInv
  <2> QED
    BY <2>1, <2>2
<1>6. ring' \in [0..TraceDepth - 1 -> Site \cup {0}]
  BY <1>2, <1>4 DEF RingInv
<1> QED
  BY <1>2, <1>3, <1>5, <1>6 DEF RingInv

LEMMA RingReports == ASSUME RingInv PROVE TraceIsRecent
<1> DEFINE n == Len(log)
           m == Min({n, TraceDepth})
<1>1. n \in Nat /\ entries = n /\ TraceDepth \in Nat \ {0} /\ log \in Seq(Site)
  BY TraceAssumption, LenProperties DEF RingInv
<1>2. m \in Nat /\ m <= n /\ m <= TraceDepth
  <2>1. {n, TraceDepth} \in SUBSET Nat
    BY <1>1
  <2>2. {n, TraceDepth} # {}
    OBVIOUS
  <2>3. Min({n, TraceDepth}) \in {n, TraceDepth} /\ \A y \in {n, TraceDepth} : Min({n, TraceDepth}) <= y
    BY <2>1, <2>2, MinIsLeast
  <2> QED
    BY <1>1, <2>3
<1> HIDE DEF m
<1>3. ASSUME NEW i \in 1..m PROVE ring[(n - i) % TraceDepth] = log[n - i + 1]
  <2>1. n - i + 1 \in 1..n /\ n - (n - i + 1) < TraceDepth /\ n - i + 1 - 1 = n - i
    BY <1>1, <1>2
  <2> QED
    BY <2>1 DEF RingInv
<1>4. TraceDump = [i \in 1..m |-> log[n - i + 1]]
  BY <1>1, <1>3 DEF TraceDump, m
<1>5. TraceLast = IF log = << >> THEN 0 ELSE Last(log)
  <2>1. CASE n = 0
    BY <1>1, <2>1, EmptySeq DEF TraceLast
  <2>2. CASE n # 0
    <3>1. n \in 1..n /\ n - n < TraceDepth
      BY <1>1, <2>2
    <3>2. ring[(n - 1) % TraceDepth] = log[n]
      BY <3>1 DEF RingInv
    <3>3. log # << >>
      BY <2>2, EmptySeq
    <3> QED
      BY <1>1, <2>2, <3>2, <3>3 DEF TraceLast, Last
  <2> QED
    BY <2>1, <2>2
<1> QED
  BY <1>4, <1>5 DEF TraceIsRecent, m

Row == [site : Site, delta : Delta, count : Nat]

(* A table of stack imbalances: a row counts all the reports of its pair; a pair that has
   no row is no larger than any that has, and the table is full; the largest has one. *)
Honest(rows, worst, rep) ==
    /\ rows \in Seq(Row) /\ Len(rows) <= SpSites
    /\ rep \in [Site \X Delta -> Nat]
    /\ \A i, j \in 1..Len(rows) : rows[i].site = rows[j].site /\ rows[i].delta = rows[j].delta => i = j
    /\ \A i \in 1..Len(rows) : /\ rows[i].count = rep[<<rows[i].site, rows[i].delta>>]
                               /\ rows[i].count > 0
    /\ \A s \in Site, d \in Delta : rep[<<s, d>>] > 0 =>
          /\ Mag(d) <= Mag(worst)
          /\ \/ \E i \in 1..Len(rows) : rows[i].site = s /\ rows[i].delta = d
             \/ Len(rows) = SpSites /\ \A i \in 1..Len(rows) : Mag(d) <= Mag(rows[i].delta)
    /\ \/ worst = 0 /\ rows = << >>
       \/ worst \in Delta /\ \E i \in 1..Len(rows) : Mag(rows[i].delta) = Mag(worst)

LEMMA Magnitudes == /\ \A d \in Delta : d \in Int /\ Mag(d) \in Nat /\ Mag(d) > 0
                    /\ Mag(0) = 0
BY TraceAssumption DEF Mag

LEMMA RowsTyped ==
    ASSUME NEW rows \in Seq(Row)
    PROVE  /\ Len(rows) \in Nat /\ DOMAIN rows = 1..Len(rows)
           /\ \A i \in 1..Len(rows) : /\ rows[i] \in Row /\ rows[i].site \in Site
                                      /\ rows[i].delta \in Delta /\ rows[i].count \in Nat
                                      /\ Mag(rows[i].delta) \in Nat /\ Mag(rows[i].delta) > 0
<1>1. Len(rows) \in Nat /\ DOMAIN rows = 1..Len(rows) /\ \A i \in 1..Len(rows) : rows[i] \in Row
  BY LenProperties, ElementOfSeq
<1> QED
  BY <1>1, Magnitudes DEF Row

(* The row that makes room is the smallest. *)
LEMMA VictimIsSmallest ==
    ASSUME NEW rows \in Seq(Row), rows # << >>
    PROVE  /\ Victim(rows) \in 1..Len(rows)
           /\ \A j \in 1..Len(rows) : Mag(rows[Victim(rows)].delta) <= Mag(rows[j].delta)
<1> DEFINE S == {Mag(rows[i].delta) : i \in 1..Len(rows)}
           F == {i \in DOMAIN rows : \A j \in DOMAIN rows : Mag(rows[i].delta) <= Mag(rows[j].delta)}
<1>1. Len(rows) \in Nat \ {0} /\ DOMAIN rows = 1..Len(rows)
  BY EmptySeq, RowsTyped
<1>2. S \in SUBSET Nat
  BY RowsTyped
<1>3. S # {}
  <2>1. 1 \in 1..Len(rows)
    BY <1>1
  <2> QED
    BY <2>1
<1>4. Min(S) \in S /\ \A y \in S : Min(S) <= y
  BY <1>2, <1>3, MinIsLeast
<1>5. PICK i \in 1..Len(rows) : Min(S) = Mag(rows[i].delta)
  BY <1>4
<1>6. i \in F
  BY <1>1, <1>4, <1>5
<1>7. F \in SUBSET Nat /\ F # {}
  BY <1>1, <1>6
<1> HIDE DEF S
<1>8. Min(F) \in F
  BY <1>7, MinIsLeast
<1>9. Victim(rows) = Min(F)
  BY DEF Victim
<1> QED
  BY <1>1, <1>8, <1>9

NewWorst(worst, d) == IF worst = 0 \/ Mag(d) > Mag(worst) THEN d ELSE worst

LEMMA Worst ==
    ASSUME NEW worst \in Delta \cup {0}, NEW d \in Delta
    PROVE  LET w == NewWorst(worst, d)
           IN w \in Delta /\ Mag(worst) \in Nat /\ Mag(w) \in Nat
              /\ Mag(d) <= Mag(w) /\ Mag(worst) <= Mag(w)
              /\ (Mag(w) = Mag(d) \/ (worst # 0 /\ Mag(w) = Mag(worst)))
BY Magnitudes DEF NewWorst

Reported(rep, s, d) == [rep EXCEPT ![<<s, d>>] = @ + 1]

OneMore(new, rep, s, d) ==
    /\ new \in [Site \X Delta -> Nat] /\ rep[<<s, d>>] \in Nat /\ new[<<s, d>>] = rep[<<s, d>>] + 1
    /\ \A x \in Site, y \in Delta : x # s \/ y # d => new[<<x, y>>] = rep[<<x, y>>]

LEMMA ReportedOnce ==
    ASSUME NEW rows, NEW worst, NEW rep, Honest(rows, worst, rep), NEW s \in Site, NEW d \in Delta
    PROVE  OneMore(Reported(rep, s, d), rep, s, d)
<1>1. rep \in [Site \X Delta -> Nat]
  BY DEF Honest
<1>2. <<s, d>> \in Site \X Delta /\ rep[<<s, d>>] + 1 \in Nat
  BY <1>1
<1> QED
  BY <1>1, <1>2 DEF Reported, OneMore

(* A pair that has a row is counted there. *)
LEMMA Counted ==
    ASSUME NEW rows, NEW worst, NEW rep, Honest(rows, worst, rep), NEW s \in Site, NEW d \in Delta,
           NEW h \in 1..Len(rows), rows[h].site = s, rows[h].delta = d
    PROVE  Honest([rows EXCEPT ![h].count = @ + 1], NewWorst(worst, d), Reported(rep, s, d))
<1> DEFINE r == [rows[h] EXCEPT !.count = @ + 1]
           new == [rows EXCEPT ![h] = r]
           rep2 == Reported(rep, s, d)
<1>1. /\ rows \in Seq(Row) /\ Len(rows) \in Nat /\ DOMAIN rows = 1..Len(rows)
      /\ rows[h].count \in Nat /\ rows[h] \in Row /\ rep \in [Site \X Delta -> Nat]
  BY RowsTyped DEF Honest
<1>2. r \in Row /\ r.site = s /\ r.delta = d /\ r.count = rows[h].count + 1
  BY <1>1 DEF Row
<1>3. [rows EXCEPT ![h].count = @ + 1] = new
  BY <1>1
<1> HIDE DEF r
<1>4. /\ new \in Seq(Row) /\ Len(new) = Len(rows)
      /\ \A j \in 1..Len(rows) : new[j] = IF j = h THEN r ELSE rows[j]
  BY <1>1, <1>2, ExceptSeq
<1> HIDE DEF new
<1>5. \A j \in 1..Len(rows) : /\ new[j].site = rows[j].site /\ new[j].delta = rows[j].delta
                              /\ new[j].count = IF j = h THEN rows[h].count + 1 ELSE rows[j].count
  BY <1>2, <1>4
<1>6. NewWorst(worst, d) = worst
  <2>1. rep[<<s, d>>] > 0
    BY DEF Honest
  <2>2. Mag(d) <= Mag(worst) /\ worst # 0
    BY <1>1, <2>1, Magnitudes DEF Honest
  <2>3. worst \in Delta
    BY <2>2 DEF Honest
  <2> QED
    BY <1>1, <2>2, <2>3, Magnitudes DEF NewWorst
<1>7. /\ rep2 \in [Site \X Delta -> Nat] /\ rep2[<<s, d>>] = rep[<<s, d>>] + 1
      /\ \A x \in Site, y \in Delta : x # s \/ y # d => rep2[<<x, y>>] = rep[<<x, y>>]
  <2>1. OneMore(rep2, rep, s, d)
    BY ReportedOnce
  <2> QED
    BY <2>1 DEF OneMore
<1> HIDE DEF rep2
<1>8. \A i \in 1..Len(new) : new[i].count = rep2[<<new[i].site, new[i].delta>>] /\ new[i].count > 0
  <2> TAKE i \in 1..Len(new)
  <2>1. /\ rows[i].site \in Site /\ rows[i].delta \in Delta /\ rows[i].count \in Nat
        /\ rows[i].count = rep[<<rows[i].site, rows[i].delta>>] /\ rows[i].count > 0
    BY <1>1, <1>4, RowsTyped DEF Honest
  <2>2. CASE i = h
    <3>1. new[i].site = s /\ new[i].delta = d /\ new[i].count = rows[h].count + 1
      BY <1>4, <1>5, <2>2
    <3>2. rows[h].count = rep[<<s, d>>]
      BY <2>1, <2>2
    <3> QED
      BY <1>1, <1>7, <3>1, <3>2
  <2>3. CASE i # h
    <3>1. rows[i].site # s \/ rows[i].delta # d
      BY <1>4, <2>3 DEF Honest
    <3> QED
      BY <1>4, <1>5, <1>7, <2>1, <2>3, <3>1
  <2> QED
    BY <2>2, <2>3
<1>9. ASSUME NEW x \in Site, NEW y \in Delta, rep2[<<x, y>>] > 0
      PROVE  /\ Mag(y) <= Mag(worst)
             /\ \/ \E i \in 1..Len(new) : new[i].site = x /\ new[i].delta = y
                \/ Len(new) = SpSites /\ \A i \in 1..Len(new) : Mag(y) <= Mag(new[i].delta)
  <2>1. rep[<<x, y>>] > 0
    <3>1. rep[<<s, d>>] > 0
      BY DEF Honest
    <3> QED
      BY <1>7, <1>9, <3>1
  <2>2. Mag(y) <= Mag(worst)
    BY <2>1 DEF Honest
  <2>3. \/ \E i \in 1..Len(rows) : rows[i].site = x /\ rows[i].delta = y
        \/ Len(rows) = SpSites /\ \A i \in 1..Len(rows) : Mag(y) <= Mag(rows[i].delta)
    BY <2>1 DEF Honest
  <2> QED
    BY <1>4, <1>5, <2>2, <2>3
<1>10. \A i, j \in 1..Len(new) : new[i].site = new[j].site /\ new[i].delta = new[j].delta => i = j
  BY <1>4, <1>5 DEF Honest
<1>11. worst \in Delta /\ \E i \in 1..Len(new) : Mag(new[i].delta) = Mag(worst)
  <2>1. rows # << >>
    BY <1>1, EmptySeq
  <2> QED
    BY <1>4, <1>5, <2>1 DEF Honest
<1>12. Honest(new, worst, rep2)
  BY <1>4, <1>7, <1>8, <1>9, <1>10, <1>11 DEF Honest
<1> QED
  BY <1>3, <1>6, <1>12 DEF rep2

Fresh(s, d) == [site |-> s, delta |-> d, count |-> 1]

LEMMA FreshTyped ==
    ASSUME NEW s \in Site, NEW d \in Delta
    PROVE  /\ Fresh(s, d) \in Row /\ Fresh(s, d).site = s /\ Fresh(s, d).delta = d
           /\ Fresh(s, d).count = 1
BY DEF Fresh, Row

LEMMA WorstOf ==
    ASSUME NEW rows, NEW worst, NEW rep, Honest(rows, worst, rep), NEW d \in Delta
    PROVE  /\ worst \in Delta \cup {0}
           /\ NewWorst(worst, d) \in Delta /\ Mag(worst) \in Nat /\ Mag(NewWorst(worst, d)) \in Nat
           /\ Mag(d) <= Mag(NewWorst(worst, d)) /\ Mag(worst) <= Mag(NewWorst(worst, d))
           /\ \/ Mag(NewWorst(worst, d)) = Mag(d)
              \/ worst # 0 /\ Mag(NewWorst(worst, d)) = Mag(worst)
<1>1. worst \in Delta \cup {0}
  BY DEF Honest
<1> QED
  BY <1>1, Worst

(* While there is room every pair has a row, so a pair without one is new. *)
LEMMA Added ==
    ASSUME NEW rows, NEW worst, NEW rep, Honest(rows, worst, rep), NEW s \in Site, NEW d \in Delta,
           \A i \in 1..Len(rows) : rows[i].site # s \/ rows[i].delta # d, Len(rows) < SpSites
    PROVE  Honest(Append(rows, Fresh(s, d)), NewWorst(worst, d), Reported(rep, s, d))
<1> DEFINE r == Fresh(s, d)
           new == Append(rows, r)
           n == Len(rows)
           w == NewWorst(worst, d)
           rep2 == Reported(rep, s, d)
<1>1. rows \in Seq(Row) /\ n \in Nat /\ SpSites \in Nat /\ n < SpSites
  BY RowsTyped, TraceAssumption DEF Honest
<1>2. r \in Row /\ r.site = s /\ r.delta = d /\ r.count = 1
  BY FreshTyped
<1> HIDE DEF r
<1>3. /\ new \in Seq(Row) /\ Len(new) = n + 1 /\ new[n + 1] = r
      /\ \A i \in 1..n : new[i] = rows[i]
  BY <1>1, <1>2, AppendProperties
<1> HIDE DEF new
<1>4. \A i \in 1..Len(new) : i \in 1..n \/ i = n + 1
  BY <1>1, <1>3
<1>5. 1..n \in SUBSET (1..Len(new)) /\ n + 1 \in 1..Len(new) /\ n + 1 \notin 1..n
  BY <1>1, <1>3
<1>6. /\ rep2 \in [Site \X Delta -> Nat] /\ rep2[<<s, d>>] = rep[<<s, d>>] + 1
      /\ \A x \in Site, y \in Delta : x # s \/ y # d => rep2[<<x, y>>] = rep[<<x, y>>]
  <2>1. OneMore(rep2, rep, s, d)
    BY ReportedOnce
  <2> QED
    BY <2>1 DEF OneMore
<1>7. rep[<<s, d>>] = 0
  <2>1. rep[<<s, d>>] \in Nat
    BY DEF Honest
  <2>2. ~(rep[<<s, d>>] > 0)
    BY <1>1 DEF Honest
  <2> QED
    BY <2>1, <2>2
<1> HIDE DEF rep2
<1>8. \A i \in 1..Len(new) : new[i].count = rep2[<<new[i].site, new[i].delta>>] /\ new[i].count > 0
  <2> TAKE i \in 1..Len(new)
  <2>1. CASE i = n + 1
    BY <1>2, <1>3, <1>6, <1>7, <2>1
  <2>2. CASE i \in 1..n
    <3>1. rows[i].site \in Site /\ rows[i].delta \in Delta
      BY <1>1, <2>2, RowsTyped
    <3>2. rep2[<<rows[i].site, rows[i].delta>>] = rep[<<rows[i].site, rows[i].delta>>]
      BY <1>6, <2>2, <3>1
    <3> QED
      BY <1>3, <2>2, <3>2 DEF Honest
  <2> QED
    BY <1>4, <2>1, <2>2
<1>9. /\ w \in Delta /\ Mag(worst) \in Nat /\ Mag(w) \in Nat /\ Mag(d) <= Mag(w)
      /\ Mag(worst) <= Mag(w) /\ (Mag(w) = Mag(d) \/ (worst # 0 /\ Mag(w) = Mag(worst)))
  BY WorstOf
<1> HIDE DEF w
<1>10. ASSUME NEW x \in Site, NEW y \in Delta, rep2[<<x, y>>] > 0
       PROVE  Mag(y) <= Mag(w) /\ \E i \in 1..Len(new) : new[i].site = x /\ new[i].delta = y
  <2>1. CASE x = s /\ y = d
    BY <1>2, <1>3, <1>5, <1>9, <2>1
  <2>2. CASE x # s \/ y # d
    <3>1. rep[<<x, y>>] > 0
      BY <1>6, <1>10, <2>2
    <3>2. Mag(y) <= Mag(worst) /\ \E i \in 1..n : rows[i].site = x /\ rows[i].delta = y
      BY <1>1, <3>1 DEF Honest
    <3>3. Mag(y) \in Nat
      BY Magnitudes
    <3> QED
      BY <1>3, <1>5, <1>9, <3>2, <3>3
  <2> QED
    BY <2>1, <2>2
<1>11. \A i, j \in 1..Len(new) : new[i].site = new[j].site /\ new[i].delta = new[j].delta => i = j
  BY <1>2, <1>3, <1>4 DEF Honest
<1>12. \E i \in 1..Len(new) : Mag(new[i].delta) = Mag(w)
  <2>1. CASE Mag(w) = Mag(d)
    BY <1>2, <1>3, <1>5, <2>1
  <2>2. CASE worst # 0 /\ Mag(w) = Mag(worst)
    <3>1. PICK i \in 1..n : Mag(rows[i].delta) = Mag(worst)
      BY <2>2 DEF Honest
    <3> QED
      BY <1>3, <1>5, <2>2, <3>1
  <2> QED
    BY <1>9, <2>1, <2>2
<1>13. Len(new) <= SpSites
  BY <1>1, <1>3
<1>14. Honest(new, w, rep2)
  BY <1>3, <1>6, <1>8, <1>9, <1>10, <1>11, <1>12, <1>13 DEF Honest
<1> QED
  BY <1>14 DEF new, w, rep2, r

(* A full table: the smallest makes room for a larger one, which was never dropped. *)
LEMMA Replaced ==
    ASSUME NEW rows, NEW worst, NEW rep, Honest(rows, worst, rep), NEW s \in Site, NEW d \in Delta,
           \A i \in 1..Len(rows) : rows[i].site # s \/ rows[i].delta # d, Len(rows) = SpSites,
           NEW v \in 1..Len(rows), \A j \in 1..Len(rows) : Mag(rows[v].delta) <= Mag(rows[j].delta),
           Mag(d) > Mag(rows[v].delta)
    PROVE  Honest([rows EXCEPT ![v] = Fresh(s, d)], NewWorst(worst, d), Reported(rep, s, d))
<1> DEFINE r == Fresh(s, d)
           new == [rows EXCEPT ![v] = r]
           n == Len(rows)
           w == NewWorst(worst, d)
           rep2 == Reported(rep, s, d)
<1>1. /\ rows \in Seq(Row) /\ n \in Nat /\ Mag(rows[v].delta) \in Nat /\ Mag(d) \in Nat
      /\ \A i \in 1..n : Mag(rows[i].delta) \in Nat
  BY RowsTyped, Magnitudes DEF Honest
<1>2. r \in Row /\ r.site = s /\ r.delta = d /\ r.count = 1
  BY FreshTyped
<1> HIDE DEF r
<1>3. /\ new \in Seq(Row) /\ Len(new) = n
      /\ \A i \in 1..n : new[i] = IF i = v THEN r ELSE rows[i]
  BY <1>1, <1>2, ExceptSeq
<1> HIDE DEF new
<1>4. new[v] = r /\ \A i \in 1..n : i # v => new[i] = rows[i]
  BY <1>3
<1>6. /\ rep2 \in [Site \X Delta -> Nat] /\ rep2[<<s, d>>] = rep[<<s, d>>] + 1
      /\ \A x \in Site, y \in Delta : x # s \/ y # d => rep2[<<x, y>>] = rep[<<x, y>>]
  <2>1. OneMore(rep2, rep, s, d)
    BY ReportedOnce
  <2> QED
    BY <2>1 DEF OneMore
<1>7. rep[<<s, d>>] = 0
  <2>1. rep[<<s, d>>] \in Nat
    BY DEF Honest
  <2>2. ~(rep[<<s, d>>] > 0)
    <3>1. ~(Mag(d) <= Mag(rows[v].delta))
      BY <1>1
    <3> QED
      BY <3>1 DEF Honest
  <2> QED
    BY <2>1, <2>2
<1> HIDE DEF rep2
<1>8. \A i \in 1..Len(new) : new[i].count = rep2[<<new[i].site, new[i].delta>>] /\ new[i].count > 0
  <2> TAKE i \in 1..Len(new)
  <2>1. CASE i = v
    BY <1>2, <1>4, <1>6, <1>7, <2>1
  <2>2. CASE i # v
    <3>0. i \in 1..n /\ new[i] = rows[i]
      BY <1>3, <1>4, <2>2
    <3>1. rows[i].site \in Site /\ rows[i].delta \in Delta
      BY <1>1, <3>0, RowsTyped
    <3>2. rep2[<<rows[i].site, rows[i].delta>>] = rep[<<rows[i].site, rows[i].delta>>]
      BY <1>6, <3>0, <3>1
    <3> QED
      BY <3>0, <3>2 DEF Honest
  <2> QED
    BY <2>1, <2>2
<1>9. /\ w \in Delta /\ Mag(worst) \in Nat /\ Mag(w) \in Nat /\ Mag(d) <= Mag(w)
      /\ Mag(worst) <= Mag(w) /\ (Mag(w) = Mag(d) \/ (worst # 0 /\ Mag(w) = Mag(worst)))
  BY WorstOf
<1> HIDE DEF w
<1>10. ASSUME NEW x \in Site, NEW y \in Delta, rep2[<<x, y>>] > 0
       PROVE  /\ Mag(y) <= Mag(w)
              /\ \/ \E i \in 1..Len(new) : new[i].site = x /\ new[i].delta = y
                 \/ \A i \in 1..Len(new) : Mag(y) <= Mag(new[i].delta)
  <2>1. CASE x = s /\ y = d
    BY <1>2, <1>3, <1>4, <1>9, <2>1
  <2>2. CASE x # s \/ y # d
    <3>1. rep[<<x, y>>] > 0
      BY <1>6, <1>10, <2>2
    <3>2. /\ Mag(y) <= Mag(worst)
          /\ \/ \E i \in 1..n : rows[i].site = x /\ rows[i].delta = y
             \/ \A i \in 1..n : Mag(y) <= Mag(rows[i].delta)
      BY <3>1 DEF Honest
    <3>3. Mag(y) \in Nat
      BY Magnitudes
    <3>4. Mag(y) <= Mag(w)
      BY <1>9, <3>2, <3>3
    <3>5. ASSUME Mag(y) <= Mag(rows[v].delta), NEW i \in 1..n PROVE Mag(y) <= Mag(new[i].delta)
      <4>1. CASE i = v
        BY <1>1, <1>2, <1>4, <3>3, <3>5, <4>1
      <4>2. CASE i # v
        BY <1>1, <1>4, <3>3, <3>5, <4>2
      <4> QED
        BY <4>1, <4>2
    <3>6. ASSUME NEW i \in 1..n, i # v, rows[i].site = x, rows[i].delta = y
          PROVE  \E j \in 1..Len(new) : new[j].site = x /\ new[j].delta = y
      BY <1>3, <1>4, <3>6
    <3>7. y = rows[v].delta => Mag(y) <= Mag(rows[v].delta)
      BY <1>1
    <3> QED
      BY <1>3, <3>2, <3>4, <3>5, <3>6, <3>7
  <2> QED
    BY <2>1, <2>2
<1>11. \A i, j \in 1..Len(new) : new[i].site = new[j].site /\ new[i].delta = new[j].delta => i = j
  BY <1>2, <1>3, <1>4 DEF Honest
<1>12. \E i \in 1..Len(new) : Mag(new[i].delta) = Mag(w)
  <2>1. CASE Mag(w) = Mag(d)
    BY <1>2, <1>3, <1>4, <2>1
  <2>2. CASE worst # 0 /\ Mag(w) = Mag(worst) /\ Mag(w) # Mag(d)
    <3>1. PICK i \in 1..n : Mag(rows[i].delta) = Mag(worst)
      BY <2>2 DEF Honest
    <3>2. i # v
      BY <1>1, <1>9, <2>2, <3>1
    <3> QED
      BY <1>3, <1>4, <2>2, <3>1, <3>2
  <2> QED
    BY <1>9, <2>1, <2>2
<1>14. Honest(new, w, rep2)
  <2>1. Len(new) = SpSites /\ Len(new) <= SpSites
    BY <1>1, <1>3
  <2> QED
    BY <1>3, <1>6, <1>8, <1>9, <1>10, <1>11, <1>12, <2>1 DEF Honest
<1> QED
  BY <1>14 DEF new, w, rep2, r

(* What is no larger than the smallest of a full table is left out. *)
LEMMA Dropped ==
    ASSUME NEW rows, NEW worst, NEW rep, Honest(rows, worst, rep), NEW s \in Site, NEW d \in Delta,
           \A i \in 1..Len(rows) : rows[i].site # s \/ rows[i].delta # d, Len(rows) = SpSites,
           \A j \in 1..Len(rows) : Mag(d) <= Mag(rows[j].delta)
    PROVE  Honest(rows, NewWorst(worst, d), Reported(rep, s, d))
<1> DEFINE n == Len(rows)
           rep2 == Reported(rep, s, d)
<1>1. rows \in Seq(Row) /\ n \in Nat /\ n # 0 /\ rows # << >>
  BY RowsTyped, EmptySeq, TraceAssumption DEF Honest
<1>2. worst \in Delta /\ Mag(d) <= Mag(worst) /\ \E i \in 1..n : Mag(rows[i].delta) = Mag(worst)
  BY <1>1 DEF Honest
<1>3. NewWorst(worst, d) = worst
  <2>1. worst # 0 /\ Mag(d) \in Nat /\ Mag(worst) \in Nat
    BY <1>2, Magnitudes
  <2> QED
    BY <1>2, <2>1 DEF NewWorst
<1>4. /\ rep2 \in [Site \X Delta -> Nat] /\ rep2[<<s, d>>] = rep[<<s, d>>] + 1
      /\ \A x \in Site, y \in Delta : x # s \/ y # d => rep2[<<x, y>>] = rep[<<x, y>>]
  <2>1. OneMore(rep2, rep, s, d)
    BY ReportedOnce
  <2> QED
    BY <2>1 DEF OneMore
<1> HIDE DEF rep2
<1>5. \A i \in 1..n : rows[i].count = rep2[<<rows[i].site, rows[i].delta>>] /\ rows[i].count > 0
  <2> TAKE i \in 1..n
  <2>1. rows[i].site \in Site /\ rows[i].delta \in Delta
    BY <1>1, RowsTyped
  <2>2. rep2[<<rows[i].site, rows[i].delta>>] = rep[<<rows[i].site, rows[i].delta>>]
    BY <1>4, <2>1
  <2> QED
    BY <2>2 DEF Honest
<1>6. ASSUME NEW x \in Site, NEW y \in Delta, rep2[<<x, y>>] > 0
      PROVE  /\ Mag(y) <= Mag(worst)
             /\ \/ \E i \in 1..n : rows[i].site = x /\ rows[i].delta = y
                \/ \A i \in 1..n : Mag(y) <= Mag(rows[i].delta)
  <2>1. CASE x = s /\ y = d
    BY <1>2, <2>1
  <2>2. CASE x # s \/ y # d
    <3>1. rep[<<x, y>>] > 0
      BY <1>4, <1>6, <2>2
    <3> QED
      BY <3>1 DEF Honest
  <2> QED
    BY <2>1, <2>2
<1>7. Honest(rows, worst, rep2)
  BY <1>1, <1>2, <1>4, <1>5, <1>6 DEF Honest
<1> QED
  BY <1>3, <1>7 DEF rep2

(* The rows that sp_record leaves. *)
RowsAfter(rows, s, d) ==
    LET here == {i \in DOMAIN rows : rows[i].site = s /\ rows[i].delta = d}
    IN IF here # {} THEN [rows EXCEPT ![Min(here)].count = @ + 1]
       ELSE IF Len(rows) < SpSites THEN Append(rows, Fresh(s, d))
       ELSE Evict(rows, Fresh(s, d))

LEMMA Recorded ==
    ASSUME NEW rows, NEW worst, NEW rep, Honest(rows, worst, rep), NEW s \in Site, NEW d \in Delta
    PROVE  Honest(RowsAfter(rows, s, d), NewWorst(worst, d), Reported(rep, s, d))
<1> DEFINE here == {i \in DOMAIN rows : rows[i].site = s /\ rows[i].delta = d}
<1>1. /\ rows \in Seq(Row) /\ Len(rows) \in Nat /\ DOMAIN rows = 1..Len(rows)
      /\ Len(rows) <= SpSites /\ SpSites \in Nat \ {0}
  BY RowsTyped, TraceAssumption DEF Honest
<1>2. CASE here # {}
  <2>1. here \in SUBSET Nat
    BY <1>1
  <2>2. Min(here) \in here
    BY <1>2, <2>1, MinIsLeast
  <2> DEFINE h == Min(here)
  <2>3. h \in 1..Len(rows) /\ rows[h].site = s /\ rows[h].delta = d
    BY <1>1, <2>2
  <2>4. RowsAfter(rows, s, d) = [rows EXCEPT ![h].count = @ + 1]
    BY <1>2 DEF RowsAfter
  <2> HIDE DEF here, h
  <2>5. Honest([rows EXCEPT ![h].count = @ + 1], NewWorst(worst, d), Reported(rep, s, d))
    BY <2>3, Counted
  <2> QED
    BY <2>4, <2>5
<1>3. ASSUME here = {} PROVE \A i \in 1..Len(rows) : rows[i].site # s \/ rows[i].delta # d
  BY <1>1, <1>3
<1>4. CASE here = {} /\ Len(rows) < SpSites
  <2>1. RowsAfter(rows, s, d) = Append(rows, Fresh(s, d))
    BY <1>4 DEF RowsAfter
  <2> QED
    BY <1>3, <1>4, <2>1, Added
<1>5. CASE here = {} /\ ~(Len(rows) < SpSites)
  <2> DEFINE v == Victim(rows)
  <2>1. RowsAfter(rows, s, d) = Evict(rows, Fresh(s, d)) /\ Len(rows) = SpSites /\ rows # << >>
    BY <1>1, <1>5, EmptySeq DEF RowsAfter
  <2>2. v \in 1..Len(rows) /\ \A j \in 1..Len(rows) : Mag(rows[v].delta) <= Mag(rows[j].delta)
    BY <1>1, <2>1, VictimIsSmallest
  <2>3. Evict(rows, Fresh(s, d)) = IF Mag(d) > Mag(rows[v].delta)
                                   THEN [rows EXCEPT ![v] = Fresh(s, d)] ELSE rows
    BY FreshTyped DEF Evict
  <2> HIDE DEF v, here
  <2>4. CASE Mag(d) > Mag(rows[v].delta)
    <3>1. \A i \in 1..Len(rows) : rows[i].site # s \/ rows[i].delta # d
      BY <1>3, <1>5
    <3>2. Honest([rows EXCEPT ![v] = Fresh(s, d)], NewWorst(worst, d), Reported(rep, s, d))
      BY <2>1, <2>2, <2>4, <3>1, Replaced
    <3> QED
      BY <2>1, <2>3, <2>4, <3>2
  <2>5. CASE ~(Mag(d) > Mag(rows[v].delta))
    <3>1. \A j \in 1..Len(rows) : Mag(d) <= Mag(rows[j].delta)
      BY <1>1, <2>2, <2>5, RowsTyped, Magnitudes
    <3> QED
      BY <1>3, <1>5, <2>1, <2>3, <2>5, <3>1, Dropped
  <2> QED
    BY <2>4, <2>5
<1> QED
  BY <1>2, <1>4, <1>5

SpInv == /\ sp \in [Tables -> [rows : Seq(Row), worst : Delta \cup {0}]]
         /\ reported \in [Tables -> [Site \X Delta -> Nat]]
         /\ \A t \in Tables : Honest(sp[t].rows, sp[t].worst, reported[t])

LEMMA RecordKeeps ==
    ASSUME SpInv, NEW t \in Tables, NEW s \in Site, NEW d \in Delta, Record(t, s, d)
    PROVE  SpInv'
<1> DEFINE rows == RowsAfter(sp[t].rows, s, d)
           worst == NewWorst(sp[t].worst, d)
           rep == Reported(reported[t], s, d)
           new == [worst |-> worst, rows |-> rows]
<1>1. sp' = [sp EXCEPT ![t] = new]
  BY DEF Record, RowsAfter, NewWorst, Fresh, SpInv
<1>2. reported' = [reported EXCEPT ![t] = rep]
  BY DEF Record, Reported, SpInv
<1>3. Honest(rows, worst, rep)
  BY Recorded DEF SpInv
<1> HIDE DEF rows, worst, rep
<1>4. rows \in Seq(Row) /\ worst \in Delta \cup {0} /\ rep \in [Site \X Delta -> Nat]
  BY <1>3 DEF Honest
<1>5. new \in [rows : Seq(Row), worst : Delta \cup {0}] /\ new.rows = rows /\ new.worst = worst
  BY <1>4
<1> HIDE DEF new
<1>6. /\ sp' \in [Tables -> [rows : Seq(Row), worst : Delta \cup {0}]]
      /\ \A u \in Tables : sp'[u] = IF u = t THEN new ELSE sp[u]
  BY <1>1, <1>5 DEF SpInv
<1>7. /\ reported' \in [Tables -> [Site \X Delta -> Nat]]
      /\ \A u \in Tables : reported'[u] = IF u = t THEN rep ELSE reported[u]
  BY <1>2, <1>4 DEF SpInv
<1>8. ASSUME NEW u \in Tables PROVE Honest(sp'[u].rows, sp'[u].worst, reported'[u])
  <2>1. CASE u = t
    BY <1>3, <1>5, <1>6, <1>7, <2>1
  <2>2. CASE u # t
    BY <1>6, <1>7, <2>2 DEF SpInv
  <2> QED
    BY <2>1, <2>2
<1> QED
  BY <1>6, <1>7, <1>8 DEF SpInv

LEMMA MagSame ==
    ASSUME NEW x \in Int, NEW y \in {x, -x} PROVE Mag(x) = Mag(y)
<1>1. CASE y = x
  BY <1>1
<1>2. CASE y = -x
  BY <1>2 DEF Mag
<1> QED
  BY <1>1, <1>2

(* The report begins with a row that none exceeds. *)
LEMMA DumpBegins ==
    ASSUME NEW t \in Tables, sp[t].rows \in Seq(Row), NEW top \in 1..Len(sp[t].rows),
           \A j \in 1..Len(sp[t].rows) : Mag(sp[t].rows[j].delta) <= Mag(sp[t].rows[top].delta)
    PROVE  Mag(SpDump(t, 1)[1].delta) = Mag(sp[t].rows[top].delta)
<1> DEFINE rows == sp[t].rows
           n == Len(rows)
           Before(i) == {j \in DOMAIN rows : \/ Mag(rows[j].delta) > Mag(rows[i].delta)
                                             \/ rows[j].delta \in {rows[i].delta, -rows[i].delta} /\ j < i}
           C(k) == CHOOSE i \in DOMAIN rows : Cardinality(Before(i)) = k - 1
           T(i) == \A j \in 1..n : Mag(rows[j].delta) <= Mag(rows[i].delta)
<1>1. n \in Nat \ {0} /\ DOMAIN rows = 1..n
  BY EmptySeq, RowsTyped
<1>2. \A i \in 1..n : Mag(rows[i].delta) \in Nat /\ rows[i].delta \in Int
  BY RowsTyped, Magnitudes
<1>3. \E i \in 1..n : Before(i) = {}
  <2> DEFINE B == {i \in 1..n : T(i)}
  <2>1. B \in SUBSET Nat
    BY <1>1
  <2>2. B # {}
    OBVIOUS
  <2>3. Min(B) \in B /\ \A y \in B : Min(B) <= y
    BY <2>1, <2>2, MinIsLeast
  <2> DEFINE m == Min(B)
  <2>4. m \in 1..n /\ T(m) /\ \A y \in 1..n : T(y) => m <= y
    BY <2>3
  <2> HIDE DEF m, B
  <2>5. ASSUME NEW j \in DOMAIN rows, j \in Before(m) PROVE FALSE
    <3>1. j \in 1..n /\ ~(Mag(rows[j].delta) > Mag(rows[m].delta))
      BY <1>1, <1>2, <2>4
    <3>2. rows[j].delta \in {rows[m].delta, -rows[m].delta} /\ j < m
      BY <2>5, <3>1
    <3>3. Mag(rows[j].delta) = Mag(rows[m].delta)
      BY <1>2, <2>4, <3>2, MagSame
    <3>4. T(j)
      BY <2>4, <3>3
    <3>5. m <= j
      BY <2>4, <3>1, <3>4
    <3> QED
      BY <1>1, <2>4, <3>1, <3>2, <3>5
  <2> QED
    BY <2>4, <2>5
<1>4. \A i : Cardinality(Before(i)) = 0 <=> Before(i) = {}
  <2> TAKE i
  <2>1. IsFiniteSet(1..n)
    BY <1>1, UpTo
  <2>2. Before(i) \in SUBSET (1..n)
    BY <1>1
  <2>3. IsFiniteSet(Before(i))
    BY <2>1, <2>2, FS_Subset
  <2> QED
    BY <2>3, FS_EmptySet
<1>5. C(1) \in 1..n /\ Before(C(1)) = {}
  <2> HIDE DEF Before
  <2>1. \E i \in DOMAIN rows : Cardinality(Before(i)) = 1 - 1
    BY <1>1, <1>3, <1>4
  <2>2. C(1) \in DOMAIN rows /\ Cardinality(Before(C(1))) = 1 - 1
    BY <2>1, Zenon
  <2> HIDE DEF C
  <2> QED
    BY <1>1, <1>4, <2>2
<1>6. SpDump(t, 1)[1] = rows[C(1)]
  <2>1. {1, n} \in SUBSET Nat
    BY <1>1
  <2>2. {1, n} # {}
    OBVIOUS
  <2>3. Min({1, n}) \in {1, n} /\ \A y \in {1, n} : Min({1, n}) <= y
    BY <2>1, <2>2, MinIsLeast
  <2>4. 1 \in 1..Min({1, n})
    BY <1>1, <2>3
  <2>5. SpDump(t, 1) = [k \in 1..Min({1, n}) |-> rows[C(k)]]
    BY DEF SpDump
  <2> HIDE DEF C
  <2> QED
    BY <2>4, <2>5
<1> DEFINE c == C(1)
<1> HIDE DEF C, c
<1>7. T(c)
  <2>1. c \in 1..n /\ Before(c) = {}
    BY <1>5 DEF c
  <2> SUFFICES ASSUME NEW j \in 1..n PROVE Mag(rows[j].delta) <= Mag(rows[c].delta)
    OBVIOUS
  <2>2. Mag(rows[j].delta) > Mag(rows[c].delta) => j \in Before(c)
    BY <1>1
  <2>3. ~(Mag(rows[j].delta) > Mag(rows[c].delta))
    BY <2>1, <2>2
  <2> QED
    BY <1>2, <2>1, <2>3
<1>8. Mag(rows[c].delta) = Mag(rows[top].delta)
  BY <1>2, <1>5, <1>7 DEF c
<1> QED
  BY <1>6, <1>8 DEF c

LEMMA HonestReports ==
    ASSUME SpInv, NEW t \in Tables
    PROVE  LET rows == sp[t].rows
               kept == {<<rows[i].site, rows[i].delta>> : i \in DOMAIN rows}
               seen == {p \in Site \X Delta : reported[t][p] > 0}
           IN /\ \A i \in DOMAIN rows : rows[i].count = reported[t][<<rows[i].site, rows[i].delta>>]
              /\ Cardinality(kept) = Len(rows)
              /\ \A p \in seen \ kept, q \in kept : Mag(p[2]) <= Mag(q[2])
              /\ seen # {} => /\ Mag(sp[t].worst) = Max({Mag(p[2]) : p \in seen})
                              /\ Mag(SpDump(t, 1)[1].delta) = Mag(sp[t].worst)
<1> DEFINE rows == sp[t].rows
           worst == sp[t].worst
           rep == reported[t]
           n == Len(rows)
           kept == {<<rows[i].site, rows[i].delta>> : i \in DOMAIN rows}
           seen == {p \in Site \X Delta : rep[p] > 0}
<1>1. Honest(rows, worst, rep)
  BY DEF SpInv
<1>2. /\ rows \in Seq(Row) /\ n \in Nat /\ DOMAIN rows = 1..n
      /\ \A i \in 1..n : /\ rows[i].site \in Site /\ rows[i].delta \in Delta
                          /\ Mag(rows[i].delta) \in Nat
  BY <1>1, RowsTyped DEF Honest
<1>3. \A i \in 1..n : rows[i].count = rep[<<rows[i].site, rows[i].delta>>] /\ rows[i].count > 0
  BY <1>1 DEF Honest
<1>4. Cardinality(kept) = n
  <2> DEFINE f == [i \in 1..n |-> <<rows[i].site, rows[i].delta>>]
  <2>1. IsFiniteSet(1..n) /\ Cardinality(1..n) = n
    BY <1>2, UpTo
  <2>2. f \in [1..n -> kept]
    BY <1>2
  <2>3. \A i, j \in 1..n : f[i] = f[j] => i = j
    BY <1>1 DEF Honest
  <2>4. \A p \in kept : \E i \in 1..n : f[i] = p
    BY <1>2
  <2> HIDE DEF f, kept
  <2>5. f \in Bijection(1..n, kept)
    BY <2>2, <2>3, <2>4 DEF Bijection, Injection, Surjection, IsInjective
  <2>6. ExistsBijection(1..n, kept)
    BY <2>5 DEF ExistsBijection
  <2> QED
    BY <2>1, <2>6, FS_Bijection
<1>5. ASSUME NEW p \in seen
      PROVE  /\ p = <<p[1], p[2]>> /\ p[1] \in Site /\ p[2] \in Delta /\ rep[<<p[1], p[2]>>] > 0
             /\ Mag(p[2]) <= Mag(worst)
  <2>1. p = <<p[1], p[2]>> /\ p[1] \in Site /\ p[2] \in Delta /\ rep[<<p[1], p[2]>>] > 0
    OBVIOUS
  <2> QED
    BY <1>1, <2>1 DEF Honest
<1>6. ASSUME NEW p \in seen \ kept, NEW q \in kept PROVE Mag(p[2]) <= Mag(q[2])
  <2>1. PICK i \in 1..n : q = <<rows[i].site, rows[i].delta>>
    BY <1>2
  <2>2. \A j \in 1..n : ~(rows[j].site = p[1] /\ rows[j].delta = p[2])
    BY <1>2, <1>5
  <2>3. Mag(p[2]) <= Mag(rows[i].delta)
    <3> HIDE DEF rows, rep, worst, seen, kept
    <3>1. p \in seen
      OBVIOUS
    <3>2. p[1] \in Site /\ p[2] \in Delta /\ rep[<<p[1], p[2]>>] > 0
      BY <1>5, <3>1
    <3> QED
      BY <1>1, <2>2, <3>2 DEF Honest
  <2> QED
    BY <2>1, <2>3
<1>7. ASSUME seen # {}
      PROVE  \E i \in 1..n : /\ Mag(rows[i].delta) = Mag(worst)
                             /\ \A j \in 1..n : Mag(rows[j].delta) <= Mag(rows[i].delta)
  <2>1. PICK p : p \in seen
    BY <1>7
  <2>2. worst # 0
    BY <1>5, <2>1, Magnitudes
  <2>3. PICK i \in 1..n : Mag(rows[i].delta) = Mag(worst)
    BY <1>1, <2>2 DEF Honest
  <2>4. ASSUME NEW j \in 1..n PROVE Mag(rows[j].delta) <= Mag(worst)
    <3>1. rep[<<rows[j].site, rows[j].delta>>] > 0 /\ rows[j].site \in Site /\ rows[j].delta \in Delta
      BY <1>2, <1>3
    <3> QED
      BY <1>1, <3>1 DEF Honest
  <2> QED
    BY <2>3, <2>4
<1>8. ASSUME seen # {}
      PROVE  /\ Mag(worst) = Max({Mag(p[2]) : p \in seen})
             /\ Mag(SpDump(t, 1)[1].delta) = Mag(worst)
  <2> DEFINE S == {Mag(p[2]) : p \in seen}
  <2>1. PICK i \in 1..n : /\ Mag(rows[i].delta) = Mag(worst)
                          /\ \A j \in 1..n : Mag(rows[j].delta) <= Mag(rows[i].delta)
    BY <1>7, <1>8
  <2>2. Mag(SpDump(t, 1)[1].delta) = Mag(worst)
    BY <1>2, <2>1, DumpBegins
  <2>3. Mag(worst) \in S
    <3>1. <<rows[i].site, rows[i].delta>> \in seen
      BY <1>2, <1>3
    <3>2. <<rows[i].site, rows[i].delta>>[2] = rows[i].delta
      OBVIOUS
    <3> HIDE DEF seen
    <3>3. Mag(<<rows[i].site, rows[i].delta>>[2]) \in S
      BY <3>1
    <3> QED
      BY <2>1, <3>2, <3>3
  <2>4. \A y \in S : y \in Nat /\ y <= Mag(worst)
    BY <1>5, Magnitudes
  <2> HIDE DEF S
  <2>5. Max(S) \in S /\ \A y \in S : Max(S) >= y
    <3>1. \E x \in S : \A y \in S : x >= y
      BY <2>3, <2>4
    <3> QED
      BY <3>1 DEF Max
  <2>6. Max(S) = Mag(worst)
    BY <2>3, <2>4, <2>5
  <2> QED
    BY <2>2, <2>6 DEF S
<1> QED
  BY <1>2, <1>3, <1>4, <1>6, <1>8

TraceInv == RingInv /\ SpInv

LEMMA InitTraceInv == ASSUME TraceInit PROVE TraceInv
<1>1. RingInv
  <2>1. /\ ring \in [0..TraceDepth - 1 -> Site \cup {0}] /\ entries = 0 /\ log = << >>
        /\ << >> \in Seq(Site) /\ Len(<< >>) = 0
    BY EmptySeq DEF TraceInit
  <2> QED
    BY <2>1 DEF RingInv
<1>2. SpInv
  <2> DEFINE none == [rows |-> << >>, worst |-> 0]
             naught == [p \in Site \X Delta |-> 0]
  <2>1. sp = [t \in Tables |-> none] /\ reported = [t \in Tables |-> naught]
    BY DEF TraceInit
  <2>2. << >> \in Seq(Row) /\ Len(<< >>) = 0 /\ SpSites \in Nat
    BY EmptySeq, TraceAssumption
  <2>3. none \in [rows : Seq(Row), worst : Delta \cup {0}] /\ none.rows = << >> /\ none.worst = 0
    BY <2>2
  <2>4. naught \in [Site \X Delta -> Nat] /\ \A s \in Site, d \in Delta : naught[<<s, d>>] = 0
    OBVIOUS
  <2> HIDE DEF none, naught
  <2>5. Honest(<< >>, 0, naught)
    BY <2>2, <2>4 DEF Honest
  <2> QED
    BY <2>1, <2>3, <2>4, <2>5 DEF SpInv
<1> QED
  BY <1>1, <1>2 DEF TraceInv

LEMMA NextTraceInv == ASSUME TraceInv, [RingNext \/ SpNext]_traceVars PROVE TraceInv'
<1>1. CASE UNCHANGED <<ring, entries, log, sp, reported>>
  BY <1>1 DEF TraceInv, RingInv, SpInv
<1>2. ASSUME NEW a \in Site, TraceEnter(a) PROVE TraceInv'
  <2>1. RingInv'
    BY <1>2, EnterKeeps DEF TraceInv
  <2>2. SpInv'
    BY <1>2 DEF TraceInv, TraceEnter, SpInv
  <2> QED
    BY <2>1, <2>2 DEF TraceInv
<1>3. CASE TraceReset
  <2>1. << >> \in Seq(Site) /\ Len(<< >>) = 0
    BY EmptySeq
  <2>2. RingInv'
    BY <1>3, <2>1 DEF TraceReset, TraceInv, RingInv
  <2>3. SpInv'
    BY <1>3 DEF TraceReset, TraceInv, SpInv
  <2> QED
    BY <2>2, <2>3 DEF TraceInv
<1>4. ASSUME NEW t \in Tables, NEW s \in Site, NEW d \in Delta, Record(t, s, d) PROVE TraceInv'
  <2>1. SpInv'
    BY <1>4, RecordKeeps DEF TraceInv
  <2>2. RingInv'
    BY <1>4 DEF Record, TraceInv, RingInv
  <2> QED
    BY <2>1, <2>2 DEF TraceInv
<1>5. CASE RingNext
  <2>1. ASSUME NEW a \in Site, TraceMark(a) PROVE TraceInv'
    BY <1>1, <2>1 DEF TraceMark
  <2>2. ASSUME NEW w \in {{}, Site}, MarksInit(w) PROVE TraceInv'
    BY <1>1, <2>2 DEF MarksInit
  <2> QED
    BY <1>2, <1>3, <1>5, <2>1, <2>2 DEF RingNext
<1>6. CASE SpNext
  BY <1>3, <1>4, <1>6 DEF SpNext, TraceSp, TraceSpLeave, TraceSpCall, Tables
<1> QED
  BY <1>1, <1>5, <1>6 DEF traceVars

(* psp_trace_enter, psp_trace_dump, sp_record and sp_dump, for a ring and tables of any
   size: what a bring-up reads after a crash is what happened - the functions entered last,
   in order, and the largest stack imbalances with all their reports. *)
THEOREM ReportsStayTrue == TraceSpec => []ReportsTrue
<1>1. TraceInit => TraceInv
  BY InitTraceInv
<1>2. TraceInv /\ [RingNext \/ SpNext]_traceVars => TraceInv'
  BY NextTraceInv
<1>3. TraceInv => ReportsTrue
  BY RingReports, HonestReports DEF TraceInv, ReportsTrue, LargestKept
<1> QED
  BY <1>1, <1>2, <1>3, PTL DEF TraceSpec

-----------------------------------------------------------------------------
(* The dispatch table. *)
Cells == {Empty} \cup [used : {TRUE}, addr : Address, fn : Function]

(* A table has a cell for each number below its size, *)
Shaped(t) == /\ Size(t) \in Nat /\ DOMAIN t = 0..Size(t) - 1
             /\ \A j \in DOMAIN t : t[j] \in Cells

Holds(t, j, a) == t[j].used /\ t[j].addr = a

(* no address twice, *)
NoTwins(t) == \A i, j \in DOMAIN t : t[i].used /\ Holds(t, j, t[i].addr) => i = j

(* and no free cell between the one an address hashes to and the one that holds it. *)
Chained(t) == \A a \in Address : \A k \in 0..Size(t) - 1 :
    Holds(t, SlotOf(t, a, k), a) => \A l \in 0..k - 1 : t[SlotOf(t, a, l)].used

TableSound(t) == Shaped(t) /\ NoTwins(t) /\ Chained(t)

(* What a search for a in the table t answers. *)
Answer(t, a) == IF DOMAIN t = {} \/ Spins(t, a) THEN Nothing
                ELSE IF t[Probe(t, a)].used THEN t[Probe(t, a)].fn ELSE Nothing

(* The table does not hold a; the places before the m-th of a's are in use; u is the
   table t but for the cell p. *)
Absent(t, a) == \A j \in DOMAIN t : ~Holds(t, j, a)
Leads(t, a, m) == \A l \in 0..m - 1 : t[SlotOf(t, a, l)].used
ElseSame(u, t, p) == DOMAIN u = DOMAIN t /\ \A j \in DOMAIN t : j # p => u[j] = t[j]

LEMMA LookupIsAnswer == \A a : Lookup(a) = Answer(table, a) /\ Lookup(a)' = Answer(table', a)
BY DEF Lookup, Answer, Spins, Stops, Probe, SlotOf, Home, Size

LEMMA RingOffset ==
    ASSUME NEW n \in Nat, 0 < n, NEW h \in 0..n - 1, NEW k \in 0..n - 1
    PROVE  (h + k) % n = IF h + k < n THEN h + k ELSE h + k - n
<1>1. ASSUME NEW x \in Nat, x < n PROVE x % n = x
  BY <1>1
<1>2. ASSUME NEW x \in Nat, n <= x, x < n + n PROVE x % n = x - n
  BY <1>2
<1> QED
  BY <1>1, <1>2

LEMMA HomeInTable ==
    ASSUME NEW n \in Nat, 0 < n, NEW a \in Address
    PROVE  Home(a, n) \in 0..n - 1
<1>1. a * Multiplier \in Nat
  BY DispatchAssumption
<1> HIDE DEF Home
<1> DEFINE x == a * Multiplier
<1>2. x \in Nat
  BY <1>1
<1> HIDE DEF x
<1>3. x % n \in 0..n - 1
  BY <1>2
<1> QED
  BY <1>3 DEF Home, x

(* The places after an address's own go once over the whole table. *)
LEMMA Round ==
    ASSUME NEW t, Shaped(t), DOMAIN t # {}, NEW a \in Address
    PROVE  /\ Size(t) > 0
           /\ \A k \in 0..Size(t) - 1 : SlotOf(t, a, k) \in DOMAIN t
           /\ \A k, l \in 0..Size(t) - 1 : SlotOf(t, a, k) = SlotOf(t, a, l) => k = l
           /\ \A j \in DOMAIN t : \E k \in 0..Size(t) - 1 : SlotOf(t, a, k) = j
<1> DEFINE n == Size(t)
           h == Home(a, n)
<1>1. n \in Nat /\ 0 < n /\ DOMAIN t = 0..n - 1
  BY DEF Shaped
<1>2. h \in 0..n - 1
  BY <1>1, HomeInTable
<1> HIDE DEF n, h
<1>3. \A k \in 0..n - 1 : (h + k) % n = IF h + k < n THEN h + k ELSE h + k - n
  BY <1>1, <1>2, RingOffset
<1>4. \A k : SlotOf(t, a, k) = (h + k) % n
  BY DEF SlotOf, n, h
<1>5. \A k \in 0..n - 1 : SlotOf(t, a, k) = IF h + k < n THEN h + k ELSE h + k - n
  BY <1>3, <1>4
<1>6. \A k \in 0..n - 1 : SlotOf(t, a, k) \in DOMAIN t
  BY <1>1, <1>2, <1>5
<1>7. \A k, l \in 0..n - 1 : SlotOf(t, a, k) = SlotOf(t, a, l) => k = l
  BY <1>1, <1>2, <1>5
<1>8. ASSUME NEW j \in DOMAIN t PROVE \E k \in 0..n - 1 : SlotOf(t, a, k) = j
  <2>1. CASE h <= j
    <3>1. j - h \in 0..n - 1 /\ SlotOf(t, a, j - h) = j
      BY <1>1, <1>2, <1>5, <1>8, <2>1
    <3> QED
      BY <3>1
  <2>2. CASE j < h
    <3>1. j - h + n \in 0..n - 1 /\ SlotOf(t, a, j - h + n) = j
      BY <1>1, <1>2, <1>5, <1>8, <2>2
    <3> QED
      BY <3>1
  <2> QED
    BY <1>1, <1>2, <1>8, <2>1, <2>2
<1> QED
  BY <1>1, <1>6, <1>7, <1>8 DEF n

LEMMA CellFacts ==
    ASSUME NEW t, Shaped(t), NEW j \in DOMAIN t
    PROVE  t[j].used => /\ t[j].addr \in Address /\ t[j].fn \in Function
                        /\ t[j] = [used |-> TRUE, addr |-> t[j].addr, fn |-> t[j].fn]
<1>1. CASE t[j] = Empty
  BY <1>1 DEF Empty
<1>2. CASE t[j] \in [used : {TRUE}, addr : Address, fn : Function]
  BY <1>2
<1> QED
  BY <1>1, <1>2 DEF Shaped, Cells

(* A search stops at the address, or at a free cell when the table does not hold it. *)
LEMMA SearchStops ==
    ASSUME NEW t, TableSound(t), DOMAIN t # {}, NEW a \in Address, ~Spins(t, a)
    PROVE  \E m \in 0..Size(t) - 1 :
              /\ Probe(t, a) = SlotOf(t, a, m) /\ Probe(t, a) \in DOMAIN t
              /\ Leads(t, a, m)
              /\ Holds(t, Probe(t, a), a) \/ (~t[Probe(t, a)].used /\ Absent(t, a))
<1> USE DEF Absent, Leads
<1> DEFINE S == Stops(t, a)
           m == Min(S)
           n == Size(t)
<1>1. S # {} /\ S \in SUBSET Nat /\ S \subseteq 0..n - 1 /\ n \in Nat
  BY DEF Spins, Stops, TableSound, Shaped
<1>2. m \in S /\ \A y \in S : m <= y
  <2> HIDE DEF S
  <2> QED
    BY <1>1, MinIsLeast
<1>3. m \in 0..n - 1 /\ Probe(t, a) = SlotOf(t, a, m)
  BY <1>1, <1>2 DEF Probe
<1>4. SlotOf(t, a, m) \in DOMAIN t /\ \A j \in DOMAIN t : \E k \in 0..n - 1 : SlotOf(t, a, k) = j
  BY <1>3, Round DEF TableSound
<1>5. \A k \in 0..n - 1 : k \in S <=> (~t[SlotOf(t, a, k)].used \/ t[SlotOf(t, a, k)].addr = a)
  BY DEF Stops
<1> HIDE DEF S, m, n
<1>6. \A l \in 0..m - 1 : l \in 0..n - 1 /\ l \notin S
  BY <1>1, <1>2, <1>3
<1>7. \A l \in 0..m - 1 : t[SlotOf(t, a, l)].used
  BY <1>5, <1>6
<1>8. CASE t[SlotOf(t, a, m)].used
  <2>1. Holds(t, SlotOf(t, a, m), a)
    BY <1>2, <1>3, <1>5, <1>8 DEF Holds
  <2> QED
    BY <1>3, <1>4, <1>7, <2>1 DEF n
<1>9. CASE ~t[SlotOf(t, a, m)].used
  <2>1. ASSUME NEW j \in DOMAIN t, Holds(t, j, a) PROVE FALSE
    <3>1. PICK k \in 0..n - 1 : SlotOf(t, a, k) = j
      BY <1>4
    <3>2. k \in S /\ m <= k
      BY <1>2, <1>5, <2>1, <3>1 DEF Holds
    <3>3. \A l \in 0..k - 1 : t[SlotOf(t, a, l)].used
      BY <2>1, <3>1 DEF TableSound, Chained, n
    <3>4. m # k
      BY <1>9, <2>1, <3>1 DEF Holds
    <3>5. m \in 0..k - 1
      BY <1>1, <1>3, <3>1, <3>2, <3>4
    <3> QED
      BY <1>9, <3>3, <3>5
  <2> QED
    BY <1>3, <1>4, <1>7, <1>9, <2>1 DEF n
<1> QED
  BY <1>8, <1>9

(* What the table holds is found, and nothing else is. *)
LEMMA AnswerKnown ==
    ASSUME NEW t, TableSound(t), NEW a \in Address, NEW j \in DOMAIN t, Holds(t, j, a)
    PROVE  Answer(t, a) = t[j].fn /\ Probe(t, a) = j /\ ~Spins(t, a)
<1>1. ~Spins(t, a)
  <2>1. PICK k \in 0..Size(t) - 1 : SlotOf(t, a, k) = j
    BY Round DEF TableSound
  <2>2. k \in Stops(t, a)
    BY <2>1 DEF Stops, Holds
  <2> QED
    BY <2>2 DEF Spins
<1>2. Holds(t, Probe(t, a), a) /\ Probe(t, a) \in DOMAIN t
  BY <1>1, SearchStops DEF Absent
<1>3. Probe(t, a) = j
  BY <1>2 DEF TableSound, NoTwins, Holds
<1> QED
  BY <1>1, <1>3 DEF Answer, Holds

LEMMA AnswerNone ==
    ASSUME NEW t, TableSound(t), NEW a \in Address, Absent(t, a)
    PROVE  Answer(t, a) = Nothing
<1>1. CASE DOMAIN t = {} \/ Spins(t, a)
  BY <1>1 DEF Answer
<1>2. CASE DOMAIN t # {} /\ ~Spins(t, a)
  <2>1. ~t[Probe(t, a)].used
    BY <1>2, SearchStops DEF Absent
  <2> QED
    BY <1>2, <2>1 DEF Answer
<1> QED
  BY <1>1, <1>2

(* A cell may take an address that it holds already, or that the table does not hold and
   whose search comes to it over cells in use. *)
LEMMA PlaceSound ==
    ASSUME NEW t, TableSound(t), NEW a \in Address, NEW f \in Function,
           NEW m \in 0..Size(t) - 1, NEW p \in DOMAIN t, p = SlotOf(t, a, m),
           Leads(t, a, m), Holds(t, p, a) \/ (~t[p].used /\ Absent(t, a)),
           NEW u, ElseSame(u, t, p), u[p] = [used |-> TRUE, addr |-> a, fn |-> f]
    PROVE  TableSound(u) /\ Holds(u, p, a) /\ u[p].fn = f
<1> USE DEF Absent, Leads
<1> DEFINE new == [used |-> TRUE, addr |-> a, fn |-> f]
           n == Size(t)
<1>1. DOMAIN u = DOMAIN t /\ u[p] = new /\ \A j \in DOMAIN t : j # p => u[j] = t[j]
  BY DEF ElseSame
<1>2. new \in Cells /\ new.used /\ new.addr = a /\ new.fn = f
  BY DEF Cells
<1> HIDE DEF new
<1>3. Size(u) = n /\ \A b, k : SlotOf(u, b, k) = SlotOf(t, b, k)
  BY <1>1 DEF Size, SlotOf
<1>4. Shaped(u)
  BY <1>1, <1>2, <1>3 DEF Shaped, TableSound
<1>5. \A j \in DOMAIN t : t[j].used => u[j].used /\ u[j].addr = t[j].addr
  BY <1>1, <1>2 DEF Holds
<1>6. \A j \in DOMAIN t : u[j].used => (t[j].used /\ u[j].addr = t[j].addr) \/ (j = p /\ u[j].addr = a)
  BY <1>1, <1>2
<1>7. \A j \in DOMAIN t : Holds(t, j, a) => j = p
  BY DEF TableSound, NoTwins, Holds
<1>8. NoTwins(u)
  <2> SUFFICES ASSUME NEW i \in DOMAIN t, NEW j \in DOMAIN t, u[i].used, u[j].used,
                      u[j].addr = u[i].addr
               PROVE  i = j
    BY <1>1 DEF NoTwins, Holds
  <2> QED
    BY <1>6, <1>7 DEF TableSound, NoTwins, Holds
<1>9. Chained(u)
  <2> SUFFICES ASSUME NEW b \in Address, NEW k \in 0..Size(u) - 1, Holds(u, SlotOf(u, b, k), b),
                      NEW l \in 0..k - 1
               PROVE  u[SlotOf(u, b, l)].used
    BY DEF Chained
  <2>5. k \in 0..n - 1 /\ Holds(u, SlotOf(t, b, k), b) /\ SlotOf(u, b, l) = SlotOf(t, b, l)
    BY <1>3
  <2> DEFINE j == SlotOf(t, b, k)
             i == SlotOf(t, b, l)
  <2>1. n \in Nat /\ l \in 0..n - 1
    BY <2>5 DEF TableSound, Shaped
  <2>2. j \in DOMAIN t /\ i \in DOMAIN t
    BY <2>1, <2>5, Round DEF TableSound
  <2>3. CASE Holds(t, j, b)
    BY <1>5, <2>2, <2>3, <2>5 DEF TableSound, Chained
  <2>4. CASE j = p /\ b = a
    <3>1. k = m
      BY <2>4, <2>5, Round DEF TableSound
    <3> QED
      BY <1>5, <2>2, <2>4, <2>5, <3>1
  <2> QED
    BY <1>6, <2>2, <2>3, <2>4, <2>5 DEF Holds
<1> QED
  BY <1>1, <1>2, <1>4, <1>8, <1>9 DEF TableSound, Holds

(* The effect of a registration in the table t. *)
LEMMA PutSound ==
    ASSUME NEW t, TableSound(t), DOMAIN t # {}, NEW a \in Address, NEW f \in Function,
           ~Spins(t, a), NEW u, u = Put(t, a, f)
    PROVE  /\ TableSound(u) /\ DOMAIN u = DOMAIN t
           /\ Answer(u, a) = f
           /\ \A b \in Address : b # a => Answer(u, b) = Answer(t, b)
           /\ \E p \in DOMAIN t : ElseSame(u, t, p)
<1> DEFINE p == Probe(t, a)
<1>1. PICK m \in 0..Size(t) - 1 :
              /\ p = SlotOf(t, a, m) /\ p \in DOMAIN t
              /\ Leads(t, a, m)
              /\ Holds(t, p, a) \/ (~t[p].used /\ Absent(t, a))
  BY SearchStops
<1>2. u = [t EXCEPT ![p] = [used |-> TRUE, addr |-> a, fn |-> f]]
  BY DEF Put
<1> HIDE DEF p
<1>6. ElseSame(u, t, p) /\ u[p] = [used |-> TRUE, addr |-> a, fn |-> f]
  BY <1>1, <1>2 DEF ElseSame
<1>7. TableSound(u) /\ Holds(u, p, a) /\ u[p].fn = f
  BY <1>1, <1>6, PlaceSound
<1>3. /\ TableSound(u) /\ DOMAIN u = DOMAIN t
      /\ Holds(u, p, a) /\ u[p].fn = f
      /\ \A j \in DOMAIN t : j # p => u[j] = t[j]
  BY <1>6, <1>7 DEF ElseSame
<1>4. Answer(u, a) = f
  BY <1>1, <1>3, AnswerKnown
<1>5. ASSUME NEW b \in Address, b # a PROVE Answer(u, b) = Answer(t, b)
  <2>1. \A j \in DOMAIN t : Holds(u, j, b) <=> Holds(t, j, b)
    BY <1>1, <1>3, <1>5 DEF Holds, Absent
  <2>2. ASSUME NEW j \in DOMAIN t, Holds(t, j, b) PROVE Answer(u, b) = Answer(t, b)
    <3>1. j # p
      BY <1>1, <1>5, <2>2 DEF Holds
    <3> QED
      BY <1>3, <2>1, <2>2, <3>1, AnswerKnown
  <2>3. CASE \A j \in DOMAIN t : ~Holds(t, j, b)
    BY <1>3, <2>1, <2>3, AnswerNone DEF Absent
  <2> QED
    BY <2>2, <2>3
<1> QED
  BY <1>1, <1>3, <1>4, <1>5, <1>6

(* The effect of a turn of grow's loop that moves the cell c. *)
LEMMA MovedSound ==
    ASSUME NEW t, TableSound(t), NEW c, c.addr \in Address, c.fn \in Function,
           c = [used |-> TRUE, addr |-> c.addr, fn |-> c.fn],
           Absent(t, c.addr), \E j \in DOMAIN t : ~t[j].used,
           NEW u, u = Moved(t, c)
    PROVE  /\ TableSound(u) /\ DOMAIN u = DOMAIN t
           /\ \E p \in DOMAIN t : u[p] = c /\ ~t[p].used /\ ElseSame(u, t, p)
<1> DEFINE a == c.addr
           n == Size(t)
           S == {k \in 0..n - 1 : ~t[SlotOf(t, a, k)].used}
           m == Min(S)
           p == SlotOf(t, a, m)
<1>1. n \in Nat /\ \A j \in DOMAIN t : \E k \in 0..n - 1 : SlotOf(t, a, k) = j
  BY Round DEF TableSound, Shaped
<1>2. S \in SUBSET Nat /\ S # {}
  BY <1>1
<1>3. m \in S /\ \A y \in S : m <= y
  <2> HIDE DEF S
  <2> QED
    BY <1>2, MinIsLeast
<1>4. m \in 0..n - 1 /\ ~t[p].used
  BY <1>3
<1>5. p \in DOMAIN t
  BY <1>4, Round DEF TableSound
<1>6. \A l \in 0..m - 1 : t[SlotOf(t, a, l)].used
  <2>1. \A l \in 0..m - 1 : l \in 0..n - 1 /\ l \notin S
    <3> HIDE DEF S, m, n
    <3> QED
      BY <1>1, <1>3, <1>4
  <2> QED
    BY <2>1
<1>7. u = [t EXCEPT ![p] = c]
  BY DEF Moved
<1> HIDE DEF S, m, p, n
<1>9. p = SlotOf(t, a, m) /\ m \in 0..Size(t) - 1
  BY <1>4 DEF p, n
<1>10. ElseSame(u, t, p) /\ u[p] = c
  BY <1>5, <1>7 DEF ElseSame
<1>11. TableSound(u)
  BY <1>4, <1>5, <1>6, <1>9, <1>10, PlaceSound DEF Leads
<1> QED
  BY <1>4, <1>5, <1>10, <1>11 DEF ElseSame

(* How many cells are in use. *)
Busy(t) == {j \in DOMAIN t : t[j].used}

LEMMA BusyCount ==
    ASSUME NEW t, Shaped(t)
    PROVE  /\ IsFiniteSet(Busy(t)) /\ Cardinality(Busy(t)) \in Nat /\ CountOf(t) = Cardinality(Busy(t))
           /\ CountOf(t) < Size(t) => \E j \in DOMAIN t : ~t[j].used
<1> DEFINE n == Size(t)
<1>1. n \in Nat /\ DOMAIN t = 0..n - 1 /\ n = Cardinality(DOMAIN t)
  BY DEF Shaped, Size
<1> HIDE DEF n
<1>2. IsFiniteSet(0..n - 1)
  BY <1>1, FS_Interval
<1>3. Busy(t) \subseteq DOMAIN t
  BY DEF Busy
<1>4. IsFiniteSet(Busy(t)) /\ Cardinality(Busy(t)) \in Nat
  BY <1>1, <1>2, <1>3, FS_Subset, FS_CardinalityType
<1>5. CountOf(t) = Cardinality(Busy(t))
  BY DEF CountOf, Busy
<1>6. (\A j \in DOMAIN t : t[j].used) => Busy(t) = DOMAIN t
  BY DEF Busy
<1> QED
  BY <1>1, <1>4, <1>5, <1>6 DEF n

(* Changing one cell takes at most one more into use. *)
LEMMA OneCellMore ==
    ASSUME NEW t, Shaped(t), NEW u, Shaped(u), NEW p \in DOMAIN t, ElseSame(u, t, p)
    PROVE  CountOf(u) \in Nat /\ CountOf(t) \in Nat /\ CountOf(u) <= CountOf(t) + 1
<1>1. Busy(u) \subseteq Busy(t) \cup {p}
  BY DEF Busy, ElseSame
<1>2. IsFiniteSet(Busy(t) \cup {p}) /\ Cardinality(Busy(t) \cup {p}) <= Cardinality(Busy(t)) + 1
  BY BusyCount, FS_AddElement
<1>3. Cardinality(Busy(u)) <= Cardinality(Busy(t) \cup {p})
  BY <1>1, <1>2, FS_Subset
<1>4. Cardinality(Busy(t) \cup {p}) \in Nat
  BY <1>2, FS_CardinalityType
<1> QED
  BY <1>2, <1>3, <1>4, BusyCount

Asking == {"register", "label"} \X Address \X Function

(* What grow has copied, and nothing else, is in the new table, twice the size. *)
Growing == /\ asked \in Asking
           /\ TableSound(fresh) /\ Size(fresh) = NextCap
           /\ copied \in Nat /\ copied <= Cap
           /\ \A j \in DOMAIN fresh : fresh[j].used => \E i \in 0..copied - 1 : table[i] = fresh[j]
           /\ \A i \in 0..copied - 1 : table[i].used => \E j \in DOMAIN fresh : fresh[j] = table[i]
           /\ CountOf(fresh) <= copied

DispatchInv == /\ TableSound(table) /\ (Cap = 0 \/ Cap >= 2)
               /\ ~denied /\ DOMAIN table # {} => \E j \in DOMAIN table : ~table[j].used
               /\ asked # << >> => Growing

LEMMA EmptySound ==
    ASSUME NEW t, NEW n \in Nat, DOMAIN t = 0..n - 1, \A j \in DOMAIN t : t[j] = Empty
    PROVE  /\ TableSound(t) /\ Size(t) = n /\ CountOf(t) = 0
           /\ \A j \in DOMAIN t : ~t[j].used
<1>1. Size(t) = n
  <2>1. n - 1 \in Int /\ (0 > n - 1 => n = 0) /\ n - 1 - 0 + 1 = n
    OBVIOUS
  <2>2. Cardinality(0..n - 1) = n
    BY <2>1, FS_Interval
  <2> QED
    BY <2>2 DEF Size
<1>2. \A j \in DOMAIN t : ~t[j].used
  BY DEF Empty
<1>3. Shaped(t)
  BY <1>1 DEF Shaped, Cells
<1>4. NoTwins(t)
  BY <1>2 DEF NoTwins
<1>5. ASSUME NEW a \in Address, NEW k \in 0..Size(t) - 1, Holds(t, SlotOf(t, a, k), a) PROVE FALSE
  <2>1. SlotOf(t, a, k) \in DOMAIN t
    BY <1>1, <1>3, Round
  <2> QED
    BY <1>2, <1>5, <2>1 DEF Holds
<1>6. Chained(t)
  BY <1>5 DEF Chained
<1>7. {j \in DOMAIN t : t[j].used} = {}
  BY <1>2
<1> QED
  BY <1>1, <1>2, <1>3, <1>4, <1>6, <1>7, FS_EmptySet DEF TableSound, CountOf

LEMMA BareTable == /\ TableSound(<< >>) /\ Size(<< >>) = 0 /\ CountOf(<< >>) = 0
                 /\ DOMAIN << >> = {}
<1>1. DOMAIN << >> = 0..0 - 1 /\ DOMAIN << >> = {}
  OBVIOUS
<1> QED
  BY <1>1, EmptySound

LEMMA InitDispatchInv == DispatchInit => DispatchInv
BY BareTable DEF DispatchInit, DispatchInv, Cap

(* The rest of a registration keeps the table sound, and takes one more cell at most;
   seen as a dictionary it replaces, gives way, or is refused. *)
LEMMA RegisterKeeps ==
    ASSUME NEW t, TableSound(t), NEW kind \in {"register", "label"}, NEW a \in Address,
           NEW f \in Function, RegisterIn(t, kind, a, f)
    PROVE  /\ TableSound(table') /\ DOMAIN table' = DOMAIN t
           /\ CountOf(table') \in Nat /\ CountOf(t) \in Nat /\ CountOf(table') <= CountOf(t) + 1
           /\ \A b \in Address : b # a => Answer(table', b) = Answer(t, b)
           /\ DOMAIN t = {} => /\ lastCall' = <<"refused", a>> /\ table' = t
                               /\ Answer(t, a) = Nothing
           /\ DOMAIN t # {} => lastCall' = <<kind, a, f>>
           /\ DOMAIN t # {} /\ kind = "register" => Answer(table', a) = f
           /\ DOMAIN t # {} /\ kind = "label" =>
                 Answer(table', a) = IF Answer(t, a) = Nothing THEN f ELSE Answer(t, a)
<1>1. CountOf(t) \in Nat
  BY BusyCount DEF TableSound
<1>2. CASE DOMAIN t = {}
  <2>1. table' = t /\ lastCall' = <<"refused", a>> /\ Answer(t, a) = Nothing
    BY <1>2 DEF RegisterIn, Answer
  <2> QED
    BY <1>1, <1>2, <2>1
<1>3. CASE DOMAIN t # {} /\ kind = "label" /\ t[Probe(t, a)].used
  <2>1. table' = t /\ lastCall' = <<kind, a, f>> /\ ~Spins(t, a)
    BY <1>3 DEF RegisterIn
  <2>2. Probe(t, a) \in DOMAIN t /\ Answer(t, a) = t[Probe(t, a)].fn
    BY <1>3, <2>1, SearchStops DEF Answer
  <2>3. Answer(t, a) # Nothing
    BY <1>3, <2>2, CellFacts, DispatchAssumption DEF TableSound
  <2> QED
    BY <1>1, <1>3, <2>1, <2>3
<1>4. CASE DOMAIN t # {} /\ ~(kind = "label" /\ t[Probe(t, a)].used)
  <2>1. table' = Put(t, a, f) /\ lastCall' = <<kind, a, f>> /\ ~Spins(t, a)
    BY <1>4 DEF RegisterIn
  <2>2. /\ TableSound(table') /\ DOMAIN table' = DOMAIN t /\ Answer(table', a) = f
        /\ \A b \in Address : b # a => Answer(table', b) = Answer(t, b)
        /\ \E p \in DOMAIN t : ElseSame(table', t, p)
    BY <1>4, <2>1, PutSound
  <2>3. CountOf(table') \in Nat /\ CountOf(table') <= CountOf(t) + 1
    BY <2>2, OneCellMore DEF TableSound
  <2>4. kind = "label" => Answer(t, a) = Nothing
    BY <1>4 DEF Answer
  <2> QED
    BY <1>1, <1>4, <2>1, <2>2, <2>3, <2>4
<1> QED
  BY <1>2, <1>3, <1>4

LEMMA SizeOfDomain == \A t, u : DOMAIN t = DOMAIN u => Size(t) = Size(u)
BY DEF Size

LEMMA RegisterInv ==
    ASSUME DispatchInv, NEW kind \in {"register", "label"}, NEW a \in Address, NEW f \in Function,
           Register(kind, a, f)
    PROVE  DispatchInv'
<1>1. /\ TableSound(table') /\ DOMAIN table' = DOMAIN table
      /\ CountOf(table') \in Nat /\ CountOf(table) \in Nat /\ CountOf(table') <= CountOf(table) + 1
  BY RegisterKeeps DEF Register, DispatchInv
<1>2. Size(table') = Cap /\ asked' = << >> /\ Cap \in Nat
  BY <1>1, SizeOfDomain DEF Register, growVars, Cap, DispatchInv, TableSound, Shaped
<1>3. ASSUME ~denied', DOMAIN table' # {} PROVE \E j \in DOMAIN table' : ~table'[j].used
  <2>1. ~Crowded
    BY <1>3 DEF Register
  <2>2. CountOf(table') < Size(table')
    BY <1>1, <1>2, <2>1 DEF Crowded
  <2> QED
    BY <1>1, <2>2, BusyCount DEF TableSound
<1> QED
  BY <1>1, <1>2, <1>3 DEF DispatchInv, Cap

LEMMA BeginGrowInv ==
    ASSUME DispatchInv, NEW kind \in {"register", "label"}, NEW a \in Address, NEW f \in Function,
           BeginGrow(kind, a, f)
    PROVE  DispatchInv'
<1>1. /\ asked' = <<kind, a, f>> /\ fresh' = [j \in 0..NextCap - 1 |-> Empty] /\ copied' = 0
      /\ table' = table /\ denied' = denied
  BY DEF BeginGrow
<1>2. Cap \in Nat /\ NextCap \in Nat /\ Cap' = Cap /\ NextCap' = NextCap
  BY <1>1, DispatchAssumption DEF DispatchInv, TableSound, Shaped, Cap, NextCap
<1>3. /\ TableSound(fresh') /\ Size(fresh') = NextCap /\ CountOf(fresh') = 0
      /\ \A j \in DOMAIN fresh' : ~fresh'[j].used
  <2>1. DOMAIN fresh' = 0..NextCap - 1 /\ \A j \in DOMAIN fresh' : fresh'[j] = Empty
    BY <1>1
  <2> QED
    BY <1>2, <2>1, EmptySound
<1>4. asked' \in Asking
  BY <1>1 DEF Asking
<1>5. Growing'
  BY <1>1, <1>2, <1>3, <1>4 DEF Growing
<1> QED
  BY <1>1, <1>2, <1>5 DEF DispatchInv

(* There is room in grow's table for what is still to copy, and one cell more. *)
LEMMA GrowHasRoom ==
    ASSUME DispatchInv, asked # << >>
    PROVE  /\ Cap \in Nat /\ NextCap \in Nat /\ copied \in Nat /\ CountOf(fresh) \in Nat
           /\ CountOf(fresh) + 1 < NextCap
           /\ \E j \in DOMAIN fresh : ~fresh[j].used
<1>1. Growing /\ Cap \in Nat /\ NextCap \in Nat /\ (Cap = 0 \/ Cap >= 2)
  BY DispatchAssumption DEF DispatchInv, TableSound, Shaped, Cap, NextCap
<1>2. CountOf(fresh) \in Nat /\ copied \in Nat /\ CountOf(fresh) <= copied /\ copied <= Cap
  BY <1>1, BusyCount DEF Growing, TableSound
<1>3. Cap + 1 < NextCap
  BY <1>1, DispatchAssumption DEF NextCap
<1>4. CountOf(fresh) < Size(fresh)
  BY <1>1, <1>2, <1>3 DEF Growing
<1> QED
  BY <1>1, <1>2, <1>3, <1>4, BusyCount DEF Growing, TableSound

LEMMA CopySlotInv == ASSUME DispatchInv, CopySlot PROVE DispatchInv'
<1> DEFINE c == table[copied]
<1>1. /\ asked # << >> /\ copied < Cap /\ copied' = copied + 1
      /\ fresh' = IF c.used THEN Moved(fresh, c) ELSE fresh
      /\ table' = table /\ denied' = denied /\ asked' = asked
  BY DEF CopySlot
<1>2. Growing /\ TableSound(table) /\ DOMAIN table = 0..Cap - 1
  BY <1>1 DEF DispatchInv, TableSound, Shaped, Cap
<1>3. Cap \in Nat /\ copied \in Nat /\ CountOf(fresh) \in Nat /\ \E j \in DOMAIN fresh : ~fresh[j].used
  BY <1>1, GrowHasRoom
<1>4. copied \in DOMAIN table /\ Cap' = Cap /\ NextCap' = NextCap
  BY <1>1, <1>2, <1>3 DEF Cap, NextCap
<1> HIDE DEF c
<1>5. CASE ~c.used
  <2>1. fresh' = fresh
    BY <1>1, <1>5
  <2>2. Growing'
    BY <1>1, <1>2, <1>3, <1>4, <1>5, <2>1 DEF Growing, c
  <2> QED
    BY <1>1, <1>4, <2>2 DEF DispatchInv
<1>6. CASE c.used
  <2>1. c.addr \in Address /\ c.fn \in Function /\ c = [used |-> TRUE, addr |-> c.addr, fn |-> c.fn]
    BY <1>2, <1>4, <1>6, CellFacts DEF TableSound, c
  <2>2. Absent(fresh, c.addr)
    <3> SUFFICES ASSUME NEW j \in DOMAIN fresh, Holds(fresh, j, c.addr) PROVE FALSE
      BY DEF Absent
    <3>1. PICK i \in 0..copied - 1 : table[i] = fresh[j]
      BY <1>2 DEF Growing, Holds
    <3>2. i \in DOMAIN table /\ i # copied
      BY <1>1, <1>2, <1>3
    <3> QED
      BY <1>2, <1>4, <1>6, <3>1, <3>2 DEF TableSound, NoTwins, Holds, c
  <2>3. fresh' = Moved(fresh, c) /\ TableSound(fresh)
    BY <1>1, <1>2, <1>6 DEF Growing
  <2>4. /\ TableSound(fresh') /\ DOMAIN fresh' = DOMAIN fresh
        /\ \E p \in DOMAIN fresh : fresh'[p] = c /\ ~fresh[p].used /\ ElseSame(fresh', fresh, p)
    BY <1>3, <2>1, <2>2, <2>3, MovedSound
  <2>5. PICK p \in DOMAIN fresh : fresh'[p] = c /\ ~fresh[p].used /\ ElseSame(fresh', fresh, p)
    BY <2>4
  <2>6. CountOf(fresh') \in Nat /\ CountOf(fresh') <= CountOf(fresh) + 1
    BY <2>3, <2>4, <2>5, OneCellMore DEF TableSound
  <2>7. ASSUME NEW j \in DOMAIN fresh', fresh'[j].used
        PROVE  \E i \in 0..copied' - 1 : table'[i] = fresh'[j]
    <3>1. copied \in 0..copied' - 1 /\ 0..copied - 1 \subseteq 0..copied' - 1
      BY <1>1, <1>3
    <3>2. CASE j = p
      BY <1>1, <2>5, <3>1, <3>2 DEF c
    <3>3. CASE j # p
      BY <1>1, <1>2, <2>4, <2>5, <2>7, <3>1, <3>3 DEF Growing, ElseSame
    <3> QED
      BY <3>2, <3>3
  <2>8. ASSUME NEW i \in 0..copied' - 1, table'[i].used
        PROVE  \E j \in DOMAIN fresh' : fresh'[j] = table'[i]
    <3>1. CASE i = copied
      BY <1>1, <2>4, <2>5, <3>1 DEF c
    <3>2. CASE i # copied
      <4>1. i \in 0..copied - 1
        BY <1>1, <1>3, <3>2
      <4>2. PICK j \in DOMAIN fresh : fresh[j] = table[i]
        BY <1>1, <1>2, <2>8, <4>1 DEF Growing
      <4>3. j # p
        BY <1>1, <2>5, <2>8, <4>2
      <4> QED
        BY <1>1, <2>4, <2>5, <4>2, <4>3 DEF ElseSame
    <3> QED
      BY <3>1, <3>2
  <2>9. Growing'
    <3>1. copied' \in Nat /\ copied' <= Cap' /\ CountOf(fresh') <= copied'
      BY <1>1, <1>2, <1>3, <1>4, <2>6 DEF Growing
    <3>2. Size(fresh') = NextCap' /\ asked' \in Asking
      BY <1>1, <1>2, <1>4, <2>4, SizeOfDomain DEF Growing
    <3> QED
      BY <2>4, <2>7, <2>8, <3>1, <3>2 DEF Growing
  <2> QED
    BY <1>1, <1>4, <2>9 DEF DispatchInv
<1> QED
  BY <1>5, <1>6

(* Once all is copied the two tables answer alike. *)
LEMMA GrownAnswers ==
    ASSUME DispatchInv, asked # << >>, copied = Cap, NEW b \in Address
    PROVE  Answer(fresh, b) = Answer(table, b)
<1>1. Growing /\ TableSound(table) /\ TableSound(fresh) /\ DOMAIN table = 0..copied - 1
  BY DEF DispatchInv, Growing, TableSound, Shaped, Cap
<1>2. ASSUME NEW i \in DOMAIN table, Holds(table, i, b) PROVE Answer(fresh, b) = Answer(table, b)
  <2>1. PICK j \in DOMAIN fresh : fresh[j] = table[i]
    BY <1>1, <1>2 DEF Growing, Holds
  <2>2. Holds(fresh, j, b)
    BY <1>2, <2>1 DEF Holds
  <2> QED
    BY <1>1, <1>2, <2>1, <2>2, AnswerKnown
<1>3. CASE Absent(table, b)
  <2>1. Absent(fresh, b)
    BY <1>1, <1>3 DEF Growing, Absent, Holds
  <2> QED
    BY <1>1, <1>3, <2>1, AnswerNone
<1> QED
  BY <1>2, <1>3 DEF Absent

LEMMA Asked == ASSUME asked \in Asking
               PROVE  asked[1] \in {"register", "label"} /\ asked[2] \in Address /\ asked[3] \in Function
BY DEF Asking

LEMMA EndGrowInv == ASSUME DispatchInv, EndGrow PROVE DispatchInv'
<1>1. /\ asked # << >> /\ asked' = << >> /\ RegisterIn(fresh, asked[1], asked[2], asked[3])
      /\ asked \in Asking /\ TableSound(fresh) /\ Size(fresh) = NextCap
  BY DEF EndGrow, DispatchInv, Growing
<1>2. /\ TableSound(table') /\ DOMAIN table' = DOMAIN fresh
      /\ CountOf(table') \in Nat /\ CountOf(table') <= CountOf(fresh) + 1
  BY <1>1, Asked, RegisterKeeps
<1>3. CountOf(fresh) \in Nat /\ CountOf(fresh) + 1 < NextCap /\ NextCap \in Nat
  BY <1>1, GrowHasRoom
<1>4. Size(table') = NextCap /\ NextCap >= 2
  BY <1>1, <1>2, <1>3, SizeOfDomain
<1>5. \E j \in DOMAIN table' : ~table'[j].used
  BY <1>2, <1>3, <1>4, BusyCount DEF TableSound
<1> QED
  BY <1>1, <1>2, <1>4, <1>5 DEF DispatchInv, Cap

LEMMA NextDispatchInv == DispatchInv /\ [DispatchNext]_dispatchVars => DispatchInv'
<1> SUFFICES ASSUME DispatchInv, [DispatchNext]_dispatchVars PROVE DispatchInv'
  OBVIOUS
<1>1. ASSUME NEW a \in Address, NEW again, DispatchCall(a, again) PROVE DispatchInv'
  BY <1>1 DEF DispatchCall, DispatchInv, Growing, growVars, Cap, NextCap
<1>2. ASSUME NEW n, SetBudget(n) PROVE DispatchInv'
  BY <1>2 DEF SetBudget, DispatchInv, Growing, growVars, Cap, NextCap
<1>3. CASE DispatchReset
  BY <1>3, BareTable DEF DispatchReset, DispatchInv, growVars, Cap
<1>4. CASE UNCHANGED dispatchVars
  BY <1>4 DEF dispatchVars, DispatchInv, Growing, growVars, Cap, NextCap
<1> QED
  BY <1>1, <1>2, <1>3, <1>4, RegisterInv, BeginGrowInv, CopySlotInv, EndGrowInv DEF DispatchNext

LEMMA DispatchInvariant == DispatchSpec => []DispatchInv
BY InitDispatchInv, NextDispatchInv, PTL DEF DispatchSpec

(* Whatever the addresses and the hash, and however often calloc fails: a table that it
   has not failed has a free slot, and grow's has one for what it still copies, so that
   every search of dispatch.c ends.  (psp_lookup, grow, the load test) *)
THEOREM SearchesEnd == DispatchSpec => []ProbingEnds
<1>1. DispatchInv => ProbingEnds
  BY GrowHasRoom DEF DispatchInv, ProbingEnds
<1> QED
  BY <1>1, DispatchInvariant, PTL

Answers(t) == [a \in Address |-> Answer(t, a)]

LEMMA DictIsAnswers == [a \in Address |-> Lookup(a)] = Answers(table)
BY LookupIsAnswer DEF Answers

LEMMA InitDict == DispatchInit => Dict!DictInit
<1> SUFFICES ASSUME DispatchInit PROVE Dict!DictInit
  OBVIOUS
<1>1. \A a \in Address : Lookup(a) = Nothing
  BY BareTable DEF DispatchInit, Lookup
<1> QED
  BY <1>1 DEF Dict!DictInit, DispatchInit

(* A registration in a table that answers as the present one does is a step of the
   dictionary. *)
LEMMA RegisterDict ==
    ASSUME NEW t, TableSound(t), NEW kind \in {"register", "label"}, NEW a \in Address,
           NEW f \in Function, RegisterIn(t, kind, a, f),
           \A b \in Address : Answer(t, b) = Answer(table, b)
    PROVE  Dict!DictNext
<1> DEFINE D == [b \in Address |-> Lookup(b)]
           old == [b \in Address |-> Answer(t, b)]
           new == [b \in Address |-> Answer(table', b)]
<1>1. D = old /\ D' = new
  BY LookupIsAnswer
<1>2. /\ \A b \in Address : b # a => Answer(table', b) = Answer(t, b)
      /\ DOMAIN t = {} => /\ lastCall' = <<"refused", a>> /\ table' = t
                          /\ Answer(t, a) = Nothing
      /\ DOMAIN t # {} => lastCall' = <<kind, a, f>>
      /\ DOMAIN t # {} /\ kind = "register" => Answer(table', a) = f
      /\ DOMAIN t # {} /\ kind = "label" =>
            Answer(table', a) = IF Answer(t, a) = Nothing THEN f ELSE Answer(t, a)
  BY RegisterKeeps
<1> HIDE DEF D
<1>3. CASE DOMAIN t = {}
  <2>1. D' = D /\ D[a] = Nothing /\ lastCall' = <<"refused", a>>
    BY <1>1, <1>2, <1>3
  <2> QED
    BY <2>1 DEF Dict!Refuse, Dict!DictNext, D
<1>4. CASE DOMAIN t # {} /\ kind = "register"
  <2>1. D' = [D EXCEPT ![a] = f] /\ lastCall' = <<"register", a, f>>
    BY <1>1, <1>2, <1>4
  <2> QED
    BY <2>1 DEF Dict!Replace, Dict!DictNext, D
<1>5. CASE DOMAIN t # {} /\ kind = "label"
  <2>1. D' = [D EXCEPT ![a] = IF @ = Nothing THEN f ELSE @] /\ lastCall' = <<"label", a, f>>
    BY <1>1, <1>2, <1>5
  <2> QED
    BY <2>1 DEF Dict!GiveWay, Dict!DictNext, D
<1> QED
  BY <1>3, <1>4, <1>5

LEMMA NextDict == DispatchInv /\ [DispatchNext]_dispatchVars =>
                      [Dict!DictNext]_<<[a \in Address |-> Lookup(a)], lastCall>>
<1> SUFFICES ASSUME DispatchInv, [DispatchNext]_dispatchVars
             PROVE  \/ Dict!DictNext
                    \/ UNCHANGED <<[a \in Address |-> Lookup(a)], lastCall>>
  OBVIOUS
<1>0. table' = table => UNCHANGED [a \in Address |-> Lookup(a)]
  BY LookupIsAnswer
<1>1. ASSUME NEW kind \in {"register", "label"}, NEW a \in Address, NEW f \in Function,
             Register(kind, a, f)
      PROVE  Dict!DictNext
  BY <1>1, RegisterDict DEF Register, DispatchInv
<1>2. ASSUME NEW kind, NEW a, NEW f, BeginGrow(kind, a, f)
      PROVE  UNCHANGED <<[b \in Address |-> Lookup(b)], lastCall>>
  BY <1>0, <1>2 DEF BeginGrow
<1>3. CASE CopySlot
  BY <1>0, <1>3 DEF CopySlot
<1>4. CASE EndGrow
  <2>1. /\ asked # << >> /\ copied = Cap /\ RegisterIn(fresh, asked[1], asked[2], asked[3])
        /\ asked \in Asking /\ TableSound(fresh)
    BY <1>4 DEF EndGrow, DispatchInv, Growing
  <2> QED
    BY <2>1, Asked, GrownAnswers, RegisterDict
<1>5. ASSUME NEW a \in Address, NEW again, DispatchCall(a, again) PROVE Dict!DictNext
  <2>1. Dict!Run(a)
    BY <1>0, <1>5 DEF DispatchCall, Dict!Run
  <2> QED
    BY <2>1 DEF Dict!DictNext
<1>6. ASSUME NEW n, SetBudget(n) PROVE UNCHANGED <<[b \in Address |-> Lookup(b)], lastCall>>
  BY <1>0, <1>6 DEF SetBudget
<1>7. CASE DispatchReset
  <2>1. \A a \in Address : Lookup(a)' = Nothing
    BY <1>7, BareTable DEF DispatchReset, Lookup
  <2>2. Dict!Clear
    BY <1>7, <2>1 DEF DispatchReset, Dict!Clear
  <2> QED
    BY <2>2 DEF Dict!DictNext
<1>8. CASE UNCHANGED dispatchVars
  BY <1>0, <1>8 DEF dispatchVars
<1> QED
  BY <1>1, <1>2, <1>3, <1>4, <1>5, <1>6, <1>7, <1>8 DEF DispatchNext

(* Whatever the addresses and the hash: the table with its probing, its growth and its
   replacements, calloc failing or not, is a dictionary.
   (psp_register, psp_register_label, psp_lookup, grow) *)
THEOREM DispatchImplementsDictionary == DispatchSpec => TableIsDictionary
BY InitDict, NextDict, DispatchInvariant, PTL DEF DispatchSpec, TableIsDictionary, Dict!DictSpec

-----------------------------------------------------------------------------
(* The firmware-call registry. *)
EntryRow == [nid : Nid, fn : Handler, calls : Nat]
MissingRow == [nid : Nid, calls : Nat]

OneRowEach(s) == \A i, j \in DOMAIN s : s[i].nid = s[j].nid => i = j

(* The calls that the row of a NID counts, if it has one. *)
CallsIn(s, n) == IF At(s, n) = {} THEN 0 ELSE s[Min(At(s, n))].calls

(* Every call of n is counted in a row, unless the rows for missing NIDs have run out. *)
Accounted(n) == \/ made[n] = CallsIn(entry, n) + CallsIn(unimpl, n)
                \/ /\ Len(unimpl) = UnimplDistinct /\ At(unimpl, n) = {}
                   /\ CallsIn(entry, n) <= made[n]

HleInv == /\ entry \in Seq(EntryRow) /\ OneRowEach(entry)
          /\ unimpl \in Seq(MissingRow) /\ OneRowEach(unimpl) /\ Len(unimpl) <= UnimplDistinct
          /\ made \in [Nid -> Nat]
          /\ \A n \in Nid : Accounted(n)

LEMMA RowFound ==
    ASSUME NEW s, OneRowEach(s), DOMAIN s = 1..Len(s), Len(s) \in Nat, NEW n, At(s, n) # {}
    PROVE  /\ Min(At(s, n)) \in DOMAIN s /\ s[Min(At(s, n))].nid = n
           /\ At(s, n) = {Min(At(s, n))}
<1>1. At(s, n) \in SUBSET Nat /\ \A i : i \in At(s, n) <=> i \in DOMAIN s /\ s[i].nid = n
  BY DEF At
<1>2. Min(At(s, n)) \in At(s, n)
  BY <1>1, MinIsLeast
<1> QED
  BY <1>1, <1>2 DEF OneRowEach

LEMMA RowIs ==
    ASSUME NEW s, OneRowEach(s), DOMAIN s = 1..Len(s), Len(s) \in Nat, NEW i \in DOMAIN s
    PROVE  At(s, s[i].nid) = {i} /\ CallsIn(s, s[i].nid) = s[i].calls
<1>1. At(s, s[i].nid) = {i}
  BY DEF At, OneRowEach
<1>2. Min(At(s, s[i].nid)) = i
  BY <1>1, RowFound
<1> QED
  BY <1>1, <1>2 DEF CallsIn

LEMMA SameRows ==
    ASSUME NEW s, NEW u, DOMAIN u = DOMAIN s, \A i \in DOMAIN s : u[i].nid = s[i].nid
    PROVE  \A m : At(u, m) = At(s, m)
BY DEF At

LEMMA CallsTyped ==
    ASSUME NEW s, NEW R, s \in Seq(R), \A r \in R : r.calls \in Nat, OneRowEach(s), NEW n
    PROVE  CallsIn(s, n) \in Nat
<1>1. DOMAIN s = 1..Len(s) /\ Len(s) \in Nat /\ \A i \in DOMAIN s : s[i] \in R
  BY LenProperties, ElementOfSeq
<1>2. CASE At(s, n) = {}
  BY <1>2 DEF CallsIn
<1>3. CASE At(s, n) # {}
  BY <1>1, <1>3, RowFound DEF CallsIn
<1> QED
  BY <1>2, <1>3

(* One more call in the row of n. *)
Bumped(u, s, p) == /\ DOMAIN u = DOMAIN s /\ \A i \in DOMAIN s : u[i].nid = s[i].nid
                   /\ u[p].calls = s[p].calls + 1
                   /\ \A i \in DOMAIN s : i # p => u[i] = s[i]

LEMMA RowBumped ==
    ASSUME NEW s, DOMAIN s = 1..Len(s), Len(s) \in Nat, OneRowEach(s), NEW n, At(s, n) # {},
           NEW u, Bumped(u, s, Min(At(s, n)))
    PROVE  /\ OneRowEach(u) /\ \A m : At(u, m) = At(s, m)
           /\ CallsIn(u, n) = CallsIn(s, n) + 1
           /\ \A m : m # n => CallsIn(u, m) = CallsIn(s, m)
<1> USE DEF Bumped
<1>1. \A m : At(u, m) = At(s, m)
  BY SameRows
<1>2. OneRowEach(u)
  BY DEF OneRowEach
<1>3. CallsIn(u, n) = CallsIn(s, n) + 1
  BY <1>1 DEF CallsIn
<1>4. ASSUME NEW m, m # n PROVE CallsIn(u, m) = CallsIn(s, m)
  <2>1. CASE At(s, m) = {}
    BY <1>1, <2>1 DEF CallsIn
  <2>2. CASE At(s, m) # {}
    <3>1. Min(At(s, m)) \in DOMAIN s /\ Min(At(s, m)) # Min(At(s, n))
      BY <1>4, <2>2, RowFound
    <3> QED
      BY <1>1, <2>2, <3>1 DEF CallsIn
  <2> QED
    BY <2>1, <2>2
<1> QED
  BY <1>1, <1>2, <1>3, <1>4

(* A new row, for a NID that has none. *)
LEMMA RowAdded ==
    ASSUME NEW R, NEW s \in Seq(R), OneRowEach(s), NEW r \in R, At(s, r.nid) = {}
    PROVE  LET u == Append(s, r)
           IN  /\ u \in Seq(R) /\ OneRowEach(u) /\ Len(u) = Len(s) + 1
               /\ CallsIn(u, r.nid) = r.calls
               /\ \A m : m # r.nid => CallsIn(u, m) = CallsIn(s, m)
<1> DEFINE z == Len(s)
           u == Append(s, r)
           n == r.nid
<1>1. /\ u \in Seq(R) /\ Len(u) = z + 1 /\ u[z + 1] = r /\ z \in Nat
      /\ DOMAIN s = 1..z /\ DOMAIN u = 1..z + 1 /\ \A i \in 1..z : u[i] = s[i]
  BY AppendProperties, LenProperties
<1> HIDE DEF z, u, n
<1>2. \A i \in 1..z : s[i].nid # n
  BY <1>1 DEF At, n
<1>3. OneRowEach(u)
  BY <1>1, <1>2 DEF OneRowEach, n
<1>4. z + 1 \in DOMAIN u /\ u[z + 1].nid = n /\ DOMAIN u = 1..Len(u) /\ Len(u) \in Nat
  BY <1>1 DEF n
<1>5. CallsIn(u, n) = r.calls
  <2>1. CallsIn(u, u[z + 1].nid) = u[z + 1].calls
    BY <1>3, <1>4, RowIs
  <2> QED
    BY <1>1, <1>4, <2>1
<1>6. ASSUME NEW m, m # n PROVE CallsIn(u, m) = CallsIn(s, m)
  <2>1. At(u, m) = At(s, m)
    BY <1>1, <1>6 DEF At, n
  <2>2. CASE At(s, m) = {}
    BY <2>1, <2>2 DEF CallsIn
  <2>3. CASE At(s, m) # {}
    <3>1. Min(At(s, m)) \in 1..z
      BY <1>1, <2>3, RowFound DEF z
    <3> QED
      BY <1>1, <2>1, <2>3, <3>1 DEF CallsIn
  <2> QED
    BY <2>1, <2>2, <2>3
<1> QED
  BY <1>1, <1>3, <1>5, <1>6 DEF z, u, n

LEMMA InitHleInv == HleInit => HleInv
<1> SUFFICES ASSUME HleInit PROVE HleInv
  OBVIOUS
<1>1. entry = << >> /\ unimpl = << >> /\ made = [n \in Nid |-> 0]
  BY DEF HleInit
<1>2. \A S : << >> \in Seq(S)
  BY EmptySeq
<1>3. \A n : At(<< >>, n) = {} /\ CallsIn(<< >>, n) = 0
  BY DEF At, CallsIn
<1>4. Len(<< >>) = 0 /\ UnimplDistinct \in Nat /\ OneRowEach(<< >>)
  BY HleAssumption DEF OneRowEach
<1>5. \A n \in Nid : Accounted(n)
  BY <1>1, <1>3 DEF Accounted
<1> QED
  BY <1>1, <1>2, <1>4, <1>5 DEF HleInv

(* What the rows and their types say together. *)
LEMMA HleFacts ==
    ASSUME HleInv
    PROVE  /\ DOMAIN entry = 1..Len(entry) /\ Len(entry) \in Nat
           /\ \A i \in DOMAIN entry : entry[i] \in EntryRow
           /\ DOMAIN unimpl = 1..Len(unimpl) /\ Len(unimpl) \in Nat
           /\ \A i \in DOMAIN unimpl : unimpl[i] \in MissingRow
           /\ \A n : CallsIn(entry, n) \in Nat /\ CallsIn(unimpl, n) \in Nat
           /\ OneRowEach(entry) /\ OneRowEach(unimpl)
<1>1. entry \in Seq(EntryRow) /\ unimpl \in Seq(MissingRow) /\ OneRowEach(entry) /\ OneRowEach(unimpl)
  BY DEF HleInv
<1>2. (\A r \in EntryRow : r.calls \in Nat) /\ (\A r \in MissingRow : r.calls \in Nat)
  BY DEF EntryRow, MissingRow
<1>3. \A n : CallsIn(entry, n) \in Nat /\ CallsIn(unimpl, n) \in Nat
  BY <1>1, <1>2, CallsTyped
<1> QED
  BY <1>1, <1>3, LenProperties, ElementOfSeq

LEMMA HleRegisterInv ==
    ASSUME HleInv, NEW n \in Nid, NEW f \in Handler, HleRegister(n, f)
    PROVE  HleInv'
<1>1. unimpl' = unimpl /\ made' = made
  BY DEF HleRegister
<1>2. ASSUME entry' \in Seq(EntryRow), OneRowEach(entry'),
             \A m \in Nid : CallsIn(entry', m) = CallsIn(entry, m)
      PROVE  HleInv'
  <2>1. \A m \in Nid : Accounted(m)'
    BY <1>1, <1>2 DEF HleInv, Accounted, CallsIn, At
  <2> QED
    BY <1>1, <1>2, <2>1 DEF HleInv
<1>3. CASE At(entry, n) # {}
  <2> DEFINE p == Min(At(entry, n))
             new == [entry[p] EXCEPT !.fn = f]
  <2>1. entry' = [entry EXCEPT ![p] = new]
    BY <1>3 DEF HleRegister
  <2>2. p \in DOMAIN entry /\ entry[p] \in EntryRow
    BY <1>3, HleFacts, RowFound
  <2>3. new \in EntryRow /\ new.nid = entry[p].nid /\ new.calls = entry[p].calls
    BY <2>2 DEF EntryRow
  <2> HIDE DEF p, new
  <2>4. entry' \in Seq(EntryRow) /\ DOMAIN entry' = DOMAIN entry
    BY <2>1, <2>2, <2>3, ExceptSeq DEF HleInv
  <2>5. \A i \in DOMAIN entry : entry'[i].nid = entry[i].nid /\ entry'[i].calls = entry[i].calls
    BY <2>1, <2>2, <2>3
  <2>6. \A m : At(entry', m) = At(entry, m)
    BY <2>4, <2>5, SameRows
  <2>7. OneRowEach(entry')
    BY <2>4, <2>5 DEF HleInv, OneRowEach
  <2>8. ASSUME NEW m PROVE CallsIn(entry', m) = CallsIn(entry, m)
    <3>1. At(entry, m) # {} => Min(At(entry, m)) \in DOMAIN entry
      BY HleFacts, RowFound
    <3> QED
      BY <2>5, <2>6, <3>1 DEF CallsIn
  <2> QED
    BY <1>2, <2>4, <2>7, <2>8
<1>4. CASE At(entry, n) = {} /\ entry' = entry
  BY <1>2, <1>4 DEF HleInv
<1>5. CASE At(entry, n) = {} /\ entry' = Append(entry, [nid |-> n, fn |-> f, calls |-> 0])
  <2> DEFINE r == [nid |-> n, fn |-> f, calls |-> 0]
  <2>1. r \in EntryRow /\ r.nid = n /\ r.calls = 0
    BY DEF EntryRow
  <2> HIDE DEF r
  <2>2. entry' = Append(entry, r)
    BY <1>5 DEF r
  <2>3. /\ entry' \in Seq(EntryRow) /\ OneRowEach(entry') /\ CallsIn(entry', n) = 0
        /\ \A m : m # n => CallsIn(entry', m) = CallsIn(entry, m)
    <3>1. entry \in Seq(EntryRow) /\ OneRowEach(entry) /\ At(entry, r.nid) = {}
      BY <1>5, <2>1 DEF HleInv
    <3> QED
      BY <2>1, <2>2, <3>1, RowAdded
  <2>4. CallsIn(entry, n) = 0
    BY <1>5 DEF CallsIn
  <2> QED
    BY <1>2, <2>3, <2>4
<1> QED
  BY <1>3, <1>4, <1>5 DEF HleRegister

LEMMA HleCallInv == ASSUME HleInv, NEW n \in Nid, NEW r0, HleCall(n, r0) PROVE HleInv'
<1> DEFINE p == Min(At(entry, n))
           new == [entry[p] EXCEPT !.calls = @ + 1]
<1>1. /\ At(entry, n) # {} /\ entry' = [entry EXCEPT ![p] = new]
      /\ made' = [made EXCEPT ![n] = @ + 1] /\ unimpl' = unimpl
  BY DEF HleCall
<1>2. p \in DOMAIN entry /\ entry[p] \in EntryRow
  BY <1>1, HleFacts, RowFound
<1>3. new \in EntryRow /\ new.nid = entry[p].nid /\ new.calls = entry[p].calls + 1
  BY <1>2 DEF EntryRow
<1> HIDE DEF new
<1>4. entry' \in Seq(EntryRow) /\ DOMAIN entry' = DOMAIN entry
  BY <1>1, <1>2, <1>3, ExceptSeq DEF HleInv
<1>5. /\ \A i \in DOMAIN entry : entry'[i].nid = entry[i].nid
      /\ entry'[p].calls = entry[p].calls + 1
      /\ \A i \in DOMAIN entry : i # p => entry'[i] = entry[i]
  BY <1>1, <1>2, <1>3
<1>6. /\ OneRowEach(entry') /\ CallsIn(entry', n) = CallsIn(entry, n) + 1
      /\ \A m : m # n => CallsIn(entry', m) = CallsIn(entry, m)
  <2>1. Bumped(entry', entry, p)
    BY <1>4, <1>5 DEF Bumped
  <2>2. DOMAIN entry = 1..Len(entry) /\ Len(entry) \in Nat /\ OneRowEach(entry) /\ At(entry, n) # {}
    BY <1>1, HleFacts
  <2> QED
    BY <2>1, <2>2, RowBumped
<1>7. made' \in [Nid -> Nat] /\ made'[n] = made[n] + 1 /\ \A m \in Nid : m # n => made'[m] = made[m]
  BY <1>1 DEF HleInv
<1>8. ASSUME NEW m \in Nid PROVE Accounted(m)'
  <2>1. Accounted(m) /\ made[m] \in Nat /\ CallsIn(entry, m) \in Nat /\ CallsIn(unimpl, m) \in Nat
    BY HleFacts DEF HleInv
  <2>2. /\ CallsIn(unimpl', m) = CallsIn(unimpl, m)
        /\ At(unimpl', m) = At(unimpl, m) /\ Len(unimpl') = Len(unimpl)
    BY <1>1
  <2>3. CASE m = n
    BY <1>6, <1>7, <2>1, <2>2, <2>3 DEF Accounted
  <2>4. CASE m # n
    BY <1>6, <1>7, <2>1, <2>2, <2>4 DEF Accounted
  <2> QED
    BY <2>3, <2>4
<1> QED
  BY <1>1, <1>4, <1>6, <1>7, <1>8 DEF HleInv

LEMMA HleCallMissingInv == ASSUME HleInv, NEW n \in Nid, HleCallMissing(n) PROVE HleInv'
<1>1. /\ unimpl' = CountUnimpl(n) /\ made' = [made EXCEPT ![n] = @ + 1] /\ entry' = entry
  BY DEF HleCallMissing
<1>2. made' \in [Nid -> Nat] /\ made'[n] = made[n] + 1 /\ \A m \in Nid : m # n => made'[m] = made[m]
  BY <1>1 DEF HleInv
<1>3. \A m \in Nid : /\ Accounted(m) /\ made[m] \in Nat /\ CallsIn(entry, m) \in Nat
                     /\ CallsIn(unimpl, m) \in Nat /\ CallsIn(entry', m) = CallsIn(entry, m)
  BY <1>1, HleFacts DEF HleInv
<1>4. CASE At(unimpl, n) # {}
  <2> DEFINE p == Min(At(unimpl, n))
             new == [unimpl[p] EXCEPT !.calls = @ + 1]
  <2>1. unimpl' = [unimpl EXCEPT ![p] = new]
    BY <1>1, <1>4 DEF CountUnimpl
  <2>2. p \in DOMAIN unimpl /\ unimpl[p] \in MissingRow
    BY <1>4, HleFacts, RowFound
  <2>3. new \in MissingRow /\ new.nid = unimpl[p].nid /\ new.calls = unimpl[p].calls + 1
    BY <2>2 DEF MissingRow
  <2> HIDE DEF new
  <2>4. unimpl' \in Seq(MissingRow) /\ DOMAIN unimpl' = DOMAIN unimpl /\ Len(unimpl') = Len(unimpl)
    BY <2>1, <2>2, <2>3, ExceptSeq DEF HleInv
  <2>5. /\ \A i \in DOMAIN unimpl : unimpl'[i].nid = unimpl[i].nid
        /\ unimpl'[p].calls = unimpl[p].calls + 1
        /\ \A i \in DOMAIN unimpl : i # p => unimpl'[i] = unimpl[i]
    BY <2>1, <2>2, <2>3
  <2>6. /\ OneRowEach(unimpl') /\ CallsIn(unimpl', n) = CallsIn(unimpl, n) + 1
        /\ \A m : At(unimpl', m) = At(unimpl, m)
        /\ \A m : m # n => CallsIn(unimpl', m) = CallsIn(unimpl, m)
    <3>1. Bumped(unimpl', unimpl, p)
      BY <2>4, <2>5 DEF Bumped
    <3>2. DOMAIN unimpl = 1..Len(unimpl) /\ Len(unimpl) \in Nat /\ OneRowEach(unimpl)
      BY HleFacts
    <3> QED
      BY <1>4, <3>1, <3>2, RowBumped
  <2>7. ASSUME NEW m \in Nid PROVE Accounted(m)'
    <3>1. CASE m = n
      BY <1>2, <1>3, <1>4, <2>4, <2>6, <3>1 DEF Accounted
    <3>2. CASE m # n
      BY <1>2, <1>3, <2>4, <2>6, <3>2 DEF Accounted
    <3> QED
      BY <3>1, <3>2
  <2> QED
    BY <1>1, <1>2, <2>4, <2>6, <2>7 DEF HleInv
<1>5. CASE At(unimpl, n) = {} /\ Len(unimpl) < UnimplDistinct
  <2> DEFINE r == [nid |-> n, calls |-> 1]
  <2>1. r \in MissingRow /\ r.nid = n /\ r.calls = 1
    BY DEF MissingRow
  <2> HIDE DEF r
  <2>2. unimpl' = Append(unimpl, r)
    BY <1>1, <1>5 DEF CountUnimpl, r
  <2>3. /\ unimpl' \in Seq(MissingRow) /\ OneRowEach(unimpl') /\ Len(unimpl') = Len(unimpl) + 1
        /\ CallsIn(unimpl', n) = 1
        /\ \A m : m # n => CallsIn(unimpl', m) = CallsIn(unimpl, m)
    <3>1. unimpl \in Seq(MissingRow) /\ OneRowEach(unimpl) /\ At(unimpl, r.nid) = {}
      BY <1>5, <2>1 DEF HleInv
    <3> QED
      BY <2>1, <2>2, <3>1, RowAdded
  <2>4. CallsIn(unimpl, n) = 0 /\ Len(unimpl) \in Nat /\ UnimplDistinct \in Nat
    BY <1>5, HleFacts, HleAssumption DEF CallsIn
  <2>5. \A m \in Nid : Accounted(m)'
    BY <1>2, <1>3, <1>5, <2>3, <2>4 DEF Accounted
  <2>6. Len(unimpl') <= UnimplDistinct
    BY <1>5, <2>3, <2>4
  <2> QED
    BY <1>1, <1>2, <2>3, <2>5, <2>6 DEF HleInv
<1>6. CASE At(unimpl, n) = {} /\ ~(Len(unimpl) < UnimplDistinct)
  <2>1. unimpl' = unimpl
    BY <1>1, <1>6 DEF CountUnimpl
  <2>2. Len(unimpl) = UnimplDistinct
    BY <1>6, HleFacts, HleAssumption DEF HleInv
  <2>3. CallsIn(unimpl, n) = 0
    BY <1>6 DEF CallsIn
  <2>4. ASSUME NEW m \in Nid PROVE Accounted(m)'
    <3>1. CallsIn(unimpl', m) = CallsIn(unimpl, m) /\ At(unimpl', m) = At(unimpl, m)
      BY <2>1
    <3>2. CASE m = n
      BY <1>2, <1>3, <1>6, <2>1, <2>2, <2>3, <3>1, <3>2 DEF Accounted
    <3>3. CASE m # n
      BY <1>2, <1>3, <2>1, <3>1, <3>3 DEF Accounted
    <3> QED
      BY <3>2, <3>3
  <2> QED
    BY <1>1, <1>2, <2>1, <2>4 DEF HleInv
<1> QED
  BY <1>4, <1>5, <1>6

LEMMA NextHleInv == HleInv /\ [HleNext]_hleVars => HleInv'
<1> SUFFICES ASSUME HleInv, [HleNext]_hleVars PROVE HleInv'
  OBVIOUS
<1>1. ASSUME UNCHANGED <<entry, unimpl, made>> PROVE HleInv'
  BY <1>1 DEF HleInv, Accounted, CallsIn, At, OneRowEach
<1>2. ASSUME NEW k \in Traps, Trapped(k) PROVE HleInv'
  BY <1>1, <1>2 DEF Trapped
<1>3. CASE UnimplementedReset
  BY <1>1, <1>3 DEF UnimplementedReset
<1>4. CASE TrapReset
  BY <1>1, <1>4 DEF TrapReset
<1>5. CASE UNCHANGED hleVars
  BY <1>1, <1>5 DEF hleVars
<1> QED
  BY <1>2, <1>3, <1>4, <1>5, HleRegisterInv, HleCallInv, HleCallMissingInv DEF HleNext

(* In a finite set ordered by the sets B[r] of what comes before r, the sizes of these are
   the positions, each taken once. *)
LEMMA Ranks ==
    ASSUME NEW C, IsFiniteSet(C), NEW B \in [C -> SUBSET C],
           \A r \in C : r \notin B[r],
           \A r, s \in C : r # s => r \in B[s] \/ s \in B[r],
           \A r, s \in C : s \in B[r] => B[s] \subseteq B[r]
    PROVE  /\ Cardinality(C) \in Nat
           /\ \A r \in C : Cardinality(B[r]) \in 0..Cardinality(C) - 1
           /\ \A r, s \in C : s \in B[r] => Cardinality(B[s]) < Cardinality(B[r])
           /\ \A r, s \in C : Cardinality(B[s]) = Cardinality(B[r]) => r = s
           /\ \A k \in 1..Cardinality(C) : \E r \in C : Cardinality(B[r]) = k - 1
<1> DEFINE n == Cardinality(C)
           f == [r \in C |-> Cardinality(B[r]) + 1]
<1>1. n \in Nat
  BY FS_CardinalityType
<1>2. \A r \in C : B[r] \subseteq C /\ IsFiniteSet(B[r]) /\ Cardinality(B[r]) \in Nat
  BY FS_Subset, FS_CardinalityType
<1>3. ASSUME NEW r \in C, NEW s \in C, s \in B[r] PROVE Cardinality(B[s]) < Cardinality(B[r])
  <2>1. IsFiniteSet(B[s] \cup {s}) /\ Cardinality(B[s] \cup {s}) = Cardinality(B[s]) + 1
    BY <1>2, FS_AddElement
  <2>2. B[s] \cup {s} \subseteq B[r]
    BY <1>3
  <2>3. Cardinality(B[s] \cup {s}) <= Cardinality(B[r])
    BY <1>2, <2>2, FS_Subset
  <2> QED
    BY <1>2, <2>1, <2>3
<1>4. ASSUME NEW r \in C PROVE Cardinality(B[r]) \in 0..n - 1
  <2>1. IsFiniteSet(B[r] \cup {r}) /\ Cardinality(B[r] \cup {r}) = Cardinality(B[r]) + 1
    BY <1>2, FS_AddElement
  <2>2. B[r] \cup {r} \subseteq C
    BY <1>2
  <2>3. Cardinality(B[r] \cup {r}) <= n
    BY <2>2, FS_Subset
  <2> QED
    BY <1>1, <1>2, <2>1, <2>3
<1>5. \A r, s \in C : Cardinality(B[s]) = Cardinality(B[r]) => r = s
  BY <1>2, <1>3
<1> HIDE DEF n
<1>6. f \in Injection(C, 1..n)
  <2>1. f \in [C -> 1..n]
    BY <1>1, <1>4
  <2>2. \A r, s \in C : f[r] = f[s] => r = s
    BY <1>2, <1>5
  <2> QED
    BY <2>1, <2>2 DEF Injection, IsInjective
<1>7. IsFiniteSet(1..n) /\ Cardinality(1..n) = n
  BY <1>1, FS_Interval
<1>8. f \in Surjection(C, 1..n)
  <2> HIDE DEF f
  <2> QED
    BY <1>6, <1>7, FS_Injection DEF n
<1>9. ASSUME NEW k \in 1..n PROVE \E r \in C : Cardinality(B[r]) = k - 1
  <2>1. PICK r \in C : f[r] = k
    BY <1>8 DEF Surjection
  <2> QED
    BY <1>2, <2>1
<1> QED
  BY <1>1, <1>3, <1>4, <1>5, <1>9 DEF n

Pick(k) == CHOOSE r \in DumpRows : Cardinality(RowsBefore(r)) = k - 1

(* The rows to sort. *)
LEMMA RowsCounted ==
    ASSUME HleInv
    PROVE  /\ IsFiniteSet(DumpRows)
           /\ \A r \in DumpRows : /\ r[1] \in Nat /\ r[2] \in Nat /\ r = <<r[1], r[2]>>
                                 /\ RowOf(r).calls \in Nat
<1>1. IsFiniteSet(DOMAIN entry) /\ IsFiniteSet(DOMAIN unimpl)
  BY HleFacts, FS_Interval
<1> DEFINE E == {i \in DOMAIN entry : entry[i].calls > 0}
           U == DOMAIN unimpl
<1>2. IsFiniteSet(E) /\ IsFiniteSet(U)
  BY <1>1, FS_Subset
<1>3. IsFiniteSet({1}) /\ IsFiniteSet({2})
  BY FS_Singleton
<1>4. DumpRows = ({1} \X E) \cup ({2} \X U)
  BY DEF DumpRows
<1>5. \A i \in E : i \in Nat /\ entry[i].calls \in Nat
  BY HleFacts DEF EntryRow
<1>6. \A i \in U : i \in Nat /\ unimpl[i].calls \in Nat
  BY HleFacts DEF MissingRow
<1> HIDE DEF E, U
<1>7. IsFiniteSet(DumpRows)
  BY <1>2, <1>3, <1>4, FS_Product, FS_Union
<1> QED
  BY <1>4, <1>5, <1>6, <1>7 DEF RowOf

(* The sort takes every row once, the busier first. *)
LEMMA Sorted ==
    ASSUME HleInv
    PROVE  /\ Cardinality(DumpRows) \in Nat
           /\ \A k \in 1..Cardinality(DumpRows) :
                 Pick(k) \in DumpRows /\ Cardinality(RowsBefore(Pick(k))) = k - 1
           /\ \A r \in DumpRows : \E k \in 1..Cardinality(DumpRows) : Pick(k) = r
           /\ \A j, k \in 1..Cardinality(DumpRows) : Pick(j) = Pick(k) => j = k
           /\ \A r, s \in DumpRows : s \in RowsBefore(r) =>
                                   Cardinality(RowsBefore(s)) < Cardinality(RowsBefore(r))
<1> DEFINE C == DumpRows
           B == [r \in DumpRows |-> RowsBefore(r)]
<1>1. /\ IsFiniteSet(DumpRows)
      /\ \A r \in DumpRows : /\ r[1] \in Nat /\ r[2] \in Nat /\ r = <<r[1], r[2]>>
                            /\ RowOf(r).calls \in Nat
  BY RowsCounted
<1>2. \A r, s : s \in RowsBefore(r) <=>
          /\ s \in DumpRows
          /\ \/ RowOf(s).calls > RowOf(r).calls
             \/ /\ RowOf(s).calls = RowOf(r).calls
                /\ s[1] < r[1] \/ (s[1] = r[1] /\ s[2] < r[2])
  BY DEF RowsBefore
<1> HIDE DEF RowOf
<1>3. \A r \in DumpRows : RowsBefore(r) \subseteq DumpRows /\ r \notin RowsBefore(r)
  BY <1>1, <1>2
<1>4. ASSUME NEW r \in DumpRows, NEW s \in DumpRows, r # s
      PROVE  r \in RowsBefore(s) \/ s \in RowsBefore(r)
  <2>1. r[1] # s[1] \/ r[2] # s[2]
    BY <1>1, <1>4
  <2> QED
    BY <1>1, <1>2, <2>1
<1>5. ASSUME NEW r \in DumpRows, NEW s \in DumpRows, s \in RowsBefore(r), NEW q \in RowsBefore(s)
      PROVE  q \in RowsBefore(r)
  <2>1. q \in DumpRows
    BY <1>2
  <2> QED
    BY <1>1, <1>2, <1>5, <2>1
<1>6. /\ B \in [C -> SUBSET C] /\ IsFiniteSet(C)
      /\ \A r \in C : r \notin B[r]
      /\ \A r, s \in C : r # s => r \in B[s] \/ s \in B[r]
      /\ \A r, s \in C : s \in B[r] => B[s] \subseteq B[r]
  BY <1>1, <1>3, <1>4, <1>5
<1>7. \A r \in DumpRows : B[r] = RowsBefore(r)
  OBVIOUS
<1> HIDE DEF B, C
<1>8. /\ Cardinality(C) \in Nat
      /\ \A r \in C : Cardinality(B[r]) \in 0..Cardinality(C) - 1
      /\ \A r, s \in C : s \in B[r] => Cardinality(B[s]) < Cardinality(B[r])
      /\ \A r, s \in C : Cardinality(B[s]) = Cardinality(B[r]) => r = s
      /\ \A k \in 1..Cardinality(C) : \E r \in C : Cardinality(B[r]) = k - 1
  BY <1>6, Ranks
<1> USE <1>7, <1>8 DEF C
<1>9. ASSUME NEW k \in 1..Cardinality(DumpRows)
      PROVE  Pick(k) \in DumpRows /\ Cardinality(RowsBefore(Pick(k))) = k - 1
  <2>1. \E r \in DumpRows : Cardinality(RowsBefore(r)) = k - 1
    OBVIOUS
  <2> QED
    BY <2>1, Zenon DEF Pick
<1>10. ASSUME NEW r \in DumpRows PROVE \E k \in 1..Cardinality(DumpRows) : Pick(k) = r
  <2> DEFINE k == Cardinality(RowsBefore(r)) + 1
  <2>1. k \in 1..Cardinality(DumpRows) /\ k - 1 = Cardinality(RowsBefore(r))
    OBVIOUS
  <2> HIDE DEF k
  <2>2. Pick(k) \in DumpRows /\ Cardinality(RowsBefore(Pick(k))) = Cardinality(RowsBefore(r))
    BY <1>9, <2>1
  <2> QED
    BY <2>1, <2>2
<1>11. \A j, k \in 1..Cardinality(DumpRows) : Pick(j) = Pick(k) => j = k
  BY <1>9
<1> QED
  BY <1>9, <1>10, <1>11

(* The calls that a table's row of n counts, one by one. *)
Units(t, s, n) == UNION {{<<t, i>>} \X (1..s[i].calls) : i \in At(s, n)}

LEMMA UnitCount ==
    ASSUME NEW t, NEW s, OneRowEach(s), DOMAIN s = 1..Len(s), Len(s) \in Nat, NEW n,
           \A i \in DOMAIN s : s[i].calls \in Nat
    PROVE  IsFiniteSet(Units(t, s, n)) /\ Cardinality(Units(t, s, n)) = CallsIn(s, n)
<1>1. CASE At(s, n) = {}
  BY <1>1, FS_EmptySet DEF Units, CallsIn
<1>2. CASE At(s, n) # {}
  <2> DEFINE i == Min(At(s, n))
             x == <<t, i>>
             c == s[i].calls
  <2>1. i \in DOMAIN s /\ At(s, n) = {i} /\ c \in Nat
    BY <1>2, RowFound
  <2>2. CallsIn(s, n) = c
    BY <1>2 DEF CallsIn
  <2> HIDE DEF i
  <2>3. Units(t, s, n) = {x} \X (1..c)
    BY <2>1 DEF Units
  <2>4. c \in Nat
    BY <2>1
  <2> HIDE DEF x, c
  <2>5. IsFiniteSet({x} \X (1..c)) /\ Cardinality({x} \X (1..c)) = c
    BY <2>4, Parts
  <2> QED
    BY <2>2, <2>3, <2>5
<1> QED
  BY <1>1, <1>2

LEMMA ShownCount ==
    ASSUME HleInv, NEW n
    PROVE  Cardinality(CallsShown(n)) = CallsIn(entry, n) + CallsIn(unimpl, n)
<1> DEFINE P == Units(1, entry, n)
           Q == Units(2, unimpl, n)
           N == Cardinality(DumpRows)
           D == CallsShown(n)
           f == [u \in D |-> <<Pick(u[1]), u[2]>>]
<1>1. /\ \A i \in DOMAIN entry : entry[i].calls \in Nat
      /\ \A i \in DOMAIN unimpl : unimpl[i].calls \in Nat
  BY HleFacts DEF EntryRow, MissingRow
<1>2. /\ IsFiniteSet(P) /\ Cardinality(P) = CallsIn(entry, n)
      /\ IsFiniteSet(Q) /\ Cardinality(Q) = CallsIn(unimpl, n)
  BY <1>1, HleFacts, UnitCount
<1>3. P \cap Q = {}
  BY DEF Units
<1>4. IsFiniteSet(P \cup Q) /\ Cardinality(P \cup Q) = CallsIn(entry, n) + CallsIn(unimpl, n)
  <2> HIDE DEF P, Q
  <2> QED
    BY <1>2, <1>3, DisjointSum
<1>5. N \in Nat /\ DOMAIN DumpCounts = 1..N /\ \A k \in 1..N : DumpCounts[k] = RowOf(Pick(k))
  BY Sorted DEF DumpCounts, Pick
<1>6. \A u : u \in D <=> \E k \in 1..N : \E c \in 1..RowOf(Pick(k)).calls :
                             RowOf(Pick(k)).nid = n /\ u = <<k, c>>
  BY <1>5 DEF CallsShown, At
<1>7. \A v : v \in P \cup Q <=> \E r \in DumpRows : \E c \in 1..RowOf(r).calls :
                                   RowOf(r).nid = n /\ v = <<r, c>>
  <2>1. ASSUME NEW v \in P
        PROVE  \E r \in DumpRows : \E c \in 1..RowOf(r).calls : RowOf(r).nid = n /\ v = <<r, c>>
    <3>a. PICK i \in At(entry, n) : v \in {<<1, i>>} \X (1..entry[i].calls)
      BY DEF Units
    <3>1. PICK c \in 1..entry[i].calls : v = <<<<1, i>>, c>>
      BY <3>a
    <3>2. i \in DOMAIN entry /\ entry[i].nid = n /\ entry[i].calls > 0
      BY <1>1 DEF At
    <3>3. <<1, i>> \in DumpRows /\ RowOf(<<1, i>>) = entry[i]
      BY <3>2 DEF DumpRows, RowOf
    <3> QED
      BY <3>1, <3>2, <3>3
  <2>2. ASSUME NEW v \in Q
        PROVE  \E r \in DumpRows : \E c \in 1..RowOf(r).calls : RowOf(r).nid = n /\ v = <<r, c>>
    <3>a. PICK i \in At(unimpl, n) : v \in {<<2, i>>} \X (1..unimpl[i].calls)
      BY DEF Units
    <3>1. PICK c \in 1..unimpl[i].calls : v = <<<<2, i>>, c>>
      BY <3>a
    <3>2. i \in DOMAIN unimpl /\ unimpl[i].nid = n
      BY DEF At
    <3>3. <<2, i>> \in DumpRows /\ RowOf(<<2, i>>) = unimpl[i]
      BY <3>2 DEF DumpRows, RowOf
    <3> QED
      BY <3>1, <3>2, <3>3
  <2>3. ASSUME NEW r \in DumpRows, NEW c \in 1..RowOf(r).calls, RowOf(r).nid = n
        PROVE  <<r, c>> \in P \cup Q
    <3>1. CASE r[1] = 1 /\ r[2] \in DOMAIN entry /\ r = <<1, r[2]>>
      BY <2>3, <3>1 DEF Units, RowOf, At
    <3>2. CASE r[1] = 2 /\ r[2] \in DOMAIN unimpl /\ r = <<2, r[2]>>
      BY <2>3, <3>2 DEF Units, RowOf, At
    <3> QED
      BY <3>1, <3>2 DEF DumpRows
  <2> QED
    BY <2>1, <2>2, <2>3
<1>8. f \in Bijection(D, P \cup Q)
  <2> HIDE DEF P, Q, D, N
  <2>1. f \in [D -> P \cup Q]
    BY <1>6, <1>7, Sorted DEF N
  <2>2. ASSUME NEW u \in D, NEW v \in D, f[u] = f[v] PROVE u = v
    <3>1. PICK j \in 1..N : \E b : u = <<j, b>>
      BY <1>6
    <3>2. PICK k \in 1..N : \E c : v = <<k, c>>
      BY <1>6
    <3>3. Pick(j) = Pick(k) /\ u[2] = v[2]
      BY <2>2, <3>1, <3>2
    <3> QED
      BY <3>1, <3>2, <3>3, Sorted DEF N
  <2>3. ASSUME NEW v \in P \cup Q PROVE \E u \in D : f[u] = v
    <3>1. PICK r \in DumpRows : \E c \in 1..RowOf(r).calls : RowOf(r).nid = n /\ v = <<r, c>>
      BY <1>7
    <3>2. PICK c \in 1..RowOf(r).calls : RowOf(r).nid = n /\ v = <<r, c>>
      BY <3>1
    <3>3. PICK k \in 1..N : Pick(k) = r
      BY Sorted DEF N
    <3>4. <<k, c>> \in D
      BY <1>6, <3>2, <3>3
    <3>5. f[<<k, c>>] = v
      BY <3>2, <3>3, <3>4
    <3> QED
      BY <3>4, <3>5
  <2> QED
    BY <2>1, <2>2, <2>3 DEF Bijection, Injection, Surjection, IsInjective
<1> QED
  <2> HIDE DEF f, D, P, Q
  <2>1. f \in Injection(D, P \cup Q) /\ f \in Surjection(D, P \cup Q)
    BY <1>8 DEF Bijection
  <2>2. Cardinality(D) = Cardinality(P \cup Q)
    BY <1>4, <2>1, FS_Injection
  <2> QED
    BY <1>4, <2>2 DEF D

LEMMA HleInvariant == HleSpec => []HleInv
BY InitHleInv, NextHleInv, PTL DEF HleSpec

(* Whatever the NIDs, the sizes of the tables and the order of registrations and calls:
   the dump shows every call made, busiest rows first, unless the rows for missing NIDs
   have run out; then it shows no call that was not made.  (psp_hle_call,
   psp_hle_dump_counts) *)
THEOREM DumpShowsEveryCall == HleSpec => []CountsAddUp
<1>1. HleInv => CountsAddUp
  <2> SUFFICES ASSUME HleInv PROVE CountsAddUp
    OBVIOUS
  <2>1. ASSUME NEW n \in Nid
        PROVE  \/ Cardinality(CallsShown(n)) = made[n]
               \/ /\ Len(unimpl) = UnimplDistinct /\ At(unimpl, n) = {}
                  /\ Cardinality(CallsShown(n)) <= made[n]
    <3>1. Accounted(n) /\ Cardinality(CallsShown(n)) = CallsIn(entry, n) + CallsIn(unimpl, n)
      BY ShownCount DEF HleInv
    <3>2. CallsIn(entry, n) \in Nat /\ (At(unimpl, n) = {} => CallsIn(unimpl, n) = 0)
      BY HleFacts DEF CallsIn
    <3> QED
      BY <3>1, <3>2 DEF Accounted
  <2>2. ASSUME NEW k \in 1..Len(DumpCounts) - 1
        PROVE  DumpCounts[k].calls >= DumpCounts[k + 1].calls
    <3> DEFINE N == Cardinality(DumpRows)
               r == Pick(k)
               s == Pick(k + 1)
    <3>1. N \in Nat /\ Len(DumpCounts) = N
      BY Sorted DEF DumpCounts
    <3>2. k \in 1..N /\ k + 1 \in 1..N /\ k \in Nat
      BY <3>1
    <3>3. /\ r \in DumpRows /\ Cardinality(RowsBefore(r)) = k - 1
          /\ s \in DumpRows /\ Cardinality(RowsBefore(s)) = k
      BY <3>2, Sorted
    <3>4. s \notin RowsBefore(r)
      BY <3>2, <3>3, Sorted
    <3>5. ~(RowOf(s).calls > RowOf(r).calls)
      BY <3>3, <3>4 DEF RowsBefore
    <3>6. RowOf(r).calls \in Nat /\ RowOf(s).calls \in Nat
      BY <3>3, RowsCounted
    <3>7. DumpCounts[k] = RowOf(r) /\ DumpCounts[k + 1] = RowOf(s)
      BY <3>2 DEF DumpCounts, Pick
    <3> QED
      BY <3>5, <3>6, <3>7
  <2> QED
    BY <2>1, <2>2 DEF CountsAddUp
<1> QED
  BY <1>1, HleInvariant, PTL

-----------------------------------------------------------------------------
(* The voices of the mixer. *)
(* What a voice's place in its sample is made of. *)
Placed(w) == /\ {"vag", "loop", "pos", "loopPos", "endPending"} \subseteq DOMAIN w
             /\ w.vag \in Seq(0..255) /\ w.loop \in BOOLEAN /\ w.endPending \in BOOLEAN
             /\ w.pos \in Nat \ {0} /\ w.loopPos \in Nat \ {0}

(* The loop start of a voice is the last one heard of its sample, or the first block. *)
LoopHeard(w, h) ==
    IF Starts(w.vag, h, Len(h)) = {} THEN w.loopPos = 1
    ELSE \E j \in Starts(w.vag, h, Len(h)) : /\ \A i \in Starts(w.vag, h, Len(h)) : i <= j
                                             /\ w.loopPos = h[j]

(* Voice w has heard h, and stands where the last block of it sends it. *)
FlagsFollowed(w, h) ==
    /\ h \in Seq(1..Len(w.vag))
    /\ h = << >> => w.pos = 1
    /\ h # << >> => h[1] = 1 /\ (w.endPending \/ Follows(w.vag, w.loop, h, Len(h), w.pos))
    /\ \A k \in DOMAIN h : w.vag[h[k]] # 7
    /\ \A k \in 1..Len(h) - 1 : Follows(w.vag, w.loop, h, k, h[k + 1])
    /\ LoopHeard(w, h)

SasTypes == /\ DOMAIN voice = Voice /\ \A v \in Voice : Placed(voice[v])
            /\ heard \in [Voice -> Seq(Nat)]

SasInv == SasTypes /\ \A v \in Voice : FlagsFollowed(voice[v], heard[v])

(* Two states of a voice at the same place of the same sample. *)
SamePlace(w, u) == /\ DOMAIN u = DOMAIN w
                   /\ u.vag = w.vag /\ u.loop = w.loop /\ u.pos = w.pos
                   /\ u.loopPos = w.loopPos /\ u.endPending = w.endPending

LEMMA SameFollowed ==
  ASSUME NEW w, NEW u, NEW h, Placed(w), SamePlace(w, u), FlagsFollowed(w, h)
  PROVE  Placed(u) /\ FlagsFollowed(u, h)
BY Zenon DEF SamePlace, Placed, FlagsFollowed, LoopHeard

LEMMA EnvelopeStays ==
  ASSUME NEW w, Placed(w)
  PROVE  SamePlace(w, StepEnvelope(w))
BY DEF StepEnvelope, Placed, SamePlace

(* What was heard of a sample is followed as before when one more block is heard. *)
LEMMA FollowsAppend ==
  ASSUME NEW s, NEW loop, NEW h \in Seq(Nat), NEW b \in Nat, NEW k \in 1..Len(h), NEW c
  PROVE  /\ Starts(s, Append(h, b), k) = Starts(s, h, k)
         /\ Follows(s, loop, Append(h, b), k, c) <=> Follows(s, loop, h, k, c)
<1>1. \A j \in 1..k : Append(h, b)[j] = h[j]
  BY AppendProperties
<1>2. Starts(s, Append(h, b), k) = Starts(s, h, k)
  BY <1>1 DEF Starts
<1>3. Starts(s, h, k) \subseteq 1..k
  BY DEF Starts
<1>4. Append(h, b)[k] = h[k]
  BY <1>1
<1> QED
  BY <1>1, <1>2, <1>3, <1>4 DEF Follows

(* Hearing a loop start, or a block that is none. *)
LEMMA StartsAppend ==
  ASSUME NEW s, NEW h \in Seq(Nat), NEW b \in Nat
  PROVE  Starts(s, Append(h, b), Len(h) + 1) =
             Starts(s, h, Len(h)) \cup (IF Bit(s[b], 4) THEN {Len(h) + 1} ELSE {})
<1>1. Append(h, b)[Len(h) + 1] = b /\ \A j \in 1..Len(h) : Append(h, b)[j] = h[j]
  BY AppendProperties
<1>2. Len(h) \in Nat
  BY LenProperties
<1>3. 1..Len(h) + 1 = (1..Len(h)) \cup {Len(h) + 1}
  BY <1>2
<1> QED
  BY <1>1, <1>2, <1>3 DEF Starts

LEMMA DecodeFollows ==
  ASSUME NEW w, Placed(w), NEW h \in Seq(Nat), FlagsFollowed(w, h),
         NEW d, d = DecodeBlock(w, h)
  PROVE  Placed(d.v) /\ d.heard \in Seq(Nat) /\ FlagsFollowed(d.v, d.heard)
<1> DEFINE flags == w.vag[w.pos]
           mark == IF Bit(flags, 4) THEN [w EXCEPT !.loopPos = w.pos] ELSE w
           u == [AfterBlock(mark, flags) EXCEPT !.valid = TRUE]
           g == Append(h, w.pos)
           n == Len(h) + 1
<1>t. /\ w.vag \in Seq(0..255) /\ w.loop \in BOOLEAN /\ w.pos \in Nat \ {0}
      /\ w.loopPos \in Nat \ {0} /\ w.endPending \in BOOLEAN /\ Len(h) \in Nat /\ Len(w.vag) \in Nat
  BY LenProperties DEF Placed
<1>1. CASE w.endPending \/ w.pos > Len(w.vag) \/ flags = 7
  <2>1. d = Ended(w, h)
    BY <1>1 DEF DecodeBlock
  <2>2. /\ d.v = [w EXCEPT !.playing = FALSE] /\ d.heard = h
    BY <2>1 DEF Ended
  <2>3. SamePlace(w, d.v)
    BY <2>2 DEF Placed, SamePlace
  <2> QED
    BY <2>2, <2>3, SameFollowed
<1>2. CASE ~w.endPending /\ w.pos <= Len(w.vag) /\ flags # 7
  <2>1. d.v = u /\ d.heard = g
    BY <1>2, <1>t DEF DecodeBlock, Goes
  <2>2. /\ Placed(u) /\ u.vag = w.vag /\ u.loop = w.loop
        /\ u.loopPos = IF Bit(flags, 4) THEN w.pos ELSE w.loopPos
        /\ ~Bit(flags, 1) => u.pos = w.pos + 1
        /\ Bit(flags, 1) /\ Bit(flags, 2) /\ w.loop => u.pos = u.loopPos
        /\ Bit(flags, 1) /\ ~(Bit(flags, 2) /\ w.loop) => u.endPending
    <3> DEFINE p == IF Bit(flags, 4) THEN w.pos ELSE w.loopPos
               a == AfterBlock(mark, flags)
    <3>1. /\ DOMAIN mark = DOMAIN w /\ mark.vag = w.vag /\ mark.loop = w.loop
          /\ mark.pos = w.pos /\ mark.endPending = w.endPending /\ mark.loopPos = p
      BY <1>t DEF Placed
    <3>2. p \in Nat \ {0}
      BY <1>t
    <3> HIDE DEF mark, p, flags
    <3>3. /\ DOMAIN a = DOMAIN w /\ a.vag = w.vag /\ a.loop = w.loop /\ a.loopPos = p
          /\ ~Bit(flags, 1) => a.pos = w.pos + 1 /\ a.endPending = w.endPending
          /\ Bit(flags, 1) /\ Bit(flags, 2) /\ w.loop => a.pos = p /\ a.endPending = w.endPending
          /\ Bit(flags, 1) /\ ~(Bit(flags, 2) /\ w.loop) => a.pos = w.pos + 1 /\ a.endPending
      BY <3>1 DEF AfterBlock, Placed
    <3>4. a.pos \in Nat \ {0} /\ a.endPending \in BOOLEAN
      <4>1. w.pos + 1 \in Nat \ {0}
        BY <1>t
      <4>2. a.endPending = w.endPending \/ a.endPending = TRUE
        BY <3>1 DEF AfterBlock, Placed
      <4> QED
        BY <3>2, <3>3, <4>1, <4>2, <1>t
    <3> HIDE DEF a
    <3>5. /\ DOMAIN u = DOMAIN a /\ u.vag = a.vag /\ u.loop = a.loop /\ u.loopPos = a.loopPos
          /\ u.pos = a.pos /\ u.endPending = a.endPending
      BY <3>3 DEF Placed, a
    <3> HIDE DEF u
    <3> QED
      BY <3>2, <3>3, <3>4, <3>5, <1>t DEF Placed, p
  <2>3. /\ g \in Seq(Nat) /\ g \in Seq(1..Len(w.vag)) /\ Len(g) = n /\ g[n] = w.pos
        /\ \A j \in 1..Len(h) : g[j] = h[j]
        /\ DOMAIN g = 1..n /\ DOMAIN h = 1..Len(h) /\ g # << >>
    <3>1. h \in Seq(1..Len(w.vag)) /\ w.pos \in 1..Len(w.vag) /\ w.pos \in Nat
      BY <1>2, <1>t DEF FlagsFollowed
    <3>2. g \in Seq(Nat) /\ g \in Seq(1..Len(w.vag))
      BY <3>1, AppendProperties
    <3>3. Len(g) = n /\ g[n] = w.pos /\ \A j \in 1..Len(h) : g[j] = h[j]
      BY <3>1, AppendProperties
    <3>4. g # << >>
      BY <3>3, <1>t, EmptySeq
    <3> HIDE DEF g
    <3> QED
      BY <3>2, <3>3, <3>4, LenProperties
  <2> HIDE DEF u, g
  <2>4. g[1] = 1
    <3>1. CASE h = << >>
      BY <3>1, <2>3 DEF FlagsFollowed
    <3>2. CASE h # << >>
      <4>1. 1 \in 1..Len(h)
        BY <3>2, <1>t, EmptySeq
      <4> QED
        BY <3>2, <4>1, <2>3 DEF FlagsFollowed
    <3> QED
      BY <3>1, <3>2
  <2>5. \A k \in DOMAIN g : w.vag[g[k]] # 7
    <3>1. \A k \in 1..Len(h) : w.vag[h[k]] # 7
      BY <2>3 DEF FlagsFollowed
    <3>2. \A k \in 1..n : k = n \/ k \in 1..Len(h)
      BY <1>t
    <3>3. w.vag[g[n]] # 7 /\ \A k \in 1..Len(h) : w.vag[g[k]] # 7
      BY <3>1, <2>3, <1>2
    <3> QED
      BY <3>2, <3>3, <2>3
  <2>6. ASSUME NEW k \in 1..Len(g) - 1
        PROVE  Follows(w.vag, w.loop, g, k, g[k + 1])
    <3>1. k \in 1..Len(h) /\ w.pos \in Nat
      BY <2>3, <1>t
    <3>2. Follows(w.vag, w.loop, h, k, g[k + 1])
      <4>1. CASE k = Len(h)
        <5>1. h # << >> /\ g[k + 1] = w.pos
          BY <4>1, <3>1, <2>3
        <5> QED
          BY <5>1, <4>1, <1>2 DEF FlagsFollowed
      <4>2. CASE k # Len(h)
        <5>1. k \in 1..Len(h) - 1 /\ g[k + 1] = h[k + 1]
          <6>1. k \in 1..Len(h) - 1 /\ k + 1 \in 1..Len(h)
            BY <4>2, <3>1, <1>t
          <6> QED
            BY <6>1, <2>3
        <5> QED
          BY <5>1 DEF FlagsFollowed
      <4> QED
        BY <4>1, <4>2
    <3> QED
      BY <3>1, <3>2, FollowsAppend DEF g
  <2>7. Starts(w.vag, g, n) = Starts(w.vag, h, Len(h)) \cup (IF Bit(flags, 4) THEN {n} ELSE {})
    BY StartsAppend, <1>t DEF g
  <2>8. \A j \in Starts(w.vag, h, Len(h)) : j \in 1..Len(h)
    BY DEF Starts
  <2>9. LoopHeard(u, g)
    <3>1. CASE Bit(flags, 4)
      <4>1. n \in Starts(w.vag, g, n) /\ \A j \in Starts(w.vag, g, n) : j <= n
        BY <3>1, <2>7, <2>8, <1>t
      <4>2. u.loopPos = g[n]
        BY <3>1, <2>2, <2>3
      <4> QED
        BY <4>1, <4>2, <2>2, <2>3 DEF LoopHeard
    <3>2. CASE ~Bit(flags, 4)
      <4>1. Starts(w.vag, g, n) = Starts(w.vag, h, Len(h)) /\ u.loopPos = w.loopPos
        BY <3>2, <2>7, <2>2
      <4>2. LoopHeard(w, h)
        BY DEF FlagsFollowed
      <4> HIDE DEF n
      <4> QED
        BY <4>1, <4>2, <2>8, <2>2, <2>3 DEF LoopHeard
    <3> QED
      BY <3>1, <3>2
  <2>10. u.endPending \/ Follows(u.vag, u.loop, g, n, u.pos)
    <3>1. CASE ~Bit(flags, 1)
      BY <3>1, <2>2, <2>3 DEF Follows
    <3>2. CASE Bit(flags, 1) /\ ~(Bit(flags, 2) /\ w.loop)
      BY <3>2, <2>2
    <3>3. CASE Bit(flags, 1) /\ Bit(flags, 2) /\ w.loop
      <4>1. u.pos = u.loopPos /\ g[n] = w.pos
        BY <3>3, <2>2, <2>3
      <4> HIDE DEF n
      <4> QED
        BY <3>3, <4>1, <2>2, <2>3, <2>9 DEF Follows, LoopHeard
    <3> QED
      BY <3>1, <3>2, <3>3
  <2> HIDE DEF n
  <2>11. FlagsFollowed(u, g)
    BY <2>2, <2>3, <2>4, <2>5, <2>6, <2>9, <2>10 DEF FlagsFollowed
  <2> QED
    BY <2>1, <2>2, <2>3, <2>11
<1> QED
  BY <1>1, <1>2, <1>t

(* A voice that starts anew has heard nothing. *)
LEMMA AnewFollowed ==
  ASSUME NEW w, w.pos = 1, w.loopPos = 1
  PROVE  FlagsFollowed(w, << >>)
<1>1. << >> \in Seq(1..Len(w.vag)) /\ Len(<< >>) = 0 /\ DOMAIN << >> = {}
  BY EmptySeq
<1>2. Starts(w.vag, << >>, 0) = {} /\ 1..0 - 1 = {} /\ 1..0 = {}
  BY DEF Starts
<1> QED
  BY <1>1, <1>2 DEF FlagsFollowed, LoopHeard

LEMMA RewoundFollowed ==
  ASSUME NEW w, Placed(w)
  PROVE  Placed(Rewound(w)) /\ FlagsFollowed(Rewound(w), << >>) /\ DOMAIN Rewound(w) = DOMAIN w
<1>1. Placed(Rewound(w)) /\ Rewound(w).pos = 1 /\ Rewound(w).loopPos = 1 /\ DOMAIN Rewound(w) = DOMAIN w
  BY DEF Placed, Rewound
<1> QED
  BY <1>1, AnewFollowed

LEMMA SilentFollowed == Placed(Silent) /\ FlagsFollowed(Silent, << >>)
<1>1. Placed(Silent) /\ Silent.pos = 1 /\ Silent.loopPos = 1
  BY EmptySeq DEF Placed, Silent
<1> QED
  BY <1>1, AnewFollowed

(* A step that moves no voice except to a place that follows what it has heard. *)
VoiceKept(v) == \/ SamePlace(voice[v], voice'[v]) /\ heard'[v] = heard[v]
                \/ /\ Placed(voice'[v]) /\ heard'[v] \in Seq(Nat)
                   /\ FlagsFollowed(voice'[v], heard'[v])

LEMMA KeptInv ==
  ASSUME SasInv, DOMAIN voice' = Voice, DOMAIN heard' = Voice,
         heard' = [v \in Voice |-> heard'[v]], \A v \in Voice : VoiceKept(v)
  PROVE  SasInv'
<1>1. ASSUME NEW v \in Voice
      PROVE  Placed(voice'[v]) /\ heard'[v] \in Seq(Nat) /\ FlagsFollowed(voice'[v], heard'[v])
  <2>1. Placed(voice[v]) /\ heard[v] \in Seq(Nat) /\ FlagsFollowed(voice[v], heard[v])
    BY DEF SasInv, SasTypes
  <2> QED
    BY <2>1, SameFollowed DEF VoiceKept
<1> QED
  BY <1>1 DEF SasInv, SasTypes

(* A step that changes one voice. *)
LEMMA OneKept ==
  ASSUME SasInv, NEW v \in Voice, NEW w, NEW h,
         voice' = [voice EXCEPT ![v] = w], heard' = [heard EXCEPT ![v] = h],
         \/ SamePlace(voice[v], w) /\ h = heard[v]
         \/ Placed(w) /\ h \in Seq(Nat) /\ FlagsFollowed(w, h)
  PROVE  SasInv'
<1>1. DOMAIN voice = Voice /\ heard = [u \in Voice |-> heard[u]]
  BY DEF SasInv, SasTypes
<1>2. \A u \in Voice : VoiceKept(u)
  BY <1>1 DEF VoiceKept, SamePlace
<1> QED
  BY <1>1, <1>2, KeptInv

LEMMA InitSasInv == SasInit => SasInv
<1> SUFFICES ASSUME SasInit PROVE SasInv
  OBVIOUS
<1>1. << >> \in Seq(Nat)
  BY EmptySeq
<1> QED
  BY <1>1, SilentFollowed DEF SasInit, SasInv, SasTypes

(* A block decoded for the voice in the mixer. *)
LEMMA DecodedInv ==
  ASSUME SasInv, mix.v \in Voice,
         NEW w, SamePlace(voice[mix.v], w),
         NEW d, d = DecodeBlock(w, heard[mix.v])
  PROVE  Placed(d.v) /\ d.heard \in Seq(Nat) /\ FlagsFollowed(d.v, d.heard)
<1>1. heard[mix.v] \in Seq(Nat) /\ Placed(w) /\ FlagsFollowed(w, heard[mix.v])
  BY SameFollowed DEF SasInv, SasTypes
<1> QED
  BY <1>1, DecodeFollows

LEMMA MixSampleInv == SasInv /\ MixSample => SasInv'
<1> SUFFICES ASSUME SasInv, MixSample PROVE SasInv'
  OBVIOUS
<1> DEFINE w == voice[mix.v]
           w0 == [w EXCEPT !.idx = 0]
           d == IF w.valid /\ w.idx < BlockLen THEN Goes(w, heard[mix.v])
                ELSE DecodeBlock(w0, heard[mix.v])
           e == [StepEnvelope(d.v) EXCEPT !.frac = @ + d.v.pitch]
<1>1. mix.v \in Voice /\ Placed(w) /\ heard[mix.v] \in Seq(Nat) /\ FlagsFollowed(w, heard[mix.v])
  BY DEF MixSample, SasInv, SasTypes
<1>2. Placed(d.v) /\ d.heard \in Seq(Nat) /\ FlagsFollowed(d.v, d.heard)
  <2>1. CASE d = Goes(w, heard[mix.v])
    BY <2>1, <1>1 DEF Goes
  <2>2. CASE d = DecodeBlock(w0, heard[mix.v])
    <3>1. SamePlace(w, w0)
      BY <1>1 DEF Placed, SamePlace
    <3> QED
      BY <2>2, <3>1, <1>1, DecodedInv
  <2> QED
    BY <2>1, <2>2
<1>3. Mix(d.v, d.heard) \/ Mix(e, d.heard)
  BY DEF MixSample
<1> HIDE DEF d
<1>4. CASE Mix(d.v, d.heard)
  BY <1>1, <1>2, <1>4, OneKept DEF Mix
<1>5. CASE Mix(e, d.heard)
  <2>1. SamePlace(d.v, StepEnvelope(d.v))
    BY <1>2, EnvelopeStays
  <2>2. SamePlace(d.v, e)
    BY <2>1, <1>2 DEF SamePlace, Placed
  <2> HIDE DEF e
  <2>3. Placed(e) /\ FlagsFollowed(e, d.heard)
    BY <2>2, <1>2, SameFollowed
  <2> QED
    BY <2>3, <1>1, <1>2, <1>5, OneKept DEF Mix
<1> QED
  BY <1>3, <1>4, <1>5

LEMMA MixTurnInv == SasInv /\ MixTurn => SasInv'
<1> SUFFICES ASSUME SasInv, MixTurn PROVE SasInv'
  OBVIOUS
<1> DEFINE w == [voice[mix.v] EXCEPT !.idx = @ + 1, !.frac = @ - One]
           w0 == [w EXCEPT !.idx = 0]
           d == IF w.idx < BlockLen THEN Goes(w, heard[mix.v]) ELSE DecodeBlock(w0, heard[mix.v])
<1>1. /\ mix.v \in Voice /\ Placed(voice[mix.v]) /\ heard[mix.v] \in Seq(Nat)
      /\ FlagsFollowed(voice[mix.v], heard[mix.v])
  BY DEF MixTurn, SasInv, SasTypes
<1>2. SamePlace(voice[mix.v], w) /\ SamePlace(voice[mix.v], w0)
  BY <1>1 DEF Placed, SamePlace
<1>3. Placed(d.v) /\ d.heard \in Seq(Nat) /\ FlagsFollowed(d.v, d.heard)
  <2>1. CASE d = Goes(w, heard[mix.v])
    BY <2>1, <1>1, <1>2, SameFollowed DEF Goes
  <2>2. CASE d = DecodeBlock(w0, heard[mix.v])
    BY <2>2, <1>2, <1>1, DecodedInv
  <2> QED
    BY <2>1, <2>2
<1>4. Mix(d.v, d.heard)
  BY DEF MixTurn
<1> HIDE DEF d
<1> QED
  BY <1>1, <1>3, <1>4, OneKept DEF Mix

LEMMA CallInv == SasInv /\ SasCall => SasInv'
<1> SUFFICES ASSUME SasInv, SasCall PROVE SasInv'
  OBVIOUS
<1>t. /\ DOMAIN voice = Voice /\ DOMAIN heard = Voice /\ << >> \in Seq(Nat)
      /\ heard = [v \in Voice |-> heard[v]]
      /\ \A v \in Voice : Placed(voice[v]) /\ [heard EXCEPT ![v] = heard[v]] = heard
  BY EmptySeq DEF SasInv, SasTypes
<1>1. ASSUME NEW n, NEW g, SasSetup(n, g)
      PROVE  SasInv'
  BY <1>1 DEF SasSetup, SasInv, SasTypes
<1>2. ASSUME NEW v \in Voice, NEW vag \in Samples, NEW loop \in BOOLEAN, SetVoice(v, vag, loop)
      PROVE  SasInv'
  <2> DEFINE w == [voice[v] EXCEPT !.vag = vag, !.loop = loop]
  <2>1. Placed(w)
    BY <1>t, SasAssumption DEF Placed
  <2> HIDE DEF w
  <2>2. Placed(Rewound(w)) /\ FlagsFollowed(Rewound(w), << >>)
    BY <2>1, RewoundFollowed
  <2>3. voice' = [voice EXCEPT ![v] = Rewound(w)] /\ heard' = [heard EXCEPT ![v] = << >>]
    BY <1>2 DEF SetVoice, Set, w
  <2> QED
    BY <2>2, <2>3, <1>t, OneKept
<1>3. ASSUME NEW v \in Voice, NEW w, SamePlace(voice[v], w), Set(v, w), UNCHANGED heard
      PROVE  SasInv'
  BY <1>3, <1>t, OneKept DEF Set
<1>4. ASSUME NEW v \in Voice, NEW p, SetPitch(v, p)
      PROVE  SasInv'
  <2>1. SamePlace(voice[v], [voice[v] EXCEPT !.pitch = p])
    BY <1>t DEF Placed, SamePlace
  <2> QED
    BY <1>4, <2>1, <1>3 DEF SetPitch
<1>5. ASSUME NEW v \in Voice, NEW parts, NEW a, NEW d, NEW l, NEW r,
             SetADSR(v, parts, a, d, l, r)
      PROVE  SasInv'
  <2>1. SamePlace(voice[v], [voice[v] EXCEPT !.attack  = IF "attack" \in parts THEN a ELSE @,
                               !.decay   = IF "decay" \in parts THEN d ELSE @,
                               !.sustain = IF "sustain" \in parts THEN l ELSE @,
                               !.release = IF "release" \in parts THEN r ELSE @])
    BY <1>t DEF Placed, SamePlace
  <2> QED
    BY <1>5, <2>1, <1>3 DEF SetADSR
<1>6. ASSUME NEW v \in Voice, KeyOn(v)
      PROVE  SasInv'
  <2> DEFINE u == Rewound(voice[v])
             w == [u EXCEPT !.playing = TRUE, !.paused = FALSE, !.frac = 0,
                            !.env = 0, !.state = "attack",
                            !.attack = IF @ = 0 THEN DefaultRate ELSE @]
  <2>1. Placed(u) /\ FlagsFollowed(u, << >>)
    BY <1>t, RewoundFollowed
  <2>2. voice' = [voice EXCEPT ![v] = w] /\ heard' = [heard EXCEPT ![v] = << >>]
    BY <1>6 DEF KeyOn, Set
  <2> HIDE DEF u
  <2>3. SamePlace(u, w)
    BY <2>1 DEF Placed, SamePlace
  <2> HIDE DEF w
  <2>4. Placed(w) /\ FlagsFollowed(w, << >>)
    BY <2>1, <2>3, SameFollowed
  <2> QED
    BY <2>4, <2>2, <1>t, OneKept
<1>7. ASSUME NEW v \in Voice, KeyOff(v)
      PROVE  SasInv'
  <2>1. SamePlace(voice[v], [voice[v] EXCEPT !.state = "release",
                                        !.release = IF @ = 0 THEN DefaultRate ELSE @])
    BY <1>t DEF Placed, SamePlace
  <2> QED
    BY <1>7, <2>1, <1>3 DEF KeyOff
<1>8. ASSUME NEW mask, NEW p, SetPause(mask, p)
      PROVE  SasInv'
  <2>1. \A v \in Voice : /\ SamePlace(voice[v], voice'[v])
                         /\ heard'[v] = heard[v]
    BY <1>8, <1>t DEF SetPause, Placed, SamePlace
  <2>2. DOMAIN voice' = Voice /\ heard' = heard
    BY <1>8 DEF SetPause
  <2> QED
    BY <2>1, <2>2, <1>t, KeptInv DEF VoiceKept
<1>9. CASE SasReset
  <2>1. \A v \in Voice : /\ Placed(voice'[v]) /\ heard'[v] \in Seq(Nat)
                         /\ FlagsFollowed(voice'[v], heard'[v])
    BY <1>9, <1>t, SilentFollowed DEF SasReset
  <2>2. /\ DOMAIN voice' = Voice /\ DOMAIN heard' = Voice
        /\ heard' = [v \in Voice |-> heard'[v]]
    BY <1>9 DEF SasReset
  <2> QED
    BY <2>1, <2>2, KeptInv DEF VoiceKept
<1> QED
  BY <1>1, <1>2, <1>4, <1>5, <1>6, <1>7, <1>8, <1>9 DEF SasCall

LEMMA NextSasInv == SasInv /\ [SasNext]_sasVars => SasInv'
<1> SUFFICES ASSUME SasInv, [SasNext]_sasVars PROVE SasInv'
  OBVIOUS
<1>1. CASE Core \/ MixOn \/ UNCHANGED sasVars
  BY <1>1 DEF Core, MixOn, sasVars, SasInv, SasTypes
<1> QED
  BY <1>1, MixSampleInv, MixTurnInv, CallInv DEF SasNext

(* Whatever the samples, voices, pitches and grains, a voice plays the blocks of its
   sample in the order that their flags ask for, and none after the one that ends it.
   (decode_block, render, hle_SetVoice, hle_SetKeyOn) *)
THEOREM VoicesFollowTheirFlags == SasSpec => []HeardAsFlagged
<1>1. SasInv => HeardAsFlagged
  BY DEF SasInv, FlagsFollowed, HeardAsFlagged
<1> QED
  BY <1>1, InitSasInv, NextSasInv, PTL DEF SasSpec
=============================================================================
