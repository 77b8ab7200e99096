------------------------------- MODULE SysMem -------------------------------
(***************************************************************************)
(* The user-memory allocator, src/hle/sysmem.c: a table of blocks, first   *)
(* fit from either end of the heap or at a given address, in 32-bit        *)
(* arithmetic.                                                             *)
(*                                                                         *)
(* The loops of place_low and place_high are steps of their own, one per   *)
(* candidate address, with the search in a variable; nothing else happens  *)
(* during a search, because the HLE call that makes it holds the CPU.      *)
(***************************************************************************)
EXTENDS Integers, FiniteSets, FiniteSetsExt

CONSTANTS Word,      \* 2^32
          Granule,   \* 0x100
          Lo, Hi,    \* g_heap_lo, g_heap_hi
          NBlocks,   \* MAX_BLOCKS
          Size,      \* sizes the callers ask for
          Align,     \* alignments the callers ask for, powers of two
          Want       \* addresses the callers ask for

ASSUME SysMemAssumption ==
    /\ {Word, Granule, Lo, Hi, NBlocks} \subseteq Nat
    /\ 0 < Granule
    /\ 0 < Lo /\ Lo < Hi /\ Hi < Word
    /\ Size \subseteq 0..Word - 1
    /\ Align \subseteq Nat /\ \A n \in Align : Granule <= n
    /\ Want \subseteq 0..Word - 1

(* Every request is far from the end of the 32-bit space. *)
NoWrap == \A n \in Size : /\ \A m \in Align \cup {Granule} : Hi + n + m + Granule < Word
                          /\ \A a \in Want : a + n + Granule < Word

VARIABLES block,    \* g_block
          search    \* the loop of place_low or place_high that is under way

vars == <<block, search>>

Slot == 1..NBlocks
(* What an unused record still holds is never read. *)
Unused == [used |-> FALSE, addr |-> 0, size |-> 0, asked |-> 0]
Idle   == [dir |-> "idle", at |-> 0, size |-> 0, align |-> 0, asked |-> 0]

(* asked is history: the size the caller passed. *)
TypeOK == /\ block \in [Slot -> [used : BOOLEAN, addr : Nat, size : Nat, asked : Nat]]
          /\ search \in [dir : {"idle", "low", "high"}, at : Nat, size : Nat, align : Nat,
                         asked : Nat]

(* psp_sysmem_reset *)
Init == /\ block = [s \in Slot |-> Unused]
        /\ search = Idle

-----------------------------------------------------------------------------
(* uint32_t arithmetic, and & ~(align - 1). *)
Wrap(n)         == n % Word
AlignDown(n, m) == n - (n % m)
AlignUp(n, m)   == AlignDown(Wrap(n + m - 1), m)

(* The size in granules, at least one of them. *)
Rounded(n) == LET r == AlignUp(n, Granule) IN IF r = 0 THEN Granule ELSE r

InUse   == {s \in Slot : block[s].used}
EndOf(s) == Wrap(block[s].addr + block[s].size)

(* Mutant: only looks at where the blocks begin. *)
InTheWayOfStart(a, n) == {s \in InUse : a <= block[s].addr /\ block[s].addr < Wrap(a + n)}

(* Mutant: blocks that only touch are in the way. *)
InTheWayTouching(a, n) == {s \in InUse : a <= EndOf(s) /\ block[s].addr <= Wrap(a + n)}

(* The test of overlaps, of place_low and of place_high. *)
InTheWay(a, n) == {s \in InUse : a < EndOf(s) /\ block[s].addr < Wrap(a + n)}
Overlaps(a, n) == InTheWay(a, n) # {}

FreeSlots == Slot \ InUse

(* Take the first free record, if there is one, for [a, a + n). *)
Place(a, n, asked) ==
    \/ /\ FreeSlots # {}
       /\ block' = [block EXCEPT ![Min(FreeSlots)] = [used |-> TRUE, addr |-> a, size |-> n,
                                                      asked |-> asked]]
    \/ /\ FreeSlots = {}
       /\ UNCHANGED block

(* PSP_SMEM_Low, PSP_SMEM_LowAligned, psp_sysmem_alloc(n, 0): place_low begins. *)
AskLow(n, m) ==
    /\ search = Idle
    /\ search' = [dir |-> "low", at |-> AlignUp(Lo, m), size |-> Rounded(n), align |-> m,
                  asked |-> n]
    /\ UNCHANGED block

(* PSP_SMEM_High, PSP_SMEM_HighAligned, psp_sysmem_alloc(n, 1): place_high begins. *)
AskHigh(n, m) ==
    /\ search = Idle
    /\ Rounded(n) <= Hi - Lo
    /\ search' = [dir |-> "high", at |-> AlignDown(Hi - Rounded(n), m), size |-> Rounded(n),
                  align |-> m, asked |-> n]
    /\ UNCHANGED block

(* Mutant: only the first byte of the block is held against the end of the heap. *)
AskAddrOver(n, a) ==
    /\ search = Idle
    /\ a >= Lo /\ a <= Hi
    /\ ~Overlaps(a, Rounded(n))
    /\ Place(a, Rounded(n), n)
    /\ UNCHANGED search

(* PSP_SMEM_Addr: there or nowhere. *)
AskAddr(n, a) ==
    /\ search = Idle
    /\ a >= Lo /\ Wrap(a + Rounded(n)) <= Hi
    /\ ~Overlaps(a, Rounded(n))
    /\ Place(a, Rounded(n), n)
    /\ UNCHANGED search

(* The candidate is free: the block goes there. *)
Found ==
    /\ \/ search.dir = "low" /\ Wrap(search.at + search.size) <= Hi
       \/ search.dir = "high" /\ search.at >= Lo
    /\ ~Overlaps(search.at, search.size)
    /\ Place(search.at, search.size, search.asked)
    /\ search' = Idle

(* Mutant: the next candidate is where a block in the way begins. *)
NextLowStart == Min({Hi} \cup {block[s].addr : s \in InTheWay(search.at, search.size)})

(* place_low: the next candidate is past whichever block in the way ends first. *)
NextLow == Min({Hi} \cup {EndOf(s) : s \in InTheWay(search.at, search.size)})

SkipUp ==
    /\ search.dir = "low" /\ Wrap(search.at + search.size) <= Hi
    /\ Overlaps(search.at, search.size)
    /\ search' = [search EXCEPT !.at = AlignUp(NextLow, search.align)]
    /\ UNCHANGED block

(* place_high: the next candidate is below whichever block in the way begins last. *)
NextHigh == Max({Lo} \cup {block[s].addr : s \in InTheWay(search.at, search.size)})

SkipDown ==
    /\ search.dir = "high" /\ search.at >= Lo
    /\ Overlaps(search.at, search.size)
    /\ NextHigh > Lo /\ NextHigh >= search.size
    /\ search' = [search EXCEPT !.at = AlignDown(NextHigh - search.size, search.align)]
    /\ UNCHANGED block

(* Nothing fits: NO_MEMORY. *)
NotFound ==
    /\ \/ search.dir = "low" /\ Wrap(search.at + search.size) > Hi
       \/ /\ search.dir = "high"
          /\ \/ search.at < Lo
             \/ /\ Overlaps(search.at, search.size)
                /\ NextHigh <= Lo \/ NextHigh < search.size
    /\ search' = Idle
    /\ UNCHANGED block

(* hle_FreePartitionMemory: the uid, which is never used twice, names the record.
   psp_sysmem_release: the first block at that address. *)
Free(s) == /\ search = Idle
           /\ s \in InUse
           /\ block' = [block EXCEPT ![s] = Unused]
           /\ UNCHANGED search

Release(a) == LET there == {s \in InUse : block[s].addr = a}
              IN there # {} /\ Free(Min(there))

Next == \/ \E n \in Size, m \in Align \cup {Granule} : AskLow(n, m) \/ AskHigh(n, m)
        \/ \E n \in Size, a \in Want : AskAddr(n, a)
        \/ Found
        \/ SkipUp
        \/ SkipDown
        \/ NotFound
        \/ \E s \in Slot : Free(s)
        \/ \E a \in {block[s].addr : s \in Slot} : Release(a)

Spec == Init /\ [][Next]_vars

(* The call that searches has the CPU and goes on until it returns. *)
FairSpec == Spec /\ WF_vars(Found \/ SkipUp \/ SkipDown \/ NotFound)

-----------------------------------------------------------------------------
Bytes(s) == block[s].addr..block[s].addr + block[s].size - 1

(* No two blocks that are handed out share a byte - nor do two thread stacks, or a
   stack and a pool, which come from here. *)
BlocksApart == \A s, t \in InUse :
                   s # t => \/ block[s].addr + block[s].size <= block[t].addr
                            \/ block[t].addr + block[t].size <= block[s].addr

(* A block lies in the heap, whichever way it was placed. *)
BlocksInHeap == \A s \in InUse : Lo <= block[s].addr /\ block[s].addr + block[s].size <= Hi

(* "The hardware allocator works in 256-byte granules. Rounding up matters"
   (hle_AllocPartitionMemory): a block is at least as large as was asked. *)
BlockLargeEnough == \A s \in InUse : block[s].size >= block[s].asked

(* Every byte a caller asked for is its block's, and heap: the block is large enough and
   ends inside the heap. *)
BlocksServe == BlocksInHeap /\ BlockLargeEnough

(* Where a block of the search's size could go. *)
Fits == {a \in Lo..Hi - search.size :
            /\ a % search.align = 0
            /\ \A s \in InUse : Bytes(s) \cap (a..a + search.size - 1) = {}}

(* Skipping past whatever is in the way loses nothing: a low block goes to the lowest
   aligned address where it fits, a high one to the highest, and there is no block
   only if it fits nowhere or the table is full. *)
FirstFit ==
    [][search # Idle /\ search' = Idle /\ FreeSlots # {} =>
           IF Fits = {} THEN block' = block
           ELSE LET s == Min(FreeSlots)
                IN /\ block'[s].used
                   /\ block'[s].addr = IF search.dir = "low" THEN Min(Fits) ELSE Max(Fits)]_vars

(* Every allocation returns: the candidates of place_low and place_high run out. *)
SearchEnds == search # Idle ~> search = Idle

(* The blocks are apart and in the heap because the search never leaves it: a low
   candidate is not below the heap and a high one does not reach past it. *)
SearchInHeap == /\ search.dir = "low" => Lo <= search.at /\ search.at < Hi + search.align
                /\ search.dir = "high" => search.at + search.size <= Hi
                /\ search.dir # "idle" => /\ 0 < search.size /\ 0 < search.align
                                          /\ search.asked <= search.size
                                          /\ Hi + search.align + search.size < Word

IInv == TypeOK /\ BlocksApart /\ BlocksInHeap /\ BlockLargeEnough /\ SearchInHeap

(* First fit because the candidates are aligned and none that was passed over fits. *)
FitInv == /\ IInv
          /\ \A s \in InUse : 0 < block[s].size
          /\ search.dir # "idle" => search.at % search.align = 0
          /\ search.dir = "low" => \A a \in Fits : search.at <= a
          /\ search.dir = "high" => \A a \in Fits : a <= search.at
=============================================================================
