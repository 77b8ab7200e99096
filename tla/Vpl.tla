--------------------------------- MODULE Vpl ---------------------------------
(***************************************************************************)
(* The variable-size pools of src/hle/threadman.c: a pool is accounting on *)
(* top of the one user-memory allocator, and the blocks handed out are     *)
(* kept in a table of their own.  A thread that finds no room waits with a *)
(* pointer to the pool's record.                                           *)
(***************************************************************************)
EXTENDS WaitLoop

CONSTANTS NVpls,          \* MAX_VPLS
          NBlocks,        \* MAX_VPL_BLOCKS
          NAddrs,         \* bound: places for a block in user memory
          Sizes,          \* sizes of pools and blocks a guest asks for
          MaxUid          \* bound: pools created

Pool  == 1..NVpls
Block == 1..NBlocks
Addr  == 1..NAddrs

VARIABLES vpl,       \* g_vpl
          blk,       \* g_vplblk
          mem,       \* the places SysMem has handed out
          want,      \* vpl_ctx of the wait each thread is in
          nextUid    \* g_next_uid

vars == <<loopVars, vpl, blk, mem, want, nextUid>>

NoWant  == [v |-> 0, size |-> 0]
NoPool  == [used |-> FALSE, uid |-> 0, pool_size |-> 0, free_size |-> 0]
NoBlock == [used |-> FALSE, vpl |-> 0, addr |-> 0, size |-> 0]

TypeOK == /\ LoopTypeOK
          /\ vpl \in [Pool -> [used : BOOLEAN, uid : 0..MaxUid, pool_size : Nat, free_size : Nat]]
          /\ blk \in [Block -> [used : BOOLEAN, vpl : 0..MaxUid, addr : 0..NAddrs, size : Nat]]
          /\ mem \subseteq Addr
          /\ want \in [Thread -> [v : 0..NVpls, size : Nat]]
          /\ nextUid \in 1..MaxUid + 1

Init == /\ LoopInit
        /\ vpl = [v \in Pool |-> NoPool]
        /\ blk = [b \in Block |-> NoBlock]
        /\ mem = {}
        /\ want = [t \in Thread |-> NoWant]
        /\ nextUid = 1

BlocksOf(v) == {b \in Block : blk[b].used /\ blk[b].vpl = vpl[v].uid}

-----------------------------------------------------------------------------
(* hle_CreateVpl: the first free record. *)
CreateVpl(t, size) ==
    /\ cpu = t
    /\ nextUid <= MaxUid
    /\ \E v \in Pool : ~vpl[v].used
    /\ vpl' = [vpl EXCEPT ![Min({v \in Pool : ~vpl[v].used})] =
                  [used |-> TRUE, uid |-> nextUid, pool_size |-> size, free_size |-> size]]
    /\ nextUid' = nextUid + 1
    /\ UNCHANGED <<loopVars, blk, mem, want>>

(* hle_DeleteVpl: the pool's blocks go with it; the waiters are left
   with a pointer to the unused record and test it again. *)
DeleteVpl(t, v) ==
    /\ cpu = t
    /\ vpl[v].used
    /\ mem' = mem \ {blk[b].addr : b \in BlocksOf(v)}
    /\ blk' = [b \in Block |-> IF b \in BlocksOf(v) THEN NoBlock ELSE blk[b]]
    /\ vpl' = [vpl EXCEPT ![v].used = FALSE]
    /\ UNCHANGED <<loopVars, want, nextUid>>

(* hle_FreeVpl: a block of this pool; for any other address it is an error. *)
FreeVpl(t, v, b) ==
    /\ cpu = t
    /\ vpl[v].used
    /\ b \in BlocksOf(v)
    /\ mem' = mem \ {blk[b].addr}
    /\ vpl' = [vpl EXCEPT ![v].free_size = @ + blk[b].size]
    /\ blk' = [blk EXCEPT ![b] = NoBlock]
    /\ UNCHANGED <<loopVars, want, nextUid>>

Room(v, size) == vpl[v].free_size >= size

(* Mutant: without an entry in the table the memory is not given back. *)
TakeBlockLeaks(v, size) ==
    IF mem = Addr
    THEN UNCHANGED <<vpl, blk, mem>>
    ELSE LET a == Min(Addr \ mem)
         IN /\ mem' = mem \cup {a}
            /\ IF \A b \in Block : blk[b].used
               THEN UNCHANGED <<vpl, blk>>
               ELSE /\ blk' = [blk EXCEPT ![Min({b \in Block : ~blk[b].used})] =
                                  [used |-> TRUE, vpl |-> vpl[v].uid, addr |-> a, size |-> size]]
                    /\ vpl' = [vpl EXCEPT ![v].free_size = @ - size]

(* take_vpl_block once there is room: memory and a table entry, or an error that
   leaves everything as it was (the memory is given back). *)
TakeBlock(v, size) ==
    IF mem = Addr \/ \A b \in Block : blk[b].used
    THEN UNCHANGED <<vpl, blk, mem>>
    ELSE LET a == Min(Addr \ mem)
         IN /\ mem' = mem \cup {a}
            /\ blk' = [blk EXCEPT ![Min({b \in Block : ~blk[b].used})] =
                          [used |-> TRUE, vpl |-> vpl[v].uid, addr |-> a, size |-> size]]
            /\ vpl' = [vpl EXCEPT ![v].free_size = @ - size]

TryAllocateVpl(t, v, size) == /\ cpu = t
                              /\ vpl[v].used
                              /\ Room(v, size)
                              /\ TakeBlock(v, size)
                              /\ UNCHANGED <<loopVars, want, nextUid>>

(* take_vpl_block up to its wait_loop. *)
AllocateVpl(t, v, size, timeout) == /\ vpl[v].used
                                    /\ want' = [want EXCEPT ![t] = [v |-> v, size |-> size]]
                                    /\ BeginWait(t, timeout)
                                    /\ UNCHANGED <<vpl, blk, mem, nextUid>>

(* vpl_room *)
VplRoom(t) == want[t].v # 0 /\ Room(want[t].v, want[t].size)

VplOk(t) == /\ WaitOk(t, VplRoom(t))
            /\ TakeBlock(want[t].v, want[t].size)
            /\ want' = [want EXCEPT ![t] = NoWant]
            /\ UNCHANGED nextUid

VplFails(t) == /\ WaitTimesOut(t, VplRoom(t)) \/ WaitGivesUp(t, VplRoom(t))
               /\ want' = [want EXCEPT ![t] = NoWant]
               /\ UNCHANGED <<vpl, blk, mem, nextUid>>

VplParks(t) == /\ WaitParks(t, VplRoom(t))
               /\ UNCHANGED <<vpl, blk, mem, want, nextUid>>

Schedule(t) == /\ Scheduling(t)
               /\ UNCHANGED <<vpl, blk, mem, want, nextUid>>

(* A size of zero is taken as one. *)
Call(t) == \/ \E size \in Sizes : CreateVpl(t, size)
           \/ \E v \in Pool : DeleteVpl(t, v)
           \/ \E v \in Pool, b \in Block : FreeVpl(t, v, b)
           \/ \E v \in Pool, size \in Sizes : TryAllocateVpl(t, v, Max({size, 1}))
           \/ \E v \in Pool, size \in Sizes, timeout \in Timeouts :
                 AllocateVpl(t, v, Max({size, 1}), timeout)

Loop(t) == VplOk(t) \/ VplFails(t) \/ VplParks(t)

Next == \E t \in Thread : Call(t) \/ Loop(t) \/ Schedule(t)

Spec == Init /\ [][Next]_vars

-----------------------------------------------------------------------------
(* The bytes a pool has handed out, each as a byte of its block. *)
HandedOut(v) == UNION {{b} \X (1..blk[b].size) : b \in BlocksOf(v)}

(* "ReferVplStatus has to report a free size that is true": the free size of a pool and
   the blocks it has handed out add up to its size. *)
FreeSizeTrue == \A v \in Pool : vpl[v].used =>
                    /\ vpl[v].free_size >= 0
                    /\ vpl[v].free_size + Cardinality(HandedOut(v)) = vpl[v].pool_size

(* Every block's memory is its own and is allocated: none is released twice or while
   a block still covers it, and none is kept without a block; and what the pools report
   agrees with it, whatever the waiters of this or of an earlier pool in the same record
   do.  (take_vpl_block, hle_FreeVpl, hle_DeleteVpl) *)
BlockMemoryExact == /\ mem = {blk[b].addr : b \in {c \in Block : blk[c].used}}
                    /\ \A b, c \in Block : blk[b].used /\ blk[c].used /\ b # c =>
                                               blk[b].addr # blk[c].addr
                    /\ FreeSizeTrue
=============================================================================
