------------------------------- MODULE Memory -------------------------------
(***************************************************************************)
(* The user-memory allocator, src/hle/sysmem.c, and the pools of           *)
(* src/hle/threadman.c that account for blocks taken from it.  The pools   *)
(* see it through the places it hands out, so a behaviour is about one of  *)
(* the two.                                                                *)
(***************************************************************************)
EXTENDS SysMem

CONSTANTS Thread, Boot, NoThread, Tick, Timeouts, WaitTicksMax,   \* of WaitLoop
          NVpls, NVplBlocks, NAddrs, Sizes, MaxUid                \* of Vpl

ASSUME PoolAssumption == {NVpls, NVplBlocks, NAddrs} \cup Sizes \subseteq Nat

VARIABLES kind,                                                   \* which of the two
          cpu, phase, timed, left, ticks, step,           \* of WaitLoop
          vpl, blk, mem, want, nextUid                            \* of Vpl

V == INSTANCE Vpl WITH NBlocks <- NVplBlocks

poolVars == <<cpu, phase, timed, left, ticks, step, vpl, blk, mem, want, nextUid>>
memVars  == <<vars, kind, poolVars>>

MemoryInit == /\ kind \in {"heap", "pools"}
              /\ Init /\ V!Init

MemoryNext == \/ kind = "heap" /\ Next /\ UNCHANGED <<kind, poolVars>>
              \/ kind = "pools" /\ V!Next /\ UNCHANGED <<kind, vars>>

Searching == Found \/ SkipUp \/ SkipDown \/ NotFound

(* The fairness of SysMem: the call that searches has the CPU until it returns. *)
MemorySpec == /\ MemoryInit /\ [][MemoryNext]_memVars
              /\ WF_memVars(kind = "heap" /\ Searching /\ UNCHANGED <<kind, poolVars>>)

-----------------------------------------------------------------------------
(* take_vpl_block, hle_FreeVpl and hle_DeleteVpl: every block's memory is its own,
   allocated, and released once, and the free size of its pool says so. *)
BlockMemoryExact == V!BlockMemoryExact
=============================================================================
