------------------------------ MODULE Runtime ------------------------------
(***************************************************************************)
(* The runtime library around the scheduler: what the recompiled code      *)
(* calls into besides threads, waits and memory.  The parts share no state *)
(* and none calls another, so a behaviour exercises one of them, chosen at *)
(* the start, and leaves the others as they were initialised.              *)
(***************************************************************************)
EXTENDS Dispatch, Trace, HleRegistry, GeLists, Files, Devices, Sas, Alu, Vfpu, Loader

Parts == {"dispatch", "entries", "stack", "hle", "lists", "vertices", "files", "audio",
          "gadgets", "sas", "alu", "vfpu", "loader"}

VARIABLE part

runtimeVars == <<part, dispatchVars, traceVars, hleVars, geVars, ioVars, deviceVars, sasVars,
                 aluVars, vfpuVars, loaderVars>>

(* Parts that may start in many states start in one of them while they are not used. *)
RuntimeInit ==
    /\ part \in Parts
    /\ DispatchInit /\ TraceInit /\ HleInit /\ GeInit /\ DevicesInit /\ SasInit /\ VfpuInit
    /\ FilesInit /\ (part # "files" => there = {})
    /\ IF part = "alu" THEN AluInit
       ELSE insn = [op |-> "none", p |-> 0, n |-> 0] /\ alu = [ran |-> {}]
    /\ IF part = "loader" THEN LoaderInit
       ELSE /\ image = << >> /\ span = 0 /\ phase = "failed"
            /\ at = 0 /\ best = NoTable /\ called = << >>

Kept(p, v) == IF part \in p THEN TRUE ELSE UNCHANGED v

RuntimeNext ==
    /\ UNCHANGED part
    /\ \/ part = "dispatch" /\ DispatchNext
       \/ part = "entries" /\ RingNext
       \/ part = "stack" /\ SpNext
       \/ part = "hle" /\ HleNext
       \/ part = "lists" /\ GeNext(Steering)
       \/ part = "vertices" /\ GeNext(Drawing)
       \/ part = "files" /\ FilesNext
       \/ part = "audio" /\ AudioNext
       \/ part = "gadgets" /\ GadgetNext
       \/ part = "sas" /\ SasNext
       \/ part = "alu" /\ AluNext
       \/ part = "vfpu" /\ VfpuNext
       \/ part = "loader" /\ LoaderNext
    /\ Kept({"dispatch"}, dispatchVars)
    /\ Kept({"entries", "stack"}, traceVars)
    /\ Kept({"hle"}, hleVars)
    /\ Kept({"lists", "vertices"}, geVars)
    /\ Kept({"files"}, ioVars)
    /\ Kept({"audio", "gadgets"}, deviceVars)
    /\ Kept({"sas"}, sasVars)
    /\ Kept({"alu"}, aluVars)
    /\ Kept({"vfpu"}, vfpuVars)
    /\ Kept({"loader"}, loaderVars)

RuntimeSpec == RuntimeInit /\ [][RuntimeNext]_runtimeVars
=============================================================================
