------------------------- MODULE MCVirtualComputer -------------------------
(***************************************************************************)
(* Instance of VirtualComputer, and of the VirtualCompiler it uses: one    *)
(* intervention of every kind, a slice of one size, one the lowering and   *)
(* one the second CPU refuses, budgets that suffice and ones that do not,  *)
(* probes that may search and ones that may not; two arms of the kernel    *)
(* and sequences of two steps, budgets of the exact search that pay for    *)
(* nothing, for some and for all four sequences.                           *)
(***************************************************************************)
EXTENDS VirtualComputer

Intervention(kind, arg) == [kind |-> kind, arg |-> arg]
MCSearchSpace == {Intervention("flags", "O3+unroll"), Intervention("tune-", "unroll"),
                  Intervention("policy", "no-evrp"), Intervention("source", "noinline")}
MCPresetFlags == ("O3+unroll" :> {<<"-O", "3">>, <<"-f", "unroll">>})
              @@ ("O0" :> {<<"-O", "0">>}) @@ ("O3" :> {<<"-O", "3">>})
MCBenchArms == <<"stock", "mcts">>

Input(ns, controls, micro, compiler) ==
  [slice |-> [seeds |-> 1 .. 1, ns |-> ns, controls |-> controls, gains |-> 1 .. 1, steps |-> 1],
   micro |-> micro, compiler |-> compiler]
MCInputs == {Input({2}, {"balanced"}, 2, 1), Input({3}, {"balanced"}, 0, 0),
             Input({2}, {"streaming"}, 2, 1)}

\* Enough of everything, or too little for the second CPU and for the kernel's arms.
MCLimits ==
  {[u \in UnitSet |-> 24],
   [u \in UnitSet |-> IF u = "vmarch" THEN 3 ELSE IF u = "kernel" THEN 1 ELSE 24]}

Found(micro, level, edited) ==
  [micro |-> micro, compiler |-> TRUE,
   kernel |-> [state |-> "there", level |-> level, edited |-> edited, drifted |-> FALSE]]
MCDisks == {Found("skill", 1, FALSE), Found("skill", 2, TRUE), Found("no skill", 1, FALSE)}

\* Each of the four sequences is the best one somewhere.
MCArmOrder == <<1, 7>>

\* Demand that depends on the whole seed and on the tick.
MCDemand(seed, k) == 1 + ((Total(seed) + k * k + k) % MaxDemand)
=============================================================================
