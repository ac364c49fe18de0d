--------------------------- MODULE MCCycleModels ---------------------------
(* CycleModels on clouds of seven points on a line. *)
EXTENDS CycleModels, LineClouds

Model(scheduler, engine, arbiter, backend, resident) ==
  [scheduler |-> scheduler, engine |-> engine, arbiter |-> arbiter, memory |-> backend,
   resident |-> resident]

(* The models the command line puts together, in streaming and resident    *)
(* mode.                                                                   *)
BankedModels ==
  {Model("direct", "fifo", "round_robin", "banked", FALSE),
   Model("strict", "fifo", "round_robin", "banked", FALSE),
   Model("strict", "streams", "round_robin", "banked", FALSE),
   Model("strict", "streams", "priority", "banked", FALSE),
   Model("strict", "streams", "round_robin", "banked", TRUE)}

TracedModels ==
  {Model(scheduler, "fifo", "round_robin", "banked", FALSE) : scheduler \in TracedSchedulers}

DramModels ==
  {Model("direct", "fifo", "round_robin", "dramsim3", FALSE),
   Model("strict", "streams", "round_robin", "dramsim3", FALSE),
   Model("strict", "batched", "round_robin", "dramsim3", FALSE),
   Model("strict", "batched", "priority", "dramsim3", FALSE),
   Model("trace_pre_edge", "fifo", "round_robin", "dramsim3", FALSE)}

AllLines == BusyClouds \cup MixedClouds

SmallLine == Line(<<0, 12, 10, 3, 9, 1, 7>>, <<0, 0, 1, 1, 1, 2, 2>>)

(* DRAMsim3 calls back in every order, on one of the clouds. *)
ModelsFor(c) == BankedModels \cup TracedModels \cup (IF c = SmallLine THEN DramModels ELSE {})

ReloadSame(c) == {c}
=============================================================================
