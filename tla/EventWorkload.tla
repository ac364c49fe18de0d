---------------------------- MODULE EventWorkload ----------------------------
(***************************************************************************)
(* A large workload from end to end: the host preprocesses the input and   *)
(* writes its files, EventDrivenQuickFPSModel loads and checks them,       *)
(* creates a simulator, runs it to the end or to a limit, and destroys it. *)
(***************************************************************************)
EXTENDS EventSimulator, KdPreprocess

CONSTANTS
  Inputs,          \* point clouds: functions from 1..n to coordinates
  Targets,         \* --buckets
  Buffering, SampleCounts, FirstSamples

ASSUME InputsAssumption ==
  \A input \in Inputs : DOMAIN input = 1..Cardinality(Points)

VARIABLES
  input,           \* the cloud that is sampled
  files            \* buckets.hex and the rest, as an image

vars == <<input, files, cloud, goal, buffer, simulatorVars>>

NoFiles == <<>>

Init ==
  /\ input \in Inputs /\ goal \in SampleCounts /\ buffer \in Buffering
  /\ files = NoFiles
  /\ cloud = CHOOSE c \in Clouds : TRUE
  /\ sim = NoSimulator /\ task = <<>> /\ dram = IdleMemory
  /\ mdt = [p \in Points |-> Inf]
  /\ samples = <<>> /\ status = "none"

(* The preprocessor is asked for 1 to n buckets. *)
RunPreprocessor ==
  /\ status = "none" /\ files = NoFiles
  /\ \E target \in Targets, normalize \in BOOLEAN :
       files' = Packed(Preprocess(input, target, normalize))
  /\ UNCHANGED <<input, cloud, goal, buffer, simulatorVars>>

(* An image that is not valid is refused. *)
LoadImage ==
  /\ status = "none" /\ files # NoFiles
  /\ Valid(files)
  /\ cloud' = files
  /\ status' = "loaded"
  /\ UNCHANGED <<input, files, goal, buffer, sim, task, dram, mdt, samples>>

RefuseImage ==
  /\ status = "none" /\ files # NoFiles
  /\ ~Valid(files)
  /\ files' = NoFiles
  /\ UNCHANGED <<input, cloud, goal, buffer, simulatorVars>>

CreateSimulator ==
  /\ status = "loaded"
  /\ Create
  /\ UNCHANGED <<input, files, cloud, goal, buffer>>

RunSimulator ==
  /\ \/ \E first \in FirstSamples : Start(first)
     \/ Step
  /\ UNCHANGED <<input, files, cloud, goal, buffer>>

(* run returns when the samples are copied, and the simulator is destroyed *)
(* then or when it failed.                                                 *)
Return ==
  /\ status = "ended"
  /\ status' = "returned"
  /\ UNCHANGED <<input, files, cloud, goal, buffer, sim, task, dram, mdt, samples>>

Destroy ==
  /\ \/ status = "returned"
     \/ OutOfCycles
     \/ OutOfTime
     \/ status = "loaded" /\ buffer.mode = "resident" /\ TooLarge
  /\ sim' = NoSimulator /\ task' = <<>> /\ dram' = IdleMemory
  /\ mdt' = [p \in Points |-> Inf]
  /\ samples' = <<>> /\ status' = "none" /\ files' = NoFiles
  /\ UNCHANGED <<input, cloud, goal, buffer>>

Next ==
  \/ RunPreprocessor \/ LoadImage \/ RefuseImage
  \/ CreateSimulator \/ RunSimulator \/ Return \/ Destroy

Spec == Init /\ [][Next]_vars

-----------------------------------------------------------------------------
(* Properties. *)

(* A bucket is issued only when fewer than the FIFO's depth wait in it,    *)
(* those accepted in the cycle of the issue included, not later than that  *)
(* makes it, and before it is accepted, though the scan moves the head of  *)
(* the FIFO only forward and knows of the point engine only when it        *)
(* accepted what.                                                          *)
FifoWithinDepth ==
  [][Issue =>
       LET planned        == sim.start + Frontend + sim.position
           issued         == planned + sim'.stall
           waiting(cycle) == Cardinality({i \in DOMAIN sim.accepts : sim.accepts[i] >= cycle})
       IN  /\ waiting(issued) < FIFO_DEPTH
           /\ sim'.stall = sim.stall \/ waiting(issued - 1) >= FIFO_DEPTH
           /\ task'[1].clock > issued]_vars

(* The memory is asked in the order of time: the events of a bucket come   *)
(* in order, and a bucket begins when the memory has served all that       *)
(* earlier buckets asked of it, in this iteration and before.              *)
ArrivalsInOrder ==
  [][/\ task # <<>> /\ task' # <<>> => task[1].clock <= task'[1].clock
     /\ task = <<>> /\ task' # <<>> =>
          \A b \in DOMAIN dram.bank : dram.bank[b].free < task'[1].clock]_vars

(* EVENT_DRIVEN_LARGE_WORKLOAD.md has the model for clouds of 256K to 1M   *)
(* points, and PIDX_W is 18: what the preprocessor writes of a cloud with  *)
(* more points than the width of an index allows for can be loaded.        *)
EveryImageLoads == files # NoFiles => Valid(files)

Distance2(p, q) ==
  (p[1] - q[1]) * (p[1] - q[1]) + (p[2] - q[2]) * (p[2] - q[2]) + (p[3] - q[3]) * (p[3] - q[3])

(* Each sample, traced back to the input through the reorder map, was at   *)
(* the time as far from the samples before it as any point of the input:   *)
(* neither the normalisation, the reordering nor the files lose a point or *)
(* mistake it for another.                                                 *)
FarthestInInput ==
  LET drawn(i)   == input[cloud.original[samples[i]]]
      gap(p)     == Least({Distance2(p, drawn(i)) : i \in 1..Len(samples) - 1})
  IN  Len(samples) > 1 =>
        \A i \in DOMAIN input : gap(input[i]) <= gap(drawn(Len(samples)))

(* The simulator delivers the samples of the definition, whatever the      *)
(* memory's timing, the Point Buffer and the size of the FIFO.             *)
FPS == INSTANCE FarthestPoint WITH sampled <- samples, finished <- status = "returned"
ExactSampling == FPS!Spec
=============================================================================
