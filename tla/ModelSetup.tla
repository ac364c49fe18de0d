----------------------------- MODULE ModelSetup ------------------------------
(***************************************************************************)
(* How a cycle model is put together: the class that is run, the point     *)
(* engine it makes, and the memory it is given.                            *)
(***************************************************************************)

(* [scheduler, engine, arbiter, memory, resident]: scheduler is strict,    *)
(* direct or a trace-driven one, engine fifo, streams or batched, arbiter  *)
(* round_robin or priority, memory banked or dramsim3; resident says that  *)
(* the points stay in the Point Buffer.                                    *)
VARIABLE setup

TracedSchedulers == {"trace", "trace_fifo", "trace_pre_edge"}

IsTraced   == setup.scheduler \in TracedSchedulers
IsPipeline == setup.scheduler = "trace"
=============================================================================
