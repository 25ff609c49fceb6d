---------------------------- MODULE MCWorkerPool ----------------------------
(* Small instances of the worker pool for TLC. *)
EXTENDS WorkerPoolService, TLC

(* Descriptor numbers are interchangeable; workers are not (they are        *)
(* visited in order).                                                      *)
FdSymmetry == Permutations(Fd)

(* Which thread took the first signal is recorded for SignalLeadsToExit     *)
(* alone; no action and no invariant tells main from a worker there.       *)
SafetyView == <<signalled = "nobody", stop, left, mainVars, workerVars, queueVars,
                kernelVars>>

=============================================================================
