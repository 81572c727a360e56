------------------------- MODULE MCAttemptProtocol -------------------------
EXTENDS AttemptProtocol

Exit(code) == [how |-> "exit", value |-> code]
Killed == [how |-> "signal", value |-> SIGKILL]
NotWaitedFor == [how |-> "error", value |-> 0]

\* Two attempts and their checkpoints, with failing calls and lost pods.
Recovery ==
  [work |-> 1, seq |-> 2, objects |-> 2, ends |-> {Exit(1), Killed},
   attempts |-> 2, jobs |-> 1, budgets |-> {2}, finalizer |-> {FALSE}, codes |-> {},
   faults |-> 1, kinds |-> {"runner", "pod"}]

\* Results late and repeated, cancellations, deadlines, edits of the spec.
Settlement ==
  [work |-> 0, seq |-> 0, objects |-> 0, ends |-> {Exit(0), Exit(1)},
   attempts |-> 2, jobs |-> 1, budgets |-> {0, 2}, finalizer |-> {FALSE}, codes |-> {0},
   faults |-> 2, kinds |-> {"pod", "edit", "deadline"}]

\* A job with the finalizer is deleted while calls fail, and created again.
Finalization ==
  [work |-> 0, seq |-> 0, objects |-> 0, ends |-> {Exit(0), NotWaitedFor},
   attempts |-> 2, jobs |-> 2, budgets |-> {2}, finalizer |-> {TRUE}, codes |-> {},
   faults |-> 2, kinds |-> {"delete", "deadline", "call"}]

\* A job is deleted and created again under its name while attempts and pods of the
\* first remain.
Recreation ==
  [work |-> 0, seq |-> 0, objects |-> 0, ends |-> {Exit(0), Exit(1)},
   attempts |-> 3, jobs |-> 2, budgets |-> {2}, finalizer |-> {FALSE}, codes |-> {},
   faults |-> 2, kinds |-> {"delete", "pod"}]

MCLimits == {Recovery, Settlement, Finalization, Recreation}
=============================================================================
