------------------------------ MODULE MCScanPlan ------------------------------
(***************************************************************************)
(* ScanPlan for TLC: blocks of one or two threads, one or two SMs, memory  *)
(* for none to many threads, and ranges from no key to several waves.      *)
(***************************************************************************)
EXTENDS ScanPlan

Request(s, e, a, b, n, g) ==
  [first |-> s, last |-> e, batch |-> a, blocks |-> b, slices |-> n, gpus |-> g]

SmallDevices == [sms : {1, 2}, maxThreadsPerBlock : {1, 4}, memThreads : {0, 9, 20}]

\* One GPU, and every shape of grid for short ranges and some long ones.
Scanned ==
  {Request(9, 8 + n, a, b, s, 1) :
     n \in (1..24) \union {31, 40, 53, 3000}, a \in {2, 4, 8}, b \in {1, 2, 5}, s \in {1, 2, 3}}

\* Ends next to where a limb is full, reversed and whole ranges, ranges shorter than the GPUs are many.
Ends == {0, 1, 62, 63, 64, 65, 127, 128, 3968, 4031, 4032, 4094, 4095}
Dealt3 == {Request(s, e, 8, 2, 1, g) : s, e \in Ends, g \in 1..3}

\* Batch sizes that are no even power of two or too large.
Refused == {Request(9, 40, a, 2, 1, 1) : a \in {1, 3, 6, 16}}

All == Scanned \union Dealt3 \union Refused

\* Around the point where the budget stops fitting a word of 8 values: 4 threads, batches of 2.
Edge == {Request(9, 8 + n, 2, 2, s, 1) : n \in 40..66, s \in {1, 2}}

\* One SM with blocks of two threads: a wave is BLOCKS_PER_SM blocks, 4 threads.
OneDevice == [sms : {1}, maxThreadsPerBlock : {2}, memThreads : {64}]
===============================================================================
