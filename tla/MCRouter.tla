------------------------------ MODULE MCRouter -------------------------------
(***************************************************************************)
(* Configurations of Router for TLC: pools of one or two entries, of which *)
(* one has a floor and a warm-up of one turn, and one is of the ABI lane.  *)
(***************************************************************************)
EXTENDS Router

HttpEntry(host, path) ==
  [backend |-> "http", endpoint |-> [scheme |-> "http", host |-> host, path |-> path],
   dir |-> "", model |-> "m", floor |-> FALSE, warmup |-> 0]
AbiEntry(dir) == [HttpEntry("", "") EXCEPT !.backend = "abi", !.dir = dir]
WithFloor(entry, spared) == [entry EXCEPT !.floor = TRUE, !.warmup = spared]

TwoLanes ==
  [brain    |-> <<HttpEntry("b", "v1")>>,
   worker   |-> <<WithFloor(HttpEntry("w1", "v1"), 1), WithFloor(HttpEntry("w2", "v1"), 0)>>,
   verifier |-> <<AbiEntry("d")>>,
   factory  |-> TRUE]

\* The second lacks the factory, the third lists the brain's engine among the
\* workers, under the same address.
SomeConfigs ==
  {TwoLanes,
   [TwoLanes EXCEPT !.factory = FALSE],
   [TwoLanes EXCEPT !.worker = <<@[1], HttpEntry("b", "v1")>>]}
=============================================================================
