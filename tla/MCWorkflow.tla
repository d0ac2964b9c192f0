----------------------------- MODULE MCWorkflow -----------------------------
(***************************************************************************)
(* Instances of the workflow service for TLC: one or two instances, and a  *)
(* task c that depends on a and b (a join), the smallest graph in which a  *)
(* child has another parent besides the one that completes.                *)
(***************************************************************************)
EXTENDS WorkflowProperties, TLC

CONSTANTS a, b, c, i1, i2

MCInstanceOf == [t \in Task |-> i1]
Join  == {<<c, a>>, <<c, b>>}
Chain == {<<b, a>>, <<c, b>>}

AllOps == TaskOp \cup InstanceOp \cup {"create_instance"}
SeedOneInstance == {"PENDING", Absent}

Requests == Permutations(Req)
=============================================================================
