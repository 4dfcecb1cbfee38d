---------------------------- MODULE MCDashboard ----------------------------
(* Settings that are small enough one by one.                              *)
EXTENDS Dashboard

Setting(things, d, f) ==
    [worker |-> "worker" \in things, container |-> "container" \in things,
     peer |-> "peer" \in things, disruptions |-> d, faults |-> f]

SmallSettings ==
    {Setting({"worker", "container"}, 0, 0), Setting({"worker", "peer"}, 0, 0),
     Setting({"worker"}, 1, 1), Setting({"container"}, 1, 1),
     Setting({"container", "peer"}, 1, 0)}
=============================================================================
