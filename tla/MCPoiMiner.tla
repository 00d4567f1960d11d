----------------------------- MODULE MCPoiMiner -----------------------------
(* PoiMiner with three jobs: the first two, on two parents, have one       *)
(* request id; the first comes with a VDF but without its tick, the second *)
(* with a tick only.  The third is on the parent of the first.             *)
EXTENDS PoiMiner

JobOf(id, req, parent, vdf, tick) ==
    [id |-> id, req |-> req, parent |-> parent, pool_vdf |-> vdf, pool_tick |-> tick]

MCJobs == {JobOf(1, 0, 1, 2, 0), JobOf(2, 0, 2, 0, 4), JobOf(3, 13, 1, 0, 0)}

=============================================================================
