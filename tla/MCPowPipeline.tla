--------------------------- MODULE MCPowPipeline ----------------------------
(* Broker mode as run-miner.sh sets it up, local mode with and without the *)
(* proxy, and a broker configuration that the constructor refuses.         *)
EXTENDS PowPipeline

Env(mode, proxy, core, classes) ==
    [mode |-> mode, proxy |-> proxy, core_host |-> core, classes |-> classes]

MCEnvironments ==
    {Env("broker", FALSE, FALSE, {"share", "audit"}),
     Env("broker", TRUE, FALSE, {"share"}),
     Env("local_miner", TRUE, TRUE, {"solution", "none"}),
     Env("local_miner", FALSE, TRUE, {"solution", "share"})}

=============================================================================
