---------------------------- MODULE MCPowSampler ----------------------------
(* A small instance of PowSampler: two or three rows, windows of two       *)
(* tokens, a mining request with a share target, an audited one without,   *)
(* and a greedy chat request that shares their batches.                    *)
EXTENDS PowSampler

CONSTANTS mine, audit, chat, r0, r1, r2

MCReqs == {mine, audit, chat}
MCPowReqs == {mine, audit}
MCRows == {r0, r1, r2}
MCRowOrder == <<r0, r1, r2>>

(* With two rows three requests take each other's; with three the default  *)
(* path can meet a sequence that ended before two that did not.            *)
MCConfigs ==
    {[fastpath |-> TRUE,  processor |-> "python", proxy |-> FALSE,
      version |-> 3, admission |-> "always", rows |-> 2],
     [fastpath |-> FALSE, processor |-> "cpp",    proxy |-> TRUE,
      version |-> 2, admission |-> "off", rows |-> 2],
     [fastpath |-> FALSE, processor |-> "python", proxy |-> FALSE,
      version |-> 2, admission |-> "off", rows |-> 3]}

(* Defaults of the environment, and a row for each request. *)
MCDefault ==
    {[fastpath |-> FALSE, processor |-> "python", proxy |-> FALSE,
      version |-> 2, admission |-> "off", rows |-> 3]}

=============================================================================
