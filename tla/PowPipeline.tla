---------------------------- MODULE PowPipeline -----------------------------
(***************************************************************************)
(* From a job of the pool to the submit of its share: the bridge           *)
(* dispatches requests with the job's parameters, the engine (external     *)
(* here, see PowSampler) writes proofs, the sampler's thread hands them to *)
(* the submitter, the writer's thread sends them, and in broker mode the   *)
(* bridge drains them and submits them to the pool.                        *)
(***************************************************************************)
EXTENDS Egress, Bridge

CONSTANTS MaxProofs \* bound: proofs written

VARIABLES todo \* what the sampler's thread has still to hand over

vars == <<egressVars, bridgeVars, todo>>

Init == EgressInit /\ BridgeInit /\ todo = <<>>

(* The end of a window, in process_solution: what is handed over, in this  *)
(* order.  With the proxy on every proof goes out as an audit, and one     *)
(* that is good for nothing else is only written then.                     *)
Handed(class, p) ==
    IF class \in {"audit", "none"} THEN << <<"audit", p>> >>
    ELSE IF egress.proxy THEN << <<"audit", p>>, <<class, p>> >>
    ELSE << <<class, p>> >>

WriteProof(w, class) ==
    /\ requests[w] /= None /\ todo = <<>>
    /\ Len(proofs) < MaxProofs
    /\ class = "none" => egress.proxy
    /\ proofs' = Append(proofs, [job |-> requests[w].job, req |-> requests[w].req,
                                 class |-> class, marked |-> FALSE])
    /\ todo' = Handed(class, Len(proofs) + 1)
    /\ UNCHANGED <<egress, queue, running, thread, holding, wire, proxied, bridgeVars>>

HandOver ==
    /\ todo /= <<>>
    /\ LET p == Head(todo)[2]
       IN  CASE Head(todo)[1] = "audit" -> submit_proof_for_audit(p)
             [] Head(todo)[1] = "solution" -> submit_solution(p)
             [] Head(todo)[1] = "share" -> submit_share(p)
    /\ todo' = Tail(todo)
    /\ UNCHANGED <<egress, running, thread, holding, wire, proxied, bridgeVars>>

(* The PULL socket of the bridge, bound to the port the writer connects to *)
(* in broker mode.                                                         *)
DrainRecv(keep) ==
    /\ egress.mode = "broker" /\ wire /= <<>>
    /\ Recv(Head(wire).proof, keep)
    /\ wire' = Tail(wire)
    /\ UNCHANGED <<egress, proofs, queue, running, thread, holding, proxied, todo>>

(* External: the Core Node takes what it is sent. *)
CoreNodeRecv ==
    /\ egress.mode /= "broker" /\ wire /= <<>>
    /\ wire' = Tail(wire)
    /\ UNCHANGED <<egress, proofs, queue, running, thread, holding, proxied, todo, bridgeVars>>

BridgeOnly(A) == A /\ UNCHANGED <<egressVars, todo>>

WriterOnly(A) == A /\ UNCHANGED <<bridgeVars, todo>>

DrainLookup == drain.st = "lookup" /\ Lookup(proofs[drain.proof].req)

Next ==
    \/ WriterOnly(StopWriter)
    \/ WriterOnly(WriterStep)
    \/ WriterOnly(SendError)
    \/ \E w \in Workers : \E class \in egress.classes :
          WriteProof(w, class)
    \/ HandOver \/ CoreNodeRecv
    \/ \E keep \in BOOLEAN : DrainRecv(keep)
    \/ BridgeOnly(SendOk) \/ BridgeOnly(SendFail)
    \/ BridgeOnly(Connect) \/ BridgeOnly(SupervisorSend) \/ BridgeOnly(ReadEnds)
    \/ BridgeOnly(Broken)
    \/ \E r \in ReqIds, clean \in BOOLEAN : BridgeOnly(on_notify(r, clean))
    \/ BridgeOnly(Ping) \/ BridgeOnly(PoolGone)
    \/ \E w \in Workers : BridgeOnly(Dispatch(w)) \/ BridgeOnly(RequestEnds(w))
    \/ BridgeOnly(DrainLookup) \/ BridgeOnly(DrainSend)

(* Threads that can run do run.  The lock is free again and again, and who *)
(* waits for it gets it in the end.  A write ends, well or by SO_SNDTIMEO. *)
Fairness ==
    /\ WF_vars(WriterOnly(WriterStep))
    /\ WF_vars(HandOver)
    /\ WF_vars(\E keep \in BOOLEAN : DrainRecv(keep))
    /\ SF_vars(BridgeOnly(DrainLookup)) /\ SF_vars(BridgeOnly(DrainSend))
    /\ WF_vars(BridgeOnly(SendOk) \/ BridgeOnly(SendFail))
    /\ SF_vars(BridgeOnly(SupervisorSend))
    /\ WF_vars(BridgeOnly(Connect) \/ BridgeOnly(ReadEnds) \/ BridgeOnly(Broken))

Spec == Init /\ [][Next]_vars

FairSpec == Spec /\ Fairness

-----------------------------------------------------------------------------
(* Properties. *)

(* Only a proof that meets the block target goes to a Core Node, and in    *)
(* broker mode the audit mark is on exactly the proofs of requests that    *)
(* asked for audit: neither channel can be mistaken for the other,         *)
(* although the proof is queued by reference and marked in place.          *)
ChannelsApart ==
    \A k \in 1 .. Len(wire) :
       LET class == proofs[wire[k].proof].class
       IN  IF egress.mode = "broker" THEN wire[k].marked <=> class = "audit"
                                     ELSE class = "solution"

(* A share is submitted under the job it was sampled for or, once that job *)
(* was cleaned out, pruned or replaced under its request id, under a later *)
(* one: never under a job issued before it.  The tick that goes with it is *)
(* that of the label's job or of a later one.                              *)
LabelNotOlder ==
    drain.st = "send" => /\ drain.label >= proofs[drain.proof].job
                         /\ drain.tick >= drain.label

(* A pool that stops reading cannot stall the drain thread. *)
DrainNeverStalls == drain.st /= "idle" ~> drain.st = "idle"

(* After stop() the writer's thread ends, also when the queue was full and *)
(* the sentinel got lost.                                                  *)
StopEnds == ~ running /\ egress.mode = "broker" ~> thread = "done"

(* No thread of the pipeline hangs on another: a pool that stops reading   *)
(* does not stall the drain, and stop() ends the writer.                   *)
PipelineLives == DrainNeverStalls /\ StopEnds
=============================================================================
