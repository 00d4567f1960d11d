------------------------------- MODULE Egress -------------------------------
(***************************************************************************)
(* zmq_pow_writer.py: MiningResponseSubmitter, the bounded queue between   *)
(* the sampler's thread and the writer's thread, and the writer's loop.    *)
(*                                                                         *)
(* A proof is a dictionary that is queued by reference: the mark           *)
(* proof_purpose = audit is written into it before it is queued and read   *)
(* when the writer serializes it.  The FlatBuffers layout is left out; a   *)
(* message is the proof with the mark it had at that moment.               *)
(***************************************************************************)
EXTENDS Integers, Sequences

CONSTANTS
    Environments, \* settings of the process, with the classes of proofs it sees
    QueueMax,     \* max_queue_size
    Hwm           \* messages a socket buffers (SNDHWM)

(* What a finished window is found to be good for. *)
Classes == {"audit", "solution", "share", "none"}

ASSUME EnvironmentsAssumption ==
    \A env \in Environments : env.proxy \in BOOLEAN /\ env.classes \subseteq Classes

VARIABLES
    egress,       \* the settings the writer was constructed with
    proofs,       \* proof dictionaries written so far
    queue,        \* response_queue
    running, thread, holding,
    wire,         \* sent on the primary socket, not yet received
    proxied       \* sent on the proxy socket

egressVars == <<egress, proofs, queue, running, thread, holding, wire, proxied>>

(* The constructor refuses broker mode with dual publishing, and with a    *)
(* primary destination that looks like a Core Node.                        *)
Accepted(env) ==
    /\ env.mode \in {"broker", "local_miner"}
    /\ env.mode = "broker" => ~ env.proxy /\ ~ env.core_host

(* The None that stop() queues, and a writer that holds nothing. *)
Sentinel == [proof |-> 0, proxy_only |-> FALSE]

EgressInit ==
    /\ egress \in {env \in Environments : Accepted(env)}
    /\ proofs = <<>> /\ queue = <<>>
    /\ running = TRUE /\ thread = "check" /\ holding = Sentinel
    /\ wire = <<>> /\ proxied = {}

(* submit_response: False, and the response is gone, when the queue is     *)
(* full.                                                                   *)
submit_response(p, proxy_only) ==
    queue' = IF Len(queue) < QueueMax
             THEN Append(queue, [proof |-> p, proxy_only |-> proxy_only])
             ELSE queue

(* The mark goes into the dictionary even when nothing is sent. *)
submit_proof_for_audit(p) ==
    /\ proofs' = [proofs EXCEPT ![p].marked = TRUE]
    /\ IF egress.mode = "broker" THEN submit_response(p, FALSE)
       ELSE IF egress.proxy THEN submit_response(p, TRUE)
       ELSE UNCHANGED queue

submit_solution(p) == submit_response(p, FALSE) /\ UNCHANGED proofs

(* Mutant: shares are sent in both modes. *)
submit_share_always(p) == submit_response(p, FALSE) /\ UNCHANGED proofs

submit_share(p) ==
    /\ IF egress.mode = "broker" THEN submit_response(p, FALSE) ELSE UNCHANGED queue
    /\ UNCHANGED proofs

(* stop: a sentinel wakes the writer, unless the queue is full. *)
StopWriter ==
    /\ running
    /\ running' = FALSE
    /\ queue' = IF Len(queue) < QueueMax THEN Append(queue, Sentinel) ELSE queue
    /\ UNCHANGED <<egress, proofs, thread, holding, wire, proxied>>

-----------------------------------------------------------------------------
(* _run, the writer's thread. *)

CheckRunning ==
    /\ thread = "check"
    /\ thread' = IF running THEN "get" ELSE "done"
    /\ UNCHANGED <<egress, proofs, queue, running, holding, wire, proxied>>

(* get with a timeout of a second. *)
GetResponse ==
    /\ thread = "get"
    /\ IF queue = <<>>
       THEN thread' = "check" /\ UNCHANGED <<queue, holding>>
       ELSE /\ queue' = Tail(queue)
            /\ IF Head(queue) = Sentinel
               THEN thread' = "done" /\ UNCHANGED holding
               ELSE thread' = "send" /\ holding' = Head(queue)
    /\ UNCHANGED <<egress, proofs, running, wire, proxied>>

Message(item) == [proof |-> item.proof, marked |-> proofs[item.proof].marked]

(* Broker mode has one destination.  Else an audit goes to the proxy alone *)
(* and everything else to the primary, and to the proxy without waiting.   *)
(* A send blocks while the buffer of the socket is full.                   *)
SendResponse ==
    /\ thread = "send"
    /\ IF egress.mode /= "broker" /\ holding.proxy_only
       THEN /\ proxied' = IF egress.proxy THEN proxied \cup {Message(holding)} ELSE proxied
            /\ UNCHANGED wire
       ELSE /\ Len(wire) < Hwm
            /\ wire' = Append(wire, Message(holding))
            /\ proxied' = IF egress.mode /= "broker" /\ egress.proxy
                          THEN proxied \cup {Message(holding)} ELSE proxied
    /\ thread' = "check" /\ holding' = Sentinel
    /\ UNCHANGED <<egress, proofs, queue, running>>

(* A ZMQ error, or a proof that cannot be serialized: counted and dropped. *)
SendError ==
    /\ thread = "send"
    /\ thread' = "check" /\ holding' = Sentinel
    /\ UNCHANGED <<egress, proofs, queue, running, wire, proxied>>

WriterStep == CheckRunning \/ GetResponse \/ SendResponse

=============================================================================
