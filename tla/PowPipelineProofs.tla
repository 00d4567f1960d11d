-------------------------- MODULE PowPipelineProofs --------------------------
(***************************************************************************)
(* ChannelsApart and LabelNotOlder for every value of the constants: any   *)
(* number of proofs, jobs, workers and connections, any size of the queue  *)
(* and of the job table.                                                   *)
(*                                                                         *)
(* ChannelsApart speaks of messages on the wire.  It is inductive together *)
(* with what the sampler's thread still has to hand over, what is queued   *)
(* and what the writer holds: in broker mode a proof that was handed over  *)
(* is marked if and only if it is an audit, and its mark changes no more.  *)
(*                                                                         *)
(* LabelNotOlder speaks of the drain thread.  It is inductive together     *)
(* with the job table: an entry is never older than a request or a proof   *)
(* of its request id, because the job of a request was entered before the  *)
(* request was made and an entry is only ever replaced by a later one.     *)
(***************************************************************************)
EXTENDS PowPipeline, TLAPS

-----------------------------------------------------------------------------
(* Shapes.                                                                 *)

JobRec == [job : Nat, req : ReqIds]

ProofRec == [job : Nat, req : ReqIds, class : Classes, marked : BOOLEAN]

Call == {"audit", "solution", "share"} \X Nat

Item == [proof : Nat, proxy_only : BOOLEAN]

Msg == [proof : Nat, marked : BOOLEAN]

EgressShape ==
    /\ egress \in Environments /\ Accepted(egress)
    /\ proofs \in Seq(ProofRec)
    /\ queue \in Seq(Item)
    /\ holding \in Item
    /\ wire \in Seq(Msg)
    /\ todo \in Seq(Call)

DrainRec == [st : {"idle", "lookup", "send"}, proof : Nat,
             label : Nat \cup {None}, tick : Nat \cup {None}]

BridgeShape ==
    /\ job \in JobRec \cup {None}
    /\ job_by_req \in Seq(JobRec)
    /\ requests \in [Workers -> JobRec \cup {None}]
    /\ drain \in DrainRec

-----------------------------------------------------------------------------
(* The mark and the channel.                                               *)

Broker == egress.mode = "broker"

Written(p) == p \in 1 .. Len(proofs)

(* A response in the queue or in the writer's hands may be sent: in broker *)
(* mode its mark is final, else it is an audit or meets the target.        *)
MayGo(it) ==
    /\ Written(it.proof)
    /\ IF Broker THEN proofs[it.proof].marked <=> proofs[it.proof].class = "audit"
                 ELSE it.proxy_only \/ proofs[it.proof].class = "solution"

(* A call that the sampler's thread has still to make. *)
MayBeHanded(call) ==
    /\ Written(call[2])
    /\ IF call[1] = "audit" THEN Broker => proofs[call[2]].class = "audit"
                            ELSE proofs[call[2]].class = call[1]

MarksTrue ==
    Broker => \A p \in 1 .. Len(proofs) : proofs[p].marked => proofs[p].class = "audit"

TodoSound == \A k \in 1 .. Len(todo) : MayBeHanded(todo[k])

QueueSound == \A k \in 1 .. Len(queue) : queue[k] = Sentinel \/ MayGo(queue[k])

HoldingSound == thread = "send" => MayGo(holding)

WireWritten == \A k \in 1 .. Len(wire) : Written(wire[k].proof)

ChannelInv ==
    /\ EgressShape
    /\ MarksTrue /\ TodoSound /\ QueueSound /\ HoldingSound
    /\ WireWritten /\ ChannelsApart

-----------------------------------------------------------------------------
(* The label.                                                              *)

(* The job of r was issued, and nothing older is kept for its request id. *)
Kept(r) ==
    /\ r.job <= Issued
    /\ \A k \in 1 .. Len(job_by_req) :
          job_by_req[k].req = r.req => job_by_req[k].job >= r.job

LabelInv ==
    /\ BridgeShape
    /\ \A k \in 1 .. Len(job_by_req) : job_by_req[k].job <= Issued
    /\ job = None => job_by_req = <<>>
    /\ job # None => Kept(job)
    /\ \A w \in Workers : requests[w] # None => Kept(requests[w])
    /\ \A p \in 1 .. Len(proofs) : Kept(proofs[p])
    /\ drain.st # "idle" => Written(drain.proof)
    /\ LabelNotOlder
    /\ drain.st = "send" => drain.label \in Nat /\ drain.tick \in Nat

-----------------------------------------------------------------------------
(* Channels.                                                               *)

(* A step of the bridge touches neither the proofs nor the writer. *)
LEMMA ChannelFrame ==
    ASSUME ChannelInv, UNCHANGED <<egressVars, todo>>
    PROVE  ChannelInv'
  BY DEF ChannelInv, EgressShape, MarksTrue, TodoSound, QueueSound, HoldingSound,
         WireWritten, ChannelsApart, MayGo, MayBeHanded, Broker, Written,
         Accepted, egressVars

(* A message leaves the wire. *)
LEMMA ChannelReceive ==
    ASSUME ChannelInv, wire # <<>>, wire' = Tail(wire),
           UNCHANGED <<egress, proofs, queue, running, thread, holding, todo>>
    PROVE  ChannelInv'
  <1>1. /\ wire' \in Seq(Msg)
        /\ \A k \in 1 .. Len(wire') : k + 1 \in 1 .. Len(wire) /\ wire'[k] = wire[k + 1]
    BY DEF ChannelInv, EgressShape
  <1>2. EgressShape'
    BY <1>1 DEF ChannelInv, EgressShape, Accepted
  <1>3. (MarksTrue /\ TodoSound /\ QueueSound /\ HoldingSound)'
    BY DEF ChannelInv, MarksTrue, TodoSound, QueueSound, HoldingSound,
           MayGo, MayBeHanded, Broker, Written
  <1>4. WireWritten'
    BY <1>1 DEF ChannelInv, WireWritten, Written
  <1>5. ChannelsApart'
    BY <1>1 DEF ChannelInv, ChannelsApart
  <1> QED
    BY <1>2, <1>3, <1>4, <1>5 DEF ChannelInv

(* The writer's thread, and stop(). *)
LEMMA ChannelWriter ==
    ASSUME ChannelInv, UNCHANGED <<bridgeVars, todo>>,
           StopWriter \/ WriterStep \/ SendError
    PROVE  ChannelInv'
  <1>1. CASE StopWriter
    <2>1. Sentinel \in Item
      BY DEF Sentinel, Item
    <2>2. /\ queue' \in Seq(Item)
          /\ \A k \in 1 .. Len(queue') :
                (k \in 1 .. Len(queue) /\ queue'[k] = queue[k]) \/ queue'[k] = Sentinel
      BY <1>1, <2>1 DEF StopWriter, ChannelInv, EgressShape
    <2>3. EgressShape'
      BY <1>1, <2>2 DEF StopWriter, ChannelInv, EgressShape, Accepted
    <2>4. QueueSound'
      BY <1>1, <2>2 DEF StopWriter, ChannelInv, QueueSound, MayGo, Broker, Written, Sentinel
    <2>5. (MarksTrue /\ TodoSound /\ HoldingSound /\ WireWritten /\ ChannelsApart)'
      BY <1>1 DEF StopWriter, ChannelInv, MarksTrue, TodoSound, HoldingSound,
           WireWritten, ChannelsApart, MayGo, MayBeHanded, Broker, Written
    <2> QED
      BY <2>3, <2>4, <2>5 DEF ChannelInv
  <1>2. CASE CheckRunning
    BY <1>2 DEF CheckRunning, ChannelInv, EgressShape, MarksTrue, TodoSound, QueueSound,
           HoldingSound, WireWritten, ChannelsApart, MayGo, MayBeHanded, Broker, Written,
           Accepted
  <1>3. CASE GetResponse
    <2>1. /\ queue' \in Seq(Item)
          /\ \A k \in 1 .. Len(queue') : \E j \in 1 .. Len(queue) : queue'[k] = queue[j]
      <3>1. CASE queue = <<>>
        BY <1>3, <3>1 DEF GetResponse, ChannelInv, EgressShape
      <3>2. CASE queue # <<>>
        <4>1. \A k \in 1 .. Len(queue') : k + 1 \in 1 .. Len(queue) /\ queue'[k] = queue[k + 1]
          BY <1>3, <3>2 DEF GetResponse, ChannelInv, EgressShape
        <4>2. queue' = Tail(queue) /\ queue \in Seq(Item)
          BY <1>3, <3>2 DEF GetResponse, ChannelInv, EgressShape
        <4>3. queue' \in Seq(Item)
          BY <3>2, <4>2
        <4> QED
          BY <4>1, <4>3
      <3> QED
        BY <3>1, <3>2
    <2>2. /\ holding' \in Item
          /\ HoldingSound'
      <3>1. CASE queue = <<>>
        BY <1>3, <3>1 DEF GetResponse, ChannelInv, EgressShape, HoldingSound
      <3>2. CASE queue # <<>>
        <4>1. Head(queue) \in Item /\ Head(queue) = queue[1] /\ 1 \in 1 .. Len(queue)
          BY <3>2 DEF ChannelInv, EgressShape
        <4>2. Head(queue) # Sentinel => MayGo(Head(queue))
          BY <4>1 DEF ChannelInv, QueueSound
        <4> QED
          BY <1>3, <3>2, <4>1, <4>2 DEF GetResponse, ChannelInv, EgressShape, HoldingSound,
               MayGo, Broker, Written
      <3> QED
        BY <3>1, <3>2
    <2>3. QueueSound'
      BY <1>3, <2>1 DEF GetResponse, ChannelInv, QueueSound, MayGo, Broker, Written, Sentinel
    <2>4. EgressShape'
      BY <1>3, <2>1, <2>2 DEF GetResponse, ChannelInv, EgressShape, Accepted
    <2>5. (MarksTrue /\ TodoSound /\ WireWritten /\ ChannelsApart)'
      BY <1>3 DEF GetResponse, ChannelInv, MarksTrue, TodoSound,
           WireWritten, ChannelsApart, MayBeHanded, Broker, Written
    <2> QED
      BY <2>2, <2>3, <2>4, <2>5 DEF ChannelInv
  <1>4. CASE SendResponse
    <2> DEFINE m == Message(holding)
    <2>1. MayGo(holding)
      BY <1>4 DEF SendResponse, ChannelInv, HoldingSound
    <2>2. m \in Msg /\ m.proof = holding.proof /\ m.marked = proofs[holding.proof].marked
      <3>1. holding.proof \in Nat /\ proofs[holding.proof] \in ProofRec
        BY <2>1 DEF ChannelInv, EgressShape, Item, MayGo, Written
      <3>2. proofs[holding.proof].marked \in BOOLEAN
        BY <3>1 DEF ProofRec
      <3> QED
        BY <3>1, <3>2 DEF Message, Msg
    <2>3. \/ wire' = wire
          \/ /\ wire' = Append(wire, m)
             /\ Broker \/ ~ holding.proxy_only
      BY <1>4 DEF SendResponse, Broker
    <2>4. /\ wire' \in Seq(Msg)
          /\ \A k \in 1 .. Len(wire') :
                \/ k \in 1 .. Len(wire) /\ wire'[k] = wire[k]
                \/ wire'[k] = m /\ (Broker \/ ~ holding.proxy_only)
      <3> HIDE DEF m
      <3>1. CASE wire' = wire
        BY <3>1 DEF ChannelInv, EgressShape
      <3>2. CASE wire' = Append(wire, m) /\ (Broker \/ ~ holding.proxy_only)
        <4>1. wire \in Seq(Msg) /\ m \in Msg
          BY <2>2 DEF ChannelInv, EgressShape
        <4> QED
          BY <3>2, <4>1
      <3> QED
        BY <2>3, <3>1, <3>2
    <2>5. WireWritten'
      <3> HIDE DEF m
      <3> QED
        BY <1>4, <2>1, <2>2, <2>4 DEF SendResponse, ChannelInv, WireWritten, Written, MayGo
    <2>6. ChannelsApart'
      <3> HIDE DEF m
      <3> QED
        BY <1>4, <2>1, <2>2, <2>4 DEF SendResponse, ChannelInv, ChannelsApart, MayGo, Broker
    <2>7. EgressShape'
      BY <1>4, <2>4 DEF SendResponse, ChannelInv, EgressShape, Accepted, Sentinel, Item
    <2>8. (MarksTrue /\ TodoSound /\ QueueSound /\ HoldingSound)'
      BY <1>4 DEF SendResponse, ChannelInv, MarksTrue, TodoSound, QueueSound, HoldingSound,
           MayGo, MayBeHanded, Broker, Written
    <2> QED
      BY <2>5, <2>6, <2>7, <2>8 DEF ChannelInv
  <1>5. CASE SendError
    BY <1>5 DEF SendError, ChannelInv, EgressShape, MarksTrue, TodoSound, QueueSound,
           HoldingSound, WireWritten, ChannelsApart, MayGo, MayBeHanded, Broker, Written,
           Accepted, Sentinel, Item
  <1> QED
    BY <1>1, <1>2, <1>3, <1>4, <1>5 DEF WriterStep

(* A mark changes neither the job nor the request id. *)
LEMMA HandKeepsJobs ==
    ASSUME ChannelInv, HandOver
    PROVE  /\ Len(proofs') = Len(proofs)
           /\ \A p \in 1 .. Len(proofs) :
                 proofs'[p].job = proofs[p].job /\ proofs'[p].req = proofs[p].req
  <1>1. proofs \in Seq(ProofRec) /\ todo \in Seq(Call) /\ todo # <<>>
    BY DEF HandOver, ChannelInv, EgressShape
  <1>2. PICK call : call = Head(todo)
    OBVIOUS
  <1>3. call[1] \in {"audit", "solution", "share"}
    BY <1>1, <1>2 DEF Call
  <1>4. proofs' = proofs \/ proofs' = [proofs EXCEPT ![call[2]].marked = TRUE]
    BY <1>2, <1>3 DEF HandOver, submit_proof_for_audit, submit_solution, submit_share
  <1>5. CASE proofs' = [proofs EXCEPT ![call[2]].marked = TRUE]
    <2>1. Len(proofs') = Len(proofs)
      BY <1>1, <1>5
    <2>2. ASSUME NEW p \in 1 .. Len(proofs)
          PROVE  proofs'[p].job = proofs[p].job /\ proofs'[p].req = proofs[p].req
      <3>1. proofs[p] \in ProofRec
        BY <1>1
      <3>2. CASE p = call[2]
        <4> DEFINE r == [proofs[p] EXCEPT !.marked = TRUE]
        <4>1. proofs' = [proofs EXCEPT ![p] = r]
          BY <1>5, <3>2
        <4>2. r.job = proofs[p].job /\ r.req = proofs[p].req
          BY <3>1 DEF ProofRec
        <4> HIDE DEF r
        <4>3. proofs'[p] = r
          BY <1>1, <4>1
        <4> QED
          BY <4>2, <4>3
      <3>3. CASE p # call[2]
        BY <1>1, <1>5, <3>3
      <3> QED
        BY <3>2, <3>3
    <2> QED
      BY <2>1, <2>2
  <1> QED
    BY <1>4, <1>5

(* A window ends, and its proof is written. *)
LEMMA ChannelWrite ==
    ASSUME ChannelInv, LabelInv, NEW w \in Workers, NEW class \in egress.classes,
           WriteProof(w, class)
    PROVE  ChannelInv'
  <1> DEFINE n == Len(proofs) + 1
             new == [job |-> requests[w].job, req |-> requests[w].req,
                     class |-> class, marked |-> FALSE]
  <1>1. new \in ProofRec
    <2>1. class \in Classes
      BY EnvironmentsAssumption DEF ChannelInv, EgressShape
    <2>2. requests[w] \in JobRec
      BY DEF WriteProof, LabelInv, BridgeShape
    <2> QED
      BY <2>1, <2>2 DEF ProofRec, JobRec
  <1>2. new.class = class /\ new.marked = FALSE
    OBVIOUS
  <1>3. proofs \in Seq(ProofRec) /\ proofs' = Append(proofs, new)
    BY DEF WriteProof, ChannelInv, EgressShape
  <1> HIDE DEF new
  <1>4. /\ proofs' \in Seq(ProofRec) /\ Len(proofs') = n /\ n \in Nat
        /\ \A p \in 1 .. Len(proofs) : p \in 1 .. Len(proofs') /\ proofs'[p] = proofs[p]
        /\ proofs'[n] = new
        /\ \A p \in 1 .. Len(proofs') : p \in 1 .. Len(proofs) \/ p = n
        /\ n \in 1 .. Len(proofs')
    BY <1>1, <1>3
  <1> HIDE DEF n
  <1>5. class \in {"audit", "solution", "share", "none"} /\ (Broker => ~ egress.proxy)
    BY EnvironmentsAssumption DEF ChannelInv, EgressShape, Accepted, Broker, Classes
  <1>6. /\ todo' \in Seq(Call)
        /\ \A k \in 1 .. Len(todo') :
              \/ todo'[k] = <<"audit", n>> /\ (Broker => class = "audit")
              \/ todo'[k] = <<class, n>> /\ class # "audit"
    <2>1. CASE class \in {"audit", "none"}
      <3>1. todo' = << <<"audit", n>> >>
        BY <2>1 DEF WriteProof, Handed, n
      <3>2. <<"audit", n>> \in Call
        BY <1>4 DEF Call
      <3>3. Broker => class = "audit"
        BY <1>5, <2>1 DEF WriteProof
      <3> QED
        BY <3>1, <3>2, <3>3
    <2>2. CASE class \in {"solution", "share"} /\ egress.proxy
      <3>1. todo' = << <<"audit", n>>, <<class, n>> >>
        BY <2>2 DEF WriteProof, Handed, n
      <3> QED
        BY <1>4, <1>5, <2>2, <3>1 DEF Call
    <2>3. CASE class \in {"solution", "share"} /\ ~ egress.proxy
      <3>1. todo' = << <<class, n>> >>
        BY <2>3 DEF WriteProof, Handed, n
      <3> QED
        BY <1>4, <1>5, <2>3, <3>1 DEF Call
    <2> QED
      BY <1>5, <2>1, <2>2, <2>3
  <1>7. UNCHANGED <<egress, queue, thread, holding, wire>>
    BY DEF WriteProof
  <1>8. EgressShape'
    BY <1>4, <1>6, <1>7 DEF ChannelInv, EgressShape, Accepted
  <1>9. MarksTrue'
    BY <1>2, <1>4, <1>7 DEF ChannelInv, MarksTrue, Broker
  <1>10. TodoSound'
    <2> SUFFICES ASSUME NEW k \in 1 .. Len(todo')
                 PROVE  MayBeHanded(todo[k])'
      BY DEF TodoSound
    <2>1. CASE todo'[k] = <<"audit", n>> /\ (Broker => class = "audit")
      BY <1>2, <1>4, <1>7, <2>1 DEF MayBeHanded, Written, Broker
    <2>2. CASE todo'[k] = <<class, n>> /\ class # "audit"
      BY <1>2, <1>4, <1>7, <2>2 DEF MayBeHanded, Written, Broker
    <2> QED
      BY <1>6, <2>1, <2>2
  <1>11. \A it : MayGo(it) => MayGo(it)'
    BY <1>4, <1>7 DEF MayGo, Written, Broker
  <1>12. QueueSound' /\ HoldingSound'
    BY <1>7, <1>11 DEF ChannelInv, QueueSound, HoldingSound, Sentinel, MayGo, Written, Broker
  <1>13. WireWritten' /\ ChannelsApart'
    BY <1>4, <1>7 DEF ChannelInv, WireWritten, ChannelsApart, Written
  <1> QED
    BY <1>8, <1>9, <1>10, <1>12, <1>13 DEF ChannelInv

(* The sampler's thread hands a proof over. *)
LEMMA ChannelHand ==
    ASSUME ChannelInv, HandOver
    PROVE  ChannelInv'
  <1>0. PICK call : call = Head(todo)
    OBVIOUS
  <1> DEFINE item(only) == [proof |-> call[2], proxy_only |-> only]
  <1>1. /\ call \in Call /\ MayBeHanded(call)
        /\ todo' \in Seq(Call)
        /\ \A k \in 1 .. Len(todo') : k + 1 \in 1 .. Len(todo) /\ todo'[k] = todo[k + 1]
    <2>1. todo \in Seq(Call) /\ todo # <<>> /\ todo' = Tail(todo)
      BY DEF HandOver, ChannelInv, EgressShape
    <2>2. call = todo[1] /\ 1 \in 1 .. Len(todo) /\ call \in Call
      BY <1>0, <2>1
    <2>3. MayBeHanded(call)
      BY <2>2 DEF ChannelInv, TodoSound
    <2> QED
      BY <2>1, <2>2, <2>3
  <1>2. UNCHANGED <<egress, thread, holding, wire>>
    BY DEF HandOver
  <1>3. /\ call[1] \in {"audit", "solution", "share"} /\ call[2] \in Nat
        /\ call[2] \in 1 .. Len(proofs)
    BY <1>1 DEF Call, MayBeHanded, Written
  <1>4. \/ /\ call[1] = "audit" /\ submit_proof_for_audit(call[2])
        \/ /\ call[1] = "solution" /\ submit_solution(call[2])
        \/ /\ call[1] = "share" /\ submit_share(call[2])
    BY <1>0, <1>3 DEF HandOver
  (* What is written stays, and only an audit is marked. *)
  <1>5. /\ proofs' \in Seq(ProofRec) /\ Len(proofs') = Len(proofs)
        /\ \A p \in 1 .. Len(proofs) :
              /\ proofs'[p].class = proofs[p].class
              /\ \/ proofs'[p].marked = proofs[p].marked
                 \/ call[1] = "audit" /\ p = call[2] /\ proofs'[p].marked = TRUE
        /\ call[1] = "audit" => proofs'[call[2]].marked = TRUE
    <2>1. proofs \in Seq(ProofRec)
      BY DEF ChannelInv, EgressShape
    <2>2. CASE call[1] # "audit"
      BY <1>4, <2>1, <2>2 DEF submit_solution, submit_share
    <2>3. CASE call[1] = "audit"
      <3> DEFINE r == [proofs[call[2]] EXCEPT !.marked = TRUE]
      <3>1. proofs' = [proofs EXCEPT ![call[2]] = r]
        BY <1>4, <2>3 DEF submit_proof_for_audit
      <3>2. r \in ProofRec /\ r.class = proofs[call[2]].class /\ r.marked = TRUE
        <4>1. proofs[call[2]] \in ProofRec
          BY <1>3, <2>1
        <4> QED
          BY <4>1 DEF ProofRec
      <3> HIDE DEF r
      <3>3. proofs' \in Seq(ProofRec) /\ Len(proofs') = Len(proofs)
        BY <1>3, <2>1, <3>1, <3>2
      <3>4. proofs'[call[2]] = r
        BY <1>3, <2>1, <3>1
      <3>5. \A p \in 1 .. Len(proofs) : p # call[2] => proofs'[p] = proofs[p]
        BY <2>1, <3>1
      <3> QED
        BY <2>3, <3>2, <3>3, <3>4, <3>5
    <2> QED
      BY <2>2, <2>3
  <1>6. MarksTrue'
    BY <1>1, <1>2, <1>5 DEF ChannelInv, MarksTrue, MayBeHanded, Broker
  <1>7. TodoSound'
    <2> SUFFICES ASSUME NEW k \in 1 .. Len(todo')
                 PROVE  MayBeHanded(todo[k])'
      BY DEF TodoSound
    <2>1. MayBeHanded(todo[k + 1]) /\ todo'[k] = todo[k + 1]
      BY <1>1 DEF ChannelInv, TodoSound
    <2> QED
      BY <1>2, <1>5, <2>1 DEF MayBeHanded, Written, Broker
  <1>8. \A it : MayGo(it) => MayGo(it)'
    BY <1>1, <1>2, <1>5 DEF MayGo, MayBeHanded, Written, Broker
  (* What is queued may go. *)
  <1>9. \/ queue' = queue
        \/ \E only \in BOOLEAN : queue' = Append(queue, item(only)) /\ MayGo(item(only))'
    <2>1. CASE call[1] = "audit"
      <3>1. CASE Broker
        <4>1. queue' = queue \/ queue' = Append(queue, item(FALSE))
          BY <1>4, <2>1, <3>1 DEF submit_proof_for_audit, submit_response, Broker
        <4>2. MayGo(item(FALSE))'
          BY <1>1, <1>2, <1>3, <1>5, <2>1, <3>1 DEF MayGo, MayBeHanded, Written, Broker
        <4> QED
          BY <4>1, <4>2
      <3>2. CASE ~ Broker
        <4>1. queue' = queue \/ queue' = Append(queue, item(TRUE))
          BY <1>4, <2>1, <3>2 DEF submit_proof_for_audit, submit_response, Broker
        <4>2. MayGo(item(TRUE))'
          BY <1>1, <1>2, <1>3, <1>5, <2>1, <3>2 DEF MayGo, MayBeHanded, Written, Broker
        <4> QED
          BY <4>1, <4>2
      <3> QED
        BY <3>1, <3>2
    <2>2. CASE call[1] # "audit"
      <3>1. \/ queue' = queue
            \/ queue' = Append(queue, item(FALSE)) /\ (Broker \/ call[1] = "solution")
        BY <1>4, <2>2 DEF submit_solution, submit_share, submit_response, Broker
      <3>2. ASSUME Broker \/ call[1] = "solution" PROVE MayGo(item(FALSE))'
        <4>1. proofs[call[2]].class = call[1] /\ (Broker => ~ proofs[call[2]].marked)
          BY <1>1, <1>3, <2>2 DEF MayBeHanded, ChannelInv, MarksTrue, EgressShape, ProofRec
        <4> QED
          BY <1>2, <1>3, <1>5, <2>2, <3>2, <4>1 DEF MayGo, Written, Broker
      <3> QED
        BY <3>1, <3>2
    <2> QED
      BY <2>1, <2>2
  <1>10. /\ queue' \in Seq(Item)
         /\ \A k \in 1 .. Len(queue') :
               (k \in 1 .. Len(queue) /\ queue'[k] = queue[k]) \/ MayGo(queue[k])'
    <2>1. queue \in Seq(Item)
      BY DEF ChannelInv, EgressShape
    <2>2. CASE queue' = queue
      BY <2>1, <2>2
    <2>3. ASSUME NEW only \in BOOLEAN, queue' = Append(queue, item(only)), MayGo(item(only))'
          PROVE  /\ queue' \in Seq(Item)
                 /\ \A k \in 1 .. Len(queue') :
                       (k \in 1 .. Len(queue) /\ queue'[k] = queue[k]) \/ MayGo(queue[k])'
      <3>1. item(only) \in Item
        BY <1>3 DEF Item
      <3> HIDE DEF item
      <3>2. queue' \in Seq(Item) /\ queue' = Append(queue, item(only))
        BY <2>1, <2>3, <3>1
      <3>3. \A k \in 1 .. Len(queue') :
               (k \in 1 .. Len(queue) /\ queue'[k] = queue[k]) \/ queue'[k] = item(only)
        BY <2>1, <3>1, <3>2
      <3> QED
        BY <2>3, <3>2, <3>3 DEF MayGo, Written, Broker
    <2> QED
      BY <1>9, <2>2, <2>3
  <1>11. QueueSound'
    BY <1>8, <1>10 DEF ChannelInv, QueueSound, Sentinel, MayGo, Written, Broker
  <1>12. HoldingSound'
    BY <1>2, <1>8 DEF ChannelInv, HoldingSound, MayGo, Written, Broker
  <1>13. WireWritten' /\ ChannelsApart'
    BY <1>2, <1>5 DEF ChannelInv, WireWritten, ChannelsApart, Written
  <1>14. EgressShape'
    BY <1>1, <1>2, <1>5, <1>10 DEF ChannelInv, EgressShape, Accepted
  <1> QED
    BY <1>6, <1>7, <1>11, <1>12, <1>13, <1>14 DEF ChannelInv

-----------------------------------------------------------------------------
(* Labels.                                                                 *)

(* A step that leaves the bridge alone, and the jobs of the proofs. *)
LEMMA LabelFrame ==
    ASSUME LabelInv, UNCHANGED <<job, job_by_req, requests, drain>>,
           Len(proofs') = Len(proofs),
           \A p \in 1 .. Len(proofs) :
              proofs'[p].job = proofs[p].job /\ proofs'[p].req = proofs[p].req
    PROVE  LabelInv'
  BY DEF LabelInv, BridgeShape, Kept, Issued, Written, LabelNotOlder

(* The drain thread is done with its proof. *)
LEMMA LabelDrained ==
    ASSUME LabelInv, drain' \in {drain, Idle},
           UNCHANGED <<job, job_by_req, requests, proofs>>
    PROVE  LabelInv'
  <1>1. drain' \in DrainRec
    BY DEF LabelInv, BridgeShape, DrainRec, Idle
  <1>2. BridgeShape'
    BY <1>1 DEF LabelInv, BridgeShape
  <1>3. /\ drain'.st # "idle" => Written(drain'.proof)
        /\ LabelNotOlder'
        /\ drain'.st = "send" => drain'.label \in Nat /\ drain'.tick \in Nat
    BY DEF LabelInv, Idle, LabelNotOlder
  <1> QED
    BY <1>2, <1>3 DEF LabelInv, Kept, Issued, Written

(* A proof has the job and the request id of its request. *)
LEMMA LabelWrite ==
    ASSUME ChannelInv, LabelInv, NEW w \in Workers, NEW class, WriteProof(w, class)
    PROVE  LabelInv'
  <1> DEFINE new == [job |-> requests[w].job, req |-> requests[w].req,
                     class |-> class, marked |-> FALSE]
  <1>1. Kept(requests[w])
    BY DEF WriteProof, LabelInv
  <1>2. Kept(new)
    BY <1>1 DEF Kept
  <1>3. proofs' = Append(proofs, new) /\ proofs \in Seq(ProofRec)
    BY DEF WriteProof, ChannelInv, EgressShape
  <1>4. UNCHANGED <<job, job_by_req, requests, drain>>
    BY DEF WriteProof, bridgeVars
  <1> HIDE DEF new
  <1>5. /\ \A p \in 1 .. Len(proofs') :
              \/ p \in 1 .. Len(proofs) /\ proofs'[p] = proofs[p]
              \/ proofs'[p] = new
        /\ \A p \in 1 .. Len(proofs) : p \in 1 .. Len(proofs') /\ proofs'[p] = proofs[p]
    BY <1>3
  <1>6. \A p \in 1 .. Len(proofs') : Kept(proofs[p])'
    BY <1>2, <1>4, <1>5 DEF LabelInv, Kept, Issued
  <1>7. /\ drain'.st # "idle" => Written(drain.proof)'
        /\ LabelNotOlder'
    BY <1>4, <1>5 DEF LabelInv, Written, LabelNotOlder
  <1>8. BridgeShape'
    BY <1>4 DEF LabelInv, BridgeShape
  <1> QED
    BY <1>4, <1>6, <1>7, <1>8 DEF LabelInv, Kept, Issued

(* What mining.notify leaves in the table: older entries of other request  *)
(* ids, and under this one nothing but the new job.                        *)
LEMMA RememberEntries ==
    ASSUME job_by_req \in Seq(JobRec), NEW r \in ReqIds, NEW j \in Nat, NEW clean \in BOOLEAN
    PROVE  /\ Remember(r, j, clean) \in Seq(JobRec)
           /\ \A k \in 1 .. Len(Remember(r, j, clean)) :
                 \/ Remember(r, j, clean)[k] = [req |-> r, job |-> j]
                 \/ /\ Remember(r, j, clean)[k].req # r
                    /\ \E i \in 1 .. Len(job_by_req) : Remember(r, j, clean)[k] = job_by_req[i]
  <1> DEFINE base == IF clean THEN <<>> ELSE job_by_req
             entry == [req |-> r, job |-> j]
             put == Put(base, r, j)
  <1>1. /\ base \in Seq(JobRec)
        /\ \A k \in 1 .. Len(base) : \E i \in 1 .. Len(job_by_req) : base[k] = job_by_req[i]
    OBVIOUS
  <1>2. entry \in JobRec
    BY DEF JobRec
  <1> HIDE DEF base, entry
  <1>3. /\ put \in Seq(JobRec)
        /\ \A k \in 1 .. Len(put) :
              put[k] = entry \/ (put[k].req # r /\ \E i \in 1 .. Len(base) : put[k] = base[i])
    <2>1. CASE Has(base, r)
      <3>1. put = [k \in 1 .. Len(base) |-> IF base[k].req = r THEN entry ELSE base[k]]
        BY <2>1 DEF Put, entry
      <3>2. \A k \in 1 .. Len(base) : base[k] \in JobRec
        BY <1>1
      <3>3. put \in Seq(JobRec) /\ Len(put) = Len(base)
        BY <1>1, <1>2, <3>1, <3>2
      <3> HIDE DEF put
      <3> QED
        BY <3>1, <3>3
    <2>2. CASE ~ Has(base, r)
      <3>1. put = Append(base, entry)
        BY <2>2 DEF Put, entry
      <3>2. \A k \in 1 .. Len(base) : base[k].req # r
        BY <2>2 DEF Has
      <3> HIDE DEF put
      <3> QED
        BY <1>1, <1>2, <3>1, <3>2
    <2> QED
      BY <2>1, <2>2
  <1> HIDE DEF put
  <1>4. /\ Prune(put) \in Seq(JobRec)
        /\ \A k \in 1 .. Len(Prune(put)) : \E i \in 1 .. Len(put) : Prune(put)[k] = put[i]
    <2>1. CASE Len(put) > TableMax
      <3>1. Prune(put) = SubSeq(put, PruneCount + 1, Len(put))
        BY <2>1 DEF Prune
      <3>2. /\ SubSeq(put, PruneCount + 1, Len(put)) \in Seq(JobRec)
            /\ \A k \in 1 .. Len(SubSeq(put, PruneCount + 1, Len(put))) :
                  /\ k + PruneCount \in 1 .. Len(put)
                  /\ SubSeq(put, PruneCount + 1, Len(put))[k] = put[k + PruneCount]
        BY <1>3, PruneAssumption
      <3> QED
        BY <3>1, <3>2
    <2>2. CASE ~ (Len(put) > TableMax)
      BY <1>3, <2>2 DEF Prune
    <2> QED
      BY <2>1, <2>2
  <1>5. Remember(r, j, clean) = Prune(put)
    BY DEF Remember, base, put
  <1>6. ASSUME NEW k \in 1 .. Len(Prune(put))
        PROVE  \/ Prune(put)[k] = entry
               \/ /\ Prune(put)[k].req # r
                  /\ \E i \in 1 .. Len(job_by_req) : Prune(put)[k] = job_by_req[i]
    BY <1>1, <1>3, <1>4
  <1> QED
    BY <1>4, <1>5, <1>6 DEF entry

(* mining.notify. *)
LEMMA LabelNotify ==
    ASSUME ChannelInv, LabelInv, NEW r \in ReqIds, NEW clean \in BOOLEAN,
           on_notify(r, clean), UNCHANGED proofs
    PROVE  LabelInv'
  <1>1. Issued \in Nat
    BY DEF LabelInv, BridgeShape, JobRec, Issued
  <1>2. /\ job' = [job |-> Issued + 1, req |-> r] /\ job' \in JobRec /\ job' # None
        /\ Issued' = Issued + 1
    BY <1>1, NoneAssumption DEF on_notify, JobRec, Issued
  <1>3. job_by_req' = Remember(r, Issued + 1, clean) /\ UNCHANGED <<requests, drain>>
    BY DEF on_notify
  <1>4. /\ job_by_req' \in Seq(JobRec)
        /\ \A k \in 1 .. Len(job_by_req') :
              \/ job_by_req'[k] = [req |-> r, job |-> Issued + 1]
              \/ /\ job_by_req'[k].req # r
                 /\ \E i \in 1 .. Len(job_by_req) : job_by_req'[k] = job_by_req[i]
    <2>1. job_by_req \in Seq(JobRec) /\ Issued + 1 \in Nat
      BY <1>1 DEF LabelInv, BridgeShape
    <2> QED
      BY <1>3, <2>1, RememberEntries
  <1>5. \A i \in 1 .. Len(job_by_req) : job_by_req[i] \in JobRec /\ job_by_req[i].job <= Issued
    BY DEF LabelInv, BridgeShape
  <1>6. \A k \in 1 .. Len(job_by_req') : job_by_req'[k].job <= Issued'
    <2> SUFFICES ASSUME NEW k \in 1 .. Len(job_by_req')
                 PROVE  job_by_req'[k].job <= Issued + 1
      BY <1>2
    <2>1. CASE job_by_req'[k] = [req |-> r, job |-> Issued + 1]
      BY <1>1, <2>1
    <2>2. ASSUME NEW i \in 1 .. Len(job_by_req), job_by_req'[k] = job_by_req[i]
          PROVE  job_by_req'[k].job <= Issued + 1
      <3>1. job_by_req[i].job \in Nat /\ job_by_req[i].job <= Issued
        BY <1>5 DEF JobRec
      <3> QED
        BY <1>1, <2>2, <3>1
    <2> QED
      BY <1>4, <2>1, <2>2
  <1>7. \A x : x.job \in Nat /\ Kept(x) => Kept(x)'
    BY <1>1, <1>2, <1>4 DEF Kept
  <1>8. Kept(job)'
    BY <1>1, <1>2, <1>4 DEF Kept
  <1>9. \A w \in Workers : requests'[w] # None => Kept(requests[w])'
    <2> SUFFICES ASSUME NEW w \in Workers, requests'[w] # None
                 PROVE  Kept(requests[w])'
      OBVIOUS
    <2>1. requests'[w] = requests[w] /\ requests[w].job \in Nat /\ Kept(requests[w])
      BY <1>3 DEF LabelInv, BridgeShape, JobRec
    <2> QED
      BY <1>7, <2>1 DEF Kept
  <1>10. \A p \in 1 .. Len(proofs') : Kept(proofs[p])'
    <2> SUFFICES ASSUME NEW p \in 1 .. Len(proofs')
                 PROVE  Kept(proofs[p])'
      OBVIOUS
    <2>1. proofs'[p] = proofs[p] /\ Kept(proofs[p]) /\ proofs[p] \in ProofRec
      BY DEF ChannelInv, EgressShape, LabelInv
    <2>2. proofs[p].job \in Nat
      BY <2>1 DEF ProofRec
    <2> QED
      BY <1>7, <2>1, <2>2 DEF Kept
  <1>11. BridgeShape'
    BY <1>2, <1>3, <1>4 DEF LabelInv, BridgeShape
  <1>12. /\ drain'.st # "idle" => Written(drain.proof)'
         /\ LabelNotOlder'
         /\ drain'.st = "send" => drain'.label \in Nat /\ drain'.tick \in Nat
    BY <1>3 DEF LabelInv, Written, LabelNotOlder
  <1> QED
    BY <1>2, <1>6, <1>8, <1>9, <1>10, <1>11, <1>12 DEF LabelInv

(* The dispatch workers. *)
LEMMA LabelRequests ==
    ASSUME ChannelInv, LabelInv, NEW w \in Workers, Dispatch(w) \/ RequestEnds(w), UNCHANGED proofs
    PROVE  LabelInv'
  <1>1. UNCHANGED <<job, job_by_req, drain>>
    BY DEF Dispatch, RequestEnds
  <1>2. \E x \in {job, None} : requests' = [requests EXCEPT ![w] = x]
    BY DEF Dispatch, RequestEnds
  <1>3. /\ requests' \in [Workers -> JobRec \cup {None}]
        /\ \A v \in Workers : requests'[v] \in {requests[v], job, None}
    BY <1>2 DEF LabelInv, BridgeShape
  <1>4. \A v \in Workers : requests'[v] # None => Kept(requests'[v])
    BY <1>3 DEF LabelInv
  <1>5. BridgeShape'
    BY <1>1, <1>3 DEF LabelInv, BridgeShape
  <1> QED
    BY <1>1, <1>4, <1>5 DEF LabelInv, Kept, Issued, Written, LabelNotOlder

(* The drain thread takes a proof from the wire. *)
LEMMA LabelReceive ==
    ASSUME ChannelInv, LabelInv, NEW keep \in BOOLEAN, DrainRecv(keep)
    PROVE  LabelInv'
  <1>1. UNCHANGED <<job, job_by_req, requests, proofs>>
    BY DEF DrainRecv, Recv
  <1>2. CASE ~ keep
    BY <1>1, <1>2, LabelDrained DEF DrainRecv, Recv
  <1>3. CASE keep
    <2> DEFINE p == Head(wire).proof
    <2>1. p \in 1 .. Len(proofs)
      <3>1. Head(wire) = wire[1] /\ 1 \in 1 .. Len(wire)
        BY DEF DrainRecv, ChannelInv, EgressShape
      <3> QED
        BY <3>1 DEF ChannelInv, WireWritten, Written
    <2>2. drain' = [st |-> "lookup", proof |-> p, label |-> None, tick |-> None]
      BY <1>3 DEF DrainRecv, Recv, Idle
    <2> HIDE DEF p
    <2>3. drain' \in DrainRec
      <3>1. p \in Nat
        BY <2>1
      <3> QED
        BY <2>2, <3>1 DEF DrainRec
    <2>4. BridgeShape'
      BY <1>1, <2>3 DEF LabelInv, BridgeShape
    <2>5. drain'.st = "lookup" /\ drain'.proof = p
      BY <2>2
    <2>6. /\ Written(drain.proof)'
          /\ LabelNotOlder'
      BY <1>1, <2>1, <2>5 DEF Written, LabelNotOlder
    <2> QED
      BY <1>1, <2>4, <2>5, <2>6 DEF LabelInv, Kept, Issued
  <1> QED
    BY <1>2, <1>3

(* The drain thread finds the job of its proof. *)
LEMMA LabelLookup ==
    ASSUME ChannelInv, LabelInv, DrainLookup, UNCHANGED proofs
    PROVE  LabelInv'
  <1> DEFINE proof == proofs[drain.proof]
             found == LabelFor(proof.req)
  <1>1. UNCHANGED <<job, job_by_req, requests, proofs>>
    BY DEF DrainLookup, Lookup
  <1>2. CASE found = None
    BY <1>1, <1>2, LabelDrained DEF DrainLookup, Lookup
  <1>3. CASE found # None
    <2>1. drain.proof \in 1 .. Len(proofs)
      BY DEF DrainLookup, LabelInv, Written
    <2>2. Kept(proof) /\ proof.job \in Nat /\ Issued \in Nat
      <3>1. proof \in ProofRec
        BY <2>1 DEF ChannelInv, EgressShape
      <3> QED
        BY <2>1, <3>1 DEF LabelInv, ProofRec, BridgeShape, JobRec, Issued
    <2>3. /\ found \in Nat /\ found >= proof.job
          /\ job # None /\ job.job = Issued /\ found <= Issued
      <3>1. CASE Has(job_by_req, proof.req)
        <4> DEFINE k == CHOOSE k \in 1 .. Len(job_by_req) : job_by_req[k].req = proof.req
        <4>1. k \in 1 .. Len(job_by_req) /\ job_by_req[k].req = proof.req
          BY <3>1 DEF Has
        <4>2. found = job_by_req[k].job
          BY <3>1 DEF LabelFor
        <4> HIDE DEF k
        <4>3. job_by_req[k] \in JobRec
          BY <4>1 DEF LabelInv, BridgeShape
        <4>4. job_by_req[k].job \in Nat
          BY <4>3 DEF JobRec
        <4>5. job # None
          BY <4>1 DEF LabelInv
        <4>6. found <= Issued /\ job.job = Issued
          BY <4>1, <4>2, <4>5 DEF LabelInv, Issued
        <4> QED
          BY <2>2, <4>1, <4>2, <4>4, <4>5, <4>6 DEF Kept
      <3>2. CASE ~ Has(job_by_req, proof.req)
        <4>1. found = Issued /\ job # None /\ job.job = Issued
          BY <1>3, <3>2 DEF LabelFor, Issued
        <4> QED
          BY <2>2, <4>1 DEF Kept
      <3> QED
        BY <3>1, <3>2
    <2>4. drain' = [drain EXCEPT !.st = "send", !.label = found, !.tick = Issued]
      BY <1>3, <2>3 DEF DrainLookup, Lookup
    <2> HIDE DEF found
    <2>5. /\ drain' \in DrainRec
          /\ drain'.proof = drain.proof /\ drain'.label = found /\ drain'.tick = Issued
      BY <2>2, <2>3, <2>4 DEF LabelInv, BridgeShape, DrainRec
    <2>6. BridgeShape'
      BY <1>1, <2>5 DEF LabelInv, BridgeShape
    <2>7. /\ Written(drain.proof)' /\ LabelNotOlder'
          /\ drain'.label \in Nat /\ drain'.tick \in Nat
      BY <1>1, <2>1, <2>2, <2>3, <2>5 DEF Written, LabelNotOlder
    <2> QED
      BY <1>1, <2>6, <2>7 DEF LabelInv, Kept, Issued
  <1> QED
    BY <1>2, <1>3

-----------------------------------------------------------------------------
(* Both together.                                                          *)

IInv == ChannelInv /\ LabelInv

LEMMA InitIInv == Init => IInv
  <1> SUFFICES ASSUME Init PROVE IInv
    OBVIOUS
  <1>1. EgressShape
    BY DEF Init, EgressInit, EgressShape, Sentinel, Item
  <1>2. ChannelInv
    BY <1>1 DEF Init, EgressInit, ChannelInv, MarksTrue, TodoSound, QueueSound,
           HoldingSound, WireWritten, ChannelsApart
  <1>3. BridgeShape
    BY DEF Init, BridgeInit, BridgeShape, DrainRec, Idle
  <1>4. LabelInv
    BY <1>3 DEF Init, EgressInit, BridgeInit, LabelInv, Idle, LabelNotOlder
  <1> QED
    BY <1>2, <1>4 DEF IInv

(* One step per action of the writer, of the sampler's thread and of the   *)
(* bridge.                                                                 *)
LEMMA StepIInv == IInv /\ [Next]_vars => IInv'
  <1> SUFFICES ASSUME ChannelInv, LabelInv, [Next]_vars
               PROVE  ChannelInv' /\ LabelInv'
    BY DEF IInv
  <1>1. CASE WriterOnly(StopWriter) \/ WriterOnly(WriterStep) \/ WriterOnly(SendError)
    <2>1. UNCHANGED <<bridgeVars, todo>> /\ (StopWriter \/ WriterStep \/ SendError)
      BY <1>1 DEF WriterOnly
    <2>2. UNCHANGED <<job, job_by_req, requests, drain, proofs>>
      BY <2>1 DEF bridgeVars, StopWriter, WriterStep, CheckRunning, GetResponse,
             SendResponse, SendError
    <2> QED
      BY <2>1, <2>2, ChannelWriter, LabelFrame
  <1>2. ASSUME NEW w \in Workers, NEW class \in egress.classes, WriteProof(w, class)
        PROVE  ChannelInv' /\ LabelInv'
    BY <1>2, ChannelWrite, LabelWrite
  <1>3. CASE HandOver
    <2>1. UNCHANGED <<job, job_by_req, requests, drain>>
      BY <1>3 DEF HandOver, bridgeVars
    <2>2. /\ Len(proofs') = Len(proofs)
          /\ \A p \in 1 .. Len(proofs) :
                proofs'[p].job = proofs[p].job /\ proofs'[p].req = proofs[p].req
      BY <1>3, HandKeepsJobs
    <2> QED
      BY <1>3, <2>1, <2>2, ChannelHand, LabelFrame
  <1>4. CASE CoreNodeRecv
    <2>1. UNCHANGED <<job, job_by_req, requests, drain, proofs>>
      BY <1>4 DEF CoreNodeRecv, bridgeVars
    <2> QED
      BY <1>4, <2>1, ChannelReceive, LabelFrame DEF CoreNodeRecv
  <1>5. ASSUME NEW keep \in BOOLEAN, DrainRecv(keep)
        PROVE  ChannelInv' /\ LabelInv'
    BY <1>5, ChannelReceive, LabelReceive DEF DrainRecv
  <1>6. ASSUME UNCHANGED <<egressVars, todo>>
        PROVE  ChannelInv' /\ UNCHANGED proofs
    BY <1>6, ChannelFrame DEF egressVars
  <1>7. CASE \/ BridgeOnly(SendOk) \/ BridgeOnly(SendFail)
             \/ BridgeOnly(Connect) \/ BridgeOnly(SupervisorSend) \/ BridgeOnly(ReadEnds)
             \/ BridgeOnly(Broken) \/ BridgeOnly(Ping) \/ BridgeOnly(PoolGone)
             \/ BridgeOnly(DrainSend)
    <2>1. UNCHANGED <<egressVars, todo>>
      BY <1>7 DEF BridgeOnly
    <2>2. drain' \in {drain, Idle} /\ UNCHANGED <<job, job_by_req, requests>>
      BY <1>7 DEF BridgeOnly, SendOk, SendFail, Connect, SupervisorSend, ReadEnds, Broken,
             Ping, PoolGone, DrainSend, SendBegin, After
    <2> QED
      BY <1>6, <2>1, <2>2, LabelDrained
  <1>8. ASSUME NEW r \in ReqIds, NEW clean \in BOOLEAN, BridgeOnly(on_notify(r, clean))
        PROVE  ChannelInv' /\ LabelInv'
    BY <1>6, <1>8, LabelNotify DEF BridgeOnly
  <1>9. ASSUME NEW w \in Workers, BridgeOnly(Dispatch(w)) \/ BridgeOnly(RequestEnds(w))
        PROVE  ChannelInv' /\ LabelInv'
    BY <1>6, <1>9, LabelRequests DEF BridgeOnly
  <1>10. CASE BridgeOnly(DrainLookup)
    BY <1>6, <1>10, LabelLookup DEF BridgeOnly
  <1>11. CASE UNCHANGED vars
    <2>1. UNCHANGED <<egressVars, todo>> /\ UNCHANGED <<job, job_by_req, requests, drain>>
      BY <1>11 DEF vars, bridgeVars
    <2> QED
      BY <1>6, <2>1, LabelDrained
  <1> QED
    BY <1>1, <1>2, <1>3, <1>4, <1>5, <1>7, <1>8, <1>9, <1>10, <1>11 DEF Next

(* The strengthened invariant holds in every reachable state, whatever the *)
(* sizes of the queue and the table and however many threads there are.    *)
THEOREM PipelineInvariance == Spec => []IInv
  BY InitIInv, StepIInv, PTL DEF Spec

(* Submission channels (zmq_pow_writer.py): whatever the interleaving of   *)
(* the sampler's thread, the writer's thread and stop(), only a proof that *)
(* meets the target goes to a Core Node, and in broker mode the mark on    *)
(* the wire says truly which proofs are audits.                            *)
THEOREM ChannelsApartHolds == Spec => []ChannelsApart
  <1>1. IInv => ChannelsApart
    BY DEF IInv, ChannelInv
  <1> QED
    BY <1>1, PipelineInvariance, PTL

(* Labels of the bridge (vllm-stratum-bridge.py): however jobs are         *)
(* replaced, cleaned out and pruned while their proofs are under way, no   *)
(* share is submitted under a job that is older than the one it was        *)
(* sampled for.                                                            *)
THEOREM LabelNotOlderHolds == Spec => []LabelNotOlder
  <1>1. IInv => LabelNotOlder
    BY DEF IInv, LabelInv
  <1> QED
    BY <1>1, PipelineInvariance, PTL

=============================================================================
