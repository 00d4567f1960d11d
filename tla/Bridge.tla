------------------------------- MODULE Bridge -------------------------------
(***************************************************************************)
(* vllm-stratum-bridge.py: the supervisor thread with its reader, the      *)
(* drain thread and the dispatch workers, around one lock.                 *)
(*                                                                         *)
(* send() holds the lock for as long as the write takes, so the lock is    *)
(* taken exactly while "sending" is not None; the other critical sections  *)
(* are steps that need it free.  Statistics and logging are left out, and  *)
(* so are the parts of the payload no decision depends on.  The pool is    *)
(* external.                                                               *)
(***************************************************************************)
EXTENDS Integers, Sequences

CONSTANTS
    ReqIds,     \* request ids of the pool's jobs
    Workers,    \* dispatch threads
    TableMax,   \* entries of job_by_req before it is cut (32)
    PruneCount, \* entries that go (16)
    MaxJobs,    \* bound: jobs the pool issues
    MaxConns,   \* bound: connections
    None

ASSUME PruneAssumption == PruneCount \in Nat

(* None is no job. *)
ASSUME NoneAssumption == None \notin [job : Nat, req : ReqIds]

VARIABLES
    job,        \* the current job: its number, in order of issue, and request id
    job_by_req, \* the dict, as a sequence in order of insertion
    conn, link, \* connections made, and what became of each
    wfile,      \* the connection send() writes to, or None
    sup,        \* where the supervisor is
    sending,    \* the write in progress under the lock
    drain,      \* the drain thread: its proof, the job and the tick it is sent with
    requests    \* worker -> the job its request was built from

bridgeVars == <<job, job_by_req, conn, link, wfile, sup,
                sending, drain, requests>>

Idle == [st |-> "idle", proof |-> 0, label |-> None, tick |-> None]

BridgeInit ==
    /\ job = None /\ job_by_req = <<>>
    /\ conn = 0 /\ link = [c \in 1 .. MaxConns |-> "gone"]
    /\ wfile = None /\ sup = "connect" /\ sending = None
    /\ drain = Idle
    /\ requests = [w \in Workers |-> None]

-----------------------------------------------------------------------------
(* send(): the line is dropped when there is no writer; an OSError takes   *)
(* the writer away.                                                        *)

After(who) ==
    IF who = "drain"
    THEN drain' = Idle /\ UNCHANGED sup
    ELSE sup' = "read" /\ UNCHANGED drain

SendBegin(who) ==
    /\ sending = None
    /\ IF wfile = None
       THEN After(who) /\ UNCHANGED sending
       ELSE sending' = [who |-> who, wf |-> wfile] /\ UNCHANGED <<sup, drain>>
    /\ UNCHANGED <<job, job_by_req, conn, link, wfile, requests>>

SendOk ==
    /\ sending /= None
    /\ link[sending.wf] = "up"
    /\ sending' = None
    /\ After(sending.who)
    /\ UNCHANGED <<job, job_by_req, conn, link, wfile, requests>>

(* Mutant: the lock is not released when the write raises. *)
SendFailHeld ==
    /\ sending /= None
    /\ wfile' = None
    /\ UNCHANGED <<job, job_by_req, conn, link, sending, sup, drain, requests>>

(* The peer is gone, or takes nothing for longer than SO_SNDTIMEO. *)
SendFail ==
    /\ sending /= None
    /\ wfile' = None /\ sending' = None
    /\ After(sending.who)
    /\ UNCHANGED <<job, job_by_req, conn, link, requests>>

-----------------------------------------------------------------------------
(* The supervisor. *)

(* connect up to its first send, or an OSError out of it. *)
Connect ==
    /\ sup = "connect"
    /\ \/ /\ conn < MaxConns
          /\ conn' = conn + 1
          /\ link' = [link EXCEPT ![conn + 1] = "up"]
          /\ wfile' = conn + 1
          /\ sup' = "subscribe"
       \/ sup' = "broken" /\ UNCHANGED <<conn, link, wfile>>
    /\ UNCHANGED <<job, job_by_req, sending, drain, requests>>

(* Subscribe and authorize, sent back to back, or a pong. *)
SupervisorSend == sup \in {"subscribe", "pong"} /\ SendBegin("sup")

(* EOF or an error on the read side; keepalive finds a dead peer. *)
ReadEnds ==
    /\ sup = "read" /\ link[conn] = "gone"
    /\ sup' = "broken"
    /\ UNCHANGED <<job, job_by_req, conn, link, wfile, sending,
                   drain, requests>>

(* wfile is cleared without the lock; then a pause, and again. *)
Broken ==
    /\ sup = "broken"
    /\ wfile' = None
    /\ sup' = "connect"
    /\ UNCHANGED <<job, job_by_req, conn, link, sending, drain, requests>>

-----------------------------------------------------------------------------
(* on_message, on the reader's side of the supervisor. *)

Reading == sup = "read" /\ link[conn] = "up"

Has(table, r) == \E k \in 1 .. Len(table) : table[k].req = r

(* A dict keeps the place of a key that is assigned again. *)
Put(table, r, j) ==
    IF Has(table, r)
    THEN [k \in 1 .. Len(table) |->
            IF table[k].req = r THEN [req |-> r, job |-> j] ELSE table[k]]
    ELSE Append(table, [req |-> r, job |-> j])

(* Mutant: the first job of a request id keeps it. *)
PutDefault(table, r, j) ==
    IF Has(table, r) THEN table ELSE Append(table, [req |-> r, job |-> j])

Prune(table) ==
    IF Len(table) > TableMax THEN SubSeq(table, PruneCount + 1, Len(table)) ELSE table

(* Mutant of Remember: a request id is never given to another job. *)
RememberFirst(r, j, clean) == Prune(PutDefault(IF clean THEN <<>> ELSE job_by_req, r, j))

Remember(r, j, clean) == Prune(Put(IF clean THEN <<>> ELSE job_by_req, r, j))

Issued == IF job = None THEN 0 ELSE job.job

(* mining.notify; mining.set_target and mining.set_model only say with     *)
(* which parameters the next job is built.                                 *)
on_notify(r, clean) ==
    /\ Reading /\ sending = None
    /\ Issued < MaxJobs
    /\ job' = [job |-> Issued + 1, req |-> r]
    /\ job_by_req' = Remember(r, Issued + 1, clean)
    /\ UNCHANGED <<conn, link, wfile, sup, sending, drain, requests>>

Ping ==
    /\ Reading
    /\ sup' = "pong"
    /\ UNCHANGED <<job, job_by_req, conn, link, wfile, sending,
                   drain, requests>>

(* External: the pool goes away, with or without closing the connection. *)
PoolGone ==
    /\ conn > 0 /\ link[conn] = "up"
    /\ link' = [link EXCEPT ![conn] = "gone"]
    /\ UNCHANGED <<job, job_by_req, conn, wfile, sup, sending,
                   drain, requests>>

-----------------------------------------------------------------------------
(* dispatch_loop: a request that carries the job's payload. *)

Dispatch(w) ==
    /\ sending = None /\ job /= None
    /\ requests[w] = None
    /\ requests' = [requests EXCEPT ![w] = job]
    /\ UNCHANGED <<job, job_by_req, conn, link, wfile, sup,
                   sending, drain>>

RequestEnds(w) ==
    /\ requests[w] /= None
    /\ requests' = [requests EXCEPT ![w] = None]
    /\ UNCHANGED <<job, job_by_req, conn, link, wfile, sup,
                   sending, drain>>

-----------------------------------------------------------------------------
(* drain_loop and submit_proof. *)

(* A malformed proof, or one below b_floor, goes no further. *)
Recv(p, keep) ==
    /\ drain.st = "idle"
    /\ drain' = IF keep THEN [Idle EXCEPT !.st = "lookup", !.proof = p] ELSE Idle
    /\ UNCHANGED <<job, job_by_req, conn, link, wfile, sup, sending, requests>>

(* The job of the request id, or else the current one. *)
LabelFor(r) ==
    IF Has(job_by_req, r)
    THEN job_by_req[CHOOSE k \in 1 .. Len(job_by_req) : job_by_req[k].req = r].job
    ELSE IF job = None THEN None ELSE job.job

(* The vdf_tick is always that of the current job, whose number stands for *)
(* it; there is one when there is a label.                                 *)
Lookup(r) ==
    /\ drain.st = "lookup" /\ sending = None
    /\ drain' = IF LabelFor(r) = None THEN Idle
                ELSE [drain EXCEPT !.st = "send", !.label = LabelFor(r), !.tick = job.job]
    /\ UNCHANGED <<job, job_by_req, conn, link, wfile, sup,
                   sending, requests>>

DrainSend == drain.st = "send" /\ SendBegin("drain")

=============================================================================
