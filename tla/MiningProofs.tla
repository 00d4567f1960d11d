---------------------------- MODULE MiningProofs ----------------------------
(***************************************************************************)
(* The threads of the mining process, proved for any number of workers and *)
(* submitters, any jobs and any precheck mode.                             *)
(*                                                                         *)
(* Control says who may still be at work at each point of the shutdown.    *)
(* Books says that a share is in exactly one place: in a worker's hand, in *)
(* the queue, with a submitter or decided; the counters are the sizes of   *)
(* those sets.  The prompt counter needs an invariant of its own           *)
(* (Periods): no draw is of a later period, and a worker that began its    *)
(* batch in this one holds the counter's seed.                             *)
(*                                                                         *)
(* The pre-submit check, which the submitters make, is proved for every    *)
(* gate list, every height and every setting of the thresholds.  The mask  *)
(* needs one fact about the part of the list that has been read            *)
(* (ReadSoFar).  The verdict needs that the gates already passed were not  *)
(* against the proof (PassedSoFar), which holds because the result of the  *)
(* sunset rules is computed once and kept for the second gate.             *)
(***************************************************************************)
EXTENDS Mining, Precheck, FiniteSetTheorems, TLAPS

-----------------------------------------------------------------------------
(* Types.                                                                  *)

WorkerPcs == {"look", "seed", "derive", "generate", "hand", "notify", "done"}

JobTypes == rig \in Rigs /\ cur_job \in rig.jobs \cup {NoJob} /\ g_stop \in BOOLEAN
WorkerTypes ==
    /\ wpc \in [Workers -> WorkerPcs]
    /\ wj \in [Workers -> Jobs \cup {NoJob}] /\ installed \in [Workers -> Nat]
    /\ double_ok \in [Workers -> BOOLEAN] /\ prompts \in [Workers -> 0 .. 2 * NStreams]
    /\ hand \in [Workers -> Seq(1 .. MaxFound)]
    /\ failed \subseteq Workers /\ consecutive_failures \in 0 .. MaxFails
Draws == [seed : Nat, n : Nat, period : Nat, late : BOOLEAN]
CanaryTypes == /\ canary_seed \in Nat /\ canary_w \in Nat
               /\ period \in Nat /\ begun \subseteq Workers
               /\ used \subseteq Draws /\ reused \in BOOLEAN
QueueTypes == /\ submit_q \in Seq(1 .. MaxFound) /\ producers_done \in BOOLEAN
              /\ asleep \subseteq Submitters
SubmitTypes ==
    /\ spc \in [Submitters -> {"check", "precheck", "submit", "done"}]
    /\ sh \in [Submitters -> 0 .. MaxFound]
    /\ g_pc \in [Counters -> Nat] /\ shares \in Nat /\ decided \subseteq 1 .. MaxFound
MainTypes == /\ main \in {"run", "flag", "notify", "join", "ack", "closed"}
             /\ attempts \in 0 .. MaxAttempts /\ exited \in BOOLEAN
FoundType == found \in 0 .. MaxFound

\* A worker that derives prompts has one to derive.
Deriving == \A w \in Workers : wpc[w] = "derive" => prompts[w] >= 1

\* A submitter holds a share from the queue until it is decided.
Holding == \A j \in Submitters : sh[j] /= 0 <=> spc[j] \in {"precheck", "submit"}

Types == /\ JobTypes /\ WorkerTypes /\ CanaryTypes /\ QueueTypes /\ SubmitTypes /\ MainTypes
         /\ FoundType /\ Deriving /\ Holding

LEMMA TypesGiveTypeOK == Types => TypeOK
BY DEF Types, JobTypes, WorkerTypes, CanaryTypes, QueueTypes, SubmitTypes, MainTypes, FoundType,
       WorkerPcs, Draws, TypeOK

LEMMA JobFields ==
    ASSUME NEW n \in Jobs \cup {NoJob}
    PROVE  n.id \in Nat /\ n.seed \in Nat
BY MiningAssumption DEF NoJob

LEMMA RigJobs ==
    ASSUME JobTypes
    PROVE  cur_job \in Jobs \cup {NoJob} /\ rig.found \in 0 .. MaxFound /\ rig.double \in BOOLEAN
<1>1. rig \in Rigs /\ cur_job \in rig.jobs \cup {NoJob}
  BY DEF JobTypes
<1>2. rig.jobs \subseteq Jobs
  BY <1>1 DEF Jobs
<1> QED BY <1>1, <1>2, MiningAssumption

(* What an action leaves alone keeps its type.                             *)
LEMMA Kept ==
    ASSUME Types
    PROVE  /\ UNCHANGED job_vars => JobTypes'
           /\ UNCHANGED worker_vars => WorkerTypes' /\ Deriving'
           /\ UNCHANGED canary_vars => CanaryTypes'
           /\ UNCHANGED queue_vars => QueueTypes'
           /\ UNCHANGED submit_vars => SubmitTypes' /\ Holding'
           /\ UNCHANGED main_vars => MainTypes'
           /\ UNCHANGED found => FoundType'
<1>1. UNCHANGED job_vars => JobTypes'
  BY DEF Types, JobTypes, job_vars
<1>2. UNCHANGED worker_vars => WorkerTypes' /\ Deriving'
  BY DEF Types, WorkerTypes, Deriving, worker_vars
<1>3. UNCHANGED canary_vars => CanaryTypes'
  BY DEF Types, CanaryTypes, canary_vars
<1>4. UNCHANGED queue_vars => QueueTypes'
  BY DEF Types, QueueTypes, queue_vars
<1>5. UNCHANGED submit_vars => SubmitTypes' /\ Holding'
  BY DEF Types, SubmitTypes, Holding, submit_vars
<1>6. UNCHANGED main_vars => MainTypes'
  BY DEF Types, MainTypes, main_vars
<1>7. UNCHANGED found => FoundType'
  BY DEF Types, FoundType
<1> QED BY <1>1, <1>2, <1>3, <1>4, <1>5, <1>6, <1>7

LEMMA WorkerStepTypes ==
    ASSUME Types, NEW w \in Workers, WorkerStep(w)
    PROVE  Types'
<1> USE DEF Types
<1>0. WorkerTypes /\ Deriving /\ JobTypes /\ CanaryTypes
  OBVIOUS
<1>t. wpc[w] \in WorkerPcs /\ prompts[w] \in 0 .. 2 * NStreams /\ NStreams \in Nat \ {0}
      /\ wj[w] \in Jobs \cup {NoJob}
  BY <1>0, MiningAssumption DEF WorkerTypes
\* A worker goes on to p and nothing else of it changes.
<1>1. ASSUME NEW p \in WorkerPcs \ {"derive"}, wpc' = [wpc EXCEPT ![w] = p],
             UNCHANGED <<prompts, hand, failed>>,
             wj' \in [Workers -> Jobs \cup {NoJob}], installed' \in [Workers -> Nat],
             double_ok' \in [Workers -> BOOLEAN], consecutive_failures' \in 0 .. MaxFails
      PROVE  WorkerTypes' /\ Deriving'
  <2>1. WorkerTypes'
    BY <1>1 DEF WorkerTypes
  <2>2. Deriving'
    BY <1>1 DEF WorkerTypes, Deriving
  <2> QED BY <2>1, <2>2
<1>2. CASE WorkerStops(w)
  BY <1>1, <1>2, Kept DEF WorkerStops, Goto, WorkerTypes, WorkerPcs, job_vars
<1>3. CASE Look(w)
  <2>0. cur_job \in Jobs \cup {NoJob} /\ cur_job.id \in Nat
    BY <1>0, RigJobs, JobFields
  <2>1. wj' \in [Workers -> Jobs \cup {NoJob}]
    BY <1>3, <2>0 DEF Look, WorkerTypes
  <2>2. wpc' = [wpc EXCEPT ![w] = "seed"] \/ wpc' = [wpc EXCEPT ![w] = "look"]
    <3>1. wpc = [wpc EXCEPT ![w] = wpc[w]] /\ wpc[w] = "look"
      BY <1>3 DEF Look, At, WorkerTypes
    <3> QED BY <1>3, <3>1 DEF Look, Goto
  <2>3. installed' \in [Workers -> Nat]
    BY <1>3, <2>0 DEF Look, WorkerTypes
  <2>4. UNCHANGED <<prompts, hand, failed, double_ok, consecutive_failures>>
    BY <1>3 DEF Look
  <2>5. WorkerTypes' /\ Deriving'
    BY <1>0, <1>1, <2>1, <2>2, <2>3, <2>4 DEF WorkerTypes, WorkerPcs
  <2> QED BY <1>3, <2>5, Kept DEF Look
<1>4. CASE WrongModel(w)
  <2>1. JobTypes'
    BY <1>4 DEF WrongModel, JobTypes
  <2> QED BY <1>1, <1>4, <2>1, Kept DEF WrongModel, Goto, WorkerTypes, WorkerPcs
<1>6. CASE Seed(w)
  <2>1. CASE wj[w].seed = 0
    BY <1>1, <1>6, <2>1, Kept DEF Seed, Goto, WorkerTypes, WorkerPcs, canary_vars
  <2>2. CASE wj[w].seed /= 0
    <3>1. PICK i \in 1 .. 2 * NStreams : prompts' = [prompts EXCEPT ![w] = i]
      BY <1>6, <1>t, <2>2 DEF Seed
    <3>2. wpc' = [wpc EXCEPT ![w] = "derive"]
      BY <1>6, <2>2 DEF Seed, Goto
    <3>3. WorkerTypes'
      BY <1>6, <3>1, <3>2 DEF Seed, WorkerTypes, WorkerPcs
    <3>4. Deriving'
      <4>1. prompts'[w] >= 1 /\ \A x \in Workers \ {w} : prompts'[x] = prompts[x] /\ wpc'[x] = wpc[x]
        BY <3>1, <3>2 DEF WorkerTypes
      <4> QED BY <4>1 DEF Deriving
    <3>5. CanaryTypes'
      <4>1. wj[w].seed \in Nat
        BY <1>t, JobFields
      <4>2. canary_seed' \in Nat /\ canary_w' \in Nat
        BY <1>6, <2>2, <4>1 DEF Seed, CanaryTypes
      <4>3. period' \in Nat /\ begun' \subseteq Workers
        BY <1>6, <2>2 DEF Seed, CanaryTypes
      <4> QED BY <1>6, <4>2, <4>3 DEF Seed, CanaryTypes
    <3> QED BY <1>6, <3>3, <3>4, <3>5, Kept DEF Seed
  <2> QED BY <2>1, <2>2
<1>7. CASE Derive(w)
  <2>0. prompts[w] >= 1
    BY <1>7 DEF Derive, At, Deriving
  <2>1. /\ prompts' = [prompts EXCEPT ![w] = prompts[w] - 1]
        /\ wpc' = IF prompts[w] = 1 THEN [wpc EXCEPT ![w] = "generate"] ELSE wpc
    BY <1>7 DEF Derive, Goto, LastPrompt, WorkerTypes
  <2>2. prompts[w] - 1 \in 0 .. 2 * NStreams
    BY <1>t, <2>0
  <2>3. WorkerTypes'
    BY <1>7, <2>1, <2>2 DEF Derive, WorkerTypes, WorkerPcs
  <2>4. Deriving'
    <3>1. \A x \in Workers \ {w} : prompts'[x] = prompts[x] /\ wpc'[x] = wpc[x]
      BY <2>1 DEF WorkerTypes
    <3>2. wpc'[w] = "derive" => prompts'[w] >= 1
      <4>1. prompts'[w] = prompts[w] - 1
        BY <2>1 DEF WorkerTypes
      <4>2. CASE prompts[w] = 1
        BY <2>1, <4>2 DEF WorkerTypes
      <4>3. CASE prompts[w] /= 1
        BY <1>t, <2>0, <4>1, <4>3
      <4> QED BY <4>2, <4>3
    <3> QED BY <3>1, <3>2 DEF Deriving
  <2>5. CanaryTypes'
    <3>1. wj[w].seed \in Nat /\ canary_w \in Nat
      BY <1>t, JobFields DEF CanaryTypes
    <3>2. Draw(w) \in Draws
      BY <3>1 DEF Draw, Draws, CanaryTypes
    <3>3. used' \subseteq Draws /\ reused' \in BOOLEAN
      BY <1>7, <3>2 DEF Derive, CanaryTypes
    <3> QED BY <1>7, <3>1, <3>3 DEF Derive, CanaryTypes
  <2> QED BY <1>7, <2>3, <2>4, <2>5, Kept DEF Derive
<1>n. NextTurn(w) => /\ wpc' = [wpc EXCEPT ![w] = "look"]
                             /\ wj' \in [Workers -> Jobs \cup {NoJob}]
  BY DEF NextTurn, Goto, WorkerTypes
<1>8. CASE FallBack(w)
  <2>1. double_ok' \in [Workers -> BOOLEAN]
    BY <1>8 DEF FallBack, WorkerTypes
  <2>2. /\ wpc' = [wpc EXCEPT ![w] = "look"] /\ wj' \in [Workers -> Jobs \cup {NoJob}]
    BY <1>8, <1>n DEF FallBack
  <2> QED BY <1>1, <1>8, <2>1, <2>2, Kept DEF FallBack, WorkerTypes, WorkerPcs
\* The shares found with the batch.
<1>f. ASSUME NEW n \in 0 .. 2, Find(w, n)
      PROVE  hand' \in [Workers -> Seq(1 .. MaxFound)] /\ FoundType'
  <2> DEFINE h == [i \in 1 .. n |-> found + i]
  <2>2. h \in Seq(1 .. MaxFound) /\ found + n \in 0 .. MaxFound
    <3>1. found \in Nat /\ n \in Nat /\ found + n <= MaxFound /\ MaxFound \in Nat
      BY <1>0, <1>f, RigJobs, MiningAssumption DEF Find, FoundType
    <3>2. h \in [1 .. n -> 1 .. MaxFound]
      BY <3>1
    <3> HIDE DEF h
    <3> QED BY <3>1, <3>2
  <2>3. hand' = [hand EXCEPT ![w] = hand[w] \o h] /\ found' = found + n
    BY <1>f DEF Find, WorkerTypes
  <2> HIDE DEF h
  <2>4. hand[w] \o h \in Seq(1 .. MaxFound)
    <3>1. hand[w] \in Seq(1 .. MaxFound)
      BY DEF WorkerTypes
    <3> QED BY <2>2, <3>1
  <2> QED BY <2>2, <2>3, <2>4 DEF WorkerTypes, FoundType
<1>9. CASE \E n \in 0 .. 2 : BatchFails(w, n)
  <2>1. PICK n \in 0 .. 2 : BatchFails(w, n)
    BY <1>9
  <2>2. /\ hand' \in [Workers -> Seq(1 .. MaxFound)] /\ FoundType'
        /\ wpc' = [wpc EXCEPT ![w] = "look"] /\ wj' \in [Workers -> Jobs \cup {NoJob}]
    BY <1>f, <1>n, <2>1 DEF BatchFails
  <2>3. consecutive_failures' \in 0 .. MaxFails
    BY <2>1, MiningAssumption DEF BatchFails, WorkerTypes
  <2>4. failed' \subseteq Workers /\ UNCHANGED <<installed, double_ok, prompts>>
    BY <2>1 DEF BatchFails, WorkerTypes
  <2>5. WorkerTypes'
    BY <2>2, <2>3, <2>4 DEF WorkerTypes, WorkerPcs
  <2>6. Deriving'
    BY <2>2, <2>4 DEF WorkerTypes, Deriving
  <2>7. MainTypes'
    BY <2>1 DEF BatchFails, MainTypes
  <2> QED BY <2>1, <2>2, <2>5, <2>6, <2>7, Kept DEF BatchFails
<1>10. CASE \E n \in 0 .. 2 : BatchDone(w, n)
  <2>1. PICK n \in 0 .. 2 : BatchDone(w, n)
    BY <1>10
  <2>2. /\ hand' \in [Workers -> Seq(1 .. MaxFound)] /\ FoundType'
        /\ wpc' = [wpc EXCEPT ![w] = "hand"]
    BY <1>f, <2>1 DEF BatchDone, Goto
  <2>3. /\ failed' \subseteq Workers /\ consecutive_failures' = 0
        /\ UNCHANGED <<wj, installed, double_ok, prompts>>
    BY <2>1 DEF BatchDone, WorkerTypes
  <2>4. WorkerTypes'
    BY <2>2, <2>3, MiningAssumption DEF WorkerTypes, WorkerPcs
  <2>5. Deriving'
    BY <2>2, <2>3 DEF WorkerTypes, Deriving
  <2> QED BY <2>1, <2>2, <2>4, <2>5, Kept DEF BatchDone
<1>11. CASE HandOver(w)
  <2>1. /\ wpc' = [wpc EXCEPT ![w] = "notify"] /\ hand' = [hand EXCEPT ![w] = <<>>]
        /\ submit_q' = submit_q \o hand[w]
        /\ UNCHANGED <<wj, installed, double_ok, prompts, failed, consecutive_failures, producers_done,
                       asleep>>
    BY <1>11 DEF HandOver, Goto
  <2>2. WorkerTypes'
    BY <2>1 DEF WorkerTypes, WorkerPcs
  <2>3. Deriving'
    BY <2>1 DEF WorkerTypes, Deriving
  <2>4. QueueTypes'
    <3>1. submit_q \in Seq(1 .. MaxFound) /\ hand[w] \in Seq(1 .. MaxFound)
      BY DEF QueueTypes, WorkerTypes
    <3>2. submit_q \o hand[w] \in Seq(1 .. MaxFound)
      BY <3>1
    <3> QED BY <2>1, <3>2 DEF QueueTypes
  <2> QED BY <1>11, <2>2, <2>3, <2>4, Kept DEF HandOver
<1>12. CASE Notify(w)
  <2>1. asleep' \subseteq Submitters
    BY <1>12 DEF Notify, NotifyOne, QueueTypes
  <2>2. QueueTypes'
    BY <1>12, <2>1 DEF Notify, QueueTypes
  <2>3. /\ wpc' = [wpc EXCEPT ![w] = "look"] /\ wj' \in [Workers -> Jobs \cup {NoJob}]
    BY <1>12, <1>n DEF Notify
  <2> QED BY <1>1, <1>12, <2>2, <2>3, Kept DEF Notify, WorkerTypes, WorkerPcs
<1> QED BY <1>2, <1>3, <1>4, <1>6, <1>7, <1>8, <1>9, <1>10, <1>11, <1>12 DEF WorkerStep

LEMMA PlusTyped ==
    ASSUME g_pc \in [Counters -> Nat], NEW cs
    PROVE  Plus(g_pc, cs) \in [Counters -> Nat]
BY DEF Plus

LEMMA HeadTail ==
    ASSUME NEW S, NEW q \in Seq(S), q /= <<>>
    PROVE  /\ Head(q) = q[1] /\ q[1] \in S /\ Tail(q) \in Seq(S) /\ Len(q) \in Nat \ {0}
           /\ Len(Tail(q)) = Len(q) - 1
           /\ \A n \in 1 .. (Len(q) - 1) : Tail(q)[n] = q[n + 1]
<1>1. Len(q) \in Nat \ {0}
  OBVIOUS
<1>2. Head(q) = q[1] /\ q[1] \in S
  BY <1>1
<1>3. Tail(q) \in Seq(S) /\ Len(Tail(q)) = Len(q) - 1
  OBVIOUS
<1>4. \A n \in 1 .. (Len(q) - 1) : Tail(q)[n] = q[n + 1]
  OBVIOUS
<1> QED BY <1>1, <1>2, <1>3, <1>4

LEMMA SubmitterStepTypes ==
    ASSUME Types, NEW j \in Submitters, SubmitterStep(j)
    PROVE  Types'
<1> USE DEF Types
<1>0. QueueTypes /\ SubmitTypes /\ Holding
  OBVIOUS
<1>1. CASE Sleep(j)
  <2>1. QueueTypes'
    BY <1>1 DEF Sleep, QueueTypes
  <2> QED BY <1>1, <2>1, Kept DEF Sleep
<1>2. CASE Leave(j)
  <2>1. SubmitTypes'
    BY <1>2 DEF Leave, SubmitTypes
  <2>2. Holding'
    BY <1>2 DEF Leave, SubmitTypes, Holding
  <2> QED BY <1>2, <2>1, <2>2, Kept DEF Leave
<1>3. CASE Take(j)
  <2>1. submit_q \in Seq(1 .. MaxFound) /\ submit_q /= <<>>
    BY <1>3 DEF Take, QueueTypes
  <2>2. Head(submit_q) \in 1 .. MaxFound /\ Tail(submit_q) \in Seq(1 .. MaxFound)
    BY <2>1, HeadTail
  <2>3. Head(submit_q) \in 0 .. MaxFound /\ Head(submit_q) /= 0
    BY <2>2
  <2>4. QueueTypes'
    BY <1>3, <2>2 DEF Take, QueueTypes
  <2>5. SubmitTypes'
    BY <1>3, <2>3 DEF Take, SubmitTypes
  <2>6. Holding'
    <3>1. PICK p \in {"precheck", "submit"} : spc' = [spc EXCEPT ![j] = p]
      BY <1>3 DEF Take
    <3>2. sh' = [sh EXCEPT ![j] = Head(submit_q)]
      BY <1>3 DEF Take
    <3> QED BY <2>3, <3>1, <3>2 DEF SubmitTypes, Holding
  <2> QED BY <1>3, <2>4, <2>5, <2>6, Kept DEF Take
<1>4. CASE SubmitShare(j)
  <2>1. sh[j] \in 1 .. MaxFound
    <3>1. sh[j] \in 0 .. MaxFound /\ sh[j] /= 0
      BY <1>4 DEF SubmitShare, SubmitTypes, Holding
    <3> QED BY <3>1, MiningAssumption
  <2>2. 0 \in 0 .. MaxFound
    BY MiningAssumption
  <2>3. SubmitTypes'
    <3>1. spc' \in [Submitters -> {"check", "precheck", "submit", "done"}]
      BY <1>4 DEF SubmitShare, SubmitTypes
    <3>2. sh' \in [Submitters -> 0 .. MaxFound]
      BY <1>4, <2>2 DEF SubmitShare, SubmitTypes
    <3>3. shares' \in Nat /\ UNCHANGED g_pc
      BY <1>4 DEF SubmitShare, SubmitTypes
    <3>4. decided' = decided \cup {sh[j]} /\ decided \subseteq 1 .. MaxFound
      BY <1>4 DEF SubmitShare, SubmitTypes
    <3>5. decided' \subseteq 1 .. MaxFound
      BY <2>1, <3>4
    <3> QED BY <3>1, <3>2, <3>3, <3>5 DEF SubmitTypes
  <2>4. Holding'
    BY <1>4 DEF SubmitShare, SubmitTypes, Holding
  <2> QED BY <1>4, <2>3, <2>4, Kept DEF SubmitShare
<1>5. CASE \E u \in {"passed", "unavailable", "rejected"} : Precheck(j, u)
  <2>1. PICK u \in {"passed", "unavailable", "rejected"} : Precheck(j, u)
    BY <1>5
  <2>2. sh[j] \in 1 .. MaxFound
    <3>1. sh[j] \in 0 .. MaxFound /\ sh[j] /= 0
      BY <2>1 DEF Precheck, SubmitTypes, Holding
    <3> QED BY <3>1, MiningAssumption
  <2>3. 0 \in 0 .. MaxFound
    BY MiningAssumption
  <2>4. g_pc' \in [Counters -> Nat]
    BY <2>1, PlusTyped DEF Precheck, SubmitTypes
  <2>5. SubmitTypes'
    <3>1. spc' \in [Submitters -> {"check", "precheck", "submit", "done"}]
      BY <2>1 DEF Precheck, SubmitTypes
    <3>2. sh' \in [Submitters -> 0 .. MaxFound]
      BY <2>1, <2>3 DEF Precheck, SubmitTypes
    <3>3. decided' \subseteq 1 .. MaxFound /\ shares' \in Nat
      BY <2>1, <2>2 DEF Precheck, SubmitTypes
    <3> QED BY <2>4, <3>1, <3>2, <3>3 DEF SubmitTypes
  <2>6. Holding'
    <3>1. CASE u = "rejected" /\ Mode = "on"
      BY <2>1, <3>1 DEF Precheck, SubmitTypes, Holding
    <3>2. CASE ~ (u = "rejected" /\ Mode = "on")
      BY <2>1, <3>2 DEF Precheck, SubmitTypes, Holding
    <3> QED BY <3>1, <3>2
  <2> QED BY <2>1, <2>5, <2>6, Kept DEF Precheck
<1> QED BY <1>1, <1>2, <1>3, <1>4, <1>5 DEF SubmitterStep

LEMMA MainStepTypes ==
    ASSUME Types, MainStep
    PROVE  Types'
<1> USE DEF Types
<1>1. CASE JoinWorkers \/ JoinSubmitters \/ Close
  <2>1. MainTypes'
    BY <1>1 DEF JoinWorkers, JoinSubmitters, Close, MainTypes
  <2> QED BY <1>1, <2>1, Kept DEF JoinWorkers, JoinSubmitters, Close
<1>2. CASE ProducersDone \/ NotifyAll
  <2>1. MainTypes' /\ QueueTypes'
    BY <1>2 DEF ProducersDone, NotifyAll, NoneAsleep, MainTypes, QueueTypes
  <2> QED BY <1>2, <2>1, Kept DEF ProducersDone, NotifyAll
<1>3. CASE AwaitAnswers
  <2>1. MainTypes'
    BY <1>3, MiningAssumption DEF AwaitAnswers, MainTypes
  <2> QED BY <1>3, <2>1, Kept DEF AwaitAnswers
<1> QED BY <1>1, <1>2, <1>3 DEF MainStep

LEMMA TypesNext == Types /\ [Next]_vars => Types'
<1> SUFFICES ASSUME Types, [Next]_vars PROVE Types'
  OBVIOUS
<1>1. CASE \E n \in rig.jobs : Announce(n)
  <2>1. JobTypes'
    BY <1>1 DEF Announce, Types, JobTypes
  <2> QED BY <1>1, <2>1, Kept DEF Announce, Types
<1>2. CASE Signal
  <2>1. JobTypes'
    BY <1>2 DEF Signal, Types, JobTypes
  <2> QED BY <1>2, <2>1, Kept DEF Signal, Types
<1>3. CASE \E w \in Workers : WorkerStep(w)
  BY <1>3, WorkerStepTypes
<1>4. CASE \E j \in Submitters : SubmitterStep(j)
  BY <1>4, SubmitterStepTypes
<1>5. CASE MainStep
  BY <1>5, MainStepTypes
<1>6. CASE UNCHANGED vars
  BY <1>6, Kept DEF vars, Types
<1> QED BY <1>1, <1>2, <1>3, <1>4, <1>5, <1>6 DEF Next

LEMMA TypesInit == Init => Types
<1> SUFFICES ASSUME Init PROVE Types
  OBVIOUS
<1>1. /\ 0 \in 0 .. 2 * NStreams /\ 0 \in 0 .. MaxFails /\ 0 \in 0 .. MaxFound /\ 0 \in 0 .. MaxAttempts
      /\ <<>> \in Seq(1 .. MaxFound)
  BY MiningAssumption
<1>2. WorkerTypes /\ Deriving
  <2>1. rig.double \in BOOLEAN
    BY MiningAssumption DEF Init
  <2> QED BY <1>1, <2>1, MiningAssumption DEF Init, WorkerTypes, WorkerPcs, PerWorker, Deriving
<1>3. JobTypes /\ CanaryTypes /\ QueueTypes /\ MainTypes /\ FoundType
  BY <1>1 DEF Init, JobTypes, CanaryTypes, QueueTypes, MainTypes, FoundType
<1>4. SubmitTypes /\ Holding
  BY <1>1 DEF Init, SubmitTypes, Holding
<1> QED BY <1>2, <1>3, <1>4 DEF Types

-----------------------------------------------------------------------------
(* Who may still be at work.                                               *)

\* Shares stay with a worker between the end of a good batch and the queue, or after a
\* failed batch.
HandsFull == \A w \in Workers : hand[w] /= <<>> => wpc[w] = "hand" \/ w \in failed

\* The order of the shutdown: workers, then the flag, then the submitters, which
\* leave an empty queue.
ShutdownOrder ==
    /\ main /= "run" => \A w \in Workers : wpc[w] = "done"
    /\ producers_done => main \notin {"run", "flag"}
    /\ \A j \in Submitters : spc[j] = "done" => producers_done /\ submit_q = <<>>
    /\ main \in {"ack", "closed"} => \A j \in Submitters : spc[j] = "done"

Control == HandsFull /\ ShutdownOrder /\ NoLostWakeup

\* A worker's step that is about no share.
QuietWorker(w) ==
    /\ wpc[w] \notin {"done", "hand", "notify"}
    /\ \E p \in WorkerPcs : wpc' = [wpc EXCEPT ![w] = p]
    /\ UNCHANGED <<hand, failed, queue_vars, submit_vars, found, main>>

LEMMA WorkerStepKinds ==
    ASSUME Types, NEW w \in Workers, WorkerStep(w)
    PROVE  \/ QuietWorker(w) \/ HandOver(w) \/ Notify(w)
           \/ \E n \in 0 .. 2 : BatchFails(w, n) \/ BatchDone(w, n)
<1>0. wpc \in [Workers -> WorkerPcs]
  BY DEF Types, WorkerTypes
<1>1. CASE WorkerStops(w) \/ WrongModel(w)
  BY <1>1 DEF WorkerStops, WrongModel, At, Goto, QuietWorker, WorkerPcs, main_vars
<1>2. CASE Look(w)
  <2>1. \E p \in WorkerPcs : wpc' = [wpc EXCEPT ![w] = p]
    <3>1. wpc = [wpc EXCEPT ![w] = wpc[w]] /\ wpc[w] \in WorkerPcs
      BY <1>0
    <3>2. wpc' = [wpc EXCEPT ![w] = "seed"] \/ wpc' = wpc
      BY <1>2 DEF Look, Goto
    <3> QED BY <3>1, <3>2 DEF WorkerPcs
  <2> QED BY <1>2, <2>1 DEF Look, At, QuietWorker, main_vars
<1>4. CASE Seed(w)
  <2>1. \E p \in WorkerPcs : wpc' = [wpc EXCEPT ![w] = p]
    BY <1>4 DEF Seed, Goto, WorkerPcs
  <2> QED BY <1>4, <2>1 DEF Seed, At, QuietWorker, main_vars
<1>5. CASE Derive(w)
  <2>1. \E p \in WorkerPcs : wpc' = [wpc EXCEPT ![w] = p]
    <3>1. wpc = [wpc EXCEPT ![w] = wpc[w]] /\ wpc[w] \in WorkerPcs
      BY <1>0
    <3>2. wpc' = [wpc EXCEPT ![w] = "generate"] \/ wpc' = wpc
      BY <1>5 DEF Derive, Goto
    <3> QED BY <3>1, <3>2 DEF WorkerPcs
  <2> QED BY <1>5, <2>1 DEF Derive, At, QuietWorker, main_vars
<1>6. CASE FallBack(w)
  BY <1>6 DEF FallBack, At, NextTurn, Goto, QuietWorker, WorkerPcs, main_vars
<1> QED BY <1>1, <1>2, <1>4, <1>5, <1>6 DEF WorkerStep

LEMMA ControlWorker ==
    ASSUME Types, Control, NEW w \in Workers, WorkerStep(w)
    PROVE  Control'
<1>0. wpc \in [Workers -> WorkerPcs] /\ hand \in [Workers -> Seq(1 .. MaxFound)]
      /\ asleep \subseteq Submitters /\ wpc[w] /= "done" /\ main = "run" /\ ~ producers_done
  <2>1. wpc[w] /= "done"
    BY WorkerStepKinds DEF QuietWorker, BatchFails, BatchDone, HandOver, Notify, At
  <2> QED BY <2>1 DEF Types, WorkerTypes, QueueTypes, MainTypes, Control, ShutdownOrder
<1>1. CASE QuietWorker(w)
  <2>1. PICK p \in WorkerPcs : wpc' = [wpc EXCEPT ![w] = p]
    BY <1>1 DEF QuietWorker
  <2>2. HandsFull'
    BY <1>0, <1>1, <2>1 DEF QuietWorker, Control, HandsFull
  <2>3. ShutdownOrder'
    BY <1>0, <1>1 DEF QuietWorker, Control, ShutdownOrder, queue_vars, submit_vars
  <2>4. NoLostWakeup'
    BY <1>0, <1>1, <2>1 DEF QuietWorker, Control, NoLostWakeup, queue_vars
  <2> QED BY <2>2, <2>3, <2>4 DEF Control
<1>2. CASE \E n \in 0 .. 2 : BatchFails(w, n) \/ BatchDone(w, n)
  <2>1. PICK n \in 0 .. 2 : BatchFails(w, n) \/ BatchDone(w, n)
    BY <1>2
  <2>2. /\ wpc[w] = "generate" /\ UNCHANGED <<submit_q, producers_done, asleep, spc, main>>
        /\ \/ wpc' = [wpc EXCEPT ![w] = "look"] /\ failed' = failed \cup {w}
           \/ wpc' = [wpc EXCEPT ![w] = "hand"] /\ failed' = failed \ {w}
    BY <2>1 DEF BatchFails, BatchDone, At, Goto, NextTurn, queue_vars, submit_vars, main_vars
  <2>h. \A x \in Workers \ {w} : hand'[x] = hand[x] /\ wpc'[x] = wpc[x]
    BY <1>0, <2>1, <2>2 DEF BatchFails, BatchDone, Find
  <2>3. HandsFull'
    BY <1>0, <2>2, <2>h DEF Control, HandsFull
  <2>4. ShutdownOrder'
    BY <1>0, <2>2 DEF Control, ShutdownOrder
  <2>5. NoLostWakeup'
    BY <1>0, <2>2 DEF Control, NoLostWakeup
  <2> QED BY <2>3, <2>4, <2>5 DEF Control
<1>3. CASE HandOver(w)
  <2>1. /\ wpc' = [wpc EXCEPT ![w] = "notify"] /\ hand' = [hand EXCEPT ![w] = <<>>]
        /\ UNCHANGED <<failed, producers_done, asleep, spc, main>>
    BY <1>3 DEF HandOver, Goto, submit_vars, main_vars
  <2>2. HandsFull'
    BY <1>0, <2>1 DEF Control, HandsFull
  <2>3. ShutdownOrder'
    BY <1>0, <2>1 DEF Control, ShutdownOrder
  <2>4. NoLostWakeup'
    BY <1>0, <2>1 DEF NoLostWakeup
  <2> QED BY <2>2, <2>3, <2>4 DEF Control
<1>4. CASE Notify(w)
  <2>1. /\ wpc[w] = "notify" /\ wpc' = [wpc EXCEPT ![w] = "look"] /\ NotifyOne
        /\ UNCHANGED <<hand, failed, submit_q, producers_done, spc, main>>
    BY <1>4 DEF Notify, At, NextTurn, Goto, submit_vars, main_vars
  <2>2. HandsFull'
    BY <1>0, <2>1 DEF Control, HandsFull
  <2>3. ShutdownOrder'
    BY <1>0, <2>1 DEF Control, ShutdownOrder
  \* Somebody is awake now.
  <2>4. NoLostWakeup'
    <3>1. asleep' /= Submitters
      BY <1>0, <2>1, MiningAssumption DEF NotifyOne
    <3> QED BY <3>1 DEF NoLostWakeup
  <2> QED BY <2>2, <2>3, <2>4 DEF Control
<1> QED BY <1>1, <1>2, <1>3, <1>4, WorkerStepKinds

LEMMA ControlSubmitter ==
    ASSUME Types, Control, NEW j \in Submitters, SubmitterStep(j)
    PROVE  Control'
<1>0. spc \in [Submitters -> {"check", "precheck", "submit", "done"}] /\ asleep \subseteq Submitters
  BY DEF Types, SubmitTypes, QueueTypes
<1>h. /\ j \notin asleep /\ UNCHANGED <<hand, failed, wpc, producers_done, main>>
      /\ spc[j] /= "done"
  BY DEF SubmitterStep, Sleep, Leave, Take, SubmitShare, Precheck, Awake, worker_vars, queue_vars,
         main_vars
<1>1. HandsFull'
  BY <1>h DEF Control, HandsFull
<1>2. CASE Sleep(j)
  <2>1. submit_q = <<>> /\ UNCHANGED <<submit_q, spc>>
    BY <1>2 DEF Sleep, MustWait, submit_vars
  <2> QED BY <1>1, <1>h, <2>1 DEF Control, ShutdownOrder, NoLostWakeup
<1>3. CASE Leave(j)
  <2>1. producers_done /\ submit_q = <<>> /\ UNCHANGED <<submit_q, asleep>>
        /\ spc' = [spc EXCEPT ![j] = "done"]
    BY <1>3 DEF Leave, MayLeave, queue_vars
  <2>2. ShutdownOrder'
    BY <1>0, <1>h, <2>1 DEF Control, ShutdownOrder
  <2> QED BY <1>1, <1>h, <2>1, <2>2 DEF Control, NoLostWakeup
<1>4. CASE Take(j) \/ SubmitShare(j) \/ \E u \in {"passed", "unavailable", "rejected"} : Precheck(j, u)
  <2>1. UNCHANGED asleep
    BY <1>4 DEF Take, SubmitShare, Precheck, queue_vars
  <2>2. \E p \in {"check", "precheck", "submit"} : spc' = [spc EXCEPT ![j] = p]
    BY <1>4 DEF Take, SubmitShare, Precheck
  <2>3. \A x \in Submitters : spc'[x] = "done" => spc[x] = "done" /\ x /= j
    BY <1>0, <2>2
  <2>4. submit_q = <<>> => UNCHANGED submit_q
    BY <1>4 DEF Take, SubmitShare, Precheck, queue_vars
  <2>5. main \notin {"ack", "closed"}
    BY <1>h DEF Control, ShutdownOrder
  <2>6. ShutdownOrder'
    BY <1>h, <2>3, <2>4, <2>5 DEF Control, ShutdownOrder
  <2>7. NoLostWakeup'
    BY <1>h, <2>1 DEF NoLostWakeup
  <2> QED BY <1>1, <2>6, <2>7 DEF Control
<1> QED BY <1>2, <1>3, <1>4 DEF SubmitterStep

LEMMA ControlNext == Types /\ Control /\ [Next]_vars => Control'
<1> SUFFICES ASSUME Types, Control, [Next]_vars PROVE Control'
  OBVIOUS
<1>1. CASE (\E n \in rig.jobs : Announce(n)) \/ Signal \/ UNCHANGED vars
  <2>1. UNCHANGED <<wpc, hand, failed, submit_q, producers_done, asleep, spc, main>>
    BY <1>1 DEF Announce, Signal, vars, worker_vars, queue_vars, submit_vars, main_vars
  <2> QED BY <2>1 DEF Control, HandsFull, ShutdownOrder, NoLostWakeup
<1>2. CASE \E w \in Workers : WorkerStep(w)
  BY <1>2, ControlWorker
<1>3. CASE \E j \in Submitters : SubmitterStep(j)
  BY <1>3, ControlSubmitter
<1>4. CASE MainStep
  <2>1. UNCHANGED <<wpc, hand, failed, submit_q, spc>>
    BY <1>4 DEF MainStep, JoinWorkers, ProducersDone, NotifyAll, JoinSubmitters, AwaitAnswers, Close,
                worker_vars, queue_vars, submit_vars
  <2>2. HandsFull'
    BY <2>1 DEF Control, HandsFull
  <2>3. ShutdownOrder'
    <3>1. CASE JoinWorkers
      BY <2>1, <3>1 DEF JoinWorkers, Control, ShutdownOrder, queue_vars
    <3>2. CASE ProducersDone
      BY <2>1, <3>2 DEF ProducersDone, Control, ShutdownOrder
    <3>3. CASE NotifyAll
      BY <2>1, <3>3 DEF NotifyAll, Control, ShutdownOrder
    <3>4. CASE JoinSubmitters
      BY <2>1, <3>4 DEF JoinSubmitters, Control, ShutdownOrder, queue_vars
    <3>5. CASE AwaitAnswers \/ Close
      BY <2>1, <3>5 DEF AwaitAnswers, Close, Control, ShutdownOrder, queue_vars
    <3> QED BY <1>4, <3>1, <3>2, <3>3, <3>4, <3>5 DEF MainStep
  <2>4. NoLostWakeup'
    <3>1. asleep' = asleep \/ asleep' = {}
      BY <1>4 DEF MainStep, JoinWorkers, ProducersDone, NotifyAll, JoinSubmitters, AwaitAnswers, Close,
                  NoneAsleep, queue_vars
    <3> QED BY <2>1, <3>1, MiningAssumption DEF Control, NoLostWakeup
  <2> QED BY <2>2, <2>3, <2>4 DEF Control
<1> QED BY <1>1, <1>2, <1>3, <1>4 DEF Next

LEMMA ControlInit == Init => Control
BY DEF Init, PerWorker, Control, HandsFull, ShutdownOrder, NoLostWakeup

-----------------------------------------------------------------------------
(* A share is in one place.                                                *)

Elems(s) == {s[x] : x \in DOMAIN s}
Distinct(s) == \A x, y \in DOMAIN s : s[x] = s[y] => x = y

LEMMA EmptyElems == Elems(<<>>) = {} /\ Distinct(<<>>)
BY DEF Elems, Distinct

\* What taking the first share leaves.
LEMMA TailElems ==
    ASSUME NEW S, NEW q \in Seq(S), q /= <<>>, Distinct(q)
    PROVE  /\ Elems(q) = Elems(Tail(q)) \cup {Head(q)} /\ Head(q) \notin Elems(Tail(q))
           /\ Distinct(Tail(q))
<1> DEFINE t == Tail(q)
<1>1. /\ Head(q) = q[1] /\ t \in Seq(S) /\ Len(q) \in Nat \ {0} /\ Len(t) = Len(q) - 1
      /\ \A n \in 1 .. (Len(q) - 1) : t[n] = q[n + 1]
  BY HeadTail
<1>2. DOMAIN q = 1 .. Len(q) /\ DOMAIN t = 1 .. Len(q) - 1
  BY <1>1
<1> HIDE DEF t
<1>3. Elems(q) \subseteq Elems(t) \cup {q[1]}
  <2> SUFFICES ASSUME NEW x \in 1 .. Len(q), x /= 1 PROVE q[x] \in Elems(t)
    BY <1>2 DEF Elems
  <2>1. x - 1 \in 1 .. Len(q) - 1 /\ (x - 1) + 1 = x
    BY <1>1
  <2>2. t[x - 1] = q[x]
    BY <1>1, <2>1
  <2> QED BY <1>2, <2>1, <2>2 DEF Elems
<1>4. Elems(t) \subseteq Elems(q) /\ q[1] \in Elems(q)
  <2>1. 1 \in 1 .. Len(q) /\ \A n \in 1 .. Len(q) - 1 : n + 1 \in 1 .. Len(q)
    BY <1>1
  <2> QED BY <1>1, <1>2, <2>1 DEF Elems
<1>5. q[1] \notin Elems(t)
  <2> SUFFICES ASSUME NEW n \in 1 .. Len(q) - 1, t[n] = q[1] PROVE FALSE
    BY <1>2 DEF Elems
  <2>1. n + 1 \in 1 .. Len(q) /\ 1 \in 1 .. Len(q) /\ n + 1 /= 1
    BY <1>1
  <2>2. q[n + 1] = q[1]
    BY <1>1
  <2> QED BY <1>2, <2>1, <2>2 DEF Distinct
<1>6. Distinct(t)
  <2> SUFFICES ASSUME NEW x \in 1 .. Len(q) - 1, NEW y \in 1 .. Len(q) - 1, t[x] = t[y] PROVE x = y
    BY <1>2 DEF Distinct
  <2>1. x + 1 \in 1 .. Len(q) /\ y + 1 \in 1 .. Len(q) /\ q[x + 1] = q[y + 1]
    BY <1>1
  <2>2. x + 1 = y + 1
    BY <1>2, <2>1 DEF Distinct
  <2> QED BY <2>2
<1> QED BY <1>1, <1>3, <1>4, <1>5, <1>6 DEF t

\* What queueing a hand gives.
LEMMA ConcatElems ==
    ASSUME NEW S, NEW p \in Seq(S), NEW q \in Seq(S), Distinct(p), Distinct(q),
           Elems(p) \cap Elems(q) = {}
    PROVE  Elems(p \o q) = Elems(p) \cup Elems(q) /\ Distinct(p \o q)
<1> DEFINE r == p \o q
<1>1. /\ Len(p) \in Nat /\ Len(q) \in Nat /\ DOMAIN p = 1 .. Len(p) /\ DOMAIN q = 1 .. Len(q)
      /\ DOMAIN r = 1 .. Len(p) + Len(q)
  OBVIOUS
<1>2. \A x \in 1 .. Len(p) + Len(q) : r[x] = IF x <= Len(p) THEN p[x] ELSE q[x - Len(p)]
  OBVIOUS
<1> HIDE DEF r
<1>3. \A x \in DOMAIN r : \/ x \in DOMAIN p /\ r[x] = p[x]
                          \/ x - Len(p) \in DOMAIN q /\ r[x] = q[x - Len(p)] /\ x > Len(p)
  BY <1>1, <1>2
<1>4. Elems(r) \subseteq Elems(p) \cup Elems(q)
  BY <1>3 DEF Elems
<1>5. Elems(p) \subseteq Elems(r)
  <2> SUFFICES ASSUME NEW x \in 1 .. Len(p) PROVE p[x] \in Elems(r)
    BY <1>1 DEF Elems
  <2>1. x \in DOMAIN r /\ r[x] = p[x]
    BY <1>1, <1>2
  <2> QED BY <2>1 DEF Elems
<1>6. Elems(q) \subseteq Elems(r)
  <2> SUFFICES ASSUME NEW x \in 1 .. Len(q) PROVE q[x] \in Elems(r)
    BY <1>1 DEF Elems
  <2>1. x + Len(p) \in 1 .. Len(p) + Len(q) /\ ~ (x + Len(p) <= Len(p)) /\ (x + Len(p)) - Len(p) = x
    BY <1>1
  <2>2. x + Len(p) \in DOMAIN r /\ r[x + Len(p)] = q[x]
    BY <1>1, <1>2, <2>1
  <2> QED BY <2>2 DEF Elems
<1>7. Distinct(r)
  <2> SUFFICES ASSUME NEW x \in DOMAIN r, NEW y \in DOMAIN r, r[x] = r[y] PROVE x = y
    BY DEF Distinct
  <2>0. x \in Int /\ y \in Int
    BY <1>1
  <2>1. CASE x \in DOMAIN p /\ r[x] = p[x] /\ y \in DOMAIN p /\ r[y] = p[y]
    BY <2>1 DEF Distinct
  <2>2. CASE x - Len(p) \in DOMAIN q /\ r[x] = q[x - Len(p)] /\ y - Len(p) \in DOMAIN q /\ r[y] = q[y - Len(p)]
    <3>1. x - Len(p) = y - Len(p)
      BY <2>2 DEF Distinct
    <3> QED BY <1>1, <2>0, <3>1
  <2>3. CASE \/ x \in DOMAIN p /\ r[x] = p[x] /\ y - Len(p) \in DOMAIN q /\ r[y] = q[y - Len(p)]
             \/ y \in DOMAIN p /\ r[y] = p[y] /\ x - Len(p) \in DOMAIN q /\ r[x] = q[x - Len(p)]
    <3>1. r[x] \in Elems(p) /\ r[x] \in Elems(q)
      BY <2>3 DEF Elems
    <3> QED BY <3>1
  <2> QED BY <1>3, <2>1, <2>2, <2>3
<1> QED BY <1>4, <1>5, <1>6, <1>7 DEF r

\* Every share found is somewhere, and only those numbers are.
Accounted ==
    \A n \in 1 .. found : \/ n \in decided \/ n \in Elems(submit_q)
                          \/ \E w \in Workers : n \in Elems(hand[w])
                          \/ \E j \in Submitters : sh[j] = n
Numbered == /\ decided \subseteq 1 .. found /\ Elems(submit_q) \subseteq 1 .. found
            /\ \A w \in Workers : Elems(hand[w]) \subseteq 1 .. found
            /\ \A j \in Submitters : sh[j] \in 0 .. found

\* No share is in two places.
QueueApart == Distinct(submit_q) /\ decided \cap Elems(submit_q) = {}
HandsApart ==
    \A w \in Workers :
        /\ Distinct(hand[w])
        /\ Elems(hand[w]) \cap decided = {} /\ Elems(hand[w]) \cap Elems(submit_q) = {}
        /\ \A x \in Workers \ {w} : Elems(hand[w]) \cap Elems(hand[x]) = {}
HeldApart ==
    \A j \in Submitters : sh[j] /= 0 =>
        /\ sh[j] \notin decided /\ sh[j] \notin Elems(submit_q)
        /\ \A w \in Workers : sh[j] \notin Elems(hand[w])
        /\ \A x \in Submitters \ {j} : sh[x] /= sh[j]

\* The counters are sizes of sets of shares: the shares that passed the precheck
\* are decided or about to be submitted.
Judged == decided \cup {sh[j] : j \in {j \in Submitters : spc[j] = "submit"}}
Counts ==
    /\ shares + g_pc["dropped"] = Cardinality(decided)
    /\ Mode /= "off" =>
         /\ g_pc["checked"] = Cardinality(Judged)
         /\ g_pc["passed"] + g_pc["unavailable"] + g_pc["rejected"] = g_pc["checked"]

Books == Accounted /\ Numbered /\ QueueApart /\ HandsApart /\ HeldApart /\ Counts

LEMMA BooksKept ==
    ASSUME Books, UNCHANGED <<hand, submit_q, spc, sh, g_pc, shares, decided, found>>
    PROVE  Books'
<1>1. Accounted' /\ Numbered'
  BY DEF Books, Accounted, Numbered
<1>2. QueueApart' /\ HandsApart' /\ HeldApart'
  BY DEF Books, QueueApart, HandsApart, HeldApart
<1>3. Counts'
  BY DEF Books, Counts, Judged
<1> QED BY <1>1, <1>2, <1>3 DEF Books

LEMMA SeqWider ==
    ASSUME NEW S, NEW T, S \subseteq T, NEW q \in Seq(S)
    PROVE  q \in Seq(T)
<1>1. Len(q) \in Nat /\ q \in [1 .. Len(q) -> S]
  OBVIOUS
<1>2. q \in [1 .. Len(q) -> T]
  BY <1>1
<1> QED BY <1>1, <1>2

\* A batch, good or failed, hands out new numbers.
LEMMA BooksBatch ==
    ASSUME Types, Books, NEW w \in Workers, NEW n \in 0 .. 2,
           BatchFails(w, n) \/ BatchDone(w, n)
    PROVE  Books'
<1> DEFINE h == [i \in 1 .. n |-> found + i]
<1>0. hand \in [Workers -> Seq(1 .. MaxFound)]
  BY DEF Types, WorkerTypes
<1>1. /\ hand' = [hand EXCEPT ![w] = hand[w] \o h] /\ found' = found + n
      /\ UNCHANGED <<submit_q, spc, sh, g_pc, shares, decided>>
  <2>1. Find(w, n)
    BY DEF BatchFails, BatchDone
  <2> QED BY <1>0, <2>1 DEF BatchFails, BatchDone, Find, queue_vars, submit_vars
<1>2. found \in Nat /\ n \in Nat /\ hand \in [Workers -> Seq(1 .. MaxFound)]
  BY DEF Types, FoundType, WorkerTypes
<1>3. Elems(h) = found + 1 .. found + n /\ Distinct(h)
  <2>1. DOMAIN h = 1 .. n /\ \A x \in 1 .. n : h[x] = found + x
    OBVIOUS
  <2> HIDE DEF h
  <2>2. Elems(h) \subseteq found + 1 .. found + n
    BY <1>2, <2>1 DEF Elems
  <2>3. ASSUME NEW y \in found + 1 .. found + n PROVE y \in Elems(h)
    <3>1. y - found \in 1 .. n /\ found + (y - found) = y
      BY <1>2
    <3> QED BY <2>1, <3>1 DEF Elems
  <2>4. Distinct(h)
    BY <1>2, <2>1 DEF Distinct
  <2> QED BY <2>2, <2>3, <2>4
<1> HIDE DEF h
<1>6. (1 .. found) \cap (found + 1 .. found + n) = {} /\ 1 .. found' = (1 .. found) \cup (found + 1 .. found + n)
      /\ 0 .. found \subseteq 0 .. found' /\ 1 .. found \subseteq 1 .. found'
  BY <1>1, <1>2
<1>4. /\ Elems(hand[w] \o h) = Elems(hand[w]) \cup (found + 1 .. found + n) /\ Distinct(hand[w] \o h)
  <2>1. hand[w] \in Seq(Nat) /\ h \in Seq(Nat)
    <3>1. 1 .. MaxFound \subseteq Nat
      BY MiningAssumption
    <3>2. h \in [1 .. n -> Nat]
      BY <1>2 DEF h
    <3>3. hand[w] \in Seq(1 .. MaxFound)
      BY <1>2
    <3>5. hand[w] \in Seq(Nat)
      BY <3>1, <3>3, SeqWider
    <3>6. h \in Seq(Nat)
      BY <1>2, <3>2
    <3> QED BY <3>5, <3>6
  <2>2. Elems(hand[w]) \subseteq 1 .. found /\ Distinct(hand[w])
    BY DEF Books, Numbered, HandsApart
  <2>3. Distinct(h) /\ Elems(h) = found + 1 .. found + n /\ Elems(hand[w]) \cap Elems(h) = {}
    BY <1>3, <1>6, <2>2
  <2>4. Elems(hand[w] \o h) = Elems(hand[w]) \cup Elems(h) /\ Distinct(hand[w] \o h)
    BY <2>1, <2>2, <2>3, ConcatElems
  <2> QED BY <2>3, <2>4
<1>5. hand'[w] = hand[w] \o h /\ \A x \in Workers \ {w} : hand'[x] = hand[x]
  BY <1>1, <1>2
<1>7. Accounted'
  <2> SUFFICES ASSUME NEW i \in 1 .. found'
               PROVE  \/ i \in decided \/ i \in Elems(submit_q)
                      \/ \E x \in Workers : i \in Elems(hand'[x])
                      \/ \E j \in Submitters : sh[j] = i
    BY <1>1 DEF Accounted
  <2>1. CASE i \in 1 .. found
    BY <1>4, <1>5, <2>1 DEF Books, Accounted
  <2>2. CASE i \in found + 1 .. found + n
    BY <1>4, <1>5, <2>2
  <2> QED BY <1>6, <2>1, <2>2
<1>8. Numbered'
  BY <1>1, <1>4, <1>5, <1>6 DEF Books, Numbered
<1>9. QueueApart'
  BY <1>1 DEF Books, QueueApart
<1>10. HandsApart'
  BY ZenonT(30), <1>1, <1>4, <1>5, <1>6 DEF Books, QueueApart, HandsApart, Numbered
<1>11. HeldApart'
  <2>1. \A j \in Submitters : sh[j] /= 0 => sh[j] \in 1 .. found
    BY <1>2 DEF Books, Numbered
  <2> QED BY <1>1, <1>4, <1>5, <1>6, <2>1 DEF Books, HeldApart
<1>12. Counts'
  BY <1>1 DEF Books, Counts, Judged
<1> QED BY <1>7, <1>8, <1>9, <1>10, <1>11, <1>12 DEF Books

LEMMA BooksHandOver ==
    ASSUME Types, Control, Books, NEW w \in Workers, HandOver(w)
    PROVE  Books'
<1>1. /\ hand' = [hand EXCEPT ![w] = <<>>] /\ submit_q' = submit_q \o hand[w]
      /\ UNCHANGED <<found, spc, sh, g_pc, shares, decided>>
  BY DEF HandOver, submit_vars
<1>2. hand \in [Workers -> Seq(1 .. MaxFound)] /\ submit_q \in Seq(1 .. MaxFound)
  BY DEF Types, QueueTypes, WorkerTypes
<1>3. hand'[w] = <<>> /\ \A x \in Workers \ {w} : hand'[x] = hand[x]
  BY <1>1, <1>2
<1>4. Elems(submit_q') = Elems(submit_q) \cup Elems(hand[w]) /\ Distinct(submit_q')
  BY <1>1, <1>2, ConcatElems DEF Books, QueueApart, HandsApart
<1>5. Elems(hand'[w]) = {} /\ Distinct(hand'[w])
  BY <1>3, EmptyElems
<1>6. Accounted'
  BY <1>1, <1>3, <1>4 DEF Books, Accounted
<1>7. Numbered'
  BY <1>1, <1>3, <1>4, <1>5 DEF Books, Numbered
<1>8. QueueApart'
  BY <1>1, <1>4 DEF Books, QueueApart, HandsApart
<1>9. HandsApart'
  BY <1>1, <1>3, <1>4, <1>5 DEF Books, HandsApart
<1>10. HeldApart'
  BY <1>1, <1>3, <1>4, <1>5 DEF Books, HeldApart
<1>11. Counts'
  BY <1>1 DEF Books, Counts, Judged
<1> QED BY <1>6, <1>7, <1>8, <1>9, <1>10, <1>11 DEF Books

LEMMA BooksTake ==
    ASSUME Types, Control, Books, NEW j \in Submitters, Take(j)
    PROVE  Books'
<1> DEFINE s == Head(submit_q)
<1>0. PICK p : p = (IF Mode = "off" THEN "submit" ELSE "precheck")
  OBVIOUS
<1>1. /\ sh' = [sh EXCEPT ![j] = s] /\ submit_q' = Tail(submit_q) /\ submit_q /= <<>>
      /\ spc[j] = "check" /\ spc' = [spc EXCEPT ![j] = p]
      /\ UNCHANGED <<found, hand, g_pc, shares, decided>>
  BY <1>0 DEF Take, worker_vars
<1>2. /\ submit_q \in Seq(1 .. MaxFound) /\ sh \in [Submitters -> 0 .. MaxFound] /\ sh[j] = 0
      /\ spc \in [Submitters -> {"check", "precheck", "submit", "done"}]
  BY <1>1 DEF Types, QueueTypes, SubmitTypes, Holding
<1>3. Elems(submit_q) = Elems(submit_q') \cup {s} /\ s \notin Elems(submit_q') /\ Distinct(submit_q')
  BY <1>1, <1>2, TailElems DEF Books, QueueApart
<1> HIDE DEF s
<1>4. sh'[j] = s /\ \A x \in Submitters \ {j} : sh'[x] = sh[x]
  BY <1>1, <1>2
<1>5. s \in 1 .. found /\ s \in 0 .. found /\ s /= 0 /\ s \notin decided
  <2>1. s \in 1 .. found /\ s \notin decided
    BY <1>3 DEF Books, Numbered, QueueApart
  <2> QED BY <2>1
<1>6. Accounted'
  <2>1. \A i \in 1 .. found : i /= 0
    OBVIOUS
  <2> QED BY <1>1, <1>2, <1>3, <1>4, <2>1 DEF Books, Accounted
<1>7. Numbered'
  BY <1>1, <1>3, <1>4, <1>5 DEF Books, Numbered
<1>8. QueueApart'
  BY <1>1, <1>3 DEF Books, QueueApart
<1>9. HandsApart'
  BY <1>1, <1>3 DEF Books, HandsApart
<1>10. HeldApart'
  <2>1. \A w \in Workers : s \notin Elems(hand[w])
    BY <1>3 DEF Books, HandsApart
  <2>2. \A x \in Submitters \ {j} : sh[x] /= s
    BY <1>3, <1>5 DEF Books, HeldApart
  <2> QED BY <1>1, <1>3, <1>4, <1>5, <2>1, <2>2 DEF Books, HeldApart
<1>11. Counts'
  <2>1. CASE Mode = "off"
    BY <1>1, <2>1 DEF Books, Counts
  <2>2. CASE Mode /= "off"
    <3>1. \A x \in Submitters : spc'[x] = "submit" <=> spc[x] = "submit"
      BY <1>0, <1>1, <1>2, <2>2
    <3>2. \A x \in Submitters : spc[x] = "submit" => sh'[x] = sh[x]
      BY <1>1, <1>4
    <3>3. Judged' = Judged
      BY <1>1, <3>1, <3>2 DEF Judged
    <3> QED BY <1>1, <3>3 DEF Books, Counts
  <2> QED BY <2>1, <2>2
<1> QED BY <1>6, <1>7, <1>8, <1>9, <1>10, <1>11 DEF Books

\* A share leaves a submitter for good.
LEMMA PlacesDecide ==
    ASSUME Types, Books, NEW j \in Submitters, spc[j] \in {"precheck", "submit"},
           decided' = decided \cup {sh[j]}, sh' = [sh EXCEPT ![j] = 0],
           UNCHANGED <<found, hand, submit_q>>
    PROVE  /\ Accounted' /\ Numbered' /\ QueueApart' /\ HandsApart' /\ HeldApart'
           /\ Cardinality(decided') = Cardinality(decided) + 1
           /\ Cardinality(decided) \in Nat
<1>1. sh \in [Submitters -> 0 .. MaxFound] /\ sh[j] /= 0 /\ decided \subseteq 1 .. MaxFound
      /\ found \in Nat
  BY DEF Types, SubmitTypes, Holding, FoundType
<1>2. sh'[j] = 0 /\ \A x \in Submitters \ {j} : sh'[x] = sh[x]
  BY <1>1
<1>3. /\ sh[j] \notin decided /\ sh[j] \notin Elems(submit_q)
      /\ \A w \in Workers : sh[j] \notin Elems(hand[w])
      /\ \A x \in Submitters \ {j} : sh[x] /= sh[j]
  BY <1>1 DEF Books, HeldApart
<1>4. sh[j] \in 1 .. found /\ 0 \in 0 .. found
  <2>1. sh[j] \in 0 .. found
    BY DEF Books, Numbered
  <2> QED BY <1>1, <2>1
<1>5. Accounted'
  BY <1>2 DEF Books, Accounted
<1>6. Numbered'
  BY <1>2, <1>4 DEF Books, Numbered
<1>7. QueueApart'
  BY <1>3 DEF Books, QueueApart
<1>8. HandsApart'
  BY <1>3 DEF Books, HandsApart
<1>9. HeldApart'
  BY <1>2, <1>3 DEF Books, HeldApart
<1>10. IsFiniteSet(decided)
  <2>1. IsFiniteSet(1 .. MaxFound)
    BY FS_Interval, MiningAssumption
  <2> QED BY <1>1, <2>1, FS_Subset
<1>11. Cardinality(decided') = Cardinality(decided) + 1 /\ Cardinality(decided) \in Nat
  BY <1>3, <1>10, FS_AddElement, FS_CardinalityType
<1> QED BY <1>5, <1>6, <1>7, <1>8, <1>9, <1>11

LEMMA JudgedFinite ==
    ASSUME Types
    PROVE  IsFiniteSet(Judged) /\ Cardinality(Judged) \in Nat
<1>1. Judged \subseteq 0 .. MaxFound
  <2>1. 1 .. MaxFound \subseteq 0 .. MaxFound
    BY MiningAssumption
  <2>2. decided \subseteq 1 .. MaxFound /\ \A j \in Submitters : sh[j] \in 0 .. MaxFound
    BY DEF Types, SubmitTypes
  <2> QED BY <2>1, <2>2 DEF Judged
<1>2. IsFiniteSet(Judged)
  <2>1. IsFiniteSet(0 .. MaxFound)
    BY FS_Interval, MiningAssumption
  <2> QED BY <1>1, <2>1, FS_Subset
<1> QED BY <1>2, FS_CardinalityType

LEMMA BooksSubmit ==
    ASSUME Types, Books, NEW j \in Submitters, SubmitShare(j)
    PROVE  Books'
<1>1. /\ spc[j] = "submit" /\ shares' = shares + 1 /\ decided' = decided \cup {sh[j]}
      /\ sh' = [sh EXCEPT ![j] = 0] /\ spc' = [spc EXCEPT ![j] = "check"]
      /\ UNCHANGED <<found, hand, submit_q, g_pc>>
  BY DEF SubmitShare, worker_vars, queue_vars
<1>2. /\ Accounted' /\ Numbered' /\ QueueApart' /\ HandsApart' /\ HeldApart'
      /\ Cardinality(decided') = Cardinality(decided) + 1 /\ Cardinality(decided) \in Nat
  BY <1>1, PlacesDecide
<1>3. /\ sh \in [Submitters -> 0 .. MaxFound] /\ g_pc["dropped"] \in Nat /\ shares \in Nat
      /\ spc \in [Submitters -> {"check", "precheck", "submit", "done"}]
  BY DEF Types, SubmitTypes, Counters
<1>4. shares' + g_pc'["dropped"] = Cardinality(decided')
  BY <1>1, <1>2, <1>3 DEF Books, Counts
<1>5. Judged' = Judged
  <2>1. /\ spc'[j] = "check" /\ \A x \in Submitters \ {j} : spc'[x] = spc[x] /\ sh'[x] = sh[x]
    BY <1>1, <1>3
  <2> QED BY <1>1, <2>1 DEF Judged
<1>6. Counts'
  BY <1>1, <1>4, <1>5 DEF Books, Counts
<1> QED BY <1>2, <1>6 DEF Books

LEMMA BooksPrecheck ==
    ASSUME Types, Books, NEW j \in Submitters,
           NEW u \in {"passed", "unavailable", "rejected"}, Precheck(j, u)
    PROVE  Books'
<1> DEFINE drop == u = "rejected" /\ Mode = "on"
<1>1. /\ spc[j] = "precheck" /\ g_pc' = Plus(g_pc, CountedAs(u))
      /\ UNCHANGED <<found, hand, submit_q, shares>>
  BY DEF Precheck, worker_vars, queue_vars
<1>2. /\ sh \in [Submitters -> 0 .. MaxFound] /\ g_pc \in [Counters -> Nat] /\ shares \in Nat
      /\ spc \in [Submitters -> {"check", "precheck", "submit", "done"}] /\ sh[j] /= 0
  BY <1>1 DEF Types, SubmitTypes, Holding
<1>3. /\ g_pc'["checked"] = g_pc["checked"] + 1
      /\ g_pc'["dropped"] = g_pc["dropped"] + IF drop THEN 1 ELSE 0
      /\ g_pc'["passed"] = g_pc["passed"] + IF u = "passed" THEN 1 ELSE 0
      /\ g_pc'["unavailable"] = g_pc["unavailable"] + IF u = "unavailable" THEN 1 ELSE 0
      /\ g_pc'["rejected"] = g_pc["rejected"] + IF u = "rejected" THEN 1 ELSE 0
  BY <1>1 DEF Plus, CountedAs, Counters
<1>n. /\ g_pc["checked"] \in Nat /\ g_pc["dropped"] \in Nat /\ g_pc["passed"] \in Nat
      /\ g_pc["unavailable"] \in Nat /\ g_pc["rejected"] \in Nat
  BY <1>2 DEF Counters
\* The share was not judged before.
<1>4. sh[j] \notin Judged
  <2>1. sh[j] \notin decided /\ \A x \in Submitters \ {j} : sh[x] /= sh[j]
    BY <1>2 DEF Books, HeldApart
  <2> QED BY <1>1, <2>1 DEF Judged
<1>5. Cardinality(Judged \cup {sh[j]}) = Cardinality(Judged) + 1 /\ Cardinality(Judged) \in Nat
  BY <1>4, JudgedFinite, FS_AddElement
<1>6. ASSUME Judged' = Judged \cup {sh[j]},
             shares' + g_pc'["dropped"] = Cardinality(decided')
      PROVE  Counts'
  <2>1. Mode /= "off" => g_pc'["checked"] = Cardinality(Judged')
    BY <1>3, <1>5, <1>6 DEF Books, Counts
  <2>2. Mode /= "off" => g_pc'["passed"] + g_pc'["unavailable"] + g_pc'["rejected"] = g_pc'["checked"]
    <3>1. CASE u = "passed"
      BY <1>3, <1>n, <3>1 DEF Books, Counts
    <3>2. CASE u = "unavailable"
      BY <1>3, <1>n, <3>2 DEF Books, Counts
    <3>3. CASE u = "rejected"
      BY <1>3, <1>n, <3>3 DEF Books, Counts
    <3> QED BY <3>1, <3>2, <3>3
  <2> QED BY <1>6, <2>1, <2>2 DEF Counts
<1>7. CASE drop
  <2>1. /\ decided' = decided \cup {sh[j]} /\ sh' = [sh EXCEPT ![j] = 0]
        /\ spc' = [spc EXCEPT ![j] = "check"]
    BY <1>7 DEF Precheck
  <2>2. /\ Accounted' /\ Numbered' /\ QueueApart' /\ HandsApart' /\ HeldApart'
        /\ Cardinality(decided') = Cardinality(decided) + 1 /\ Cardinality(decided) \in Nat
    BY <1>1, <2>1, PlacesDecide
  <2>3. /\ spc'[j] = "check" /\ \A x \in Submitters \ {j} : spc'[x] = spc[x] /\ sh'[x] = sh[x]
    BY <1>2, <2>1
  <2>4. Judged' = Judged \cup {sh[j]}
    BY <1>1, <2>1, <2>3 DEF Judged
  <2>5. shares' + g_pc'["dropped"] = Cardinality(decided')
    BY <1>1, <1>2, <1>3, <1>n, <1>7, <2>2 DEF Books, Counts
  <2> QED BY <1>6, <2>2, <2>4, <2>5 DEF Books
<1>8. CASE ~ drop
  <2>1. spc' = [spc EXCEPT ![j] = "submit"] /\ UNCHANGED <<decided, sh>>
    BY <1>8 DEF Precheck
  <2>2. Accounted' /\ Numbered' /\ QueueApart' /\ HandsApart' /\ HeldApart'
    BY <1>1, <2>1 DEF Books, Accounted, Numbered, QueueApart, HandsApart, HeldApart
  <2>3. spc'[j] = "submit" /\ \A x \in Submitters \ {j} : spc'[x] = spc[x]
    BY <1>2, <2>1
  <2>4. Judged' = Judged \cup {sh[j]}
    BY <1>1, <2>1, <2>3 DEF Judged
  <2>5. shares' + g_pc'["dropped"] = Cardinality(decided')
    BY <1>1, <1>3, <1>n, <1>8, <2>1 DEF Books, Counts
  <2> QED BY <1>6, <2>2, <2>4, <2>5 DEF Books
<1> QED BY <1>7, <1>8

LEMMA BooksNext == Types /\ Control /\ Books /\ [Next]_vars => Books'
<1> SUFFICES ASSUME Types, Control, Books, [Next]_vars PROVE Books'
  OBVIOUS
<1>1. CASE (\E n \in rig.jobs : Announce(n)) \/ Signal \/ MainStep \/ UNCHANGED vars
  <2>1. UNCHANGED <<hand, submit_q, spc, sh, g_pc, shares, decided, found>>
    BY <1>1 DEF Announce, Signal, MainStep, JoinWorkers, ProducersDone, NotifyAll, JoinSubmitters,
                AwaitAnswers, Close, vars, worker_vars, queue_vars, submit_vars
  <2> QED BY <2>1, BooksKept
<1>2. CASE \E w \in Workers : WorkerStep(w)
  <2>1. PICK w \in Workers : WorkerStep(w)
    BY <1>2
  <2>2. CASE QuietWorker(w) \/ Notify(w)
    <3>1. UNCHANGED <<hand, submit_q, spc, sh, g_pc, shares, decided, found>>
      BY <2>2 DEF QuietWorker, Notify, queue_vars, submit_vars
    <3> QED BY <3>1, BooksKept
  <2> QED BY <2>1, <2>2, WorkerStepKinds, BooksBatch, BooksHandOver
<1>3. CASE \E j \in Submitters : SubmitterStep(j)
  <2>1. PICK j \in Submitters : SubmitterStep(j)
    BY <1>3
  <2>2. CASE Sleep(j)
    <3>1. UNCHANGED <<hand, submit_q, spc, sh, g_pc, shares, decided, found>>
      BY <2>2 DEF Sleep, worker_vars, submit_vars
    <3> QED BY <3>1, BooksKept
  \* A submitter that leaves holds nothing.
  <2>3. CASE Leave(j)
    <3>1. /\ UNCHANGED <<hand, submit_q, sh, g_pc, shares, decided, found>>
          /\ spc[j] = "check" /\ spc' = [spc EXCEPT ![j] = "done"]
      BY <2>3 DEF Leave, worker_vars, queue_vars
    <3>2. \A x \in Submitters : spc'[x] = "submit" <=> spc[x] = "submit"
      BY <3>1 DEF Types, SubmitTypes
    <3>3. Accounted' /\ Numbered' /\ QueueApart' /\ HandsApart' /\ HeldApart'
      BY <3>1 DEF Books, Accounted, Numbered, QueueApart, HandsApart, HeldApart
    <3>4. Judged' = Judged
      BY <3>1, <3>2 DEF Judged
    <3>5. Counts'
      BY <3>1, <3>4 DEF Books, Counts
    <3> QED BY <3>3, <3>5 DEF Books
  <2> QED BY <2>1, <2>2, <2>3, BooksTake, BooksSubmit, BooksPrecheck DEF SubmitterStep
<1> QED BY <1>1, <1>2, <1>3 DEF Next

LEMMA BooksInit == Init => Books
<1> SUFFICES ASSUME Init PROVE Books
  OBVIOUS
<1>1. Elems(submit_q) = {} /\ \A w \in Workers : Elems(hand[w]) = {} /\ Distinct(hand[w])
  BY EmptyElems DEF Init, PerWorker
<1>2. Accounted /\ Numbered
  BY <1>1 DEF Init, Accounted, Numbered
<1>3. QueueApart /\ HandsApart /\ HeldApart
  BY <1>1, EmptyElems DEF Init, QueueApart, HandsApart, HeldApart
<1>4. Judged = {}
  BY DEF Init, Judged
<1>5. Counts
  BY <1>4, FS_EmptySet DEF Init, Counts, Counters
<1> QED BY <1>2, <1>3, <1>5 DEF Books

\* After the submitters are joined nothing is left anywhere but in decided and in the pools.
LEMMA NothingLostFrom == Types /\ Control /\ Books => NothingLost
<1> SUFFICES ASSUME Types, Control, Books PROVE NothingLost
  OBVIOUS
<1>1. TypeOK /\ NoLostWakeup
  BY TypesGiveTypeOK DEF Control
<1>p. InPools = UNION {Elems(hand[w]) : w \in Workers}
  BY DEF InPools, Elems
<1>2. ASSUME main \in {"ack", "closed"}
      PROVE  /\ submit_q = <<>> /\ decided = (1 .. found) \ InPools /\ Judged = decided
             /\ \A w \in Workers \ failed : hand[w] = <<>>
  <2>1. (\A j \in Submitters : spc[j] = "done") /\ submit_q = <<>>
    BY <1>2, MiningAssumption DEF Control, ShutdownOrder
  <2>2. \A j \in Submitters : sh[j] = 0
    BY <2>1 DEF Types, Holding
  <2>3. \A w \in Workers \ failed : hand[w] = <<>>
    BY <1>2 DEF Control, HandsFull, ShutdownOrder
  <2>4. \A n \in 1 .. found : n \in decided \/ n \in InPools
    <3>1. \A n \in 1 .. found : n /= 0
      BY DEF Types, FoundType
    <3> QED BY <1>p, <2>1, <2>2, <3>1, EmptyElems DEF Books, Accounted
  <2>5. decided \subseteq 1 .. found /\ decided \cap InPools = {}
    BY <1>p DEF Books, Numbered, HandsApart
  <2>6. Judged = decided
    BY <2>1 DEF Judged
  <2> QED BY <2>1, <2>3, <2>4, <2>5, <2>6
<1>3. NothingLeftBehind
  BY <1>2 DEF NothingLeftBehind
<1>4. FinalReportAddsUp
  BY <1>2 DEF Books, Counts, FinalReportAddsUp
<1> QED BY <1>1, <1>3, <1>4 DEF NothingLost

\* A share that a worker hands over reaches exactly one end, however the threads
\* interleave: no wakeup is lost, the queue is drained before the process closes,
\* and the closing report of mine_device's rig (main.cpp's shutdown) counts each
\* share once.  What is lost, if anything, is in the pools of a worker whose last batch
\* failed.
THEOREM SharesNeverLost == Spec => []NothingLost
<1>1. Init => Types /\ Control /\ Books
  BY TypesInit, ControlInit, BooksInit
<1>2. Types /\ Control /\ Books /\ [Next]_vars => Types' /\ Control' /\ Books'
  BY TypesNext, ControlNext, BooksNext
<1> QED BY <1>1, <1>2, NothingLostFrom, PTL DEF Spec

-----------------------------------------------------------------------------
(* The prompts are dense.                                                  *)

\* No draw is of a later period, those of the current one are below the counter, and a
\* worker that began its batch in it holds the counter's seed.
Periods ==
    /\ \A d \in used : d.period <= period /\ (d.period = period => d.n < canary_w)
    /\ \A n \in 0 .. canary_w - 1 : \E d \in used : d.period = period /\ d.n = n
    /\ \A w \in begun : wpc[w] = "derive" => wj[w].seed = canary_seed

DenseInv == Periods /\ PromptsDense

\* A seeded batch begins: in the current period, or as the first of a new one.
LEMMA SeedDense ==
    ASSUME Types, DenseInv, NEW w \in Workers, Seed(w), wj[w].seed /= 0
    PROVE  DenseInv'
<1>t. /\ wpc \in [Workers -> WorkerPcs] /\ canary_w \in Nat /\ period \in Nat /\ used \subseteq Draws
      /\ begun \subseteq Workers
  BY DEF Types, WorkerTypes, CanaryTypes
<1>1. /\ canary_seed' = wj[w].seed /\ wpc' = [wpc EXCEPT ![w] = "derive"]
      /\ canary_w' = (IF canary_seed /= wj[w].seed THEN 0 ELSE canary_w)
      /\ UNCHANGED <<wj, used, reused>>
      /\ IF canary_seed = wj[w].seed
         THEN begun' = begun \cup {w} /\ UNCHANGED period
         ELSE begun' = {w} /\ period' = period + 1
  BY DEF Seed, Goto, RestartCounter
<1>2. CASE canary_seed = wj[w].seed
  <2>1. UNCHANGED <<canary_seed, canary_w, period, used, reused, wj>> /\ begun' = begun \cup {w}
    BY <1>1, <1>2
  <2>2. \A x \in begun' : wpc'[x] = "derive" => wj'[x].seed = canary_seed'
    BY <1>1, <1>2, <1>t, <2>1 DEF DenseInv, Periods
  <2>3. Periods'
    BY <2>1, <2>2 DEF DenseInv, Periods
  <2>4. PromptsDense'
    BY <2>1 DEF DenseInv, PromptsDense
  <2> QED BY <2>3, <2>4 DEF DenseInv
<1>3. CASE canary_seed /= wj[w].seed
  <2>1. begun' = {w} /\ period' = period + 1 /\ canary_w' = 0
    BY <1>1, <1>3
  <2>2. \A d \in used : d.period <= period' /\ d.period /= period'
    <3> SUFFICES ASSUME NEW d \in used PROVE d.period <= period' /\ d.period /= period'
      OBVIOUS
    <3>1. d.period \in Nat /\ d.period <= period
      BY <1>t DEF DenseInv, Periods, Draws
    <3> QED BY <1>t, <2>1, <3>1
  <2>3. 0 .. canary_w' - 1 = {}
    BY <2>1
  <2>4. Periods'
    BY <1>1, <2>1, <2>2, <2>3 DEF Periods
  <2>5. {d.n : d \in {d \in used : d.period = period'}} = {}
    BY <2>2
  <2>6. PromptsDense'
    BY <1>1, <2>2, <2>3, <2>5 DEF DenseInv, PromptsDense
  <2> QED BY <2>4, <2>6 DEF DenseInv
<1> QED BY <1>2, <1>3

\* The next number of the period is drawn.
LEMMA DeriveDense ==
    ASSUME Types, DenseInv, NEW w \in Workers, Derive(w)
    PROVE  DenseInv'
<1> DEFINE p == Draw(w)
<1>t. /\ wpc \in [Workers -> WorkerPcs] /\ canary_w \in Nat /\ period \in Nat /\ used \subseteq Draws
      /\ begun \subseteq Workers
  BY DEF Types, WorkerTypes, CanaryTypes
<1>1. /\ wpc[w] = "derive" /\ canary_w' = canary_w + 1
      /\ reused' = (reused \/ \E d \in used : d.period = p.period /\ d.n = p.n)
      /\ used' = used \cup {p}
      /\ UNCHANGED <<wj, canary_seed, period, begun>>
      /\ wpc' = [wpc EXCEPT ![w] = "generate"] \/ wpc' = wpc
  BY DEF Derive, At, Goto
<1>2. p.n = canary_w /\ p.period = period /\ (p.late \/ p.seed = canary_seed)
  <2>1. p.n = canary_w /\ p.period = period /\ p.seed = wj[w].seed /\ p.late = (w \notin begun)
    BY DEF Draw
  <2> QED BY <1>1, <2>1 DEF DenseInv, Periods
<1>u. used' \subseteq Draws /\ canary_w' \in Nat
  <2>1. wj[w].seed \in Nat
    BY JobFields DEF Types, WorkerTypes
  <2>2. p \in Draws
    BY <1>t, <2>1 DEF Draw, Draws
  <2> QED BY <1>1, <1>t, <2>2
<1> HIDE DEF p
<1>3. ~ \E d \in used : d.period = p.period /\ d.n = p.n
  <2> SUFFICES ASSUME NEW d \in used, d.period = period PROVE d.n /= canary_w
    BY <1>2
  <2>1. d.n < canary_w /\ d.n \in Nat
    BY <1>t DEF DenseInv, Periods, Draws
  <2> QED BY <1>t, <2>1
<1>4. Periods'
  <2>1. \A d \in used' : d.period <= period' /\ (d.period = period' => d.n < canary_w')
    <3> SUFFICES ASSUME NEW d \in used' PROVE d.period <= period /\ (d.period = period => d.n < canary_w + 1)
      BY <1>1
    <3>1. CASE d = p
      BY <1>2, <1>t, <3>1
    <3>2. CASE d \in used
      <4>1. d.n \in Nat /\ d.period <= period /\ (d.period = period => d.n < canary_w)
        BY <1>t, <3>2 DEF DenseInv, Periods, Draws
      <4> QED BY <1>t, <4>1
    <3> QED BY <1>1, <3>1, <3>2
  <2>2. \A n \in 0 .. canary_w' - 1 : \E d \in used' : d.period = period' /\ d.n = n
    <3> SUFFICES ASSUME NEW n \in 0 .. canary_w PROVE \E d \in used' : d.period = period /\ d.n = n
      BY <1>1, <1>t
    <3>1. CASE n = canary_w
      BY <1>1, <1>2, <3>1
    <3>2. CASE n \in 0 .. canary_w - 1
      BY <1>1, <3>2 DEF DenseInv, Periods
    <3> QED BY <1>t, <3>1, <3>2
  <2>3. \A x \in begun' : wpc'[x] = "derive" => wj'[x].seed = canary_seed'
    <3>1. \A x \in Workers : wpc'[x] = "derive" => wpc[x] = "derive"
      BY <1>1, <1>t
    <3> QED BY <1>1, <1>t, <3>1 DEF DenseInv, Periods
  <2> QED BY <2>1, <2>2, <2>3 DEF Periods
<1>5. PromptsDense'
  <2>1. ~ reused'
    BY <1>1, <1>3 DEF DenseInv, PromptsDense
  <2>2. {d.n : d \in {d \in used' : d.period = period'}} = 0 .. canary_w' - 1
    <3>1. {d.n : d \in {d \in used' : d.period = period}} = 0 .. canary_w
      <4>1. \A d \in used' : d.period = period => d.n \in 0 .. canary_w
        <5> SUFFICES ASSUME NEW d \in used', d.period = period PROVE d.n \in 0 .. canary_w
          OBVIOUS
        <5>1. d.n \in Nat /\ d.n < canary_w + 1
          BY <1>1, <1>4, <1>u DEF Periods, Draws
        <5> QED BY <1>t, <5>1
      <4>2. \A n \in 0 .. canary_w : \E d \in used' : d.period = period /\ d.n = n
        <5>1. 0 .. canary_w = 0 .. canary_w' - 1
          BY <1>1, <1>t
        <5> QED BY <1>1, <1>4, <5>1 DEF Periods
      <4> QED BY <4>1, <4>2
    <3> QED BY <1>1, <1>t, <3>1
  <2>3. \A d \in used' : \A n \in 0 .. d.n : \E e \in used' : e.period = d.period /\ e.n = n
    <3> SUFFICES ASSUME NEW d \in used', NEW n \in 0 .. d.n
                 PROVE  \E e \in used' : e.period = d.period /\ e.n = n
      OBVIOUS
    <3>1. CASE d \in used
      BY <1>1, <3>1 DEF DenseInv, PromptsDense
    <3>2. CASE d = p
      <4>1. n \in 0 .. canary_w' - 1
        BY <1>1, <1>2, <1>t, <3>2
      <4> QED BY <1>1, <1>2, <1>4, <3>2, <4>1 DEF Periods
    <3> QED BY <1>1, <3>1, <3>2
  <2>4. \A d \in used' : d.period = period' => d.late \/ d.seed = canary_seed'
    BY <1>1, <1>2 DEF DenseInv, PromptsDense
  <2>5. \A d, e \in used' : d.period = e.period => d.late \/ e.late \/ d.seed = e.seed
    <3> SUFFICES ASSUME NEW d \in used', NEW e \in used', d.period = e.period, ~ d.late, ~ e.late
                 PROVE  d.seed = e.seed
      OBVIOUS
    <3>1. CASE d \in used /\ e \in used
      BY <3>1 DEF DenseInv, PromptsDense
    <3>2. CASE d = p \/ e = p
      BY <1>1, <1>2, <2>4, <3>2
    <3> QED BY <1>1, <3>1, <3>2
  <2> QED BY <2>1, <2>2, <2>3, <2>4, <2>5 DEF PromptsDense
<1> QED BY <1>4, <1>5 DEF DenseInv

LEMMA DenseNext == Types /\ DenseInv /\ [Next]_vars => DenseInv'
<1> SUFFICES ASSUME Types, DenseInv, [Next]_vars PROVE DenseInv'
  OBVIOUS
<1>t. wpc \in [Workers -> WorkerPcs] /\ wj \in [Workers -> Jobs \cup {NoJob}] /\ begun \subseteq Workers
  BY DEF Types, WorkerTypes, CanaryTypes
\* Steps that leave the counter alone and start no derivation.
<1>1. ASSUME UNCHANGED canary_vars,
             \A w \in Workers : wpc'[w] = "derive" => wpc[w] = "derive" /\ wj'[w] = wj[w]
      PROVE  DenseInv'
  <2>1. Periods'
    BY <1>1, <1>t DEF canary_vars, DenseInv, Periods
  <2>2. PromptsDense'
    BY <1>1 DEF canary_vars, DenseInv, PromptsDense
  <2> QED BY <2>1, <2>2 DEF DenseInv
<1>2. CASE (\E n \in rig.jobs : Announce(n)) \/ Signal \/ MainStep \/ UNCHANGED vars
  <2>1. UNCHANGED <<wpc, wj>> /\ UNCHANGED canary_vars
    BY <1>2 DEF Announce, Signal, MainStep, JoinWorkers, ProducersDone, NotifyAll, JoinSubmitters,
                AwaitAnswers, Close, vars, worker_vars
  <2> QED BY <1>1, <2>1
<1>3. CASE \E j \in Submitters : SubmitterStep(j)
  <2>1. UNCHANGED <<wpc, wj>> /\ UNCHANGED canary_vars
    BY <1>3 DEF SubmitterStep, Sleep, Leave, Take, SubmitShare, Precheck, worker_vars
  <2> QED BY <1>1, <2>1
<1>4. CASE \E w \in Workers : WorkerStep(w)
  <2>1. PICK w \in Workers : WorkerStep(w)
    BY <1>4
  <2>2. CASE Seed(w) /\ wj[w].seed /= 0
    BY <2>2, SeedDense
  <2>3. CASE Derive(w)
    BY <2>3, DeriveDense
  <2>4. CASE ~ (Seed(w) /\ wj[w].seed /= 0) /\ ~ Derive(w)
    <3>1. UNCHANGED canary_vars
      BY <2>1, <2>4 DEF WorkerStep, WorkerStops, Look, WrongModel, Seed, FallBack, BatchFails,
                        BatchDone, HandOver, Notify, canary_vars
    <3>2. (\E p \in WorkerPcs \ {"derive"} : wpc' = [wpc EXCEPT ![w] = p]) \/ (wpc' = wpc /\ wpc[w] = "look")
      <4>1. CASE WorkerStops(w) \/ WrongModel(w) \/ FallBack(w) \/ HandOver(w) \/ Notify(w)
                 \/ \E n \in 0 .. 2 : BatchFails(w, n) \/ BatchDone(w, n)
        BY <4>1 DEF WorkerStops, WrongModel, FallBack, BatchFails, BatchDone, HandOver, Notify, Goto,
                    NextTurn, WorkerPcs
      <4>2. CASE Look(w)
        BY <4>2 DEF Look, At, Goto, WorkerPcs
      <4>4. CASE Seed(w)
        <5>1. wj[w].seed = 0
          BY <2>4, <4>4
        <5> QED BY <4>4, <5>1 DEF Seed, Goto, WorkerPcs
      <4> QED BY <2>1, <2>4, <4>1, <4>2, <4>4 DEF WorkerStep
    <3>3. \A x \in Workers \ {w} : wj'[x] = wj[x]
      BY <1>t, <2>1, <2>4 DEF WorkerStep, WorkerStops, Look, WrongModel, Seed, FallBack, BatchFails,
                        BatchDone, HandOver, Notify, NextTurn
    <3>4. \A x \in Workers : wpc'[x] = "derive" => wpc[x] = "derive" /\ x /= w
      BY <1>t, <3>2
    <3> QED BY <1>1, <3>1, <3>3, <3>4
  <2> QED BY <2>1, <2>2, <2>3, <2>4
<1> QED BY <1>2, <1>3, <1>4 DEF Next

\* Whatever seeds the pool sends, and whichever workers derive the prompts however their
\* batches end: between two changes of the seed canary_w.fetch_add(1) gives out 0, 1, ... up
\* to the counter, none twice, and only a worker that began before the change takes a number
\* for another seed.
THEOREM CounterDense == Spec => []PromptsDense
<1>1. Init => Types /\ DenseInv
  <2> SUFFICES ASSUME Init PROVE DenseInv
    BY TypesInit
  <2>1. 0 .. 0 - 1 = {}
    OBVIOUS
  <2>2. used = {} /\ canary_w = 0 /\ begun = {} /\ reused = FALSE
    BY DEF Init
  <2>3. Periods
    BY <2>1, <2>2 DEF Periods
  <2>4. {d.n : d \in {d \in used : d.period = period}} = {}
    BY <2>2
  <2>5. PromptsDense
    BY <2>1, <2>2, <2>4 DEF PromptsDense
  <2> QED BY <2>3, <2>5 DEF DenseInv
<1>2. Types /\ DenseInv /\ [Next]_vars => Types' /\ DenseInv'
  BY TypesNext, DenseNext
<1>3. DenseInv => PromptsDense
  BY DEF DenseInv
<1> QED BY <1>1, <1>2, <1>3, PTL DEF Spec

-----------------------------------------------------------------------------
LEMMA TheGates ==
    /\ DOMAIN Pipeline = 1 .. 7 /\ Len(Pipeline) = 7
    /\ Pipeline[1] = "strict" /\ Pipeline[2] = "near-pin" /\ Pipeline[3] = "candidate-band"
    /\ Pipeline[4] = "prompt-scaffold" /\ Pipeline[5] = "flat-region" /\ Pipeline[6] = "credit-tier"
    /\ Pipeline[7] = "anti-parrot"
    /\ Gates = {"strict", "near-pin", "candidate-band", "prompt-scaffold", "flat-region",
               "credit-tier", "anti-parrot"}
<1>1. DOMAIN Pipeline = 1 .. 7 /\ Len(Pipeline) = 7
  BY DEF Pipeline
<1>2. /\ Pipeline[1] = "strict" /\ Pipeline[2] = "near-pin" /\ Pipeline[3] = "candidate-band"
      /\ Pipeline[4] = "prompt-scaffold" /\ Pipeline[5] = "flat-region" /\ Pipeline[6] = "credit-tier"
      /\ Pipeline[7] = "anti-parrot"
  BY DEF Pipeline
<1>3. \A j : j \in 1 .. 7 <=> j \in {1, 2, 3, 4, 5, 6, 7}
  OBVIOUS
<1>4. Gates = {Pipeline[j] : j \in {1, 2, 3, 4, 5, 6, 7}}
  BY <1>1, <1>3 DEF Gates
<1> HIDE DEF Pipeline
<1> QED BY <1>1, <1>2, <1>4

LEMMA ItemCases ==
    ASSUME NEW t \in Items
    PROVE  /\ t.remove \in BOOLEAN
           /\ t.name = "" => t.remove = FALSE
<1>1. CASE t \in [name : Named \cup {"all", "none", "other"}, remove : BOOLEAN]
  <2>1. t.remove \in BOOLEAN /\ t.name \in Named \cup {"all", "none", "other"}
    BY <1>1
  <2>2. t.name /= ""
    BY <2>1, PrecheckAssumption, TheGates
  <2> QED BY <2>1, <2>2
<1>2. CASE t = [name |-> "", remove |-> FALSE]
  BY <1>2
<1> QED BY <1>1, <1>2 DEF Items

-----------------------------------------------------------------------------
(* The mask.                                                               *)

ListedTo(g, n) == \E j \in 1 .. n : /\ Adds(spec[j], g)
                                    /\ \A i \in (j + 1) .. n : ~ TakesAway(spec[i], g)

OptionTypes == /\ available \in BOOLEAN
               /\ spec \in Seq(Items) /\ pos \in 0 .. Len(spec)
               /\ m \subseteq Gates /\ any \in BOOLEAN /\ pc_gates \subseteq Gates
               /\ pc_mode \in {"off", "shadow", "on"}
               /\ phase \in {"mode", "gates", "parsed", "exit", "idle", "proof", "running",
                             "verdict", "decided"}

ReadSoFar ==
    /\ phase = "mode" => pos = 0 /\ m = {} /\ pc_gates = Implemented
    /\ phase = "gates" => /\ spec /= <<>>
                          /\ m \cap Implemented = {g \in Implemented : ListedTo(g, pos)}

MaskInv == OptionTypes /\ ReadSoFar /\ MaskIsLastMention

(* One more item: the gates whose last mention adds them are the ones it   *)
(* adds, and the ones it does not take away.                               *)
LEMMA ItemApplies ==
    ASSUME NEW g \in Gates, NEW old \in SUBSET Gates, NEW t \in Items, ~ Blank(t), t.name /= "other",
           g \in Implemented
    PROVE  g \in Apply(old, t) <=> Adds(t, g) \/ (g \in old /\ ~ TakesAway(t, g))
<1>1. g /= "all" /\ g /= "none" /\ g /= "other" /\ g /= ""
  BY TheGates
<1>2. t.remove \in BOOLEAN
  BY ItemCases
<1>3. Implemented = Gates
  BY DEF Implemented
<1>4. g \in Bits(t) <=> t.name \in {"all", g}
  <2>0. "all" \notin Gates
    BY TheGates
  <2>1. CASE t.name = "all"
    <3>1. Bits(t) = Implemented
      BY <2>0, <2>1 DEF Bits
    <3> QED BY <2>1, <3>1
  <2>2. CASE t.name /= "all" /\ t.name \in Gates
    <3>1. Bits(t) = {t.name}
      BY <2>2 DEF Bits
    <3> QED BY <2>2, <3>1
  <2>3. CASE t.name /= "all" /\ t.name \notin Gates
    <3>1. Bits(t) = {}
      BY <2>3 DEF Bits
    <3> QED BY <2>3, <3>1
  <2> QED BY <2>1, <2>2, <2>3
<1>5. CASE t.name = "none" /\ ~ t.remove
  BY <1>1, <1>5 DEF Apply, Adds, TakesAway
<1>6. CASE ~ (t.name = "none" /\ ~ t.remove) /\ t.remove
  BY <1>1, <1>4, <1>6 DEF Apply, Adds, TakesAway
<1>7. CASE ~ (t.name = "none" /\ ~ t.remove) /\ ~ t.remove
  BY <1>1, <1>4, <1>7 DEF Apply, Adds, TakesAway
<1> QED BY <1>2, <1>5, <1>6, <1>7

LEMMA ListedNext ==
    ASSUME NEW g, NEW n \in Nat
    PROVE  ListedTo(g, n + 1) <=> \/ Adds(spec[n + 1], g)
                                  \/ ListedTo(g, n) /\ ~ TakesAway(spec[n + 1], g)
<1>1. ASSUME ListedTo(g, n + 1), ~ Adds(spec[n + 1], g)
      PROVE  ListedTo(g, n) /\ ~ TakesAway(spec[n + 1], g)
  <2>1. PICK j \in 1 .. n + 1 : /\ Adds(spec[j], g)
                                /\ \A i \in (j + 1) .. n + 1 : ~ TakesAway(spec[i], g)
    BY <1>1 DEF ListedTo
  <2>2. j \in 1 .. n /\ n + 1 \in (j + 1) .. n + 1 /\ \A i \in (j + 1) .. n : i \in (j + 1) .. n + 1
    BY <1>1, <2>1
  <2> QED BY <2>1, <2>2 DEF ListedTo
<1>2. ASSUME Adds(spec[n + 1], g) PROVE ListedTo(g, n + 1)
  <2>1. n + 1 \in 1 .. n + 1 /\ ((n + 1) + 1) .. n + 1 = {}
    OBVIOUS
  <2> QED BY <1>2, <2>1 DEF ListedTo
<1>3. ASSUME ListedTo(g, n), ~ TakesAway(spec[n + 1], g) PROVE ListedTo(g, n + 1)
  <2>1. PICK j \in 1 .. n : /\ Adds(spec[j], g)
                            /\ \A i \in (j + 1) .. n : ~ TakesAway(spec[i], g)
    BY <1>3 DEF ListedTo
  <2>2. j \in 1 .. n + 1 /\ \A i \in (j + 1) .. n + 1 : i \in (j + 1) .. n \/ i = n + 1
    OBVIOUS
  <2> QED BY <1>3, <2>1, <2>2 DEF ListedTo
<1> QED BY <1>1, <1>2, <1>3

LEMMA MaskInit == PrecheckInit => MaskInv
<1> SUFFICES ASSUME PrecheckInit PROVE MaskInv
  OBVIOUS
<1>1. spec \in Seq(Items) /\ Len(spec) \in Nat
  <2>1. PICK n \in 0 .. MaxNames : spec \in [1 .. n -> Items]
    BY DEF PrecheckInit
  <2>2. n \in Nat
    BY PrecheckAssumption
  <2> QED BY <2>1, <2>2
<1>2. Implemented \subseteq Gates
  BY DEF Implemented
<1>3. OptionTypes
  <2>1. 0 \in 0 .. Len(spec) /\ {} \subseteq Gates
    BY <1>1
  <2>2. available \in BOOLEAN /\ pos = 0 /\ m = {} /\ any = FALSE /\ pc_mode = "on" /\ pc_gates = Implemented
        /\ phase = "mode"
    BY DEF PrecheckInit
  <2> QED BY <1>1, <1>2, <2>1, <2>2 DEF OptionTypes
<1> QED BY <1>3 DEF PrecheckInit, MaskInv, ReadSoFar, MaskIsLastMention

LEMMA ParseItemMask ==
    ASSUME MaskInv, ParseItem
    PROVE  MaskInv'
<1> DEFINE t == spec[pos + 1]
<1>0. /\ phase = "gates" /\ pos < Len(spec) /\ pos \in Nat /\ pos' = pos + 1
      /\ UNCHANGED <<available, spec, pc_gates, pc_mode>>
      /\ spec \in Seq(Items) /\ Len(spec) \in Nat /\ m \subseteq Gates
      /\ any' = (any \/ ~ Blank(t))
      /\ m' = (IF Blank(t) \/ t.name = "other" THEN m ELSE Apply(m, t))
      /\ phase' = (IF t.name = "other" THEN "exit" ELSE "gates")
  BY DEF ParseItem, MaskInv, OptionTypes
<1>1. pos + 1 \in 1 .. Len(spec) /\ t \in Items
  BY <1>0
<1> HIDE DEF t
<1>2. Implemented' = Implemented /\ Implemented \subseteq Gates
  BY <1>0 DEF Implemented
<1>3. m' \subseteq Gates
  BY <1>0, <1>2 DEF Apply, Bits
<1>4. OptionTypes'
  BY <1>0, <1>1, <1>3 DEF OptionTypes, MaskInv
<1>5. ReadSoFar'
  <2> SUFFICES ASSUME phase' = "gates"
               PROVE  /\ spec' /= <<>>
                      /\ m' \cap Implemented = {g \in Implemented : ListedTo(g, pos + 1)}
    <3>1. phase' /= "mode"
      BY <1>0
    <3>2. \A g : ListedTo(g, pos)' <=> ListedTo(g, pos + 1)
      BY <1>0 DEF ListedTo
    <3> QED BY <1>2, <3>1, <3>2 DEF ReadSoFar
  <2>1. t.name /= "other" /\ spec /= <<>>
    BY <1>0 DEF MaskInv, ReadSoFar
  <2>2. ASSUME NEW g \in Implemented
        PROVE  g \in m' <=> ListedTo(g, pos + 1)
    <3>1. ListedTo(g, pos + 1) <=> Adds(t, g) \/ (ListedTo(g, pos) /\ ~ TakesAway(t, g))
      BY <1>0, ListedNext DEF t
    <3>2. g \in m <=> ListedTo(g, pos)
      BY <1>0 DEF MaskInv, ReadSoFar
    <3>3. CASE Blank(t)
      <4>1. t.name = "" /\ t.remove = FALSE
        BY <3>3, <1>1, ItemCases DEF Blank
      <4>2. g /= ""
        BY <1>2, TheGates
      <4> QED BY <1>0, <3>1, <3>2, <3>3, <4>1, <4>2 DEF Adds, TakesAway
    <3>4. CASE ~ Blank(t)
      <4>1. m' = Apply(m, t)
        BY <1>0, <2>1, <3>4
      <4>2. g \in Apply(m, t) <=> Adds(t, g) \/ (g \in m /\ ~ TakesAway(t, g))
        BY <1>0, <1>1, <1>2, <2>1, <3>4, ItemApplies
      <4> QED BY <3>1, <3>2, <4>1, <4>2
    <3> QED BY <3>3, <3>4
  <2> QED BY <1>0, <2>1, <2>2
<1>6. MaskIsLastMention'
  BY <1>0 DEF MaskIsLastMention
<1> QED BY <1>4, <1>5, <1>6 DEF MaskInv

LEMMA EndOfListMask ==
    ASSUME MaskInv, EndOfList
    PROVE  MaskInv'
<1>0. /\ phase = "gates" /\ pos = Len(spec) /\ UNCHANGED <<available, spec, pos, m, any, pc_mode>>
      /\ \/ pc_gates' = m \cap Implemented /\ phase' = "parsed"
         \/ phase' = "exit" /\ UNCHANGED pc_gates
      /\ spec /= <<>> /\ m \cap Implemented = {g \in Implemented : ListedTo(g, pos)}
      /\ OptionTypes
  BY DEF EndOfList, MaskInv, ReadSoFar
<1>1. OptionTypes'
  BY <1>0 DEF OptionTypes
<1>2. MaskIsLastMention'
  <2>1. \A g : ListedTo(g, pos) <=> Listed(g)'
    BY <1>0 DEF ListedTo, Listed
  <2>2. Implemented' = Implemented
    BY <1>0 DEF Implemented
  <2> QED BY <1>0, <2>1, <2>2 DEF MaskIsLastMention
<1>3. ReadSoFar'
  BY <1>0 DEF ReadSoFar
<1> QED BY <1>1, <1>2, <1>3 DEF MaskInv

LEMMA ParseModeMask ==
    ASSUME MaskInv, ParseMode
    PROVE  MaskInv'
<1>0. /\ phase = "mode" /\ UNCHANGED <<available, spec, pos, m, any, pc_gates>>
      /\ pos = 0 /\ m = {} /\ pc_gates = Implemented
      /\ \/ /\ pc_mode' \in {"off", "shadow", "on"}
            /\ phase' = IF spec = <<>> THEN "parsed" ELSE "gates"
         \/ phase' = "exit" /\ UNCHANGED pc_mode
      /\ OptionTypes
  BY DEF ParseMode, MaskInv, ReadSoFar
<1>1. OptionTypes'
  BY <1>0 DEF OptionTypes
<1>2. Implemented' = Implemented
  BY <1>0 DEF Implemented
<1>3. \A g : ~ ListedTo(g, pos)'
  BY <1>0 DEF ListedTo
<1>4. ReadSoFar'
  <2>1. phase' = "gates" => spec' /= <<>>
    BY <1>0
  <2>2. phase' /= "mode"
    BY <1>0
  <2>3. m' \cap Implemented' = {g \in Implemented' : ListedTo(g, pos)'}
    BY <1>0, <1>3
  <2> QED BY <2>1, <2>2, <2>3 DEF ReadSoFar
<1>5. MaskIsLastMention'
  BY <1>0, <1>2 DEF MaskIsLastMention
<1> QED BY <1>1, <1>4, <1>5 DEF MaskInv

LEMMA MaskStep == MaskInv /\ [PrecheckNext]_precheckVars => MaskInv'
<1> SUFFICES ASSUME MaskInv, [PrecheckNext]_precheckVars
             PROVE  MaskInv'
  OBVIOUS
<1>1. CASE ParseMode
  BY <1>1, ParseModeMask
<1>2. CASE ParseItem
  BY <1>2, ParseItemMask
<1>3. CASE EndOfList
  BY <1>3, EndOfListMask
<1>4. CASE OptionsRead
  <2>1. /\ phase' = "idle" /\ spec' = <<>> /\ pos' = 0 /\ m' = {} /\ any' = FALSE
        /\ UNCHANGED <<available, pc_gates>> /\ pc_mode' \in {"off", pc_mode}
    BY <1>4 DEF OptionsRead
  <2>2. OptionTypes'
    <3>1. <<>> \in Seq(Items) /\ 0 \in 0 .. Len(<<>>) /\ {} \subseteq Gates
      OBVIOUS
    <3>2. pc_mode' \in {"off", "shadow", "on"} /\ available' \in BOOLEAN /\ pc_gates' \subseteq Gates
      BY <2>1 DEF MaskInv, OptionTypes
    <3> QED BY <2>1, <3>1, <3>2 DEF OptionTypes
  <2> QED BY <2>1, <2>2 DEF MaskInv, ReadSoFar, MaskIsLastMention
<1>5. ASSUME UNCHANGED options,
             phase' \in {"idle", "proof", "running", "verdict", "decided"}
      PROVE  MaskInv'
  <2>1. OptionTypes'
    BY <1>5 DEF MaskInv, OptionTypes, options
  <2> QED BY <1>5, <2>1 DEF MaskInv, ReadSoFar, MaskIsLastMention
<1>6. CASE \/ TakeProof \/ NoBytes \/ DecodeFails \/ FloatRefused \/ KernelGivesNothing
           \/ KernelRefuses \/ KernelPass \/ SkipGate \/ AllGatesRun \/ InternalError \/ Decide \/ NextProof
  BY <1>5, <1>6 DEF TakeProof, NoBytes, DecodeFails, FloatRefused, KernelGivesNothing, Abandon,
                    KernelRefuses, KernelPass, SkipGate, AllGatesRun, InternalError, Decide, NextProof
<1>7. CASE RunGate
  <2>1. UNCHANGED options /\ phase' \in {"running", "verdict"}
    BY <1>7 DEF RunGate
  <2> QED BY <1>5, <2>1
<1>8. CASE UNCHANGED precheckVars
  BY <1>8 DEF precheckVars, options, MaskInv, OptionTypes, ReadSoFar, ListedTo, Implemented, MaskIsLastMention,
              Listed
<1> QED BY <1>1, <1>2, <1>3, <1>4, <1>6, <1>7, <1>8 DEF PrecheckNext

(* parse_gates: a list of any length enables exactly the gates whose last  *)
(* mention adds them.                                                      *)
THEOREM MaskExact == PrecheckSpec => []MaskIsLastMention
<1>1. MaskInv => MaskIsLastMention
  BY DEF MaskInv
<1> QED BY <1>1, MaskInit, MaskStep, PTL DEF PrecheckSpec

-----------------------------------------------------------------------------
(* The verdict.                                                            *)

ProofTypes ==
    /\ height \in Nat
    /\ ws \in [strict : BOOLEAN, valid : BOOLEAN, pins : Nat, units : Nat,
               band : {"incomplete", "reject", "pass"}]
    /\ sunset \in SunsetOutcomes \cup {"not_run"}
    /\ parrot \in {"not_run", "pass", "reject", "bad_input", "status"}
    /\ k \in 1 .. 8
    /\ reason \in {"none", "not_evaluated", "refused", "abstained", "rejected", "internal_error"}
    /\ v \in [outcome : {"pass", "reject", "unavailable"}, gate : Gates \cup {"count"},
              withheld : BOOLEAN, kernel : BOOLEAN]
    /\ submit \in BOOLEAN

\* No enabled gate before position n is against the proof.
ClearTo(n) == \A i \in 1 .. 7 : i < n /\ Pipeline[i] \in pc_gates => ~ Against(Pipeline[i])

\* The loop over kPipeline: nothing is decided, and nothing passed is against.
PassedSoFar ==
    phase = "running" =>
        /\ v.kernel /\ v.outcome = "unavailable" /\ v.gate = "count"
        /\ reason \in {"none", "abstained"}
        /\ ClearTo(k)
        /\ k > 4 /\ "prompt-scaffold" \in pc_gates => sunset /= "not_run"

Caused == /\ v.gate \in pc_gates
          /\ v.kernel => \E j \in 1 .. 7 : /\ Pipeline[j] = v.gate /\ Against(v.gate)
                                           /\ ClearTo(j)
Cleared == v.kernel /\ reason /= "internal_error" => \A g \in pc_gates : ~ Against(g)
Counted == v.gate = "credit-tier" /\ "near-pin" \in pc_gates => (v.withheld <=> TierAt(0) = "free")

Recorded ==
    phase \in {"verdict", "decided"} =>
        /\ v.outcome = "reject" => Caused
        /\ v.outcome /= "reject" => Cleared
        /\ Counted

Acted ==
    /\ phase = "proof" => v = Unavailable /\ k = 1 /\ reason = "none"
    /\ phase = "decided" => /\ ~ submit => v.outcome = "reject" /\ pc_mode = "on"
                            /\ submit /\ pc_mode = "on" => v.outcome /= "reject"

VerdictInv == ProofTypes /\ PassedSoFar /\ Recorded /\ Acted

-----------------------------------------------------------------------------
(* The tier as the credit gate and as the counter use it.                  *)
LEMMA Tiers ==
    ASSUME ProofTypes
    PROVE  /\ TierAt(height) /= "free" <=> \/ ws.units < B_FREE
                                           \/ Ruleset5(height) /\ ws.valid /\ ws.pins > PIN_FREE
           /\ TierAt(0) = "free" <=> ws.units >= B_FREE
           /\ Ruleset5(height) /\ ws.valid /\ ws.units >= B_FREE /\ ws.pins > PIN_FREE
                /\ ws.pins < PIN_REJECT => TierAt(height) = "admission"
<1>1. ws.units \in Nat /\ ws.pins \in Nat /\ ws.valid \in BOOLEAN
  BY DEF ProofTypes
<1>2. CreditTier(ws.units) = "free" <=> ws.units >= B_FREE
  BY <1>1, PrecheckAssumption DEF CreditTier
<1>3. ~ Ruleset5(0)
  BY DEF Ruleset5
<1>4. TierAt(0) = CreditTier(ws.units)
  BY <1>3 DEF TierAt
<1>5. CASE Ruleset5(height) /\ ws.valid
  <2>1. TierAt(height) = Ruleset5Tier(ws.units, ws.pins)
    BY <1>5 DEF TierAt
  <2>2. CASE ws.pins >= PIN_REJECT
    <3>1. TierAt(height) = "invalid"
      BY <2>1, <2>2 DEF Ruleset5Tier
    <3>2. ws.pins > PIN_FREE /\ ~ (ws.pins < PIN_REJECT)
      BY <1>1, <2>2, PrecheckAssumption
    <3> QED BY <1>2, <1>4, <1>5, <3>1, <3>2
  <2>3. CASE ~ (ws.pins >= PIN_REJECT) /\ ws.units >= B_FREE /\ ws.pins > PIN_FREE
    <3>1. TierAt(height) = "admission"
      BY <1>2, <2>1, <2>3 DEF Ruleset5Tier
    <3> QED BY <1>2, <1>4, <1>5, <2>3, <3>1
  <2>4. CASE ~ (ws.pins >= PIN_REJECT) /\ ~ (ws.units >= B_FREE /\ ws.pins > PIN_FREE)
    <3>1. TierAt(height) = CreditTier(ws.units)
      BY <1>2, <2>1, <2>4 DEF Ruleset5Tier
    <3>2. ws.units < B_FREE <=> ~ (ws.units >= B_FREE)
      BY <1>1, PrecheckAssumption
    <3> QED BY <1>2, <1>4, <1>5, <2>4, <3>1, <3>2
  <2> QED BY <2>2, <2>3, <2>4
<1>6. CASE ~ (Ruleset5(height) /\ ws.valid)
  <2>1. TierAt(height) = CreditTier(ws.units)
    BY <1>6 DEF TierAt
  <2>2. ws.units < B_FREE <=> ~ (ws.units >= B_FREE)
    BY <1>1, PrecheckAssumption
  <2> QED BY <1>2, <1>4, <1>6, <2>1, <2>2
<1> QED BY <1>5, <1>6

(* What a rule forbids, gate by gate, so that no proof below opens the     *)
(* case analysis again.                                                    *)
LEMMA AgainstIs ==
    /\ Against("strict") <=> ~ ws.strict
    /\ Against("near-pin") <=> ws.valid /\ ws.pins >= PIN_REJECT
    /\ Against("candidate-band") <=> ws.band = "reject"
    /\ Against("prompt-scaffold") <=> sunset \in {"scaffold", "bad_input"}
    /\ Against("flat-region") <=> sunset \in {"flat", "bad_input"}
    /\ Against("credit-tier") <=> \/ ws.units < B_FREE
                                  \/ Ruleset5(height) /\ ws.valid /\ ws.pins > PIN_FREE
    /\ Against("anti-parrot") <=> parrot \in {"reject", "bad_input"}
BY DEF Against

LEMMA ResultIs ==
    ASSUME NEW s, NEW p
    PROVE  /\ GateResult("strict", s, p) = gate_strict
           /\ GateResult("near-pin", s, p) = gate_near_pin
           /\ GateResult("candidate-band", s, p) = gate_candidate_band
           /\ GateResult("prompt-scaffold", s, p) = gate_prompt_scaffold(s)
           /\ GateResult("flat-region", s, p) = gate_flat_region(s)
           /\ GateResult("credit-tier", s, p) = gate_credit_tier
           /\ GateResult("anti-parrot", s, p) = gate_anti_parrot(p)
BY DEF GateResult

(* A gate rejects exactly what its rule forbids, for whatever the sunset   *)
(* and the anti-parrot rules find.                                         *)
LEMMA RejectsExactly ==
    ASSUME ProofTypes, NEW g \in Gates, NEW s \in SunsetOutcomes \cup {"not_run"},
           NEW p \in {"not_run", "pass", "reject", "bad_input", "status"},
           ws' = ws, height' = height, sunset' = s, parrot' = p
    PROVE  GateResult(g, s, p) = "reject" <=> Against(g)'
<1>0. ws.strict \in BOOLEAN /\ ws.valid \in BOOLEAN /\ ws.band \in {"incomplete", "reject", "pass"}
  BY DEF ProofTypes
<1>1. s \in {"pass", "scaffold", "flat", "no_flat", "bad_input", "status", "pad_length", "not_run"}
  BY DEF SunsetOutcomes
<1>a. SunsetResult(s) = "reject" <=> s = "bad_input"
  BY <1>1 DEF SunsetResult
<1>2. CASE g = "strict"
  BY <1>0, <1>2, ResultIs DEF gate_strict, Against
<1>3. CASE g = "near-pin"
  BY <1>0, <1>3, ResultIs DEF gate_near_pin, Against
<1>4. CASE g = "candidate-band"
  BY <1>0, <1>4, ResultIs DEF gate_candidate_band, Against
<1>5. CASE g = "prompt-scaffold"
  <2>1. Against(g)' <=> s \in {"scaffold", "bad_input"}
    BY <1>5 DEF Against
  <2>2. gate_prompt_scaffold(s) = "reject" <=> s \in {"scaffold", "bad_input"}
    BY <1>a DEF gate_prompt_scaffold
  <2> QED BY <1>5, <2>1, <2>2, ResultIs
<1>6. CASE g = "flat-region"
  <2>1. Against(g)' <=> s \in {"flat", "bad_input"}
    BY <1>6 DEF Against
  <2>2. gate_flat_region(s) = "reject" <=> s \in {"flat", "bad_input"}
    BY <1>1, <1>a DEF gate_flat_region
  <2> QED BY <1>6, <2>1, <2>2, ResultIs
<1>7. CASE g = "credit-tier"
  <2>1. Against(g)' <=> ws.units < B_FREE \/ (Ruleset5(height) /\ ws.valid /\ ws.pins > PIN_FREE)
    BY <1>7 DEF Against, Ruleset5
  <2>2. gate_credit_tier = "reject" <=> TierAt(height) /= "free"
    BY DEF gate_credit_tier
  <2> QED BY <1>7, <2>1, <2>2, ResultIs, Tiers
<1>8. CASE g = "anti-parrot"
  <2>1. Against(g)' <=> p \in {"reject", "bad_input"}
    BY <1>8 DEF Against
  <2>2. gate_anti_parrot(p) = "reject" <=> p \in {"reject", "bad_input"}
    BY DEF gate_anti_parrot
  <2> QED BY <1>8, <2>1, <2>2, ResultIs
<1> QED BY <1>2, <1>3, <1>4, <1>5, <1>6, <1>7, <1>8, TheGates

LEMMA RunGateVerdict ==
    ASSUME OptionTypes, VerdictInv, RunGate
    PROVE  VerdictInv'
<1>g. PICK g : g = Pipeline[k]
  OBVIOUS
<1>0. /\ ProofTypes /\ phase = "running" /\ k \in 1 .. 7 /\ g \in pc_gates /\ g \in Gates
      /\ UNCHANGED <<available, pc_mode, pc_gates, height, ws, submit>> /\ k' = k + 1
      /\ v.kernel /\ v.outcome = "unavailable" /\ v.gate = "count"
      /\ reason \in {"none", "abstained"} /\ ClearTo(k)
      /\ k > 4 /\ "prompt-scaffold" \in pc_gates => sunset /= "not_run"
  BY <1>g, TheGates DEF RunGate, VerdictInv, PassedSoFar, ProofTypes, OptionTypes, options
<1>1. PICK s \in RunSunset(g), p \in RunAntiParrot(g) :
         LET r == GateResult(g, s, p) IN
         /\ sunset' = s /\ parrot' = p
         /\ reason' = IF r = "reject" THEN "rejected"
                      ELSE IF r = "unavailable" /\ reason = "none" THEN "abstained" ELSE reason
         /\ phase' = IF GoesOn(r) THEN "running" ELSE "verdict"
         /\ v' = IF r = "reject"
                 THEN [v EXCEPT !.outcome = "reject", !.gate = g,
                                !.withheld = (g = "credit-tier" /\ NewlyWithheld)]
                 ELSE v
  BY <1>g DEF RunGate
<1> DEFINE r == GateResult(g, s, p)
<1>2. /\ s \in SunsetOutcomes \cup {"not_run"}
      /\ p \in {"not_run", "pass", "reject", "bad_input", "status"}
  BY <1>0 DEF ProofTypes, RunSunset, RunAntiParrot
<1>3. r = "reject" <=> Against(g)'
  BY <1>0, <1>1, <1>2, RejectsExactly
<1>4. \A i \in 1 .. 7 : i < k /\ Pipeline[i] \in pc_gates => ~ Against(Pipeline[i])'
  <2> SUFFICES ASSUME NEW i \in 1 .. 7, i < k, Pipeline[i] \in pc_gates
               PROVE  ~ Against(Pipeline[i])'
    OBVIOUS
  <2>1. ~ Against(Pipeline[i])
    BY <1>0 DEF ClearTo
  <2>2. CASE i < 4
    <3>1. Pipeline[i] \in {"strict", "near-pin", "candidate-band"}
      BY <2>2, TheGates
    <3> QED BY <1>0, <2>1, <3>1 DEF Against
  <2>3. CASE i = 4
    <3>1. sunset /= "not_run"
      BY <1>0, <2>3, TheGates
    <3>2. sunset' = sunset
      BY <1>1, <3>1 DEF RunSunset
    <3> QED BY <2>1, <2>3, <3>2, TheGates DEF Against
  <2>4. CASE i = 5
    <3>1. g \in {"credit-tier", "anti-parrot"}
      BY <1>0, <1>g, <2>4, TheGates
    <3>2. sunset' = sunset
      BY <1>1, <3>1 DEF RunSunset
    <3> QED BY <2>1, <2>4, <3>2, TheGates DEF Against
  <2>5. CASE i = 6
    BY <1>0, <2>1, <2>5, TheGates DEF Against, Ruleset5
  <2> QED BY <1>0, <2>2, <2>3, <2>4, <2>5
<1>5. k > 3 /\ "prompt-scaffold" \in pc_gates => sunset' /= "not_run"
  <2>1. CASE k = 4
    <3>1. g = "prompt-scaffold"
      BY <1>g, <2>1, TheGates
    <3> QED BY <1>1, <3>1 DEF RunSunset, SunsetOutcomes
  <2>2. CASE k > 4
    BY <1>0, <1>1, <2>2 DEF RunSunset
  <2> QED BY <1>0, <2>1, <2>2
<1> HIDE DEF r
<1>6. CASE r = "reject"
  <2> DEFINE w == (g = "credit-tier" /\ NewlyWithheld)
  <2>1. v' = [v EXCEPT !.outcome = "reject", !.gate = g, !.withheld = w] /\ phase' = "verdict"
        /\ reason' = "rejected" /\ sunset' = s /\ parrot' = p
    BY <1>1, <1>6 DEF GoesOn, r
  <2>2. w \in BOOLEAN
    OBVIOUS
  <2> HIDE DEF w
  <2>3. v \in [outcome : {"pass", "reject", "unavailable"}, gate : Gates \cup {"count"},
               withheld : BOOLEAN, kernel : BOOLEAN]
    BY <1>0 DEF ProofTypes
  <2>4. /\ v' \in [outcome : {"pass", "reject", "unavailable"}, gate : Gates \cup {"count"},
                   withheld : BOOLEAN, kernel : BOOLEAN]
        /\ v'.outcome = "reject" /\ v'.gate = g /\ v'.withheld = w /\ v'.kernel = v.kernel
    BY <1>0, <2>1, <2>2, <2>3
  <2>5. ProofTypes'
    BY <1>0, <1>2, <2>1, <2>4 DEF ProofTypes, SunsetOutcomes
  <2>6. Caused'
    <3>2. \A i \in 1 .. 7 : i < k /\ Pipeline[i] \in pc_gates' => ~ Against(Pipeline[i])'
      BY <1>0, <1>4
    <3>3. Against(v.gate)'
      BY <1>3, <1>6, <2>4
    <3> QED BY <1>0, <1>g, <2>4, <3>2, <3>3 DEF Caused, ClearTo
  <2>7. Counted'
    <3> SUFFICES ASSUME g = "credit-tier", "near-pin" \in pc_gates
                 PROVE  w <=> TierAt(0)' = "free"
      BY <1>0, <2>4 DEF Counted
    <3>1. k = 6
      BY <1>0, <1>g, TheGates
    <3>2. ~ (ws.valid /\ ws.pins >= PIN_REJECT)
      <4>1. Pipeline[2] = "near-pin" /\ 2 \in 1 .. 7 /\ 2 < k
        BY <3>1, TheGates
      <4>2. ~ Against("near-pin")
        BY <1>0, <4>1 DEF ClearTo
      <4> QED BY <4>2, AgainstIs
    <3>3. ws.units < B_FREE \/ (Ruleset5(height) /\ ws.valid /\ ws.pins > PIN_FREE)
      BY <1>0, <1>3, <1>6 DEF Against, Ruleset5
    <3>4. TierAt(0)' = TierAt(0)
      BY <1>0 DEF TierAt, Ruleset5Tier, CreditTier, Ruleset5
    <3>5. w <=> NewlyWithheld
      BY DEF w
    <3>6. ws.units \in Nat /\ ws.pins \in Nat
      BY <1>0 DEF ProofTypes
    <3>7. ws.pins < PIN_REJECT <=> ~ (ws.pins >= PIN_REJECT)
      BY <3>6, PrecheckAssumption
    <3>8. ws.units < B_FREE <=> ~ (ws.units >= B_FREE)
      BY <3>6, PrecheckAssumption
    <3> QED BY <1>0, <3>2, <3>3, <3>4, <3>5, <3>7, <3>8, Tiers DEF NewlyWithheld
  <2> QED BY <2>1, <2>4, <2>5, <2>6, <2>7 DEF VerdictInv, PassedSoFar, Recorded, Acted
<1>7. CASE r /= "reject"
  <2>1. v' = v /\ phase' = "running" /\ reason' \in {"none", "abstained"} /\ sunset' = s /\ parrot' = p
    BY <1>0, <1>1, <1>7 DEF GoesOn, r
  <2>2. ProofTypes'
    BY <1>0, <1>2, <2>1 DEF ProofTypes, SunsetOutcomes
  <2>3. \A i \in 1 .. 7 : i < k + 1 /\ Pipeline[i] \in pc_gates => ~ Against(Pipeline[i])'
    <3>1. ~ Against(g)'
      BY <1>3, <1>7
    <3>2. \A i \in 1 .. 7 : i < k + 1 => i < k \/ Pipeline[i] = g
      BY <1>0, <1>g
    <3> QED BY <1>4, <3>1, <3>2
  <2>4. (k + 1 > 4) => k > 3
    BY <1>0
  <2>5. PassedSoFar'
    BY <1>0, <1>5, <2>1, <2>3, <2>4 DEF PassedSoFar, ClearTo
  <2> QED BY <2>1, <2>2, <2>5 DEF VerdictInv, Recorded, Acted
<1> QED BY <1>6, <1>7

LEMMA VerdictStep == OptionTypes /\ VerdictInv /\ [PrecheckNext]_precheckVars => VerdictInv'
<1> SUFFICES ASSUME OptionTypes, VerdictInv, [PrecheckNext]_precheckVars
             PROVE  VerdictInv'
  OBVIOUS
<1> USE DEF VerdictInv
<1>1. ASSUME UNCHANGED <<ctx, v, submit>>,
             phase' \in {"mode", "gates", "parsed", "exit", "idle"}
      PROVE  VerdictInv'
  <2>1. ProofTypes'
    BY <1>1 DEF ProofTypes, ctx
  <2> QED BY <1>1, <2>1 DEF PassedSoFar, Recorded, Acted
<1>2. CASE ParseMode \/ ParseItem \/ EndOfList \/ OptionsRead \/ NextProof
  BY <1>1, <1>2 DEF ParseMode, ParseItem, EndOfList, OptionsRead, NextProof
<1>3. CASE TakeProof
  <2>1. /\ height' \in Nat /\ k' = 1 /\ reason' = "none" /\ v' = Unavailable /\ submit' = TRUE
        /\ ws' = NoKernel /\ sunset' = "not_run" /\ parrot' = "not_run" /\ pc_mode' = pc_mode
        /\ phase' = IF pc_mode = "off" THEN "decided" ELSE "proof"
    BY <1>3, PrecheckAssumption DEF TakeProof, options
  <2>2. ProofTypes'
    <3>1. v' \in [outcome : {"pass", "reject", "unavailable"}, gate : Gates \cup {"count"},
                  withheld : BOOLEAN, kernel : BOOLEAN]
      BY <2>1 DEF Unavailable
    <3>2. ws' \in [strict : BOOLEAN, valid : BOOLEAN, pins : Nat, units : Nat,
                   band : {"incomplete", "reject", "pass"}]
      BY <2>1 DEF NoKernel
    <3> QED BY <2>1, <3>1, <3>2 DEF ProofTypes
  <2>3. v'.outcome = "unavailable" /\ v'.gate = "count" /\ v'.kernel = FALSE
    BY <2>1 DEF Unavailable
  <2> QED BY <2>1, <2>2, <2>3 DEF PassedSoFar, Recorded, Acted, Cleared, Counted
<1>4. CASE NoBytes \/ DecodeFails \/ FloatRefused \/ KernelGivesNothing
  <2>1. Abandon
    BY <1>4 DEF NoBytes, DecodeFails, FloatRefused, KernelGivesNothing
  <2>2. /\ v' = Unavailable /\ reason' = "not_evaluated" /\ phase' = "verdict"
        /\ UNCHANGED <<height, ws, sunset, parrot, k, v, submit>>
    BY <2>1 DEF Abandon, Acted
  <2>3. ProofTypes'
    BY <2>2 DEF ProofTypes
  <2>4. v'.outcome = "unavailable" /\ v'.gate = "count" /\ v'.kernel = FALSE
    BY <2>2 DEF Unavailable
  <2> QED BY <2>2, <2>3, <2>4 DEF PassedSoFar, Recorded, Acted, Cleared, Counted
<1>5. CASE KernelRefuses
  <2>1. /\ v' = RefusedVerdict /\ reason' = "refused" /\ phase' = "verdict"
        /\ UNCHANGED <<pc_gates, height, ws, sunset, parrot, k, submit>>
    BY <1>5 DEF KernelRefuses, options
  <2>2. /\ v' \in [outcome : {"pass", "reject", "unavailable"}, gate : Gates \cup {"count"},
                   withheld : BOOLEAN, kernel : BOOLEAN]
        /\ v'.kernel = FALSE /\ v'.gate /= "credit-tier"
        /\ v'.outcome = "reject" => v'.gate \in pc_gates
    <3>1. CASE "strict" \in pc_gates
      <4>1. v' = [outcome |-> "reject", gate |-> "strict", withheld |-> FALSE, kernel |-> FALSE]
        BY <2>1, <3>1 DEF RefusedVerdict, Unavailable
      <4> QED BY <3>1, <4>1, TheGates
    <3>2. CASE "strict" \notin pc_gates
      <4>1. v' = [outcome |-> "unavailable", gate |-> "count", withheld |-> FALSE, kernel |-> FALSE]
        BY <2>1, <3>2 DEF RefusedVerdict, Unavailable
      <4> QED BY <4>1
    <3> QED BY <3>1, <3>2
  <2>3. ProofTypes'
    BY <2>1, <2>2 DEF ProofTypes
  <2> QED BY <2>1, <2>2, <2>3 DEF PassedSoFar, Recorded, Acted, Caused, Cleared, Counted
<1>6. CASE KernelPass
  <2>1. /\ v' = [v EXCEPT !.kernel = TRUE] /\ phase' = "running" /\ v = Unavailable
        /\ ws' \in [strict : BOOLEAN, valid : BOOLEAN, pins : 0 .. PIN_REJECT,
                    units : 0 .. B_FREE, band : {"incomplete", "reject", "pass"}]
        /\ UNCHANGED <<pc_gates, height, sunset, parrot, k, reason, submit>>
    BY <1>6 DEF KernelPass, options, Acted
  <2>2. v' = [outcome |-> "unavailable", gate |-> "count", withheld |-> FALSE, kernel |-> TRUE]
    BY <2>1 DEF Unavailable
  <2>3. ws' \in [strict : BOOLEAN, valid : BOOLEAN, pins : Nat, units : Nat,
                 band : {"incomplete", "reject", "pass"}]
    BY <2>1, PrecheckAssumption
  <2>4. v' \in [outcome : {"pass", "reject", "unavailable"}, gate : Gates \cup {"count"},
                withheld : BOOLEAN, kernel : BOOLEAN]
    BY <2>2
  <2>5. ProofTypes'
    BY <2>1, <2>3, <2>4 DEF ProofTypes
  <2>6. PassedSoFar'
    <3>1. k' = 1 /\ reason' = "none"
      BY <1>6, <2>1 DEF Acted, KernelPass
    <3> QED BY <2>2, <3>1 DEF PassedSoFar, ClearTo
  <2> QED BY <2>1, <2>5, <2>6 DEF Recorded, Acted
<1>7. CASE RunGate
  BY <1>7, RunGateVerdict
<1>8. CASE SkipGate
  <2>1. /\ phase = "running" /\ k \in 1 .. 7 /\ Pipeline[k] \notin pc_gates /\ k' = k + 1
        /\ UNCHANGED <<options, height, ws, sunset, parrot, reason, phase, v, submit>>
    BY <1>8, TheGates DEF SkipGate, ProofTypes
  <2>2. ProofTypes'
    BY <2>1 DEF ProofTypes
  <2>3. \A g : Against(g)' <=> Against(g)
    BY <2>1 DEF Against, Ruleset5
  <2>4. ClearTo(k) /\ pc_gates' = pc_gates
    BY <2>1 DEF PassedSoFar, options
  <2>5. \A i \in 1 .. 7 : i < k + 1 /\ Pipeline[i] \in pc_gates => ~ Against(Pipeline[i])'
    <3>1. \A i \in 1 .. 7 : i < k + 1 => i < k \/ i = k
      BY <2>1
    <3> QED BY <2>1, <2>3, <2>4, <3>1 DEF ClearTo
  <2>6. k + 1 > 4 /\ "prompt-scaffold" \in pc_gates => sunset /= "not_run"
    <3>1. CASE k = 4
      BY <2>1, <3>1, TheGates
    <3>2. CASE k > 4
      BY <2>1, <3>2 DEF PassedSoFar
    <3> QED BY <2>1, <3>1, <3>2
  <2>7. PassedSoFar'
    BY <2>1, <2>4, <2>5, <2>6 DEF PassedSoFar, ClearTo
  <2> QED BY <2>1, <2>2, <2>7 DEF Recorded, Acted
<1>9. CASE AllGatesRun
  <2>1. /\ phase = "running" /\ k = 8 /\ phase' = "verdict" /\ UNCHANGED <<options, ctx, submit>>
        /\ v' = [v EXCEPT !.outcome = IF reason = "none" THEN "pass" ELSE "unavailable"]
        /\ v \in [outcome : {"pass", "reject", "unavailable"}, gate : Gates \cup {"count"},
                  withheld : BOOLEAN, kernel : BOOLEAN]
        /\ v.gate = "count"
    BY <1>9, TheGates DEF AllGatesRun, ProofTypes, PassedSoFar
  <2>2. /\ v' \in [outcome : {"pass", "reject", "unavailable"}, gate : Gates \cup {"count"},
                   withheld : BOOLEAN, kernel : BOOLEAN]
        /\ v'.outcome /= "reject" /\ v'.gate = "count"
    BY <2>1
  <2>3. ProofTypes'
    BY <2>1, <2>2 DEF ProofTypes, ctx
  <2>4. \A g : Against(g)' <=> Against(g)
    BY <2>1 DEF Against, Ruleset5, ctx
  <2>5. \A g \in Gates : \E i \in 1 .. 7 : g = Pipeline[i]
    BY TheGates DEF Gates
  <2>6. \A g \in pc_gates : ~ Against(g)
    BY <2>1, <2>5 DEF PassedSoFar, ClearTo, OptionTypes
  <2>7. Cleared'
    BY <2>1, <2>4, <2>6 DEF Cleared, options
  <2> QED BY <2>1, <2>2, <2>3, <2>7 DEF PassedSoFar, Recorded, Acted, Counted
<1>10. CASE InternalError
  <2>1. /\ v' = [v EXCEPT !.outcome = "unavailable"] /\ reason' = "internal_error" /\ phase' = "verdict"
        /\ UNCHANGED <<height, ws, sunset, parrot, k, submit>>
        /\ v \in [outcome : {"pass", "reject", "unavailable"}, gate : Gates \cup {"count"},
                  withheld : BOOLEAN, kernel : BOOLEAN]
    BY <1>10 DEF InternalError, ProofTypes
  <2>2. v.gate = "count"
    BY <1>10 DEF InternalError, Acted, PassedSoFar, Unavailable
  <2>3. /\ v' \in [outcome : {"pass", "reject", "unavailable"}, gate : Gates \cup {"count"},
                   withheld : BOOLEAN, kernel : BOOLEAN]
        /\ v'.outcome /= "reject" /\ v'.gate = "count"
    BY <2>1, <2>2
  <2>4. ProofTypes'
    BY <2>1, <2>3 DEF ProofTypes
  <2> QED BY <2>1, <2>3, <2>4 DEF PassedSoFar, Recorded, Acted, Cleared, Counted
<1>11. CASE Decide
  <2>1. /\ phase = "verdict" /\ phase' = "decided" /\ UNCHANGED <<options, ctx, v>>
        /\ submit' = Submits /\ pc_mode' = pc_mode /\ pc_gates' = pc_gates
    BY <1>11 DEF Decide, options
  <2>2. submit' \in BOOLEAN /\ (submit' <=> ~ (v.outcome = "reject" /\ pc_mode = "on"))
    BY <2>1 DEF Submits
  <2>3. ProofTypes'
    BY <2>1, <2>2 DEF ProofTypes, ctx
  <2>4. \A g : Against(g)' <=> Against(g)
    BY <2>1 DEF Against, Ruleset5, ctx
  <2>5. TierAt(0)' = TierAt(0)
    BY <2>1 DEF TierAt, Ruleset5Tier, CreditTier, Ruleset5, ctx
  <2>6. Recorded'
    BY <2>1, <2>4, <2>5 DEF Recorded, Caused, Cleared, Counted, ClearTo, ctx
  <2> QED BY <2>1, <2>2, <2>3, <2>6 DEF PassedSoFar, Acted
<1>12. CASE UNCHANGED precheckVars
  <2>1. UNCHANGED <<options, ctx, phase, v, submit, pc_mode, pc_gates>>
    BY <1>12 DEF precheckVars, options
  <2>2. ProofTypes'
    BY <2>1 DEF ProofTypes, ctx
  <2>3. \A g : Against(g)' <=> Against(g)
    BY <2>1 DEF Against, Ruleset5, ctx
  <2>4. TierAt(0)' = TierAt(0)
    BY <2>1 DEF TierAt, Ruleset5Tier, CreditTier, Ruleset5, ctx
  <2>5. Recorded'
    BY <2>1, <2>3, <2>4 DEF Recorded, Caused, Cleared, Counted, ClearTo, ctx
  <2>6. PassedSoFar'
    BY <2>1, <2>3 DEF PassedSoFar, ClearTo, ctx
  <2>7. Acted'
    BY <2>1 DEF Acted, ctx
  <2> QED BY <2>2, <2>5, <2>6, <2>7
<1> QED BY <1>2, <1>3, <1>4, <1>5, <1>6, <1>7, <1>8, <1>9, <1>10, <1>11, <1>12 DEF PrecheckNext

LEMMA VerdictInit == PrecheckInit => VerdictInv
<1> SUFFICES ASSUME PrecheckInit PROVE VerdictInv
  OBVIOUS
<1>1. v \in [outcome : {"pass", "reject", "unavailable"}, gate : Gates \cup {"count"},
             withheld : BOOLEAN, kernel : BOOLEAN]
  BY DEF PrecheckInit, Unavailable
<1>2. ws \in [strict : BOOLEAN, valid : BOOLEAN, pins : Nat, units : Nat,
              band : {"incomplete", "reject", "pass"}]
  BY DEF PrecheckInit, NoKernel
<1>3. ProofTypes
  BY <1>1, <1>2 DEF PrecheckInit, ProofTypes
<1> QED BY <1>3 DEF PrecheckInit, VerdictInv, PassedSoFar, Recorded, Acted

LEMMA VerdictImplies == OptionTypes /\ VerdictInv => VerdictsAreExact
<1> SUFFICES ASSUME OptionTypes, VerdictInv PROVE VerdictsAreExact
  OBVIOUS
<1>1. PrecheckTypeOK
  <2>1. 1 .. (Len(Pipeline) + 1) = 1 .. 8
    BY TheGates
  <2> QED BY <2>1 DEF VerdictInv, OptionTypes, ProofTypes, PrecheckTypeOK
<1>2. DroppedForCause
  <2> SUFFICES ASSUME phase = "decided", ~ submit
               PROVE  /\ pc_mode = "on" /\ v.gate \in pc_gates
                      /\ v.kernel => \E j \in DOMAIN Pipeline :
                            /\ Pipeline[j] = v.gate /\ Against(v.gate)
                            /\ \A i \in 1 .. (j - 1) : Pipeline[i] \in pc_gates => ~ Against(Pipeline[i])
    BY DEF DroppedForCause
  <2>1. pc_mode = "on" /\ Caused
    BY DEF VerdictInv, Acted, Recorded
  <2>2. ASSUME v.kernel
        PROVE  \E j \in DOMAIN Pipeline :
                  /\ Pipeline[j] = v.gate /\ Against(v.gate)
                  /\ \A i \in 1 .. (j - 1) : Pipeline[i] \in pc_gates => ~ Against(Pipeline[i])
    <3>1. PICK j \in 1 .. 7 : Pipeline[j] = v.gate /\ Against(v.gate) /\ ClearTo(j)
      BY <2>1, <2>2 DEF Caused
    <3>2. j \in DOMAIN Pipeline /\ \A i \in 1 .. (j - 1) : i \in 1 .. 7 /\ i < j
      BY <3>1, TheGates
    <3> QED BY <3>1, <3>2 DEF ClearTo
  <2> QED BY <2>1, <2>2 DEF Caused
<1>3. AbstentionHidesNothing
  BY DEF VerdictInv, Acted, Recorded, Cleared, AbstentionHidesNothing
<1>4. CountedApart
  BY DEF VerdictInv, Recorded, Counted, CountedApart
<1> QED BY <1>1, <1>2, <1>3, <1>4 DEF VerdictsAreExact

(* submit_loop and evaluate_window: for every mask, height and setting of  *)
(* the thresholds a proof is withheld for the first enabled rule it breaks *)
(* and for no other cause, and what is submitted in mode on breaks none    *)
(* that was asked.                                                         *)
THEOREM VerdictsExact == PrecheckSpec => []VerdictsAreExact
<1>1. MaskInv => OptionTypes
  BY DEF MaskInv
<1> QED BY <1>1, MaskInit, MaskStep, VerdictInit, VerdictStep, VerdictImplies, PTL DEF PrecheckSpec
=============================================================================
