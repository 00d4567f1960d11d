--------------------------- MODULE PoiMinerProofs ---------------------------
(***************************************************************************)
(* What a proof and a share say of themselves, proved for any number of    *)
(* groups, sequences, jobs and announcements, any prompts, any window and  *)
(* any table sizes: the pool may give jobs one request id, send VDFs with  *)
(* or without their ticks, and the groups may fail where they like.        *)
(***************************************************************************)
EXTENDS PoiMiner, TLAPS

-----------------------------------------------------------------------------
(* The invariant.                                                          *)

LoopTypes ==
    /\ cur_job \in Job /\ switches \in 0 .. MaxSwitches
    /\ wpc \in {"look", "install", "prompt", "step"} /\ j \in Job /\ fan \in Groups
BatchTypes ==
    /\ prompt \in [All -> Nat] /\ at \in 0 .. Window - 1
    /\ todo \subseteq All /\ bad \subseteq Groups
InstallTypes ==
    /\ ready \in [Groups -> BOOLEAN] /\ job \in [Groups -> Job]
    /\ vdf_hex \in [Groups -> Vdf] /\ vdf_tick \in [Groups -> Nat]
    /\ params \in [Groups -> Params] /\ job_by_req \in [Groups -> SUBSET Jobs]
WindowTypes ==
    /\ last_ctx \in [Groups -> [Seqs -> Nat]] /\ prompt_len \in [Groups -> [Seqs -> Nat]]
    /\ row \in [Groups -> [Seqs -> Row]]
OutTypes ==
    /\ egress \in [Groups -> Seq(Proof)] /\ pending_q \in [Groups -> Seq(Share)]
    /\ emitted \in 0 .. MaxProofs
PastTypes == refused \in 0 .. MaxRefused /\ torn \subseteq Groups /\ doubt \subseteq Groups
Types == LoopTypes /\ BatchTypes /\ InstallTypes /\ WindowTypes /\ OutTypes /\ PastTypes

\* Parameters of a job the pool announced, with a VDF over its parent, whose tick
\* they have unless it is in doubt.
Good(p) ==
    p.job \in Jobs /\ p.vdf.parent = p.job.parent /\ (p.tick = p.vdf.tick \/ p.doubt)

\* A ready group has such parameters.  The request table has their job under its
\* request id, and unless the last set_job failed the tick is theirs.
Installing == wpc = "install" => j \in Jobs
TickKnown == \A g \in Groups : g \notin doubt => vdf_tick[g] = vdf_hex[g].tick
Filed(g) == \A e \in job_by_req[g] : e.req = params[g].job.req => e = params[g].job
Installed ==
    \A g \in Groups : ready[g] =>
        Good(params[g]) /\ Filed(g) /\ (g \notin torn => vdf_tick[g] = params[g].tick)

\* The row of an open window has the installed parameters from its start, and the
\* context is no shorter than the prompt it was opened with.
Open(g, q) == last_ctx[g][q] /= 0
RowsTrue ==
    \A g \in Groups, q \in Seqs : Open(g, q) =>
        /\ ready[g] /\ row[g][q].params = params[g] /\ row[g][q].under = params[g]
        /\ ~ row[g][q].mixed /\ row[g][q].first <= last_ctx[g][q]

\* So a row of an earlier batch is gone on with after a longer prompt only.
InBatch ==
    wpc = "step" => \A g \in Groups, q \in Seqs :
        Open(g, q) /\ row[g][q].stale /\ (at /= 0 \/ <<g, q>> \notin todo)
            => row[g][q].first < prompt[<<g, q>>]

\* A proof is sound.  While it is on its way the table has its job or a later one
\* under its request id, and its parameters are installed unless it was overtaken.
Sound(p) == Good(p.params) /\ p.under = p.params /\ ~ p.mixed
OnItsWay(g, p) ==
    /\ \A e \in job_by_req[g] : e.req = p.params.job.req => e = p.params.job \/ e \in p.next
    /\ ~ p.overtaken => ready[g] /\ g \notin torn /\ p.params = params[g]
SentTrue == \A g \in Groups : \A n \in DOMAIN egress[g] : Sound(egress[g][n]) /\ OnItsWay(g, egress[g][n])

\* A share of a sound proof is labelled as LabelledByOrigin says.
Labelled(s) ==
    /\ ~ s.proof.overtaken => s.job = s.proof.params.job /\ s.tick = s.proof.params.tick
    /\ s.job = s.proof.params.job \/ s.job \in s.proof.next
PendingTrue == \A g \in Groups : \A n \in DOMAIN pending_q[g] :
                   Sound(pending_q[g][n].proof) /\ Labelled(pending_q[g][n])

Inv == /\ Types /\ Installing /\ TickKnown /\ Installed /\ RowsTrue /\ InBatch
       /\ SentTrue /\ PendingTrue

LEMMA InvGives == Inv => ProofsAreTrue /\ WindowsArePure
<1> SUFFICES ASSUME Inv PROVE ProofsAreTrue /\ WindowsArePure
  OBVIOUS
<1>1. TypeOK
  BY DEF Inv, Types, LoopTypes, BatchTypes, InstallTypes, WindowTypes, OutTypes, PastTypes, TypeOK
<1>2. LabelledByOrigin
  BY DEF Inv, PendingTrue, Labelled, LabelledByOrigin, Shares
<1>3. \A g \in Groups : \A p \in ProofsOf(g) : Sound(p)
  BY DEF Inv, SentTrue, PendingTrue, ProofsOf, Shares
<1>4. VdfOverItsParent
  BY <1>3 DEF VdfOverItsParent, Sound, Good
<1>5. WindowsArePure
  BY <1>3 DEF WindowsArePure, Sound
<1> QED BY <1>1, <1>2, <1>4, <1>5 DEF ProofsAreTrue

-----------------------------------------------------------------------------
(* Operators.                                                              *)

LEMMA NoJobIsNone == NoJob \notin Jobs /\ NoJob \in Job
BY MinerAssumption DEF NoJob, Job

LEMMA JobFields ==
    ASSUME NEW n \in Job
    PROVE  n.parent \in Nat /\ n.pool_vdf \in Nat /\ n.pool_tick \in Nat
BY MinerAssumption DEF Job, NoJob

LEMMA NestedUpdate ==
    ASSUME NEW S, NEW f \in [Groups -> [Seqs -> S]], NEW g \in Groups, NEW q \in Seqs, NEW v \in S
    PROVE  /\ [f EXCEPT ![g][q] = v] \in [Groups -> [Seqs -> S]]
           /\ [f EXCEPT ![g][q] = v][g][q] = v
           /\ \A h \in Groups, r \in Seqs :
                 <<h, r>> /= <<g, q>> => [f EXCEPT ![g][q] = v][h][r] = f[h][r]
<1>1. [f EXCEPT ![g][q] = v] \in [Groups -> [Seqs -> S]]
  OBVIOUS
<1>2. [f EXCEPT ![g][q] = v][g][q] = v
  OBVIOUS
<1>3. ASSUME NEW h \in Groups, NEW r \in Seqs, <<h, r>> /= <<g, q>>
      PROVE  [f EXCEPT ![g][q] = v][h][r] = f[h][r]
  <2>1. CASE h /= g
    BY <2>1
  <2>2. CASE h = g /\ r /= q
    BY <2>2
  <2> QED BY <1>3, <2>1, <2>2
<1> QED BY <1>1, <1>2, <1>3

LEMMA EmptyTyped == NoParams \in Params /\ NoRow \in Row /\ NoVdf \in Vdf
<1>1. NoVdf \in Vdf
  BY DEF NoVdf, Vdf
<1>2. NoParams \in Params
  BY <1>1, NoJobIsNone DEF NoParams, Params
<1>3. NoRow \in Row
  BY <1>2 DEF NoRow, Row
<1> QED BY <1>1, <1>2, <1>3

\* A VDF that set_job goes on with is over the job's parent, proved now, sent by
\* the pool or kept, and its tick is known or it is in doubt.
LEMMA VdfStepGood ==
    ASSUME Types, TickKnown, NEW g \in Groups, NEW v \in VdfStep(g)
    PROVE  /\ v.vdf \in Vdf /\ v.tick \in Nat /\ v.doubt \in BOOLEAN
           /\ v.ok => v.vdf.parent = j.parent
           /\ v.tick = v.vdf.tick \/ v.doubt
<1>1. j \in Job /\ vdf_hex[g] \in Vdf /\ vdf_tick[g] \in Nat
      /\ (g \notin doubt => vdf_tick[g] = vdf_hex[g].tick)
  BY DEF Types, LoopTypes, InstallTypes, TickKnown
<1>2. j.parent \in Nat /\ j.pool_vdf \in Nat /\ j.pool_tick \in Nat
  BY <1>1, JobFields
<1>3. PoolVdf \in Vdf /\ PoolVdf.parent = j.parent /\ PoolVdf.tick = j.pool_vdf
      /\ PoolTick \in Nat /\ SelfTick \in Nat
  BY <1>2, MinerAssumption DEF PoolVdf, PoolTick, SelfTick, Vdf
<1>4. ASSUME NEW w \in Vdf, NEW t \in Nat, NEW o \in BOOLEAN, NEW d \in BOOLEAN,
             v = [vdf |-> w, tick |-> t, ok |-> o, doubt |-> d],
             o => w.parent = j.parent, t = w.tick \/ d
      PROVE  /\ v.vdf \in Vdf /\ v.tick \in Nat /\ v.doubt \in BOOLEAN
             /\ v.ok => v.vdf.parent = j.parent
             /\ v.tick = v.vdf.tick \/ v.doubt
  <2>1. v.vdf = w /\ v.tick = t /\ v.ok = o /\ v.doubt = d
    BY <1>4
  <2> QED BY <1>4, <2>1
<1> DEFINE d1 == PoolTick /= j.pool_vdf
           d2 == g \in doubt
<1>5. d1 \in BOOLEAN /\ d2 \in BOOLEAN
  OBVIOUS
<1>6. CASE j.pool_vdf /= 0
  <2>1. CASE PoolVdf /= vdf_hex[g]
    <3>1. v = [vdf |-> PoolVdf, tick |-> PoolTick, ok |-> TRUE, doubt |-> d1]
      BY <1>5, <1>6, <2>1 DEF VdfStep
    <3>2. PoolTick = PoolVdf.tick \/ d1
      BY <1>3, <1>5
    <3> HIDE DEF d1
    <3> QED BY <1>3, <1>4, <1>5, <3>1, <3>2
  <2>2. CASE PoolVdf = vdf_hex[g]
    <3>1. v = [vdf |-> vdf_hex[g], tick |-> vdf_tick[g], ok |-> TRUE, doubt |-> d2]
      BY <1>5, <1>6, <2>2 DEF VdfStep
    <3>2. vdf_tick[g] = vdf_hex[g].tick \/ d2
      BY <1>1, <1>5
    <3> HIDE DEF d2
    <3> QED BY <1>1, <1>3, <1>4, <1>5, <2>2, <3>1, <3>2
  <2> QED BY <2>1, <2>2
<1>7. CASE j.pool_vdf = 0 /\ ProveNeeded(g)
  <2>1. PICK w \in Vdf : w = [parent |-> j.parent, tick |-> SelfTick]
    BY <1>2, <1>3 DEF Vdf
  <2>2. \/ v = [vdf |-> w, tick |-> SelfTick, ok |-> TRUE, doubt |-> FALSE]
        \/ v = [vdf |-> vdf_hex[g], tick |-> SelfTick, ok |-> FALSE, doubt |-> TRUE]
    BY <1>7, <2>1 DEF VdfStep
  <2>3. w.parent = j.parent /\ w.tick = SelfTick
    BY <2>1
  <2>4. CASE v = [vdf |-> w, tick |-> SelfTick, ok |-> TRUE, doubt |-> FALSE]
    BY <1>3, <1>4, <2>3, <2>4
  <2>5. CASE v = [vdf |-> vdf_hex[g], tick |-> SelfTick, ok |-> FALSE, doubt |-> TRUE]
    BY <1>1, <1>3, <1>4, <2>5
  <2> QED BY <2>2, <2>4, <2>5
<1>8. CASE j.pool_vdf = 0 /\ ~ ProveNeeded(g)
  <2>1. v = [vdf |-> vdf_hex[g], tick |-> vdf_tick[g], ok |-> TRUE, doubt |-> d2]
    BY <1>5, <1>8 DEF VdfStep
  <2>2. vdf_hex[g].parent = j.parent /\ (vdf_tick[g] = vdf_hex[g].tick \/ d2)
    BY <1>1, <1>5, <1>8 DEF ProveNeeded
  <2> HIDE DEF d2
  <2> QED BY <1>1, <1>4, <1>5, <2>1, <2>2
<1> QED BY <1>2, <1>6, <1>7, <1>8

LEMMA SurvivorsKnown ==
    ASSUME NEW t \in SUBSET Jobs, NEW kept \in Survivors(t)
    PROVE  kept \subseteq t
BY DEF Survivors

LEMMA NewRow ==
    ASSUME NEW p \in Params, NEW n \in Nat
    PROVE  LET r == [NoRow EXCEPT !.params = p, !.under = p, !.first = n]
           IN /\ r \in Row /\ r.params = p /\ r.under = p /\ r.first = n
              /\ r.steps = 0 /\ r.stale = FALSE /\ r.mixed = FALSE
<1> DEFINE r == [NoRow EXCEPT !.params = p, !.under = p, !.first = n]
<1>1. NoRow \in Row /\ NoRow.steps = 0 /\ NoRow.stale = FALSE /\ NoRow.mixed = FALSE
  BY EmptyTyped DEF NoRow
<1>2. r \in Row
  BY <1>1 DEF Row
<1>3. r.params = p /\ r.under = p /\ r.first = n
  BY <1>1 DEF Row
<1>4. r.steps = NoRow.steps /\ r.stale = NoRow.stale /\ r.mixed = NoRow.mixed
  BY <1>1 DEF Row
<1> QED BY <1>1, <1>2, <1>3, <1>4

LEMMA OneMoreStep ==
    ASSUME NEW r \in Row, NEW b \in BOOLEAN
    PROVE  LET s == [r EXCEPT !.steps = @ + 1, !.mixed = @ \/ b]
           IN /\ s \in Row /\ s.params = r.params /\ s.under = r.under /\ s.first = r.first
              /\ s.stale = r.stale /\ s.mixed = (r.mixed \/ b)
<1> DEFINE n == r.steps + 1
           m == r.mixed \/ b
           s == [r EXCEPT !.steps = n, !.mixed = m]
<1>1. n \in Nat /\ m \in BOOLEAN
  BY DEF Row
<1> HIDE DEF n, m
<1>2. s \in Row
  BY <1>1 DEF Row
<1>3. s.params = r.params /\ s.under = r.under /\ s.first = r.first /\ s.stale = r.stale
  BY DEF Row
<1>4. s.mixed = m
  BY DEF Row
<1> QED BY <1>2, <1>3, <1>4 DEF n, m

\* What a step samples into: a row with the installed parameters which, when it is
\* an earlier batch's, was opened with a shorter prompt.
LEMMA Sampled ==
    ASSUME Inv, NEW g \in Groups, NEW q \in Seqs, wpc = "step", <<g, q>> \in todo, ready[g]
    PROVE  /\ Ctx(g, q) \in Nat /\ PromptLenFor(g, q) \in Nat
           /\ \A r \in {RowFor(g, q), Recorded(g, q)} :
                 /\ r \in Row /\ r.params = params[g] /\ r.under = params[g] /\ ~ r.mixed
                 /\ r.first <= Ctx(g, q) /\ (r.stale => r.first < prompt[<<g, q>>])
<1>1. /\ prompt[<<g, q>>] \in Nat /\ at \in Nat /\ params[g] \in Params /\ row[g][q] \in Row
      /\ last_ctx[g][q] \in Nat /\ prompt_len[g][q] \in Nat
  BY DEF Inv, Types, BatchTypes, InstallTypes, WindowTypes, All
<1>2. Ctx(g, q) = prompt[<<g, q>>] + at
  BY DEF Ctx
<1> DEFINE r == RowFor(g, q)
<1>3. /\ r \in Row /\ r.params = params[g] /\ r.under = params[g] /\ ~ r.mixed
      /\ r.first <= Ctx(g, q) /\ (r.stale => r.first < prompt[<<g, q>>])
  <2>1. CASE NewWindow(g, q)
    <3>1. PICK x : x = [NoRow EXCEPT !.params = params[g], !.under = params[g], !.first = prompt[<<g, q>>]]
      OBVIOUS
    <3>0. r = x
      BY <2>1, <3>1 DEF RowFor
    <3>2. /\ x \in Row /\ x.params = params[g] /\ x.under = params[g]
          /\ x.first = prompt[<<g, q>>] /\ x.stale = FALSE /\ x.mixed = FALSE
      BY <1>1, <3>1, NewRow
    <3> QED BY <1>1, <1>2, <3>0, <3>2
  <2>2. CASE ~ NewWindow(g, q)
    <3>1. r = row[g][q] /\ Open(g, q) /\ last_ctx[g][q] < Ctx(g, q)
      BY <1>1, <1>2, <2>2 DEF RowFor, NewWindow, Open
    <3>2. /\ r.params = params[g] /\ r.under = params[g] /\ ~ r.mixed /\ r.first <= last_ctx[g][q]
          /\ r.first \in Nat
      BY <1>1, <3>1 DEF Inv, RowsTrue, Row
    <3>3. r.stale => r.first < prompt[<<g, q>>]
      <4>1. CASE at = 0
        BY <1>1, <1>2, <3>1, <3>2, <4>1
      <4>2. CASE at /= 0
        BY <3>1, <4>2 DEF Inv, InBatch
      <4> QED BY <4>1, <4>2
    <3> QED BY <1>1, <1>2, <3>1, <3>2, <3>3
  <2> QED BY <2>1, <2>2
<1> DEFINE b == r.stale /\ prompt[<<g, q>>] <= r.first
           s == Recorded(g, q)
<1>4. /\ s \in Row /\ s.params = r.params /\ s.under = r.under /\ s.first = r.first
      /\ s.stale = r.stale /\ ~ s.mixed
  <2>1. b \in BOOLEAN /\ ~ b
    BY <1>1, <1>3 DEF Row
  <2>2. s = [r EXCEPT !.steps = @ + 1, !.mixed = @ \/ b]
    BY DEF Recorded
  <2> HIDE DEF b, r, s
  <2> QED BY <1>3, <2>1, <2>2, OneMoreStep
<1> HIDE DEF r, s
<1>5. /\ s.params = params[g] /\ s.under = params[g] /\ s.first <= Ctx(g, q)
      /\ (s.stale => s.first < prompt[<<g, q>>])
  BY <1>3, <1>4
<1>6. Ctx(g, q) \in Nat /\ PromptLenFor(g, q) \in Nat
  BY <1>1, <1>2 DEF PromptLenFor
<1> QED BY <1>3, <1>4, <1>5, <1>6 DEF r, s

-----------------------------------------------------------------------------
(* Steps.                                                                  *)

LEMMA KeptOut ==
    ASSUME Inv, UNCHANGED out, UNCHANGED install, UNCHANGED <<torn, doubt>>
    PROVE  InstallTypes' /\ OutTypes' /\ TickKnown' /\ Installed' /\ SentTrue' /\ PendingTrue'
<1>1. InstallTypes' /\ OutTypes'
  BY DEF Inv, Types, InstallTypes, OutTypes, out, install
<1>2. TickKnown' /\ Installed'
  BY DEF Inv, TickKnown, Installed, Filed, Good, install
<1>3. SentTrue'
  BY DEF Inv, SentTrue, Sound, OnItsWay, Good, out, install
<1>4. PendingTrue'
  BY DEF Inv, PendingTrue, Sound, Labelled, Good, out
<1> QED BY <1>1, <1>2, <1>3, <1>4

LEMMA KeptWindows ==
    ASSUME Inv, UNCHANGED install, UNCHANGED windows
    PROVE  WindowTypes' /\ RowsTrue'
<1>1. WindowTypes'
  BY DEF Inv, Types, WindowTypes, windows
<1>2. RowsTrue'
  BY DEF Inv, RowsTrue, Open, install, windows
<1> QED BY <1>1, <1>2

LEMMA KeptPast ==
    ASSUME Inv, UNCHANGED past
    PROVE  PastTypes' /\ UNCHANGED <<torn, doubt>>
BY DEF Inv, Types, PastTypes, past

LEMMA AnnounceKeeps ==
    ASSUME Inv, NEW n \in Jobs, Announce(n)
    PROVE  Inv'
<1>1. UNCHANGED worker /\ UNCHANGED install /\ UNCHANGED windows /\ UNCHANGED out /\ UNCHANGED past
  BY DEF Announce
<1>2. LoopTypes'
  BY <1>1, MinerAssumption DEF Announce, Inv, Types, LoopTypes, Job, worker
<1>3. BatchTypes' /\ Installing'
  BY <1>1 DEF Inv, Types, BatchTypes, Installing, worker
<1>4. InBatch'
  BY <1>1 DEF Inv, InBatch, Open, worker, windows
<1> QED BY <1>1, <1>2, <1>3, <1>4, KeptOut, KeptWindows, KeptPast DEF Inv, Types

LEMMA LookKeeps ==
    ASSUME Inv, Look
    PROVE  Inv'
<1>1. /\ UNCHANGED <<prompt, at, todo, bad>> /\ UNCHANGED install /\ UNCHANGED windows
      /\ UNCHANGED out /\ UNCHANGED past
  BY DEF Look
<1>2. LoopTypes'
  BY MinerAssumption DEF Look, Inv, Types, LoopTypes, Groups
<1>3. BatchTypes'
  BY <1>1 DEF Inv, Types, BatchTypes
<1>4. Installing'
  BY DEF Look, Inv, Types, LoopTypes, Installing, Job
<1>5. InBatch'
  BY DEF Look, InBatch
<1> QED BY <1>1, <1>2, <1>3, <1>4, <1>5, KeptOut, KeptWindows, KeptPast DEF Inv, Types

\* What set_job does to the VDF of a group.
LEMMA VdfWritten ==
    ASSUME Inv, NEW g \in Groups, NEW v \in VdfStep(g), VdfDone(g, v)
    PROVE  /\ vdf_hex' \in [Groups -> Vdf] /\ vdf_tick' \in [Groups -> Nat] /\ doubt' \subseteq Groups
           /\ TickKnown' /\ vdf_tick'[g] = v.tick
           /\ \A h \in Groups \ {g} : vdf_tick'[h] = vdf_tick[h]
<1>1. v.vdf \in Vdf /\ v.tick \in Nat /\ v.doubt \in BOOLEAN /\ (v.tick = v.vdf.tick \/ v.doubt)
  BY VdfStepGood DEF Inv
<1>2. vdf_hex \in [Groups -> Vdf] /\ vdf_tick \in [Groups -> Nat] /\ doubt \subseteq Groups
  BY DEF Inv, Types, InstallTypes, PastTypes
<1>3. /\ vdf_hex' = [vdf_hex EXCEPT ![g] = v.vdf] /\ vdf_tick' = [vdf_tick EXCEPT ![g] = v.tick]
      /\ doubt' = IF v.doubt THEN doubt \cup {g} ELSE doubt \ {g}
  BY DEF VdfDone
<1>4. TickKnown'
  <2> SUFFICES ASSUME NEW h \in Groups, h \notin doubt' PROVE vdf_tick'[h] = vdf_hex'[h].tick
    BY DEF TickKnown
  <2>1. CASE h = g
    <3>1. ~ v.doubt
      BY <1>3, <2>1
    <3> QED BY <1>1, <1>2, <1>3, <2>1, <3>1
  <2>2. CASE h /= g
    <3>1. h \notin doubt
      BY <1>3, <2>2
    <3> QED BY <1>2, <1>3, <2>2, <3>1 DEF Inv, TickKnown
  <2> QED BY <2>1, <2>2
<1>5. doubt' \subseteq Groups
  BY <1>2, <1>3
<1> QED BY <1>1, <1>2, <1>3, <1>4, <1>5

\* What it does to the contexts.
LEMMA ClearedContexts ==
    ASSUME Inv, NEW g \in Groups, Cleared(g)
    PROVE  /\ last_ctx' \in [Groups -> [Seqs -> Nat]]
           /\ \A h \in Groups, q \in Seqs : last_ctx'[h][q] = IF h = g THEN 0 ELSE last_ctx[h][q]
<1>1. last_ctx \in [Groups -> [Seqs -> Nat]] /\ PerSeq(0) \in [Seqs -> Nat]
      /\ \A q \in Seqs : PerSeq(0)[q] = 0
  BY DEF Inv, Types, WindowTypes, PerSeq
<1> QED BY <1>1 DEF Cleared

LEMMA LateProof ==
    ASSUME NEW p \in Proof, NEW next \in SUBSET Jobs
    PROVE  /\ Late(p, next) \in Proof /\ Late(p, next).overtaken = TRUE
           /\ Late(p, next).params = p.params /\ Late(p, next).under = p.under
           /\ Late(p, next).mixed = p.mixed
           /\ p.next \subseteq Late(p, next).next
           /\ \A k \in next : k.req = p.params.job.req => k \in Late(p, next).next
<1> DEFINE n == p.next \cup {k \in next : k.req = p.params.job.req}
           l == [p EXCEPT !.overtaken = TRUE, !.next = n]
<1>1. n \in SUBSET Jobs
  BY DEF Proof
<1>2. Late(p, next) = l
  BY DEF Late
<1> HIDE DEF n
<1>3. l \in Proof
  BY <1>1 DEF Proof
<1>4. l.overtaken = TRUE /\ l.next = n
  BY DEF Proof
<1>5. l.params = p.params /\ l.under = p.under /\ l.mixed = p.mixed
  BY DEF Proof
<1> QED BY <1>2, <1>3, <1>4, <1>5 DEF n

\* What it does to the proofs on their way: the table of the group may have the new
\* job in the place of the one that had its request id.
LEMMA OvertakenProofs ==
    ASSUME Inv, NEW g \in Groups, NEW next \in SUBSET Jobs, Overtaken(g, next),
           UNCHANGED pending_q,
           \A e \in job_by_req'[g] : e \in job_by_req[g] \/ e \in next,
           \A h \in Groups \ {g} : /\ ready'[h] = ready[h] /\ params'[h] = params[h]
                                   /\ job_by_req'[h] = job_by_req[h] /\ (h \in torn' <=> h \in torn)
    PROVE  /\ egress' \in [Groups -> Seq(Proof)] /\ SentTrue' /\ PendingTrue'
<1>1. egress \in [Groups -> Seq(Proof)] /\ egress[g] \in Seq(Proof)
  BY DEF Inv, Types, OutTypes
<1> DEFINE late == [n \in DOMAIN egress[g] |-> Late(egress[g][n], next)]
<1>2. late \in Seq(Proof)
  <2>1. DOMAIN egress[g] = 1 .. Len(egress[g]) /\ Len(egress[g]) \in Nat
    BY <1>1
  <2>2. \A n \in 1 .. Len(egress[g]) : egress[g][n] \in Proof
    BY <1>1
  <2>3. \A n \in 1 .. Len(egress[g]) : Late(egress[g][n], next) \in Proof
    BY <2>2, LateProof
  <2> QED BY <2>1, <2>3
<1>3. egress' = [egress EXCEPT ![g] = late]
  BY DEF Overtaken
<1>4. \A n \in DOMAIN egress[g] : late[n] = Late(egress[g][n], next) /\ egress[g][n] \in Proof
  BY <1>1
<1>5. DOMAIN late = DOMAIN egress[g]
  OBVIOUS
<1> HIDE DEF late
<1>6. egress' \in [Groups -> Seq(Proof)] /\ egress'[g] = late
      /\ \A h \in Groups \ {g} : egress'[h] = egress[h]
  BY <1>1, <1>2, <1>3
<1>7. SentTrue'
  <2> SUFFICES ASSUME NEW h \in Groups, NEW n \in DOMAIN egress'[h]
               PROVE  /\ Sound(egress'[h][n])
                      /\ \A e \in job_by_req'[h] : e.req = egress'[h][n].params.job.req
                            => e = egress'[h][n].params.job \/ e \in egress'[h][n].next
                      /\ ~ egress'[h][n].overtaken =>
                            ready'[h] /\ h \notin torn' /\ egress'[h][n].params = params'[h]
    BY DEF SentTrue, Sound, Good, OnItsWay
  <2>1. CASE h = g
    <3>1. PICK p \in Proof : p = egress[g][n] /\ egress'[g][n] = Late(p, next) /\ n \in DOMAIN egress[g]
      BY <1>4, <1>5, <1>6, <2>1
    <3>2. Sound(p) /\ OnItsWay(g, p)
      BY <3>1 DEF Inv, SentTrue
    <3>3. PICK l \in Proof : l = Late(p, next)
      BY LateProof
    <3>4. /\ l.overtaken = TRUE /\ l.params = p.params /\ l.under = p.under /\ l.mixed = p.mixed
          /\ p.next \subseteq l.next /\ \A k \in next : k.req = p.params.job.req => k \in l.next
      BY <3>3, LateProof
    <3>5. Sound(l)
      BY <3>2, <3>4 DEF Sound
    <3>6. \A e \in job_by_req'[g] : e.req = l.params.job.req => e = l.params.job \/ e \in l.next
      BY <3>2, <3>4 DEF OnItsWay
    <3>7. egress'[h][n] = l
      BY <2>1, <3>1, <3>3
    <3> QED BY <2>1, <3>4, <3>5, <3>6, <3>7
  <2>2. CASE h /= g
    <3>1. n \in DOMAIN egress[h] /\ egress'[h][n] = egress[h][n]
      BY <1>6, <2>2
    <3>2. Sound(egress[h][n]) /\ OnItsWay(h, egress[h][n])
      BY <3>1 DEF Inv, SentTrue
    <3> QED BY <2>2, <3>1, <3>2 DEF OnItsWay
  <2> QED BY <2>1, <2>2
<1>8. PendingTrue'
  BY DEF Inv, PendingTrue, Sound, Labelled, Good
<1> QED BY <1>6, <1>7, <1>8

LEMMA InstallFailsKeeps ==
    ASSUME Inv, InstallFails
    PROVE  Inv'
<1>1. fan \in Groups
  BY DEF Inv, Types, LoopTypes
<1>2. /\ wpc' = "look" /\ j' = NoJob /\ fan' = 1 /\ Cleared(fan) /\ Overtaken(fan, {})
      /\ torn' = torn \cup {fan} /\ UNCHANGED <<cur_job, switches, prompt, at, todo, bad>>
      /\ UNCHANGED <<ready, job, params, job_by_req, prompt_len, row, pending_q, emitted, refused>>
  BY DEF InstallFails, EndOfTurn
<1>3. PICK v \in VdfStep(fan) : VdfDone(fan, v)
  BY DEF InstallFails
<1>4. LoopTypes' /\ BatchTypes' /\ Installing' /\ InBatch'
  BY <1>2, NoJobIsNone, MinerAssumption
  DEF Inv, Types, LoopTypes, BatchTypes, Installing, InBatch, Groups
<1>5. /\ vdf_hex' \in [Groups -> Vdf] /\ vdf_tick' \in [Groups -> Nat] /\ doubt' \subseteq Groups
      /\ TickKnown' /\ \A h \in Groups \ {fan} : vdf_tick'[h] = vdf_tick[h]
  BY <1>1, <1>3, VdfWritten
<1>6. InstallTypes' /\ PastTypes'
  BY <1>1, <1>2, <1>5 DEF Inv, Types, InstallTypes, PastTypes
<1>7. WindowTypes'
  BY <1>1, <1>2, ClearedContexts DEF Inv, Types, WindowTypes
<1>8. Installed'
  <2> SUFFICES ASSUME NEW h \in Groups, ready[h]
               PROVE  Good(params[h]) /\ Filed(h)' /\ (h \notin torn' => vdf_tick'[h] = params[h].tick)
    BY <1>2 DEF Installed, Good
  <2>1. Good(params[h]) /\ Filed(h)
    BY DEF Inv, Installed
  <2>2. Filed(h)'
    BY <1>2, <2>1 DEF Filed
  <2> QED BY <1>2, <1>5, <2>1, <2>2 DEF Inv, Installed
<1>9. RowsTrue'
  <2>1. \A h \in Groups, q \in Seqs : last_ctx'[h][q] = 0 \/ last_ctx'[h][q] = last_ctx[h][q]
    BY <1>1, <1>2, ClearedContexts
  <2> QED BY <1>2, <2>1 DEF Inv, RowsTrue, Open
<1>10. egress' \in [Groups -> Seq(Proof)] /\ SentTrue' /\ PendingTrue'
  <2>1. {} \in SUBSET Jobs /\ \A h \in Groups \ {fan} : h \in torn' <=> h \in torn
    BY <1>2
  <2> QED BY <1>1, <1>2, <2>1, OvertakenProofs
<1>11. OutTypes'
  BY <1>2, <1>10 DEF Inv, Types, OutTypes
<1> QED BY <1>4, <1>5, <1>6, <1>7, <1>8, <1>9, <1>10, <1>11 DEF Inv, Types

LEMMA InstallOkKeeps ==
    ASSUME Inv, InstallOk
    PROVE  Inv'
<1>0. PICK g : g = fan
  OBVIOUS
<1>1. g \in Groups /\ j \in Jobs /\ j \in Job
  BY <1>0 DEF InstallOk, Inv, Types, LoopTypes, Installing, Job
<1>2. /\ Cleared(g) /\ Overtaken(g, {j}) /\ job' = [job EXCEPT ![g] = j] /\ ready' = [ready EXCEPT ![g] = TRUE]
      /\ row' = [row EXCEPT ![g] = [q \in Seqs |-> [row[g][q] EXCEPT !.params = params'[g]]]]
      /\ torn' = torn \ {g}
      /\ IF g = NGroups THEN wpc' = "prompt" /\ UNCHANGED fan ELSE fan' = g + 1 /\ UNCHANGED wpc
      /\ wpc = "install"
      /\ UNCHANGED <<cur_job, switches, j, prompt, at, todo, bad, prompt_len, pending_q, emitted, refused>>
  <2>1. row \in [Groups -> [Seqs -> Row]]
    BY DEF Inv, Types, WindowTypes
  <2> QED BY <1>0, <1>1, <2>1 DEF InstallOk
<1>3. PICK v \in VdfStep(g) :
         /\ v.ok /\ VdfDone(g, v)
         /\ params' = [params EXCEPT ![g] = [job |-> j, vdf |-> v.vdf, tick |-> v.tick, doubt |-> v.doubt]]
  BY <1>0 DEF InstallOk
<1>4. PICK kept \in Survivors(Entered(g)) : job_by_req' = [job_by_req EXCEPT ![g] = kept]
  BY <1>0 DEF InstallOk
<1>5. /\ kept \subseteq Jobs /\ job_by_req'[g] = kept
      /\ \A h \in Groups \ {g} : job_by_req'[h] = job_by_req[h]
      /\ \A e \in kept : e = j \/ (e \in job_by_req[g] /\ e.req /= j.req)
  <2>1. job_by_req \in [Groups -> SUBSET Jobs]
    BY DEF Inv, Types, InstallTypes
  <2>2. Entered(g) \in SUBSET Jobs /\ \A e \in Entered(g) : e = j \/ (e \in job_by_req[g] /\ e.req /= j.req)
    BY <1>1, <2>1 DEF Entered
  <2>3. kept \subseteq Entered(g)
    BY <2>2, SurvivorsKnown
  <2> QED BY <1>1, <1>4, <2>1, <2>2, <2>3
<1> DEFINE new == [job |-> j, vdf |-> v.vdf, tick |-> v.tick, doubt |-> v.doubt]
<1>6. new \in Params /\ Good(new) /\ new.job = j /\ new.tick = v.tick
  <2>1. /\ v.vdf \in Vdf /\ v.tick \in Nat /\ v.doubt \in BOOLEAN /\ v.vdf.parent = j.parent
        /\ v.tick = v.vdf.tick \/ v.doubt
    BY <1>1, <1>3, VdfStepGood DEF Inv
  <2>2. new.job = j /\ new.vdf = v.vdf /\ new.tick = v.tick /\ new.doubt = v.doubt
    OBVIOUS
  <2>3. new \in Params
    BY <1>1, <2>1 DEF Params
  <2> HIDE DEF new
  <2> QED BY <1>1, <2>1, <2>2, <2>3 DEF Good
<1>p. params' = [params EXCEPT ![g] = new] /\ params \in [Groups -> Params]
  BY <1>3 DEF Inv, Types, InstallTypes
<1> HIDE DEF new
<1>7. params' \in [Groups -> Params] /\ params'[g] = new /\ \A h \in Groups \ {g} : params'[h] = params[h]
  BY <1>1, <1>p, <1>6
<1>8. LoopTypes'
  <2>1. fan' \in Groups
    BY <1>0, <1>1, <1>2, MinerAssumption DEF Groups
  <2>2. wpc' \in {"install", "prompt"}
    BY <1>2
  <2> QED BY <1>2, <2>1, <2>2 DEF Inv, Types, LoopTypes
<1>9. BatchTypes' /\ Installing' /\ InBatch'
  BY <1>1, <1>2 DEF Inv, Types, BatchTypes, Installing, InBatch
<1>v. /\ vdf_hex' \in [Groups -> Vdf] /\ vdf_tick' \in [Groups -> Nat] /\ doubt' \subseteq Groups
      /\ TickKnown' /\ vdf_tick'[g] = v.tick /\ \A h \in Groups \ {g} : vdf_tick'[h] = vdf_tick[h]
  BY <1>1, <1>3, VdfWritten
<1>10. InstallTypes' /\ PastTypes'
  <2>1. ready' \in [Groups -> BOOLEAN] /\ job' \in [Groups -> Job] /\ job_by_req' \in [Groups -> SUBSET Jobs]
    BY <1>1, <1>2, <1>4, <1>5 DEF Inv, Types, InstallTypes
  <2>2. PastTypes'
    BY <1>2, <1>v DEF Inv, Types, PastTypes
  <2> QED BY <1>7, <1>v, <2>1, <2>2 DEF InstallTypes
<1>11. WindowTypes'
  <2>1. row \in [Groups -> [Seqs -> Row]] /\ prompt_len' \in [Groups -> [Seqs -> Nat]]
    BY <1>2 DEF Inv, Types, WindowTypes
  <2>2. \A q \in Seqs : [row[g][q] EXCEPT !.params = params'[g]] \in Row
    <3> SUFFICES ASSUME NEW q \in Seqs PROVE [row[g][q] EXCEPT !.params = params'[g]] \in Row
      OBVIOUS
    <3>1. row[g][q] \in Row /\ params'[g] \in Params
      BY <1>1, <1>7, <2>1
    <3> QED BY <3>1 DEF Row
  <2>3. row' \in [Groups -> [Seqs -> Row]]
    BY <1>2, <2>1, <2>2
  <2> QED BY <1>1, <1>2, <2>1, <2>3, ClearedContexts DEF WindowTypes
<1>12. Installed'
  <2> SUFFICES ASSUME NEW h \in Groups, ready'[h]
               PROVE  /\ Good(params'[h])
                      /\ \A e \in job_by_req'[h] : e.req = params'[h].job.req => e = params'[h].job
                      /\ h \notin torn' => vdf_tick'[h] = params'[h].tick
    BY DEF Installed, Good, Filed
  <2>1. CASE h = g
    BY <1>5, <1>6, <1>7, <1>v, <2>1
  <2>2. CASE h /= g
    <3>1. ready[h] /\ params'[h] = params[h] /\ job_by_req'[h] = job_by_req[h] /\ (h \notin torn' => h \notin torn)
      BY <1>2, <1>5, <1>7, <2>2 DEF Inv, Types, InstallTypes
    <3> QED BY <1>v, <2>2, <3>1 DEF Inv, Installed, Filed
  <2> QED BY <2>1, <2>2
<1>13. RowsTrue'
  <2> SUFFICES ASSUME NEW h \in Groups, NEW q \in Seqs, last_ctx'[h][q] /= 0
               PROVE  /\ ready'[h] /\ row'[h][q].params = params'[h] /\ row'[h][q].under = params'[h]
                      /\ ~ row'[h][q].mixed /\ row'[h][q].first <= last_ctx'[h][q]
    BY DEF RowsTrue, Open
  <2>1. h /= g /\ last_ctx[h][q] = last_ctx'[h][q]
    BY <1>1, <1>2, ClearedContexts
  <2>2. row'[h] = row[h] /\ ready'[h] = ready[h] /\ params'[h] = params[h]
    BY <1>2, <1>7, <2>1 DEF Inv, Types, WindowTypes, InstallTypes
  <2> QED BY <2>1, <2>2 DEF Inv, RowsTrue, Open
<1>14. egress' \in [Groups -> Seq(Proof)] /\ SentTrue' /\ PendingTrue'
  <2>1. {j} \in SUBSET Jobs /\ \A e \in job_by_req'[g] : e \in job_by_req[g] \/ e \in {j}
    BY <1>1, <1>5
  <2>2. \A h \in Groups \ {g} : /\ ready'[h] = ready[h] /\ params'[h] = params[h]
                                /\ job_by_req'[h] = job_by_req[h] /\ (h \in torn' <=> h \in torn)
    BY <1>2, <1>5, <1>7 DEF Inv, Types, InstallTypes
  <2> QED BY <1>1, <1>2, <2>1, <2>2, OvertakenProofs
<1>15. OutTypes'
  BY <1>2, <1>14 DEF Inv, Types, OutTypes
<1> QED BY <1>8, <1>9, <1>10, <1>11, <1>12, <1>13, <1>14, <1>15, <1>v DEF Inv, Types

LEMMA StartBatchKeeps ==
    ASSUME Inv, NEW lens \in [All -> PromptLens], StartBatch(lens)
    PROVE  Inv'
<1>1. /\ prompt' = lens /\ at' = 0 /\ todo' = All /\ bad' = {} /\ wpc' = "step"
      /\ row' = [g \in Groups |-> [q \in Seqs |-> [row[g][q] EXCEPT !.stale = TRUE]]]
      /\ UNCHANGED <<cur_job, switches, j, fan, last_ctx, prompt_len>> /\ UNCHANGED install
      /\ UNCHANGED out /\ UNCHANGED past
  BY DEF StartBatch
<1>2. LoopTypes' /\ Installing'
  BY <1>1 DEF Inv, Types, LoopTypes, Installing
<1>3. BatchTypes'
  BY <1>1, MinerAssumption DEF BatchTypes
<1>5. \A g \in Groups, q \in Seqs :
         /\ row'[g][q] \in Row /\ row'[g][q].params = row[g][q].params
         /\ row'[g][q].under = row[g][q].under /\ row'[g][q].mixed = row[g][q].mixed
         /\ row'[g][q].first = row[g][q].first
  <2> SUFFICES ASSUME NEW g \in Groups, NEW q \in Seqs
               PROVE  /\ row'[g][q] \in Row /\ row'[g][q].params = row[g][q].params
                      /\ row'[g][q].under = row[g][q].under /\ row'[g][q].mixed = row[g][q].mixed
                      /\ row'[g][q].first = row[g][q].first
    OBVIOUS
  <2>1. row[g][q] \in Row /\ row'[g][q] = [row[g][q] EXCEPT !.stale = TRUE]
    BY <1>1 DEF Inv, Types, WindowTypes
  <2> QED BY <2>1 DEF Row
<1>6. WindowTypes'
  <2>1. row' \in [Groups -> [Seqs -> Row]]
    BY <1>1, <1>5
  <2> QED BY <1>1, <2>1 DEF Inv, Types, WindowTypes
<1>7. RowsTrue'
  BY <1>1, <1>5 DEF Inv, RowsTrue, Open, install
<1>8. InBatch'
  BY <1>1 DEF InBatch, All
<1> QED BY <1>1, <1>2, <1>3, <1>6, <1>7, <1>8, KeptOut, KeptPast DEF Inv, Types

LEMMA NotReadyKeeps ==
    ASSUME Inv, NEW g \in Groups, NotReady(g)
    PROVE  Inv'
<1>1. /\ bad' = bad \cup {g} /\ UNCHANGED <<cur_job, switches, wpc, j, fan, prompt, at, todo>>
      /\ UNCHANGED install /\ UNCHANGED windows /\ UNCHANGED out /\ UNCHANGED past
  BY DEF NotReady
<1>2. LoopTypes' /\ BatchTypes' /\ Installing'
  BY <1>1 DEF Inv, Types, LoopTypes, BatchTypes, Installing
<1>3. InBatch'
  BY <1>1 DEF Inv, InBatch, Open, windows
<1> QED BY <1>1, <1>2, <1>3, KeptOut, KeptWindows, KeptPast DEF Inv, Types

LEMMA NextTokenKeeps ==
    ASSUME Inv, NextToken
    PROVE  Inv'
<1>1. /\ at' = at + 1 /\ todo' = All /\ bad = {} /\ at + 1 < Window /\ wpc = "step"
      /\ UNCHANGED <<cur_job, switches, wpc, j, fan, prompt, bad>>
      /\ UNCHANGED install /\ UNCHANGED windows /\ UNCHANGED out /\ UNCHANGED past
  BY DEF NextToken
<1>2. todo = {}
  BY <1>1 DEF NextToken, StepDone
<1>3. at \in Nat /\ Window \in Nat
  BY MinerAssumption DEF Inv, Types, BatchTypes
<1>4. LoopTypes' /\ Installing'
  BY <1>1 DEF Inv, Types, LoopTypes, Installing
<1>5. BatchTypes'
  <2>1. at' \in 0 .. Window - 1
    BY <1>1, <1>3
  <2> QED BY <1>1, <2>1 DEF Inv, Types, BatchTypes
<1>6. InBatch'
  BY <1>1, <1>2 DEF Inv, InBatch, Open, windows
<1> QED BY <1>1, <1>4, <1>5, <1>6, KeptOut, KeptWindows, KeptPast DEF Inv, Types

LEMMA BatchFailsKeeps ==
    ASSUME Inv, BatchFails
    PROVE  Inv'
<1>1. /\ wpc' = "look" /\ EndOfBatch /\ j' = NoJob /\ fan' = 1 /\ UNCHANGED <<cur_job, switches>>
      /\ UNCHANGED install /\ UNCHANGED windows /\ UNCHANGED out /\ UNCHANGED past
  BY DEF BatchFails, EndOfTurn
<1>2. LoopTypes' /\ Installing' /\ InBatch'
  BY <1>1, NoJobIsNone, MinerAssumption DEF Inv, Types, LoopTypes, Installing, InBatch, Groups
<1>3. BatchTypes'
  BY <1>1, MinerAssumption DEF EndOfBatch, BatchTypes
<1> QED BY <1>1, <1>2, <1>3, KeptOut, KeptWindows, KeptPast DEF Inv, Types

LEMMA BatchDoneKeeps ==
    ASSUME Inv, BatchDone
    PROVE  Inv'
<1>1. /\ wpc' = "look" /\ EndOfBatch /\ j' = NoJob /\ fan' = 1 /\ UNCHANGED <<cur_job, switches, egress, emitted>>
      /\ UNCHANGED install /\ UNCHANGED windows /\ pending_q' = PerGroup(<<>>) /\ UNCHANGED past
  BY DEF BatchDone, EndOfTurn
<1>2. LoopTypes' /\ Installing' /\ InBatch'
  BY <1>1, NoJobIsNone, MinerAssumption DEF Inv, Types, LoopTypes, Installing, InBatch, Groups
<1>3. BatchTypes'
  BY <1>1, MinerAssumption DEF EndOfBatch, BatchTypes
<1>4. pending_q' \in [Groups -> Seq(Share)] /\ PendingTrue'
  <2>1. <<>> \in Seq(Share) /\ DOMAIN <<>> = {}
    OBVIOUS
  <2>2. \A g \in Groups : pending_q'[g] = <<>>
    BY <1>1 DEF PerGroup
  <2> QED BY <1>1, <2>1, <2>2 DEF PerGroup, PendingTrue
<1>5. InstallTypes' /\ TickKnown' /\ Installed'
  BY <1>1 DEF Inv, Types, InstallTypes, TickKnown, Installed, Filed, Good, install, past
<1>6. OutTypes'
  BY <1>1, <1>4 DEF Inv, Types, OutTypes
<1>7. SentTrue'
  BY <1>1 DEF Inv, SentTrue, Sound, OnItsWay, Good, install, past
<1> QED BY <1>1, <1>2, <1>3, <1>4, <1>5, <1>6, <1>7, KeptWindows, KeptPast DEF Inv, Types

\* The sampler writes one sequence of a ready group: its context is forgotten, or is
\* this step's and its row is one of the batch.
LEMMA WindowWritten ==
    ASSUME Inv, NEW g \in Groups, NEW q \in Seqs, NEW c \in Nat, NEW r \in Row, NEW n \in Nat,
           wpc = "step", ready[g], UNCHANGED install, UNCHANGED <<wpc, prompt, at>>,
           c = 0 \/ (/\ r.params = params[g] /\ r.under = params[g] /\ ~ r.mixed
                     /\ r.first <= c /\ (r.stale => r.first < prompt[<<g, q>>])),
           last_ctx' = [last_ctx EXCEPT ![g][q] = c], row' = [row EXCEPT ![g][q] = r],
           prompt_len' = [prompt_len EXCEPT ![g][q] = n],
           todo' = todo \/ todo' = todo \ {<<g, q>>}
    PROVE  WindowTypes' /\ RowsTrue' /\ InBatch'
<1>1. /\ last_ctx \in [Groups -> [Seqs -> Nat]] /\ prompt_len \in [Groups -> [Seqs -> Nat]]
      /\ row \in [Groups -> [Seqs -> Row]]
  BY DEF Inv, Types, WindowTypes
<1>2. /\ last_ctx' \in [Groups -> [Seqs -> Nat]] /\ last_ctx'[g][q] = c
      /\ \A h \in Groups, p \in Seqs : <<h, p>> /= <<g, q>> => last_ctx'[h][p] = last_ctx[h][p]
  BY <1>1, NestedUpdate
<1>3. /\ row' \in [Groups -> [Seqs -> Row]] /\ row'[g][q] = r
      /\ \A h \in Groups, p \in Seqs : <<h, p>> /= <<g, q>> => row'[h][p] = row[h][p]
  BY <1>1, NestedUpdate
<1>4. prompt_len' \in [Groups -> [Seqs -> Nat]]
  BY <1>1, NestedUpdate
<1>5. WindowTypes'
  BY <1>2, <1>3, <1>4 DEF WindowTypes
<1>6. ASSUME NEW h \in Groups, NEW p \in Seqs, last_ctx'[h][p] /= 0
      PROVE  /\ ready[h] /\ row'[h][p].params = params[h] /\ row'[h][p].under = params[h]
             /\ ~ row'[h][p].mixed /\ row'[h][p].first <= last_ctx'[h][p]
             /\ row'[h][p].stale /\ (at /= 0 \/ <<h, p>> \notin todo')
                   => row'[h][p].first < prompt[<<h, p>>]
  <2>1. CASE h = g /\ p = q
    BY <1>2, <1>3, <1>6, <2>1
  <2>2. CASE ~ (h = g /\ p = q)
    <3>1. <<h, p>> /= <<g, q>>
      BY <2>2
    <3>2. last_ctx'[h][p] = last_ctx[h][p] /\ row'[h][p] = row[h][p] /\ (<<h, p>> \notin todo' => <<h, p>> \notin todo)
      BY <1>2, <1>3, <3>1
    <3>3. /\ ready[h] /\ row[h][p].params = params[h] /\ row[h][p].under = params[h]
          /\ ~ row[h][p].mixed /\ row[h][p].first <= last_ctx[h][p]
      BY <1>6, <3>2 DEF Inv, RowsTrue, Open
    <3>4. row[h][p].stale /\ (at /= 0 \/ <<h, p>> \notin todo) => row[h][p].first < prompt[<<h, p>>]
      BY <1>6, <3>2 DEF Inv, InBatch, Open
    <3> QED BY <3>2, <3>3, <3>4
  <2> QED BY <2>1, <2>2
<1>7. RowsTrue'
  <2>1. ready' = ready /\ params' = params
    BY DEF install
  <2>2. ASSUME NEW h \in Groups, NEW p \in Seqs, Open(h, p)'
        PROVE  (/\ ready[h] /\ row[h][p].params = params[h] /\ row[h][p].under = params[h]
                /\ ~ row[h][p].mixed /\ row[h][p].first <= last_ctx[h][p])'
    <3>1. last_ctx'[h][p] /= 0
      BY <2>2 DEF Open
    <3>2. /\ ready[h] /\ row'[h][p].params = params[h] /\ row'[h][p].under = params[h]
          /\ ~ row'[h][p].mixed /\ row'[h][p].first <= last_ctx'[h][p]
      BY <1>6, <3>1
    <3>3. ready'[h] = ready[h] /\ params'[h] = params[h]
      BY <2>1
    <3> QED BY <3>2, <3>3
  <2> QED BY <2>2 DEF RowsTrue
<1>8. InBatch'
  BY <1>6 DEF InBatch, Open
<1> QED BY <1>5, <1>7, <1>8

LEMMA OnLogitsFailsKeeps ==
    ASSUME Inv, NEW g \in Groups, NEW q \in Seqs, OnLogitsFails(g, q)
    PROVE  Inv'
<1>1. /\ wpc = "step" /\ g \notin bad /\ <<g, q>> \in todo /\ ready[g] /\ bad' = bad \cup {g}
      /\ UNCHANGED <<cur_job, switches, wpc, j, fan, prompt, at, todo, torn, doubt>>
      /\ UNCHANGED install /\ UNCHANGED out
      /\ UNCHANGED refused \/ (refused < MaxRefused /\ refused' = refused + 1)
      /\ prompt_len' = [prompt_len EXCEPT ![g][q] = PromptLenFor(g, q)]
  BY DEF OnLogitsFails
<1>2. /\ Ctx(g, q) \in Nat /\ PromptLenFor(g, q) \in Nat
      /\ \A r \in {RowFor(g, q), Recorded(g, q)} :
            /\ r \in Row /\ r.params = params[g] /\ r.under = params[g] /\ ~ r.mixed
            /\ r.first <= Ctx(g, q) /\ (r.stale => r.first < prompt[<<g, q>>])
  BY <1>1, Sampled
<1>3. PICK c \in Nat, r \in Row :
        /\ c = 0 \/ (/\ r.params = params[g] /\ r.under = params[g] /\ ~ r.mixed
                     /\ r.first <= c /\ (r.stale => r.first < prompt[<<g, q>>]))
        /\ last_ctx' = [last_ctx EXCEPT ![g][q] = c] /\ row' = [row EXCEPT ![g][q] = r]
  <2>1. CASE last_ctx' = [last_ctx EXCEPT ![g][q] = 0] /\ row' = [row EXCEPT ![g][q] = NoRow]
    BY <2>1, EmptyTyped
  <2>2. CASE /\ last_ctx' = [last_ctx EXCEPT ![g][q] = Ctx(g, q)]
             /\ \E r \in {RowFor(g, q), Recorded(g, q)} : row' = [row EXCEPT ![g][q] = r]
    BY <1>2, <2>2
  <2> QED BY <2>1, <2>2 DEF OnLogitsFails
<1>4. WindowTypes' /\ RowsTrue' /\ InBatch'
  BY <1>1, <1>2, <1>3, WindowWritten
<1>5. LoopTypes' /\ BatchTypes' /\ Installing'
  BY <1>1 DEF Inv, Types, LoopTypes, BatchTypes, Installing
<1>6. PastTypes'
  BY <1>1, MinerAssumption DEF Inv, Types, PastTypes
<1> QED BY <1>1, <1>4, <1>5, <1>6, KeptOut DEF Inv, Types

\* Reading the egress keeps proofs sound and labels what it makes a share of.
LEMMA DrainKeeps ==
    ASSUME Inv, NEW g \in Groups, NEW sent \in Seq(Proof), UNCHANGED install, UNCHANGED torn,
           \A n \in DOMAIN sent : Sound(sent[n]) /\ OnItsWay(g, sent[n]), Drain(g, sent)
    PROVE  /\ egress' \in [Groups -> Seq(Proof)] /\ pending_q' \in [Groups -> Seq(Share)]
           /\ SentTrue' /\ PendingTrue'
<1>1. egress \in [Groups -> Seq(Proof)] /\ pending_q \in [Groups -> Seq(Share)]
  BY DEF Inv, Types, OutTypes
<1>2. ASSUME NEW e \in Seq(Proof), egress' = [egress EXCEPT ![g] = e],
             \A n \in DOMAIN e : Sound(e[n]) /\ OnItsWay(g, e[n])
      PROVE  egress' \in [Groups -> Seq(Proof)] /\ SentTrue'
  <2>1. \A h \in Groups : \A n \in DOMAIN egress'[h] : Sound(egress'[h][n]) /\ OnItsWay(h, egress'[h][n])
    BY <1>1, <1>2 DEF Inv, SentTrue
  <2>2. SentTrue'
    BY <2>1 DEF SentTrue, Sound, Good, OnItsWay, install
  <2> QED BY <1>1, <1>2, <2>2
<1>k. UNCHANGED pending_q => PendingTrue'
  BY DEF Inv, PendingTrue, Sound, Labelled, Good
<1>3. CASE egress' = [egress EXCEPT ![g] = sent] /\ UNCHANGED pending_q
  BY <1>1, <1>2, <1>3, <1>k
<1>4. CASE /\ sent /= <<>> /\ egress' = [egress EXCEPT ![g] = Tail(sent)]
           /\ \/ UNCHANGED pending_q
              \/ \E s \in SharesOf(g, Head(sent)) :
                    pending_q' = [pending_q EXCEPT ![g] = Append(pending_q[g], s)]
  <2>1. Head(sent) = sent[1] /\ sent[1] \in Proof /\ 1 \in DOMAIN sent
    BY <1>4
  <2>2. Tail(sent) \in Seq(Proof)
    BY <1>4
  <2>3. \A n \in DOMAIN Tail(sent) : n + 1 \in DOMAIN sent /\ Tail(sent)[n] = sent[n + 1]
    <3>1. Len(sent) \in Nat \ {0} /\ DOMAIN sent = 1 .. Len(sent) /\ DOMAIN Tail(sent) = 1 .. Len(sent) - 1
      BY <1>4
    <3>2. \A n \in 1 .. Len(sent) - 1 : Tail(sent)[n] = sent[n + 1]
      BY <1>4
    <3> QED BY <3>1, <3>2
  <2>4. egress' \in [Groups -> Seq(Proof)] /\ SentTrue'
    BY <1>2, <1>4, <2>2, <2>3
  <2>5. PICK d \in Proof : d = sent[1] /\ d = Head(sent) /\ Sound(d) /\ OnItsWay(g, d)
    BY <2>1
  <2>6. \A s \in SharesOf(g, d) : s \in Share /\ s.proof = d /\ Labelled(s)
    <3> SUFFICES ASSUME NEW e \in Origin(g, d)
                 PROVE  LET s == [job |-> e, proof |-> d, tick |-> vdf_tick[g]]
                        IN s \in Share /\ s.proof = d /\ Labelled(s)
      BY DEF SharesOf
    <3>1. e \in job_by_req[g] /\ e \in Job /\ e.req = d.params.job.req /\ vdf_tick[g] \in Nat
      BY DEF Origin, Inv, Types, InstallTypes, Job
    <3>2. e = d.params.job \/ e \in d.next
      BY <2>5, <3>1 DEF OnItsWay
    <3>3. ~ d.overtaken => e = d.params.job /\ vdf_tick[g] = d.params.tick
      BY <2>5, <3>1 DEF OnItsWay, Inv, Installed, Filed
    <3>4. PICK s : s = [job |-> e, proof |-> d, tick |-> vdf_tick[g]]
      OBVIOUS
    <3>5. s \in Share
      BY <3>1, <3>4 DEF Share
    <3>6. s.job = e /\ s.proof = d /\ s.tick = vdf_tick[g]
      BY <3>4
    <3>7. Labelled(s)
      BY <3>2, <3>3, <3>6 DEF Labelled
    <3> QED BY <3>4, <3>5, <3>6, <3>7
  <2>7. CASE UNCHANGED pending_q
    BY <1>1, <1>k, <2>4, <2>7
  <2>8. CASE \E s \in SharesOf(g, d) : pending_q' = [pending_q EXCEPT ![g] = Append(pending_q[g], s)]
    <3>1. PICK s \in SharesOf(g, d) : pending_q' = [pending_q EXCEPT ![g] = Append(pending_q[g], s)]
      BY <2>8
    <3>2. s \in Share /\ Labelled(s) /\ Sound(s.proof) /\ pending_q[g] \in Seq(Share)
      BY <1>1, <2>5, <2>6
    <3>3. PICK e : e = Append(pending_q[g], s)
      OBVIOUS
    <3>4. e \in Seq(Share)
      BY <3>2, <3>3
    <3>5. \A n \in DOMAIN e : e[n] = s \/ (n \in DOMAIN pending_q[g] /\ e[n] = pending_q[g][n])
      BY <3>2, <3>3
    <3>6. \A n \in DOMAIN e : Sound(e[n].proof) /\ Labelled(e[n])
      BY <3>2, <3>5 DEF Inv, PendingTrue
    <3>7. pending_q'[g] = e /\ \A h \in Groups \ {g} : pending_q'[h] = pending_q[h]
      BY <1>1, <3>1, <3>3
    <3>8. \A h \in Groups : \A n \in DOMAIN pending_q'[h] :
             Sound(pending_q'[h][n].proof) /\ Labelled(pending_q'[h][n])
      BY <3>6, <3>7 DEF Inv, PendingTrue
    <3>9. PendingTrue'
      BY <3>8 DEF PendingTrue, Sound, Good, Labelled
    <3> QED BY <1>1, <2>4, <3>1, <3>3, <3>4, <3>9
  <2> QED BY <1>4, <2>5, <2>7, <2>8
<1> QED BY <1>1, <1>3, <1>4 DEF Drain

LEMMA OnLogitsKeeps ==
    ASSUME Inv, NEW g \in Groups, NEW q \in Seqs, OnLogits(g, q)
    PROVE  Inv'
<1> DEFINE r == Recorded(g, q)
           full == Steps(g, q) >= Window
           d == ProofOf(r, g)
<1>1. /\ wpc = "step" /\ g \notin bad /\ <<g, q>> \in todo /\ ready[g] /\ todo' = todo \ {<<g, q>>}
      /\ UNCHANGED <<cur_job, switches, wpc, j, fan, prompt, at, bad>> /\ UNCHANGED install /\ UNCHANGED past
      /\ prompt_len' = [prompt_len EXCEPT ![g][q] = PromptLenFor(g, q)]
      /\ last_ctx' = [last_ctx EXCEPT ![g][q] = IF full THEN 0 ELSE Ctx(g, q)]
      /\ row' = [row EXCEPT ![g][q] = IF full THEN NoRow ELSE r]
  BY DEF OnLogits
<1>2. /\ Ctx(g, q) \in Nat /\ PromptLenFor(g, q) \in Nat
      /\ r \in Row /\ r.params = params[g] /\ r.under = params[g] /\ ~ r.mixed
      /\ r.first <= Ctx(g, q) /\ (r.stale => r.first < prompt[<<g, q>>])
  BY <1>1, Sampled
<1>e. \/ Drain(g, egress[g]) /\ UNCHANGED emitted
      \/ emitted < MaxProofs /\ emitted' = emitted + 1 /\ Drain(g, Append(egress[g], d))
  BY DEF OnLogits
<1> HIDE DEF r
<1>3. WindowTypes' /\ RowsTrue' /\ InBatch'
  <2>1. PICK c, s : c = (IF full THEN 0 ELSE Ctx(g, q)) /\ s = (IF full THEN NoRow ELSE r)
    OBVIOUS
  <2>2. /\ c \in Nat /\ s \in Row
        /\ c = 0 \/ (/\ s.params = params[g] /\ s.under = params[g] /\ ~ s.mixed
                     /\ s.first <= c /\ (s.stale => s.first < prompt[<<g, q>>]))
    BY <1>2, <2>1, EmptyTyped
  <2>3. last_ctx' = [last_ctx EXCEPT ![g][q] = c] /\ row' = [row EXCEPT ![g][q] = s]
    BY <1>1, <2>1
  <2>4. UNCHANGED <<wpc, prompt, at>> /\ todo' = todo \ {<<g, q>>} /\ UNCHANGED install
    BY <1>1
  <2>5. PICK n \in Nat : n = PromptLenFor(g, q)
    BY <1>2
  <2>6. prompt_len' = [prompt_len EXCEPT ![g][q] = n]
    BY <1>1, <2>5
  <2>7. wpc = "step" /\ ready[g]
    BY <1>1
  <2> QED BY <2>2, <2>3, <2>4, <2>5, <2>6, <2>7, WindowWritten
<1>4. LoopTypes' /\ BatchTypes' /\ Installing'
  BY <1>1 DEF Inv, Types, LoopTypes, BatchTypes, Installing
<1>5. d \in Proof /\ Sound(d) /\ OnItsWay(g, d)
  <2>1. r.mixed \in BOOLEAN /\ params[g] \in Params
    BY <1>2 DEF Row, Inv, Types, InstallTypes
  <2>2. /\ d.params = params[g] /\ d.under = params[g] /\ d.mixed = r.mixed
        /\ d.overtaken = (g \in torn) /\ d.next = {}
    BY <1>2 DEF ProofOf
  <2>3. d \in Proof
    BY <1>2, <2>1 DEF ProofOf, Proof
  <2> HIDE DEF d
  <2>4. Good(params[g]) /\ Filed(g)
    BY <1>1 DEF Inv, Installed
  <2>5. Sound(d)
    BY <1>2, <2>2, <2>4 DEF Sound
  <2>6. OnItsWay(g, d)
    BY <1>1, <2>2, <2>4 DEF OnItsWay, Filed
  <2> QED BY <2>3, <2>5, <2>6
<1> HIDE DEF d
<1>6. egress[g] \in Seq(Proof) /\ \A n \in DOMAIN egress[g] : Sound(egress[g][n]) /\ OnItsWay(g, egress[g][n])
  BY DEF Inv, Types, OutTypes, SentTrue
<1>p. PastTypes' /\ UNCHANGED <<torn, doubt>> /\ UNCHANGED torn
  BY <1>1, KeptPast
<1>7. /\ egress' \in [Groups -> Seq(Proof)] /\ pending_q' \in [Groups -> Seq(Share)]
      /\ SentTrue' /\ PendingTrue' /\ emitted' \in 0 .. MaxProofs
  <2>1. CASE Drain(g, egress[g]) /\ UNCHANGED emitted
    BY <1>1, <1>6, <1>p, <2>1, DrainKeeps DEF Inv, Types, OutTypes
  <2>2. CASE emitted < MaxProofs /\ emitted' = emitted + 1 /\ Drain(g, Append(egress[g], d))
    <3>3. PICK e : e = Append(egress[g], d)
      OBVIOUS
    <3>4. e \in Seq(Proof)
      BY <1>5, <1>6, <3>3
    <3>5. \A n \in DOMAIN e : e[n] = d \/ (n \in DOMAIN egress[g] /\ e[n] = egress[g][n])
      BY <1>5, <1>6, <3>3
    <3>6. \A n \in DOMAIN e : Sound(e[n]) /\ OnItsWay(g, e[n])
      BY <1>5, <1>6, <3>5
    <3>8. emitted' \in 0 .. MaxProofs
      BY <2>2, MinerAssumption DEF Inv, Types, OutTypes
    <3> QED BY <1>1, <1>p, <2>2, <3>3, <3>4, <3>6, <3>8, DrainKeeps
  <2> QED BY <1>e, <2>1, <2>2
<1>8. InstallTypes' /\ TickKnown' /\ Installed'
  BY <1>1, <1>p DEF Inv, Types, InstallTypes, TickKnown, Installed, Filed, Good, install
<1>9. OutTypes'
  BY <1>7 DEF OutTypes
<1> QED BY <1>3, <1>4, <1>7, <1>8, <1>9, <1>p DEF Inv, Types

LEMMA InvInit == Init => Inv
<1> SUFFICES ASSUME Init PROVE Inv
  OBVIOUS
<1>1. LoopTypes /\ Installing
  BY MinerAssumption, NoJobIsNone DEF Init, LoopTypes, Installing, Groups
<1>2. BatchTypes /\ PastTypes
  BY MinerAssumption DEF Init, BatchTypes, PastTypes
<1>3. InstallTypes
  BY EmptyTyped, NoJobIsNone DEF Init, InstallTypes, PerGroup
<1>4. WindowTypes
  BY EmptyTyped DEF Init, WindowTypes, PerGroup, PerSeq
<1>5. TickKnown /\ Installed /\ RowsTrue /\ InBatch
  BY DEF Init, TickKnown, Installed, RowsTrue, Open, InBatch, PerGroup, PerSeq, NoVdf
<1>6. (\A g \in Groups : egress[g] = <<>> /\ pending_q[g] = <<>>) /\ DOMAIN <<>> = {}
  BY DEF Init, PerGroup
<1>7. OutTypes
  <2>1. <<>> \in Seq(Proof) /\ <<>> \in Seq(Share)
    OBVIOUS
  <2> QED BY <2>1, MinerAssumption DEF Init, OutTypes, PerGroup
<1>8. SentTrue /\ PendingTrue
  BY <1>6 DEF SentTrue, PendingTrue
<1> QED BY <1>1, <1>2, <1>3, <1>4, <1>5, <1>7, <1>8 DEF Inv, Types

LEMMA InvNext == Inv /\ [Next]_vars => Inv'
<1> SUFFICES ASSUME Inv, [Next]_vars PROVE Inv'
  OBVIOUS
<1>1. CASE \E n \in Jobs : Announce(n)
  BY <1>1, AnnounceKeeps
<1>2. CASE Look \/ InstallFails \/ InstallOk
  BY <1>2, LookKeeps, InstallFailsKeeps, InstallOkKeeps
<1>3. CASE \E lens \in [All -> PromptLens] : StartBatch(lens)
  BY <1>3, StartBatchKeeps
<1>4. CASE \E g \in Groups : NotReady(g)
  BY <1>4, NotReadyKeeps
<1>5. CASE \E u \in All : OnLogitsFails(u[1], u[2]) \/ OnLogits(u[1], u[2])
  <2>1. PICK g \in Groups, q \in Seqs : OnLogitsFails(g, q) \/ OnLogits(g, q)
    BY <1>5 DEF All
  <2> QED BY <2>1, OnLogitsFailsKeeps, OnLogitsKeeps
<1>6. CASE NextToken \/ BatchFails \/ BatchDone
  BY <1>6, NextTokenKeeps, BatchFailsKeeps, BatchDoneKeeps
<1>7. CASE UNCHANGED vars
  <2>1. UNCHANGED worker /\ UNCHANGED install /\ UNCHANGED windows /\ UNCHANGED out /\ UNCHANGED past
        /\ UNCHANGED <<cur_job, switches>>
    BY <1>7 DEF vars
  <2>2. LoopTypes' /\ BatchTypes' /\ Installing'
    BY <2>1 DEF Inv, Types, LoopTypes, BatchTypes, Installing, worker
  <2>3. InBatch'
    BY <2>1 DEF Inv, InBatch, Open, worker, windows
  <2> QED BY <2>1, <2>2, <2>3, KeptOut, KeptWindows, KeptPast DEF Inv, Types
<1> QED BY <1>1, <1>2, <1>3, <1>4, <1>5, <1>6, <1>7 DEF Next, WorkerStep

\* Through job switches, failed installs, reused VDFs and abandoned batches, a
\* share of poi.cpp that set_job did not overtake has the label and the tick of the
\* job it was sampled under; one that was overtaken has this job's label, or that of
\* a later job under the same request id.  The VDF of its proof is over its job's
\* parent and has the tick stated, unless the pool sent it without its tick or it
\* was kept when the proof of another failed.
THEOREM ProofsTrue == Spec => []ProofsAreTrue
<1>1. Inv /\ [Next]_vars => Inv'
  BY InvNext
<1>2. Inv => ProofsAreTrue
  BY InvGives
<1> QED BY <1>1, <1>2, InvInit, PTL DEF Spec

\* A proof of poi.cpp states the parameters its window was opened with, and its steps
\* are of one batch, unless every later batch had a longer prompt than the first.
THEOREM WindowsPure == Spec => []WindowsArePure
<1>1. Inv /\ [Next]_vars => Inv'
  BY InvNext
<1>2. Inv => WindowsArePure
  BY InvGives
<1> QED BY <1>1, <1>2, InvInit, PTL DEF Spec
=============================================================================
