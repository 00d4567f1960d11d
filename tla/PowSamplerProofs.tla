-------------------------- MODULE PowSamplerProofs --------------------------
(***************************************************************************)
(* What PowSampler's runs check on a small instance, proved for every set  *)
(* of requests and rows, every window size and every configuration.        *)
(*                                                                         *)
(* The inductive invariant comes in three layers.  RInv is about the rows: *)
(* the types, how the tables of the sampler refer to each other (Tables)   *)
(* and what a phase of a call can count on (Calls).  Buffers, on top of    *)
(* it, is what the rows and caches of a sequence hold, and Proofs, on top  *)
(* of both, is what was handed to the submitter.                           *)
(***************************************************************************)
EXTENDS PowSampler, FiniteSetTheorems, WellFoundedInduction, TLAPS

Slot == [sid : Sids \cup {None}, idx : Nat \cup {None}, params : Reqs \cup {None},
         nonce : (Sids \X Nat) \cup {None}, tok : Int \cup {None}]
Ring == [steps : Nat, steps_host : Nat, params : Reqs \cup {None},
         nonce : (Sids \X Nat) \cup {None}, nonce_host : BOOLEAN,
         slots : [0 .. W - 1 -> Slot]]
Cache == [archive : Seq(Int), ring : [0 .. W - 1 -> Int], ring_pos : 0 .. W - 1]

Phases == {"idle", "register", "evict", "rows", "admit", "sample", "eos", "pow", "cleanup"}

Types ==
    /\ text \in [Reqs -> Int]
    /\ phase \in Phases /\ at \in Nat \ {0}
    /\ batch \in Seq(Reqs) /\ sids \in Seq(Sids) /\ eos \subseteq Sids
    /\ req_id_to_sid \in [Reqs -> Sids \cup {None}]
    /\ next_sid \in 0 .. MaxSid
    /\ seq_params \in [Sids -> Reqs \cup {None}]
    /\ seq_caches \in [Sids -> Cache \cup {None}]
    /\ stale \subseteq Sids
    /\ seqid_to_row \in [Sids -> Rows \cup {None}]
    /\ free_rows \in Seq(Rows)
    /\ rb \in [Rows -> Ring]

(* A request and its sequence refer to each other; an id that was never    *)
(* handed out has no row.                                                  *)
IdsLinked ==
    /\ \A q \in Reqs : req_id_to_sid[q] /= None =>
          req_id_to_sid[q] < next_sid /\ seq_params[req_id_to_sid[q]] = q
    /\ \A s \in Sids : s >= next_sid => seqid_to_row[s] = None

(* Only rows of the process are handed out. *)
RowsWithin ==
    /\ cfg \in Configs
    /\ \A k \in 1 .. Len(free_rows) : free_rows[k] \in RowsInUse
    /\ \A s \in Sids : seqid_to_row[s] /= None => seqid_to_row[s] \in RowsInUse

Tables == RowsPartition /\ RowsWithin /\ IdsLinked

(* What Schedule promises to Register. *)
BatchFits ==
    /\ \A j, k \in 1 .. Len(batch) : batch[j] = batch[k] => j = k
    /\ Len(batch) <= Cardinality(RowsInUse)
    /\ phase = "register" =>
          next_sid + Cardinality({q \in InBatch(batch) : req_id_to_sid[q] = None}) <= MaxSid

(* What Register promises to the rest of the call. *)
SidsFit ==
    /\ \A j, k \in 1 .. Len(sids) : sids[j] = sids[k] => j = k
    /\ Len(sids) <= Cardinality(RowsInUse)
    /\ \A k \in 1 .. Len(sids) : sids[k] < next_sid
    /\ phase \notin {"idle", "register"} => Len(sids) = Len(batch)

(* While rows are handed out there are enough free ones. *)
RowsSuffice ==
    phase = "rows" => /\ Need <= Len(free_rows)
                      /\ \A k \in 1 .. Len(sids) : k < at => seqid_to_row[sids[k]] /= None

Calls == BatchFits /\ SidsFit /\ RowsSuffice /\ BatchHasRows

(* The parameters of a row are those its holder was registered with. *)
Snapshot(req) == IF req \in PowReqs THEN req ELSE None
ParamsAreHolders ==
    \A s \in Sids : seqid_to_row[s] /= None =>
        rb[seqid_to_row[s]].params = Snapshot(seq_params[s])

(* Without admission there is no nonce. *)
NoUnaskedNonce == ~ Admits => \A r \in Rows : rb[r].nonce = None

(* Between Admit and Sample a row at a boundary holds the nonce of the     *)
(* window it is about to open; otherwise it holds the one of the window    *)
(* it has just closed.                                                     *)
BoundaryNonce ==
    \A s \in Sids : seqid_to_row[s] /= None =>
       LET ring == rb[seqid_to_row[s]]
       IN  ring.steps % W = 0 =>
              IF phase = "sample" /\ s \in BatchSids
              THEN ring.nonce \in {None, <<s, ring.steps \div W>>}
              ELSE ring.steps > 0 => \A j \in 0 .. W - 1 : ring.slots[j].nonce = ring.nonce

(* A row of the batch has moved on once it is sampled. *)
SampledOnce ==
    phase \in {"eos", "pow", "cleanup"} =>
       \A k \in 1 .. Len(sids) : seqid_to_row[sids[k]] /= None =>
          rb[seqid_to_row[sids[k]]].steps > 0

Buffers == /\ ParamsAreHolders /\ NoUnaskedNonce /\ BoundaryNonce /\ SampledOnce
           /\ WindowsArePure /\ NonceAdmitsOneWindow /\ CopiesAgree

(* In the loop over the batch the audited windows up to here have their    *)
(* proofs.                                                                 *)
AuditedSoFar ==
    phase = "pow" /\ cfg.fastpath =>
       \A k \in 1 .. Len(sids) :
          /\ k < at
          /\ seqid_to_row[sids[k]] /= None /\ seq_params[sids[k]] \in AuditReqs
          /\ rb[seqid_to_row[sids[k]]].steps % W = 0
          => \E p \in out : p.sid = sids[k]

(* The proofs of a call are made in the walk and forgotten at its end.     *)
OutEmpty == phase \notin {"pow", "cleanup"} => out = {}

(* A sequence of the batch without a row in the walk has ended in this     *)
(* call, and its parameters are forgotten.                                 *)
RowlessEnded ==
    phase \in {"eos", "pow"} =>
       \A k \in 1 .. Len(sids) : seqid_to_row[sids[k]] = None =>
          sids[k] \in eos /\ seq_params[sids[k]] = None

Proofs == FastpathProofsAreOwn /\ AuditIsKept /\ AuditedSoFar /\ OutEmpty /\ RowlessEnded

RInv == Types /\ Tables /\ Calls

-----------------------------------------------------------------------------
(* Arithmetic of the rings.                                                *)

(* Quotient and remainder are what they are. *)
LEMMA DivMod ==
    ASSUME NEW w \in Nat \ {0}, NEW a \in Nat
    PROVE  a % w \in 0 .. w - 1 /\ a \div w \in Nat /\ a = w * (a \div w) + (a % w)
OBVIOUS

LEMMA DivModUnique ==
    ASSUME NEW w \in Nat \ {0}, NEW a \in Nat, NEW q \in Nat, NEW r \in 0 .. w - 1,
           a = w * q + r
    PROVE  a % w = r /\ a \div w = q
OBVIOUS

(* One step further: to the next slot, or to slot 0 of the next window. *)
LEMMA DivModSucc ==
    ASSUME NEW w \in Nat \ {0}, NEW a \in Nat
    PROVE  /\ (a + 1) % w = IF a % w = w - 1 THEN 0 ELSE (a % w) + 1
           /\ a % w /= w - 1 => (a + 1) \div w = a \div w
<1> DEFINE q == a \div w
           r == a % w
<1>1. q \in Nat /\ r \in 0 .. w - 1 /\ a = w * q + r
  BY DivMod
<1> HIDE DEF q, r
<1>2. CASE r = w - 1
  <2>1. a + 1 = w * (q + 1) + 0 /\ q + 1 \in Nat /\ 0 \in 0 .. w - 1 /\ a + 1 \in Nat
    BY <1>1, <1>2
  <2> QED BY <2>1, <1>2, DivModUnique DEF r
<1>3. CASE r /= w - 1
  <2>1. a + 1 = w * q + (r + 1) /\ r + 1 \in 0 .. w - 1 /\ a + 1 \in Nat
    BY <1>1, <1>3
  <2> QED BY <2>1, <1>1, <1>3, DivModUnique DEF q, r
<1> QED BY <1>2, <1>3

(* An index that has gone round at most once. *)
LEMMA ModWrap ==
    ASSUME NEW w \in Nat \ {0}, NEW a \in Nat, a < 2 * w
    PROVE  a % w = IF a < w THEN a ELSE a - w
<1>1. CASE a < w BY <1>1
<1>2. CASE ~ (a < w) BY <1>2
<1> QED BY <1>1, <1>2

(* Reading a ring from the cursor on, before and after a write. *)
LEMMA Rotation ==
    ASSUME NEW w \in Nat \ {0}, NEW p \in 0 .. w - 1, NEW j \in 1 .. w
    PROVE  /\ (((p + 1) % w) + j - 1) % w = (p + j) % w
           /\ (p + j) % w = p <=> j = w
           /\ (p + j) % w \in 0 .. w - 1
<1>0. \A a \in Nat : a < 2 * w => a % w = IF a < w THEN a ELSE a - w
  BY ModWrap
<1>1. (p + 1) % w = IF p + 1 < w THEN p + 1 ELSE 0
  <2>1. p + 1 \in Nat /\ p + 1 < 2 * w OBVIOUS
  <2> QED BY <2>1, <1>0
<1>2. (p + j) % w = IF p + j < w THEN p + j ELSE p + j - w
  <2>1. p + j \in Nat /\ p + j < 2 * w OBVIOUS
  <2> QED BY <2>1, <1>0
<1>3. (((p + 1) % w) + j - 1) % w = (p + j) % w
  <2>1. CASE p + 1 < w BY <2>1, <1>1
  <2>2. CASE ~ (p + 1 < w)
    <3>1. ((p + 1) % w) + j - 1 = j - 1 /\ p = w - 1 BY <2>2, <1>1
    <3>2. (j - 1) % w = j - 1
      <4>1. j - 1 \in Nat /\ j - 1 < w OBVIOUS
      <4> QED BY <4>1, <1>0
    <3> QED BY <3>1, <3>2, <1>2
  <2> QED BY <2>1, <2>2
<1> QED BY <1>2, <1>3

-----------------------------------------------------------------------------
(* Constants and values.                                                   *)

LEMMA NoneIsNothing ==
    None \notin Reqs /\ None \notin Rows /\ None \notin Int /\ None \notin Sids
BY NoneAssumption DEF Sids

(* The rows of the process are rows. *)
LEMMA InUse ==
    ASSUME cfg \in Configs
    PROVE  RowsInUse \subseteq Rows /\ None \notin RowsInUse
<1>1. RowOrder \in Seq(Rows) /\ cfg.rows \in 0 .. Len(RowOrder)
  BY RowOrderAssumption
<1>2. RowsInUse \subseteq Rows
  BY <1>1 DEF RowsInUse
<1> QED BY <1>2, NoneIsNothing

LEMMA SidsFinite ==
    IsFiniteSet(Sids) /\ \A s \in Sids : s \in Nat /\ s < MaxSid
BY SizesAssumption, FS_Interval DEF Sids

LEMMA EmptyRowIsRing == EmptyRow \in Ring /\ EmptySlot \in Slot
<1>1. EmptySlot \in Slot
  BY DEF EmptySlot, Slot
<1>2. [j \in 0 .. W - 1 |-> EmptySlot] \in [0 .. W - 1 -> Slot]
  BY <1>1
<1> QED BY <1>1, <1>2 DEF EmptyRow, Ring

(* The row that a sequence is given. *)
LEMMA FreshRow ==
    ASSUME NEW req \in Reqs \cup {None}
    PROVE  LET ring == WritePowParams(EmptyRow, req)
           IN  /\ ring \in Ring
               /\ ring.steps = 0 /\ ring.steps_host = 0 /\ ring.params = Snapshot(req)
               /\ ring.nonce = None /\ ring.nonce_host = FALSE
               /\ \A j \in 0 .. W - 1 : ring.slots[j] = EmptySlot
<1>1. CASE req \in PowReqs
  BY <1>1, EmptyRowIsRing, SetsAssumption DEF WritePowParams, Snapshot, Ring, EmptyRow
<1>2. CASE req \notin PowReqs
  BY <1>2, EmptyRowIsRing DEF WritePowParams, Snapshot, EmptyRow
<1> QED BY <1>1, <1>2

LEMMA NewCacheIsCache ==
    ASSUME NEW req
    PROVE  NewCache(req) \in Cache
<1> DEFINE tail == IF PromptLen < W THEN PromptLen ELSE W
<1>1. tail \in Nat /\ tail % W \in 0 .. W - 1 /\ PromptLen - tail \in Int
  BY SizesAssumption, DivMod
<1>2. [n \in 1 .. PromptLen |-> n] \in Seq(Int)
  BY SizesAssumption
<1>3. [j \in 0 .. W - 1 |-> IF j < tail THEN PromptLen - tail + j + 1 ELSE Pad]
          \in [0 .. W - 1 -> Int]
  BY <1>1, SizesAssumption DEF Pad
<1> QED BY <1>1, <1>2, <1>3 DEF NewCache, Cache

LEMMA UpdateCacheIsCache ==
    ASSUME NEW c \in Cache, NEW tok \in Int
    PROVE  UpdateCache(c, tok) \in Cache
<1>1. c.archive \in Seq(Int) /\ c.ring \in [0 .. W - 1 -> Int] /\ c.ring_pos \in 0 .. W - 1
  BY DEF Cache
<1>2. Append(c.archive, tok) \in Seq(Int)
  BY <1>1
<1>3. (c.ring_pos + 1) % W \in 0 .. W - 1
  BY <1>1, SizesAssumption, DivMod, c.ring_pos + 1 \in Nat
<1> QED BY <1>1, <1>2, <1>3 DEF UpdateCache, Cache

-----------------------------------------------------------------------------
(* Freeing a sequence.                                                     *)

TableTypes ==
    /\ req_id_to_sid \in [Reqs -> Sids \cup {None}]
    /\ seq_params \in [Sids -> Reqs \cup {None}]
    /\ seq_caches \in [Sids -> Cache \cup {None}]
    /\ stale \subseteq Sids
    /\ seqid_to_row \in [Sids -> Rows \cup {None}]
    /\ free_rows \in Seq(Rows)
    /\ rb \in [Rows -> Ring]

(* The sequences that still have a row have the one they had, with what    *)
(* was in it.                                                              *)
OthersKept ==
    \A t \in Sids : seqid_to_row'[t] /= None =>
        /\ seqid_to_row'[t] = seqid_to_row[t]
        /\ rb'[seqid_to_row[t]] = rb[seqid_to_row[t]]
        /\ seq_params'[t] = seq_params[t]

LEMMA FreeSequenceTypes ==
    ASSUME TableTypes, NEW s \in Sids, FreeSequence(s)
    PROVE  TableTypes'
<1>1. free_rows' \in Seq(Rows)
  BY DEF FreeSequence, FreeRow, TableTypes
<1>2. rb' \in [Rows -> Ring]
  BY EmptyRowIsRing DEF FreeSequence, TableTypes
<1>3. seqid_to_row' \in [Sids -> Rows \cup {None}]
  BY DEF FreeSequence, TableTypes
<1>4. seq_caches' \in [Sids -> Cache \cup {None}] /\ seq_params' \in [Sids -> Reqs \cup {None}]
  BY DEF FreeSequence, TableTypes
<1>5. req_id_to_sid' \in [Reqs -> Sids \cup {None}] /\ stale' \subseteq Sids
  BY DEF FreeSequence, TableTypes
<1> QED BY <1>1, <1>2, <1>3, <1>4, <1>5 DEF TableTypes

LEMMA FreeSequenceTables ==
    ASSUME TableTypes, Tables, NEW s \in Sids, FreeSequence(s), next_sid' = next_sid, cfg' = cfg
    PROVE  Tables' /\ OthersKept /\ seqid_to_row'[s] = None
<1>0. /\ seqid_to_row' = [seqid_to_row EXCEPT ![s] = None]
      /\ seqid_to_row'[s] = None
      /\ \A t \in Sids : t /= s => seqid_to_row'[t] = seqid_to_row[t]
  BY DEF FreeSequence, TableTypes
<1>1. OthersKept
  <2> SUFFICES ASSUME NEW t \in Sids, seqid_to_row'[t] /= None
               PROVE  /\ seqid_to_row'[t] = seqid_to_row[t]
                      /\ rb'[seqid_to_row[t]] = rb[seqid_to_row[t]]
                      /\ seq_params'[t] = seq_params[t]
    BY DEF OthersKept
  <2>1. t /= s /\ seqid_to_row'[t] = seqid_to_row[t]
    BY <1>0
  <2>2. seqid_to_row[t] /= seqid_to_row[s]
    BY <2>1 DEF Tables, RowsPartition
  <2>3. rb'[seqid_to_row[t]] = rb[seqid_to_row[t]]
    BY <2>1, <2>2 DEF FreeSequence, TableTypes
  <2> QED BY <2>1, <2>3 DEF FreeSequence, TableTypes
<1>2. IdsLinked'
  <2>1. ASSUME NEW q \in Reqs, req_id_to_sid'[q] /= None
        PROVE  req_id_to_sid'[q] < next_sid' /\ seq_params'[req_id_to_sid'[q]] = q
    <3>1. req_id_to_sid'[q] = req_id_to_sid[q] /\ req_id_to_sid[q] /= s
      BY <2>1 DEF FreeSequence
    <3>2. req_id_to_sid[q] \in Sids
      BY <3>1, <2>1 DEF TableTypes
    <3>3. seq_params'[req_id_to_sid[q]] = seq_params[req_id_to_sid[q]]
      BY <3>1, <3>2 DEF FreeSequence, TableTypes
    <3> QED BY <2>1, <3>1, <3>3 DEF Tables, IdsLinked
  <2>2. \A t \in Sids : t >= next_sid' => seqid_to_row'[t] = None
    BY <1>0 DEF Tables, IdsLinked
  <2> QED BY <2>1, <2>2 DEF IdsLinked
<1>c. RowsInUse' = RowsInUse
  BY DEF RowsInUse
<1>3. RowsPartition' /\ RowsWithin'
  <2>1. CASE seqid_to_row[s] = None
    <3>1. \A t \in Sids : seqid_to_row'[t] = seqid_to_row[t]
      BY <2>1, <1>0
    <3>2. free_rows' = free_rows
      BY <2>1 DEF FreeSequence, FreeRow
    <3> QED BY <1>c, <3>1, <3>2 DEF Tables, RowsPartition, RowsWithin
  <2>2. CASE seqid_to_row[s] /= None
    <3> DEFINE row == seqid_to_row[s]
    <3>1. row \in Rows /\ row \in RowsInUse
      BY <2>2 DEF TableTypes, Tables, RowsWithin
    <3>2. free_rows \in Seq(Rows)
      BY DEF TableTypes
    <3>3. free_rows' = Append(free_rows, row)
      BY <2>2 DEF FreeSequence, FreeRow
    <3>4. /\ Len(free_rows') = Len(free_rows) + 1 /\ Len(free_rows) \in Nat
          /\ free_rows'[Len(free_rows) + 1] = row
          /\ \A k \in 1 .. Len(free_rows) : free_rows'[k] = free_rows[k]
      BY <3>1, <3>2, <3>3
    <3>5. \A k \in 1 .. Len(free_rows) : free_rows[k] /= row
      BY <3>1 DEF Tables, RowsPartition
    <3>6. \A j, k \in 1 .. Len(free_rows') : free_rows'[j] = free_rows'[k] => j = k
      BY <3>4, <3>5 DEF Tables, RowsPartition
    <3>7. \A r \in RowsInUse : (\E t \in Sids : seqid_to_row'[t] = r)
                 <=> ~ \E k \in 1 .. Len(free_rows') : free_rows'[k] = r
      <4> SUFFICES ASSUME NEW r \in RowsInUse
                   PROVE  (\E t \in Sids : seqid_to_row'[t] = r)
                            <=> ~ \E k \in 1 .. Len(free_rows') : free_rows'[k] = r
        OBVIOUS
      <4>1. CASE r = row
        <5>1. ~ \E t \in Sids : seqid_to_row'[t] = r
          BY <4>1, <2>2, <1>0 DEF Tables, RowsPartition
        <5>2. free_rows'[Len(free_rows) + 1] = r
          BY <4>1, <3>4
        <5> QED BY <5>1, <5>2, <3>4
      <4>2. CASE r /= row
        <5>0. r /= None
          BY InUse DEF Tables, RowsWithin
        <5>1. (\E t \in Sids : seqid_to_row'[t] = r) <=> \E t \in Sids : seqid_to_row[t] = r
          BY <4>2, <5>0, <1>0
        <5>2. (\E k \in 1 .. Len(free_rows') : free_rows'[k] = r)
                 <=> \E k \in 1 .. Len(free_rows) : free_rows[k] = r
          BY <4>2, <3>4
        <5> QED BY <5>1, <5>2 DEF Tables, RowsPartition
      <4> QED BY <4>1, <4>2
    <3>8. \A t, u \in Sids : seqid_to_row'[t] /= None /\ seqid_to_row'[t] = seqid_to_row'[u] => t = u
      BY <1>0 DEF Tables, RowsPartition
    <3>9. RowsWithin'
      <4>1. ASSUME NEW k \in 1 .. Len(free_rows')
            PROVE  free_rows'[k] \in RowsInUse
        BY <3>1, <3>4 DEF Tables, RowsWithin
      <4>2. \A t \in Sids : seqid_to_row'[t] /= None => seqid_to_row'[t] \in RowsInUse
        BY <1>0 DEF Tables, RowsWithin
      <4> QED BY <1>c, <4>1, <4>2 DEF Tables, RowsWithin
    <3> QED BY <1>c, <3>6, <3>7, <3>8, <3>9 DEF RowsPartition
  <2> QED BY <2>1, <2>2
<1> QED BY <1>0, <1>1, <1>2, <1>3 DEF Tables

-----------------------------------------------------------------------------
(* Counting rows.                                                          *)

LEMMA CountTo == \A n \in Nat : IsFiniteSet(1 .. n) /\ Cardinality(1 .. n) = n
BY FS_Interval

(* The rows of the process, counted. *)
LEMMA RowsOfProcess ==
    ASSUME cfg \in Configs
    PROVE  IsFiniteSet(RowsInUse) /\ Cardinality(RowsInUse) = cfg.rows /\ cfg.rows \in 0 .. Len(RowOrder)
<1> DEFINE n == cfg.rows
           f == [k \in 1 .. n |-> RowOrder[k]]
<1>1. n \in 0 .. Len(RowOrder) /\ n \in Nat
  BY RowOrderAssumption
<1>2. \A j, k \in 1 .. n : RowOrder[j] = RowOrder[k] => j = k
  BY <1>1, RowOrderAssumption
<1> HIDE DEF n
<1>3. f \in Bijection(1 .. n, {RowOrder[k] : k \in 1 .. n})
  BY <1>2 DEF Bijection, Injection, Surjection, IsInjective
<1>4. IsFiniteSet(1 .. n) /\ Cardinality(1 .. n) = n
  BY <1>1, CountTo
<1>5. IsFiniteSet({RowOrder[k] : k \in 1 .. n}) /\ Cardinality({RowOrder[k] : k \in 1 .. n}) = n
  BY <1>3, <1>4, FS_Bijection DEF ExistsBijection
<1> QED BY <1>1, <1>5 DEF RowsInUse, n

(* Every row is free or held, so the free ones and the holders add up. *)
LEMMA RowCount ==
    ASSUME TableTypes, RowsPartition, RowsWithin
    PROVE  /\ IsFiniteSet(RowsInUse) /\ IsFiniteSet(Holders)
           /\ Cardinality(RowsInUse) \in Nat /\ Cardinality(Holders) \in Nat
           /\ Cardinality(RowsInUse) = Len(free_rows) + Cardinality(Holders)
<1> DEFINE free == {free_rows[k] : k \in 1 .. Len(free_rows)}
           held == {r \in RowsInUse : \E s \in Sids : seqid_to_row[s] = r}
<1>0. free_rows \in Seq(Rows) /\ Len(free_rows) \in Nat /\ \A k \in 1 .. Len(free_rows) : free_rows[k] \in Rows
  BY DEF TableTypes
<1>1. IsFiniteSet(free) /\ Cardinality(free) = Len(free_rows)
  <2> DEFINE f == [k \in 1 .. Len(free_rows) |-> free_rows[k]]
  <2>1. f \in Bijection(1 .. Len(free_rows), free)
    BY DEF Bijection, Injection, Surjection, IsInjective, RowsPartition
  <2>2. IsFiniteSet(1 .. Len(free_rows)) /\ Cardinality(1 .. Len(free_rows)) = Len(free_rows)
    BY <1>0, CountTo
  <2> QED BY <2>1, <2>2, FS_Bijection DEF ExistsBijection
<1>2. IsFiniteSet(Holders)
  BY SidsFinite, FS_Subset DEF Holders
<1>3. IsFiniteSet(held) /\ Cardinality(held) = Cardinality(Holders)
  <2> DEFINE f == [s \in Holders |-> seqid_to_row[s]]
  <2>1. f \in Bijection(Holders, held)
    <3>1. \A s \in Holders : s \in Sids /\ seqid_to_row[s] /= None /\ seqid_to_row[s] \in RowsInUse
      BY DEF Holders, RowsWithin
    <3>2. \A r \in held : \E s \in Holders : seqid_to_row[s] = r
      BY InUse DEF Holders, RowsWithin
    <3>3. \A s, t \in Holders : seqid_to_row[s] = seqid_to_row[t] => s = t
      BY <3>1 DEF RowsPartition
    <3>4. f \in [Holders -> held] /\ \A s \in Holders : f[s] = seqid_to_row[s]
      BY <3>1
    <3> HIDE DEF f, held
    <3> QED BY <3>2, <3>3, <3>4 DEF Bijection, Injection, Surjection, IsInjective
  <2> QED BY <2>1, <1>2, FS_Bijection DEF ExistsBijection
<1>4. RowsInUse = free \cup held /\ free \cap held = {}
  BY <1>0 DEF RowsPartition, RowsWithin
<1> HIDE DEF free, held
<1>5. Cardinality(free \cap held) = 0
  BY <1>4, FS_EmptySet
<1>6. /\ IsFiniteSet(free \cup held)
      /\ Cardinality(free \cup held) = Cardinality(free) + Cardinality(held) - Cardinality(free \cap held)
  BY <1>1, <1>3, FS_Union
<1>7. Cardinality(held) \in Nat /\ Cardinality(RowsInUse) = Len(free_rows) + Cardinality(held)
  BY <1>0, <1>1, <1>3, <1>4, <1>5, <1>6, FS_CardinalityType
<1>8. IsFiniteSet(RowsInUse)
  BY <1>4, <1>6
<1> QED BY <1>0, <1>2, <1>3, <1>7, <1>8

(* When nobody outside the batch holds a row, the batch fits. *)
LEMMA BatchFitsFreeRows ==
    ASSUME TableTypes, RowsPartition, RowsWithin, sids \in Seq(Sids),
           Len(sids) <= Cardinality(RowsInUse),
           Holders \subseteq BatchSids
    PROVE  Need <= Len(free_rows)
<1>1. Len(sids) \in Nat /\ Len(free_rows) \in Nat
  BY DEF TableTypes
<1>2. IsFiniteSet(BatchSids) /\ Cardinality(BatchSids) <= Len(sids) /\ Cardinality(BatchSids) \in Nat
  <2> DEFINE f == [k \in 1 .. Len(sids) |-> sids[k]]
  <2>1. f \in Surjection(1 .. Len(sids), BatchSids)
    BY DEF Surjection, BatchSids
  <2>2. IsFiniteSet(1 .. Len(sids)) /\ Cardinality(1 .. Len(sids)) = Len(sids)
    BY <1>1, CountTo
  <2> QED BY <2>1, <2>2, FS_Surjection, FS_CardinalityType
<1>3. {s \in BatchSids : seqid_to_row[s] = None} = BatchSids \ Holders
  BY DEF Holders, BatchSids
<1>4. BatchSids \cap Holders = Holders
  OBVIOUS
<1>5. Cardinality(BatchSids \ Holders) = Cardinality(BatchSids) - Cardinality(Holders)
  BY <1>2, <1>4, FS_Difference
<1>6. Need = Cardinality(BatchSids) - Cardinality(Holders)
  BY <1>3, <1>5 DEF Need
<1> QED BY <1>1, <1>2, <1>6, RowCount

-----------------------------------------------------------------------------
(* Registering a batch.                                                    *)

(* The ids of the requests met for the first time are distinct and end     *)
(* below the bound that Schedule checked.                                  *)
LEMMA NewBeforeCounts ==
    ASSUME batch \in Seq(Reqs), \A j, k \in 1 .. Len(batch) : batch[j] = batch[k] => j = k
    PROVE  /\ \A k \in 1 .. Len(batch) + 1 : NewBefore(k) \in Nat
           /\ \A j, k \in 1 .. Len(batch) + 1 :
                 j < k /\ req_id_to_sid[batch[j]] = None => NewBefore(j) < NewBefore(k)
           /\ NewBefore(Len(batch) + 1)
                 = Cardinality({q \in InBatch(batch) : req_id_to_sid[q] = None})
<1> DEFINE new(k) == {j \in 1 .. k - 1 : req_id_to_sid[batch[j]] = None}
<1>0. Len(batch) \in Nat
  OBVIOUS
<1>1. ASSUME NEW k \in 1 .. Len(batch) + 1
      PROVE  IsFiniteSet(new(k)) /\ Cardinality(new(k)) \in Nat
  <2>1. k - 1 \in Nat /\ new(k) \subseteq 1 .. k - 1
    BY <1>0
  <2>2. IsFiniteSet(1 .. k - 1)
    BY <2>1, CountTo
  <2> QED BY <2>1, <2>2, FS_Subset, FS_CardinalityType
<1>2. ASSUME NEW j \in 1 .. Len(batch) + 1, NEW k \in 1 .. Len(batch) + 1,
             j < k, req_id_to_sid[batch[j]] = None
      PROVE  Cardinality(new(j)) < Cardinality(new(k))
  <2>1. j \in new(k)
    BY <1>0, <1>2
  <2>2. new(j) \subseteq new(k) \ {j}
    BY <1>0, <1>2
  <2> HIDE DEF new
  <2>3. /\ IsFiniteSet(new(k) \ {j})
        /\ Cardinality(new(k) \ {j}) = Cardinality(new(k)) - 1
    BY <2>1, <1>1, FS_RemoveElement
  <2>4. Cardinality(new(j)) <= Cardinality(new(k) \ {j})
    BY <2>2, <2>3, FS_Subset
  <2> QED BY <2>3, <2>4, <1>1
<1>3. Cardinality(new(Len(batch) + 1))
          = Cardinality({q \in InBatch(batch) : req_id_to_sid[q] = None})
  <2> DEFINE met == {q \in InBatch(batch) : req_id_to_sid[q] = None}
             ks == {j \in 1 .. Len(batch) : req_id_to_sid[batch[j]] = None}
             f == [k \in ks |-> batch[k]]
  <2>1. new(Len(batch) + 1) = ks
    BY <1>0
  <2>2. f \in Bijection(ks, met)
    BY DEF Bijection, Injection, Surjection, IsInjective, InBatch
  <2>3. IsFiniteSet(ks)
    <3>1. Len(batch) + 1 \in 1 .. Len(batch) + 1
      BY <1>0
    <3> QED BY <1>1, <2>1, <3>1
  <2> QED BY <2>1, <2>2, <2>3, FS_Bijection DEF ExistsBijection
<1> QED BY <1>1, <1>2, <1>3 DEF NewBefore

LEMMA RegisterSids ==
    ASSUME RInv, Register, cfg' = cfg
    PROVE  /\ Len(sids') = Len(batch) /\ sids' \in Seq(Sids)
           /\ \A k \in 1 .. Len(batch) :
                 sids'[k] = IF req_id_to_sid[batch[k]] = None THEN next_sid + NewBefore(k)
                                                              ELSE req_id_to_sid[batch[k]]
           /\ next_sid' \in next_sid .. MaxSid
           /\ SidsFit'
<1>0. /\ batch \in Seq(Reqs) /\ Len(batch) \in Nat /\ next_sid \in Nat /\ next_sid <= MaxSid
      /\ \A j, k \in 1 .. Len(batch) : batch[j] = batch[k] => j = k
      /\ \A k \in 1 .. Len(batch) : batch[k] \in Reqs
      /\ Len(batch) <= Cardinality(RowsInUse)
      /\ MaxSid \in Nat
  BY SizesAssumption DEF RInv, Types, Calls, BatchFits
<1>1. /\ sids' = [k \in 1 .. Len(batch) |->
                  IF req_id_to_sid[batch[k]] = None THEN next_sid + NewBefore(k)
                                                    ELSE req_id_to_sid[batch[k]]]
      /\ next_sid' = next_sid + NewBefore(Len(batch) + 1)
      /\ phase = "register"
  BY DEF Register
<1>2. \A k \in 1 .. Len(batch) :
         sids'[k] = IF req_id_to_sid[batch[k]] = None THEN next_sid + NewBefore(k)
                                                      ELSE req_id_to_sid[batch[k]]
  BY <1>1
<1>3. /\ \A k \in 1 .. Len(batch) + 1 : NewBefore(k) \in Nat
      /\ \A j, k \in 1 .. Len(batch) + 1 :
            j < k /\ req_id_to_sid[batch[j]] = None => NewBefore(j) < NewBefore(k)
      /\ next_sid + NewBefore(Len(batch) + 1) <= MaxSid
  <2>1. next_sid + Cardinality({q \in InBatch(batch) : req_id_to_sid[q] = None}) <= MaxSid
    BY <1>1 DEF RInv, Calls, BatchFits
  <2> QED BY <1>0, <2>1, NewBeforeCounts
<1>4. next_sid' \in next_sid .. MaxSid
  <2>1. NewBefore(Len(batch) + 1) \in Nat
    BY <1>0, <1>3
  <2> QED BY <1>0, <1>1, <1>3, <2>1
<1>5. ASSUME NEW k \in 1 .. Len(batch), req_id_to_sid[batch[k]] = None
      PROVE  sids'[k] \in Sids /\ next_sid <= sids'[k] /\ sids'[k] < next_sid'
  <2>1. k \in 1 .. Len(batch) + 1 /\ Len(batch) + 1 \in 1 .. Len(batch) + 1 /\ k < Len(batch) + 1
    BY <1>0
  <2>2. NewBefore(k) \in Nat /\ NewBefore(Len(batch) + 1) \in Nat /\ NewBefore(k) < NewBefore(Len(batch) + 1)
    BY <1>3, <1>5, <2>1
  <2>3. sids'[k] = next_sid + NewBefore(k)
    BY <1>2, <1>5
  <2> QED BY <1>0, <1>1, <1>3, <2>2, <2>3 DEF Sids
<1>6. ASSUME NEW k \in 1 .. Len(batch), req_id_to_sid[batch[k]] /= None
      PROVE  sids'[k] \in Sids /\ sids'[k] < next_sid /\ seq_params[sids'[k]] = batch[k]
  <2>1. sids'[k] = req_id_to_sid[batch[k]] /\ batch[k] \in Reqs
    BY <1>0, <1>2, <1>6
  <2> QED BY <2>1, <1>6 DEF RInv, Types, Tables, IdsLinked
<1>7. \A k \in 1 .. Len(batch) : sids'[k] \in Sids /\ sids'[k] < next_sid'
  BY <1>0, <1>4, <1>5, <1>6, SidsFinite
<1>8. Len(sids') = Len(batch) /\ sids' \in Seq(Sids)
  BY <1>0, <1>1, <1>7
<1>9. ASSUME NEW j \in 1 .. Len(batch), NEW k \in 1 .. Len(batch), sids'[j] = sids'[k]
      PROVE  j = k
  <2>1. CASE req_id_to_sid[batch[j]] /= None /\ req_id_to_sid[batch[k]] /= None
    BY <2>1, <1>0, <1>6, <1>9
  <2>2. CASE req_id_to_sid[batch[j]] = None /\ req_id_to_sid[batch[k]] /= None
    BY <2>2, <1>0, <1>5, <1>6, <1>9, SidsFinite
  <2>3. CASE req_id_to_sid[batch[j]] /= None /\ req_id_to_sid[batch[k]] = None
    BY <2>3, <1>0, <1>5, <1>6, <1>9, SidsFinite
  <2>4. CASE req_id_to_sid[batch[j]] = None /\ req_id_to_sid[batch[k]] = None
    <3>1. NewBefore(j) \in Nat /\ NewBefore(k) \in Nat
      BY <1>0, <1>3
    <3>2. NewBefore(j) = NewBefore(k)
      BY <1>0, <1>2, <1>9, <2>4, <3>1
    <3>3. j < k => NewBefore(j) < NewBefore(k)
      BY <1>0, <1>3, <2>4
    <3>4. k < j => NewBefore(k) < NewBefore(j)
      BY <1>0, <1>3, <2>4
    <3> QED BY <1>0, <3>1, <3>2, <3>3, <3>4
  <2> QED BY <2>1, <2>2, <2>3, <2>4
<1>10. SidsFit'
  <2>1. batch' = batch /\ RowsInUse' = RowsInUse
    BY DEF Register, RowsInUse
  <2> QED BY <2>1, <1>0, <1>7, <1>8, <1>9 DEF SidsFit
<1> QED BY <1>2, <1>4, <1>8, <1>10

-----------------------------------------------------------------------------
(* The rows.                                                               *)

LEMMA TypesSplit ==
    Types <=> /\ TableTypes
              /\ text \in [Reqs -> Int]
              /\ phase \in Phases /\ at \in Nat \ {0}
              /\ batch \in Seq(Reqs) /\ sids \in Seq(Sids) /\ eos \subseteq Sids
              /\ next_sid \in 0 .. MaxSid
BY DEF Types, TableTypes

LEMMA RowsInit == Init => RInv
<1> SUFFICES ASSUME Init PROVE RInv
  OBVIOUS
<1>0. /\ cfg \in Configs /\ cfg.rows \in 0 .. Len(RowOrder)
      /\ RowOrder \in Seq(Rows) /\ free_rows = SubSeq(RowOrder, 1, cfg.rows)
  BY RowOrderAssumption DEF Init
<1>f. /\ free_rows \in Seq(Rows) /\ Len(free_rows) = cfg.rows
      /\ \A k \in 1 .. cfg.rows : free_rows[k] = RowOrder[k]
  BY <1>0
<1>1. TableTypes
  <2>1. rb \in [Rows -> Ring]
    BY EmptyRowIsRing DEF Init
  <2> QED BY <1>f, <2>1 DEF Init, TableTypes
<1>2. text \in [Reqs -> Int]
  BY SizesAssumption DEF Init
<1>3. /\ batch = <<>> /\ sids = <<>> /\ next_sid = 0 /\ phase = "idle" /\ at = 1 /\ eos = {}
      /\ \A s \in Sids : seqid_to_row[s] = None
      /\ \A q \in Reqs : req_id_to_sid[q] = None
  BY DEF Init
<1>4. Types
  BY <1>1, <1>2, <1>3, TypesSplit, SizesAssumption DEF Phases
<1>5. RowsPartition
  <2>1. \A j, k \in 1 .. Len(free_rows) : free_rows[j] = free_rows[k] => j = k
    <3>1. \A j, k \in 1 .. Len(RowOrder) : RowOrder[j] = RowOrder[k] => j = k
      BY RowOrderAssumption
    <3>2. \A k \in 1 .. Len(free_rows) : k \in 1 .. Len(RowOrder) /\ free_rows[k] = RowOrder[k]
      BY <1>0, <1>f
    <3> QED BY <3>1, <3>2
  <2>2. \A r \in RowsInUse : \E k \in 1 .. Len(free_rows) : free_rows[k] = r
    BY <1>f DEF RowsInUse
  <2>3. \A r \in RowsInUse : r /= None
    BY <1>0, NoneIsNothing DEF RowsInUse
  <2> QED BY <1>3, <2>1, <2>2, <2>3 DEF RowsPartition
<1>6. Tables
  <2>1. RowsWithin
    BY <1>0, <1>f, <1>3 DEF RowsWithin, RowsInUse
  <2> QED BY <1>3, <1>5, <2>1 DEF Tables, IdsLinked
<1>7. Cardinality(RowsInUse) \in Nat
  BY <1>0, RowsOfProcess
<1>8. Calls
  BY <1>3, <1>7 DEF Calls, BatchFits, SidsFit, RowsSuffice, BatchHasRows
<1> QED BY <1>4, <1>6, <1>8 DEF RInv

(* A step that leaves the tables and the rows alone. *)
LEMMA QuietTables ==
    ASSUME Types, Tables,
           UNCHANGED <<req_id_to_sid, next_sid, seq_params, seq_caches, rowman, rb>>,
           stale' \subseteq Sids, cfg' = cfg
    PROVE  TableTypes' /\ next_sid' \in 0 .. MaxSid /\ Tables'
<1>1. TableTypes' /\ next_sid' \in 0 .. MaxSid
  BY DEF Types, TableTypes, rowman
<1>2. RowsPartition' /\ RowsWithin'
  BY DEF Tables, RowsPartition, RowsWithin, RowsInUse, rowman
<1>3. IdsLinked'
  BY DEF Tables, IdsLinked, rowman
<1> QED BY <1>1, <1>2, <1>3 DEF Tables

LEMMA ScheduleRows ==
    ASSUME RInv, NEW b \in Batches, Schedule(b), cfg' = cfg
    PROVE  RInv'
<1>1. /\ UNCHANGED <<text, sids, eos, req_id_to_sid, next_sid, seq_params, seq_caches, rowman, rb>>
      /\ batch' = b /\ phase' = "register" /\ at' = 1 /\ stale' = stale
      /\ Len(b) <= cfg.rows
      /\ next_sid + Cardinality({q \in InBatch(b) : req_id_to_sid[q] = None}) <= MaxSid
  BY DEF Schedule, tables, Goto
<1>2. TableTypes' /\ next_sid' \in 0 .. MaxSid /\ Tables'
  BY <1>1, QuietTables DEF RInv, Types
<1>3. /\ b \in Seq(Reqs) /\ Len(b) <= Cardinality(RowsInUse)
      /\ \A j, k \in 1 .. Len(b) : b[j] = b[k] => j = k
  <2>1. Cardinality(Rows) \in Nat
    <3>1. Rows = {RowOrder[k] : k \in 1 .. Len(RowOrder)}
      BY RowOrderAssumption
    <3>2. Len(RowOrder) \in Nat
      BY RowOrderAssumption
    <3> DEFINE n == Len(RowOrder)
               f == [k \in 1 .. n |-> RowOrder[k]]
    <3>3. f \in Surjection(1 .. n, Rows)
      BY <3>1 DEF Surjection
    <3>4. IsFiniteSet(1 .. n)
      BY <3>2, CountTo
    <3> QED BY <3>3, <3>4, FS_Surjection, FS_CardinalityType
  <2>c. Cardinality(RowsInUse) = cfg.rows
    BY RowsOfProcess DEF RInv, Tables, RowsWithin
  <2>2. PICK n \in 1 .. Cardinality(Rows) : b \in [1 .. n -> Reqs]
    BY DEF Batches
  <2>3. b \in Seq(Reqs) /\ Len(b) = n /\ DOMAIN b = 1 .. n
    BY <2>1, <2>2
  <2> QED BY <1>1, <2>c, <2>3 DEF Batches
<1>4. Types'
  BY <1>1, <1>2, <1>3, TypesSplit DEF RInv, Types, Phases, TableTypes
<1>5. Calls'
  <2>c. RowsInUse' = RowsInUse
    BY DEF RowsInUse
  <2>1. BatchFits'
    BY <1>1, <1>3, <2>c DEF BatchFits
  <2>2. SidsFit'
    BY <1>1, <2>c DEF RInv, Calls, SidsFit
  <2> QED BY <1>1, <2>1, <2>2 DEF Calls, RowsSuffice, BatchHasRows
<1> QED BY <1>2, <1>4, <1>5 DEF RInv

LEMMA RegisterRows ==
    ASSUME RInv, Register, cfg' = cfg
    PROVE  RInv'
<1>0. /\ phase' = "evict" /\ at' = 1
      /\ UNCHANGED <<text, batch, eos, seq_caches, stale, rowman, rb>>
      /\ req_id_to_sid' = [q \in Reqs |->
            IF \E k \in 1 .. Len(batch) : batch[k] = q
            THEN sids'[CHOOSE k \in 1 .. Len(batch) : batch[k] = q]
            ELSE req_id_to_sid[q]]
      /\ seq_params' = [s \in Sids |->
            IF \E k \in 1 .. Len(batch) : sids'[k] = s
            THEN batch[CHOOSE k \in 1 .. Len(batch) : sids'[k] = s]
            ELSE seq_params[s]]
  BY DEF Register, Goto
<1>1. /\ Len(sids') = Len(batch) /\ sids' \in Seq(Sids)
      /\ \A k \in 1 .. Len(batch) :
            sids'[k] = IF req_id_to_sid[batch[k]] = None THEN next_sid + NewBefore(k)
                                                         ELSE req_id_to_sid[batch[k]]
      /\ next_sid' \in next_sid .. MaxSid /\ next_sid \in Nat
      /\ SidsFit'
      /\ batch \in Seq(Reqs)
  BY RegisterSids DEF RInv, Types
<1>2. /\ \A k \in 1 .. Len(batch) : sids'[k] \in Sids /\ sids'[k] < next_sid' /\ batch[k] \in Reqs
      /\ \A j, k \in 1 .. Len(batch) : sids'[j] = sids'[k] => j = k
      /\ \A j, k \in 1 .. Len(batch) : batch[j] = batch[k] => j = k
  BY <1>1 DEF SidsFit, RInv, Calls, BatchFits
<1>3. \A k \in 1 .. Len(batch) : req_id_to_sid'[batch[k]] = sids'[k] /\ seq_params'[sids'[k]] = batch[k]
  <2> SUFFICES ASSUME NEW k \in 1 .. Len(batch)
               PROVE  req_id_to_sid'[batch[k]] = sids'[k] /\ seq_params'[sids'[k]] = batch[k]
    OBVIOUS
  <2>1. (CHOOSE j \in 1 .. Len(batch) : batch[j] = batch[k]) = k
    BY <1>2
  <2>2. (CHOOSE j \in 1 .. Len(batch) : sids'[j] = sids'[k]) = k
    BY <1>2
  <2> QED BY <1>0, <1>2, <2>1, <2>2
<1>4. ASSUME NEW q \in Reqs, ~ \E k \in 1 .. Len(batch) : batch[k] = q
      PROVE  req_id_to_sid'[q] = req_id_to_sid[q]
  BY <1>0, <1>4
<1>5. ASSUME NEW s \in Sids, ~ \E k \in 1 .. Len(batch) : sids'[k] = s
      PROVE  seq_params'[s] = seq_params[s]
  BY <1>0, <1>5
<1>6. TableTypes' /\ next_sid' \in 0 .. MaxSid
  <2>1. ASSUME NEW q \in Reqs PROVE req_id_to_sid'[q] \in Sids \cup {None}
    <3>1. CASE \E k \in 1 .. Len(batch) : batch[k] = q
      BY <3>1, <1>2, <1>3
    <3>2. CASE ~ \E k \in 1 .. Len(batch) : batch[k] = q
      BY <3>2, <1>4 DEF RInv, Types
    <3> QED BY <3>1, <3>2
  <2>2. req_id_to_sid' \in [Reqs -> Sids \cup {None}]
    BY <1>0, <2>1
  <2>3. ASSUME NEW s \in Sids PROVE seq_params'[s] \in Reqs \cup {None}
    <3>1. CASE \E k \in 1 .. Len(batch) : sids'[k] = s
      BY <3>1, <1>2, <1>3
    <3>2. CASE ~ \E k \in 1 .. Len(batch) : sids'[k] = s
      BY <3>2, <1>5 DEF RInv, Types
    <3> QED BY <3>1, <3>2
  <2>4. seq_params' \in [Sids -> Reqs \cup {None}]
    BY <1>0, <2>3
  <2>5. next_sid' \in 0 .. MaxSid
    BY <1>1
  <2> QED BY <1>0, <2>2, <2>4, <2>5 DEF RInv, Types, TableTypes, rowman
<1>7. Types'
  BY <1>0, <1>1, <1>6 DEF RInv, Types, TableTypes, Phases
<1>8. RowsPartition' /\ RowsWithin'
  BY <1>0 DEF RInv, Tables, RowsPartition, RowsWithin, RowsInUse, rowman
<1>9. IdsLinked'
  <2>1. ASSUME NEW q \in Reqs, req_id_to_sid'[q] /= None
        PROVE  req_id_to_sid'[q] < next_sid' /\ seq_params'[req_id_to_sid'[q]] = q
    <3>1. CASE \E k \in 1 .. Len(batch) : batch[k] = q
      BY <3>1, <1>2, <1>3
    <3>2. CASE ~ \E k \in 1 .. Len(batch) : batch[k] = q
      <4>1. req_id_to_sid'[q] = req_id_to_sid[q]
        BY <3>2, <1>4
      <4>2. /\ req_id_to_sid[q] \in Sids /\ req_id_to_sid[q] < next_sid
            /\ seq_params[req_id_to_sid[q]] = q
        BY <4>1, <2>1 DEF RInv, Types, Tables, IdsLinked
      <4>3. ASSUME NEW k \in 1 .. Len(batch), sids'[k] = req_id_to_sid[q]
            PROVE  FALSE
        <5>1. CASE req_id_to_sid[batch[k]] = None
          <6>1. sids'[k] = next_sid + NewBefore(k) /\ NewBefore(k) \in Nat
            <7>1. \A i \in 1 .. Len(batch) + 1 : NewBefore(i) \in Nat
              BY <1>1, <1>2, NewBeforeCounts
            <7> QED BY <7>1, <1>1, <5>1
          <6> QED BY <6>1, <4>2, <4>3, <1>1
        <5>2. CASE req_id_to_sid[batch[k]] /= None
          <6>1. req_id_to_sid[batch[k]] = req_id_to_sid[q] /\ batch[k] \in Reqs
            BY <5>2, <4>3, <1>1, <1>2
          <6>2. seq_params[req_id_to_sid[batch[k]]] = batch[k]
            BY <6>1, <5>2 DEF RInv, Tables, IdsLinked
          <6> QED BY <6>1, <6>2, <4>2, <3>2
        <5> QED BY <5>1, <5>2
      <4>4. seq_params'[req_id_to_sid[q]] = seq_params[req_id_to_sid[q]]
        BY <4>2, <4>3, <1>5
      <4> QED BY <4>1, <4>2, <4>4, <1>1, SidsFinite
    <3> QED BY <3>1, <3>2
  <2>2. \A s \in Sids : s >= next_sid' => seqid_to_row'[s] = None
    <3>1. \A s \in Sids : s >= next_sid' => s >= next_sid
      BY <1>1, SidsFinite
    <3> QED BY <3>1, <1>0 DEF RInv, Tables, IdsLinked, rowman
  <2> QED BY <2>1, <2>2 DEF IdsLinked
<1>10. Calls'
  <2>1. BatchFits'
    BY <1>0 DEF RInv, Calls, BatchFits, RowsInUse
  <2> QED BY <1>0, <1>1, <2>1 DEF Calls, RowsSuffice, BatchHasRows
<1> QED BY <1>7, <1>8, <1>9, <1>10 DEF RInv, Tables

(* A finite set that is not empty has an element with the most steps, the  *)
(* smallest of those: the least subset without one would be a singleton or *)
(* have one in what is left of it without an element.                      *)
LEMMA MostStepsExists ==
    ASSUME NEW V, IsFiniteSet(V), V /= {}, V \subseteq Nat, NEW f \in [V -> Nat]
    PROVE  \E s \in V : \A t \in V : f[s] > f[t] \/ (f[s] = f[t] /\ s <= t)
<1> DEFINE best(s, T) == \A t \in T : f[s] > f[t] \/ (f[s] = f[t] /\ s <= t)
           bad == {T \in SUBSET V : T /= {} /\ ~ \E s \in T : best(s, T)}
<1> SUFFICES ASSUME V \in bad
             PROVE  FALSE
  OBVIOUS
<1>1. FiniteSubsetsOf(V) = SUBSET V
  BY FS_FiniteSubsetsOfFinite
<1>2. IsWellFoundedOn(StrictSubsetOrdering(V), SUBSET V)
  BY <1>1, FS_StrictSubsetOrderingWellFounded
<1>3. bad \subseteq SUBSET V /\ bad /= {}
  OBVIOUS
<1>4. \E T \in bad : \A U \in bad : ~ (<<U, T>> \in StrictSubsetOrdering(V))
  <2> HIDE DEF bad
  <2> QED BY <1>2, <1>3, WFMin
<1>5. PICK T \in bad : \A U \in bad : ~ (<<U, T>> \in StrictSubsetOrdering(V))
  BY <1>4
<1>6. T \subseteq V /\ T /= {} /\ ~ \E s \in T : best(s, T)
  OBVIOUS
<1>7. PICK x \in T : TRUE
  BY <1>6
<1>8. T \ {x} \notin bad
  <2>1. <<T \ {x}, T>> \in StrictSubsetOrdering(V)
    BY <1>6, <1>7 DEF StrictSubsetOrdering
  <2> QED BY <1>5, <2>1
<1>9. CASE T \ {x} = {}
  <2>1. best(x, T)
    BY <1>6, <1>9
  <2> QED BY <2>1, <1>6
<1>10. CASE T \ {x} /= {}
  <2>1. PICK y \in T \ {x} : best(y, T \ {x})
    BY <1>6, <1>8, <1>10
  <2>2. CASE f[y] > f[x] \/ (f[y] = f[x] /\ y <= x)
    BY <1>6, <2>1, <2>2
  <2>3. CASE ~ (f[y] > f[x] \/ (f[y] = f[x] /\ y <= x))
    <3>1. x \in Nat /\ y \in Nat /\ f[x] \in Nat /\ f[y] \in Nat
      BY <1>6
    <3>2. f[x] > f[y] \/ (f[x] = f[y] /\ x <= y)
      BY <2>3, <3>1
    <3>3. ASSUME NEW t \in T PROVE f[x] > f[t] \/ (f[x] = f[t] /\ x <= t)
      <4>1. t \in Nat /\ f[t] \in Nat
        BY <1>6
      <4>2. CASE t = x BY <4>1, <4>2
      <4>3. CASE t /= x
        <5>1. f[y] > f[t] \/ (f[y] = f[t] /\ y <= t)
          BY <2>1, <4>3
        <5> QED BY <5>1, <3>1, <3>2, <4>1
      <4> QED BY <4>2, <4>3
    <3> QED BY <3>3, <1>6
  <2> QED BY <2>2, <2>3
<1> QED BY <1>9, <1>10

(* A set of numbers that is not empty has a least one. *)
LEMMA LeastExists ==
    ASSUME NEW V, V /= {}, V \subseteq Nat
    PROVE  \E s \in V : \A t \in V : s <= t
<1>1. \E s \in V : \A t \in V : ~ (<<t, s>> \in OpToRel(<, Nat))
  BY NatLessThanWellFounded, WFMin
<1>2. PICK s \in V : \A t \in V : ~ (<<t, s>> \in OpToRel(<, Nat))
  BY <1>1
<1>3. \A t \in V : ~ (t < s)
  BY <1>2 DEF OpToRel
<1> QED BY <1>3

(* So the eviction has a victim when there is a holder outside the batch. *)
LEMMA OldestIsHolder ==
    ASSUME TableTypes, NEW S \in SUBSET Holders, S /= {}
    PROVE  Oldest(S) \in S
<1>1. S \subseteq Sids /\ IsFiniteSet(S) /\ S \subseteq Nat
  BY SidsFinite, FS_Subset DEF Holders
<1> DEFINE f == [s \in S |-> rb[seqid_to_row[s]].steps]
<1>2. f \in [S -> Nat]
  BY DEF TableTypes, Holders, Ring
<1>3. \E s \in S : \A t \in S : f[s] > f[t] \/ (f[s] = f[t] /\ s <= t)
  <2> HIDE DEF f
  <2> QED BY <1>1, <1>2, MostStepsExists
<1> QED BY <1>3 DEF Oldest

LEMMA PreEvictRows ==
    ASSUME RInv, PreEvict, cfg' = cfg
    PROVE  RInv'
<1> DEFINE victims == Holders \ BatchSids
<1>0. /\ phase = "evict" /\ UNCHANGED <<text, batch, sids, eos, next_sid>>
      /\ TableTypes
  BY TypesSplit DEF RInv, PreEvict, call
<1>1. CASE Need > Len(free_rows) /\ victims /= {}
  <2>1. FreeSequence(Oldest(victims)) /\ UNCHANGED <<phase, at>>
    BY <1>1 DEF PreEvict
  <2>2. Oldest(victims) \in Sids
    BY <1>0, <1>1, OldestIsHolder DEF Holders
  <2>3. TableTypes' /\ Tables'
    BY <1>0, <2>1, <2>2, FreeSequenceTypes, FreeSequenceTables DEF RInv
  <2>4. Types'
    BY <1>0, <2>1, <2>3 DEF RInv, Types, TableTypes
  <2>5. Calls'
    BY <1>0, <2>1 DEF RInv, Calls, BatchFits, SidsFit, RowsInUse, RowsSuffice, BatchHasRows
  <2> QED BY <2>3, <2>4, <2>5 DEF RInv
<1>2. CASE ~ (Need > Len(free_rows) /\ victims /= {})
  <2>1. /\ phase' = "rows" /\ at' = 1
        /\ UNCHANGED <<req_id_to_sid, seq_params, seq_caches, stale, rowman, rb>>
    BY <1>2 DEF PreEvict, Goto
  <2>2. TableTypes' /\ next_sid' \in 0 .. MaxSid /\ Tables'
    BY <1>0, <2>1, QuietTables DEF RInv, Types
  <2>3. Types'
    BY <1>0, <2>1, <2>2 DEF RInv, Types, TableTypes, Phases
  <2>4. Need <= Len(free_rows)
    <3>1. CASE victims = {}
      BY <3>1, <1>0, BatchFitsFreeRows DEF RInv, Types, Tables, Calls, SidsFit
    <3>2. CASE victims /= {}
      <4>1. IsFiniteSet(BatchSids)
        <5>1. BatchSids \subseteq Sids
          BY DEF BatchSids, RInv, Types
        <5> QED BY <5>1, SidsFinite, FS_Subset
      <4>2. Need \in Nat /\ Len(free_rows) \in Nat
        BY <4>1, FS_Subset, FS_CardinalityType DEF Need, RInv, Types
      <4> QED BY <4>2, <3>2, <1>2
    <3> QED BY <3>1, <3>2
  <2>5. Need' = Need /\ Len(free_rows') = Len(free_rows)
    BY <1>0, <2>1 DEF Need, BatchSids, rowman
  <2>6. RowsSuffice'
    BY <2>1, <2>4, <2>5 DEF RowsSuffice
  <2>7. Calls'
    BY <1>0, <2>1, <2>6 DEF RInv, Calls, BatchFits, SidsFit, RowsInUse, BatchHasRows
  <2> QED BY <2>2, <2>3, <2>7 DEF RInv
<1> QED BY <1>1, <1>2

LEMMA NeedCounts ==
    ASSUME Types
    PROVE  /\ IsFiniteSet({s \in BatchSids : seqid_to_row[s] = None}) /\ Need \in Nat
           /\ Len(free_rows) \in Nat
<1>1. BatchSids \subseteq Sids
  BY DEF BatchSids, Types
<1>2. IsFiniteSet({s \in BatchSids : seqid_to_row[s] = None})
  BY <1>1, SidsFinite, FS_Subset
<1> QED BY <1>2, FS_CardinalityType DEF Need, Types

(* ensure_rows never finds the deque empty, so it takes the row that has   *)
(* been free for longest and frees nobody.                                 *)
LEMMA EnsureRowTakes ==
    ASSUME RInv, EnsureRow, seqid_to_row[sids[at]] = None
    PROVE  /\ at \in 1 .. Len(sids) /\ sids[at] \in Sids /\ sids[at] \in BatchSids
           /\ free_rows /= <<>> /\ Head(free_rows) \in Rows
           /\ seqid_to_row' = [seqid_to_row EXCEPT ![sids[at]] = Head(free_rows)]
           /\ free_rows' = Tail(free_rows)
           /\ rb' = [rb EXCEPT ![Head(free_rows)] = WritePowParams(EmptyRow, seq_params[sids[at]])]
           /\ seq_caches' = [seq_caches EXCEPT ![sids[at]] = NewCache(seq_params[sids[at]])]
           /\ UNCHANGED <<seq_params, req_id_to_sid>>
           /\ stale' \subseteq stale
<1>1. at \in 1 .. Len(sids) /\ sids[at] \in Sids /\ sids[at] \in BatchSids /\ phase = "rows"
  BY DEF EnsureRow, RInv, Types, BatchSids
<1>2. free_rows /= <<>>
  <2>1. {s \in BatchSids : seqid_to_row[s] = None} /= {}
    BY <1>1
  <2>2. Need /= 0 /\ Need \in Nat
    BY <2>1, NeedCounts, FS_EmptySet DEF Need, RInv
  <2>3. Need <= Len(free_rows)
    BY <1>1 DEF RInv, Calls, RowsSuffice
  <2>4. Len(free_rows) /= 0
    BY <2>2, <2>3, NeedCounts DEF RInv
  <2> QED BY <2>4
<1>3. free_rows \in Seq(Rows)
  BY DEF RInv, Types
<1>4. Head(free_rows) \in Rows
  BY <1>2, <1>3
<1> DEFINE sid == sids[at]
<1>5. /\ seqid_to_row' = [s \in Sids |-> CASE s = sid -> Head(free_rows)
                                           [] s = None -> None
                                           [] OTHER -> seqid_to_row[s]]
      /\ free_rows' = Tail(free_rows)
      /\ rb' = [rb EXCEPT ![Head(free_rows)] = WritePowParams(EmptyRow, seq_params[sid])]
      /\ seq_caches' = [s \in Sids |-> CASE s = sid -> NewCache(seq_params[sid])
                                         [] s = None -> None
                                         [] OTHER -> seq_caches[s]]
      /\ seq_params' = [s \in Sids |-> IF s = None THEN None ELSE seq_params[s]]
      /\ stale' = stale \ {None, sid}
      /\ req_id_to_sid' = [q \in Reqs |->
            IF req_id_to_sid[q] = None THEN None ELSE req_id_to_sid[q]]
  BY <1>2 DEF EnsureRow, AllocatedRow
<1>6. seqid_to_row' = [seqid_to_row EXCEPT ![sid] = Head(free_rows)]
  BY <1>1, <1>5, NoneIsNothing DEF RInv, Types
<1>7. seq_caches' = [seq_caches EXCEPT ![sid] = NewCache(seq_params[sid])]
  BY <1>1, <1>5, NoneIsNothing DEF RInv, Types
<1>8. seq_params' = seq_params
  BY <1>5, NoneIsNothing DEF RInv, Types
<1>9. req_id_to_sid' = req_id_to_sid
  BY <1>5 DEF RInv, Types
<1> QED BY <1>1, <1>2, <1>4, <1>5, <1>6, <1>7, <1>8, <1>9

LEMMA EnsureRowRows ==
    ASSUME RInv, EnsureRow, cfg' = cfg
    PROVE  RInv'
<1>0. /\ phase = "rows" /\ at \in Nat \ {0} /\ at <= Len(sids) /\ at' = at + 1 /\ at' \in Nat \ {0}
      /\ UNCHANGED <<text, phase, batch, sids, eos, next_sid>>
      /\ sids \in Seq(Sids)
  BY DEF EnsureRow, call, RInv, Types
<1>1. CASE seqid_to_row[sids[at]] /= None
  <2>1. UNCHANGED <<req_id_to_sid, seq_params, seq_caches, stale, rowman, rb>>
    BY <1>1 DEF EnsureRow
  <2>2. TableTypes' /\ next_sid' \in 0 .. MaxSid /\ Tables'
    BY <1>0, <2>1, QuietTables DEF RInv, Types
  <2>3. Types'
    BY <1>0, <2>2 DEF RInv, Types, TableTypes
  <2>4. Need' = Need /\ Len(free_rows') = Len(free_rows)
    BY <1>0, <2>1 DEF Need, BatchSids, rowman
  <2>5. RowsSuffice'
    <3>1. ASSUME NEW k \in 1 .. Len(sids), k < at + 1
          PROVE  seqid_to_row[sids[k]] /= None
      <4>1. k < at \/ k = at BY <1>0, <3>1
      <4> QED BY <4>1, <1>0, <1>1 DEF RInv, Calls, RowsSuffice
    <3> QED BY <1>0, <2>1, <2>4, <3>1 DEF RInv, Calls, RowsSuffice, rowman
  <2>6. Calls'
    BY <1>0, <2>1, <2>5 DEF RInv, Calls, BatchFits, SidsFit, RowsInUse, BatchHasRows
  <2> QED BY <2>2, <2>3, <2>6 DEF RInv
<1>2. CASE seqid_to_row[sids[at]] = None
  <2> DEFINE sid == sids[at]
             row == Head(free_rows)
  <2>1. /\ at \in 1 .. Len(sids) /\ sid \in Sids /\ sid \in BatchSids
        /\ free_rows /= <<>> /\ row \in Rows
        /\ seqid_to_row' = [seqid_to_row EXCEPT ![sid] = row]
        /\ free_rows' = Tail(free_rows)
        /\ rb' = [rb EXCEPT ![row] = WritePowParams(EmptyRow, seq_params[sid])]
        /\ seq_caches' = [seq_caches EXCEPT ![sid] = NewCache(seq_params[sid])]
        /\ UNCHANGED <<seq_params, req_id_to_sid>>
        /\ stale' \subseteq stale
    BY <1>2, EnsureRowTakes
  <2>2. /\ free_rows \in Seq(Rows) /\ seqid_to_row \in [Sids -> Rows \cup {None}]
        /\ Len(free_rows) \in Nat /\ RowsPartition /\ RowsWithin /\ RowsInUse' = RowsInUse
    BY DEF RInv, Types, Tables, RowsInUse
  <2>3. /\ free_rows' \in Seq(Rows) /\ Len(free_rows') = Len(free_rows) - 1
        /\ row = free_rows[1] /\ Len(free_rows) >= 1
        /\ \A k \in 1 .. Len(free_rows) - 1 : free_rows'[k] = free_rows[k + 1]
    BY <2>1, <2>2
  <2>4. /\ seqid_to_row'[sid] = row
        /\ \A s \in Sids : s /= sid => seqid_to_row'[s] = seqid_to_row[s]
    BY <2>1, <2>2
  <2>5. TableTypes'
    <3>1. seq_params[sid] \in Reqs \cup {None}
      BY <2>1 DEF RInv, Types
    <3>2. rb' \in [Rows -> Ring]
      BY <2>1, <3>1, FreshRow DEF RInv, Types
    <3>3. seq_caches' \in [Sids -> Cache \cup {None}]
      BY <2>1, NewCacheIsCache DEF RInv, Types
    <3>4. seqid_to_row' \in [Sids -> Rows \cup {None}]
      BY <2>1, <2>2
    <3> QED BY <2>1, <2>3, <3>2, <3>3, <3>4 DEF RInv, Types, TableTypes
  <2>6. Types'
    BY <1>0, <2>5 DEF RInv, Types, TableTypes
  <2>7. RowsPartition'
    <3>0. row \in RowsInUse
      BY <2>2, <2>3 DEF RowsWithin
    <3>1. \A s \in Sids : seqid_to_row[s] /= row
      BY <2>2, <2>3, <3>0 DEF RowsPartition
    <3>2. \A s, t \in Sids : seqid_to_row'[s] /= None /\ seqid_to_row'[s] = seqid_to_row'[t] => s = t
      BY <2>2, <2>4, <3>1 DEF RowsPartition
    <3>3. \A j, k \in 1 .. Len(free_rows') : free_rows'[j] = free_rows'[k] => j = k
      BY <2>2, <2>3 DEF RowsPartition
    <3>4. ASSUME NEW r \in RowsInUse
          PROVE  (\E s \in Sids : seqid_to_row'[s] = r)
                    <=> ~ \E k \in 1 .. Len(free_rows') : free_rows'[k] = r
      <4>1. CASE r = row
        <5>1. \A k \in 1 .. Len(free_rows') : free_rows'[k] /= row
          BY <2>2, <2>3 DEF RowsPartition
        <5> QED BY <4>1, <5>1, <2>1, <2>4
      <4>2. CASE r /= row
        <5>0. r /= None
          BY <2>2, InUse DEF RowsWithin
        <5>1. (\E s \in Sids : seqid_to_row'[s] = r) <=> \E s \in Sids : seqid_to_row[s] = r
          BY <1>2, <2>1, <2>4, <4>2, <5>0
        <5>2. ASSUME NEW k \in 1 .. Len(free_rows), free_rows[k] = r
              PROVE  \E i \in 1 .. Len(free_rows') : free_rows'[i] = r
          <6>1. k /= 1 BY <5>2, <2>3, <4>2
          <6>2. k - 1 \in 1 .. Len(free_rows') /\ free_rows'[k - 1] = free_rows[k]
            BY <6>1, <2>2, <2>3
          <6> QED BY <6>2, <5>2
        <5>3. ASSUME NEW k \in 1 .. Len(free_rows'), free_rows'[k] = r
              PROVE  \E i \in 1 .. Len(free_rows) : free_rows[i] = r
          <6>1. k + 1 \in 1 .. Len(free_rows) /\ free_rows'[k] = free_rows[k + 1]
            BY <2>2, <2>3
          <6> QED BY <6>1, <5>3
        <5> QED BY <5>1, <5>2, <5>3, <2>2 DEF RowsPartition
      <4> QED BY <4>1, <4>2
    <3> QED BY <2>2, <3>2, <3>3, <3>4 DEF RowsPartition
  <2>w. RowsWithin'
    <3>1. row \in RowsInUse
      BY <2>2, <2>3 DEF RowsWithin
    <3>2. \A k \in 1 .. Len(free_rows') : free_rows'[k] \in RowsInUse
      BY <2>2, <2>3 DEF RowsWithin
    <3>3. \A s \in Sids : seqid_to_row'[s] /= None => seqid_to_row'[s] \in RowsInUse
      BY <2>2, <2>4, <3>1 DEF RowsWithin
    <3> QED BY <2>2, <3>2, <3>3 DEF RowsWithin
  <2>8. IdsLinked'
    <3>1. sid < next_sid /\ next_sid' = next_sid /\ next_sid \in Nat
      BY <1>0, <2>1 DEF RInv, Calls, SidsFit, Types
    <3>2. \A s \in Sids : s >= next_sid' => seqid_to_row'[s] = None
      BY <3>1, <2>4, SidsFinite DEF RInv, Tables, IdsLinked
    <3> QED BY <3>1, <3>2, <2>1 DEF RInv, Tables, IdsLinked
  <2>9. RowsSuffice'
    <3> DEFINE needing == {s \in BatchSids : seqid_to_row[s] = None}
    <3>1. BatchSids' = BatchSids /\ BatchSids \subseteq Sids
      BY <1>0 DEF BatchSids
    <3>2. {s \in BatchSids' : seqid_to_row'[s] = None} = needing \ {sid} /\ sid \in needing
      BY <3>1, <2>1, <2>4, <1>2, NoneIsNothing
    <3>3. Cardinality(needing \ {sid}) = Cardinality(needing) - 1
      <4> HIDE DEF needing
      <4>1. IsFiniteSet(needing)
        BY NeedCounts DEF RInv, needing
      <4> QED BY <4>1, <3>2, FS_RemoveElement
    <3>4. Need' = Need - 1
      BY <3>2, <3>3 DEF Need
    <3>5. Need' <= Len(free_rows')
      BY <1>0, <2>3, <3>4, NeedCounts DEF RInv, Calls, RowsSuffice
    <3>6. ASSUME NEW k \in 1 .. Len(sids), k < at + 1
          PROVE  seqid_to_row'[sids[k]] /= None
      <4>1. sids[k] \in Sids
        BY <1>0
      <4>2. CASE sids[k] = sid
        BY <4>2, <2>1, <2>4, NoneIsNothing
      <4>3. CASE sids[k] /= sid
        <5>1. k < at BY <4>3, <3>6, <1>0
        <5> QED BY <4>1, <4>3, <5>1, <2>4, <1>0 DEF RInv, Calls, RowsSuffice
      <4> QED BY <4>2, <4>3
    <3> QED BY <1>0, <3>5, <3>6 DEF RowsSuffice
  <2>10. Calls'
    BY <1>0, <2>1, <2>9 DEF RInv, Calls, BatchFits, SidsFit, RowsInUse, BatchHasRows
  <2> QED BY <2>6, <2>7, <2>w, <2>8, <2>10 DEF RInv, Tables
<1> QED BY <1>1, <1>2

(* What Admit writes to a row: nothing, or None or a nonce that was ground *)
(* for the sequence that holds it.                                         *)
LEMMA AdmittedRow ==
    ASSUME NEW ring \in Ring, NEW nonce \in (Sids \X Nat) \cup {None}
    PROVE  LET new == WriteAdmissionNonce(ring, nonce)
           IN  /\ new \in Ring
               /\ new.nonce = nonce /\ new.nonce_host = (nonce /= None)
               /\ new.steps = ring.steps /\ new.steps_host = ring.steps_host
               /\ new.params = ring.params /\ new.slots = ring.slots
BY DEF WriteAdmissionNonce, Ring

LEMMA AdmitWrites ==
    ASSUME RInv, NEW found, Admit(found)
    PROVE  /\ rb' \in [Rows -> Ring]
           /\ \A r \in Rows :
                 \/ rb'[r] = rb[r] /\ (Admits => \A s \in Boundary : seqid_to_row[s] /= r)
                 \/ /\ Admits
                    /\ \E s \in Boundary :
                          /\ seqid_to_row[s] = r
                          /\ \E n \in {None, <<s, rb[r].steps \div W>>} :
                                rb'[r] = WriteAdmissionNonce(rb[r], n)
<1>0. /\ rb \in [Rows -> Ring] /\ Boundary \subseteq Sids
      /\ rb' = [r \in Rows |->
         IF Admits /\ \E s \in Boundary : seqid_to_row[s] = r
         THEN LET sid == CHOOSE s \in Boundary : seqid_to_row[s] = r
              IN  WriteAdmissionNonce(rb[r],
                      IF sid \in found THEN GroundNonce(sid) ELSE None)
         ELSE rb[r]]
  BY DEF Admit, RInv, Types, Boundary, BatchSids
<1>1. ASSUME NEW r \in Rows, Admits, \E s \in Boundary : seqid_to_row[s] = r
      PROVE  \E s \in Boundary :
                /\ seqid_to_row[s] = r
                /\ \E n \in {None, <<s, rb[r].steps \div W>>} :
                      rb'[r] = WriteAdmissionNonce(rb[r], n)
  <2> DEFINE sid == CHOOSE s \in Boundary : seqid_to_row[s] = r
  <2>1. sid \in Boundary /\ seqid_to_row[sid] = r
    BY <1>1
  <2>2. rb'[r] = WriteAdmissionNonce(rb[r], IF sid \in found THEN GroundNonce(sid) ELSE None)
    BY <1>0, <1>1
  <2>3. GroundNonce(sid) = <<sid, rb[r].steps \div W>>
    BY <2>1 DEF GroundNonce
  <2> HIDE DEF sid
  <2> QED BY <2>1, <2>2, <2>3
<1>2. ASSUME NEW r \in Rows, ~ (Admits /\ \E s \in Boundary : seqid_to_row[s] = r)
      PROVE  rb'[r] = rb[r]
  BY <1>0, <1>2
<1>3. ASSUME NEW r \in Rows PROVE rb'[r] \in Ring
  <2>1. CASE Admits /\ \E s \in Boundary : seqid_to_row[s] = r
    <3>0. PICK s \in Boundary : \E n \in {None, <<s, rb[r].steps \div W>>} :
             rb'[r] = WriteAdmissionNonce(rb[r], n)
      BY <1>1, <2>1
    <3>1. PICK n \in {None, <<s, rb[r].steps \div W>>} : rb'[r] = WriteAdmissionNonce(rb[r], n)
      BY <3>0
    <3>2. rb[r] \in Ring /\ rb[r].steps \in Nat /\ rb[r].steps \div W \in Nat
      BY <1>0, SizesAssumption, DivMod DEF Ring
    <3>3. n \in (Sids \X Nat) \cup {None}
      BY <1>0, <3>2
    <3> QED BY <3>1, <3>2, <3>3, AdmittedRow
  <2>2. CASE ~ (Admits /\ \E s \in Boundary : seqid_to_row[s] = r)
    BY <1>0, <1>2, <2>2
  <2> QED BY <2>1, <2>2
<1>4. rb' \in [Rows -> Ring]
  BY <1>0, <1>3
<1> QED BY <1>1, <1>2, <1>4

(* What Sample writes to a row: one slot, and one step further. *)
LEMMA SampledRow ==
    ASSUME NEW ring \in Ring, NEW slot \in Slot
    PROVE  LET new == IncrementSteps(WriteSlot(ring, slot))
           IN  /\ new \in Ring
               /\ new.steps = ring.steps + 1
               /\ cfg.fastpath => new.steps_host = ring.steps_host + 1
               /\ new.params = ring.params
               /\ new.nonce = ring.nonce /\ new.nonce_host = ring.nonce_host
               /\ new.slots[ring.steps % W] = slot
               /\ \A j \in 0 .. W - 1 : j /= ring.steps % W => new.slots[j] = ring.slots[j]
<1> DEFINE wr == WriteSlot(ring, slot)
<1>1. ring.steps % W \in 0 .. W - 1 /\ ring.steps \in Nat /\ ring.slots \in [0 .. W - 1 -> Slot]
  BY SizesAssumption, DivMod DEF Ring
<1>2. /\ wr \in Ring /\ wr.steps = ring.steps /\ wr.steps_host = ring.steps_host
      /\ wr.params = ring.params /\ wr.nonce = ring.nonce /\ wr.nonce_host = ring.nonce_host
      /\ wr.slots = [ring.slots EXCEPT ![ring.steps % W] = slot]
  BY <1>1 DEF WriteSlot, Ring
<1> HIDE DEF wr
<1>0. wr.steps + 1 \in Nat /\ wr.steps_host + 1 \in Nat /\ wr.steps_host \in Nat
  BY <1>2 DEF Ring
<1> DEFINE new == IncrementSteps(wr)
<1>3. /\ new \in Ring
      /\ new.steps = wr.steps + 1
      /\ cfg.fastpath => new.steps_host = wr.steps_host + 1
      /\ new.params = wr.params /\ new.nonce = wr.nonce /\ new.nonce_host = wr.nonce_host
      /\ new.slots = wr.slots
  <2>1. CASE cfg.fastpath
    <3>1. new = [wr EXCEPT !.steps = wr.steps + 1, !.steps_host = wr.steps_host + 1]
      BY <2>1 DEF IncrementSteps
    <3> HIDE DEF new
    <3>2. wr \in Ring
      BY <1>2
    <3>3. new \in Ring
      BY <1>0, <3>1, <3>2 DEF Ring
    <3>4. /\ new.steps = wr.steps + 1 /\ new.steps_host = wr.steps_host + 1
          /\ new.params = wr.params /\ new.nonce = wr.nonce /\ new.nonce_host = wr.nonce_host
          /\ new.slots = wr.slots
      BY <1>0, <3>1, <3>2 DEF Ring
    <3> QED BY <3>3, <3>4
  <2>2. CASE ~ cfg.fastpath
    <3>1. new = [wr EXCEPT !.steps = wr.steps + 1, !.steps_host = wr.steps_host]
      BY <2>2 DEF IncrementSteps
    <3> HIDE DEF new
    <3>2. wr \in Ring
      BY <1>2
    <3>3. new \in Ring
      BY <1>0, <3>1, <3>2 DEF Ring
    <3>4. /\ new.steps = wr.steps + 1
          /\ new.params = wr.params /\ new.nonce = wr.nonce /\ new.nonce_host = wr.nonce_host
          /\ new.slots = wr.slots
      BY <1>0, <3>1, <3>2 DEF Ring
    <3> QED BY <2>2, <3>3, <3>4
  <2> QED BY <2>1, <2>2
<1>4. new = IncrementSteps(WriteSlot(ring, slot))
  BY DEF wr
<1> HIDE DEF new
<1> QED BY <1>1, <1>2, <1>3, <1>4

LEMMA HashedIsSlot ==
    ASSUME Types, NEW k \in 1 .. Len(sids), NEW r \in Rows, batch[k] \in Reqs
    PROVE  Hashed(k, r) \in Slot /\ Recorded(batch[k]) \in Int
<1>1. rb[r] \in Ring /\ sids[k] \in Sids
  BY DEF Types
<1>2. GetPosition(r) \in Nat
  <2>1. rb[r].steps \in Nat
    BY <1>1 DEF Ring
  <2>2. rb[r].steps % W \in 0 .. W - 1
    BY <2>1, SizesAssumption, DivMod
  <2> QED BY <2>2 DEF GetPosition
<1>3. RowNonce(r) \in (Sids \X Nat) \cup {None} /\ rb[r].params \in Reqs \cup {None}
  BY <1>1 DEF RowNonce, Ring
<1>4. Recorded(batch[k]) \in Int
  BY DEF Recorded, Types, Foreign
<1> QED BY <1>1, <1>2, <1>3, <1>4 DEF Hashed, Slot

LEMMA SampleWrites ==
    ASSUME RInv, NEW ended, Sample(ended)
    PROVE  /\ \A k \in 1 .. Len(sids) :
                 /\ sids[k] \in Sids /\ seqid_to_row[sids[k]] \in Rows
                 /\ Hashed(k, seqid_to_row[sids[k]]) \in Slot
                 /\ rb'[seqid_to_row[sids[k]]]
                       = IncrementSteps(WriteSlot(rb[seqid_to_row[sids[k]]],
                                                  Hashed(k, seqid_to_row[sids[k]])))
           /\ \A r \in Rows : (\A k \in 1 .. Len(sids) : seqid_to_row[sids[k]] /= r) => rb'[r] = rb[r]
           /\ rb' \in [Rows -> Ring]
<1>0. /\ rb' = [r \in Rows |->
            IF \E k \in 1 .. Len(sids) : seqid_to_row[sids[k]] = r
            THEN LET k == CHOOSE k \in 1 .. Len(sids) : seqid_to_row[sids[k]] = r
                 IN  IncrementSteps(WriteSlot(rb[r], Hashed(k, r)))
            ELSE rb[r]]
      /\ phase = "sample"
      /\ rb \in [Rows -> Ring] /\ Types
  BY DEF Sample, RInv, Types
<1>1. ASSUME NEW k \in 1 .. Len(sids)
      PROVE  /\ sids[k] \in Sids /\ seqid_to_row[sids[k]] \in Rows
             /\ Hashed(k, seqid_to_row[sids[k]]) \in Slot
  <2>1. sids[k] \in Sids /\ seqid_to_row[sids[k]] \in Rows
    BY <1>0 DEF RInv, Types, Calls, BatchHasRows
  <2>2. batch[k] \in Reqs
    BY <1>0 DEF RInv, Types, Calls, SidsFit
  <2> QED BY <1>0, <2>1, <2>2, HashedIsSlot
<1>2. ASSUME NEW k \in 1 .. Len(sids)
      PROVE  rb'[seqid_to_row[sids[k]]]
                = IncrementSteps(WriteSlot(rb[seqid_to_row[sids[k]]],
                                           Hashed(k, seqid_to_row[sids[k]])))
  <2>1. \A j \in 1 .. Len(sids) : seqid_to_row[sids[j]] = seqid_to_row[sids[k]] => j = k
    <3>1. ASSUME NEW j \in 1 .. Len(sids), seqid_to_row[sids[j]] = seqid_to_row[sids[k]]
          PROVE  j = k
      <4>1. sids[j] \in Sids /\ sids[k] \in Sids /\ seqid_to_row[sids[j]] /= None
        BY <1>1, NoneIsNothing
      <4>2. sids[j] = sids[k]
        BY <4>1, <3>1 DEF RInv, Tables, RowsPartition
      <4> QED BY <4>2 DEF RInv, Calls, SidsFit
    <3> QED BY <3>1
  <2>2. (CHOOSE j \in 1 .. Len(sids) : seqid_to_row[sids[j]] = seqid_to_row[sids[k]]) = k
    BY <2>1
  <2>3. seqid_to_row[sids[k]] \in Rows
    BY <1>1
  <2> QED BY <1>0, <2>2, <2>3
<1>3. \A r \in Rows : (\A k \in 1 .. Len(sids) : seqid_to_row[sids[k]] /= r) => rb'[r] = rb[r]
  BY <1>0
<1>4. ASSUME NEW r \in Rows PROVE rb'[r] \in Ring
  <2>1. CASE \E k \in 1 .. Len(sids) : seqid_to_row[sids[k]] = r
    <3>1. PICK k \in 1 .. Len(sids) : seqid_to_row[sids[k]] = r
      BY <2>1
    <3>2. Hashed(k, r) \in Slot /\ rb'[r] = IncrementSteps(WriteSlot(rb[r], Hashed(k, r)))
      BY <1>1, <1>2, <3>1
    <3> QED BY <1>0, <3>2, SampledRow
  <2>2. CASE ~ \E k \in 1 .. Len(sids) : seqid_to_row[sids[k]] = r
    BY <1>0, <1>3, <2>2
  <2> QED BY <2>1, <2>2
<1>5. rb' \in [Rows -> Ring]
  BY <1>0, <1>4
<1> QED BY <1>1, <1>2, <1>3, <1>5

LEMMA SampleRows ==
    ASSUME RInv, NEW ended, Sample(ended), cfg' = cfg
    PROVE  RInv'
<1>0. /\ UNCHANGED <<batch, sids, req_id_to_sid, next_sid, seq_params, seqid_to_row, free_rows>>
      /\ phase = "sample" /\ phase' = "eos" /\ at' = 1
      /\ eos' \subseteq BatchSids /\ stale' \subseteq stale
      /\ text' = [q \in Reqs |-> IF q \in InBatch(batch) THEN text[q] + 1 ELSE text[q]]
      /\ seq_caches' = [s \in Sids |->
           IF s \in BatchSids /\ seq_caches[s] /= None
           THEN UpdateCache(seq_caches[s],
                    Recorded(batch[CHOOSE k \in 1 .. Len(sids) : sids[k] = s]))
           ELSE seq_caches[s]]
  BY DEF Sample, Goto, rowman
<1>1. rb' \in [Rows -> Ring]
  BY SampleWrites
<1>2. text' \in [Reqs -> Int]
  BY <1>0 DEF RInv, Types
<1>3. seq_caches' \in [Sids -> Cache \cup {None}]
  <2>1. ASSUME NEW s \in BatchSids, seq_caches[s] /= None, s \in Sids
        PROVE  UpdateCache(seq_caches[s], Recorded(batch[CHOOSE k \in 1 .. Len(sids) : sids[k] = s])) \in Cache
    <3> DEFINE k == CHOOSE k \in 1 .. Len(sids) : sids[k] = s
    <3>1. k \in 1 .. Len(sids)
      BY <2>1 DEF BatchSids
    <3>2. seqid_to_row[sids[k]] \in Rows
      BY <3>1, SampleWrites
    <3> HIDE DEF k
    <3>3. batch[k] \in Reqs
      BY <1>0, <3>1 DEF RInv, Types, Calls, SidsFit
    <3>4. Recorded(batch[k]) \in Int
      BY <3>1, <3>2, <3>3, HashedIsSlot DEF RInv
    <3>5. seq_caches[s] \in Cache
      BY <2>1 DEF RInv, Types
    <3>6. UpdateCache(seq_caches[s], Recorded(batch[k])) \in Cache
      BY <3>4, <3>5, UpdateCacheIsCache
    <3> QED BY <3>6 DEF k
  <2> QED BY <1>0, <2>1 DEF RInv, Types
<1>4. Types'
  <2>1. BatchSids \subseteq Sids
    BY DEF RInv, Types, BatchSids
  <2>2. eos' \subseteq Sids /\ stale' \subseteq Sids
    BY <1>0, <2>1 DEF RInv, Types
  <2>3. /\ UNCHANGED <<batch, sids, req_id_to_sid, next_sid, seq_params, seqid_to_row, free_rows>>
        /\ phase' = "eos" /\ at' = 1
    BY <1>0
  <2> QED BY <1>1, <1>2, <1>3, <2>2, <2>3 DEF RInv, Types, Phases
<1>5. Tables'
  BY <1>0 DEF RInv, Tables, RowsPartition, RowsWithin, RowsInUse, IdsLinked
<1>6. Calls'
  BY <1>0 DEF RInv, Calls, BatchFits, SidsFit, RowsInUse, RowsSuffice, BatchHasRows
<1> QED BY <1>4, <1>5, <1>6 DEF RInv

(* Freeing a sequence in the loop over ended ones, or a stale one. *)
LEMMA FreeSequenceRows ==
    ASSUME RInv, NEW s \in Sids, FreeSequence(s), phase \in {"eos", "cleanup"},
           UNCHANGED <<text, phase, batch, sids, eos, next_sid, cfg>>, at' \in Nat \ {0}
    PROVE  RInv'
<1>1. TableTypes' /\ Tables'
  BY FreeSequenceTypes, FreeSequenceTables, TypesSplit DEF RInv
<1>2. Types'
  <2>1. /\ text' = text /\ phase' = phase /\ batch' = batch /\ sids' = sids /\ eos' = eos
        /\ next_sid' = next_sid
    OBVIOUS
  <2> QED BY <1>1, <2>1 DEF RInv, Types, TableTypes
<1>3. Calls'
  BY DEF RInv, Calls, BatchFits, SidsFit, RowsInUse, RowsSuffice, BatchHasRows
<1> QED BY <1>1, <1>2, <1>3 DEF RInv

(* A step that leaves tables, rows and the batch alone. *)
LEMMA QuietRows ==
    ASSUME RInv,
           UNCHANGED <<batch, sids, eos, req_id_to_sid, next_sid, seq_params, seq_caches, rowman, cfg>>,
           rb' \in [Rows -> Ring], stale' \subseteq Sids, text' \in [Reqs -> Int],
           at' \in Nat \ {0}, phase' \in Phases,
           phase' = "register" => phase = "register",
           phase' = "rows" => FALSE,
           phase' \in {"admit", "sample"} =>
              \A k \in 1 .. Len(sids) : seqid_to_row[sids[k]] /= None,
           phase' \notin {"idle", "register"} => phase \notin {"idle", "register"}
    PROVE  RInv'
<1>1. Types'
  BY DEF RInv, Types, rowman
<1>2. Tables'
  BY DEF RInv, Tables, RowsPartition, RowsWithin, RowsInUse, IdsLinked, rowman
<1>3. BatchFits' /\ SidsFit'
  BY DEF RInv, Calls, BatchFits, SidsFit, RowsInUse
<1>4. RowsSuffice' /\ BatchHasRows'
  BY DEF RowsSuffice, BatchHasRows, rowman
<1> QED BY <1>1, <1>2, <1>3, <1>4 DEF RInv, Calls

LEMMA RowsStep == RInv /\ [Next]_vars => RInv'
<1> SUFFICES ASSUME RInv, [Next]_vars
             PROVE  RInv'
  OBVIOUS
<1>0. /\ Types /\ Calls /\ Tables /\ at \in Nat \ {0} /\ text \in [Reqs -> Int]
      /\ phase \in Phases /\ stale \subseteq Sids /\ rb \in [Rows -> Ring]
      /\ sids \in Seq(Sids) /\ Len(sids) \in Nat
  BY DEF RInv, Types
<1>c. cfg' = cfg
  BY DEF Next, vars, Schedule, PlainStep, TimePasses, Register, PreEvict, EnsureRow, RowsReady, Admit,
         Sample, CheckEos, EosDone, CheckPow, PowDone, Cleanup
<1>1. ASSUME NEW b \in Batches, Schedule(b) PROVE RInv'
  BY <1>1, <1>c, ScheduleRows
<1>2. ASSUME NEW b \in SUBSET Reqs, PlainStep(b) PROVE RInv'
  <2>1. text' \in [Reqs -> Int]
    BY <1>0, <1>2 DEF PlainStep
  <2>2. /\ UNCHANGED <<batch, sids, eos, req_id_to_sid, next_sid, seq_params, seq_caches, rowman>>
        /\ rb' = rb /\ stale' = stale /\ at' = at /\ phase' = phase /\ phase = "idle"
    BY <1>2 DEF PlainStep, call, tables
  <2> QED BY <1>0, <2>1, <2>2, <1>c, QuietRows
<1>3. CASE TimePasses
  <2>1. /\ UNCHANGED <<batch, sids, eos, req_id_to_sid, next_sid, seq_params, seq_caches, rowman>>
        /\ rb' = rb /\ stale' \subseteq Sids /\ at' = at /\ phase' = phase /\ phase = "idle"
        /\ text' = text
    BY <1>3 DEF TimePasses, call
  <2> QED BY <1>0, <2>1, <1>c, QuietRows
<1>4. CASE Register
  BY <1>4, <1>c, RegisterRows
<1>5. CASE PreEvict
  BY <1>5, <1>c, PreEvictRows
<1>6. CASE EnsureRow
  BY <1>6, <1>c, EnsureRowRows
<1>7. CASE RowsReady
  <2>1. /\ UNCHANGED <<batch, sids, eos, req_id_to_sid, next_sid, seq_params, seq_caches, rowman>>
        /\ rb' = rb /\ stale' = stale /\ at' = 1 /\ phase' = "admit" /\ phase = "rows"
        /\ text' = text /\ at > Len(sids)
    BY <1>7 DEF RowsReady, call, tables, Goto
  <2>2. \A k \in 1 .. Len(sids) : k < at
    BY <1>0, <2>1
  <2>3. \A k \in 1 .. Len(sids) : seqid_to_row[sids[k]] /= None
    BY <2>1, <2>2, <1>0 DEF Calls, RowsSuffice
  <2> QED BY <1>0, <2>1, <2>3, <1>c, QuietRows DEF Phases
<1>8. ASSUME NEW found \in SUBSET Sids, Admit(found) PROVE RInv'
  <2>1. /\ UNCHANGED <<batch, sids, eos, req_id_to_sid, next_sid, seq_params, seq_caches, rowman>>
        /\ stale' = stale /\ at' = 1 /\ phase' = "sample" /\ phase = "admit"
        /\ text' = text
    BY <1>8 DEF Admit, call, tables, Goto
  <2>2. rb' \in [Rows -> Ring]
    BY <1>8, AdmitWrites
  <2>3. \A k \in 1 .. Len(sids) : seqid_to_row[sids[k]] /= None
    BY <2>1, <1>0 DEF Calls, BatchHasRows
  <2> QED BY <1>0, <2>1, <2>2, <2>3, <1>c, QuietRows DEF Phases
<1>9. ASSUME NEW ended \in SUBSET Sids, Sample(ended) PROVE RInv'
  BY <1>9, <1>c, SampleRows
<1>10. CASE CheckEos
  <2>1. /\ UNCHANGED <<text, phase, batch, sids, eos, next_sid>> /\ at' = at + 1
        /\ phase = "eos" /\ at <= Len(sids)
    BY <1>10 DEF CheckEos, call
  <2>2. at' \in Nat \ {0} /\ at \in 1 .. Len(sids) /\ sids[at] \in Sids
    BY <1>0, <2>1
  <2>3. CASE sids[at] \in eos
    <3>1. FreeSequence(sids[at])
      BY <1>10, <2>3 DEF CheckEos
    <3> QED BY <2>1, <2>2, <3>1, <1>c, FreeSequenceRows
  <2>4. CASE sids[at] \notin eos
    <3>1. UNCHANGED <<req_id_to_sid, seq_params, seq_caches, stale, rowman, rb>>
      BY <1>10, <2>4 DEF CheckEos
    <3> QED BY <1>0, <2>1, <2>2, <3>1, <1>c, QuietRows
  <2> QED BY <2>3, <2>4
<1>11. CASE EosDone
  <2>1. /\ UNCHANGED <<batch, sids, eos, req_id_to_sid, next_sid, seq_params, seq_caches, rowman>>
        /\ rb' = rb /\ stale' = stale /\ at' = 1 /\ phase' = "pow" /\ phase = "eos"
        /\ text' = text
    BY <1>11 DEF EosDone, call, tables, Goto
  <2> QED BY <1>0, <2>1, <1>c, QuietRows DEF Phases
<1>12. ASSUME NEW tier \in 0 .. 2, CheckPow(tier) PROVE RInv'
  <2>1. /\ UNCHANGED <<batch, sids, eos, req_id_to_sid, next_sid, seq_params, seq_caches, rowman>>
        /\ rb' = rb /\ stale' = stale /\ at' = at + 1 /\ phase' = "pow" /\ phase = "pow"
        /\ text' = text
    BY <1>12 DEF CheckPow, call, tables
  <2> QED BY <1>0, <2>1, <1>c, QuietRows DEF Phases
<1>13. CASE PowDone
  <2>1. /\ UNCHANGED <<batch, sids, eos, req_id_to_sid, next_sid, seq_params, seq_caches, rowman>>
        /\ rb' = rb /\ stale' = stale /\ at' = 1 /\ phase' = "cleanup" /\ phase = "pow"
        /\ text' = text
    BY <1>13 DEF PowDone, call, tables, Goto
  <2> QED BY <1>0, <2>1, <1>c, QuietRows DEF Phases
<1>14. CASE Cleanup
  <2>1. phase = "cleanup" /\ UNCHANGED <<text, next_sid>>
    BY <1>14 DEF Cleanup
  <2>2. CASE stale /= {}
    <3> DEFINE s == CHOOSE s \in stale : \A t \in stale : s <= t
    <3>1. s \in Sids
      <4>1. stale \subseteq Nat
        BY <1>0, SidsFinite
      <4>2. \E x \in stale : \A t \in stale : x <= t
        BY <2>2, <4>1, LeastExists
      <4> QED BY <1>0, <4>2
    <3>2. FreeSequence(s) /\ UNCHANGED <<phase, at, batch, sids, eos>>
      BY <1>14, <2>2 DEF Cleanup, call
    <3> HIDE DEF s
    <3> QED BY <1>0, <2>1, <3>1, <3>2, <1>c, FreeSequenceRows
  <2>3. CASE stale = {}
    <3>1. /\ phase' = "idle" /\ at' = 1 /\ batch' = <<>> /\ sids' = <<>> /\ eos' = {}
          /\ UNCHANGED <<req_id_to_sid, seq_params, seq_caches, stale, rowman, rb>>
      BY <1>14, <2>3 DEF Cleanup, Goto
    <3>2. TableTypes' /\ next_sid' \in 0 .. MaxSid /\ Tables'
      BY <1>0, <2>1, <3>1, <1>c, QuietTables
    <3>3. Types'
      BY <1>0, <2>1, <3>1, <3>2 DEF Types, TableTypes, Phases
    <3>4. Cardinality(RowsInUse) \in Nat /\ RowsInUse' = RowsInUse
      BY <1>0, <1>c, TypesSplit, RowCount DEF Tables, RowsInUse
    <3>5. Calls'
      BY <3>1, <3>4 DEF Calls, BatchFits, SidsFit, RowsSuffice, BatchHasRows
    <3> QED BY <3>2, <3>3, <3>5 DEF RInv
  <2> QED BY <2>2, <2>3
<1>15. CASE UNCHANGED vars
  BY <1>15 DEF vars, RInv, Types, Tables, RowsPartition, RowsWithin, RowsInUse, IdsLinked, Calls, BatchFits, SidsFit,
              RowsSuffice, Need, BatchSids, BatchHasRows
<1> QED BY <1>1, <1>2, <1>3, <1>4, <1>5, <1>6, <1>7, <1>8, <1>9, <1>10, <1>11, <1>12, <1>13,
           <1>14, <1>15 DEF Next

(* RowManager: no row is leaked or shared, and every sequence of a batch   *)
(* has one when it is sampled, for any number of rows and requests and any *)
(* order of evictions, ends and clean-ups.                                 *)
THEOREM RowsSafe == Spec => []RowsAreSound
<1>1. RInv => RowsAreSound
  BY DEF RInv, Tables, Calls, RowsAreSound
<1> QED BY <1>1, RowsInit, RowsStep, PTL DEF Spec

-----------------------------------------------------------------------------
(* The buffers, row by row.                                                *)

Pure(s, ring) ==
    \A j \in 0 .. W - 1 :
        IF j \in (IF ring.steps >= W THEN 0 .. W - 1 ELSE 0 .. ring.steps - 1)
        THEN ring.slots[j].sid = s /\ ring.slots[j].idx = j /\ ring.slots[j].params = ring.params
        ELSE ring.slots[j] = EmptySlot

Admitted(s, ring) ==
    ring.steps % W /= 0 =>
        /\ ring.nonce \in {None, <<s, (ring.steps - 1) \div W>>}
        /\ \A j \in 0 .. (ring.steps % W) - 1 : ring.slots[j].nonce = ring.nonce

(* The two sides of a boundary. *)
Opening(s, ring) == ring.steps % W = 0 => ring.nonce \in {None, <<s, ring.steps \div W>>}
Closed(ring) == ring.steps % W = 0 /\ ring.steps > 0 =>
                    \A j \in 0 .. W - 1 : ring.slots[j].nonce = ring.nonce

RowGood(s, ring, req) ==
    Pure(s, ring) /\ Admitted(s, ring) /\ ring.params = Snapshot(req)

Mirrored(ring) == /\ cfg.fastpath => ring.steps_host = ring.steps
                  /\ ring.nonce_host <=> ring.nonce /= None

TailOfArchive(c) ==
    \A j \in 1 .. W : ContextWindow(c)[j] =
        IF Len(c.archive) - W + j >= 1 THEN c.archive[Len(c.archive) - W + j] ELSE Pad

HeldRowsGood ==
    \A s \in Sids : seqid_to_row[s] /= None =>
        /\ RowGood(s, rb[seqid_to_row[s]], seq_params[s])
        /\ phase = "sample" /\ s \in BatchSids => Opening(s, rb[seqid_to_row[s]])
        /\ ~ (phase = "sample" /\ s \in BatchSids) => Closed(rb[seqid_to_row[s]])

CachesGood == \A s \in Sids : seq_caches[s] /= None => TailOfArchive(seq_caches[s])

RowsMirrored == \A r \in Rows : Mirrored(rb[r])

LEMMA BuffersSplit ==
    Buffers <=> HeldRowsGood /\ NoUnaskedNonce /\ SampledOnce /\ CachesGood /\ RowsMirrored
<1>1. HeldRowsGood <=> ParamsAreHolders /\ WindowsArePure /\ NonceAdmitsOneWindow /\ BoundaryNonce
  BY DEF HeldRowsGood, RowGood, Pure, Admitted, Opening, Closed, ParamsAreHolders,
         WindowsArePure, NonceAdmitsOneWindow, BoundaryNonce
<1>2. RowsMirrored <=> MirrorsAgree
  BY DEF RowsMirrored, Mirrored, MirrorsAgree
<1>3. CachesGood <=> ContextIsArchiveTail
  BY DEF CachesGood, TailOfArchive, ContextIsArchiveTail
<1> QED BY <1>1, <1>2, <1>3 DEF Buffers, CopiesAgree

LEMMA BuffersPrimed ==
    Buffers' <=> HeldRowsGood' /\ NoUnaskedNonce' /\ SampledOnce' /\ CachesGood' /\ RowsMirrored'
BY BuffersSplit, PTL

(* The two ways a cache comes about. *)
LEMMA NewCacheGood == ASSUME NEW req PROVE TailOfArchive(NewCache(req))
<1> DEFINE c == NewCache(req)
           tail == IF PromptLen < W THEN PromptLen ELSE W
<1>0. W \in Nat \ {0} /\ PromptLen \in Nat
  BY SizesAssumption
<1>1. tail \in Nat /\ tail <= W /\ (PromptLen < W => tail = PromptLen) /\ (~ (PromptLen < W) => tail = W)
  BY <1>0
<1>m. \A x \in Nat : x < 2 * W => x % W = IF x < W THEN x ELSE x - W
  BY <1>0, ModWrap
<1>2. /\ c.archive = [n \in 1 .. PromptLen |-> n]
      /\ c.ring = [j \in 0 .. W - 1 |-> IF j < tail THEN PromptLen - tail + j + 1 ELSE Pad]
      /\ c.ring_pos = tail % W
  BY DEF NewCache
<1>3. Len(c.archive) = PromptLen /\ \A n \in 1 .. PromptLen : c.archive[n] = n
  BY <1>0, <1>2
<1> HIDE DEF c, tail
<1>r. \A i \in 0 .. W - 1 : c.ring[i] = IF i < tail THEN PromptLen - tail + i + 1 ELSE Pad
  BY <1>2
<1> SUFFICES ASSUME NEW j \in 1 .. W
             PROVE  ContextWindow(c)[j] =
                      IF PromptLen - W + j >= 1 THEN c.archive[PromptLen - W + j] ELSE Pad
  BY <1>3 DEF TailOfArchive, c
<1>4. ContextWindow(c)[j] = c.ring[(c.ring_pos + j - 1) % W]
  BY DEF ContextWindow
<1>5. CASE PromptLen < W
  <2>1. tail = PromptLen /\ c.ring_pos = PromptLen
    <3>1. tail = PromptLen BY <1>1, <1>5
    <3>2. PromptLen % W = PromptLen BY <1>0, <1>5, <1>m
    <3> QED BY <3>1, <3>2, <1>2
  <2>2. CASE PromptLen + j - 1 < W
    <3>1. PromptLen + j - 1 \in 0 .. W - 1 /\ ~ (PromptLen + j - 1 < tail)
      BY <1>0, <2>1, <2>2
    <3>2. (c.ring_pos + j - 1) % W = PromptLen + j - 1
      BY <1>0, <1>m, <2>1, <2>2, <3>1
    <3>3. c.ring[PromptLen + j - 1] = Pad
      BY <1>r, <3>1
    <3>4. ~ (PromptLen - W + j >= 1)
      BY <1>0, <2>2
    <3> QED BY <1>4, <3>2, <3>3, <3>4
  <2>3. CASE ~ (PromptLen + j - 1 < W)
    <3>0. PromptLen + j - 1 \in Nat /\ PromptLen + j - 1 < 2 * W
      BY <1>0, <1>5
    <3>1. (c.ring_pos + j - 1) % W = PromptLen + j - 1 - W
      BY <1>0, <1>m, <2>1, <2>3, <3>0
    <3>2. PromptLen + j - 1 - W \in 0 .. W - 1 /\ PromptLen + j - 1 - W < tail
      BY <1>0, <1>5, <2>1, <2>3
    <3>3. c.ring[PromptLen + j - 1 - W] = PromptLen - tail + (PromptLen + j - 1 - W) + 1
      BY <1>r, <3>2
    <3>4. PromptLen - W + j \in 1 .. PromptLen
      BY <1>0, <1>5, <2>3
    <3>5. c.archive[PromptLen - W + j] = PromptLen - W + j
      BY <1>3, <3>4
    <3> QED BY <1>0, <1>4, <2>1, <3>1, <3>3, <3>4, <3>5
  <2> QED BY <2>2, <2>3
<1>6. CASE ~ (PromptLen < W)
  <2>1. tail = W /\ c.ring_pos = 0
    <3>1. tail = W BY <1>1, <1>6
    <3>2. W % W = 0 BY <1>0
    <3> QED BY <3>1, <3>2, <1>2
  <2>2. (c.ring_pos + j - 1) % W = j - 1
    <3>1. j - 1 \in Nat /\ j - 1 < W /\ j - 1 < 2 * W
      BY <1>0
    <3>2. c.ring_pos + j - 1 = j - 1
      BY <2>1
    <3> QED BY <3>1, <3>2, <1>m
  <2>3. c.ring[j - 1] = PromptLen - W + (j - 1) + 1
    <3>1. j - 1 \in 0 .. W - 1 /\ j - 1 < tail
      BY <1>0, <2>1
    <3> QED BY <1>r, <2>1, <3>1
  <2>4. PromptLen - W + j \in 1 .. PromptLen
    BY <1>0, <1>6
  <2>5. c.archive[PromptLen - W + j] = PromptLen - W + j
    BY <1>3, <2>4
  <2> QED BY <1>0, <1>4, <2>2, <2>3, <2>4, <2>5
<1> QED BY <1>5, <1>6

LEMMA UpdateCacheGood ==
    ASSUME NEW c \in Cache, NEW tok \in Int, TailOfArchive(c)
    PROVE  TailOfArchive(UpdateCache(c, tok))
<1> DEFINE d == UpdateCache(c, tok)
           n == Len(c.archive)
           p == c.ring_pos
<1>1. /\ c.archive \in Seq(Int) /\ c.ring \in [0 .. W - 1 -> Int]
      /\ p \in 0 .. W - 1 /\ W \in Nat \ {0}
  BY SizesAssumption DEF Cache
<1>2. /\ d.archive = Append(c.archive, tok)
      /\ d.ring = [c.ring EXCEPT ![p] = tok]
      /\ d.ring_pos = (p + 1) % W
  BY DEF UpdateCache
<1> HIDE DEF d
<1>3. /\ n \in Nat /\ Len(d.archive) = n + 1 /\ d.archive[n + 1] = tok
      /\ \A i \in 1 .. n : d.archive[i] = c.archive[i]
  BY <1>1, <1>2
<1>c. \A j \in 1 .. W : ContextWindow(c)[j] = IF n - W + j >= 1 THEN c.archive[n - W + j] ELSE Pad
  BY DEF TailOfArchive
<1>d. (\A j \in 1 .. W : ContextWindow(d)[j] = IF (n + 1) - W + j >= 1 THEN d.archive[(n + 1) - W + j] ELSE Pad)
         => TailOfArchive(d)
  <2>1. Len(d.archive) = n + 1
    BY <1>3
  <2> HIDE DEF n
  <2> QED BY <2>1, SMTT(30) DEF TailOfArchive
<1> HIDE DEF n, p
<1>e. ASSUME NEW j \in 1 .. W
      PROVE  ContextWindow(d)[j] =
               IF (n + 1) - W + j >= 1 THEN d.archive[(n + 1) - W + j] ELSE Pad
  <2>4. /\ ContextWindow(d)[j] = d.ring[(p + j) % W] /\ (p + j) % W \in 0 .. W - 1
        /\ ((p + j) % W = p <=> j = W)
    <3>1. ContextWindow(d)[j] = d.ring[(((p + 1) % W) + j - 1) % W]
      BY <1>2 DEF ContextWindow
    <3>2. /\ (((p + 1) % W) + j - 1) % W = (p + j) % W
          /\ (p + j) % W = p <=> j = W
          /\ (p + j) % W \in 0 .. W - 1
      BY <1>1, Rotation
    <3> QED BY <3>1, <3>2
  <2>5. CASE j = W
    <3>1. d.ring[(p + j) % W] = tok
      BY <1>1, <1>2, <2>4, <2>5
    <3>2. (n + 1) - W + j = n + 1 /\ n + 1 >= 1
      BY <1>1, <1>3, <2>5
    <3> QED BY <3>1, <3>2, <1>3, <2>4
  <2>6. CASE j /= W
    <3>1. j + 1 \in 1 .. W
      BY <1>1, <2>6
    <3>2. d.ring[(p + j) % W] = c.ring[(p + j) % W]
      BY <1>1, <1>2, <2>4, <2>6
    <3>3. ContextWindow(c)[j + 1] = c.ring[(p + j) % W]
      <4>1. ContextWindow(c)[j + 1] = c.ring[(p + (j + 1) - 1) % W]
        BY <3>1 DEF ContextWindow, p
      <4>2. p + (j + 1) - 1 = p + j
        BY <1>1
      <4> QED BY <4>1, <4>2
    <3>4. ContextWindow(c)[j + 1] = IF n - W + (j + 1) >= 1 THEN c.archive[n - W + (j + 1)] ELSE Pad
      BY <3>1, <1>c
    <3>5. n - W + (j + 1) = (n + 1) - W + j /\ j < W
      BY <1>1, <1>3, <2>6
    <3>6. (n + 1) - W + j >= 1 => (n + 1) - W + j \in 1 .. n
      BY <1>1, <1>3, <3>5
    <3> QED BY <1>3, <2>4, <3>2, <3>3, <3>4, <3>5, <3>6
  <2> QED BY <2>5, <2>6
<1> QED BY <1>d, <1>e DEF d

(* Sampling into a good row whose nonce may enter this window. *)
LEMMA SampledRowGood ==
    ASSUME NEW ring \in Ring, NEW new \in Ring, NEW s, NEW req, NEW slot \in Slot,
           RowGood(s, ring, req), Opening(s, ring),
           slot.sid = s, slot.idx = ring.steps % W, slot.params = ring.params,
           slot.nonce = ring.nonce,
           new.steps = ring.steps + 1, new.params = ring.params, new.nonce = ring.nonce,
           new.slots[ring.steps % W] = slot,
           \A j \in 0 .. W - 1 : j /= ring.steps % W => new.slots[j] = ring.slots[j]
    PROVE  RowGood(s, new, req) /\ Closed(new)
<1> DEFINE n == ring.steps
           pos == ring.steps % W
<1>0. W \in Nat \ {0} /\ n \in Nat /\ pos \in 0 .. W - 1 /\ n \div W \in Nat
  BY SizesAssumption, DivMod DEF Ring
<1>1. (n + 1) % W = IF pos = W - 1 THEN 0 ELSE pos + 1
  BY <1>0, DivModSucc
<1>2. n < W => pos = n
  BY <1>0
<1>3. pos /= 0 => (n - 1) \div W = n \div W
  <2> SUFFICES ASSUME pos /= 0 PROVE (n - 1) \div W = n \div W
    OBVIOUS
  <2>1. n /= 0
    BY <1>0, <1>2
  <2>2. n - 1 \in Nat /\ (n - 1) + 1 = n
    BY <1>0, <2>1
  <2>3. /\ ((n - 1) + 1) % W = IF (n - 1) % W = W - 1 THEN 0 ELSE ((n - 1) % W) + 1
        /\ (n - 1) % W /= W - 1 => ((n - 1) + 1) \div W = (n - 1) \div W
    BY <1>0, <2>2, DivModSucc
  <2> QED BY <2>2, <2>3
<1>p. \A j \in 0 .. W - 1 :
          IF j \in (IF n >= W THEN 0 .. W - 1 ELSE 0 .. n - 1)
          THEN ring.slots[j].sid = s /\ ring.slots[j].idx = j /\ ring.slots[j].params = ring.params
          ELSE ring.slots[j] = EmptySlot
  BY DEF RowGood, Pure
<1>a. pos /= 0 => /\ ring.nonce \in {None, <<s, (n - 1) \div W>>}
                  /\ \A j \in 0 .. pos - 1 : ring.slots[j].nonce = ring.nonce
  BY DEF RowGood, Admitted
<1>o. pos = 0 => ring.nonce \in {None, <<s, n \div W>>}
  BY DEF Opening
<1>n. new.steps = n + 1 /\ new.slots[pos] = slot /\ slot.idx = pos
      /\ \A j \in 0 .. W - 1 : j /= pos => new.slots[j] = ring.slots[j]
  OBVIOUS
<1> HIDE DEF n, pos
<1>4. Pure(s, new)
  <2> SUFFICES ASSUME NEW j \in 0 .. W - 1
               PROVE  IF j \in (IF n + 1 >= W THEN 0 .. W - 1 ELSE 0 .. (n + 1) - 1)
                      THEN new.slots[j].sid = s /\ new.slots[j].idx = j /\ new.slots[j].params = new.params
                      ELSE new.slots[j] = EmptySlot
    BY <1>n DEF Pure
  <2>1. CASE j = pos
    <3>1. j \in (IF n + 1 >= W THEN 0 .. W - 1 ELSE 0 .. (n + 1) - 1)
      BY <1>0, <1>2, <2>1
    <3> QED BY <3>1, <2>1, <1>n
  <2>2. CASE j /= pos
    <3>1. new.slots[j] = ring.slots[j]
      BY <2>2, <1>n
    <3>2. j \in (IF n + 1 >= W THEN 0 .. W - 1 ELSE 0 .. (n + 1) - 1)
             <=> j \in (IF n >= W THEN 0 .. W - 1 ELSE 0 .. n - 1)
      BY <1>0, <1>2, <2>2
    <3> QED BY <3>1, <3>2, <1>p
  <2> QED BY <2>1, <2>2
<1>5. Admitted(s, new)
  <2> SUFFICES ASSUME (n + 1) % W /= 0
               PROVE  /\ new.nonce \in {None, <<s, ((n + 1) - 1) \div W>>}
                      /\ \A j \in 0 .. ((n + 1) % W) - 1 : new.slots[j].nonce = new.nonce
    BY <1>n DEF Admitted
  <2>1. (n + 1) % W = pos + 1 /\ (n + 1) - 1 = n /\ pos /= W - 1
    BY <1>0, <1>1
  <2>2. ring.nonce \in {None, <<s, n \div W>>}
    BY <1>3, <1>a, <1>o
  <2>3. ASSUME NEW j \in 0 .. pos PROVE new.slots[j].nonce = ring.nonce
    <3>1. CASE j = pos BY <3>1, <1>n
    <3>2. CASE j /= pos
      <4>1. j \in 0 .. pos - 1 /\ pos /= 0 /\ j \in 0 .. W - 1
        BY <3>2, <1>0
      <4> QED BY <4>1, <3>2, <1>a, <1>n
    <3> QED BY <3>1, <3>2
  <2>4. (pos + 1) - 1 = pos
    BY <1>0
  <2> QED BY <2>1, <2>2, <2>3, <2>4
<1>6. Closed(new)
  <2> SUFFICES ASSUME (n + 1) % W = 0, NEW j \in 0 .. W - 1
               PROVE  new.slots[j].nonce = new.nonce
    BY <1>n DEF Closed
  <2>1. pos = W - 1
    BY <1>0, <1>1
  <2>2. CASE j = pos BY <2>2, <1>n
  <2>3. CASE j /= pos
    <3>1. j \in 0 .. pos - 1 /\ pos /= 0
      BY <2>1, <2>3, <1>0
    <3> QED BY <3>1, <2>3, <1>a, <1>n
  <2> QED BY <2>2, <2>3
<1>7. new.params = Snapshot(req)
  BY DEF RowGood
<1> QED BY <1>4, <1>5, <1>6, <1>7 DEF RowGood

(* A row that has just been given to a sequence. *)
LEMMA FreshRowGood ==
    ASSUME NEW s, NEW req \in Reqs \cup {None}
    PROVE  LET ring == WritePowParams(EmptyRow, req)
           IN  RowGood(s, ring, req) /\ Closed(ring) /\ Mirrored(ring) /\ ring.nonce = None
<1> DEFINE ring == WritePowParams(EmptyRow, req)
<1>1. /\ ring.steps = 0 /\ ring.steps_host = 0 /\ ring.params = Snapshot(req)
      /\ ring.nonce = None /\ ring.nonce_host = FALSE
      /\ \A j \in 0 .. W - 1 : ring.slots[j] = EmptySlot
  BY FreshRow
<1> HIDE DEF ring
<1>2. 0 % W = 0 /\ ~ (0 >= W) /\ W \in Nat
  BY SizesAssumption
<1>3. Pure(s, ring)
  BY <1>1, <1>2 DEF Pure
<1>4. Admitted(s, ring) /\ Closed(ring) /\ Mirrored(ring)
  BY <1>1, <1>2 DEF Admitted, Closed, Mirrored
<1> QED BY <1>1, <1>3, <1>4 DEF RowGood, ring

LEMMA EmptyRowGood == Mirrored(EmptyRow) /\ EmptyRow.nonce = None
BY DEF Mirrored, EmptyRow

LEMMA BuffersInit == Init => Buffers
<1> SUFFICES ASSUME Init PROVE Buffers
  OBVIOUS
<1>1. /\ phase = "idle" /\ \A s \in Sids : seqid_to_row[s] = None /\ seq_caches[s] = None
      /\ \A r \in Rows : rb[r] = EmptyRow
  BY DEF Init
<1>2. HeldRowsGood /\ SampledOnce /\ CachesGood
  BY <1>1 DEF HeldRowsGood, SampledOnce, CachesGood
<1>3. NoUnaskedNonce /\ RowsMirrored
  BY <1>1, EmptyRowGood DEF NoUnaskedNonce, RowsMirrored
<1> QED BY <1>2, <1>3, BuffersSplit

(* A step that samples nothing and admits nothing: every row is what it    *)
(* was, or cleared and without a holder.                                   *)
LEMMA KeptBuffers ==
    ASSUME RInv, Buffers, OthersKept, cfg' = cfg,
           phase /= "sample", phase' /= "sample",
           \A r \in Rows : rb'[r] \in {rb[r], EmptyRow},
           \A s \in Sids : seq_caches'[s] \in {seq_caches[s], None},
           phase' \in {"eos", "pow", "cleanup"} =>
              sids' = sids /\ phase \in {"eos", "pow", "cleanup"}
    PROVE  Buffers'
<1>0. HeldRowsGood /\ NoUnaskedNonce /\ SampledOnce /\ CachesGood /\ RowsMirrored
  BY BuffersSplit
<1>1. HeldRowsGood'
  <2> SUFFICES ASSUME NEW s \in Sids, seqid_to_row'[s] /= None
               PROVE  /\ RowGood(s, rb'[seqid_to_row'[s]], seq_params'[s])
                      /\ Closed(rb'[seqid_to_row'[s]])
    BY DEF HeldRowsGood
  <2>1. /\ seqid_to_row'[s] = seqid_to_row[s] /\ rb'[seqid_to_row[s]] = rb[seqid_to_row[s]]
        /\ seq_params'[s] = seq_params[s]
    BY DEF OthersKept
  <2> QED BY <1>0, <2>1 DEF HeldRowsGood
<1>2. NoUnaskedNonce'
  BY <1>0, EmptyRowGood DEF NoUnaskedNonce, Admits
<1>3. RowsMirrored'
  <2> SUFFICES ASSUME NEW r \in Rows PROVE Mirrored(rb[r])'
    BY DEF RowsMirrored
  <2>1. CASE rb'[r] = rb[r]
    BY <1>0, <2>1 DEF RowsMirrored, Mirrored
  <2>2. CASE rb'[r] = EmptyRow
    BY <2>2 DEF Mirrored, EmptyRow
  <2> QED BY <2>1, <2>2
<1>4. CachesGood'
  BY <1>0 DEF CachesGood
<1>5. SampledOnce'
  <2> SUFFICES ASSUME phase' \in {"eos", "pow", "cleanup"}, NEW k \in 1 .. Len(sids),
                      seqid_to_row'[sids[k]] /= None, sids' = sids
               PROVE  rb'[seqid_to_row'[sids[k]]].steps > 0
    BY DEF SampledOnce
  <2>1. sids[k] \in Sids
    BY DEF RInv, Types
  <2> QED BY <1>0, <2>1 DEF SampledOnce, OthersKept
<1> QED BY <1>1, <1>2, <1>3, <1>4, <1>5, BuffersPrimed

(* A step that leaves the rows alone altogether. *)
LEMMA QuietBuffers ==
    ASSUME RInv, Buffers, UNCHANGED <<seq_params, seq_caches, seqid_to_row, rb, cfg>>,
           phase /= "sample", phase' /= "sample",
           phase' \in {"eos", "pow", "cleanup"} =>
              sids' = sids /\ phase \in {"eos", "pow", "cleanup"}
    PROVE  Buffers'
<1>1. OthersKept
  BY DEF OthersKept
<1>2. /\ \A r \in Rows : rb'[r] \in {rb[r], EmptyRow}
      /\ \A s \in Sids : seq_caches'[s] \in {seq_caches[s], None}
  OBVIOUS
<1> QED BY <1>1, <1>2, KeptBuffers

LEMMA FreedBuffers ==
    ASSUME RInv, Buffers, NEW s \in Sids, FreeSequence(s),
           UNCHANGED <<cfg, phase, sids, next_sid>>, phase /= "sample"
    PROVE  Buffers'
<1>0. TableTypes
  BY TypesSplit DEF RInv
<1>1. OthersKept
  BY <1>0, FreeSequenceTables DEF RInv
<1>2. \A r \in Rows : rb'[r] \in {rb[r], EmptyRow}
  BY <1>0 DEF FreeSequence, TableTypes
<1>3. \A t \in Sids : seq_caches'[t] \in {seq_caches[t], None}
  BY <1>0 DEF FreeSequence, TableTypes
<1> QED BY <1>1, <1>2, <1>3, KeptBuffers

(* Registering again does not change whose parameters a row has. *)
LEMMA RegisterBuffers ==
    ASSUME RInv, Buffers, Register
    PROVE  Buffers'
<1>0. /\ phase = "register" /\ phase' = "evict"
      /\ UNCHANGED <<seq_caches, seqid_to_row, free_rows, rb, cfg>>
      /\ batch \in Seq(Reqs)
      /\ seq_params' = [s \in Sids |->
            IF \E k \in 1 .. Len(batch) : sids'[k] = s
            THEN batch[CHOOSE k \in 1 .. Len(batch) : sids'[k] = s]
            ELSE seq_params[s]]
  BY DEF Register, Goto, rowman, RInv, Types
<1>1. /\ \A k \in 1 .. Len(batch) :
            sids'[k] = IF req_id_to_sid[batch[k]] = None THEN next_sid + NewBefore(k)
                                                         ELSE req_id_to_sid[batch[k]]
      /\ next_sid \in Nat
  <2>1. cfg' = cfg
    BY DEF Register
  <2> QED BY <2>1, RegisterSids DEF RInv, Types
<1>2. \A k \in 1 .. Len(batch) : NewBefore(k) \in Nat /\ batch[k] \in Reqs
  <2>1. \A k \in 1 .. Len(batch) + 1 : NewBefore(k) \in Nat
    BY <1>0, NewBeforeCounts DEF RInv, Calls, BatchFits
  <2> QED BY <2>1, <1>0
<1>3. OthersKept
  <2> SUFFICES ASSUME NEW t \in Sids, seqid_to_row[t] /= None
               PROVE  seq_params'[t] = seq_params[t]
    BY <1>0 DEF OthersKept
  <2>1. CASE \E k \in 1 .. Len(batch) : sids'[k] = t
    <3> DEFINE k == CHOOSE k \in 1 .. Len(batch) : sids'[k] = t
    <3>1. k \in 1 .. Len(batch) /\ sids'[k] = t
      BY <2>1
    <3>2. seq_params'[t] = batch[k]
      BY <1>0, <2>1
    <3> HIDE DEF k
    <3>3. t < next_sid /\ t \in Nat
      BY <1>1, SidsFinite DEF RInv, Tables, IdsLinked
    <3>4. req_id_to_sid[batch[k]] /= None
      <4> SUFFICES ASSUME req_id_to_sid[batch[k]] = None PROVE FALSE
        OBVIOUS
      <4>1. t = next_sid + NewBefore(k)
        BY <1>1, <3>1
      <4> QED BY <4>1, <1>1, <1>2, <3>1, <3>3
    <3>5. req_id_to_sid[batch[k]] = t /\ batch[k] \in Reqs
      BY <1>1, <1>2, <3>1, <3>4
    <3>6. seq_params[t] = batch[k]
      BY <3>4, <3>5 DEF RInv, Tables, IdsLinked
    <3> QED BY <3>2, <3>6
  <2>2. CASE ~ \E k \in 1 .. Len(batch) : sids'[k] = t
    BY <1>0, <2>2
  <2> QED BY <2>1, <2>2
<1>4. /\ \A r \in Rows : rb'[r] \in {rb[r], EmptyRow}
      /\ \A s \in Sids : seq_caches'[s] \in {seq_caches[s], None}
  BY <1>0
<1> QED BY <1>0, <1>3, <1>4, KeptBuffers

LEMMA EnsureRowBuffers ==
    ASSUME RInv, Buffers, EnsureRow
    PROVE  Buffers'
<1>0. phase = "rows" /\ phase' = "rows" /\ cfg' = cfg /\ sids' = sids
  BY DEF EnsureRow, call
<1>1. CASE seqid_to_row[sids[at]] /= None
  <2>1. UNCHANGED <<seq_params, seq_caches, seqid_to_row, rb>>
    BY <1>1 DEF EnsureRow, rowman
  <2> QED BY <1>0, <2>1, QuietBuffers
<1>2. CASE seqid_to_row[sids[at]] = None
  <2> DEFINE sid == sids[at]
             row == Head(free_rows)
             fresh == WritePowParams(EmptyRow, seq_params[sid])
  <2>1. /\ sid \in Sids /\ free_rows /= <<>> /\ row \in Rows
        /\ seqid_to_row' = [seqid_to_row EXCEPT ![sid] = row]
        /\ rb' = [rb EXCEPT ![row] = fresh]
        /\ seq_caches' = [seq_caches EXCEPT ![sid] = NewCache(seq_params[sid])]
        /\ UNCHANGED seq_params
    BY <1>2, EnsureRowTakes
  <2>2. /\ seqid_to_row \in [Sids -> Rows \cup {None}] /\ rb \in [Rows -> Ring]
        /\ seq_caches \in [Sids -> Cache \cup {None}] /\ seq_params[sid] \in Reqs \cup {None}
    BY <2>1 DEF RInv, Types
  <2>3. /\ RowGood(sid, fresh, seq_params[sid]) /\ Closed(fresh) /\ Mirrored(fresh)
        /\ fresh.nonce = None
    BY <2>2, FreshRowGood
  <2>4. \A s \in Sids : seqid_to_row[s] /= row
    <3>1. row = free_rows[1] /\ 1 \in 1 .. Len(free_rows)
      BY <2>1 DEF RInv, Types
    <3>2. row \in RowsInUse
      BY <3>1 DEF RInv, Tables, RowsWithin
    <3> QED BY <3>1, <3>2 DEF RInv, Tables, RowsPartition
  <2>5. HeldRowsGood /\ NoUnaskedNonce /\ CachesGood /\ RowsMirrored
    BY BuffersSplit
  <2> HIDE DEF fresh
  <2>6. HeldRowsGood'
    <3> SUFFICES ASSUME NEW s \in Sids, seqid_to_row'[s] /= None
                 PROVE  /\ RowGood(s, rb'[seqid_to_row'[s]], seq_params'[s])
                        /\ Closed(rb'[seqid_to_row'[s]])
      BY <1>0 DEF HeldRowsGood
    <3>1. CASE s = sid
      BY <3>1, <2>1, <2>2, <2>3
    <3>2. CASE s /= sid
      <4>1. seqid_to_row'[s] = seqid_to_row[s] /\ seqid_to_row[s] \in Rows /\ seqid_to_row[s] /= row
        BY <3>2, <2>1, <2>2, <2>4
      <4>2. rb'[seqid_to_row[s]] = rb[seqid_to_row[s]]
        BY <4>1, <2>1, <2>2
      <4> QED BY <4>1, <4>2, <2>1, <2>5, <1>0 DEF HeldRowsGood
    <3> QED BY <3>1, <3>2
  <2>7. NoUnaskedNonce'
    BY <1>0, <2>1, <2>2, <2>3, <2>5 DEF NoUnaskedNonce, Admits
  <2>8. RowsMirrored'
    BY <1>0, <2>1, <2>2, <2>3, <2>5 DEF RowsMirrored, Mirrored
  <2>9. CachesGood'
    BY <2>1, <2>2, <2>5, NewCacheGood DEF CachesGood
  <2>10. SampledOnce'
    BY <1>0 DEF SampledOnce
  <2> QED BY <2>6, <2>7, <2>8, <2>9, <2>10, BuffersPrimed
<1> QED BY <1>1, <1>2

LEMMA AdmitBuffers ==
    ASSUME RInv, Buffers, NEW found, Admit(found)
    PROVE  Buffers'
<1>0. /\ phase = "admit" /\ phase' = "sample"
      /\ UNCHANGED <<cfg, sids, seqid_to_row, seq_params, seq_caches>>
      /\ BatchSids' = BatchSids
      /\ HeldRowsGood /\ NoUnaskedNonce /\ CachesGood /\ RowsMirrored
  BY BuffersSplit DEF Admit, Goto, call, tables, rowman, BatchSids
<1>1. /\ seqid_to_row \in [Sids -> Rows \cup {None}] /\ rb \in [Rows -> Ring]
      /\ BatchSids \subseteq Sids
  BY DEF RInv, Types, BatchSids
<1>w. \A r \in Rows :
         \/ rb'[r] = rb[r] /\ (Admits => \A s \in Boundary : seqid_to_row[s] /= r)
         \/ /\ Admits
            /\ \E s \in Boundary :
                  /\ seqid_to_row[s] = r
                  /\ \E n \in {None, <<s, rb[r].steps \div W>>} :
                        rb'[r] = WriteAdmissionNonce(rb[r], n)
  BY AdmitWrites
<1>2. ASSUME NEW r \in Rows,
             ~ (rb'[r] = rb[r] /\ (Admits => \A u \in Boundary : seqid_to_row[u] /= r))
      PROVE  /\ Admits
             /\ \E s \in Boundary :
                  /\ seqid_to_row[s] = r /\ s \in BatchSids /\ rb[r].steps % W = 0
                  /\ rb'[r].nonce \in {None, <<s, rb[r].steps \div W>>}
                  /\ rb'[r].nonce_host = (rb'[r].nonce /= None)
                  /\ rb'[r].steps = rb[r].steps /\ rb'[r].steps_host = rb[r].steps_host
                  /\ rb'[r].params = rb[r].params /\ rb'[r].slots = rb[r].slots
  <2>1. Admits
    BY <1>2, <1>w
  <2>2. PICK s \in Boundary :
           /\ seqid_to_row[s] = r
           /\ \E n \in {None, <<s, rb[r].steps \div W>>} : rb'[r] = WriteAdmissionNonce(rb[r], n)
    BY <1>2, <1>w
  <2>3. PICK n \in {None, <<s, rb[r].steps \div W>>} : rb'[r] = WriteAdmissionNonce(rb[r], n)
    BY <2>2
  <2>4. s \in BatchSids /\ s \in Sids /\ rb[r].steps % W = 0
    BY <1>1, <2>2 DEF Boundary, GetPosition
  <2>5. rb[r] \in Ring /\ rb[r].steps \in Nat
    BY <1>1 DEF Ring
  <2>6. rb[r].steps \div W \in Nat
    BY <2>5, SizesAssumption, DivMod
  <2>7. n \in (Sids \X Nat) \cup {None}
    BY <2>4, <2>6
  <2>8. /\ rb'[r].nonce = n /\ rb'[r].nonce_host = (n /= None)
        /\ rb'[r].steps = rb[r].steps /\ rb'[r].steps_host = rb[r].steps_host
        /\ rb'[r].params = rb[r].params /\ rb'[r].slots = rb[r].slots
    BY <2>3, <2>5, <2>7, AdmittedRow
  <2> QED BY <2>1, <2>2, <2>4, <2>8
<1>3. HeldRowsGood'
  <2> SUFFICES ASSUME NEW s \in Sids, seqid_to_row[s] /= None
               PROVE  /\ RowGood(s, rb'[seqid_to_row[s]], seq_params[s])
                      /\ s \in BatchSids => Opening(s, rb'[seqid_to_row[s]])
                      /\ s \notin BatchSids => Closed(rb'[seqid_to_row[s]])
    BY <1>0 DEF HeldRowsGood
  <2> DEFINE r == seqid_to_row[s]
  <2>1. r \in Rows /\ RowGood(s, rb[r], seq_params[s]) /\ Closed(rb[r])
    BY <1>0, <1>1 DEF HeldRowsGood
  <2>2. CASE rb'[r] = rb[r] /\ (Admits => \A u \in Boundary : seqid_to_row[u] /= r)
    <3>1. s \in BatchSids => Opening(s, rb[r])
      <4> SUFFICES ASSUME s \in BatchSids, rb[r].steps % W = 0
                   PROVE  rb[r].nonce = None
        BY DEF Opening
      <4>1. CASE Admits
        <5>1. s \in Boundary
          BY DEF Boundary, GetPosition
        <5> QED BY <5>1, <4>1, <2>2
      <4>2. CASE ~ Admits
        BY <4>2, <1>0, <2>1 DEF NoUnaskedNonce
      <4> QED BY <4>1, <4>2
    <3> QED BY <2>1, <2>2, <3>1
  <2>3. CASE ~ (rb'[r] = rb[r] /\ (Admits => \A u \in Boundary : seqid_to_row[u] /= r))
    <3>1. PICK t \in Boundary :
             /\ seqid_to_row[t] = r /\ t \in BatchSids /\ rb[r].steps % W = 0
             /\ rb'[r].nonce \in {None, <<t, rb[r].steps \div W>>}
             /\ rb'[r].steps = rb[r].steps
             /\ rb'[r].params = rb[r].params /\ rb'[r].slots = rb[r].slots
      BY <1>2, <2>1, <2>3
    <3>2. t = s
      BY <1>1, <3>1 DEF RInv, Tables, RowsPartition
    <3>3. Opening(s, rb'[r]) /\ s \in BatchSids
      BY <3>1, <3>2 DEF Opening
    <3>4. RowGood(s, rb'[r], seq_params[s])
      BY <2>1, <3>1 DEF RowGood, Pure, Admitted
    <3> QED BY <3>3, <3>4
  <2> QED BY <2>2, <2>3
<1>4. NoUnaskedNonce'
  BY <1>0, <1>2 DEF NoUnaskedNonce, Admits
<1>5. RowsMirrored'
  <2> SUFFICES ASSUME NEW r \in Rows PROVE Mirrored(rb[r])'
    BY DEF RowsMirrored
  <2>1. Mirrored(rb[r])
    BY <1>0 DEF RowsMirrored
  <2>2. CASE rb'[r] = rb[r]
    BY <2>1, <2>2, <1>0 DEF Mirrored
  <2>3. CASE rb'[r] /= rb[r]
    BY <1>0, <1>2, <2>1, <2>3 DEF Mirrored
  <2> QED BY <2>2, <2>3
<1>6. CachesGood' /\ SampledOnce'
  BY <1>0 DEF CachesGood, SampledOnce
<1> QED BY <1>3, <1>4, <1>5, <1>6, BuffersPrimed

LEMMA SampleBuffers ==
    ASSUME RInv, Buffers, NEW ended, Sample(ended)
    PROVE  Buffers'
<1>0. /\ phase = "sample" /\ phase' = "eos"
      /\ UNCHANGED <<cfg, sids, seqid_to_row, seq_params>>
      /\ HeldRowsGood /\ NoUnaskedNonce /\ CachesGood /\ RowsMirrored
      /\ seq_caches' = [s \in Sids |->
           IF s \in BatchSids /\ seq_caches[s] /= None
           THEN UpdateCache(seq_caches[s],
                    Recorded(batch[CHOOSE k \in 1 .. Len(sids) : sids[k] = s]))
           ELSE seq_caches[s]]
  BY BuffersSplit DEF Sample, Goto, rowman
<1>1. /\ seqid_to_row \in [Sids -> Rows \cup {None}] /\ rb \in [Rows -> Ring]
      /\ seq_caches \in [Sids -> Cache \cup {None}]
      /\ BatchSids \subseteq Sids
  BY DEF RInv, Types, BatchSids
<1>2. ASSUME NEW k \in 1 .. Len(sids)
      PROVE  LET ring == rb[seqid_to_row[sids[k]]]
                 slot == Hashed(k, seqid_to_row[sids[k]])
                 new == rb'[seqid_to_row[sids[k]]]
             IN  /\ sids[k] \in Sids /\ seqid_to_row[sids[k]] \in Rows
                 /\ ring \in Ring /\ new \in Ring /\ slot \in Slot
                 /\ slot.sid = sids[k] /\ slot.idx = ring.steps % W /\ slot.params = ring.params
                 /\ slot.nonce = ring.nonce
                 /\ new.steps = ring.steps + 1 /\ new.params = ring.params
                 /\ new.nonce = ring.nonce /\ new.nonce_host = ring.nonce_host
                 /\ cfg.fastpath => new.steps_host = ring.steps_host + 1
                 /\ new.slots[ring.steps % W] = slot
                 /\ \A j \in 0 .. W - 1 : j /= ring.steps % W => new.slots[j] = ring.slots[j]
  <2> DEFINE r == seqid_to_row[sids[k]]
             slot == Hashed(k, r)
  <2>1. /\ sids[k] \in Sids /\ r \in Rows /\ slot \in Slot
        /\ rb'[r] = IncrementSteps(WriteSlot(rb[r], slot))
    BY SampleWrites
  <2>2. rb[r] \in Ring /\ Mirrored(rb[r])
    BY <1>0, <1>1, <2>1 DEF RowsMirrored
  <2>3. slot.sid = sids[k] /\ slot.idx = rb[r].steps % W /\ slot.params = rb[r].params
        /\ slot.nonce = RowNonce(r)
    BY DEF Hashed, GetPosition
  <2>4. RowNonce(r) = rb[r].nonce
    BY <2>2 DEF RowNonce, Mirrored
  <2> HIDE DEF slot
  <2>5. /\ rb'[r] \in Ring
        /\ rb'[r].steps = rb[r].steps + 1
        /\ cfg.fastpath => rb'[r].steps_host = rb[r].steps_host + 1
        /\ rb'[r].params = rb[r].params
        /\ rb'[r].nonce = rb[r].nonce /\ rb'[r].nonce_host = rb[r].nonce_host
        /\ rb'[r].slots[rb[r].steps % W] = slot
        /\ \A j \in 0 .. W - 1 : j /= rb[r].steps % W => rb'[r].slots[j] = rb[r].slots[j]
    BY <2>1, <2>2, SampledRow
  <2> QED BY <2>1, <2>2, <2>3, <2>4, <2>5 DEF slot
<1>3. ASSUME NEW r \in Rows, \A k \in 1 .. Len(sids) : seqid_to_row[sids[k]] /= r
      PROVE  rb'[r] = rb[r]
  BY <1>3, SampleWrites
<1>4. HeldRowsGood'
  <2> SUFFICES ASSUME NEW s \in Sids, seqid_to_row[s] /= None
               PROVE  /\ RowGood(s, rb'[seqid_to_row[s]], seq_params[s])
                      /\ Closed(rb'[seqid_to_row[s]])
    BY <1>0 DEF HeldRowsGood
  <2> DEFINE r == seqid_to_row[s]
  <2>1. r \in Rows /\ RowGood(s, rb[r], seq_params[s])
    BY <1>0, <1>1 DEF HeldRowsGood
  <2>2. CASE s \in BatchSids
    <3>1. PICK k \in 1 .. Len(sids) : sids[k] = s
      BY <2>2 DEF BatchSids
    <3>2. Opening(s, rb[r])
      BY <1>0, <2>2 DEF HeldRowsGood
    <3> DEFINE slot == Hashed(k, r)
    <3>3. /\ rb[r] \in Ring /\ rb'[r] \in Ring /\ slot \in Slot
          /\ slot.sid = s /\ slot.idx = rb[r].steps % W /\ slot.params = rb[r].params
          /\ slot.nonce = rb[r].nonce
          /\ rb'[r].steps = rb[r].steps + 1 /\ rb'[r].params = rb[r].params
          /\ rb'[r].nonce = rb[r].nonce
          /\ rb'[r].slots[rb[r].steps % W] = slot
          /\ \A j \in 0 .. W - 1 : j /= rb[r].steps % W => rb'[r].slots[j] = rb[r].slots[j]
      BY <1>2, <3>1
    <3> HIDE DEF slot, r
    <3> QED BY <2>1, <3>2, <3>3, SampledRowGood DEF r
  <2>3. CASE s \notin BatchSids
    <3>1. ASSUME NEW k \in 1 .. Len(sids) PROVE seqid_to_row[sids[k]] /= r
      <4>1. sids[k] \in BatchSids
        BY DEF BatchSids
      <4> QED BY <4>1, <1>1, <2>3 DEF RInv, Tables, RowsPartition
    <3>2. rb'[r] = rb[r]
      BY <1>3, <2>1, <3>1
    <3> QED BY <1>0, <2>1, <2>3, <3>2 DEF HeldRowsGood
  <2> QED BY <2>2, <2>3
<1>5. ASSUME NEW r \in Rows
      PROVE  /\ rb'[r].nonce = rb[r].nonce /\ rb'[r].nonce_host = rb[r].nonce_host
             /\ cfg.fastpath => rb'[r].steps_host = rb'[r].steps
  <2>0. Mirrored(rb[r])
    BY <1>0 DEF RowsMirrored
  <2>1. CASE \E k \in 1 .. Len(sids) : seqid_to_row[sids[k]] = r
    <3>1. PICK k \in 1 .. Len(sids) : seqid_to_row[sids[k]] = r
      BY <2>1
    <3> QED BY <3>1, <2>0, <1>2 DEF Mirrored
  <2>2. CASE ~ \E k \in 1 .. Len(sids) : seqid_to_row[sids[k]] = r
    BY <2>0, <2>2, <1>3 DEF Mirrored
  <2> QED BY <2>1, <2>2
<1>6. NoUnaskedNonce' /\ RowsMirrored'
  BY <1>0, <1>5 DEF NoUnaskedNonce, Admits, RowsMirrored, Mirrored
<1>7. SampledOnce'
  <2> SUFFICES ASSUME NEW k \in 1 .. Len(sids) PROVE rb'[seqid_to_row[sids[k]]].steps > 0
    BY <1>0 DEF SampledOnce
  <2>1. rb[seqid_to_row[sids[k]]].steps \in Nat
    BY <1>2 DEF Ring
  <2> QED BY <1>2, <2>1
<1>8. CachesGood'
  <2> SUFFICES ASSUME NEW s \in Sids, seq_caches'[s] /= None
               PROVE  TailOfArchive(seq_caches'[s])
    BY DEF CachesGood
  <2>1. CASE s \in BatchSids /\ seq_caches[s] /= None
    <3> DEFINE k == CHOOSE k \in 1 .. Len(sids) : sids[k] = s
    <3>1. k \in 1 .. Len(sids)
      BY <2>1 DEF BatchSids
    <3>2. seq_caches'[s] = UpdateCache(seq_caches[s], Recorded(batch[k]))
      BY <1>0, <2>1
    <3> HIDE DEF k
    <3>3. batch[k] \in Reqs
      BY <1>0, <3>1 DEF RInv, Types, Calls, SidsFit
    <3>4. Recorded(batch[k]) \in Int
      BY <1>2, <3>1, <3>3, HashedIsSlot DEF RInv
    <3>5. seq_caches[s] \in Cache /\ TailOfArchive(seq_caches[s])
      BY <1>0, <1>1, <2>1 DEF CachesGood
    <3> QED BY <3>2, <3>4, <3>5, UpdateCacheGood
  <2>2. CASE ~ (s \in BatchSids /\ seq_caches[s] /= None)
    BY <1>0, <2>2 DEF CachesGood
  <2> QED BY <2>1, <2>2
<1> QED BY <1>4, <1>6, <1>7, <1>8, BuffersPrimed

LEMMA BuffersStep == RInv /\ Buffers /\ [Next]_vars => Buffers'
<1> SUFFICES ASSUME RInv, Buffers, [Next]_vars
             PROVE  Buffers'
  OBVIOUS
<1>0. /\ sids \in Seq(Sids) /\ at \in Nat \ {0} /\ stale \subseteq Sids
  BY DEF RInv, Types
<1>1. ASSUME NEW b \in Batches, Schedule(b) PROVE Buffers'
  <2>1. /\ UNCHANGED <<seq_params, seq_caches, seqid_to_row, rb, cfg>>
        /\ phase = "idle" /\ phase' = "register"
    BY <1>1 DEF Schedule, tables, rowman, Goto
  <2> QED BY <2>1, QuietBuffers
<1>2. ASSUME NEW b \in SUBSET Reqs, PlainStep(b) PROVE Buffers'
  <2>1. /\ UNCHANGED <<seq_params, seq_caches, seqid_to_row, rb, cfg>>
        /\ phase = "idle" /\ phase' = "idle"
    BY <1>2 DEF PlainStep, tables, rowman
  <2> QED BY <2>1, QuietBuffers
<1>3. CASE TimePasses
  <2>1. /\ UNCHANGED <<seq_params, seq_caches, seqid_to_row, rb, cfg>>
        /\ phase = "idle" /\ phase' = "idle"
    BY <1>3 DEF TimePasses, rowman
  <2> QED BY <2>1, QuietBuffers
<1>4. CASE Register
  BY <1>4, RegisterBuffers
<1>5. CASE PreEvict
  <2> DEFINE victims == Holders \ BatchSids
  <2>0. phase = "evict" /\ UNCHANGED <<cfg, sids, next_sid>>
    BY <1>5 DEF PreEvict, call
  <2>1. CASE Need > Len(free_rows) /\ victims /= {}
    <3>1. FreeSequence(Oldest(victims)) /\ UNCHANGED phase
      BY <1>5, <2>1 DEF PreEvict
    <3>2. Oldest(victims) \in Sids
      BY <2>1, OldestIsHolder, TypesSplit DEF Holders, RInv
    <3> QED BY <2>0, <3>1, <3>2, FreedBuffers
  <2>2. CASE ~ (Need > Len(free_rows) /\ victims /= {})
    <3>1. UNCHANGED <<seq_params, seq_caches, seqid_to_row, rb>> /\ phase' = "rows"
      BY <1>5, <2>2 DEF PreEvict, rowman, Goto
    <3> QED BY <2>0, <3>1, QuietBuffers
  <2> QED BY <2>1, <2>2
<1>6. CASE EnsureRow
  BY <1>6, EnsureRowBuffers
<1>7. CASE RowsReady
  <2>1. /\ UNCHANGED <<seq_params, seq_caches, seqid_to_row, rb, cfg>>
        /\ phase = "rows" /\ phase' = "admit"
    BY <1>7 DEF RowsReady, tables, rowman, Goto
  <2> QED BY <2>1, QuietBuffers
<1>8. ASSUME NEW found \in SUBSET Sids, Admit(found) PROVE Buffers'
  BY <1>8, AdmitBuffers
<1>9. ASSUME NEW ended \in SUBSET Sids, Sample(ended) PROVE Buffers'
  BY <1>9, SampleBuffers
<1>10. CASE CheckEos
  <2>1. phase = "eos" /\ UNCHANGED <<cfg, phase, sids, next_sid>> /\ at <= Len(sids)
    BY <1>10 DEF CheckEos, call
  <2>2. CASE sids[at] \in eos
    <3>1. FreeSequence(sids[at]) /\ sids[at] \in Sids
      BY <1>0, <1>10, <2>1, <2>2 DEF CheckEos
    <3> QED BY <2>1, <3>1, FreedBuffers
  <2>3. CASE sids[at] \notin eos
    <3>1. UNCHANGED <<seq_params, seq_caches, seqid_to_row, rb>>
      BY <1>10, <2>3 DEF CheckEos, rowman
    <3> QED BY <2>1, <3>1, QuietBuffers
  <2> QED BY <2>2, <2>3
<1>11. CASE EosDone
  <2>1. /\ UNCHANGED <<seq_params, seq_caches, seqid_to_row, rb, cfg, sids>>
        /\ phase = "eos" /\ phase' = "pow"
    BY <1>11 DEF EosDone, tables, rowman, Goto, call
  <2> QED BY <2>1, QuietBuffers
<1>12. ASSUME NEW tier \in 0 .. 2, CheckPow(tier) PROVE Buffers'
  <2>1. /\ UNCHANGED <<seq_params, seq_caches, seqid_to_row, rb, cfg, sids>>
        /\ phase = "pow" /\ phase' = "pow"
    BY <1>12 DEF CheckPow, tables, rowman, call
  <2> QED BY <2>1, QuietBuffers
<1>13. CASE PowDone
  <2>1. /\ UNCHANGED <<seq_params, seq_caches, seqid_to_row, rb, cfg, sids>>
        /\ phase = "pow" /\ phase' = "cleanup"
    BY <1>13 DEF PowDone, tables, rowman, Goto, call
  <2> QED BY <2>1, QuietBuffers
<1>14. CASE Cleanup
  <2>1. phase = "cleanup" /\ UNCHANGED <<cfg, next_sid>>
    BY <1>14 DEF Cleanup
  <2>2. CASE stale /= {}
    <3> DEFINE s == CHOOSE s \in stale : \A t \in stale : s <= t
    <3>1. s \in Sids
      <4>1. stale \subseteq Nat
        BY <1>0, SidsFinite
      <4>2. \E x \in stale : \A t \in stale : x <= t
        BY <2>2, <4>1, LeastExists
      <4> QED BY <1>0, <4>2
    <3>2. FreeSequence(s) /\ UNCHANGED <<phase, sids>>
      BY <1>14, <2>2 DEF Cleanup, call
    <3> HIDE DEF s
    <3> QED BY <2>1, <3>1, <3>2, FreedBuffers
  <2>3. CASE stale = {}
    <3>1. UNCHANGED <<seq_params, seq_caches, seqid_to_row, rb>> /\ phase' = "idle"
      BY <1>14, <2>3 DEF Cleanup, Goto, rowman
    <3> QED BY <2>1, <3>1, QuietBuffers
  <2> QED BY <2>2, <2>3
<1>15. CASE UNCHANGED vars
  <2>1. HeldRowsGood /\ NoUnaskedNonce /\ SampledOnce /\ CachesGood /\ RowsMirrored
    BY BuffersSplit
  <2>2. HeldRowsGood' /\ NoUnaskedNonce' /\ SampledOnce' /\ CachesGood' /\ RowsMirrored'
    BY <1>15, <2>1 DEF vars, HeldRowsGood, BatchSids, NoUnaskedNonce, Admits, SampledOnce,
                       CachesGood, RowsMirrored, Mirrored
  <2> QED BY <2>2, BuffersPrimed
<1> QED BY <1>1, <1>2, <1>3, <1>4, <1>5, <1>6, <1>7, <1>8, <1>9, <1>10, <1>11, <1>12, <1>13,
           <1>14, <1>15 DEF Next

(* RingBuffers: a window holds only what was sampled for the sequence that *)
(* holds its row, under that sequence's parameters, for every window size. *)
THEOREM WindowsPure == Spec => []WindowsArePure
<1>1. Buffers => WindowsArePure
  BY DEF Buffers
<1> QED BY <1>1, RowsInit, RowsStep, BuffersInit, BuffersStep, PTL DEF Spec

(* ensure_admission_for_rows: a nonce enters the hashes of one window of   *)
(* the sequence it was ground for, and of no other.                        *)
THEOREM NoncesAdmitOneWindow == Spec => []NonceAdmitsOneWindow
<1>1. Buffers => NonceAdmitsOneWindow
  BY DEF Buffers
<1> QED BY <1>1, RowsInit, RowsStep, BuffersInit, BuffersStep, PTL DEF Spec

(* The host mirrors and the device agree, and the context that is hashed   *)
(* is the tail of the archive that a proof states, for every window size   *)
(* and prompt length.                                                      *)
THEOREM CopiesAlwaysAgree == Spec => []CopiesAgree
<1>1. Buffers => CopiesAgree
  BY DEF Buffers
<1> QED BY <1>1, RowsInit, RowsStep, BuffersInit, BuffersStep, PTL DEF Spec

-----------------------------------------------------------------------------
(* The proofs handed out.                                                  *)

(* What one turn of check_pow_solutions adds. *)
LEMMA CheckPowEmits ==
    ASSUME NEW tier, CheckPow(tier)
    PROVE  LET sid == sids[at]
               row == CheckRow(at)
               req == seq_params[sid]
           IN  /\ \/ out' = out
                  \/ /\ row /= None /\ AtBoundary(row) /\ req \in PowReqs
                     /\ \E to : /\ out' = out \cup {Proof(sid, row, t) : t \in to}
                                /\ req \in AuditReqs => to = {"audit"}
               /\ row /= None /\ AtBoundary(row) /\ req \in AuditReqs
                     => out' = out \cup {Proof(sid, row, "audit")}
<1> DEFINE sid == sids[at]
           row == CheckRow(at)
           req == seq_params[sid]
           emits(to) == out' = out \cup {Proof(sid, row, t) : t \in to}
<1>1. CASE row = None \/ ~ AtBoundary(row)
  BY <1>1 DEF CheckPow
<1>2. CASE row /= None /\ AtBoundary(row)
  <2>1. ProcessSolution(sid, row, tier)
    BY <1>2 DEF CheckPow, CheckSid
  <2>2. \A x, y : Route(TRUE, x, y) = {"audit"}
    BY DEF Route
  <2>3. req \in AuditReqs => req \in PowReqs
    BY SetsAssumption
  <2>4. \/ out' = out /\ req \notin AuditReqs
        \/ req \in PowReqs /\ \E to : emits(to) /\ (req \in AuditReqs => to = {"audit"})
    <3>1. CASE cfg.processor = "cpp"
      <4>1. ProcessSolutionCpp(sid, row, tier)
        BY <2>1, <3>1 DEF ProcessSolution
      <4> DEFINE a == req \in AuditReqs
                 is_solution == check_solution(tier)
                 is_share == check_share_solution(req, tier)
                 to == Route(a, ~ a /\ is_solution, ~ a /\ is_share)
      <4>2. CASE req \notin PowReqs \/ ~ (is_solution \/ is_share \/ a \/ cfg.proxy)
        BY <4>1, <4>2, <2>3 DEF ProcessSolutionCpp
      <4>3. CASE ~ (req \notin PowReqs \/ ~ (is_solution \/ is_share \/ a \/ cfg.proxy))
        <5>1. req \in PowReqs /\ emits(to)
          BY <4>1, <4>3 DEF ProcessSolutionCpp, Emit
        <5>2. req \in AuditReqs => to = {"audit"}
          BY DEF Route
        <5> HIDE DEF to
        <5> QED BY <5>1, <5>2
      <4> QED BY <4>2, <4>3
    <3>2. CASE cfg.processor /= "cpp"
      <4>1. ProcessSolutionPython(sid, row, tier)
        BY <2>1, <3>2 DEF ProcessSolution
      <4> DEFINE to == Route(req \in AuditReqs, check_solution(tier), check_share_solution(req, tier))
      <4>0. req \in AuditReqs => to = {"audit"}
        BY DEF Route
      <4>2. CASE req \notin PowReqs \/ to = {}
        <5>1. out' = out
          BY <4>1, <4>2 DEF ProcessSolutionPython
        <5> HIDE DEF to
        <5> QED BY <4>0, <4>2, <5>1, <2>3
      <4>3. CASE ~ (req \notin PowReqs \/ to = {})
        <5>1. req \in PowReqs /\ emits(to)
          BY <4>1, <4>3 DEF ProcessSolutionPython, Emit
        <5> HIDE DEF to
        <5> QED BY <5>1, <4>0
      <4> QED BY <4>2, <4>3
    <3> QED BY <3>1, <3>2
  <2> QED BY <1>2, <2>4
<1> QED BY <1>1, <1>2

(* A proof taken from a finished window of the sequence it names. *)
LEMMA OwnProof ==
    ASSUME RInv, Buffers, phase = "pow", NEW s \in Sids, seqid_to_row[s] /= None,
           AtBoundary(seqid_to_row[s]), seq_params[s] \in PowReqs, NEW to
    PROVE  LET p == Proof(s, seqid_to_row[s], to)
           IN  ProofIsOwn(p) /\ (cfg.version >= 3 => p.completion = p.params)
<1> DEFINE row == seqid_to_row[s]
           ring == rb[row]
           p == Proof(s, row, to)
<1>1. row \in Rows /\ ring \in Ring /\ W \in Nat \ {0}
  BY SizesAssumption DEF RInv, Types
<1>2. /\ RowGood(s, ring, seq_params[s]) /\ Closed(ring) /\ Mirrored(ring)
  BY <1>1, BuffersSplit DEF HeldRowsGood, RowsMirrored
<1>3. ring.steps \in Nat /\ ring.steps > 0 /\ ring.steps % W = 0
  <2>1. cfg.fastpath => ring.steps_host = ring.steps
    BY <1>2 DEF Mirrored
  <2>2. ring.steps \in Nat
    BY <1>1 DEF Ring
  <2> QED BY <2>1, <2>2 DEF AtBoundary
<1>4. ring.steps >= W
  BY <1>1, <1>3
<1>5. \A j \in 0 .. W - 1 : /\ ring.slots[j].sid = s /\ ring.slots[j].idx = j
                            /\ ring.slots[j].params = ring.params
                            /\ ring.slots[j].nonce = ring.nonce
  BY <1>2, <1>3, <1>4 DEF RowGood, Pure, Closed
<1>6. ring.params = seq_params[s] /\ RowNonce(row) = ring.nonce
  BY <1>2 DEF RowGood, Snapshot, RowNonce, Mirrored
<1>7. \A j \in 1 .. W : GetWindow(row)[j] = ring.slots[j - 1] /\ j - 1 \in 0 .. W - 1
  <2> SUFFICES ASSUME NEW j \in 1 .. W
               PROVE  GetWindow(row)[j] = ring.slots[j - 1] /\ j - 1 \in 0 .. W - 1
    OBVIOUS
  <2>1. GetWindow(row)[j] = ring.slots[(GetPosition(row) + j - 1) % W]
    BY DEF GetWindow
  <2>2. GetPosition(row) + j - 1 = j - 1 /\ j - 1 \in 0 .. W - 1
    BY <1>1, <1>3 DEF GetPosition
  <2>3. (j - 1) % W = j - 1
    BY <1>1, <2>2
  <2> QED BY <2>1, <2>2, <2>3
<1>8. /\ p.params = seq_params[s] /\ p.nonce = RowNonce(row) /\ p.sid = s
      /\ p.window = GetWindow(row) /\ p.completion = Completion(seq_params[s])
  BY DEF Proof
<1> HIDE DEF p, ring, row
<1>9. ProofIsOwn(p)
  BY <1>5, <1>6, <1>7, <1>8 DEF ProofIsOwn
<1>10. cfg.version >= 3 => p.completion = p.params
  BY <1>8 DEF Completion
<1> QED BY <1>9, <1>10 DEF p, row

(* As long as no member of the batch before it has ended, a sequence with  *)
(* a row is walked at its own place on the default path too.               *)
LEMMA UnshiftedRow ==
    ASSUME Types, phase = "pow", RowlessEnded, NEW k \in 1 .. Len(sids),
           seqid_to_row[sids[k]] /= None, ~ Shifted(sids[k])
    PROVE  CheckRow(k) = seqid_to_row[sids[k]]
<1>1. CASE cfg.fastpath
  BY <1>1 DEF CheckRow
<1>2. CASE ~ cfg.fastpath
  <2> DEFINE held(i) == {j \in 1 .. i : seqid_to_row[sids[j]] /= None}
  <2>0. Len(sids) \in Nat /\ k \in Nat /\ k <= Len(sids)
    BY DEF Types
  <2>1. \A j \in 1 .. k : seqid_to_row[sids[j]] /= None
    <3> SUFFICES ASSUME NEW j \in 1 .. k, j < k
                 PROVE  seqid_to_row[sids[j]] /= None
      BY <2>0
    <3>1. j \in 1 .. Len(sids)
      BY <2>0
    <3>2. sids[j] \notin eos
      BY <1>2, <3>1 DEF Shifted
    <3> QED BY <3>1, <3>2 DEF RowlessEnded
  <2>2. \A i \in 1 .. k : HeldUpTo(i) = i
    <3> SUFFICES ASSUME NEW i \in 1 .. k
                 PROVE  HeldUpTo(i) = i
      OBVIOUS
    <3>1. held(i) = 1 .. i /\ i \in Nat
      BY <2>0, <2>1
    <3> HIDE DEF held
    <3>2. Cardinality(held(i)) = i
      BY <3>1, CountTo
    <3> QED BY <3>2 DEF HeldUpTo, held
  <2>3. ASSUME NEW j \in 1 .. Len(sids), seqid_to_row[sids[j]] /= None, j > k
        PROVE  HeldUpTo(j) > k
    <3>1. IsFiniteSet(held(j)) /\ Cardinality(held(j)) \in Nat
      <4>1. j \in Nat /\ held(j) \subseteq 1 .. j
        BY <2>0
      <4> HIDE DEF held
      <4> QED BY <4>1, CountTo, FS_Subset, FS_CardinalityType
    <3>2. 1 .. k \subseteq held(j) \ {j} /\ j \in held(j)
      BY <2>0, <2>1, <2>3
    <3> HIDE DEF held
    <3>3. IsFiniteSet(held(j) \ {j}) /\ Cardinality(held(j) \ {j}) = Cardinality(held(j)) - 1
      BY <3>1, <3>2, FS_RemoveElement
    <3>4. Cardinality(1 .. k) = k
      BY <2>0, CountTo
    <3>5. k <= Cardinality(held(j) \ {j})
      BY <3>2, <3>3, <3>4, FS_Subset
    <3>6. Cardinality(held(j)) > k
      BY <2>0, <3>1, <3>3, <3>5
    <3> QED BY <3>6 DEF HeldUpTo, held
  <2>4. \A j \in 1 .. Len(sids) :
           seqid_to_row[sids[j]] /= None /\ HeldUpTo(j) = k <=> j = k
    <3> SUFFICES ASSUME NEW j \in 1 .. Len(sids)
                 PROVE  seqid_to_row[sids[j]] /= None /\ HeldUpTo(j) = k <=> j = k
      OBVIOUS
    <3>1. CASE j <= k
      <4>1. j \in 1 .. k
        BY <2>0, <3>1
      <4> QED BY <2>1, <2>2, <4>1
    <3>2. CASE j > k
      BY <2>0, <2>3, <3>2
    <3> QED BY <2>0, <3>1, <3>2
  <2>5. KthHeld(k) = k
    BY <2>4 DEF KthHeld
  <2> QED BY <1>2, <2>5 DEF CheckRow
<1> QED BY <1>1, <1>2

(* The walk never goes past the batch. *)
LEMMA WalkIsShort ==
    ASSUME Types
    PROVE  Walked <= Len(sids) /\ Walked \in Nat /\ Len(sids) \in Nat
<1>0. Len(sids) \in Nat
  BY DEF Types
<1> DEFINE held == {j \in 1 .. Len(sids) : seqid_to_row[sids[j]] /= None}
<1>1. held \subseteq 1 .. Len(sids)
  OBVIOUS
<1>2. IsFiniteSet(1 .. Len(sids)) /\ Cardinality(1 .. Len(sids)) = Len(sids)
  BY <1>0, CountTo
<1> HIDE DEF held
<1>3. Cardinality(held) <= Len(sids) /\ Cardinality(held) \in Nat
  BY <1>0, <1>1, <1>2, FS_Subset, FS_CardinalityType
<1> QED BY <1>0, <1>3 DEF Walked, HeldUpTo, held

LEMMA ProofsInit == Init => Proofs
BY DEF Init, Proofs, FastpathProofsAreOwn, AuditIsKept, AuditNeverMines, AuditedWindowsProved, AuditedSoFar,
       OutEmpty, RowlessEnded

(* A step before the walk. *)
LEMMA QuietProofs ==
    ASSUME Proofs, UNCHANGED out, phase \notin {"pow", "cleanup"},
           phase' \notin {"eos", "pow", "cleanup"}
    PROVE  Proofs'
<1>1. out' = {}
  BY DEF Proofs, OutEmpty
<1>2. FastpathProofsAreOwn' /\ AuditNeverMines'
  BY <1>1 DEF FastpathProofsAreOwn, AuditNeverMines
<1>3. AuditedWindowsProved' /\ AuditedSoFar' /\ OutEmpty' /\ RowlessEnded'
  BY <1>1 DEF AuditedWindowsProved, AuditedSoFar, OutEmpty, RowlessEnded
<1> QED BY <1>2, <1>3 DEF Proofs, AuditIsKept

LEMMA CheckPowProofs ==
    ASSUME RInv, Buffers, Proofs, NEW tier, CheckPow(tier)
    PROVE  Proofs'
<1> DEFINE sid == sids[at]
           row == CheckRow(at)
           req == seq_params[sid]
<1>0. /\ phase = "pow" /\ phase' = "pow" /\ at' = at + 1 /\ at <= Walked /\ at \in Nat \ {0}
      /\ UNCHANGED <<cfg, sids, eos, seqid_to_row, seq_params, rb>>
      /\ sids \in Seq(Sids) /\ Len(sids) \in Nat
  BY DEF CheckPow, call, tables, rowman, RInv, Types
<1>a. at \in 1 .. Len(sids) /\ sid \in Sids
  BY <1>0, WalkIsShort DEF RInv
<1>1. /\ \/ out' = out
         \/ /\ row /= None /\ AtBoundary(row) /\ req \in PowReqs
            /\ \E to : /\ out' = out \cup {Proof(sid, row, t) : t \in to}
                       /\ req \in AuditReqs => to = {"audit"}
      /\ row /= None /\ AtBoundary(row) /\ req \in AuditReqs
            => out' = out \cup {Proof(sid, row, "audit")}
  BY CheckPowEmits
<1>2. (seqid_to_row[sid] /= None /\ ~ Shifted(sid)) \/ cfg.fastpath => row = seqid_to_row[sid]
  <2>1. cfg.fastpath => row = seqid_to_row[sid]
    BY DEF CheckRow
  <2>2. seqid_to_row[sid] /= None /\ ~ Shifted(sid) => row = seqid_to_row[sid]
    BY <1>0, <1>a, UnshiftedRow DEF RInv, Proofs
  <2> QED BY <2>1, <2>2
<1>3. out \subseteq out'
  BY <1>1
<1>4. ASSUME NEW p \in out', p \notin out
      PROVE  /\ p.params \in AuditReqs => p.to = "audit"
             /\ ~ Shifted(p.sid) => \A j \in 1 .. W : p.window[j].params = p.params
             /\ cfg.fastpath => ProofIsOwn(p) /\ (cfg.version >= 3 => p.completion = p.params)
  <2>1. /\ row /= None /\ AtBoundary(row) /\ req \in PowReqs
        /\ \E to : /\ out' = out \cup {Proof(sid, row, t) : t \in to}
                   /\ req \in AuditReqs => to = {"audit"}
    BY <1>1, <1>4
  <2>2. PICK to : /\ out' = out \cup {Proof(sid, row, t) : t \in to}
                  /\ req \in AuditReqs => to = {"audit"}
    BY <2>1
  <2>3. PICK t \in to : p = Proof(sid, row, t)
    BY <1>4, <2>2
  <2>4. p.params = req /\ p.to = t /\ p.sid = sid
    BY <2>3 DEF Proof
  <2>5. p.params \in AuditReqs => p.to = "audit"
    BY <2>2, <2>3, <2>4
  <2>6. seqid_to_row[sid] /= None \/ cfg.fastpath
    <3>1. req /= None
      BY <2>1, SetsAssumption, NoneIsNothing
    <3> QED BY <1>0, <1>a, <3>1 DEF Proofs, RowlessEnded
  <2>7. ~ Shifted(sid) \/ cfg.fastpath
           => ProofIsOwn(p) /\ (cfg.version >= 3 => p.completion = p.params)
    <3> SUFFICES ASSUME ~ Shifted(sid) \/ cfg.fastpath
                 PROVE  ProofIsOwn(p) /\ (cfg.version >= 3 => p.completion = p.params)
      OBVIOUS
    <3>1. row = seqid_to_row[sid]
      BY <1>2, <2>6
    <3> HIDE DEF sid, row
    <3>2. seqid_to_row[sid] /= None /\ AtBoundary(seqid_to_row[sid]) /\ seq_params[sid] \in PowReqs
      BY <2>1, <3>1
    <3> QED BY <1>0, <1>a, <2>3, <3>1, <3>2, OwnProof
  <2>8. ~ Shifted(p.sid) => \A j \in 1 .. W : p.window[j].params = p.params
    BY <2>4, <2>7 DEF ProofIsOwn
  <2> QED BY <2>5, <2>7, <2>8
<1>5. FastpathProofsAreOwn'
  BY <1>0, <1>4 DEF Proofs, FastpathProofsAreOwn, ProofIsOwn
<1>7. AuditNeverMines'
  <2> SUFFICES ASSUME NEW p \in out'
               PROVE  /\ p.params \in AuditReqs => p.to = "audit"
                      /\ (\E j \in 1 .. W : p.window[j].params \in AuditReqs) /\ ~ Shifted(p.sid)
                            => p.to = "audit"
    BY <1>0 DEF AuditNeverMines, Shifted
  <2>1. CASE p \in out
    BY <2>1 DEF Proofs, AuditIsKept, AuditNeverMines
  <2>2. CASE p \notin out
    BY <2>2, <1>4
  <2> QED BY <2>1, <2>2
<1>8. OutEmpty' /\ RowlessEnded'
  BY <1>0 DEF Proofs, OutEmpty, RowlessEnded
<1>6. AuditedSoFar'
  <2> SUFFICES ASSUME cfg.fastpath, NEW k \in 1 .. Len(sids), k < at + 1,
                      seqid_to_row[sids[k]] /= None, seq_params[sids[k]] \in AuditReqs,
                      rb[seqid_to_row[sids[k]]].steps % W = 0
               PROVE  \E p \in out' : p.sid = sids[k]
    BY <1>0 DEF AuditedSoFar
  <2>1. CASE k < at
    BY <1>0, <1>3, <2>1 DEF Proofs, AuditedSoFar
  <2>2. CASE ~ (k < at)
    <3>1. k = at
      BY <1>0, <2>2
    <3>2. row = seqid_to_row[sid] /\ row \in Rows /\ sid = sids[k]
      BY <1>2, <1>a, <3>1 DEF RInv, Types
    <3>3. AtBoundary(row)
      <4>1. rb[row].steps > 0 /\ Mirrored(rb[row])
        BY <1>0, <3>2, BuffersSplit DEF SampledOnce, RowsMirrored
      <4> QED BY <4>1, <3>2 DEF Mirrored, AtBoundary
    <3>4. Proof(sid, row, "audit") \in out'
      BY <1>1, <3>2, <3>3
    <3>5. Proof(sid, row, "audit").sid = sid
      BY DEF Proof
    <3> QED BY <3>2, <3>4, <3>5
  <2> QED BY <2>1, <2>2
<1> QED BY <1>0, <1>5, <1>6, <1>7, <1>8 DEF Proofs, AuditIsKept, AuditedWindowsProved

LEMMA PowDoneProofs ==
    ASSUME RInv, Proofs, PowDone
    PROVE  Proofs'
<1>1. /\ phase = "pow" /\ phase' = "cleanup" /\ at > Walked
      /\ UNCHANGED <<cfg, out, sids, eos, seqid_to_row, seq_params, rb>>
      /\ at \in Nat /\ Len(sids) \in Nat
  BY DEF PowDone, Goto, call, tables, rowman, RInv, Types
<1>2. AuditedWindowsProved'
  <2> SUFFICES ASSUME cfg.fastpath
               PROVE  \A k \in 1 .. Len(sids) :
                        /\ seqid_to_row[sids[k]] /= None /\ seq_params[sids[k]] \in AuditReqs
                        /\ rb[seqid_to_row[sids[k]]].steps % W = 0
                        => \E p \in out : p.sid = sids[k]
    BY <1>1 DEF AuditedWindowsProved
  <2>1. \A k \in 1 .. Len(sids) : k < at
    BY <1>1 DEF Walked
  <2> QED BY <1>1, <2>1 DEF Proofs, AuditedSoFar
<1> QED BY <1>1, <1>2 DEF Proofs, FastpathProofsAreOwn, ProofIsOwn, AuditIsKept, AuditNeverMines, Shifted,
                          AuditedSoFar, OutEmpty, RowlessEnded

LEMMA CleanupProofs ==
    ASSUME RInv, Proofs, Cleanup
    PROVE  Proofs'
<1>0. phase = "cleanup" /\ UNCHANGED <<cfg, next_sid>> /\ stale \subseteq Sids /\ sids \in Seq(Sids)
  BY DEF Cleanup, RInv, Types
<1>1. CASE stale = {}
  <2>1. out' = {} /\ phase' = "idle"
    BY <1>1 DEF Cleanup, Goto
  <2> QED BY <2>1 DEF Proofs, FastpathProofsAreOwn, AuditIsKept, AuditNeverMines, AuditedWindowsProved,
                      AuditedSoFar, OutEmpty, RowlessEnded
<1>2. CASE stale /= {}
  <2> DEFINE s == CHOOSE s \in stale : \A t \in stale : s <= t
  <2>1. s \in Sids
    <3>1. stale \subseteq Nat
      BY <1>0, SidsFinite
    <3>2. \E x \in stale : \A t \in stale : x <= t
      BY <1>2, <3>1, LeastExists
    <3> QED BY <1>0, <3>2
  <2>2. FreeSequence(s) /\ UNCHANGED <<phase, sids, eos, out>>
    BY <1>2 DEF Cleanup, call
  <2> HIDE DEF s
  <2>3. OthersKept
    BY <1>0, <2>1, <2>2, FreeSequenceTables, TypesSplit DEF RInv
  <2>4. \A k \in 1 .. Len(sids) : sids[k] \in Sids
    BY <1>0
  <2>5. AuditedWindowsProved'
    BY <1>0, <2>2, <2>3, <2>4 DEF Proofs, AuditIsKept, AuditedWindowsProved, OthersKept
  <2> QED BY <1>0, <2>2, <2>5 DEF Proofs, FastpathProofsAreOwn, ProofIsOwn, AuditIsKept,
                                  AuditNeverMines, Shifted, AuditedSoFar, OutEmpty, RowlessEnded
<1> QED BY <1>1, <1>2

(* A step to the loop over the ends of sequences. *)
LEMMA EosProofs ==
    ASSUME Proofs, UNCHANGED out, phase \in {"sample", "eos"}, phase' = "eos", RowlessEnded'
    PROVE  Proofs'
<1>1. out' = {}
  BY DEF Proofs, OutEmpty
<1>2. FastpathProofsAreOwn' /\ AuditNeverMines'
  BY <1>1 DEF FastpathProofsAreOwn, AuditNeverMines
<1>3. AuditedWindowsProved' /\ AuditedSoFar' /\ OutEmpty'
  BY <1>1 DEF AuditedWindowsProved, AuditedSoFar, OutEmpty
<1> QED BY <1>2, <1>3 DEF Proofs, AuditIsKept

LEMMA CheckEosRowless ==
    ASSUME RInv, Proofs, CheckEos
    PROVE  RowlessEnded'
<1>0. /\ phase = "eos" /\ at \in 1 .. Len(sids) /\ UNCHANGED <<sids, eos>>
      /\ \A k \in 1 .. Len(sids) : sids[k] \in Sids
      /\ seqid_to_row \in [Sids -> Rows \cup {None}] /\ seq_params \in [Sids -> Reqs \cup {None}]
  BY DEF CheckEos, call, RInv, Types
<1>1. CASE sids[at] \in eos
  <2> DEFINE s == sids[at]
  <2>1. /\ seqid_to_row' = [seqid_to_row EXCEPT ![s] = None]
        /\ seq_params' = [seq_params EXCEPT ![s] = None]
    BY <1>1 DEF CheckEos, FreeSequence
  <2> SUFFICES ASSUME NEW k \in 1 .. Len(sids), seqid_to_row'[sids[k]] = None
               PROVE  sids[k] \in eos /\ seq_params'[sids[k]] = None
    BY <1>0 DEF RowlessEnded
  <2>2. CASE sids[k] = s
    BY <1>0, <1>1, <2>1, <2>2
  <2>3. CASE sids[k] /= s
    <3>1. seqid_to_row[sids[k]] = None /\ seq_params'[sids[k]] = seq_params[sids[k]]
      BY <1>0, <2>1, <2>3
    <3> QED BY <1>0, <3>1 DEF Proofs, RowlessEnded
  <2> QED BY <2>2, <2>3
<1>2. CASE sids[at] \notin eos
  <2>1. UNCHANGED <<seqid_to_row, seq_params>>
    BY <1>2 DEF CheckEos, rowman
  <2> QED BY <1>0, <2>1 DEF Proofs, RowlessEnded
<1> QED BY <1>1, <1>2

LEMMA ProofsStep == RInv /\ Buffers /\ Proofs /\ [Next]_vars => Proofs'
<1> SUFFICES ASSUME RInv, Buffers, Proofs, [Next]_vars
             PROVE  Proofs'
  OBVIOUS
<1>1. ASSUME NEW b \in Batches, Schedule(b) PROVE Proofs'
  BY <1>1, QuietProofs DEF Schedule, Goto
<1>2. ASSUME NEW b \in SUBSET Reqs, PlainStep(b) PROVE Proofs'
  BY <1>2, QuietProofs DEF PlainStep
<1>3. CASE TimePasses
  BY <1>3, QuietProofs DEF TimePasses
<1>4. CASE Register
  BY <1>4, QuietProofs DEF Register, Goto
<1>5. CASE PreEvict
  <2>1. UNCHANGED out /\ phase = "evict" /\ phase' \in {"evict", "rows"}
    BY <1>5 DEF PreEvict, Goto
  <2> QED BY <2>1, QuietProofs
<1>6. CASE EnsureRow
  <2>1. UNCHANGED out /\ phase = "rows" /\ phase' = "rows"
    BY <1>6 DEF EnsureRow
  <2> QED BY <2>1, QuietProofs
<1>7. CASE RowsReady
  <2>1. UNCHANGED out /\ phase = "rows" /\ phase' \in {"admit", "sample"}
    BY <1>7 DEF RowsReady, Goto
  <2> QED BY <2>1, QuietProofs
<1>8. ASSUME NEW found \in SUBSET Sids, Admit(found) PROVE Proofs'
  <2>1. UNCHANGED out /\ phase = "admit" /\ phase' = "sample"
    BY <1>8 DEF Admit, Goto
  <2> QED BY <2>1, QuietProofs
<1>9. ASSUME NEW ended \in SUBSET Sids, Sample(ended) PROVE Proofs'
  <2>1. UNCHANGED <<out, sids, seqid_to_row>> /\ phase = "sample" /\ phase' = "eos"
    BY <1>9 DEF Sample, Goto, rowman
  <2>2. RowlessEnded'
    BY <2>1 DEF RowlessEnded, RInv, Calls, BatchHasRows
  <2> QED BY <2>1, <2>2, EosProofs
<1>10. CASE CheckEos
  <2>1. UNCHANGED out /\ phase = "eos" /\ phase' = "eos"
    BY <1>10 DEF CheckEos
  <2> QED BY <1>10, <2>1, CheckEosRowless, EosProofs
<1>11. CASE EosDone
  <2>1. /\ UNCHANGED <<out, sids, eos, seqid_to_row, seq_params>>
        /\ phase = "eos" /\ phase' = "pow" /\ at' = 1
        /\ sids \in Seq(Sids)
    BY <1>11 DEF EosDone, Goto, call, tables, rowman, RInv, Types
  <2>2. AuditedSoFar'
    BY <2>1 DEF AuditedSoFar
  <2>3. RowlessEnded'
    BY <2>1 DEF Proofs, RowlessEnded
  <2>4. out' = {}
    BY <2>1 DEF Proofs, OutEmpty
  <2> QED BY <2>1, <2>2, <2>3, <2>4 DEF Proofs, FastpathProofsAreOwn, AuditIsKept, AuditNeverMines,
                                        AuditedWindowsProved, OutEmpty
<1>12. ASSUME NEW tier \in 0 .. 2, CheckPow(tier) PROVE Proofs'
  BY <1>12, CheckPowProofs
<1>13. CASE PowDone
  BY <1>13, PowDoneProofs
<1>14. CASE Cleanup
  BY <1>14, CleanupProofs
<1>15. CASE UNCHANGED vars
  BY <1>15 DEF vars, Proofs, FastpathProofsAreOwn, ProofIsOwn, AuditIsKept, AuditNeverMines,
              Shifted, AuditedWindowsProved, AuditedSoFar, OutEmpty, RowlessEnded, call, tables, rowman
<1> QED BY <1>1, <1>2, <1>3, <1>4, <1>5, <1>6, <1>7, <1>8, <1>9, <1>10, <1>11, <1>12, <1>13,
           <1>14, <1>15 DEF Next

(* check_pow_solutions with the host fast path: every proof is about the   *)
(* sequence it names, its window sampled under the parameters it states    *)
(* and with the nonce and the completion id that it carries.               *)
THEOREM FastpathProofsOwn == Spec => []FastpathProofsAreOwn
<1>1. Proofs => FastpathProofsAreOwn
  BY DEF Proofs
<1> QED BY <1>1, RowsInit, RowsStep, BuffersInit, BuffersStep, ProofsInit, ProofsStep, PTL DEF Spec

(* process_solution: a window with a token of a request that asked for     *)
(* audit goes to the audit channel alone, whoever the proof names, except  *)
(* the window that the default path takes for a later sequence than its    *)
(* own after an end in the same batch (Shifted); a proof in the name of    *)
(* such a request goes there alone always; and with the fast path none of  *)
(* the batch is passed over.                                               *)
THEOREM AuditKept == Spec => []AuditIsKept
<1>1. Proofs => AuditIsKept
  BY DEF Proofs
<1> QED BY <1>1, RowsInit, RowsStep, BuffersInit, BuffersStep, ProofsInit, ProofsStep, PTL DEF Spec
=============================================================================
