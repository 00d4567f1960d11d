------------------------------- MODULE Setup -------------------------------
(***************************************************************************)
(* What is decided once, before the first token: the patches the build     *)
(* puts into the staged proof-of-inference sources, the identity and the   *)
(* precision that every proof will carry, and how two GPUs share a model.  *)
(*                                                                         *)
(* A patched text is abstracted to what the script asks of it: which patch *)
(* targets it contains and which replacements it contains in one piece.    *)
(***************************************************************************)
EXTENDS Integers, Sequences, FiniteSets, Folds, SequencesExt

-----------------------------------------------------------------------------
(* tools/patch-staged-poi.py.  A replacement may bring the target of a     *)
(* later patch, and a later patch may cut an earlier replacement in two.   *)

Patches == 0 .. 39

PATCHES ==
    LET Brings(i) == CASE i = 2  -> {27}
                       [] i = 3  -> {20, 21, 22, 23, 30}
                       [] i = 10 -> {26}
                       [] i = 12 -> {18}
                       [] i = 18 -> {34}
                       [] i = 20 -> {31}
                       [] i = 23 -> {32}
                       [] i = 25 -> {28, 29}
                       [] i = 26 -> {38}
                       [] OTHER  -> {}
        Cuts(i) == CASE i = 18 -> {12}
                     [] i \in 20 .. 23 \cup {30} -> {3}
                     [] i = 27 -> {2}
                     [] i \in {28, 29} -> {25}
                     [] i = 32 -> {23}
                     [] i = 34 -> {18}
                     [] i = 36 -> {19}
                     [] OTHER  -> {}
    IN  [i \in Patches |->
            [brings |-> Brings(i), cuts |-> Cuts(i),
             keeps |-> i \in {2, 10, 11, 14, 19, 22, 26, 27, 31, 38},
             drops |-> IF i = 36 THEN {19} ELSE {}]]

Brought == UNION {PATCHES[i].brings : i \in Patches}

(* The staged sources: upstream without the targets in lost and with the   *)
(* fixes in taken already made; optimize-staged-poi.py asks for anchors of *)
(* its own.                                                                *)
Staged(lost, taken, anchors) ==
    [has |-> (Patches \ (Brought \cup lost \cup {i \in taken : ~PATCHES[i].keeps}))
                \cup UNION {PATCHES[i].brings : i \in taken},
     put |-> taken, times |-> [i \in Patches |-> IF i \in taken THEN 1 ELSE 0],
     anchors |-> anchors, compact |-> 0, rc |-> 0]

Replace(t, i) ==
    [t EXCEPT !.has = ((@ \ PATCHES[i].drops) \ (IF PATCHES[i].keeps THEN {} ELSE {i}))
                         \cup PATCHES[i].brings,
              !.put = (@ \ PATCHES[i].cuts) \cup {i},
              !.times[i] = @ + 1]

(* Mutant: a target that has gone is passed over. *)
ApplyOrSkip(t, i) ==
    IF t.rc # 0 \/ i \in t.put \/ i \notin t.has THEN t ELSE Replace(t, i)

(* One turn of the loop in main: nothing to do, an error, or the write. *)
Apply(t, i) ==
    CASE t.rc # 0 \/ i \in t.put -> t
      [] i \notin t.has          -> [t EXCEPT !.rc = 1]
      [] OTHER                   -> Replace(t, i)

patch_staged_poi(t) == FoldLeft(Apply, t, [n \in 1 .. Cardinality(Patches) |-> n - 1])

optimize_staged_poi(t) ==
    CASE t.compact > 0 -> t
      [] ~t.anchors    -> [t EXCEPT !.rc = 1]
      [] OTHER         -> [t EXCEPT !.compact = @ + 1]

(* The build runs the second script only after the first went well. *)
StageSources(t) ==
    LET p == patch_staged_poi(t) IN IF p.rc = 0 THEN optimize_staged_poi(p) ELSE p

-----------------------------------------------------------------------------
(* model_executor/runtime_info.py.  A dtype is text from the command line  *)
(* or one of torch's types; a model name is the repository id, an alias    *)
(* or the path of the snapshot an offline start is redirected to.          *)

VERIFIER_PRECISION_VOCAB == {"fp16", "bf16", "fp32", "int8", "fp8"}

DTYPE_STR == [float16 |-> "fp16", bfloat16 |-> "bf16", float32 |-> "fp32", float64 |-> "fp64",
              int8 |-> "int8", float8_e4m3fn |-> "fp8", float8_e5m2 |-> "fp8"]

dtype_name(dtype) ==
    CASE dtype.text /\ dtype.name \in {"float8", "f8", "f8e4m3", "f8e5m2", "fp8"} -> "fp8"
      [] ~dtype.text /\ dtype.name \in DOMAIN DTYPE_STR -> DTYPE_STR[dtype.name]
      [] OTHER -> dtype.name

(* "error" is the RuntimeError that ends the start. *)
detect_precision(dtype) ==
    IF dtype.name \in {"auto", "unset"} \/ dtype_name(dtype) \notin VERIFIER_PRECISION_VOCAB
    THEN "error" ELSE dtype_name(dtype)

(* The configuration at the top wins over the one of the architecture. *)
get_quant_config(cfg) == IF cfg.quant_top # "none" THEN cfg.quant_top ELSE cfg.quant_arch

quant_flavour(cfg) ==
    IF get_quant_config(cfg) # "none" THEN get_quant_config(cfg) ELSE cfg.quantization

(* The fields that differ from a default configuration, none of them when  *)
(* the default cannot be made.                                             *)
safe_model_config_diff(cfg) == IF cfg.default_made THEN cfg.changed ELSE {}

(* The commits that may be reported: the pinned one, the hub's, whichever  *)
(* snapshot of the cache the glob yields first (its pattern is a prefix of *)
(* the directory name, so that another model's snapshot fits too), or none.*)
resolve_sha(cfg) ==
    CASE cfg.revision = "pinned"            -> {"pinned"}
      [] cfg.hub /\ cfg.model = "repo"      -> {"head"}
      [] cfg.model = "repo" /\ cfg.snapshots # {} -> cfg.snapshots
      [] OTHER                              -> {"unknown"}

model_id(cfg) == IF cfg.served = <<>> THEN cfg.model ELSE Head(cfg.served)

(* The first served name is not the repository. *)
Renamed(cfg) == cfg.served # <<>> /\ Head(cfg.served) # "repo"

from_configs(cfg) ==
    [model_id |-> model_id(cfg), model_sha |-> resolve_sha(cfg),
     compute_precision |-> detect_precision(cfg.dtype),
     model_config_diff |-> safe_model_config_diff(cfg)
        \cup (IF quant_flavour(cfg) = "none" THEN {} ELSE {"quantization_flavour"})]

-----------------------------------------------------------------------------
(* scripts/gpu_parallel_select.py.  A topology is one row of link types a  *)
(* GPU, with the columns of the network cards and of the affinities at the *)
(* end; a GPU may be missing.                                              *)

LinkTypes == {"X", "NV", "PHB", "SYS"}

topo_matrix(topo) ==
    [g \in DOMAIN topo |-> SelectSeq(topo[g], LAMBDA c : c \in LinkTypes)]

all_nvlink(topo, gpus) ==
    LET rows == topo_matrix(topo)
    IN  \A a \in gpus : /\ a \in DOMAIN rows
                        /\ \A b \in gpus \ {a} : b < Len(rows[a]) /\ rows[a][b + 1] = "NV"

parallel_mode(topo, gpus) == IF all_nvlink(topo, gpus) THEN "tensor" ELSE "pipeline"

-----------------------------------------------------------------------------
(* The starts that are tried. *)

Singles == {{}} \cup {{i} : i \in Patches \ Brought}

Trees == {[kind |-> "tree", lost |-> change[1], taken |-> change[2], anchors |-> anchors,
           again |-> again] :
             change \in (Singles \X {{}}) \cup ({{}} \X Singles),
             anchors \in BOOLEAN, again \in BOOLEAN}

Dtypes == [text : {FALSE}, name : DOMAIN DTYPE_STR \cup {"unset"}]
             \cup [text : {TRUE}, name : {"auto", "f8", "fp8", "bf16", "bfloat16"}]

(* The repository as it was given, the path of a local copy, or what the   *)
(* operator asked for, the first of which counts.                          *)
ServedNames == {<<>>, <<"repo">>, <<"path">>, <<"alias">>, <<"alias", "repo">>}

Configs ==
    {cfg \in [kind : {"config"}, dtype : Dtypes, model : {"repo", "path"},
              served : ServedNames, revision : {"pinned", "branch"}, hub : BOOLEAN,
              snapshots : SUBSET {"head", "other"}, quant_top : {"none"},
              quant_arch : {"none", "int4"}, quantization : {"awq"},
              default_made : BOOLEAN, changed : {{"dtype"}}] :
        \* the served name is taken before the redirect, and the default
        \* configuration of a model is fetched from the hub
        /\ cfg.served = <<>> => cfg.model = "repo"
        /\ cfg.served = <<"path">> => cfg.model = "path"
        /\ cfg.default_made = cfg.hub}

Gpus == 0 .. 2

(* Links are symmetric; the machine has a network card as well. *)
Topologies ==
    {[kind |-> "topo", gpus |-> gpus,
      rows |-> [g \in there |-> [c \in 1 .. Cardinality(there) |-> IF c = g + 1 THEN "X" ELSE link[{g, c - 1}]]
                                   \o <<"PHB", "affinity">>]] :
        gpus \in {{0, 1}, {0, 2}, {1, 2}, Gpus}, there \in {Gpus, {0, 1}},
        link \in [{{0, 1}, {0, 2}, {1, 2}} -> {"NV", "PHB", "SYS"}]}

Setups == Trees \cup Configs \cup Topologies

=============================================================================
