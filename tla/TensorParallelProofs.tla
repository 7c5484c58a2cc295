------------------------ MODULE TensorParallelProofs ------------------------
(***************************************************************************)
(* Proofs about a tensor-parallel device group, for every number of        *)
(* workers, layers and rounds: its type invariant, the completeness of the *)
(* sums that the exchanges return, the distance between two workers, and   *)
(* that a part once added stays added.                                     *)
(***************************************************************************)
EXTENDS TensorParallel, TLAPS

(* The exchanges of a round are numbered from 0.  At a worker, exchange n   *)
(* has three moments: its part is added, the poll finds all parts added,    *)
(* the sum is there to be copied.  Each of the three numbers counts the     *)
(* exchanges for which the moment has come.                                 *)
Index(l, x) == 2 * l - (IF x = "SELF_ATTN" THEN 2 ELSE 1)

At(w) == Index(layer[w], exchange[w])

ReleasedStages == {"copy", "layer_end", "post", "joined", "failed_after", "no_output"}
FinishedStages == {"layer_end", "post", "joined", "failed_after", "no_output"}
PassedStages   == {"collect", "merge", "publish", "wait_next"} \cup ReleasedStages
AddedStages    == {"wait_done"} \cup PassedStages

AddedNum(w)    == At(w) + (IF pc[w] \in AddedStages THEN 1 ELSE 0)
PassedNum(w)   == At(w) + (IF pc[w] \in PassedStages THEN 1 ELSE 0)
ReleasedNum(w) == At(w) + (IF pc[w] \in ReleasedStages THEN 1 ELSE 0)

(* Where a layer's heap holds a worker's part, and worker 0's the sum.      *)
PartSlot(w, x) == IF x = "SELF_ATTN" THEN 1 ELSE IF w = 0 THEN 4 ELSE 3
SumSlot(x)     == IF x = "SELF_ATTN" THEN 2 ELSE 5

(* What a worker's stage says about the rest of its own state.              *)
Control(w) ==
  /\ pc[w] \in {"layer_start", "clear"} => exchange[w] = "SELF_ATTN"
  /\ pc[w] \in {"layer_end", "post", "joined", "failed_after", "no_output"} => exchange[w] = "FFN"
  /\ pc[w] \in {"post", "joined", "no_output"} => layer[w] = LayerNum
  /\ pc[w] \in {"collect", "merge", "publish"} => w = 0
  /\ pc[w] = "wait_next" => w # 0
  /\ pc[w] = "part" => top[w] = PartSlot(w, exchange[w])
  /\ pc[w] \in {"add", "wait_done", "collect", "merge", "wait_next"}
       => top[w] = PartSlot(w, exchange[w]) + 1
  /\ pc[w] = "publish" => top[w] = SumSlot(exchange[w]) + 1
  /\ pc[w] = "copy" =>
       top[w] = 1 + (IF w = 0 THEN SumSlot(exchange[w]) ELSE PartSlot(w, exchange[w]))

(* Nobody passes the poll of an exchange before everyone has added a part,  *)
(* nobody copies a sum before worker 0 has published it.                    *)
Order ==
  \A v, w \in Workers :
    PassedNum(w) <= AddedNum(v) /\ ReleasedNum(w) <= ReleasedNum(0)

(* The phase table says just this: whose parts are added, where they are,   *)
(* and which sums are published.                                            *)
Table(w) ==
  /\ \A l \in Layers, x \in Exchanges :
       /\ (<<l, x>> \in DOMAIN phase_map[w] /\ phase_map[w][<<l, x>>].is_done)
            <=> Index(l, x) < AddedNum(w)
       /\ Index(l, x) < AddedNum(w) => phase_map[w][<<l, x>>].output = <<w, PartSlot(w, x)>>
  /\ \A l \in Layers :
       /\ <<l, "FFN">> \in DOMAIN phase_map[w] <=> Index(l, "SELF_ATTN") < ReleasedNum(0)
       /\ <<l, "FFN">> \in DOMAIN phase_map[w] => phase_map[w][<<l, "FFN">>].input = <<0, 2>>
       /\ <<l, "LAYER_END">> \in DOMAIN phase_map[w] <=> Index(l, "FFN") < ReleasedNum(0)
       /\ <<l, "LAYER_END">> \in DOMAIN phase_map[w]
            => /\ phase_map[w][<<l, "LAYER_END">>].input = <<0, 5>>
               /\ ~phase_map[w][<<l, "LAYER_END">>].is_done
       /\ <<l, "LAYER_START">> \in DOMAIN phase_map[w]
            => ~phase_map[w][<<l, "LAYER_START">>].is_done

PartOf(w, l, x) == [round |-> round, layer |-> l, exchange |-> x, worker |-> w]
PartsOf(l, x)   == {PartOf(w, l, x) : w \in Workers}

(* A worker's part is in its memory from its computation to the copy of the *)
(* sum; what worker 0 merges are the parts, what the others copy is the sum.*)
Memory(w) ==
  /\ pc[w] \in {"add", "wait_done", "collect", "merge", "wait_next"} =>
       memory[w][PartSlot(w, exchange[w])] = {PartOf(w, layer[w], exchange[w])}
  /\ pc[w] = "merge" => source[w] = {<<v, PartSlot(v, exchange[w])>> : v \in Workers}
  /\ pc[w] = "publish" => memory[w][SumSlot(exchange[w])] = PartsOf(layer[w], exchange[w])
  /\ pc[w] = "copy" => source[w] = {<<0, SumSlot(exchange[w])>>}

(* The last sum published stays in worker 0's memory until the next is.     *)
LastSum ==
  \A l \in Layers, x \in Exchanges :
    Index(l, x) + 1 = ReleasedNum(0) => memory[0][SumSlot(x)] = PartsOf(l, x)

(* What holds once a round was started.                                     *)
RoundInv ==
  /\ \A w \in Workers : Control(w) /\ Table(w) /\ Memory(w)
  /\ Order
  /\ LastSum

(* The inductive invariant.                                                 *)
TPInv ==
  /\ TPTypeOK
  /\ phase_map = [w \in Workers |-> phase_map[w]]
  /\ SumIsComplete
  /\ IF round = 0 THEN \A w \in Workers : pc[w] = "joined" ELSE RoundInv

-----------------------------------------------------------------------------
(* There is a first worker.                                                 *)
LEMMA ZeroIsWorker == 0 \in Workers
BY ParallelAssumption DEF Workers

(* The numbers are integers.                                                *)
LEMMA NumbersAreIntegers ==
  ASSUME TPTypeOK, NEW w \in Workers
  PROVE  /\ layer[w] \in Layers /\ layer[w] \in Int /\ exchange[w] \in Exchanges
         /\ At(w) \in Int /\ AddedNum(w) \in Int /\ PassedNum(w) \in Int /\ ReleasedNum(w) \in Int
BY ParallelAssumption DEF TPTypeOK, Layers, At, Index, AddedNum, PassedNum, ReleasedNum

(* Different exchanges have different numbers, in the order they happen.    *)
LEMMA IndexInjective ==
  ASSUME NEW l \in Layers, NEW m \in Layers, NEW x \in Exchanges, NEW y \in Exchanges
  PROVE  /\ Index(l, x) \in Nat
         /\ Index(l, x) = Index(m, y) => l = m /\ x = y
         /\ Index(l, x) + 1 = Index(m, y) => x # y
BY ParallelAssumption DEF Layers, Index, Exchanges

(* A step of worker w leaves what is said about the other workers.          *)
LEMMA OthersKeep ==
  ASSUME RoundInv, NEW w \in Workers, round' = round,
         \A v \in Workers \ {w} :
           /\ pc'[v] = pc[v] /\ layer'[v] = layer[v] /\ exchange'[v] = exchange[v]
           /\ top'[v] = top[v] /\ memory'[v] = memory[v] /\ source'[v] = source[v]
  PROVE  \A v \in Workers \ {w} :
           /\ Control(v)' /\ Memory(v)'
           /\ AddedNum(v)' = AddedNum(v) /\ PassedNum(v)' = PassedNum(v)
           /\ ReleasedNum(v)' = ReleasedNum(v)
<1> SUFFICES ASSUME NEW v \in Workers \ {w}
             PROVE  /\ Control(v)' /\ Memory(v)'
                    /\ AddedNum(v)' = AddedNum(v) /\ PassedNum(v)' = PassedNum(v)
                    /\ ReleasedNum(v)' = ReleasedNum(v)
  OBVIOUS
<1>1. Control(v) /\ Memory(v)
  BY DEF RoundInv
<1>2. Control(v)'
  BY <1>1 DEF Control
<1>3. Memory(v)'
  BY <1>1 DEF Memory, PartOf, PartsOf
<1> QED
  BY <1>2, <1>3 DEF AddedNum, PassedNum, ReleasedNum, At

(* A step that changes neither the table nor a number.                      *)
LEMMA QuietStep ==
  ASSUME TPInv, round # 0, round' = round, phase_map' = phase_map, TPTypeOK', SumIsComplete',
         \A v \in Workers :
           /\ Control(v)' /\ Memory(v)'
           /\ AddedNum(v)' = AddedNum(v) /\ PassedNum(v)' = PassedNum(v)
           /\ ReleasedNum(v)' = ReleasedNum(v),
         LastSum'
  PROVE  TPInv'
<1>1. RoundInv
  BY DEF TPInv
<1>2. Order'
  BY <1>1, ZeroIsWorker DEF RoundInv, Order
<1>3. ASSUME NEW v \in Workers PROVE Table(v)'
  <2>1. Table(v) /\ AddedNum(v)' = AddedNum(v) /\ ReleasedNum(0)' = ReleasedNum(0)
    BY <1>1, <1>3, ZeroIsWorker DEF RoundInv
  <2> QED BY <2>1, ZenonT(60) DEF Table
<1> QED
  BY <1>1, <1>2, <1>3 DEF TPInv, RoundInv

-----------------------------------------------------------------------------
(* Nothing has happened yet.                                                *)
LEMMA TPInitInv == TPInit => TPInv
<1> SUFFICES ASSUME TPInit PROVE TPInv
  OBVIOUS
<1>1. TPTypeOK
  BY ParallelAssumption DEF TPInit, TPTypeOK, Layers, Exchanges, Slots, NoSum
<1> QED
  BY <1>1 DEF TPInit, TPInv, SumIsComplete

(* A round starts with an empty table, every worker before its first part.  *)
LEMMA StartRoundStep ==
  ASSUME TPInv, StartRound
  PROVE  TPInv'
<1> USE DEF StartRound
<1>1. TPTypeOK'
  BY ParallelAssumption DEF TPInv, TPTypeOK, Layers, Exchanges
<1>2. SumIsComplete'
  BY DEF TPInv, SumIsComplete, AllParts
<1>3. round' # 0
  BY ParallelAssumption DEF TPInv, TPTypeOK
<1>4. \A v \in Workers : AddedNum(v)' = 0 /\ PassedNum(v)' = 0 /\ ReleasedNum(v)' = 0
  BY DEF AddedNum, PassedNum, ReleasedNum, At, Index, AddedStages, PassedStages, ReleasedStages
<1>5. \A v \in Workers : Control(v)' /\ Memory(v)'
  BY DEF Control, Memory
<1>6. \A l \in Layers, x \in Exchanges : Index(l, x) \in Nat
  BY IndexInjective
<1>7. ASSUME NEW v \in Workers PROVE Table(v)'
  <2>1. AddedNum(v)' = 0 /\ ReleasedNum(0)' = 0 /\ DOMAIN phase_map'[v] = {}
    BY <1>4, ZeroIsWorker
  <2>2. \A l \in Layers, x \in Exchanges : ~ (Index(l, x) < 0)
    BY <1>6
  <2> QED BY <2>1, <2>2 DEF Table, Exchanges
<1>8. Order' /\ LastSum'
  BY <1>4, <1>6, ZeroIsWorker DEF Order, LastSum
<1> QED
  BY <1>1, <1>2, <1>3, <1>5, <1>7, <1>8 DEF TPInv, RoundInv

(* ClearLayerLocalMemory: worker w alone is concerned.                      *)
LEMMA ClearStep ==
  ASSUME TPInv, round # 0, NEW w \in Workers, ClearLayerLocalMemory(w)
  PROVE  TPInv'
<1> USE DEF ClearLayerLocalMemory, Goto
<1>1. TPTypeOK'
  BY DEF TPInv, TPTypeOK
<1>2. SumIsComplete'
  BY DEF TPInv, SumIsComplete, AllParts
<1>3. pc[w] = "clear" /\ pc'[w] = "part" /\ top'[w] = 1
  BY DEF TPInv, TPTypeOK
<1>4. \A v \in Workers \ {w} : pc'[v] = pc[v] /\ top'[v] = top[v]
  BY DEF TPInv, TPTypeOK
<1>5. \A v \in Workers \ {w} :
        /\ Control(v)' /\ Memory(v)'
        /\ AddedNum(v)' = AddedNum(v) /\ PassedNum(v)' = PassedNum(v)
        /\ ReleasedNum(v)' = ReleasedNum(v)
  BY <1>4, OthersKeep DEF TPInv
<1>6. Control(w)
  BY DEF TPInv, RoundInv
<1>7. /\ Control(w)' /\ Memory(w)'
      /\ AddedNum(w)' = AddedNum(w) /\ PassedNum(w)' = PassedNum(w)
      /\ ReleasedNum(w)' = ReleasedNum(w)
  BY <1>3, <1>6 DEF Control, Memory, PartSlot, AddedNum, PassedNum, ReleasedNum, At,
                    AddedStages, PassedStages, ReleasedStages
<1>8. LastSum'
  BY <1>5, <1>7, ZeroIsWorker DEF TPInv, RoundInv, LastSum, PartsOf, PartOf
<1> QED
  BY <1>1, <1>2, <1>5, <1>7, <1>8, QuietStep

(* ComputeAttention and ComputeFeedForward: the part goes to its slot.      *)
LEMMA ComputePartStep ==
  ASSUME TPInv, round # 0, NEW w \in Workers, ComputePart(w)
  PROVE  TPInv'
<1> USE DEF ComputePart, Goto, NewTensor
<1> DEFINE part == PartOf(w, layer[w], exchange[w])
<1>1. Control(w) /\ pc[w] = "part" /\ top[w] = PartSlot(w, exchange[w])
  BY DEF TPInv, RoundInv, Control
<1>2. PartSlot(w, exchange[w]) \in 1 .. 4
  BY DEF PartSlot
<1>3. /\ pc' = [pc EXCEPT ![w] = "add"]
      /\ top' = [top EXCEPT ![w] = PartSlot(w, exchange[w]) + 1]
      /\ memory' = [memory EXCEPT ![w][PartSlot(w, exchange[w])] = {part}]
  BY <1>1 DEF TPInv, TPTypeOK, PartOf
<1>4. part \in Part
  BY ParallelAssumption DEF TPInv, TPTypeOK, Part, PartOf
<1>5. TPTypeOK'
  <2> HIDE DEF part
  <2>1. memory' \in [Workers -> [Slots -> SUBSET Part]]
    BY <1>2, <1>3, <1>4 DEF TPInv, TPTypeOK, Slots
  <2> QED BY <1>2, <1>3, <2>1 DEF TPInv, TPTypeOK
<1>6. SumIsComplete'
  BY DEF TPInv, SumIsComplete, AllParts
<1>7. /\ pc'[w] = "add" /\ top'[w] = PartSlot(w, exchange[w]) + 1
      /\ memory'[w][PartSlot(w, exchange[w])] = {part}
      /\ \A s \in Slots \ {PartSlot(w, exchange[w])} : memory'[w][s] = memory[w][s]
  BY <1>2, <1>3 DEF TPInv, TPTypeOK, Slots
<1>8. \A v \in Workers \ {w} : pc'[v] = pc[v] /\ top'[v] = top[v] /\ memory'[v] = memory[v]
  BY <1>3 DEF TPInv, TPTypeOK
<1>9. \A v \in Workers \ {w} :
        /\ Control(v)' /\ Memory(v)'
        /\ AddedNum(v)' = AddedNum(v) /\ PassedNum(v)' = PassedNum(v)
        /\ ReleasedNum(v)' = ReleasedNum(v)
  BY <1>8, OthersKeep DEF TPInv
<1>10. /\ Control(w)' /\ Memory(w)'
       /\ AddedNum(w)' = AddedNum(w) /\ PassedNum(w)' = PassedNum(w)
       /\ ReleasedNum(w)' = ReleasedNum(w)
  BY <1>1, <1>7 DEF Control, Memory, AddedNum, PassedNum, ReleasedNum, At, PartOf,
                    AddedStages, PassedStages, ReleasedStages
<1>11. LastSum'
  <2>1. \A x \in Exchanges : memory'[0][SumSlot(x)] = memory[0][SumSlot(x)]
    BY <1>7, <1>8, ZeroIsWorker, SMTT(30) DEF SumSlot, PartSlot, Slots
  <2> QED BY <1>9, <1>10, <2>1, ZeroIsWorker DEF TPInv, RoundInv, LastSum, PartsOf, PartOf
<1> QED
  BY <1>5, <1>6, <1>9, <1>10, <1>11, QuietStep

(* Worker 0 takes the pointers to the parts: everyone has added one.        *)
LEMMA CollectStep ==
  ASSUME TPInv, round # 0, NEW w \in Workers, Collect(w)
  PROVE  TPInv'
<1> USE DEF Collect, Goto
<1>1. Control(w) /\ Memory(w) /\ pc[w] = "collect" /\ RoundInv
  BY DEF TPInv, RoundInv
<1>2. \A v \in Workers : At(w) < AddedNum(v)
  <2> SUFFICES ASSUME NEW v \in Workers PROVE At(w) < AddedNum(v)
    OBVIOUS
  <2>1. PassedNum(w) <= AddedNum(v) /\ PassedNum(w) = At(w) + 1
    BY <1>1 DEF RoundInv, Order, PassedNum, PassedStages
  <2> QED BY <2>1, NumbersAreIntegers DEF TPInv
<1>3. \A v \in Workers : /\ CurPhase(w) \in DOMAIN phase_map[v]
                         /\ phase_map[v][CurPhase(w)].output = <<v, PartSlot(v, exchange[w])>>
  <2> SUFFICES ASSUME NEW v \in Workers
               PROVE  /\ CurPhase(w) \in DOMAIN phase_map[v]
                      /\ phase_map[v][CurPhase(w)].output = <<v, PartSlot(v, exchange[w])>>
    OBVIOUS
  <2>1. layer[w] \in Layers /\ exchange[w] \in Exchanges
    BY DEF TPInv, TPTypeOK
  <2>2. Table(v) /\ Index(layer[w], exchange[w]) < AddedNum(v)
    BY <1>1, <1>2 DEF RoundInv, At
  <2> QED BY <2>1, <2>2 DEF Table, CurPhase
<1>4. GetOutputTensors(CurPhase(w)) = {<<v, PartSlot(v, exchange[w])>> : v \in Workers}
  BY <1>3 DEF GetOutputTensors
<1>5. {<<v, PartSlot(v, exchange[w])>> : v \in Workers} \in SUBSET Pointers
  BY DEF Pointers, PartSlot, Slots
<1>6. TPTypeOK'
  BY <1>4, <1>5 DEF TPInv, TPTypeOK
<1>7. SumIsComplete'
  BY DEF TPInv, SumIsComplete, AllParts
<1>8. pc'[w] = "merge" /\ source'[w] = {<<v, PartSlot(v, exchange[w])>> : v \in Workers}
  BY <1>4 DEF TPInv, TPTypeOK
<1>9. \A v \in Workers \ {w} : pc'[v] = pc[v] /\ source'[v] = source[v]
  BY DEF TPInv, TPTypeOK
<1>10. \A v \in Workers \ {w} :
         /\ Control(v)' /\ Memory(v)'
         /\ AddedNum(v)' = AddedNum(v) /\ PassedNum(v)' = PassedNum(v)
         /\ ReleasedNum(v)' = ReleasedNum(v)
  BY <1>1, <1>9, OthersKeep
<1>11. /\ Control(w)' /\ Memory(w)'
       /\ AddedNum(w)' = AddedNum(w) /\ PassedNum(w)' = PassedNum(w)
       /\ ReleasedNum(w)' = ReleasedNum(w)
  BY <1>1, <1>8 DEF Control, Memory, AddedNum, PassedNum, ReleasedNum, At, PartOf,
                    AddedStages, PassedStages, ReleasedStages
<1>12. LastSum'
  BY <1>1, <1>10, <1>11, ZeroIsWorker DEF RoundInv, LastSum, PartsOf, PartOf
<1> QED
  BY <1>6, <1>7, <1>10, <1>11, <1>12, QuietStep

(* When worker 0 merges, every worker is still in this exchange, so its     *)
(* part is where it was when the pointer to it was added.                   *)
LEMMA PartsInPlace ==
  ASSUME TPInv, round # 0, pc[0] = "merge", NEW v \in Workers
  PROVE  memory[v][PartSlot(v, exchange[0])] = {PartOf(v, layer[0], exchange[0])}
<1>1. RoundInv /\ TPTypeOK
  BY DEF TPInv
<1>2. PassedNum(0) <= AddedNum(v) /\ ReleasedNum(v) <= ReleasedNum(0)
  BY <1>1, ZeroIsWorker DEF RoundInv, Order
<1>3. PassedNum(0) = At(0) + 1 /\ ReleasedNum(0) = At(0)
  BY NumbersAreIntegers, ZeroIsWorker, <1>1
     DEF PassedNum, ReleasedNum, PassedStages, ReleasedStages
<1>4. /\ AddedNum(v) \in {At(v), At(v) + 1}
      /\ ReleasedNum(v) \in {At(v), At(v) + 1}
      /\ AddedNum(v) = At(v) + 1 => pc[v] \in AddedStages
      /\ ReleasedNum(v) = At(v) => pc[v] \notin ReleasedStages
  BY <1>1, NumbersAreIntegers DEF AddedNum, ReleasedNum
<1>5. At(v) = At(0) /\ AddedNum(v) = At(v) + 1 /\ ReleasedNum(v) = At(v)
  BY <1>1, <1>2, <1>3, <1>4, NumbersAreIntegers, ZeroIsWorker
<1>6. layer[v] = layer[0] /\ exchange[v] = exchange[0]
  BY <1>1, <1>5, IndexInjective, ZeroIsWorker, NumbersAreIntegers DEF At
<1>7. Memory(v) /\ Control(v) /\ pc[v] \in {"wait_done", "collect", "merge", "publish", "wait_next"}
  BY <1>1, <1>4, <1>5 DEF RoundInv, AddedStages, PassedStages, ReleasedStages
<1>8. pc[v] # "publish"
  BY <1>7 DEF Control
<1> QED
  BY <1>6, <1>7, <1>8 DEF Memory

(* MergeTensors: what it computes is the sum of all parts, in a slot other  *)
(* than that of the last sum.                                               *)
LEMMA MergeStep ==
  ASSUME TPInv, round # 0, NEW w \in Workers, MergeTensors(w)
  PROVE  TPInv'
<1> USE DEF MergeTensors, Goto, NewTensor
<1>1. Control(w) /\ Memory(w) /\ pc[w] = "merge" /\ RoundInv /\ TPTypeOK
  BY DEF TPInv, RoundInv
<1>2. w = 0 /\ top[w] = PartSlot(w, exchange[w]) + 1
  BY <1>1 DEF Control
<1>3. top[w] = SumSlot(exchange[w]) /\ SumSlot(exchange[w]) \in {2, 5}
  BY <1>2 DEF PartSlot, SumSlot
<1>4. UNION {memory[ptr[1]][ptr[2]] : ptr \in source[w]} = PartsOf(layer[w], exchange[w])
  <2>1. source[w] = {<<v, PartSlot(v, exchange[w])>> : v \in Workers}
    BY <1>1 DEF Memory
  <2>2. \A v \in Workers : memory[v][PartSlot(v, exchange[w])] = {PartOf(v, layer[w], exchange[w])}
    BY <1>1, <1>2, PartsInPlace
  <2> HIDE DEF MergeTensors
  <2>3. \A ptr \in source[w] : \E v \in Workers :
          memory[ptr[1]][ptr[2]] = {PartOf(v, layer[w], exchange[w])}
    BY <2>1, <2>2
  <2>4. \A v \in Workers : \E ptr \in source[w] :
          memory[ptr[1]][ptr[2]] = {PartOf(v, layer[w], exchange[w])}
    <3> SUFFICES ASSUME NEW v \in Workers
                 PROVE  \E ptr \in source[w] :
                          memory[ptr[1]][ptr[2]] = {PartOf(v, layer[w], exchange[w])}
      OBVIOUS
    <3>1. <<v, PartSlot(v, exchange[w])>> \in source[w]
      BY <2>1
    <3> QED BY <3>1, <2>2
  <2>5. ASSUME NEW e PROVE e \in UNION {memory[ptr[1]][ptr[2]] : ptr \in source[w]}
                             <=> \E v \in Workers : e = PartOf(v, layer[w], exchange[w])
    <3>1. e \in UNION {memory[ptr[1]][ptr[2]] : ptr \in source[w]}
            <=> \E ptr \in source[w] : e \in memory[ptr[1]][ptr[2]]
      OBVIOUS
    <3> QED BY <2>3, <2>4, <3>1
  <2> QED BY <2>5, Zenon DEF PartsOf
<1>5. PartsOf(layer[w], exchange[w]) \in SUBSET Part
  BY <1>1, ParallelAssumption DEF TPTypeOK, PartsOf, PartOf, Part
<1>6. /\ pc' = [pc EXCEPT ![w] = "publish"]
      /\ top' = [top EXCEPT ![w] = SumSlot(exchange[w]) + 1]
      /\ memory' = [memory EXCEPT ![w][SumSlot(exchange[w])] = PartsOf(layer[w], exchange[w])]
  BY <1>1, <1>3, <1>4 DEF TPTypeOK
<1>7. TPTypeOK'
  <2>1. memory' \in [Workers -> [Slots -> SUBSET Part]]
    BY <1>1, <1>3, <1>5, <1>6 DEF TPTypeOK, Slots
  <2> QED BY <1>1, <1>3, <1>6, <2>1 DEF TPTypeOK
<1>8. SumIsComplete'
  BY DEF TPInv, SumIsComplete, AllParts
<1>9. /\ pc'[w] = "publish" /\ top'[w] = SumSlot(exchange[w]) + 1
      /\ memory'[w][SumSlot(exchange[w])] = PartsOf(layer[w], exchange[w])
      /\ \A s \in Slots \ {SumSlot(exchange[w])} : memory'[w][s] = memory[w][s]
  BY <1>1, <1>3, <1>6 DEF TPTypeOK, Slots
<1>10. \A v \in Workers \ {w} : pc'[v] = pc[v] /\ top'[v] = top[v] /\ memory'[v] = memory[v]
  BY <1>1, <1>6 DEF TPTypeOK
<1>11. \A v \in Workers \ {w} :
         /\ Control(v)' /\ Memory(v)'
         /\ AddedNum(v)' = AddedNum(v) /\ PassedNum(v)' = PassedNum(v)
         /\ ReleasedNum(v)' = ReleasedNum(v)
  BY <1>1, <1>10, OthersKeep
<1>12. /\ AddedNum(w)' = AddedNum(w) /\ PassedNum(w)' = PassedNum(w)
       /\ ReleasedNum(w)' = ReleasedNum(w)
  BY <1>1, <1>9 DEF AddedNum, PassedNum, ReleasedNum, At,
                    AddedStages, PassedStages, ReleasedStages
<1>13. Control(w)' /\ Memory(w)'
  BY <1>1, <1>2, <1>9 DEF Control, Memory, PartsOf, PartOf
<1>14. LastSum'
  <2> SUFFICES ASSUME NEW l \in Layers, NEW x \in Exchanges, Index(l, x) + 1 = ReleasedNum(0)
               PROVE  memory'[0][SumSlot(x)] = PartsOf(l, x)
    BY <1>2, <1>12 DEF LastSum, PartsOf, PartOf
  <2>1. memory[0][SumSlot(x)] = PartsOf(l, x)
    BY <1>1 DEF RoundInv, LastSum
  <2>2. ReleasedNum(0) = Index(layer[w], exchange[w])
    BY <1>1, <1>2, NumbersAreIntegers DEF ReleasedNum, ReleasedStages, At
  <2>3. x # exchange[w]
    BY <1>1, <2>2, IndexInjective, NumbersAreIntegers
  <2>4. SumSlot(x) \in Slots \ {SumSlot(exchange[w])}
    BY <1>1, <2>3 DEF SumSlot, Slots, TPTypeOK, Exchanges
  <2> QED BY <1>2, <1>9, <2>1, <2>4
<1> QED
  BY <1>7, <1>8, <1>11, <1>12, <1>13, <1>14, QuietStep

(* While a worker has yet to copy a sum, that sum is the last one worker 0  *)
(* has published: worker 0 cannot publish the next before everyone has      *)
(* added a part to it.  So the sum is still there.                          *)
LEMMA SumInPlace ==
  ASSUME TPInv, round # 0, NEW w \in Workers, pc[w] = "copy"
  PROVE  memory[0][SumSlot(exchange[w])] = PartsOf(layer[w], exchange[w])
<1>1. RoundInv /\ TPTypeOK
  BY DEF TPInv
<1>2. PassedNum(0) <= AddedNum(w) /\ ReleasedNum(w) <= ReleasedNum(0)
  BY <1>1, ZeroIsWorker DEF RoundInv, Order
<1>3. AddedNum(w) = At(w) + 1 /\ ReleasedNum(w) = At(w) + 1
  BY DEF AddedNum, ReleasedNum, AddedStages, PassedStages, ReleasedStages
<1>4. ReleasedNum(0) <= PassedNum(0)
  BY <1>1, NumbersAreIntegers, ZeroIsWorker DEF ReleasedNum, PassedNum, PassedStages
<1>5. ReleasedNum(0) = Index(layer[w], exchange[w]) + 1
  BY <1>1, <1>2, <1>3, <1>4, NumbersAreIntegers, ZeroIsWorker DEF At
<1> QED
  BY <1>1, <1>5, NumbersAreIntegers DEF RoundInv, LastSum

(* CopySum: the worker gets the whole sum, and goes on to the next exchange *)
(* or to the end of the layer.                                              *)
LEMMA CopySumStep ==
  ASSUME TPInv, round # 0, NEW w \in Workers, CopySum(w)
  PROVE  TPInv'
<1> DEFINE slot == IF w = 0 THEN SumSlot(exchange[w]) + 1 ELSE PartSlot(w, exchange[w]) + 1
           parts == PartsOf(layer[w], exchange[w])
<1>1. Control(w) /\ Memory(w) /\ pc[w] = "copy" /\ RoundInv /\ TPTypeOK
  BY DEF TPInv, RoundInv, CopySum
<1>2. top[w] = slot /\ slot \in {2, 3, 4, 6}
  BY <1>1 DEF Control, PartSlot, SumSlot
<1>3. source[w] = {<<0, SumSlot(exchange[w])>>} /\ memory[0][SumSlot(exchange[w])] = parts
  BY <1>1, SumInPlace DEF Memory
<1>4. /\ memory' = [memory EXCEPT ![w][slot] = parts]
      /\ top' = [top EXCEPT ![w] = slot + 1]
      /\ sum' = [sum EXCEPT ![w] = [round |-> round, layer |-> layer[w],
                                    exchange |-> exchange[w], parts |-> parts]]
  <2>1. PICK ptr \in source[w] :
          /\ NewTensor(w, memory[ptr[1]][ptr[2]])
          /\ sum' = [sum EXCEPT ![w] = [round |-> round, layer |-> layer[w],
                                        exchange |-> exchange[w], parts |-> memory[ptr[1]][ptr[2]]]]
    BY DEF CopySum
  <2>2. memory[ptr[1]][ptr[2]] = parts
    BY <1>3
  <2> HIDE DEF slot, parts
  <2> QED BY <1>2, <2>1, <2>2 DEF NewTensor
<1>5. /\ source' = [source EXCEPT ![w] = {}]
      /\ UNCHANGED <<round, phase_map, layer>>
      /\ IF exchange[w] = "SELF_ATTN"
         THEN exchange' = [exchange EXCEPT ![w] = "FFN"] /\ pc' = [pc EXCEPT ![w] = "part"]
         ELSE /\ \/ pc' = [pc EXCEPT ![w] = "layer_end"]
                 \/ pc' = [pc EXCEPT ![w] = "failed_after"]
              /\ exchange' = exchange
  BY DEF CopySum, Goto
<1>6. parts \in SUBSET Part
  BY <1>1, ParallelAssumption DEF TPTypeOK, PartsOf, PartOf, Part
<1> HIDE DEF parts
<1>7. TPTypeOK'
  <2>1. memory' \in [Workers -> [Slots -> SUBSET Part]]
    BY <1>1, <1>2, <1>4, <1>6 DEF TPTypeOK, Slots
  <2>2. sum' \in [Workers -> [round : Nat, layer : Layers, exchange : Exchanges, parts : SUBSET Part]]
    BY <1>1, <1>4, <1>6, ParallelAssumption DEF TPTypeOK
  <2>3. exchange' \in [Workers -> Exchanges]
    BY <1>1, <1>5, SMTT(30) DEF TPTypeOK, Exchanges
  <2>4. top' \in [Workers -> 1 .. 7] /\ source' \in [Workers -> SUBSET Pointers]
    BY <1>1, <1>2, <1>4, <1>5 DEF TPTypeOK
  <2>5. pc' \in [Workers -> {"joined", "layer_start", "clear", "part", "add", "wait_done", "collect",
                             "merge", "publish", "wait_next", "copy", "layer_end", "post",
                             "failed", "failed_after", "no_output"}]
    BY <1>1, <1>5 DEF TPTypeOK
  <2> QED BY <1>1, <1>5, <2>1, <2>2, <2>3, <2>4, <2>5 DEF TPTypeOK
<1>8. SumIsComplete'
  <2> SUFFICES ASSUME NEW v \in Workers
               PROVE  (sum[v] = NoSum \/ sum[v].parts = AllParts(sum[v]))'
    BY DEF SumIsComplete
  <2>1. CASE v = w
    <3>1. sum'[w] = [round |-> round, layer |-> layer[w], exchange |-> exchange[w], parts |-> parts]
      BY <1>1, <1>4 DEF TPTypeOK
    <3> QED BY <2>1, <3>1 DEF AllParts, parts, PartsOf, PartOf
  <2>2. CASE v # w
    BY <1>1, <1>4, <2>2 DEF TPTypeOK, TPInv, SumIsComplete, AllParts
  <2> QED BY <2>1, <2>2
<1>9. /\ top'[w] = slot + 1 /\ source'[w] = {}
      /\ IF exchange[w] = "SELF_ATTN" THEN exchange'[w] = "FFN" /\ pc'[w] = "part"
         ELSE exchange'[w] = exchange[w] /\ pc'[w] \in {"layer_end", "failed_after"}
      /\ \A s \in Slots \ {slot} : memory'[w][s] = memory[w][s]
  BY <1>1, <1>2, <1>4, <1>5 DEF TPTypeOK, Slots
<1>10. \A v \in Workers \ {w} :
         /\ pc'[v] = pc[v] /\ exchange'[v] = exchange[v] /\ top'[v] = top[v]
         /\ memory'[v] = memory[v] /\ source'[v] = source[v]
  BY <1>1, <1>4, <1>5 DEF TPTypeOK
<1>11. \A v \in Workers \ {w} :
         /\ Control(v)' /\ Memory(v)'
         /\ AddedNum(v)' = AddedNum(v) /\ PassedNum(v)' = PassedNum(v)
         /\ ReleasedNum(v)' = ReleasedNum(v)
  BY <1>1, <1>5, <1>10, OthersKeep
<1>12. exchange[w] \in {"SELF_ATTN", "FFN"} /\ layer[w] \in Int
  BY <1>1, NumbersAreIntegers DEF Exchanges
<1>13. /\ AddedNum(w)' = AddedNum(w) /\ PassedNum(w)' = PassedNum(w)
       /\ ReleasedNum(w)' = ReleasedNum(w)
  BY <1>1, <1>5, <1>9, <1>12 DEF AddedNum, PassedNum, ReleasedNum, At, Index,
                                 AddedStages, PassedStages, ReleasedStages
<1>14. Control(w)' /\ Memory(w)'
  BY <1>1, <1>2, <1>9, <1>12 DEF Control, Memory, PartSlot, SumSlot
<1>15. LastSum'
  <2>1. \A x \in Exchanges : memory'[0][SumSlot(x)] = memory[0][SumSlot(x)]
    BY <1>2, <1>9, <1>10, ZeroIsWorker DEF SumSlot, PartSlot, Slots
  <2> QED BY <1>1, <1>5, <1>11, <1>13, <2>1, ZeroIsWorker DEF RoundInv, LastSum, PartsOf, PartOf
<1> QED
  BY <1>5, <1>7, <1>8, <1>11, <1>13, <1>14, <1>15, QuietStep

(* The wait at the end of a layer.                                          *)
LEMMA LayerEndStep ==
  ASSUME TPInv, round # 0, NEW w \in Workers, LayerEnd(w)
  PROVE  TPInv'
<1> USE DEF LayerEnd, Goto
<1>1. Control(w) /\ Memory(w) /\ pc[w] = "layer_end" /\ RoundInv /\ TPTypeOK
  BY DEF TPInv, RoundInv
<1>2. exchange[w] = "FFN"
  BY <1>1 DEF Control
<1>3. TPTypeOK'
  <2>1. CASE layer[w] < LayerNum
    <3>1. layer' \in [Workers -> Layers]
      BY <1>1, <2>1, ParallelAssumption, SMTT(30) DEF TPTypeOK, Layers
    <3> QED BY <1>1, <2>1, <3>1 DEF TPTypeOK, Exchanges
  <2>2. CASE ~ (layer[w] < LayerNum)
    BY <1>1, <2>2 DEF TPTypeOK
  <2> QED BY <2>1, <2>2
<1>4. SumIsComplete'
  BY DEF TPInv, SumIsComplete, AllParts
<1>5. IF layer[w] < LayerNum
      THEN layer'[w] = layer[w] + 1 /\ exchange'[w] = "SELF_ATTN" /\ pc'[w] = "layer_start"
      ELSE layer'[w] = layer[w] /\ exchange'[w] = exchange[w] /\ pc'[w] = "post"
  BY <1>1 DEF TPTypeOK
<1>6. \A v \in Workers \ {w} : pc'[v] = pc[v] /\ layer'[v] = layer[v] /\ exchange'[v] = exchange[v]
  BY <1>1 DEF TPTypeOK
<1>7. \A v \in Workers \ {w} :
        /\ Control(v)' /\ Memory(v)'
        /\ AddedNum(v)' = AddedNum(v) /\ PassedNum(v)' = PassedNum(v)
        /\ ReleasedNum(v)' = ReleasedNum(v)
  BY <1>1, <1>6, OthersKeep
<1>8. layer[w] \in 1 .. LayerNum
  BY <1>1 DEF TPTypeOK, Layers
<1>9. /\ AddedNum(w)' = AddedNum(w) /\ PassedNum(w)' = PassedNum(w)
      /\ ReleasedNum(w)' = ReleasedNum(w)
  BY <1>1, <1>2, <1>5, <1>8, ParallelAssumption
     DEF AddedNum, PassedNum, ReleasedNum, At, Index, AddedStages, PassedStages, ReleasedStages
<1>10. Control(w)' /\ Memory(w)'
  BY <1>1, <1>2, <1>5, <1>8, ParallelAssumption DEF Control, Memory
<1>11. LastSum'
  BY <1>1, <1>7, <1>9, ZeroIsWorker DEF RoundInv, LastSum, PartsOf, PartOf
<1> QED
  BY <1>3, <1>4, <1>7, <1>9, <1>10, <1>11, QuietStep

(* ProcessPostLayer: slot 1 never holds a sum.                              *)
LEMMA PostLayerStep ==
  ASSUME TPInv, round # 0, NEW w \in Workers, PostLayer(w)
  PROVE  TPInv'
<1> USE DEF PostLayer, Goto
<1>1. Control(w) /\ Memory(w) /\ pc[w] = "post" /\ RoundInv /\ TPTypeOK
  BY DEF TPInv, RoundInv
<1>2. TPTypeOK'
  <2>1. pc' = [pc EXCEPT ![w] = "joined"] /\ UNCHANGED <<round, phase_map, layer, exchange, source, sum>>
    OBVIOUS
  <2>2. CASE memory' = memory /\ top' = [top EXCEPT ![w] = 1]
    <3> HIDE DEF PostLayer
    <3> QED BY <1>1, <2>1, <2>2 DEF TPTypeOK
  <2>3. CASE memory' = [memory EXCEPT ![w][1] = {}] /\ top' = [top EXCEPT ![w] = 2]
    <3> HIDE DEF PostLayer
    <3>1. memory' \in [Workers -> [Slots -> SUBSET Part]]
      BY <1>1, <2>3 DEF TPTypeOK, Slots
    <3>2. top' \in [Workers -> 1 .. 7]
      BY <1>1, <2>3 DEF TPTypeOK
    <3> QED BY <1>1, <2>1, <3>1, <3>2 DEF TPTypeOK
  <2> QED BY <2>2, <2>3
<1>3. SumIsComplete'
  BY DEF TPInv, SumIsComplete, AllParts
<1>4. pc'[w] = "joined" /\ \A s \in Slots \ {1} : memory'[w][s] = memory[w][s]
  BY <1>1 DEF TPTypeOK, Slots
<1>5. \A v \in Workers \ {w} : pc'[v] = pc[v] /\ top'[v] = top[v] /\ memory'[v] = memory[v]
  BY <1>1 DEF TPTypeOK
<1>6. \A v \in Workers \ {w} :
        /\ Control(v)' /\ Memory(v)'
        /\ AddedNum(v)' = AddedNum(v) /\ PassedNum(v)' = PassedNum(v)
        /\ ReleasedNum(v)' = ReleasedNum(v)
  BY <1>1, <1>5, OthersKeep
<1>7. /\ AddedNum(w)' = AddedNum(w) /\ PassedNum(w)' = PassedNum(w)
      /\ ReleasedNum(w)' = ReleasedNum(w)
  BY <1>1, <1>4 DEF AddedNum, PassedNum, ReleasedNum, At, AddedStages, PassedStages, ReleasedStages
<1>8. Control(w)' /\ Memory(w)'
  BY <1>1, <1>4 DEF Control, Memory
<1>9. LastSum'
  <2>1. \A x \in Exchanges : memory'[0][SumSlot(x)] = memory[0][SumSlot(x)]
    BY <1>4, <1>5, ZeroIsWorker DEF SumSlot, Slots
  <2> QED BY <1>1, <1>6, <1>7, <2>1, ZeroIsWorker DEF RoundInv, LastSum, PartsOf, PartOf
<1> QED
  BY <1>2, <1>3, <1>6, <1>7, <1>8, <1>9, QuietStep

(* PartFails and PostLayerFails: the thread ends, no number changes.        *)
LEMMA FailStep ==
  ASSUME TPInv, round # 0, NEW w \in Workers, PartFails(w) \/ PostLayerFails(w)
  PROVE  TPInv'
<1> USE DEF Goto
<1>1. Control(w) /\ Memory(w) /\ RoundInv /\ TPTypeOK
  BY DEF TPInv, RoundInv
<1>2. /\ \/ pc[w] = "part" /\ pc' = [pc EXCEPT ![w] = "failed"]
         \/ pc[w] = "post" /\ pc' = [pc EXCEPT ![w] = "no_output"]
      /\ top' = top \/ top' = [top EXCEPT ![w] = 1]
      /\ UNCHANGED <<round, phase_map, layer, exchange, memory, source, sum>>
  BY DEF PartFails, PostLayerFails
<1>3. TPTypeOK'
  <2>1. top' \in [Workers -> 1 .. 7]
    <3>1. top \in [Workers -> 1 .. 7]
      BY <1>1 DEF TPTypeOK
    <3> QED BY <1>2, <3>1
  <2>2. pc' \in [Workers -> {"joined", "layer_start", "clear", "part", "add", "wait_done", "collect",
                             "merge", "publish", "wait_next", "copy", "layer_end", "post",
                             "failed", "failed_after", "no_output"}]
    BY <1>1, <1>2 DEF TPTypeOK
  <2> QED BY <1>1, <1>2, <2>1, <2>2 DEF TPTypeOK
<1>4. SumIsComplete'
  BY <1>2 DEF TPInv, SumIsComplete, AllParts
<1>5. \/ pc[w] = "part" /\ pc'[w] = "failed"
      \/ pc[w] = "post" /\ pc'[w] = "no_output"
  BY <1>1, <1>2 DEF TPTypeOK
<1>6. \A v \in Workers \ {w} : pc'[v] = pc[v] /\ top'[v] = top[v]
  BY <1>1, <1>2 DEF TPTypeOK
<1>7. \A v \in Workers \ {w} :
        /\ Control(v)' /\ Memory(v)'
        /\ AddedNum(v)' = AddedNum(v) /\ PassedNum(v)' = PassedNum(v)
        /\ ReleasedNum(v)' = ReleasedNum(v)
  BY <1>1, <1>2, <1>6, OthersKeep
<1>8. /\ AddedNum(w)' = AddedNum(w) /\ PassedNum(w)' = PassedNum(w)
      /\ ReleasedNum(w)' = ReleasedNum(w)
  BY <1>2, <1>5 DEF AddedNum, PassedNum, ReleasedNum, At, AddedStages, PassedStages, ReleasedStages
<1>9. Control(w)' /\ Memory(w)'
  BY <1>1, <1>2, <1>5 DEF Control, Memory
<1>10. LastSum'
  BY <1>1, <1>2, <1>7, <1>8, ZeroIsWorker DEF RoundInv, LastSum, PartsOf, PartOf
<1> QED
  BY <1>2, <1>3, <1>4, <1>7, <1>8, <1>9, <1>10, QuietStep

-----------------------------------------------------------------------------
(* MoveToPhase sets one entry of every worker and touches no other.         *)
LEMMA MoveToPhaseEntries ==
  ASSUME NEW ph, NEW ptr, MoveToPhase(ph, ptr)
  PROVE  /\ phase_map' = [v \in Workers |-> phase_map'[v]]
         /\ \A v \in Workers :
              /\ DOMAIN phase_map'[v] = DOMAIN phase_map[v] \cup {ph}
              /\ phase_map'[v][ph] = [input |-> ptr, output |-> NoPointer, is_done |-> FALSE]
              /\ \A q \in DOMAIN phase_map[v] \ {ph} : phase_map'[v][q] = phase_map[v][q]
BY DEF MoveToPhase, With

(* The table keeps its type.                                                *)
LEMMA MoveToPhaseType ==
  ASSUME TPTypeOK, NEW ph \in PhaseIds, NEW ptr \in Pointers \cup {NoPointer}, MoveToPhase(ph, ptr)
  PROVE  \A v \in Workers : /\ DOMAIN phase_map'[v] \subseteq PhaseIds
                            /\ \A q \in DOMAIN phase_map'[v] : phase_map'[v][q] \in PhaseData
<1>1. [input |-> ptr, output |-> NoPointer, is_done |-> FALSE] \in PhaseData
  BY DEF PhaseData
<1> QED BY <1>1, MoveToPhaseEntries, SMTT(30) DEF TPTypeOK

(* LayerStart: the entries of a layer's start are never done.               *)
LEMMA LayerStartStep ==
  ASSUME TPInv, round # 0, NEW w \in Workers, LayerStart(w)
  PROVE  TPInv'
<1> DEFINE ph == <<layer[w], "LAYER_START">>
<1>1. RoundInv /\ TPTypeOK /\ Control(w) /\ pc[w] = "layer_start"
  BY DEF TPInv, RoundInv, LayerStart
<1>2. MoveToPhase(ph, NoPointer) /\ ph \in PhaseIds
  BY <1>1 DEF LayerStart, TPTypeOK, PhaseIds
<1>3. /\ pc' = [pc EXCEPT ![w] = "clear"]
      /\ UNCHANGED <<round, layer, exchange, memory, top, source, sum>>
  BY DEF LayerStart, Goto
<1>4. /\ phase_map' = [v \in Workers |-> phase_map'[v]]
      /\ \A v \in Workers :
           /\ DOMAIN phase_map'[v] = DOMAIN phase_map[v] \cup {ph}
           /\ phase_map'[v][ph] = [input |-> NoPointer, output |-> NoPointer, is_done |-> FALSE]
           /\ \A q \in DOMAIN phase_map[v] \ {ph} : phase_map'[v][q] = phase_map[v][q]
  BY <1>2, MoveToPhaseEntries
<1>5. TPTypeOK'
  <2>1. \A v \in Workers : /\ DOMAIN phase_map'[v] \subseteq PhaseIds
                           /\ \A q \in DOMAIN phase_map'[v] : phase_map'[v][q] \in PhaseData
    BY <1>1, <1>2, MoveToPhaseType
  <2> QED BY <1>1, <1>3, <2>1 DEF TPTypeOK
<1>6. SumIsComplete'
  BY <1>3 DEF TPInv, SumIsComplete, AllParts
<1>7. pc'[w] = "clear" /\ \A v \in Workers \ {w} : pc'[v] = pc[v]
  BY <1>1, <1>3 DEF TPTypeOK
<1>8. \A v \in Workers :
        /\ Control(v)' /\ Memory(v)'
        /\ AddedNum(v)' = AddedNum(v) /\ PassedNum(v)' = PassedNum(v)
        /\ ReleasedNum(v)' = ReleasedNum(v)
  <2>1. \A v \in Workers \ {w} :
          /\ Control(v)' /\ Memory(v)'
          /\ AddedNum(v)' = AddedNum(v) /\ PassedNum(v)' = PassedNum(v)
          /\ ReleasedNum(v)' = ReleasedNum(v)
    BY <1>1, <1>3, <1>7, OthersKeep
  <2>2. /\ Control(w)' /\ Memory(w)'
        /\ AddedNum(w)' = AddedNum(w) /\ PassedNum(w)' = PassedNum(w)
        /\ ReleasedNum(w)' = ReleasedNum(w)
    BY <1>1, <1>3, <1>7 DEF Control, Memory, AddedNum, PassedNum, ReleasedNum, At,
                            AddedStages, PassedStages, ReleasedStages
  <2> QED BY <2>1, <2>2
<1>9. ASSUME NEW v \in Workers PROVE Table(v)'
  <2>1. Table(v) /\ AddedNum(v)' = AddedNum(v) /\ ReleasedNum(0)' = ReleasedNum(0)
    BY <1>1, <1>8, ZeroIsWorker DEF RoundInv
  <2>2. \A l \in Layers : \A x \in {"SELF_ATTN", "FFN", "LAYER_END"} :
          /\ <<l, x>> \in DOMAIN phase_map'[v] <=> <<l, x>> \in DOMAIN phase_map[v]
          /\ <<l, x>> \in DOMAIN phase_map[v] => phase_map'[v][<<l, x>>] = phase_map[v][<<l, x>>]
    BY <1>4
  <2>3. \A l \in Layers : <<l, "LAYER_START">> \in DOMAIN phase_map'[v]
          => ~phase_map'[v][<<l, "LAYER_START">>].is_done
    <3> SUFFICES ASSUME NEW l \in Layers, <<l, "LAYER_START">> \in DOMAIN phase_map'[v]
                 PROVE  ~phase_map'[v][<<l, "LAYER_START">>].is_done
      OBVIOUS
    <3>1. CASE <<l, "LAYER_START">> = ph
      BY <1>4, <3>1
    <3>2. CASE <<l, "LAYER_START">> # ph
      <4>1. /\ <<l, "LAYER_START">> \in DOMAIN phase_map[v]
            /\ phase_map'[v][<<l, "LAYER_START">>] = phase_map[v][<<l, "LAYER_START">>]
        <5> HIDE DEF ph
        <5> QED BY <1>4, <3>2
      <4>2. ~phase_map[v][<<l, "LAYER_START">>].is_done
        BY <2>1, <4>1, Zenon DEF Table
      <4> QED BY <4>1, <4>2
    <3> QED BY <3>1, <3>2
  <2> HIDE DEF ph
  <2>4. ASSUME NEW l \in Layers, NEW x \in Exchanges
        PROVE  /\ (<<l, x>> \in DOMAIN phase_map'[v] /\ phase_map'[v][<<l, x>>].is_done)
                    <=> Index(l, x) < AddedNum(v)'
               /\ Index(l, x) < AddedNum(v)'
                    => phase_map'[v][<<l, x>>].output = <<v, PartSlot(v, x)>>
    <3>1. /\ <<l, x>> \in DOMAIN phase_map'[v] <=> <<l, x>> \in DOMAIN phase_map[v]
          /\ <<l, x>> \in DOMAIN phase_map[v] => phase_map'[v][<<l, x>>] = phase_map[v][<<l, x>>]
      BY <2>2 DEF Exchanges
    <3>2. /\ (<<l, x>> \in DOMAIN phase_map[v] /\ phase_map[v][<<l, x>>].is_done)
                <=> Index(l, x) < AddedNum(v)
          /\ Index(l, x) < AddedNum(v) => phase_map[v][<<l, x>>].output = <<v, PartSlot(v, x)>>
      BY <2>1 DEF Table
    <3> QED BY <2>1, <3>1, <3>2, Zenon
  <2>5. ASSUME NEW l \in Layers
        PROVE  /\ <<l, "FFN">> \in DOMAIN phase_map'[v] <=> Index(l, "SELF_ATTN") < ReleasedNum(0)'
               /\ <<l, "FFN">> \in DOMAIN phase_map'[v] => phase_map'[v][<<l, "FFN">>].input = <<0, 2>>
               /\ <<l, "LAYER_END">> \in DOMAIN phase_map'[v] <=> Index(l, "FFN") < ReleasedNum(0)'
               /\ <<l, "LAYER_END">> \in DOMAIN phase_map'[v]
                    => /\ phase_map'[v][<<l, "LAYER_END">>].input = <<0, 5>>
                       /\ ~phase_map'[v][<<l, "LAYER_END">>].is_done
    <3>1. \A x \in {"FFN", "LAYER_END"} :
            /\ <<l, x>> \in DOMAIN phase_map'[v] <=> <<l, x>> \in DOMAIN phase_map[v]
            /\ <<l, x>> \in DOMAIN phase_map[v] => phase_map'[v][<<l, x>>] = phase_map[v][<<l, x>>]
      BY <2>2
    <3> QED BY <2>1, <3>1, Zenon DEF Table
  <2> QED BY <2>3, <2>4, <2>5 DEF Table
<1>10. Order' /\ LastSum'
  BY <1>1, <1>3, <1>8, ZeroIsWorker DEF RoundInv, Order, LastSum, PartsOf, PartOf
<1> QED
  BY <1>3, <1>4, <1>5, <1>6, <1>8, <1>9, <1>10 DEF TPInv, RoundInv

(* PhaseDone: the poll that finds every part added.                         *)
LEMMA PhaseDoneStep ==
  ASSUME TPInv, round # 0, NEW w \in Workers, PhaseDone(w)
  PROVE  TPInv'
<1> USE DEF PhaseDone, Goto
<1>1. RoundInv /\ TPTypeOK /\ Control(w) /\ Memory(w) /\ pc[w] = "wait_done"
  BY DEF TPInv, RoundInv
<1>2. TPTypeOK'
  BY <1>1 DEF TPTypeOK
<1>3. SumIsComplete'
  BY DEF TPInv, SumIsComplete, AllParts
<1>4. /\ pc'[w] = IF w = 0 THEN "collect" ELSE "wait_next"
      /\ \A v \in Workers \ {w} : pc'[v] = pc[v]
  BY <1>1 DEF TPTypeOK
<1>5. \A v \in Workers \ {w} :
        /\ Control(v)' /\ Memory(v)'
        /\ AddedNum(v)' = AddedNum(v) /\ PassedNum(v)' = PassedNum(v)
        /\ ReleasedNum(v)' = ReleasedNum(v)
  BY <1>1, <1>4, OthersKeep
<1>6. Control(w)' /\ Memory(w)'
  BY <1>1, <1>4 DEF Control, Memory, PartOf
<1>7. /\ AddedNum(w)' = AddedNum(w) /\ PassedNum(w)' = At(w) + 1
      /\ ReleasedNum(w)' = ReleasedNum(w)
  BY <1>1, <1>4 DEF AddedNum, PassedNum, ReleasedNum, At, AddedStages, PassedStages, ReleasedStages
<1>8. \A v \in Workers : At(w) + 1 <= AddedNum(v)
  <2> SUFFICES ASSUME NEW v \in Workers PROVE At(w) + 1 <= AddedNum(v)
    OBVIOUS
  <2>1. <<layer[w], exchange[w]>> \in DOMAIN phase_map[v]
          /\ phase_map[v][<<layer[w], exchange[w]>>].is_done
    BY DEF IsPhaseDone, CurPhase
  <2>2. layer[w] \in Layers /\ exchange[w] \in Exchanges
    BY <1>1 DEF TPTypeOK
  <2>3. At(w) < AddedNum(v)
    BY <1>1, <2>1, <2>2 DEF RoundInv, Table, At
  <2> QED BY <1>1, <2>3, NumbersAreIntegers
<1>9. Order'
  <2>1. \A u, v \in Workers : PassedNum(v)' <= AddedNum(u)'
    BY <1>1, <1>5, <1>7, <1>8 DEF RoundInv, Order
  <2>2. \A v \in Workers : ReleasedNum(v)' <= ReleasedNum(0)'
    BY <1>1, <1>5, <1>7, ZeroIsWorker DEF RoundInv, Order
  <2> QED BY <2>1, <2>2 DEF Order
<1>10. ASSUME NEW v \in Workers PROVE Table(v)'
  <2>1. Table(v) /\ AddedNum(v)' = AddedNum(v) /\ ReleasedNum(0)' = ReleasedNum(0)
    BY <1>1, <1>5, <1>7, ZeroIsWorker DEF RoundInv
  <2>2. phase_map' = phase_map
    OBVIOUS
  <2> HIDE DEF PhaseDone
  <2> QED BY <2>1, <2>2, ZenonT(60) DEF Table
<1>11. LastSum'
  BY <1>1, <1>5, <1>7, ZeroIsWorker DEF RoundInv, LastSum, PartsOf, PartOf
<1> QED
  BY <1>2, <1>3, <1>5, <1>6, <1>9, <1>10, <1>11 DEF TPInv, RoundInv

(* InNextPhase: the next phase is there only after worker 0 has published,  *)
(* and its input is where worker 0 has put the sum.                         *)
LEMMA InNextPhaseStep ==
  ASSUME TPInv, round # 0, NEW w \in Workers, InNextPhase(w)
  PROVE  TPInv'
<1>1. RoundInv /\ TPTypeOK /\ Control(w) /\ Memory(w) /\ Table(w) /\ pc[w] = "wait_next"
  BY DEF TPInv, RoundInv, InNextPhase
<1>2. layer[w] \in Layers /\ exchange[w] \in {"SELF_ATTN", "FFN"}
  BY <1>1 DEF TPTypeOK, Exchanges
<1>3. NextPhase(w) \in DOMAIN phase_map[w]
  BY DEF InNextPhase, IsInPhase
<1>4. phase_map[w][NextPhase(w)].input = <<0, SumSlot(exchange[w])>> /\ At(w) < ReleasedNum(0)
  BY <1>1, <1>2, <1>3 DEF NextPhase, Table, SumSlot, At
<1>5. /\ source' = [source EXCEPT ![w] = {<<0, SumSlot(exchange[w])>>}]
      /\ pc' = [pc EXCEPT ![w] = "copy"]
      /\ UNCHANGED <<round, phase_map, layer, exchange, memory, top, sum>>
  BY <1>4 DEF InNextPhase, Goto
<1>6. TPTypeOK'
  <2>1. <<0, SumSlot(exchange[w])>> \in Pointers
    BY ZeroIsWorker DEF Pointers, SumSlot, Slots
  <2>2. source' \in [Workers -> SUBSET Pointers]
    BY <1>1, <1>5, <2>1 DEF TPTypeOK
  <2> QED BY <1>1, <1>5, <2>2 DEF TPTypeOK
<1>7. SumIsComplete'
  BY <1>5 DEF TPInv, SumIsComplete, AllParts
<1>8. /\ pc'[w] = "copy" /\ source'[w] = {<<0, SumSlot(exchange[w])>>}
      /\ \A v \in Workers \ {w} : pc'[v] = pc[v] /\ source'[v] = source[v]
  BY <1>1, <1>5 DEF TPTypeOK
<1>9. \A v \in Workers \ {w} :
        /\ Control(v)' /\ Memory(v)'
        /\ AddedNum(v)' = AddedNum(v) /\ PassedNum(v)' = PassedNum(v)
        /\ ReleasedNum(v)' = ReleasedNum(v)
  BY <1>1, <1>5, <1>8, OthersKeep
<1>10. w # 0
  BY <1>1 DEF Control
<1>11. Control(w)' /\ Memory(w)'
  <2>1. PartSlot(w, exchange[w]) \in Int /\ top[w] = PartSlot(w, exchange[w]) + 1
    BY <1>1 DEF PartSlot, Control
  <2>2. Control(w)'
    BY <1>5, <1>8, <1>10, <2>1 DEF Control
  <2>3. Memory(w)'
    BY <1>5, <1>8 DEF Memory
  <2> QED BY <2>2, <2>3
<1>12. /\ AddedNum(w)' = AddedNum(w) /\ PassedNum(w)' = PassedNum(w)
       /\ ReleasedNum(w)' = At(w) + 1
  BY <1>1, <1>5, <1>8 DEF AddedNum, PassedNum, ReleasedNum, At, AddedStages, PassedStages, ReleasedStages
<1>13. Order'
  <2>1. \A u, v \in Workers : PassedNum(v)' <= AddedNum(u)'
    BY <1>1, <1>9, <1>12 DEF RoundInv, Order
  <2>2. At(w) + 1 <= ReleasedNum(0)
    BY <1>1, <1>4, NumbersAreIntegers, ZeroIsWorker
  <2>3. \A v \in Workers : ReleasedNum(v)' <= ReleasedNum(0)'
    BY <1>1, <1>9, <1>10, <1>12, <2>2, ZeroIsWorker DEF RoundInv, Order
  <2> QED BY <2>1, <2>3 DEF Order
<1>14. ASSUME NEW v \in Workers PROVE Table(v)'
  <2>1. Table(v) /\ AddedNum(v)' = AddedNum(v) /\ ReleasedNum(0)' = ReleasedNum(0)
    BY <1>1, <1>9, <1>10, <1>12, ZeroIsWorker DEF RoundInv
  <2> QED BY <1>5, <2>1, ZenonT(60) DEF Table
<1>15. LastSum'
  BY <1>1, <1>5, <1>9, <1>10, ZeroIsWorker DEF RoundInv, LastSum, PartsOf, PartOf
<1> QED
  BY <1>5, <1>6, <1>7, <1>9, <1>11, <1>13, <1>14, <1>15 DEF TPInv, RoundInv

(* AddPart: the worker's entry for this exchange, and no other, is done.    *)
LEMMA AddPartStep ==
  ASSUME TPInv, round # 0, NEW w \in Workers, AddPart(w)
  PROVE  TPInv'
<1> DEFINE ph == <<layer[w], exchange[w]>>
           entry == [Entry(w, ph) EXCEPT !.output = <<w, PartSlot(w, exchange[w])>>, !.is_done = TRUE]
<1>1. /\ RoundInv /\ TPTypeOK /\ Control(w) /\ Memory(w) /\ Table(w) /\ pc[w] = "add"
      /\ phase_map = [v \in Workers |-> phase_map[v]]
  BY DEF TPInv, RoundInv, AddPart
<1>2. layer[w] \in Layers /\ exchange[w] \in Exchanges /\ ph \in PhaseIds
  BY <1>1 DEF TPTypeOK, PhaseIds, Exchanges
<1>3. top[w] - 1 = PartSlot(w, exchange[w]) /\ <<w, PartSlot(w, exchange[w])>> \in Pointers
  BY <1>1 DEF Control, PartSlot, Pointers, Slots
<1>4. /\ phase_map' = [phase_map EXCEPT ![w] = With(@, ph, entry)]
      /\ pc' = [pc EXCEPT ![w] = "wait_done"]
      /\ UNCHANGED <<round, layer, exchange, memory, top, source, sum>>
  BY <1>3 DEF AddPart, Add, Goto, CurPhase
<1>5. /\ entry \in PhaseData /\ entry.output = <<w, PartSlot(w, exchange[w])>> /\ entry.is_done
      /\ ph \in DOMAIN phase_map[w] => entry.input = phase_map[w][ph].input
  BY <1>1, <1>3, ZenonT(60) DEF Entry, PhaseData, TPTypeOK
<1> HIDE DEF entry
<1>6. /\ phase_map' = [v \in Workers |-> phase_map'[v]]
      /\ \A v \in Workers \ {w} : phase_map'[v] = phase_map[v]
      /\ phase_map'[w] = With(phase_map[w], ph, entry)
  BY <1>1, <1>4
<1>7. /\ DOMAIN phase_map'[w] = DOMAIN phase_map[w] \cup {ph}
      /\ phase_map'[w][ph] = entry
      /\ \A q \in DOMAIN phase_map[w] \ {ph} : phase_map'[w][q] = phase_map[w][q]
  BY <1>6 DEF With
<1> HIDE DEF ph
<1>8. TPTypeOK'
  <2> SUFFICES ASSUME NEW v \in Workers
               PROVE  /\ DOMAIN phase_map'[v] \subseteq PhaseIds
                      /\ \A q \in DOMAIN phase_map'[v] : phase_map'[v][q] \in PhaseData
    BY <1>1, <1>4 DEF TPTypeOK
  <2>1. CASE v = w
    BY <1>1, <1>2, <1>5, <1>7, <2>1 DEF TPTypeOK
  <2>2. CASE v # w
    BY <1>1, <1>6, <2>2 DEF TPTypeOK
  <2> QED BY <2>1, <2>2
<1>9. SumIsComplete'
  BY <1>4 DEF TPInv, SumIsComplete, AllParts
<1>10. pc'[w] = "wait_done" /\ \A v \in Workers \ {w} : pc'[v] = pc[v]
  BY <1>1, <1>4 DEF TPTypeOK
<1>11. \A v \in Workers \ {w} :
         /\ Control(v)' /\ Memory(v)'
         /\ AddedNum(v)' = AddedNum(v) /\ PassedNum(v)' = PassedNum(v)
         /\ ReleasedNum(v)' = ReleasedNum(v)
  BY <1>1, <1>4, <1>10, OthersKeep
<1>12. Control(w)' /\ Memory(w)'
  BY <1>1, <1>4, <1>10 DEF Control, Memory, PartOf
<1>13. /\ AddedNum(w) = At(w) /\ AddedNum(w)' = At(w) + 1
       /\ PassedNum(w)' = PassedNum(w) /\ ReleasedNum(w)' = ReleasedNum(w)
  BY <1>1, <1>4, <1>10, NumbersAreIntegers
     DEF AddedNum, PassedNum, ReleasedNum, At, AddedStages, PassedStages, ReleasedStages
<1>14. Order' /\ LastSum'
  <2>1. ReleasedNum(0)' = ReleasedNum(0)
    BY <1>11, <1>13, ZeroIsWorker
  <2>2. ASSUME NEW u \in Workers, NEW v \in Workers PROVE PassedNum(v)' <= AddedNum(u)'
    <3>1. /\ PassedNum(v) <= AddedNum(u) /\ PassedNum(v)' = PassedNum(v)
          /\ AddedNum(u)' \in {AddedNum(u), AddedNum(u) + 1}
          /\ PassedNum(v) \in Int /\ AddedNum(u) \in Int
      BY <1>1, <1>11, <1>13, NumbersAreIntegers DEF RoundInv, Order
    <3> QED BY <3>1
  <2>3. \A v \in Workers : ReleasedNum(v)' <= ReleasedNum(0)'
    BY <1>1, <1>11, <1>13, <2>1, ZeroIsWorker DEF RoundInv, Order
  <2>4. Order'
    BY <2>2, <2>3 DEF Order
  <2>5. LastSum'
    BY <1>1, <1>4, <2>1 DEF RoundInv, LastSum, PartsOf, PartOf
  <2> QED BY <2>4, <2>5
<1>15. ASSUME NEW v \in Workers \ {w} PROVE Table(v)'
  <2>1. /\ Table(v) /\ AddedNum(v)' = AddedNum(v) /\ ReleasedNum(0)' = ReleasedNum(0)
        /\ phase_map'[v] = phase_map[v]
    BY <1>1, <1>6, <1>11, <1>13, ZeroIsWorker DEF RoundInv
  <2>2. \A l \in Layers, x \in Exchanges :
          /\ (<<l, x>> \in DOMAIN phase_map'[v] /\ phase_map'[v][<<l, x>>].is_done)
               <=> Index(l, x) < AddedNum(v)'
          /\ Index(l, x) < AddedNum(v)' => phase_map'[v][<<l, x>>].output = <<v, PartSlot(v, x)>>
    <3>1. \A l \in Layers, x \in Exchanges :
            /\ (<<l, x>> \in DOMAIN phase_map[v] /\ phase_map[v][<<l, x>>].is_done)
                 <=> Index(l, x) < AddedNum(v)
            /\ Index(l, x) < AddedNum(v) => phase_map[v][<<l, x>>].output = <<v, PartSlot(v, x)>>
      BY <2>1 DEF Table
    <3> QED BY <2>1, <3>1
  <2>3. \A l \in Layers :
          /\ <<l, "FFN">> \in DOMAIN phase_map'[v] <=> Index(l, "SELF_ATTN") < ReleasedNum(0)'
          /\ <<l, "FFN">> \in DOMAIN phase_map'[v] => phase_map'[v][<<l, "FFN">>].input = <<0, 2>>
          /\ <<l, "LAYER_END">> \in DOMAIN phase_map'[v] <=> Index(l, "FFN") < ReleasedNum(0)'
          /\ <<l, "LAYER_END">> \in DOMAIN phase_map'[v]
               => /\ phase_map'[v][<<l, "LAYER_END">>].input = <<0, 5>>
                  /\ ~phase_map'[v][<<l, "LAYER_END">>].is_done
          /\ <<l, "LAYER_START">> \in DOMAIN phase_map'[v]
               => ~phase_map'[v][<<l, "LAYER_START">>].is_done
    BY <2>1 DEF Table
  <2> QED BY <2>2, <2>3, Zenon DEF Table
<1>16. Table(w)'
  <2>1. ReleasedNum(0)' = ReleasedNum(0)
    BY <1>11, <1>13, ZeroIsWorker
  <2>2. ASSUME NEW l \in Layers, NEW x \in Exchanges
        PROVE  /\ (<<l, x>> \in DOMAIN phase_map'[w] /\ phase_map'[w][<<l, x>>].is_done)
                    <=> Index(l, x) < AddedNum(w)'
               /\ Index(l, x) < AddedNum(w)'
                    => phase_map'[w][<<l, x>>].output = <<w, PartSlot(w, x)>>
    <3>1. CASE <<l, x>> = ph
      <4>1. l = layer[w] /\ x = exchange[w] /\ Index(l, x) = At(w) /\ At(w) \in Int
        BY <1>1, <3>1, NumbersAreIntegers DEF ph, At
      <4> QED BY <1>5, <1>7, <1>13, <3>1, <4>1
    <3>2. CASE <<l, x>> # ph
      <4>1. Index(l, x) \in Int /\ Index(l, x) # At(w) /\ At(w) \in Int
        BY <1>1, <1>2, <3>2, IndexInjective, NumbersAreIntegers DEF ph, At
      <4>2. Index(l, x) < AddedNum(w)' <=> Index(l, x) < AddedNum(w)
        BY <1>13, <4>1
      <4>3. /\ <<l, x>> \in DOMAIN phase_map'[w] <=> <<l, x>> \in DOMAIN phase_map[w]
            /\ <<l, x>> \in DOMAIN phase_map[w] => phase_map'[w][<<l, x>>] = phase_map[w][<<l, x>>]
        BY <1>7, <3>2
      <4>4. /\ (<<l, x>> \in DOMAIN phase_map[w] /\ phase_map[w][<<l, x>>].is_done)
                 <=> Index(l, x) < AddedNum(w)
            /\ Index(l, x) < AddedNum(w) => phase_map[w][<<l, x>>].output = <<w, PartSlot(w, x)>>
        BY <1>1 DEF Table
      <4> QED BY <4>2, <4>3, <4>4
    <3> QED BY <3>1, <3>2
  <2>3. ASSUME NEW l \in Layers
        PROVE  /\ <<l, "FFN">> \in DOMAIN phase_map'[w] <=> Index(l, "SELF_ATTN") < ReleasedNum(0)'
               /\ <<l, "FFN">> \in DOMAIN phase_map'[w] => phase_map'[w][<<l, "FFN">>].input = <<0, 2>>
    <3>1. /\ <<l, "FFN">> \in DOMAIN phase_map[w] <=> Index(l, "SELF_ATTN") < ReleasedNum(0)
          /\ <<l, "FFN">> \in DOMAIN phase_map[w] => phase_map[w][<<l, "FFN">>].input = <<0, 2>>
      BY <1>1 DEF Table
    <3>2. CASE <<l, "FFN">> = ph
      (* At its second part the worker has copied the attention's sum.      *)
      <4>1. l = layer[w] /\ exchange[w] = "FFN"
        BY <3>2 DEF ph
      <4>2. ReleasedNum(w) = Index(l, "FFN") /\ Index(l, "FFN") = Index(l, "SELF_ATTN") + 1
        BY <1>1, <4>1, NumbersAreIntegers DEF ReleasedNum, ReleasedStages, At, Index
      <4>3. Index(l, "SELF_ATTN") < ReleasedNum(0)
        <5>1. ReleasedNum(w) <= ReleasedNum(0) /\ ReleasedNum(0) \in Int
          BY <1>1, NumbersAreIntegers, ZeroIsWorker DEF RoundInv, Order
        <5>2. Index(l, "SELF_ATTN") \in Int
          BY IndexInjective DEF Exchanges
        <5> QED BY <4>2, <5>1, <5>2
      <4> QED BY <1>5, <1>7, <2>1, <3>1, <3>2, <4>3
    <3>3. CASE <<l, "FFN">> # ph
      BY <1>7, <2>1, <3>1, <3>3
    <3> QED BY <3>2, <3>3
  <2>4. ASSUME NEW l \in Layers, NEW x \in {"LAYER_START", "LAYER_END"}
        PROVE  /\ <<l, x>> \in DOMAIN phase_map'[w] <=> <<l, x>> \in DOMAIN phase_map[w]
               /\ <<l, x>> \in DOMAIN phase_map[w] => phase_map'[w][<<l, x>>] = phase_map[w][<<l, x>>]
    <3>1. <<l, x>> # ph
      BY <1>2 DEF ph, Exchanges
    <3> QED BY <1>7, <3>1
  <2>5. ASSUME NEW l \in Layers
        PROVE  /\ <<l, "LAYER_END">> \in DOMAIN phase_map'[w] <=> Index(l, "FFN") < ReleasedNum(0)'
               /\ <<l, "LAYER_END">> \in DOMAIN phase_map'[w]
                    => /\ phase_map'[w][<<l, "LAYER_END">>].input = <<0, 5>>
                       /\ ~phase_map'[w][<<l, "LAYER_END">>].is_done
               /\ <<l, "LAYER_START">> \in DOMAIN phase_map'[w]
                    => ~phase_map'[w][<<l, "LAYER_START">>].is_done
    BY <1>1, <2>1, <2>4 DEF Table
  <2> QED BY <2>2, <2>3, <2>5, Zenon DEF Table
<1> QED
  BY <1>4, <1>6, <1>8, <1>9, <1>11, <1>12, <1>14, <1>15, <1>16 DEF TPInv, RoundInv

(* Publish: worker 0 moves everyone to the next phase.  No worker is done   *)
(* with that phase, because no worker is further than worker 0.             *)
LEMMA NextNotAdded ==
  ASSUME TPInv, round # 0, pc[0] = "publish", NEW v \in Workers
  PROVE  AddedNum(v) <= At(0) + 1
<1>1. RoundInv /\ TPTypeOK
  BY DEF TPInv
<1>2. ReleasedNum(v) <= ReleasedNum(0) /\ ReleasedNum(0) = At(0) /\ At(0) \in Int
  BY <1>1, ZeroIsWorker, NumbersAreIntegers DEF RoundInv, Order, ReleasedNum, ReleasedStages
<1>3. /\ AddedNum(v) \in {At(v), At(v) + 1} /\ ReleasedNum(v) \in {At(v), At(v) + 1}
      /\ At(v) \in Int
  BY <1>1, NumbersAreIntegers DEF AddedNum, ReleasedNum
<1> QED BY <1>2, <1>3

(* A worker that publishes its part is in step with the others.             *)
LEMMA PublishStep ==
  ASSUME TPInv, round # 0, NEW w \in Workers, Publish(w)
  PROVE  TPInv'
<1> DEFINE ph == NextPhase(0)
           ptr == <<0, SumSlot(exchange[0])>>
<1>1. RoundInv /\ TPTypeOK /\ Control(w) /\ Memory(w) /\ pc[w] = "publish"
  BY DEF TPInv, RoundInv, Publish
<1>2. w = 0 /\ top[0] - 1 = SumSlot(exchange[0])
  BY <1>1 DEF Control, SumSlot
<1>3. /\ layer[0] \in Layers /\ exchange[0] \in {"SELF_ATTN", "FFN"} /\ ph \in PhaseIds
      /\ ptr \in Pointers
  BY <1>1, ZeroIsWorker DEF TPTypeOK, PhaseIds, Exchanges, NextPhase, Pointers, SumSlot, Slots
<1>4. /\ MoveToPhase(ph, ptr)
      /\ source' = [source EXCEPT ![0] = {ptr}]
      /\ pc' = [pc EXCEPT ![0] = "copy"]
      /\ UNCHANGED <<round, layer, exchange, memory, top, sum>>
  BY <1>2 DEF Publish, Goto
<1>5. /\ phase_map' = [v \in Workers |-> phase_map'[v]]
      /\ \A v \in Workers :
           /\ DOMAIN phase_map'[v] = DOMAIN phase_map[v] \cup {ph}
           /\ phase_map'[v][ph] = [input |-> ptr, output |-> NoPointer, is_done |-> FALSE]
           /\ \A q \in DOMAIN phase_map[v] \ {ph} : phase_map'[v][q] = phase_map[v][q]
  BY <1>4, MoveToPhaseEntries
<1> HIDE DEF ph, ptr
<1>6. TPTypeOK'
  <2>1. \A v \in Workers : /\ DOMAIN phase_map'[v] \subseteq PhaseIds
                           /\ \A q \in DOMAIN phase_map'[v] : phase_map'[v][q] \in PhaseData
    BY <1>1, <1>3, <1>4, MoveToPhaseType
  <2>2. source' \in [Workers -> SUBSET Pointers]
    BY <1>1, <1>3, <1>4, ZeroIsWorker DEF TPTypeOK
  <2> QED BY <1>1, <1>4, <2>1, <2>2, ZeroIsWorker DEF TPTypeOK
<1>7. SumIsComplete'
  BY <1>4 DEF TPInv, SumIsComplete, AllParts
<1>8. /\ pc'[0] = "copy" /\ source'[0] = {ptr}
      /\ \A v \in Workers \ {0} : pc'[v] = pc[v] /\ source'[v] = source[v]
  BY <1>1, <1>4, ZeroIsWorker DEF TPTypeOK
<1>9. \A v \in Workers \ {0} :
        /\ Control(v)' /\ Memory(v)'
        /\ AddedNum(v)' = AddedNum(v) /\ PassedNum(v)' = PassedNum(v)
        /\ ReleasedNum(v)' = ReleasedNum(v)
  BY <1>1, <1>4, <1>8, OthersKeep, ZeroIsWorker
<1>10. Control(0)' /\ Memory(0)'
  <2>1. SumSlot(exchange[0]) \in Int /\ top[0] = SumSlot(exchange[0]) + 1
    BY <1>1, <1>2 DEF Control, SumSlot
  <2>2. Control(0)'
    BY <1>4, <1>8, <2>1 DEF Control
  <2>3. Memory(0)'
    BY <1>4, <1>8 DEF Memory, ptr
  <2> QED BY <2>2, <2>3
<1>11. /\ AddedNum(0)' = AddedNum(0) /\ PassedNum(0)' = PassedNum(0)
       /\ ReleasedNum(0)' = At(0) + 1 /\ ReleasedNum(0) = At(0) /\ At(0) \in Int
  BY <1>1, <1>2, <1>4, <1>8, NumbersAreIntegers, ZeroIsWorker
     DEF AddedNum, PassedNum, ReleasedNum, At, AddedStages, PassedStages, ReleasedStages
<1>12. Order'
  <2>1. \A u, v \in Workers : PassedNum(v)' <= AddedNum(u)'
    BY <1>1, <1>9, <1>11 DEF RoundInv, Order
  <2>2. ASSUME NEW v \in Workers PROVE ReleasedNum(v)' <= ReleasedNum(0)'
    <3>1. ReleasedNum(v) <= ReleasedNum(0) /\ ReleasedNum(v) \in Int
      BY <1>1, NumbersAreIntegers DEF RoundInv, Order
    <3>2. CASE v = 0
      BY <1>11, <3>2
    <3>3. CASE v # 0
      BY <1>9, <1>11, <3>1, <3>3
    <3> QED BY <3>2, <3>3
  <2> QED BY <2>1, <2>2 DEF Order
<1>13. LastSum'
  <2> SUFFICES ASSUME NEW l \in Layers, NEW x \in Exchanges, Index(l, x) + 1 = At(0) + 1
               PROVE  memory[0][SumSlot(x)] = PartsOf(l, x)
    BY <1>4, <1>11 DEF LastSum, PartsOf, PartOf
  <2>1. l = layer[0] /\ x = exchange[0]
    BY <1>3, <1>11, IndexInjective DEF At, Exchanges
  <2> QED BY <1>1, <1>2, <2>1 DEF Memory
<1>14. ASSUME NEW v \in Workers PROVE Table(v)'
  <2>1. Table(v) /\ AddedNum(v)' = AddedNum(v)
    BY <1>1, <1>9, <1>11 DEF RoundInv
  <2>2. AddedNum(v) <= At(0) + 1 /\ AddedNum(v) \in Int
    BY <1>1, <1>2, NextNotAdded, NumbersAreIntegers
  <2>3. At(0) = Index(layer[0], exchange[0])
    BY DEF At
  <2>4. ASSUME NEW l \in Layers, NEW x \in Exchanges
        PROVE  /\ (<<l, x>> \in DOMAIN phase_map'[v] /\ phase_map'[v][<<l, x>>].is_done)
                    <=> Index(l, x) < AddedNum(v)'
               /\ Index(l, x) < AddedNum(v)'
                    => phase_map'[v][<<l, x>>].output = <<v, PartSlot(v, x)>>
    <3>1. /\ (<<l, x>> \in DOMAIN phase_map[v] /\ phase_map[v][<<l, x>>].is_done)
               <=> Index(l, x) < AddedNum(v)
          /\ Index(l, x) < AddedNum(v) => phase_map[v][<<l, x>>].output = <<v, PartSlot(v, x)>>
      BY <2>1 DEF Table
    <3>2. CASE <<l, x>> = ph
      <4>1. l = layer[0] /\ x = "FFN" /\ exchange[0] = "SELF_ATTN"
        BY <1>3, <3>2 DEF ph, NextPhase, Exchanges
      <4>2. Index(l, x) = At(0) + 1
        BY <1>3, <2>3, <4>1, ParallelAssumption DEF Index, Layers
      <4>3. ~ (Index(l, x) < AddedNum(v))
        BY <1>11, <2>2, <4>2
      <4> QED BY <1>5, <2>1, <3>2, <4>3
    <3>3. CASE <<l, x>> # ph
      BY <1>5, <2>1, <3>1, <3>3
    <3> QED BY <3>2, <3>3
  <2>5. ASSUME NEW l \in Layers
        PROVE  /\ <<l, "FFN">> \in DOMAIN phase_map'[v] <=> Index(l, "SELF_ATTN") < ReleasedNum(0)'
               /\ <<l, "FFN">> \in DOMAIN phase_map'[v] => phase_map'[v][<<l, "FFN">>].input = <<0, 2>>
    <3>1. /\ <<l, "FFN">> \in DOMAIN phase_map[v] <=> Index(l, "SELF_ATTN") < At(0)
          /\ <<l, "FFN">> \in DOMAIN phase_map[v] => phase_map[v][<<l, "FFN">>].input = <<0, 2>>
      BY <1>11, <2>1 DEF Table
    <3>2. <<l, "FFN">> = ph <=> Index(l, "SELF_ATTN") = At(0)
      BY <1>3, <2>3, IndexInjective DEF ph, NextPhase, Exchanges
    <3>3. Index(l, "SELF_ATTN") \in Int
      BY IndexInjective DEF Exchanges
    <3>4. CASE <<l, "FFN">> = ph
      <4>1. ptr = <<0, 2>>
        BY <3>4 DEF ph, ptr, NextPhase, SumSlot
      <4> QED BY <1>5, <1>11, <3>2, <3>3, <3>4, <4>1
    <3>5. CASE <<l, "FFN">> # ph
      <4>1. Index(l, "SELF_ATTN") < ReleasedNum(0)' <=> Index(l, "SELF_ATTN") < At(0)
        BY <1>11, <3>2, <3>3, <3>5
      <4> QED BY <1>5, <3>1, <3>5, <4>1
    <3> QED BY <3>4, <3>5
  <2>6. ASSUME NEW l \in Layers
        PROVE  /\ <<l, "LAYER_END">> \in DOMAIN phase_map'[v] <=> Index(l, "FFN") < ReleasedNum(0)'
               /\ <<l, "LAYER_END">> \in DOMAIN phase_map'[v]
                    => /\ phase_map'[v][<<l, "LAYER_END">>].input = <<0, 5>>
                       /\ ~phase_map'[v][<<l, "LAYER_END">>].is_done
    <3>1. /\ <<l, "LAYER_END">> \in DOMAIN phase_map[v] <=> Index(l, "FFN") < At(0)
          /\ <<l, "LAYER_END">> \in DOMAIN phase_map[v]
               => /\ phase_map[v][<<l, "LAYER_END">>].input = <<0, 5>>
                  /\ ~phase_map[v][<<l, "LAYER_END">>].is_done
      BY <1>11, <2>1 DEF Table
    <3>2. <<l, "LAYER_END">> = ph <=> Index(l, "FFN") = At(0)
      BY <1>3, <2>3, IndexInjective DEF ph, NextPhase, Exchanges
    <3>3. Index(l, "FFN") \in Int
      BY IndexInjective DEF Exchanges
    <3>4. CASE <<l, "LAYER_END">> = ph
      <4>1. ptr = <<0, 5>>
        BY <1>3, <3>4 DEF ph, ptr, NextPhase, SumSlot
      <4> QED BY <1>5, <1>11, <3>2, <3>3, <3>4, <4>1
    <3>5. CASE <<l, "LAYER_END">> # ph
      <4>1. Index(l, "FFN") < ReleasedNum(0)' <=> Index(l, "FFN") < At(0)
        BY <1>11, <3>2, <3>3, <3>5
      <4> QED BY <1>5, <3>1, <3>5, <4>1
    <3> QED BY <3>4, <3>5
  <2>7. ASSUME NEW l \in Layers
        PROVE  <<l, "LAYER_START">> \in DOMAIN phase_map'[v]
                 => ~phase_map'[v][<<l, "LAYER_START">>].is_done
    <3>1. <<l, "LAYER_START">> # ph
      BY <1>3 DEF ph, NextPhase
    <3>2. <<l, "LAYER_START">> \in DOMAIN phase_map[v]
            => ~phase_map[v][<<l, "LAYER_START">>].is_done
      BY <2>1 DEF Table
    <3> QED BY <1>5, <3>1, <3>2
  <2> QED BY <2>4, <2>5, <2>6, <2>7, Zenon DEF Table
<1>15. \A v \in Workers : Control(v)' /\ Memory(v)'
  BY <1>9, <1>10
<1> QED
  BY <1>4, <1>5, <1>6, <1>7, <1>12, <1>13, <1>14, <1>15 DEF TPInv, RoundInv

-----------------------------------------------------------------------------
(* Every step keeps the invariant: one lemma per action.                    *)
LEMMA TPNextInv == TPInv /\ [TPNext]_tpVars => TPInv'
<1> SUFFICES ASSUME TPInv, [TPNext]_tpVars PROVE TPInv'
  OBVIOUS
<1>1. CASE StartRound
  BY <1>1, StartRoundStep
<1>2. ASSUME NEW w \in Workers, WorkerStep(w) PROVE TPInv'
  <2>1. pc[w] # "joined"
    BY <1>2 DEF WorkerStep, LayerStart, ClearLayerLocalMemory, ComputeAttention, ComputeFeedForward,
                ComputePart, AddPart, PhaseDone, Collect, MergeTensors, Publish, InNextPhase, CopySum,
                LayerEnd, PostLayer, PartFails, PostLayerFails
  <2>2. round # 0
    BY <2>1 DEF TPInv
  <2>3. \/ LayerStart(w) \/ ClearLayerLocalMemory(w) \/ ComputePart(w)
        \/ AddPart(w) \/ PhaseDone(w) \/ Collect(w) \/ MergeTensors(w) \/ Publish(w)
        \/ InNextPhase(w) \/ CopySum(w) \/ LayerEnd(w) \/ PostLayer(w)
        \/ PartFails(w) \/ PostLayerFails(w)
    BY <1>2 DEF WorkerStep, ComputeAttention, ComputeFeedForward
  <2> QED
    BY <2>2, <2>3, LayerStartStep, ClearStep, ComputePartStep, AddPartStep, PhaseDoneStep, CollectStep,
       MergeStep, PublishStep, InNextPhaseStep, CopySumStep, LayerEndStep, PostLayerStep,
       FailStep
<1>3. CASE UNCHANGED tpVars
  <2>1. /\ round' = round /\ phase_map' = phase_map /\ pc' = pc /\ layer' = layer
        /\ exchange' = exchange /\ memory' = memory /\ top' = top /\ source' = source /\ sum' = sum
    BY <1>3 DEF tpVars
  <2>2. TPTypeOK' /\ SumIsComplete' /\ phase_map' = [w \in Workers |-> phase_map'[w]]
    BY <2>1 DEF TPInv, TPTypeOK, SumIsComplete, AllParts
  <2>3. CASE round = 0
    BY <2>1, <2>2, <2>3 DEF TPInv
  <2>4. CASE round # 0
    <3>1. \A v \in Workers :
            /\ Control(v)' /\ Memory(v)'
            /\ AddedNum(v)' = AddedNum(v) /\ PassedNum(v)' = PassedNum(v)
            /\ ReleasedNum(v)' = ReleasedNum(v)
      BY <2>1, <2>4 DEF TPInv, RoundInv, Control, Memory, PartsOf, PartOf, AddedNum, PassedNum,
                        ReleasedNum, At
    <3>2. LastSum'
      BY <2>1, <2>4, <3>1, ZeroIsWorker DEF TPInv, RoundInv, LastSum, PartsOf, PartOf
    <3> QED BY <2>1, <2>2, <2>4, <3>1, <3>2, QuietStep
  <2> QED BY <2>3, <2>4
<1> QED
  BY <1>1, <1>2, <1>3 DEF TPNext, AllDone

(* The inductive invariant holds throughout.                                *)
LEMMA TPInvariant == TPSpec => []TPInv
<1>1. TPInit => TPInv
  BY TPInitInv
<1>2. TPInv /\ [TPNext]_tpVars => TPInv'
  BY TPNextInv
<1> QED
  BY <1>1, <1>2, PTL DEF TPSpec

(* Type correctness of a device group: the phases of the table are those of *)
(* the layers, no layer allocates more than the six tensors of its heap,    *)
(* pointers between workers stay within the heaps.                          *)
THEOREM TensorParallelTypes == TPSpec => []TPTypeOK
<1>1. TPInv => TPTypeOK
  BY DEF TPInv
<1> QED
  BY <1>1, TPInvariant, PTL

(* What DistributeAndMergeTensors returns to a worker is exactly the sum of *)
(* all workers' parts in this exchange, for any number of devices and       *)
(* layers, although nothing but polling the phase table keeps worker 0 from *)
(* overwriting a sum that others have yet to copy.                          *)
THEOREM SumsAreComplete == TPSpec => []SumIsComplete
<1>1. TPInv => SumIsComplete
  BY DEF TPInv
<1> QED
  BY <1>1, TPInvariant, PTL

(* No worker is more than one exchange ahead of another.                    *)
THEOREM WorkersInStep == TPSpec => []AtMostOneAhead
<1>1. ASSUME TPInv PROVE AtMostOneAhead
  <2> SUFFICES ASSUME round > 0, NEW v \in Workers, NEW w \in Workers
               PROVE  Completed(v) <= Completed(w) + 1
    BY DEF AtMostOneAhead
  <2>1. TPTypeOK /\ RoundInv
    BY <1>1, ParallelAssumption DEF TPInv, TPTypeOK
  <2>2. \A u \in Workers : exchange[u] \in {"SELF_ATTN", "FFN"} /\ layer[u] \in Int /\ At(u) \in Int
    BY <2>1, NumbersAreIntegers DEF Exchanges
  <2>3. \A u \in Workers : Completed(u) = At(u) + (IF pc[u] \in FinishedStages THEN 1 ELSE 0)
    BY <2>2 DEF Completed, At, Index, FinishedStages
  <2>4. Completed(v) <= ReleasedNum(v)
    BY <2>2, <2>3 DEF ReleasedNum, ReleasedStages, FinishedStages
  <2>5. AddedNum(w) <= Completed(w) + 1
    BY <2>2, <2>3 DEF AddedNum, AddedStages, PassedStages, ReleasedStages, FinishedStages
  <2>6. ReleasedNum(v) <= ReleasedNum(0) /\ PassedNum(0) <= AddedNum(w)
    BY <2>1, ZeroIsWorker DEF RoundInv, Order
  <2>7. ReleasedNum(0) <= PassedNum(0)
    BY <2>2, ZeroIsWorker DEF ReleasedNum, PassedNum, PassedStages
  <2>8. Completed(v) \in Int /\ Completed(w) \in Int
    BY <2>2, <2>3
  <2> QED
    BY <2>1, <2>4, <2>5, <2>6, <2>7, <2>8, NumbersAreIntegers, ZeroIsWorker
<1> QED
  BY <1>1, TPInvariant, PTL

(* Nobody is given a sum that misses the part of a worker that failed: the  *)
(* worker's part is not added, so nobody has passed the poll of IsPhaseDone *)
(* in that exchange, and nobody ever does.                                  *)
THEOREM FailuresAreNotPassed == TPSpec => []NobodyPassesAFailure
<1>1. ASSUME TPInv PROVE NobodyPassesAFailure
  <2> SUFFICES ASSUME NEW v \in Workers, NEW w \in Workers, pc[w] \in {"failed", "failed_after"}
               PROVE  Completed(v) <= Completed(w)
    BY DEF NobodyPassesAFailure
  <2>1. TPTypeOK /\ RoundInv
    BY <1>1 DEF TPInv
  <2>2. \A u \in Workers : exchange[u] \in {"SELF_ATTN", "FFN"} /\ layer[u] \in Int /\ At(u) \in Int
    BY <2>1, NumbersAreIntegers DEF Exchanges
  <2>3. \A u \in Workers : Completed(u) = At(u) + (IF pc[u] \in FinishedStages THEN 1 ELSE 0)
    BY <2>2 DEF Completed, At, Index, FinishedStages
  <2>4. Completed(v) <= PassedNum(v)
    BY <2>2, <2>3 DEF PassedNum, PassedStages, ReleasedStages, FinishedStages
  <2>5. AddedNum(w) = Completed(w)
    BY <2>2, <2>3 DEF AddedNum, AddedStages, PassedStages, ReleasedStages, FinishedStages
  <2>6. PassedNum(v) <= AddedNum(w)
    BY <2>1 DEF RoundInv, Order
  <2>7. Completed(v) \in Int /\ Completed(w) \in Int
    BY <2>2, <2>3
  <2> QED
    BY <2>1, <2>4, <2>5, <2>6, <2>7, NumbersAreIntegers
<1> QED
  BY <1>1, TPInvariant, PTL

(* A done entry stays done while its round lasts: LayerStart touches only   *)
(* entries that are never done, and Publish moves to a phase nobody has     *)
(* added to.                                                                *)
THEOREM PartsStayAdded == TPSpec => DoneIsKept
<1> DEFINE Kept ==
      round' = round =>
        \A w \in Workers : \A ph \in DOMAIN phase_map[w] :
          phase_map[w][ph].is_done => ph \in DOMAIN phase_map'[w] /\ phase_map'[w][ph].is_done
<1>1. ASSUME TPInv, [TPNext]_tpVars PROVE [Kept]_tpVars
  <2> SUFFICES ASSUME TPNext, round' = round, NEW v \in Workers, NEW q \in DOMAIN phase_map[v],
                      phase_map[v][q].is_done
               PROVE  q \in DOMAIN phase_map'[v] /\ phase_map'[v][q].is_done
    BY <1>1
  <2>1. q \in PhaseIds
    BY <1>1 DEF TPInv, TPTypeOK
  <2>2. ~ StartRound
    BY <1>1, ParallelAssumption DEF StartRound, TPInv, TPTypeOK
  <2>3. CASE phase_map' = phase_map
    BY <2>3
  <2>4. ASSUME NEW w \in Workers, WorkerStep(w), phase_map' # phase_map
        PROVE  q \in DOMAIN phase_map'[v] /\ phase_map'[v][q].is_done
    <3>1. LayerStart(w) \/ AddPart(w) \/ Publish(w)
      BY <2>4 DEF WorkerStep, ClearLayerLocalMemory, ComputeAttention, ComputeFeedForward,
                  ComputePart, PhaseDone, Collect, MergeTensors, InNextPhase, CopySum,
                  LayerEnd, PostLayer, PartFails, PostLayerFails
    <3>2. pc[w] # "joined"
      BY <3>1 DEF LayerStart, AddPart, Publish
    <3>3. round # 0 /\ RoundInv /\ TPTypeOK /\ Table(v) /\ Control(w)
      BY <1>1, <3>2 DEF TPInv, RoundInv
    <3>4. layer[w] \in Layers /\ exchange[w] \in {"SELF_ATTN", "FFN"}
      BY <3>3 DEF TPTypeOK, Exchanges
    <3>5. CASE LayerStart(w)
      <4>1. MoveToPhase(<<layer[w], "LAYER_START">>, NoPointer)
        BY <3>5 DEF LayerStart
      <4>2. q # <<layer[w], "LAYER_START">>
        BY <3>3, <3>4 DEF Table
      <4>3. /\ DOMAIN phase_map'[v] = DOMAIN phase_map[v] \cup {<<layer[w], "LAYER_START">>}
            /\ \A r \in DOMAIN phase_map[v] \ {<<layer[w], "LAYER_START">>} : phase_map'[v][r] = phase_map[v][r]
        BY <4>1, MoveToPhaseEntries
      <4> QED BY <4>2, <4>3
    <3>6. CASE Publish(w)
      <4>1. w = 0 /\ pc[0] = "publish"
        BY <3>3, <3>6 DEF Control, Publish
      <4>2. MoveToPhase(NextPhase(0), <<w, top[w] - 1>>)
        BY <3>6, <4>1 DEF Publish
      <4>3. q # NextPhase(0)
        <5>1. CASE exchange[0] = "SELF_ATTN"
          <6>1. Index(layer[0], "FFN") = At(0) + 1 /\ At(0) \in Int
            BY <3>4, <4>1, <5>1, ParallelAssumption DEF At, Index, Layers
          <6>2. AddedNum(v) <= At(0) + 1 /\ AddedNum(v) \in Int
            BY <1>1, <3>3, <4>1, NextNotAdded, NumbersAreIntegers
          <6>3. ~ (Index(layer[0], "FFN") < AddedNum(v))
            BY <6>1, <6>2
          <6>4. q # <<layer[0], "FFN">>
            BY <3>3, <3>4, <4>1, <6>3 DEF Table, Exchanges
          <6> QED BY <5>1, <6>4 DEF NextPhase
        <5>2. CASE exchange[0] # "SELF_ATTN"
          <6>1. q # <<layer[0], "LAYER_END">>
            BY <3>3, <3>4, <4>1 DEF Table
          <6> QED BY <5>2, <6>1 DEF NextPhase
        <5> QED BY <5>1, <5>2
      <4>4. /\ DOMAIN phase_map'[v] = DOMAIN phase_map[v] \cup {NextPhase(0)}
            /\ \A r \in DOMAIN phase_map[v] \ {NextPhase(0)} : phase_map'[v][r] = phase_map[v][r]
        BY <4>2, MoveToPhaseEntries
      <4> QED BY <4>3, <4>4
    <3>7. CASE AddPart(w)
      <4>1. Add(w, CurPhase(w), <<w, top[w] - 1>>)
        BY <3>7 DEF AddPart
      <4>2. CASE v # w
        BY <1>1, <4>1, <4>2 DEF Add, TPInv
      <4>3. CASE v = w
        <5> DEFINE entry == [Entry(w, CurPhase(w)) EXCEPT !.output = <<w, top[w] - 1>>, !.is_done = TRUE]
        <5>1. phase_map'[w] = With(phase_map[w], CurPhase(w), entry)
          BY <1>1, <4>1 DEF Add, TPInv
        <5>2. entry.is_done
          BY <3>3 DEF Entry, TPTypeOK, PhaseData
        <5> HIDE DEF entry
        <5>3. /\ DOMAIN phase_map'[w] = DOMAIN phase_map[w] \cup {CurPhase(w)}
              /\ phase_map'[w][CurPhase(w)] = entry
              /\ \A p \in DOMAIN phase_map[w] \ {CurPhase(w)} : phase_map'[w][p] = phase_map[w][p]
          BY <5>1 DEF With
        <5> QED BY <4>3, <5>2, <5>3
      <4> QED BY <4>2, <4>3
    <3> QED BY <3>1, <3>5, <3>6, <3>7
  <2> QED
    BY <2>2, <2>3, <2>4 DEF TPNext, AllDone, tpVars
<1> QED
  BY <1>1, TPInvariant, PTL DEF TPSpec, DoneIsKept
=============================================================================
