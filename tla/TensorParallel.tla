--------------------------- MODULE TensorParallel ---------------------------
(***************************************************************************)
(* One device group working on a decoder-only network partitioned by       *)
(* tensor: GpuInfGlobalData (gpu_inf_global_data.{h,cu}), the layers of    *)
(* GpuInferenceWorker (inference_worker.cc) and the rounds of              *)
(* InferenceEngine::Infer_TensorParallelism (inference_engine.cc).         *)
(*                                                                         *)
(* In every layer each worker computes a part of the attention output and  *)
(* later of the feed-forward output.  An exchange adds the parts up:       *)
(* worker 0 merges them in its own memory and every worker copies the sum. *)
(* All synchronisation is polling of the phase table, whose operations run *)
(* under its lock; memory is read and written without any lock.            *)
(*                                                                         *)
(* The content of a tensor is the set of parts summed up in it.  The heap  *)
(* of a layer is a stack that is emptied, not erased, at the next layer.   *)
(*                                                                         *)
(* A computation may fail.  The thread that meets the failure ends without *)
(* an output; nobody tells the others, which poll for a part that is never *)
(* added.  The last product of a part is added whether it failed or not:   *)
(* the attention's result is not looked at (MatrixMultiplicationEx with    *)
(* wo), the feed-forward's only after the exchange.                        *)
(***************************************************************************)
EXTENDS Integers, FiniteSets

CONSTANTS
  WorkerNum,  (* devices in the group                                       *)
  LayerNum,   (* layers the group processes                                 *)
  RoundNum    (* bound on the calls of Infer_TensorParallelism              *)

ASSUME ParallelAssumption ==
  /\ WorkerNum \in Nat \ {0}
  /\ LayerNum \in Nat \ {0}
  /\ RoundNum \in Nat

Workers   == 0 .. WorkerNum - 1
Layers    == 1 .. LayerNum
Exchanges == {"SELF_ATTN", "FFN"}
PhaseIds  == Layers \X {"LAYER_START", "SELF_ATTN", "FFN", "LAYER_END"}

(* Slots of a layer's heap in the order of allocation: the attention's      *)
(* output, the sum and the copy of it, and the same for the feed-forward.   *)
Slots == 1 .. 6

VARIABLES
  round,      (* calls of Infer_TensorParallelism so far                    *)
  phase_map,  (* per worker: phase_map of its WorkerData                    *)
  pc,         (* per worker: what its thread does next                      *)
  layer,      (* per worker: layer_idx                                      *)
  exchange,   (* per worker: the exchange it is in or comes to              *)
  memory,     (* per worker: contents of layer_local_device_heap_           *)
  top,        (* per worker: the slot the heap allocates next               *)
  source,     (* per worker: tensors it has pointers to, as <<worker, slot>>*)
  sum         (* per worker: the last tensor an exchange returned to it     *)

tpVars == <<round, phase_map, pc, layer, exchange, memory, top, source, sum>>

Part     == [round : Nat, layer : Layers, exchange : Exchanges, worker : Workers]
Pointers == Workers \X Slots

NoSum == [round |-> 0, layer |-> 1, exchange |-> "SELF_ATTN", parts |-> {}]

TPInit ==
  /\ round = 0
  /\ phase_map = [w \in Workers |-> [ph \in {} |-> {}]]
  /\ pc = [w \in Workers |-> "joined"]
  /\ layer = [w \in Workers |-> 1]
  /\ exchange = [w \in Workers |-> "SELF_ATTN"]
  /\ memory = [w \in Workers |-> [s \in Slots |-> {}]]
  /\ top = [w \in Workers |-> 1]
  /\ source = [w \in Workers |-> {}]
  /\ sum = [w \in Workers |-> NoSum]

-----------------------------------------------------------------------------
(* GpuInfGlobalData.  An entry keeps the output a worker offers, the input  *)
(* it is given, and is_done.                                                *)
NoPointer == <<-1, 0>>

With(map, ph, entry) ==
  [p \in DOMAIN map \cup {ph} |-> IF p = ph THEN entry ELSE map[p]]

Entry(w, ph) ==
  IF ph \in DOMAIN phase_map[w] THEN phase_map[w][ph]
  ELSE [input |-> NoPointer, output |-> NoPointer, is_done |-> FALSE]

(* A faulty variant, for mutation: one worker's part is entered for all.    *)
Add_ForAll(w, ph, ptr) ==
  phase_map' = [v \in Workers |->
    With(phase_map[v], ph, [Entry(v, ph) EXCEPT !.output = ptr, !.is_done = TRUE])]

Add(w, ph, ptr) ==
  phase_map' = [phase_map EXCEPT ![w] =
    With(@, ph, [Entry(w, ph) EXCEPT !.output = ptr, !.is_done = TRUE])]

(* A faulty variant, for mutation: a worker without an entry is passed over.*)
IsPhaseDone_Skip(ph) ==
  \A w \in Workers : ph \in DOMAIN phase_map[w] => phase_map[w][ph].is_done

IsPhaseDone(ph) ==
  \A w \in Workers : ph \in DOMAIN phase_map[w] /\ phase_map[w][ph].is_done

IsInPhase(ph) == \A w \in Workers : ph \in DOMAIN phase_map[w]

MoveToPhase(ph, ptr) ==
  phase_map' = [w \in Workers |->
    With(phase_map[w], ph, [input |-> ptr, output |-> NoPointer, is_done |-> FALSE])]

GetOutputTensors(ph) ==
  {phase_map[w][ph].output : w \in {v \in Workers : ph \in DOMAIN phase_map[v]}}

-----------------------------------------------------------------------------
Goto(w, label) == pc' = [pc EXCEPT ![w] = label]

(* CreateLocalTensor in the heap of the layer, and the computation that     *)
(* fills the tensor.                                                        *)
NewTensor(w, content) ==
  /\ memory' = [memory EXCEPT ![w][top[w]] = content]
  /\ top' = [top EXCEPT ![w] = @ + 1]

(* All threads of the round have been joined, the last with the output.     *)
ThreadsEnded ==
  \A w \in Workers : pc[w] \in {"joined", "failed", "failed_after", "no_output"}

RoundEnded == ThreadsEnded /\ pc[WorkerNum - 1] = "joined"

(* Infer_TensorParallelism: the phase table is cleared and the threads are  *)
(* created; this happens only after all threads of the last round joined,   *)
(* the last of them with an output.                                         *)
(* Run starts with ClearLocalMemory.                                        *)
StartRound ==
  /\ round < RoundNum
  /\ RoundEnded
  /\ round' = round + 1
  /\ phase_map' = [w \in Workers |-> [ph \in {} |-> {}]]
  /\ pc' = [w \in Workers |-> "layer_start"]
  /\ layer' = [w \in Workers |-> 1]
  /\ exchange' = [w \in Workers |-> "SELF_ATTN"]
  /\ top' = [w \in Workers |-> 1]
  /\ UNCHANGED <<memory, source, sum>>

(* A faulty variant, for mutation: the layer starts with the attention's    *)
(* phase, which another worker may already have added to.                   *)
LayerStart_Attention(w) ==
  /\ pc[w] = "layer_start"
  /\ MoveToPhase(<<layer[w], "SELF_ATTN">>, NoPointer)
  /\ Goto(w, "clear")
  /\ UNCHANGED <<round, layer, exchange, memory, top, source, sum>>

(* Every worker moves all workers to the start of its layer.                *)
LayerStart(w) ==
  /\ pc[w] = "layer_start"
  /\ MoveToPhase(<<layer[w], "LAYER_START">>, NoPointer)
  /\ Goto(w, "clear")
  /\ UNCHANGED <<round, layer, exchange, memory, top, source, sum>>

(* A faulty variant, for mutation: the heap is never emptied.               *)
ClearLayerLocalMemory_Not(w) ==
  /\ pc[w] = "clear"
  /\ Goto(w, "part")
  /\ UNCHANGED <<round, phase_map, layer, exchange, memory, top, source, sum>>

ClearLayerLocalMemory(w) ==
  /\ pc[w] = "clear"
  /\ top' = [top EXCEPT ![w] = 1]
  /\ Goto(w, "part")
  /\ UNCHANGED <<round, phase_map, layer, exchange, memory, source, sum>>

ComputePart(w) ==
  /\ pc[w] = "part"
  /\ NewTensor(w, {[round |-> round, layer |-> layer[w], exchange |-> exchange[w], worker |-> w]})
  /\ Goto(w, "add")
  /\ UNCHANGED <<round, phase_map, layer, exchange, source, sum>>

(* ProcessGpuLayer_Attention and ProcessGpuLayer_FeedForward up to their    *)
(* exchange: the worker's part of the output.                               *)
ComputeAttention(w)   == exchange[w] = "SELF_ATTN" /\ ComputePart(w)
ComputeFeedForward(w) == exchange[w] = "FFN" /\ ComputePart(w)

(* The computation fails, and with it the layer: Run returns, the thread    *)
(* has no output and adds no part.                                          *)
PartFails(w) ==
  /\ pc[w] = "part"
  /\ Goto(w, "failed")
  /\ UNCHANGED <<round, phase_map, layer, exchange, memory, top, source, sum>>

-----------------------------------------------------------------------------
(* DistributeAndMergeTensors.                                               *)
CurPhase(w)  == <<layer[w], exchange[w]>>
NextPhase(w) == <<layer[w], IF exchange[w] = "SELF_ATTN" THEN "FFN" ELSE "LAYER_END">>

AddPart(w) ==
  /\ pc[w] = "add"
  /\ Add(w, CurPhase(w), <<w, top[w] - 1>>)
  /\ Goto(w, "wait_done")
  /\ UNCHANGED <<round, layer, exchange, memory, top, source, sum>>

(* The poll that finds every part added; worker 0 takes the pointers next.  *)
PhaseDone(w) ==
  /\ pc[w] = "wait_done"
  /\ IsPhaseDone(CurPhase(w))
  /\ Goto(w, IF w = 0 THEN "collect" ELSE "wait_next")
  /\ UNCHANGED <<round, phase_map, layer, exchange, memory, top, source, sum>>

Collect(w) ==
  /\ pc[w] = "collect"
  /\ source' = [source EXCEPT ![w] = GetOutputTensors(CurPhase(w))]
  /\ Goto(w, "merge")
  /\ UNCHANGED <<round, phase_map, layer, exchange, memory, top, sum>>

(* MergeTensors reads the parts where the workers have them.                *)
MergeTensors(w) ==
  /\ pc[w] = "merge"
  /\ NewTensor(w, UNION {memory[ptr[1]][ptr[2]] : ptr \in source[w]})
  /\ Goto(w, "publish")
  /\ UNCHANGED <<round, phase_map, layer, exchange, source, sum>>

Publish(w) ==
  /\ pc[w] = "publish"
  /\ MoveToPhase(NextPhase(w), <<w, top[w] - 1>>)
  /\ source' = [source EXCEPT ![w] = {<<w, top[w] - 1>>}]
  /\ Goto(w, "copy")
  /\ UNCHANGED <<round, layer, exchange, memory, top, sum>>

(* The poll that finds the next phase begun, and GetInputTensor.            *)
InNextPhase(w) ==
  /\ pc[w] = "wait_next"
  /\ IsInPhase(NextPhase(w))
  /\ source' = [source EXCEPT ![w] = {phase_map[w][NextPhase(w)].input}]
  /\ Goto(w, "copy")
  /\ UNCHANGED <<round, phase_map, layer, exchange, memory, top, sum>>

(* The copy of the sum out of worker 0's memory, where by now worker 0 may  *)
(* be doing something else.  If the product with w2 had failed, before the  *)
(* exchange, the worker ends only now.                                      *)
CopySum(w) ==
  /\ pc[w] = "copy"
  /\ \E ptr \in source[w] :
       LET content == memory[ptr[1]][ptr[2]]
       IN  /\ NewTensor(w, content)
           /\ sum' = [sum EXCEPT ![w] = [round |-> round, layer |-> layer[w],
                                          exchange |-> exchange[w], parts |-> content]]
  /\ source' = [source EXCEPT ![w] = {}]
  /\ IF exchange[w] = "SELF_ATTN"
     THEN exchange' = [exchange EXCEPT ![w] = "FFN"] /\ Goto(w, "part")
     ELSE (Goto(w, "layer_end") \/ Goto(w, "failed_after")) /\ UNCHANGED exchange
  /\ UNCHANGED <<round, phase_map, layer>>

-----------------------------------------------------------------------------
(* The wait at the end of ProcessGpuLayer, and the loop of Run.             *)
LayerEnd(w) ==
  /\ pc[w] = "layer_end"
  /\ IsInPhase(<<layer[w], "LAYER_END">>)
  /\ IF layer[w] < LayerNum
     THEN /\ layer' = [layer EXCEPT ![w] = @ + 1]
          /\ exchange' = [exchange EXCEPT ![w] = "SELF_ATTN"]
          /\ Goto(w, "layer_start")
     ELSE Goto(w, "post") /\ UNCHANGED <<layer, exchange>>
  /\ UNCHANGED <<round, phase_map, memory, top, source, sum>>

(* ProcessPostLayer: the heap is emptied; the last worker may allocate a    *)
(* quantised input of the output matrix.  Then the thread ends.             *)
PostLayer(w) ==
  /\ pc[w] = "post"
  /\ \/ memory' = memory /\ top' = [top EXCEPT ![w] = 1]
     \/ /\ w = WorkerNum - 1
        /\ memory' = [memory EXCEPT ![w][1] = {}]
        /\ top' = [top EXCEPT ![w] = 2]
  /\ Goto(w, "joined")
  /\ UNCHANGED <<round, phase_map, layer, exchange, source, sum>>

(* The product with the output matrix, which only the last worker has, may  *)
(* fail: the thread ends, and the round's output is missing.                *)
PostLayerFails(w) ==
  /\ pc[w] = "post" /\ w = WorkerNum - 1
  /\ top' = [top EXCEPT ![w] = 1]
  /\ Goto(w, "no_output")
  /\ UNCHANGED <<round, phase_map, layer, exchange, memory, source, sum>>

WorkerStep(w) ==
  \/ LayerStart(w) \/ ClearLayerLocalMemory(w) \/ ComputeAttention(w) \/ ComputeFeedForward(w)
  \/ PartFails(w) \/ AddPart(w) \/ PhaseDone(w) \/ Collect(w) \/ MergeTensors(w) \/ Publish(w)
  \/ InNextPhase(w) \/ CopySum(w) \/ LayerEnd(w) \/ PostLayer(w) \/ PostLayerFails(w)

(* The exchanges a worker has completed in this round.                      *)
Completed(w) == 2 * (layer[w] - 1) + (IF exchange[w] = "FFN" THEN 1 ELSE 0)
  + (IF pc[w] \in {"layer_end", "post", "joined", "failed_after", "no_output"} THEN 1 ELSE 0)

(* The caller uses the null output of the last worker.                      *)
OutputMissing == ThreadsEnded /\ pc[WorkerNum - 1] # "joined"

(* Workers have failed, and all others have added their part to the very    *)
(* exchange these never come to; they poll in IsPhaseDone for ever.         *)
Stalled ==
  /\ \A w \in Workers : pc[w] \in {"failed", "failed_after", "wait_done"}
  /\ \E v, w \in Workers : pc[v] = "wait_done" /\ pc[w] # "wait_done"
  /\ \A v, w \in Workers : Completed(v) = Completed(w)

(* The bound on rounds is reached, or there never is another round.         *)
AllDone ==
  /\ (round = RoundNum /\ RoundEnded) \/ OutputMissing \/ Stalled
  /\ UNCHANGED tpVars

TPNext == StartRound \/ AllDone \/ \E w \in Workers : WorkerStep(w)

TPSpec == TPInit /\ [][TPNext]_tpVars

(* The polling loops sleep a microsecond; every thread keeps running.       *)
FairTPSpec ==
  TPSpec /\ WF_tpVars(StartRound) /\ \A w \in Workers : WF_tpVars(WorkerStep(w))

-----------------------------------------------------------------------------
PhaseData ==
  [ input : Pointers \cup {NoPointer}, output : Pointers \cup {NoPointer}, is_done : BOOLEAN ]

TPTypeOK ==
  /\ round \in 0 .. RoundNum
  /\ \A w \in Workers :
       /\ DOMAIN phase_map[w] \subseteq PhaseIds
       /\ \A ph \in DOMAIN phase_map[w] : phase_map[w][ph] \in PhaseData
  /\ pc \in [Workers -> {"joined", "layer_start", "clear", "part", "add", "wait_done", "collect",
                         "merge", "publish", "wait_next", "copy", "layer_end", "post",
                         "failed", "failed_after", "no_output"}]
  /\ layer \in [Workers -> Layers]
  /\ exchange \in [Workers -> Exchanges]
  /\ memory \in [Workers -> [Slots -> SUBSET Part]]
  /\ top \in [Workers -> 1 .. 7]
  /\ source \in [Workers -> SUBSET Pointers]
  /\ sum \in [Workers -> [round : Nat, layer : Layers, exchange : Exchanges, parts : SUBSET Part]]

AllParts(x) ==
  {[round |-> x.round, layer |-> x.layer, exchange |-> x.exchange, worker |-> w] : w \in Workers}

(* What an exchange returns to a worker is the sum of exactly the parts of  *)
(* all workers in this exchange: nothing of another layer, and not what     *)
(* worker 0 has since put where the sum was, although worker 0 may be in    *)
(* the next layer, with its heap emptied, before the others have copied the *)
(* sum (DistributeAndMergeTensors, ClearLayerLocalMemory).                  *)
SumIsComplete ==
  \A w \in Workers : sum[w] = NoSum \/ sum[w].parts = AllParts(sum[w])

(* No worker is more than one exchange ahead of another: this is what keeps *)
(* the memory of a sum untouched until everyone has copied it.              *)
AtMostOneAhead ==
  round > 0 => \A v, w \in Workers : Completed(v) <= Completed(w) + 1

(* Nobody is ahead of a worker that has failed, whatever the others had     *)
(* begun: no sum is ever returned without its part, although the others are *)
(* stopped by nothing but the poll that misses its entry (IsPhaseDone).     *)
NobodyPassesAFailure ==
  \A v, w \in Workers : pc[w] \in {"failed", "failed_after"} => Completed(v) <= Completed(w)

(* A part that was added to a phase stays added until the table is cleared  *)
(* for the next round: no MoveToPhase, of any worker at any time, resets    *)
(* is_done of a worker that has done its part; a worker waiting in          *)
(* IsPhaseDone would wait forever.                                          *)
DoneIsKept ==
  [][round' = round =>
       \A w \in Workers : \A ph \in DOMAIN phase_map[w] :
         phase_map[w][ph].is_done => ph \in DOMAIN phase_map'[w] /\ phase_map'[w][ph].is_done]_tpVars

(* Every round ends with an output unless a computation of it fails: no two *)
(* workers ever wait for each other.  After a failure, either the threads   *)
(* end without an output, or all others come to poll for the missing part   *)
(* in the same exchange, and Infer_TensorParallelism never returns.         *)
EveryRoundEnds ==
  \A n \in 1 .. RoundNum : <>((round = n /\ RoundEnded) \/ OutputMissing \/ Stalled)
=============================================================================
