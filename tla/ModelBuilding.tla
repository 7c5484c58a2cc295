---------------------------- MODULE ModelBuilding ----------------------------
(***************************************************************************)
(* From a model file to the first round: InferenceEngine::Init             *)
(* (inference_engine.cc), the eager building of device tensors by the      *)
(* readers (model_reader.cc), NetworkBuilder::BuildDeviceNetwork with its  *)
(* DeviceTensorBuilder threads (network_builder.cc,                        *)
(* device_tensor_builder.cu), CreateGpuWorkers, the CPU worker, and a      *)
(* round through the CPU worker and the worker groups (Infer_Gpu,          *)
(* Infer_Std, Infer_TensorParallelism, GpuInferenceWorker::Run).           *)
(*                                                                         *)
(* A layer's tensors are read and built together.  Building may fail at    *)
(* any layer, as it does when a device has no memory left, and so may the  *)
(* Init of a worker and the computation of a layer.  "undefined" is the    *)
(* stage after an access outside a vector or through a null pointer,       *)
(* "terminated" the one after std::terminate, "exited" the one after       *)
(* exit(2).  In "hung" the other workers of a group poll for ever, and in  *)
(* "stale" tokens are sampled from the encoder's output in place of the    *)
(* decoder's.                                                              *)
(***************************************************************************)
EXTENDS LayerPartition, Sequences, FiniteSets

CONSTANTS
  MaxLayers,    (* bound on the layers of the encoder and of the decoder     *)
  MaxCpuLayers, (* bound on encoder_cpu_layer_count, decoder_cpu_layer_count *)
  MaxGroups,    (* bound on the device groups                                *)
  BuilderCount  (* threads that build the layers of a group                  *)

ASSUME BuildingAssumption ==
  /\ MaxLayers \in Nat /\ MaxCpuLayers \in Nat
  /\ MaxGroups \in Nat \ {0} /\ BuilderCount \in Nat \ {0}

Kinds    == {"encoder", "decoder"}
Builders == 0 .. BuilderCount - 1

(* What ModelSpec says: the layers, how many of them the CPU processes, the *)
(* device groups, all of one size, and whether the file format embeds the   *)
(* hyper-parameters.  Tensor parallelism is there for decoder layers only.  *)
ModelSpecs ==
  { s \in [ layers : [Kinds -> 0 .. MaxLayers], cpu : [Kinds -> 0 .. MaxCpuLayers],
            groups : 1 .. MaxGroups, group_size : 1 .. 2, embedded : BOOLEAN ] :
      /\ \E k \in Kinds : s.layers[k] > 0
      /\ s.group_size > 1 => s.layers["encoder"] = 0 }

VARIABLES
  spec,      (* model_.spec                                                 *)
  stage,     (* how far Init has come                                       *)
  unread,    (* decoder layers whose tensors have not been read             *)
  net,       (* per kind: the layers of device_net, or of every sub net     *)
  todo,      (* assignments BuildDeviceNetwork has still to build           *)
  builder,   (* builder_list: the tasks left to each thread, and its state  *)
  joined,    (* threads joined                                              *)
  ret,       (* ret of BuildDeviceNetwork                                   *)
  workers,   (* gpu_worker_groups_: per group and kind its LayerRange       *)
  cpu_end,   (* end_layer_ of the CPU worker                                *)
  pass,      (* a pass over the encoder or the decoder                      *)
  dropped    (* history: the groups in which the Init of a worker, or a     *)
             (* layer, failed; nobody looks at these results                *)

mbVars == <<spec, stage, unread, net, todo, builder, joined, ret, workers, cpu_end, pass,
            dropped>>

-----------------------------------------------------------------------------
Strategy ==
  IF spec.group_size <= 1 THEN "BY_LAYER"
  ELSE IF spec.groups = 1 THEN "BY_TENSOR" ELSE "HYBRID"

IsEager ==
  spec.layers["encoder"] = 0 /\ Strategy = "BY_LAYER" /\ ~spec.embedded

IsCpuOnly == \A k \in Kinds : spec.cpu[k] >= spec.layers[k]

(* SplitGpuLayers and GetDeviceAssignments: in the order of the groups, so  *)
(* that the i-th assignment has i - 1 others before it.                     *)
SplitGpuLayers(start_layer, end_layer) ==
  LET las == Assignments(start_layer, end_layer, spec.groups)
  IN  [i \in 1 .. Cardinality(las) |->
         CHOOSE a \in las : Cardinality({b \in las : b.group < a.group}) = i - 1]

GetDeviceAssignments(k) ==
  IF spec.layers[k] > 0 THEN SplitGpuLayers(spec.cpu[k], spec.layers[k]) ELSE <<>>

(* A layer of the device network: its number in the model, whether its      *)
(* tensors are there, and the group on whose devices they are.              *)
NullLayer  == [of |-> -1, state |-> "null", group |-> -1]
EmptyLayer == [of |-> -1, state |-> "empty", group |-> -1]

Layer(l, state, g) == [of |-> l, state |-> state, group |-> g]

MBInit ==
  /\ spec \in ModelSpecs
  /\ stage = "init"
  /\ unread = 0 .. spec.layers["decoder"] - 1
  /\ net = [k \in Kinds |-> <<>>]
  /\ todo = <<>>
  /\ builder = [b \in Builders |-> [tasks |-> {}, state |-> "idle"]]
  /\ joined = 0
  /\ ret = TRUE
  /\ workers = <<>>
  /\ cpu_end = 0
  /\ pass = [kind |-> "encoder", next |-> 1, trace |-> <<>>]
  /\ dropped = {}

(* A faulty variant, for mutation: no place is kept for the CPU's layers.   *)
InitDeviceNetStructure_NoNulls ==
  LET las == GetDeviceAssignments("decoder")
      num == Cardinality(UNION {{i} \X (las[i].start .. las[i].end - 1) : i \in DOMAIN las})
  IN  IF Strategy = "BY_LAYER" THEN [i \in 1 .. num |-> EmptyLayer] ELSE <<>>

(* The decoder layers of the new network: a null pointer for every layer    *)
(* before the first assignment and, by layer, an object for every layer of  *)
(* an assignment.                                                           *)
InitDeviceNetStructure ==
  LET las   == GetDeviceAssignments("decoder")
      nulls == IF las = <<>> THEN 0 ELSE las[1].start
      num   == Cardinality(UNION {{i} \X (las[i].start .. las[i].end - 1) : i \in DOMAIN las})
  IN  [i \in 1 .. nulls |-> NullLayer]
        \o (IF Strategy = "BY_LAYER" THEN [i \in 1 .. num |-> EmptyLayer] ELSE <<>>)

InitNetworkStructure ==
  /\ stage = "init"
  /\ net' = [net EXCEPT !["decoder"] = InitDeviceNetStructure]
  /\ stage' = "read"
  /\ UNCHANGED <<spec, unread, todo, builder, joined, ret, workers, cpu_end, pass, dropped>>

-----------------------------------------------------------------------------
(* Safetensors_ReadTensors and Pickle_ReadTensor: the layers come in any    *)
(* order.  The tensors of a GPU layer are built at once if building is      *)
(* eager; BuildDeviceTensor does not look at the result.                    *)
GetDeviceGroup(l) ==
  LET las == GetDeviceAssignments("decoder")
      hit == {i \in DOMAIN las : Covers(las[i], l)}
  IN  IF hit = {} THEN -1 ELSE las[CHOOSE i \in hit : \A j \in hit : i <= j].group

IsUsable(k, index) == index < Len(net[k]) /\ net[k][index + 1].state # "null"

ReadLayer(l) ==
  /\ stage = "read" /\ l \in unread
  /\ unread' = unread \ {l}
  /\ IF IsEager /\ l >= spec.cpu["decoder"]
     THEN IF GetDeviceAssignments("decoder") = <<>> \/ ~IsUsable("decoder", l)
          THEN stage' = "undefined" /\ UNCHANGED net
          ELSE /\ \E state \in {"built", "hollow"} :
                    net' = [net EXCEPT !["decoder"][l + 1] = Layer(l, state, GetDeviceGroup(l))]
               /\ UNCHANGED stage
     ELSE UNCHANGED <<stage, net>>
  /\ UNCHANGED <<spec, todo, builder, joined, ret, workers, cpu_end, pass, dropped>>

(* A tensor cannot be read, or something else is wrong with the files.      *)
LoadFails ==
  /\ stage = "read"
  /\ stage' = "failed"
  /\ UNCHANGED <<spec, unread, net, todo, builder, joined, ret, workers, cpu_end, pass, dropped>>

(* BuildHostNetwork and CheckHostModel.                                     *)
HostModel ==
  /\ stage = "read" /\ unread = {}
  /\ stage' \in {IF IsCpuOnly THEN "cpu" ELSE "device", "failed"}
  /\ UNCHANGED <<spec, unread, net, todo, builder, joined, ret, workers, cpu_end, pass, dropped>>

-----------------------------------------------------------------------------
(* BuildDeviceNetwork: by layer, the decoder's assignments unless they were *)
(* built eagerly and then the encoder's; else every group of the decoder.   *)
(* ret is false before the loop over the groups.  Groups the heads cannot   *)
(* be divided among are refused, all of them for the same reason.           *)
Tagged(k) ==
  LET las == GetDeviceAssignments(k)
  IN  [i \in DOMAIN las |-> [kind |-> k, la |-> las[i]]]

BuildDeviceNetwork ==
  /\ stage = "device"
  /\ todo' = IF Strategy = "BY_LAYER"
             THEN (IF IsEager THEN <<>> ELSE Tagged("decoder")) \o Tagged("encoder")
             ELSE Tagged("decoder")
  /\ ret' = (Strategy = "BY_LAYER")
  /\ stage' = "group"
  /\ UNCHANGED <<spec, unread, net, builder, joined, workers, cpu_end, pass, dropped>>

NotPartitionable ==
  /\ stage = "device" /\ Strategy # "BY_LAYER"
  /\ stage' = "failed"
  /\ UNCHANGED <<spec, unread, net, todo, builder, joined, ret, workers, cpu_end, pass, dropped>>

(* BuildDeviceTensor_ForceDequant and BuildDeviceTensor_Quant build the     *)
(* tensors around the layers (embeddings, norms, outputs): by layer before  *)
(* all assignments, else before the layers of each group.  At an error they *)
(* call exit.                                                               *)
BuildDeviceTensor_ForceDequant ==
  /\ \/ stage = "device" /\ Strategy = "BY_LAYER"
     \/ stage = "group" /\ Strategy # "BY_LAYER" /\ todo # <<>>
  /\ stage' = "exited"
  /\ UNCHANGED <<spec, unread, net, todo, builder, joined, ret, workers, cpu_end, pass, dropped>>

(* The layers of one assignment become the tasks of the builder threads.    *)
(* BuildDeviceNetwork_ByLayer finds the decoder's layers by their index;    *)
(* the encoder's layers and those of sub nets are appended.  The tensor     *)
(* objects are created with the tasks, their data by the threads.           *)
IsAppended(k) == k = "encoder" \/ Strategy # "BY_LAYER"

StartBuilders ==
  /\ stage = "group" /\ todo # <<>>
  /\ LET k     == Head(todo).kind
         la    == Head(todo).la
         ids   == la.start .. la.end - 1
         known == \A l \in ids : l < spec.layers[k] /\ (IsAppended(k) \/ IsUsable(k, l))
         Place(l) == IF IsAppended(k) THEN Len(net[k]) + 1 + l - la.start ELSE l + 1
     IN  IF ~known
         THEN stage' = "undefined" /\ UNCHANGED <<net, builder, joined>>
         ELSE /\ net' = [net EXCEPT ![k] =
                   LET last == IF IsAppended(k) THEN Len(@) + la.end - la.start ELSE Len(@)
                   IN  [i \in 1 .. last |->
                          IF \E l \in ids : Place(l) = i
                          THEN Layer(CHOOSE l \in ids : Place(l) = i, "hollow", la.group)
                          ELSE net[k][i]]]
              /\ builder' = [b \in Builders |->
                   [ state |-> "running",
                     tasks |-> {Place(l) : l \in {x \in ids : x % BuilderCount = b}} ]]
              /\ joined' = 0
              /\ stage' = "join"
  /\ UNCHANGED <<spec, unread, todo, ret, workers, cpu_end, pass, dropped>>

(* DeviceTensorBuilder::Run: the tasks in order, up to the first that fails.*)
BuilderRun(b) ==
  /\ stage = "join" /\ builder[b].state = "running"
  /\ LET k == Head(todo).kind
         first == {i \in builder[b].tasks : \A j \in builder[b].tasks : i <= j}
     IN  \/ /\ builder[b].tasks = {}
            /\ builder' = [builder EXCEPT ![b].state = "done"]
            /\ UNCHANGED net
         \/ \E i \in first :
            /\ net' = [net EXCEPT ![k][i].state = "built"]
            /\ builder' = [builder EXCEPT ![b].tasks = @ \ {i}]
         \/ /\ first # {}
            /\ builder' = [builder EXCEPT ![b].state = "error"]
            /\ UNCHANGED net
  /\ UNCHANGED <<spec, stage, unread, todo, joined, ret, workers, cpu_end, pass, dropped>>

(* A faulty variant, for mutation: HasError is not asked.                   *)
JoinBuilder_NoCheck ==
  /\ stage = "join"
  /\ builder[joined].state \in {"done", "error"}
  /\ IF joined + 1 < BuilderCount
     THEN joined' = joined + 1 /\ UNCHANGED <<stage, todo, ret>>
     ELSE /\ stage' = "group" /\ todo' = Tail(todo) /\ ret' = TRUE
          /\ UNCHANGED joined
  /\ UNCHANGED <<spec, unread, net, builder, workers, cpu_end, pass, dropped>>

(* A faulty variant, for mutation: one thread too many is joined.           *)
JoinBuilder_OneMore ==
  /\ stage = "join"
  /\ builder[joined].state \in {"done", "error"}
  /\ IF joined < BuilderCount
     THEN joined' = joined + 1 /\ UNCHANGED <<stage, todo, ret>>
     ELSE /\ stage' = "group" /\ todo' = Tail(todo) /\ ret' = TRUE
          /\ UNCHANGED joined
  /\ UNCHANGED <<spec, unread, net, builder, workers, cpu_end, pass, dropped>>

(* The threads are joined in their order.  At the first error the function  *)
(* returns, and the list of builders is destroyed with the threads after    *)
(* this one still joinable: std::terminate.  Only an error of the last      *)
(* thread comes back as false; by tensor, the next group overwrites it.     *)
JoinBuilder ==
  /\ stage = "join"
  /\ builder[joined].state \in {"done", "error"}
  /\ LET error == builder[joined].state = "error"
         last  == joined + 1 = BuilderCount
     IN  \/ /\ ~last /\ ~error
            /\ joined' = joined + 1
            /\ UNCHANGED <<stage, todo, ret>>
         \/ /\ ~last /\ error
            /\ stage' = "terminated"
            /\ UNCHANGED <<todo, joined, ret>>
         \/ /\ last
            /\ ret' = ~error
            /\ todo' = Tail(todo)
            /\ stage' = IF error /\ Strategy = "BY_LAYER" THEN "failed" ELSE "group"
            /\ UNCHANGED joined
  /\ UNCHANGED <<spec, unread, net, builder, workers, cpu_end, pass, dropped>>

-----------------------------------------------------------------------------
(* CreateGpuWorkers: nothing is created unless the longer list of           *)
(* assignments has one for every group, and Init does not look at the       *)
(* result.  A group beyond the shorter list keeps the range of the group    *)
(* before it.                                                               *)
GroupLayerRange(k, g) ==
  LET las == GetDeviceAssignments(k)
      i   == IF g <= Len(las) THEN g ELSE Len(las)
  IN  IF i = 0 THEN [start |-> 0, end |-> 0] ELSE [start |-> las[i].start, end |-> las[i].end]

CreateGpuWorkers ==
  LET counts == {Len(GetDeviceAssignments(k)) : k \in Kinds}
  IN  IF spec.groups \in counts /\ \A n \in counts : n <= spec.groups
      THEN [g \in 1 .. spec.groups |-> [k \in Kinds |-> GroupLayerRange(k, g)]]
      ELSE <<>>

(* The groups with a worker whose Init fails: no memory for its buffers or  *)
(* its KV caches.  CreateGpuWorkers goes on to the next worker all the same *)
(* and keeps this one, with a query_proc_data_list_ that is too short.      *)
InitWorkers(groups) == \E short \in SUBSET groups : dropped' = dropped \cup ({"worker"} \X short)

(* A faulty variant, for mutation: the layers of the CPU are checked too.   *)
CheckDeviceModel_All ==
  /\ stage = "group" /\ todo = <<>>
  /\ LET Some(state) == \E k \in Kinds : \E i \in DOMAIN net[k] : net[k][i].state = state
     IN  \/ /\ ~ret \/ (Some("empty") /\ ~Some("null"))
            /\ stage' = "failed"
            /\ UNCHANGED <<workers, dropped>>
         \/ /\ ret /\ Some("null")
            /\ stage' = "undefined"
            /\ UNCHANGED <<workers, dropped>>
         \/ /\ ret /\ ~Some("null") /\ ~Some("empty")
            /\ stage' = "cpu"
            /\ workers' = CreateGpuWorkers
            /\ InitWorkers(DOMAIN CreateGpuWorkers)
  /\ UNCHANGED <<spec, unread, net, todo, builder, joined, ret, cpu_end, pass>>

(* CheckDeviceModel wants tensor objects in every layer from the CPU's      *)
(* count on; it cannot see whether they have data.                          *)
CheckDeviceModel ==
  /\ stage = "group" /\ todo = <<>>
  /\ LET Some(state) == \E k \in Kinds : \E i \in DOMAIN net[k] :
                          i > spec.cpu[k] /\ net[k][i].state = state
         null  == Some("null")
         empty == Some("empty")
     IN  \/ /\ ~ret \/ (empty /\ ~null)
            /\ stage' = "failed"
            /\ UNCHANGED <<workers, dropped>>
         \/ /\ ret /\ null
            /\ stage' = "undefined"
            /\ UNCHANGED <<workers, dropped>>
         \/ /\ ret /\ ~null /\ ~empty
            /\ stage' = "cpu"
            /\ workers' = CreateGpuWorkers
            /\ InitWorkers(DOMAIN CreateGpuWorkers)
  /\ UNCHANGED <<spec, unread, net, todo, builder, joined, ret, cpu_end, pass>>

(* The CPU's layers: decoder-only networks alone.  The result of            *)
(* BuildCpuLayers is overwritten by that of CpuInferenceWorker::Init, which *)
(* fails if there is no memory for the KV cache, or no layer to keep one of.*)
IsCpuInvolved ==
  IF IsCpuOnly THEN \E k \in Kinds : spec.layers[k] > 0 ELSE \E k \in Kinds : spec.cpu[k] > 0

CreateCpuWorker ==
  /\ stage = "cpu"
  /\ \/ /\ ~IsCpuInvolved
        /\ stage' = "serving"
        /\ UNCHANGED cpu_end
     \/ /\ IsCpuInvolved
        /\ stage' = "failed"
        /\ UNCHANGED cpu_end
     \/ /\ IsCpuInvolved /\ spec.layers["encoder"] = 0
        /\ cpu_end' = IF spec.cpu["decoder"] < spec.layers["decoder"]
                      THEN spec.cpu["decoder"] ELSE spec.layers["decoder"]
        /\ cpu_end' > 0
        /\ stage' = "serving"
  /\ UNCHANGED <<spec, unread, net, todo, builder, joined, ret, workers, pass, dropped>>

-----------------------------------------------------------------------------
(* A pass is recorded as the layers it goes through, with PreLayer for the  *)
(* input transformation and the number of layers for the output.            *)
PreLayer == -1

(* A faulty variant, for mutation: the CPU always ends with the post layer. *)
CpuInference_Post ==
  <<PreLayer>> \o [i \in 1 .. cpu_end |-> i - 1] \o <<spec.layers["decoder"]>>

(* CpuInferenceWorker::Inference, which starts at layer 0.                  *)
CpuInference ==
  <<PreLayer>> \o [i \in 1 .. cpu_end |-> i - 1]
    \o (IF cpu_end = spec.layers["decoder"] THEN <<spec.layers["decoder"]>> ELSE <<>>)

(* Infer_Gpu and Infer_CpuOnly: the encoder first if there is one, and the  *)
(* CPU's layers before those of the devices.                                *)
BeginPass ==
  /\ \/ stage = "serving"
     \/ stage = "passed" /\ pass.kind = "encoder" /\ spec.layers["decoder"] > 0
  /\ LET k == IF stage = "serving" /\ spec.layers["encoder"] > 0 THEN "encoder" ELSE "decoder"
     IN  pass' = [kind |-> k, next |-> 1, trace |-> IF cpu_end > 0 THEN CpuInference ELSE <<>>]
  /\ stage' = IF IsCpuOnly THEN "passed" ELSE "pass"
  /\ UNCHANGED <<spec, unread, net, todo, builder, joined, ret, workers, cpu_end, dropped>>

(* Infer_Std leaves its loop at a group that starts behind the last layer;  *)
(* Infer_TensorParallelism goes through all groups.                         *)
IsOver ==
  pass.next <= Len(workers) =>
    Strategy = "BY_LAYER" /\ workers[pass.next][pass.kind].start >= spec.layers[pass.kind]

(* GpuInferenceWorker::Run of one group.  A worker whose Init failed reads  *)
(* its query_proc_data_list_ at the query's index, which may be outside.    *)
RunWorkers ==
  /\ stage = "pass" /\ ~IsOver
  /\ LET k      == pass.kind
         range  == workers[pass.next][k]
         layers == range.start .. range.end - 1
         num    == spec.layers[k]
     IN  \/ /\ \/ \E l \in layers : ~IsUsable(k, l)
               \/ layers # {} /\ <<"worker", pass.next>> \in dropped
            /\ stage' = "undefined"
            /\ UNCHANGED pass
         \/ /\ \A l \in layers : IsUsable(k, l)
            /\ pass' = [pass EXCEPT !.next = @ + 1,
                          !.trace = @ \o (IF range.start = 0 THEN <<PreLayer>> ELSE <<>>)
                              \o [i \in 1 .. range.end - range.start |-> net[k][range.start + i].of]
                              \o (IF range.end >= num THEN <<num>> ELSE <<>>)]
            /\ UNCHANGED stage
  /\ UNCHANGED <<spec, unread, net, todo, builder, joined, ret, workers, cpu_end, dropped>>

(* Run ends at a layer, or at an input or output transformation, that fails *)
(* (a tensor has no data, the device reports an error).  By layer the       *)
(* output is then null; Infer_Std returns false, Infer_Gpu does not look at *)
(* that and goes on with output.layer_output, which is null or, after the   *)
(* encoder, still the encoder's.  A transformation that fails gives the     *)
(* next step a null pointer.  With tensor parallelism the other workers of  *)
(* the group wait for the part that is never added, unless all have failed. *)
LayerFails ==
  /\ stage = "pass" /\ ~IsOver
  /\ LET k      == pass.kind
         range  == workers[pass.next][k]
         layers == range.start .. range.end - 1
         num    == spec.layers[k]
         second == k = "decoder" /\ spec.layers["encoder"] > 0
     IN  \E x \in layers \cup {y \in {PreLayer} : range.start = 0} \cup {y \in {num} : range.end >= num} :
           /\ dropped' = dropped \cup {<<"layer", pass.next>>}
           /\ \/ stage' = "undefined" /\ ~(second /\ x \in layers)
              \/ stage' = "hung" /\ Strategy # "BY_LAYER" /\ x \in layers
              \/ stage' = "stale" /\ second /\ x # PreLayer
  /\ UNCHANGED <<spec, unread, net, todo, builder, joined, ret, workers, cpu_end, pass>>

(* The output of the last group is sampled from; with no group there is     *)
(* none, and the null pointer is used.                                      *)
EndPass ==
  /\ stage = "pass" /\ IsOver
  /\ stage' = IF pass.next = 1 THEN "undefined" ELSE "passed"
  /\ UNCHANGED <<spec, unread, net, todo, builder, joined, ret, workers, cpu_end, pass, dropped>>

(* The round is over.  Later rounds repeat the passes.                      *)
RoundDone == stage = "passed" /\ (pass.kind = "decoder" \/ spec.layers["decoder"] = 0)

Broken == stage \in {"undefined", "hung", "stale"}

Ended == stage \in {"failed", "exited", "terminated"} \/ Broken \/ RoundDone

MBStep ==
  \/ InitNetworkStructure \/ (\E l \in unread : ReadLayer(l)) \/ LoadFails \/ HostModel
  \/ BuildDeviceNetwork \/ NotPartitionable \/ BuildDeviceTensor_ForceDequant \/ StartBuilders
  \/ (\E b \in Builders : BuilderRun(b)) \/ JoinBuilder
  \/ CheckDeviceModel \/ CreateCpuWorker
  \/ BeginPass \/ RunWorkers \/ LayerFails \/ EndPass

MBNext == MBStep \/ (Ended /\ UNCHANGED mbVars)

MBSpec == MBInit /\ [][MBNext]_mbVars

(* The main thread and the builder threads keep running.                    *)
FairMBSpec == MBSpec /\ WF_mbVars(MBStep)

-----------------------------------------------------------------------------
Positions == 1 .. MaxGroups * MaxLayers + MaxCpuLayers

MBTypeOK ==
  /\ spec \in ModelSpecs
  /\ stage \in {"init", "read", "device", "group", "join", "cpu", "serving", "pass",
                "passed", "failed", "exited", "terminated", "undefined", "hung", "stale"}
  /\ unread \subseteq 0 .. spec.layers["decoder"] - 1
  /\ \A k \in Kinds : DOMAIN net[k] \subseteq Positions /\ \A i \in DOMAIN net[k] :
       net[k][i] \in [ of : -1 .. spec.layers[k] - 1, group : -1 .. spec.groups - 1,
                       state : {"null", "empty", "hollow", "built"} ]
  /\ \A b \in Builders : builder[b].state \in {"idle", "running", "done", "error"}
  /\ joined \in Builders
  /\ ret \in BOOLEAN
  /\ Len(workers) \in {0, spec.groups}
  /\ cpu_end \in 0 .. spec.layers["decoder"]
  /\ pass.kind \in Kinds /\ pass.next \in 1 .. spec.groups + 1
  /\ dropped \subseteq {"worker", "layer"} \X (1 .. spec.groups)

(* A network is regular if SplitGpuLayers gives every group its part of     *)
(* each kind of layer.                                                      *)
IsRegular ==
  \A k \in Kinds : spec.layers[k] > spec.cpu[k]
                     => Regular(spec.cpu[k], spec.layers[k], spec.groups)

(* The layers of a regular network that are not the CPU's are divided among *)
(* all device groups: each belongs to one group, and every group has some   *)
(* (SplitGpuLayers).                                                        *)
SplitIsPartition ==
  IsRegular => \A k \in Kinds : spec.layers[k] > spec.cpu[k]
                 => IsPartition(spec.cpu[k], spec.layers[k], spec.groups)

(* docs/model_serving_config.md: a model is partitioned by layer among the  *)
(* device groups, and decoder_cpu_layer_count is the number of layers that  *)
(* CPUs process rather than GPUs; so every decoder layer that is not a      *)
(* CPU's is given to some group.                                            *)
EveryGpuLayerAssigned ==
  \A l \in spec.cpu["decoder"] .. spec.layers["decoder"] - 1 : GetDeviceGroup(l) # -1

(* One of the errors that are dropped has occurred in the group that runs.  *)
GroupFailed == \E what \in {"worker", "layer"} : <<what, pass.next>> \in dropped

(* For a regular network nothing outside a vector and no null pointer is    *)
(* used, no worker is waited for in vain and no stale output is sampled     *)
(* from, at whatever step of the building an error occurs, unless in the    *)
(* group that runs a worker could not be initialised or a layer failed,     *)
(* whose results CreateGpuWorkers and Infer_Gpu drop: the layers that       *)
(* InitDeviceNetStructure creates, the indices of the readers, of the       *)
(* builders and of the workers agree.                                       *)
NothingOutOfRange == IsRegular /\ Broken => GroupFailed

Serving == stage \in {"serving", "pass", "passed"}

(* When a regular network is served every worker finds its layers, at their *)
(* index, on its own devices, with data: an error of a builder thread keeps *)
(* Init from succeeding.  Two kinds of errors do not, because the code      *)
(* drops the result: those of eager building, and those of a group other    *)
(* than the last of tensor parallelism.                                     *)
ServedLayersBuilt ==
  Serving /\ IsRegular /\ ~IsCpuOnly =>
    /\ Len(workers) = spec.groups
    /\ \A g \in 1 .. spec.groups, k \in Kinds :
         \A l \in workers[g][k].start .. workers[g][k].end - 1 :
           LET layer == net[k][l + 1]
           IN  /\ layer.of = l /\ layer.group = g - 1
               /\ \/ layer.state = "built"
                  \/ IsEager
                  \/ Strategy = "HYBRID" /\ g < spec.groups

(* A pass over a regular network goes through the input transformation, all *)
(* layers in their order, each once, and the output transformation,         *)
(* whichever of them the CPU and which groups process (Inference, Run,      *)
(* Infer_Std, Infer_TensorParallelism).                                     *)
WholeModelRuns ==
  stage = "passed" /\ IsRegular =>
    pass.trace = [i \in 1 .. spec.layers[pass.kind] + 2 |-> i - 2]

(* The building of a regular network and its first round come to an end:    *)
(* with an answer, or with Init's false or exit(2), or with std::terminate, *)
(* but this only after an error of a builder thread.  The round itself does *)
(* not end, or ends with no output of its own, only after a dropped error.  *)
BuildingEnds ==
  IsRegular ~> \/ RoundDone \/ stage \in {"failed", "exited"}
               \/ stage = "terminated" /\ \E b \in Builders : builder[b].state = "error"
               \/ Broken /\ GroupFailed
==============================================================================
