# Formal specification of CodeInferflow's serving path

CodeInferflow is an inference server for transformer language models.  This
directory holds TLA+ specifications of the part of it where threads, locks,
queues and polling meet: from the socket a request arrives on, through the
handler that submits a query, the engine that batches queries and the GPU workers
that compute, back to the client; and of how a model is divided among devices,
built by several threads and put into service.  TLC checks the specifications
on small instances, TLAPS proves the central invariants for every size.

Paths below are relative to the repository.

## The system

| Component | State | Operations | Talks to |
|---|---|---|---|
| Query state table (`src/transformer/query_state_table.*`) | live queries by id, next id, processing slot of each query | Add, Get, Update, UpdateEncoderEnd, Remove, Clear | called by the engine, mostly under `query_state_lock_` |
| Inference engine (`src/transformer/inference_engine.*`) | the table, the input of a round, saturated queries, results | AddQuery, RemoveQuery, Infer, CommitInferenceResult | handlers (AddQuery, RemoveQuery), the service's loop (Infer, Commit), workers, sampling strategies |
| Sampling strategies (`src/transformer/sampling_strategy.*`, `decoding_strategies.*`) | options and generator per query id | BeginQuery, ChooseTokens, EndQuery | called by the engine |
| KV cache (`src/transformer/kv_cache.*`) | keys and values, per slot, layer and row | SetKRows, GetKRows | indexed by the workers with the slot of a query |
| GPU workers (`src/transformer/inference_worker.*`) | local heaps, KV caches | Run: layers, exchange of partial sums | each other, through the phase table |
| Phase table (`src/transformer/gpu_inf_global_data.*`) | per worker and phase: input, output, done | Add, IsPhaseDone, IsInPhase, MoveToPhase | polled by the workers |
| Service (`src/service/inferflow_service.*`) | queues of results by query id | Run/Infer, HandleRequest_Inner | engine, HTTP server |
| HTTP server (`3rd_party/sslib`: `base_tcp_server`, `http_server`, `http_common`, `socket`) | connections by descriptor, task of each connection, queue of tasks, epoll's descriptors | accept loop, epoll thread, workers | clients; calls the service's handlers |
| Network builder (`src/transformer/network_builder.*`, `src/tensor/device_tensor_builder.*`) | layer assignments, device layers, builder threads | InitNetworkStructure, BuildDeviceNetwork, CheckDeviceModel | called by `Init` and, eagerly, by the model readers |
| Start of the engine (`InferenceEngine::Init`, `model_reader.cc`) | model, worker groups, CPU worker | Load, BuildGpuLayers, CreateGpuWorkers | builder, readers, workers |
| CPU worker (`src/transformer/cpu_inference_worker.*`) | its layer range | Inference | runs before the device groups in a round |
| Tokenizer, tensor kernels, sampling arithmetic, JSON formats, file formats, tools | none shared, or numeric | | |

Threads: an accept loop, an epoll thread, a fixed number of HTTP workers (each
runs one handler at a time), one inference loop, for tensor parallelism one
short-lived thread per device in every round, and four builder threads per
device group while a model is loaded.

What is hard here:

* **Admission.**  Capacity is tested in one critical section, the text is
  tokenised, capacity is tested again and the query added in another.
* **Pointers after the unlock.**  `Get` returns pointers to states that
  `RemoveQuery` may delete during the round; queues are used after
  `result_lock_` is released and are deleted before their map entry is.
* **Identity.**  Ids wrap around at 10000 and are the only key of the table,
  the sampling data and the result queues.  Slots are given away at once.
* **Two nets per round.**  An encoder-decoder network is asked for input twice
  in one round, and queries arrive in between.
* **Handlers that leave.**  5000 polls, ten seconds without a token, a client
  that is gone: each leaves something else behind.
* **Polling barriers.**  Workers synchronise only through the phase table while
  memory is read without locks and the heap is recycled at every layer.
* **Descriptors.**  epoll and the connection map know a connection by its
  descriptor; sockets are closed by whoever drops the last reference, and the
  kernel gives the number to the next client at once.
* **Fragments.**  A request comes in as many reads as the network likes.
* **Who builds what.**  Layers are divided with rounding, indexed by four
  pieces of code in different ways, built by threads that may fail one by one,
  and several results are not looked at.
* **Liveness.**  A query must end even if eos is never sampled; a handler must
  end even if its query never yields anything; no worker may wait forever.

`PROJECT.json` lists each of these hazards at its line with the properties
that watch it.

## Modules

| Module | Models |
|---|---|
| `QueryStateTable` | the table; every method is an operator on `query_map`, `next_query_id` |
| `InferenceEngine` (extends it) | callers' AddQuery/RemoveQuery and the engine thread's round |
| `InferFlowService` (extends the engine) | the result queues, the Infer loop and the handlers |
| `TextService` | what a client is promised; no threads, ids or queues |
| `TensorParallel` | phase table, layers and exchange of one device group |
| `LayerPartition` | `SplitGpuLayers` as operators, and what a partition is |
| `ModelBuilding` (extends it) | from the model file to the first round: reading, builder threads, checks, workers, CPU layers |
| `HttpMessage` | reading a request from its pieces, as functions |
| `HttpServer` (extends it) | accept loop, epoll thread, workers, sockets and descriptors |
| `LoopTheorems` | induction over numbers, loops and sums in a form the provers can use |
| `QueryStateTableProofs`, `InferenceEngineProofs` (extends it), `InferFlowServiceProofs` (extends both), `TensorParallelProofs`, `ModelBuildingProofs`, `HttpMessageProofs`, `HttpServerProofs` (extends it) | theorems and proofs |
| `MC*` | instances for TLC |

### QueryStateTable

A `QueryState` keeps the lengths of its token vectors; `req` stands for their
contents and `serial` for the identity of the heap object, so that two states
under one id can be told apart.  `Get` is written in closed form (which ids the
loop selects: the compatible ones before which the tokens do not yet reach
`MaxTokenNum`); `GetLoop` is the loop itself, a state per iteration and a
recursive function over it, and `GetIsLoop` says that the two agree.  This
includes the quirk that the first query is counted by its decoder tokens even
when the encoder will run.

### InferenceEngine

A section under `query_state_lock_` is one action, what happens outside is
another:

| Action | Code |
|---|---|
| `AddQuery_Check` | first capacity test |
| `AddQuery_Invalid` | tokenisation fails, or an empty decoder prefix |
| `AddQuery_Add`, `AddQuery_Full` | second critical section, with BeginQuery |
| `RemoveQuery` | RemoveQuery; records which states the engine still points to |
| `FetchBatch` | GetLocalInput up to the unlock |
| `ReadBatch` | the loop of GetLocalInput over the pointers |
| `Compute` | BuildLocalOutput (KV rows), UpdateEncoderEnd; second pass |
| `ComputeFails` | BuildLocalOutput fails and Infer drops its result (lines 911, 928) |
| `Sample` | SampleTokens or EncoderSampleTokens, HandleSaturatedQueries |
| `CommitInferenceResult` | the commit under the lock, with EndQuery |
| `FollowDangling` | a pointer to a deleted state is followed |

Following a pointer to a deleted state is undefined behaviour.  The model
offers both outcomes: the old contents are still there (the ordinary action), or
anything (`undefined`, after which nothing more is claimed).  A state that is
overwritten in the table when its id is used again is leaked by the code, not
deleted, and stays readable.  When a computation fails, the first output of a
round is null and is dereferenced (`undefined`), the second one is still the
encoder's and is sampled from, and with tensor parallelism the engine thread
waits for its workers for ever (`phase = "hung"`); `MayFailCompute` switches this
on.  Sampling itself always yields a token: an unknown strategy is replaced by the
standard one, the logits have a row per query, and a pool is never empty, so
`next_tokens` is not empty for a query of the batch.  `kv` says, for each slot and
row of the self-attention cache, for which state object and by which net it was
written last.  The cross-attention cache is left out: it is written once from the
encoder output and read only by its query.  `max_query_num` of `Get` is never
used by the engine and left out.

### InferFlowService

`queues` holds every queue ever allocated; a freed one stays in the model so
that a use after deletion is visible.  `query_to_result` is the map; a handler's
iterator is the number of its queue.  `text` and `over` are history: what was
put into the queues.  A token of `SplitPositions` ends in the middle of a
character, which is what `GetUtf8EndPos` is about.  The three ways in which a
handler leaves early (`GiveUp`, `Timeout`, `WriteChunk_Fails`) and the engine's
`ComputeFails` can be switched off by constants, because several promises hold
only without them.  The lookup
of the queue and the dereference of its iterator (a lock is released in between)
are one step; they can be told apart only when an id is used twice.

The handler's line-by-line behaviour is kept, including `buffer.clear()` and
`result_stream.clear()`, which do not empty a `stringstream`.

### TextService and the refinement

`TextService` has three variables: the text generated for each request, which
texts are over, and the reply.  `InferFlowService` maps its history and its
replies to them and TLC checks `ImplementsTextService == Abstract!TextSpec` for
requests without stream: a successful answer is the whole text generated for
this very request, in order, cut after its last complete character, and no token
is generated twice.

### TensorParallel

The content of a tensor is the set of partial results summed up in it.  Each
worker's layer heap is an array of slots with a top that `ClearLayerLocalMemory`
resets without erasing anything, as `DeviceMemoryHeap::Clear` does.  Assumed:
all layers allocate the same tensors in the same order (they do: the layers of a
network have one shape), copies between devices are complete when the call
returns, and the exchange is not quantised.  Mixture-of-experts layers and
encoders are not built when partitioning by tensor, so each exchange happens
once per layer.

Any part may fail to be computed (`PartFails`: ProcessGpuLayer returns null and
Run returns), and so may the output after the last layer (`PostLayerFails`).
The thread then ends without having added its part; nothing tells the other
workers, which poll for it for ever, and the engine with them (`Stalled`).  If
all threads end, the output of the last worker is used, null or not
(`OutputMissing`).  A failed product with `wo` is not noticed and one with `w2`
only after the exchange (`failed_after`), so these parts are added all the same.

### LayerPartition and ModelBuilding

`LayerPartition` translates `SplitGpuLayers` with the division of C++ (towards
zero; a model with more CPU layers than layers makes it negative).
`ModelBuilding` starts from any small `ModelSpec` (layers of encoder and decoder,
layers on the CPU, groups of one or two devices, a file format with or without
embedded hyper-parameters) and follows `Init`:

| Action | Code |
|---|---|
| `InitNetworkStructure` | the device layers, with null pointers for the CPU's |
| `ReadLayer`, `LoadFails` | readers; eager building of decoder layers |
| `HostModel` | BuildHostNetwork, CheckHostModel |
| `BuildDeviceNetwork`, `NotPartitionable` | the switch over the strategies and its early returns |
| `BuildDeviceTensor_ForceDequant` | the tensors around the layers, and exit(2) when one cannot be built |
| `StartBuilders`, `BuilderRun`, `JoinBuilder` | one assignment: tasks, threads, joins |
| `CheckDeviceModel`, with `InitWorkers` | the check, CreateGpuWorkers, and the workers whose Init fails |
| `CreateCpuWorker` | the rest of Init |
| `BeginPass`, `RunWorkers`, `EndPass` | a round over CPU layers and groups, with the layers it goes through as a trace |
| `LayerFails` | a layer or a transformation fails: Run returns, and Infer_Gpu goes on |

`net` keeps for every index of the device layers which layer of the model stands
there, on which group, and whether it is a null pointer, an object without
tensors, tensors without data, or built.  An access outside the vector or through
a null pointer leads to "undefined", a joinable thread that is destroyed to
"terminated", exit(2) to "exited".  `dropped` remembers in which groups a
worker's Init or a layer failed, because the code does not: CreateGpuWorkers keeps
a worker with a `query_proc_data_list_` that is too short (line 2005), and
Infer_Gpu uses the output of a pass that failed (lines 911, 928 and 936), which is
null, or the encoder's ("stale"), or never comes ("hung").  A layer without data
need not fail and a layer with data may, so any layer can.  The creation of tasks
(AddLayerTasks_*) has no failure of its own: it asks for tensors by ids that
BuildLayerTensorMap has entered, all of them, before.  A layer's tensors are read
and built together, all groups have the same size, and readers that need no
device network (GGML, GGUF) are the ones with embedded hyper-parameters.  The
tasks of a thread are a set of places, of which it takes the least: the code
appends them in ascending order.

`IsRegular` says which specifications `SplitGpuLayers` divides correctly: no CPU
layers or a single group, and a last group that gets a layer.  What the
properties promise is promised for these; outside, the model shows layers that
belong to nobody (run `layer_split`), and rounds without workers whose null
output is used.

### HttpMessage and HttpServer

A request is a sequence of symbols, with the two bytes of a line end as two
symbols, so that a read can end between them.  `UpdateMessage` is the loop of the
same name as a recursive function: `Stops` and `Returned` are its returns,
`Round` is one iteration that goes on.  `Prepared` is what PrepareTask makes of
one read.

`HttpServer` names a socket by its client.  `Held` is the set of sockets that
somebody still has a reference to (the `shared_ptr`s of the code): a descriptor
belongs to at most one of them, and is free when its socket is no longer held.
Nothing else connects an event, a map entry or a write with a client than the
descriptor, as in the code.

| Action | Code |
|---|---|
| `Accept`, `AddConnection`, `AddEvent_Epoll` | Start and AddEvent; the map and epoll are two steps |
| `AcceptFails` | any error of accept, at any time: Start returns |
| `WaitForEvents`, `NextEvent` | epoll_wait; one event with GetSocketPtr |
| `IgnoreEvent`, `Recv`, `OnDataReceived` | HandleEvent; the read and the locked part after it are two steps |
| `RemoveEvent_Epoll`, `EraseConnection` | RemoveEvent |
| `Pop`, `FinishTask` | WorkerFunction and HandleTask |
| `WriteHeader`, then `WriteString`, or `WriteChunk` and `WriteLastChunk`, or `WriteRefusal` | a handler: an answer in one piece, a stream, or the chunk that refuses one |
| `WriteFails` | a write fails, or the handler gives the query up, before or after the header |
| `Send`, `HangUp`, `HalfClose` | clients (external) |

What is in the chunks of an answer is `InferFlowService`'s matter, and which of
the ways a handler takes is a choice here; only a request with a body can ask for
a stream.  The handler's time between request and answer is any time at all.  A
refused stream lacks its empty last chunk while the connection is kept, so the
client goes on waiting for it; a handler that gives up returns failure, and the
connection is shut in the middle of the answer.  When `Accept` fails the service's
main function returns and destroys the server under its threads; the model stops
there (`running`).  `torn` remembers which connections were cut
where the code does not expect it: `IsCleanCut` allows cuts after a header line
and, when a length is announced, anywhere in the body.  A cut inside a header
line ends the header there, and a chunked body that does not come with its
header is lost, because `body_length` is 0; for such connections nothing is
promised, but all other connections keep their guarantees.

## Runs

| Run | Instance | Shows |
|---|---|---|
| `table` | 3 ids, 3 slots, up to 5 additions | slots distinct, reuse of ids only after a full cycle, `Get` is its loop |
| `engine_decoder` | 3 clients, 2 slots, context 4, computations may fail | slots valid, limit kept, KV rows belong to their query, options are the query's own, overrun of at most one token |
| `service_answers` | 2 clients, no mishaps | refinement of TextService, no use of deleted objects, nothing left behind, everyone answered |
| `service_mishaps` | 2 clients, one streaming, all mishaps, failing computations | no client sees another's text; every accepted query leaves the engine, unless a computation fails |
| `service_reuse` | encoder-decoder, 2 clients with one id, all mishaps, failing computations | options stay the query's own also with two passes per round and ids taken over from live queries; every handler ends, also when the engine hangs |
| `tensor_parallel` | 3 workers, 3 layers, 2 rounds, a failure anywhere | every exchange yields the complete sum, workers are at most one exchange apart, nobody passes a worker that failed; rounds without a failure end, the others come to the missing output or to the wait for the missing part and to nothing else |
| `model_building` | up to 5 layers of each kind, 2 on the CPU, 3 groups, 3 builders | the division is a partition, no index is out of range, errors of builders keep a model from being served, a round goes through every layer once in order, Init and the round end, or go wrong in a group where an error was dropped |
| `http_server` | 3 clients, 2 descriptors, 2 workers | descriptors are never mistaken, requests are handled as sent, answers are in order and the client's own, every waiting client gets all of its answer or a refusal or is disconnected, gone clients are forgotten |
| `engine_out_limit`, `service_stream`, `service_encdec`, `layer_split` | | the disagreements below |

Bounds.  Two slots and three clients are the least for which a slot can be
contended, given away and taken again during a round.  `MaxTokenNum` 3 with
prefixes of 1 and 3 makes batches that stop early and batches that do not.  A
context of 3 or 4 lets a query run into it by growing and by being too long from
the start.  In the table run more queries are added than there are ids.
`MaxOutputLen` (100 * 1024 in the code) is never reached, as with any model
whose context is shorter.  Three workers are the least with two that copy while
worker 0 runs ahead; three layers let the fastest be in a layer whose
predecessor's heap is still being read.  The second round starts with memory
left by the first.  Requests are symmetric in the engine's runs, which check no
temporal property.  Five layers over three groups give ranges of different
length, a last group with one layer and one with none; three builders (four in
the code) give threads with two tasks, one and none, and an error of a thread
that is not the last.  Two descriptors for three connections make one be reused
while the other is busy, and let them run out.  The plans of `MCHttpServer` are
one connection with a plain and a chunked body cut in every way, three
connections over two descriptors of which one goes away, a cut connection whose
client goes away, and a cut connection beside one that asks to be closed.  A
client gets one text chunk of its streamed answers before the last (`MaxChunks`),
enough for a stream to be given up after its header and after a chunk; and a
connection that was cut unfavourably is cut again only while none of its requests
is waiting or handled (`MaxTasks`), or one request could become as many tasks as
it has symbols.

Fairness.  The inference loop never blocks except on short critical sections, so
it is weakly fair, and so is every handler (`FairServiceSpec`).  For
`service_reuse` the polls and the timed wait are bounded by a count and a clock,
so giving up and timing out are weakly fair too (`TimedServiceSpec`); nothing is
assumed about them elsewhere, and never about failing writes.  In
`TensorParallel` every thread is weakly fair: a polling loop sleeps a
microsecond and tries again.  Nothing is assumed about failures.  In `HttpServer`
the accept loop, the epoll thread (epoll is level triggered, and its wait ends
when something is ready) and every worker are weakly fair; the clients are not,
and neither is the arrival of new ones.  In `ModelBuilding` the main thread and
the builders together are weakly fair: each of them runs to its end without
waiting, except for the joins. `http_server` does not check for deadlock, since
an idle server waits.

Every property has a mutant in `PROJECT.json`: a definition with a plausible
fault (`*_Modulo`, `*_Unchecked`, ...), under which TLC finds the property
violated.

### Where code and documentation disagree

* `engine_out_limit`: a limit of n output tokens yields n + 1 tokens, because
  `prefix_len` does not count the token sampled last.
* `service_stream`: chunks repeat the text from its beginning, and a tail of
  less than 16 bytes is never sent.
* `service_encdec`: an encoder input longer than the context is saturated but
  keeps waiting for the encoder; a query that arrives during that round is run
  through the encoder by the second GetLocalInput and its token is sampled from
  the encoder's output.
* `layer_split`: with decoder layers on the CPU and more than one device group
  some layers are given to nobody, because the ends of the ranges do not count
  the CPU's layers and the starts do.

What the code does when a computation fails, as the models have it: the result of
BuildLocalOutput is dropped, so a failed layer ends in a null output that is used
or, with tensor parallelism, in workers and an engine that wait for ever; a failed
Init of a worker is dropped and leaves the list of KV caches short; the failed
product of an attention part is summed up like any other.  `NothingOutOfRange`,
`BuildingEnds` and `EveryRoundEnds` say that these are the only ways to such an
end.  No document promises anything else, so there is no finding.

Further observations need no run.  A refused streaming request is not terminated
by an empty chunk.  Any error of accept, also a connection aborted by its client,
ends the server.  A text that cannot be tokenised is answered
`error.busy`.  In the same encoder-decoder situation the
saturated query is reported twice in one round, so its handler may delete the
queue before the second end arrives, or the second end creates a queue nobody
reads.  And after a timeout or a failed write the entry in `query_to_result_`
stays, so that once ids are used again a handler may read a deleted queue; this
is why `OwnTextOnly` is stated for ids used once.  An error of eager building,
and of a group other than the last in tensor parallelism, does not keep the model
from being served (`ServedLayersBuilt` names these two exceptions).  An error of
a builder thread other than the last of its list ends the process with
`std::terminate`, because the threads after it are destroyed without a join.  A
client that closes its sending side right after its request may not be answered,
because the end of the stream is looked at before the data.

## Proofs

The proofs take from the constants only what the code guarantees:
`TableAssumption` (sizes are positive, lengths natural), `EngineAssumption`
(`Init` caps `max_concurrent_queries` at `MAX_PROC_ID + 1`),
`BuildingAssumption` (the bounds are natural numbers) and `HttpAssumption` (the
plans are about clients and requests, the bounds are natural numbers, and `None`
is neither a client nor a descriptor), `ParallelAssumption` (a group has a device
and a layer) and `ServiceAssumption` (types of the service's parameters).

Some theorems have a hypothesis besides, which is part of their statement:

| Hypothesis | Says | Why it is there |
|---|---|---|
| `NetType = "decoder_only"` | the network has no encoder | a round of an encoder-decoder network calls `GetLocalInput` twice; the engine invariants proper are proved for all families |
| `FreshBatch` | no id of a query in the running batch is given out again before the round ends | the table wraps at 10000 ids (`QueryStateTable::Add`), a round is one token; were it violated, a query would be committed over another |
| `NoIdReused` | at most `MaxQueryId` queries were added so far | `query_to_result_` is keyed by the id alone, and an entry can stay in it after a handler gave up; past the wrap the next owner of that id would be given its queue |
| `Mishapless`, `Plain` | no handler gives up, times out or loses its client, and no computation fails; `Plain`: nor does any request stream | after these mishaps the code does leave entries behind, and the chunks of a stream are not the text (the findings); decoder-only |

`NoIdReused` and `FreshBatch` are about behaviours: a theorem
`Spec /\ []H => []P` says P holds up to the first state, if any, in which H
fails, because the specification here has no fairness and a prefix of a
behaviour, continued by stuttering, is a behaviour.  Both hold from the initial
state on in every run of the service with fewer than 10000 requests.

`QueryStateTableProofs`
: `TableSafe`, `TableTypes`: type correctness and distinct slots.  `TableInv` is
  inductive; the lemmas `AddKeepsTable`, `UpdateKeepsTable`, `EncoderEndKeepsTable`,
  `RemoveKeepsTable` say it operation by operation and are cited again for the
  engine.
: `TableReuse`: ids are reused only after a full cycle.  The invariant
  `CycleInv` ties the serial of every live state to its id: a state with id i
  was created at least as many additions ago as ids lie between i and the next
  id, counted around the cycle.
: `GetAlwaysIsLoop`: `Get` is its loop, for every table and `MaxTokenNum`.  The
  loop's invariant `Found` says that it has collected what `Get` selects below
  the current id, with the tokens counted so far.  At the early end nothing is
  missing because the sums of tokens only grow (`FoundAll`).

`InferenceEngineProofs`
: `EngineTypeSafe`, `KvSlotsSafe`, `AdmissionSafe`, `SamplingSafe`, all from
  `EngineInv`.  `KvSlotsValid` is not inductive alone: the input of a round is
  built from pointers after the table may have changed, so `SlotBounds` also
  bounds the slots of the states the batch points to.  That a query admitted
  below the limit gets a slot below it is a pigeonhole argument
  (`TakenSlots`, `FreeSlotBelowLimit`): the lowest free slot p has p taken slots
  under it, held by p different queries.  `FreeSlotExists` is the converse, with
  the least free slot from the well-foundedness of finite sets.  One lemma per
  action carries `EngineInv` over a step.
: `OutputOverrunBounded` (decoder-only networks, as the next one): a query
  yields at most one token above its limit.
  The engine works on copies of pointers it took before callers changed the
  table, so the bound needs three invariants first: `HandleInv` (wherever an id
  and a request occur together, the id is the request's), `RoundShape` (the
  input of a round is made of the batch's pointers that are not saturated, and
  the results of the input and the saturated queries) and `OutputInv` (a pointer
  of the batch shows its query's counts as they are while that query lives).
: `KvCacheSafe`: `KvCacheCoherent` under `FreshBatch`.  `KvInv` adds to the
  property that a live query in the slot of a query of the batch either is that
  query or has nothing in its cache yet, so that the rows the round writes into
  a slot that was given away are overwritten before they are read, and that
  what the round has computed is in the rows the commit moves into the prefix.
  `SerialsSpread` turns `FreshBatch` into the uniqueness of ids it needs.
: `StepCases` reduces a step of the engine, alone or inside the service, to its
  effects; every step lemma is one case analysis over it.

`InferFlowServiceProofs`
: `EngineSafeInService`: every step of the service is a step of the engine, a
  stutter, or one that only sets `undefined` (`EngineSide`), so the engine's
  invariants hold inside the service too.
: `ServiceTypes`: `ServiceOK` by who writes the state; not inductive without the
  engine's types and the facts that map entries and handlers name queues that
  exist.  `HandlerCases` names what a step of a handler can do (take an end or a
  token, erase its entry, run out of time, write, close, break) and all later
  invariants are proved along these cases, not along the code's branches.
: `OwnTextProved`: under `NoIdReused`, with all mishaps allowed.  Ids are handed
  out in increasing order (`IdsUnique`), so each queue has one owner for ever:
  `OwnInv` says that there is a function from queues to ids with which the map,
  Infer's target, the handlers and the items in the queue all agree.
: `NothingUndefinedProved`, `QuiescentCleanProved`: `CleanInv` follows each
  request through its life: before its end is delivered its queue is in the map
  and not freed; afterwards nothing of it is on its way; only the handler
  that took the end frees the queue and erases the entry, in this order, and
  Infer can no longer find it.  `RoundClean` says that what the engine has in
  hand is live and has not ended, except for what this round's commit removes.
: `ServiceImplementsText`: the refinement of `TextService`.  `FlowInv` says that
  what was generated for a request is, at every moment, the concatenation of
  what its handler has taken and what is in its queue, the end last; `PosInv`
  that a text has no token at its query's prefix length except while the one
  sampled there waits to be committed, so no token is delivered twice.  From
  them follow `AbstractEmplace` (a step of Infer that enqueues a token or an
  end is the abstract Generate or End), `AbstractHandler` (closing is Refuse or
  Answer, with the text cut at its last complete character), `AbstractStutter`
  (every other step) and `AbstractInit`.

`TensorParallelProofs`
: `TensorParallelTypes`, `SumsAreComplete`, `WorkersInStep`, `PartsStayAdded`,
  `FailuresAreNotPassed`, from `TPInv`, for any number of workers, layers and
  rounds.  `Order` counts what each worker has added and what each has passed,
  and says that nobody passes the poll of an exchange before everyone has added a
  part, and nobody copies before worker 0 has published.  From this follows that
  worker 0 is at most one exchange ahead.  `LastSum` is what the others copy: the
  last sum published stays in worker 0's memory until the next one is, since what
  worker 0 allocates in the meantime has other places on the heap, even after it
  emptied the heap for the next layer; and the next sum needs parts of workers
  that add them only after their copy.

`ModelBuildingProofs`
: `RegularIsPartition`: for all numbers, `Regular` inputs are divided into a
  partition.  `PerGroupBounds` says that rounding up leaves room for all
  layers, `RegularRange` gives every range in closed form, and the group of a
  layer is its quotient by the group size (`QuotientRange`).
: `SplitAlwaysPartitions` carries this to every state of `ModelBuilding`, whose
  steps never change the specification.
: `NothingIsOutOfRange`, `ServedLayersAreBuilt`, `WholeModelAlwaysRuns`, from
  `MBInv`, for every number of layers, CPU layers, groups and builder threads.
  `Bound(k, m)` is where the layers of the first m groups end, and
  `SplitInOrder` says that the code's list of assignments is exactly
  `Part(k, 1)`, ..., `Part(k, groups)`; `LayersCounted` adds their lengths up,
  since `InitDeviceNetStructure` makes as many objects.  `NothingOutOfRange` is
  proved with the errors the code drops as its only exceptions, each in the group
  that is running when it shows.  The properties are about the end of Init and
  say nothing while it runs, so `RegularInv` says for each stage how far it has
  come.  `Between(d)`: d[k] groups of kind k are built, and the list of
  assignments left is that of the others.  `Building(d, k)`: the layers of the
  next group stand at their places, every one without data is still a task of a
  thread, and threads joined so far ended without an error; so after the last
  join without an error no layer lacks data.  Layers without data remain where
  the code drops a result, as `ServedLayersBuilt` says.  `NetReady`,
  `WorkersReady` and `CpuReady` hold while the network is served; `CpuReady` says
  that the CPU has no layers of a network with an encoder, without which the
  encoder's layers would not stand at their index.  A pass has gone through
  `TraceTo(TraceLen(k, m))` after m groups.
: `MBTypesAlwaysOK`: the types, for every specification.  Irregular networks
  have no closed form to follow: some groups have no assignment, and the list
  that `SplitGpuLayers` makes is known only to exist and to hold each assignment
  once (`Ranks`, `AnySplit`: a finite set whose members are numbered can be
  listed in that order).  So the invariant counts.  That no device vector
  outgrows `Positions` is not inductive, because builders append; `VectorsOK`
  says that after the layers there now, there is still room for `MaxLayers` more
  per assignment left, and `HasRoom` splits the list of assignments left into
  the decoder's and the encoder's, which grow different vectors.  `CountLayers`
  bounds what `InitDeviceNetStructure` begins with.

`LoopTheorems`
: The library's induction theorems take operators as parameters, which no
  installed prover instantiates.  `AllNumbers` and `LoopInduction` state
  induction about a set instead: to prove P for all numbers, or all states of a
  loop, one names the set of those with P.  `LoopDefined` says that the
  recursive function of a loop with a measure that decreases satisfies its
  equation, `SumDefined` the same of a sum, by building the function up to
  every n.

`HttpMessageProofs`
: `UpdateType`: for every text, `UpdateMessage` ends in a well-formed message.
  A round that is not the last takes a line or a chunk or ends the header
  (`RoundType`), so the loop is defined by its equation (`UpdateLoop`).
: `CleanRead`: a read from one clean cut to the next turns the message
  `Partial` of the first into that of the second, and a read to the end makes
  the request that was sent, with its body and fields.  `Reading(kind, q, p)` is
  the message with p symbols received, of which q are parsed, and each round
  moves q (`KnownStep`, `FieldStep`, `EmptyStep`, `ChunkLengthStep`,
  `ChunkStep`).

`HttpServerProofs`
: `DescriptorsAlwaysOwned`, `EventsAlwaysReach`, from `SocketInv`, for any
  number of clients, descriptors and workers.  Neither property is inductive:
  that an entry of the map has its descriptor depends on held sockets having
  different ones (`HeldOK`); that an event finds its socket depends on every
  watched socket and every reported event standing in the map (`EventsOK`), on
  there being one event per descriptor, and on the accept loop's connection not
  being known to epoll before it is in the map (`AcceptorOK`).  Only the epoll
  thread erases connections, which is why a batch never goes stale; the mutant
  in which a worker does it breaks this.
: `AnswersAlwaysOwn`: a task holds a reference to its socket, so the descriptor
  it writes to is still its client's.
: `HttpTypesAlwaysOK`: from `HttpTypeInv` and `SocketInv`.  What a connection
  collects is a message that is not complete, what is queued is one that is;
  that `UpdateMessage` keeps the type is `UpdateType`, for torn connections too.
: `AnswersAlwaysInOrder`, `RequestsAlwaysAsSent`, from `OrderInv`, for any
  scripts.  Neither says why two workers cannot answer one client at once.
  `OrderInv` follows a client that is not torn: either nothing of a request is
  on its way (`Quiet`), or its last request has been parsed up to one clean cut
  and received up to the next (`ReadUpTo`), and only then can a task arise;
  `OneTask` says that an unanswered task is the only one of its client.  A task
  whose answer is written may still be finishing while the client's next request
  is read, so it counts no more.  `CleanRead` is what a step of OnDataReceived
  needs.

Only model-checked, and why:

- liveness under fairness (`EveryRequestAnswered`, `EveryRoundEnds`,
  `EveryQueryEnds`, `BuildingEnds`, `Answered`, `GoneIsForgotten`): outside the
  prover's reach;
- the properties of the runs that expect a violation.

Every invariant and action property of the passing runs, and the refinement, is
a theorem, some under the hypotheses above.

## Not modelled

Numeric code (kernels, sampling arithmetic, quantisation, the CPU worker's
graph), parsing of model files, vocabularies, configurations and JSON, prompt
templates, mixture-of-experts, performance counters and logging.  Vendored code
that computes or formats (`json.hpp`, `ggml`, `half`, sslib's containers and
strings) has no state shared between threads.  Of sslib only the server is
modelled, in its Linux build; its orderly shutdown (`Stop`, `Clear`) is never
called by the service.  Pipelined requests are left out, as the code leaves them
as "to do".  Of failures,
ggml's aborts and the CPU worker's missing result for an unknown activation
function are left out.  A data race on a standard container (`UpdateEncoderEnd`
without the lock, strategies' maps used by the sampler without it) is modelled as
if the operation were atomic.  The HTTP server and the service are separate
specifications that meet at the handler: `HttpServer` lets a handler take any
time, write an answer in any of its forms and give it up anywhere,
`InferFlowService` lets any number of handlers run and a write fail at any time.

## Plan

Done: table, engine, service with its abstract specification, tensor
parallelism, layer assignment and model building with the pipeline over device
groups, HTTP server; proofs of the table and its `Get`, of the engine's
invariants and the KV cache of decoder-only networks, of the service and its
refinement of `TextService`, of tensor parallelism, of the partition, of building
and running regular networks and the types of all, of the server's descriptors
and of the order and contents of what it handles.

Next: fairness among queries when the token limit keeps some out of a batch,
UTF-8 end position on byte classes, and the token selection of the
sampling strategies on ranks instead of probabilities.

## Running

    tlc -config MCEngineDecoder.cfg MCInferenceEngine
    tlapm InferenceEngineProofs.tla
