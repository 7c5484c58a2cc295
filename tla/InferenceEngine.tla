--------------------------- MODULE InferenceEngine ---------------------------
(***************************************************************************)
(* The inference engine's handling of queries: class InferenceEngine of    *)
(* src/src/transformer/inference_engine.{h,cc}, the per-query data of the  *)
(* sampling strategies, and the KV cache slots of the workers.             *)
(*                                                                         *)
(* Threads: every request is submitted by a thread of its own (AddQuery,   *)
(* RemoveQuery); one engine thread loops over Infer and                    *)
(* CommitInferenceResult.  A section under query_state_lock_ is one step;  *)
(* what happens outside the lock is a step of its own.                     *)
(*                                                                         *)
(* Get hands out pointers to states, and the engine follows them after     *)
(* releasing the lock.  If the state was deleted meanwhile, the program's  *)
(* behaviour is undefined: either the old contents are still there, or     *)
(* nothing is known any more ("undefined", which stops the model).         *)
(***************************************************************************)
EXTENDS QueryStateTable

CONSTANTS
  MaxConcurrentQueries,  (* config_.max_concurrent_queries after Init       *)
  MaxContextLen,         (* model.spec.max_context_len                      *)
  MaxOutputLen,          (* max_output_len of Run, 100 * 1024 in the code   *)
  MayFailCompute         (* a worker may fail to compute a layer            *)

ASSUME EngineAssumption ==
  /\ MaxConcurrentQueries \in 1 .. MaxProcId + 1
  /\ MaxContextLen \in Nat \ {0}
  /\ MaxOutputLen \in Nat \ {0}
  /\ MayFailCompute \in BOOLEAN

VARIABLES
  call,       (* per request: where its AddQuery call stands                *)
  handle,     (* per request: the id AddQuery returned                      *)
  sampler,    (* query_data_map_: id -> request whose options are installed *)
  phase,      (* the engine thread's position in Infer and Commit; "hung":  *)
              (* its workers wait for one another for ever                  *)
  batch,      (* query_map of GetLocalInput: ids with their state pointers  *)
  dangling,   (* serials of states deleted while the batch points to them   *)
  input,      (* LocalInput                                                 *)
  saturated,  (* saturated_queries, with the GetLocalInput call that added  *)
  results,    (* InferenceResult.items                                      *)
  kv,         (* slot -> row -> what the KV cache holds there               *)
  produced,   (* history, per request: text tokens sampled and committed    *)
  undefined   (* a deleted state or a null output was dereferenced          *)

apiVars    == <<call, handle>>
localVars  == <<batch, dangling, input, saturated, results>>
engineVars == <<phase, batch, input, saturated, results, kv>>
vars == <<query_map, next_query_id, added, call, handle, sampler, phase, batch,
          dangling, input, saturated, results, kv, produced, undefined>>

NoRow == [serial |-> 0, net |-> "none"]
Rows  == [serial : Nat, net : {"none", "encoder", "decoder"}]

Pointer == [id : QueryIds, state : QueryState]

(* QueryProcInput, without the row offset in the batch.                     *)
QueryProcInput ==
  [ id : QueryIds, req : Requests, serial : Nat, proc_id : 0 .. MaxProcId,
    prefix_len : Nat, token_num : Nat ]

NoInput == [is_encoder |-> FALSE, queries |-> {}]

Init ==
  /\ TableInit
  /\ call = [r \in Requests |-> "none"]
  /\ handle = [r \in Requests |-> 0]
  /\ sampler = [id \in {} |-> {}]
  /\ phase = "idle"
  /\ batch = {} /\ dangling = {} /\ saturated = {} /\ results = {}
  /\ input = NoInput
  /\ kv = [p \in 0 .. MaxConcurrentQueries - 1 |-> [row \in 0 .. MaxContextLen - 1 |-> NoRow]]
  /\ produced = [r \in Requests |-> 0]
  /\ undefined = FALSE

-----------------------------------------------------------------------------
(* AddQuery, first part: the size is read under the lock and compared       *)
(* after it; a full table answers busy, otherwise the text is tokenised     *)
(* without the lock.                                                        *)
AddQuery_Check(r) ==
  /\ ~ undefined
  /\ call[r] = "none"
  /\ call' = [call EXCEPT ![r] = IF Size >= MaxConcurrentQueries THEN "busy" ELSE "checked"]
  /\ UNCHANGED <<tableVars, handle, sampler, dangling, produced, undefined, engineVars>>

(* Tokenisation fails, or leaves nothing for the decoder to start from.     *)
AddQuery_Invalid(r) ==
  /\ ~ undefined
  /\ call[r] = "checked"
  /\ call' = [call EXCEPT ![r] = "error"]
  /\ UNCHANGED <<tableVars, handle, sampler, dangling, produced, undefined, engineVars>>

(* A faulty variant, for mutation: options found under the id are kept.     *)
BeginQuery_Keep(r) ==
  sampler' = [id \in DOMAIN sampler \cup {next_query_id} |->
                IF id \in DOMAIN sampler THEN sampler[id] ELSE r]

(* BeginQuery installs the options of r for the id the table returned.      *)
BeginQuery(r) ==
  sampler' = [id \in DOMAIN sampler \cup {next_query_id} |->
                IF id = next_query_id THEN r ELSE sampler[id]]

(* A faulty variant, for mutation: the capacity is not tested again.        *)
AddQuery_Add_Unchecked(r, enc, dec, limit) ==
  /\ ~ undefined
  /\ call[r] = "checked"
  /\ \E p \in 0 .. MaxProcId : IsFreeProcId(p) /\ Add(r, enc, dec, limit, p)
  /\ call' = [call EXCEPT ![r] = "accepted"]
  /\ handle' = [handle EXCEPT ![r] = next_query_id]
  /\ BeginQuery(r)
  /\ UNCHANGED <<dangling, produced, undefined, engineVars>>

(* AddQuery, second part, under the lock: the capacity is tested again.     *)
AddQuery_Add(r, enc, dec, limit) ==
  /\ ~ undefined
  /\ call[r] = "checked"
  /\ dec > 0 \/ NetType = "encoder_only"
  /\ Size < MaxConcurrentQueries
  /\ \E p \in 0 .. MaxProcId : IsFreeProcId(p) /\ Add(r, enc, dec, limit, p)
  /\ call' = [call EXCEPT ![r] = "accepted"]
  /\ handle' = [handle EXCEPT ![r] = next_query_id]
  /\ BeginQuery(r)
  /\ UNCHANGED <<dangling, produced, undefined, engineVars>>

AddQuery_Full(r) ==
  /\ ~ undefined
  /\ call[r] = "checked"
  /\ Size >= MaxConcurrentQueries
  /\ call' = [call EXCEPT ![r] = "busy"]
  /\ UNCHANGED <<tableVars, handle, sampler, dangling, produced, undefined, engineVars>>

(* RemoveQuery, called with the id that AddQuery returned.  The sampling    *)
(* data stays.  The engine thread may be working on the deleted state.      *)
RemoveQuery(r) ==
  /\ ~ undefined
  /\ call[r] = "accepted"
  /\ Remove(handle[r])
  /\ dangling' = dangling \cup {b.state.serial : b \in {c \in batch :
                    c.id = handle[r] /\ c.id \in DOMAIN query_map
                                     /\ query_map[c.id].serial = c.state.serial}}
  /\ call' = [call EXCEPT ![r] = "removed"]
  /\ UNCHANGED <<handle, sampler, produced, undefined, engineVars>>

-----------------------------------------------------------------------------
(* GetLocalInput up to the unlock.  An empty table ends the round: at the   *)
(* first call of it nothing happened yet, at the second (after the encoder) *)
(* the input is cleared and the round goes on with no query.                *)
FetchBatch ==
  /\ ~ undefined
  /\ phase \in {"idle", "refetch"}
  /\ batch' = {[id |-> id, state |-> query_map[id]] : id \in Get}
  /\ dangling' = {}
  /\ input' = NoInput
  /\ phase' = IF DOMAIN query_map # {} THEN (IF phase = "idle" THEN "read" ELSE "reread")
              ELSE (IF phase = "idle" THEN "idle" ELSE "sample")
  /\ UNCHANGED <<tableVars, apiVars, sampler, saturated, results, kv, produced, undefined>>

BatchIsEncoder == NetType # "decoder_only" /\ \E b \in batch : b.state.next_net = 0

StateTokens(s) == IF BatchIsEncoder THEN s.encoder_tokens ELSE s.decoder_tokens

(* A faulty variant, for mutation: the output limit is tested with >.       *)
IsSaturated_Late(s) ==
  \/ s.prefix_len >= MaxContextLen
  \/ s.max_output >= 0 /\ s.prefix_len - s.initial_prefix_len > s.max_output
  \/ s.prefix_len + StateTokens(s) > MaxContextLen

(* The three tests of GetLocalInput that keep a query out of the batch.     *)
IsSaturated(s) ==
  \/ s.prefix_len >= MaxContextLen
  \/ s.max_output >= 0 /\ s.prefix_len - s.initial_prefix_len >= s.max_output
  \/ s.prefix_len + StateTokens(s) > MaxContextLen

ProcInput(b) ==
  [ id |-> b.id, req |-> b.state.req, serial |-> b.state.serial,
    proc_id |-> b.state.proc_id, prefix_len |-> b.state.prefix_len,
    token_num |-> StateTokens(b.state) ]

(* GetLocalInput after the unlock.  saturated_queries belongs to the caller *)
(* and is not cleared between the two calls of one round.                   *)
ReadBatch ==
  /\ ~ undefined
  /\ phase \in {"read", "reread"}
  /\ LET full == {b \in batch : IsSaturated(b.state)}
         pass == IF phase = "read" THEN 1 ELSE 2
     IN  /\ input' = [is_encoder |-> BatchIsEncoder,
                      queries |-> {ProcInput(b) : b \in batch \ full}]
         /\ saturated' = saturated \cup
              {[id |-> b.id, req |-> b.state.req, pass |-> pass] : b \in full}
         /\ phase' = IF full = batch THEN "sample"
                     ELSE IF phase = "read" THEN "compute" ELSE "recompute"
  /\ UNCHANGED <<tableVars, apiVars, sampler, batch, dangling, results, kv, produced, undefined>>

(* A faulty variant, for mutation: rows are written one too far.            *)
KvWritten_Shifted ==
  [p \in DOMAIN kv |-> [row \in DOMAIN kv[p] |->
     IF \E q \in input.queries : q.proc_id = p /\ row \in q.prefix_len + 1 .. q.prefix_len + q.token_num
     THEN [serial |-> (CHOOSE q \in input.queries : q.proc_id = p).serial,
           net |-> IF input.is_encoder THEN "encoder" ELSE "decoder"]
     ELSE kv[p][row]]]

(* The workers write the keys and values of a query's new tokens to the     *)
(* rows from prefix_len on of the cache in its slot.                        *)
KvWritten ==
  [p \in DOMAIN kv |-> [row \in DOMAIN kv[p] |->
     IF \E q \in input.queries : q.proc_id = p /\ row \in q.prefix_len .. q.prefix_len + q.token_num - 1
     THEN [serial |-> (CHOOSE q \in input.queries : q.proc_id = p).serial,
           net |-> IF input.is_encoder THEN "encoder" ELSE "decoder"]
     ELSE kv[p][row]]]

(* BuildLocalOutput: the workers run the layers over the local input.       *)
BuildLocalOutput == kv' = KvWritten

(* The computing half of a round.  After the encoder of an encoder-decoder  *)
(* network: UpdateEncoderEnd of each query, without the lock, then a second *)
(* GetLocalInput and BuildLocalOutput, which goes on to the sampling        *)
(* whatever that second input is.                                           *)
Compute ==
  /\ ~ undefined
  /\ phase \in {"compute", "recompute"}
  /\ BuildLocalOutput
  /\ IF phase = "compute" /\ input.is_encoder /\ NetType # "encoder_only"
     THEN UpdateEncoderEnd({q.id : q \in input.queries}) /\ phase' = "refetch"
     ELSE phase' = "sample" /\ UNCHANGED tableVars
  /\ UNCHANGED <<apiVars, sampler, localVars, produced, undefined>>

(* BuildLocalOutput fails, and Infer does not look at its result.  The      *)
(* first output of a round is then null and dereferenced; the second one is *)
(* still the encoder's, and sampled from (rows it wrote before count as not *)
(* written).  With tensor parallelism, for decoders, the other workers wait *)
(* for the one that failed.                                                 *)
ComputeFails ==
  /\ ~ undefined /\ MayFailCompute
  /\ \/ phase = "compute" /\ undefined' = TRUE /\ UNCHANGED phase
     \/ phase = "compute" /\ NetType = "decoder_only" /\ phase' = "hung" /\ UNCHANGED undefined
     \/ phase = "recompute" /\ phase' = "sample" /\ UNCHANGED undefined
  /\ UNCHANGED <<tableVars, apiVars, sampler, localVars, kv, produced>>

(* SampleTokens, SampleTokensCpu: any token may be chosen; all that matters *)
(* of it is whether it is eos.                                              *)
SampleToken(q, is_eos) ==
  [id |-> q.id, req |-> q.req, prefix_len |-> q.prefix_len, eos |-> is_eos, pass |-> 0]

(* A faulty variant, for mutation: saturated queries are not handled.       *)
SampleResults_NoSaturated(eos) ==
  {SampleToken(q, q.id \in eos) : q \in input.queries}

(* Sampling: a token, which may be eos, for every query of the input;       *)
(* ChooseTokens creates sampling data where there is none.  Then an eos     *)
(* for every saturated query (HandleSaturatedQueries).                      *)
SampleResults(eos) ==
  {SampleToken(q, q.id \in eos) : q \in input.queries}
  \cup
  {[id |-> s.id, req |-> s.req, prefix_len |-> MaxContextLen, eos |-> TRUE, pass |-> s.pass]
     : s \in saturated}

Sample ==
  /\ ~ undefined
  /\ phase = "sample"
  /\ \E eos \in SUBSET {q.id : q \in input.queries} : results' = SampleResults(eos)
  /\ LET ids == {q.id : q \in input.queries}
     IN  sampler' = [id \in DOMAIN sampler \cup ids |->
                       IF id \in DOMAIN sampler THEN sampler[id]
                       ELSE "default"]
  /\ phase' = "deliver"
  /\ UNCHANGED <<tableVars, apiVars, batch, dangling, input, saturated, kv, produced, undefined>>

(* The engine thread follows a pointer to a state deleted since the lock    *)
(* was released: all pointers of the batch while it reads them, those of    *)
(* the input where the decoder fetches encoder outputs (BuildInputKV) and   *)
(* where the sampler is given the tokens.                                   *)
FollowDangling ==
  /\ ~ undefined
  /\ \/ phase \in {"read", "reread"} /\ dangling # {}
     \/ /\ \/ phase = "sample"
           \/ phase \in {"compute", "recompute"} /\ NetType = "encoder_decoder"
                                               /\ ~ input.is_encoder
        /\ \E q \in input.queries : q.serial \in dangling
  /\ undefined' = TRUE
  /\ UNCHANGED <<tableVars, apiVars, sampler, phase, localVars, kv, produced>>

-----------------------------------------------------------------------------
(* is_end of InferFlowServiceCore::Infer.                                   *)
IsEnd(x) == x.eos \/ x.prefix_len + 1 >= MaxOutputLen

ResultIds == {x.id : x \in results}
EndedIds  == {x.id : x \in {y \in results : IsEnd(y)}}

(* A faulty variant, for mutation: every committed query's options go.      *)
EndQuery_All ==
  sampler' = [id \in DOMAIN sampler \ (ResultIds \cap DOMAIN query_map) |-> sampler[id]]

(* EndQuery of the queries that ended and are still in the table.           *)
EndQuery ==
  sampler' = [id \in DOMAIN sampler \ (EndedIds \cap DOMAIN query_map) |-> sampler[id]]

(* CommitInferenceResult, under the lock: sampling data of ended queries is *)
(* dropped, the table is updated.                                           *)
CommitInferenceResult ==
  /\ ~ undefined
  /\ phase = "deliver"
  /\ Update(ResultIds, EndedIds)
  /\ EndQuery
  /\ produced' = [r \in Requests |->
       produced[r] + IF \E x \in results : x.req = r /\ ~ IsEnd(x) THEN 1 ELSE 0]
  /\ phase' = "idle"
  /\ batch' = {} /\ dangling' = {} /\ saturated' = {} /\ results' = {}
  /\ input' = NoInput
  /\ UNCHANGED <<apiVars, kv, undefined>>

EngineStep ==
  \/ FetchBatch \/ ReadBatch \/ Compute \/ ComputeFails \/ Sample
  \/ FollowDangling \/ CommitInferenceResult

ApiStep ==
  \E r \in Requests :
    \/ AddQuery_Check(r)
    \/ AddQuery_Invalid(r)
    \/ \E enc \in EncLens, dec \in DecLens, limit \in OutLimits : AddQuery_Add(r, enc, dec, limit)
    \/ AddQuery_Full(r)
    \/ RemoveQuery(r)

(* After undefined behaviour nothing more is said about the program, and    *)
(* hung workers stay as they are.                                           *)
Halted == (undefined \/ phase = "hung") /\ UNCHANGED vars

Next == EngineStep \/ ApiStep \/ Halted

Spec == Init /\ [][Next]_vars

-----------------------------------------------------------------------------
TypeOK ==
  /\ TableTypeOK
  /\ call \in [Requests -> {"none", "checked", "accepted", "busy", "error", "removed"}]
  /\ handle \in [Requests -> QueryIds \cup {0}]
  /\ DOMAIN sampler \subseteq QueryIds
  /\ sampler \in [DOMAIN sampler -> Requests \cup {"default"}]
  /\ phase \in {"idle", "read", "compute", "refetch", "reread", "recompute", "sample", "deliver",
              "hung"}
  /\ batch \subseteq Pointer
  /\ dangling \subseteq Nat
  /\ input \in [is_encoder : BOOLEAN, queries : SUBSET QueryProcInput]
  /\ saturated \subseteq [id : QueryIds, req : Requests, pass : {1, 2}]
  /\ results \subseteq [id : QueryIds, req : Requests, prefix_len : Nat, eos : BOOLEAN, pass : 0 .. 2]
  /\ kv \in [0 .. MaxConcurrentQueries - 1 -> [0 .. MaxContextLen - 1 -> Rows]]
  /\ produced \in [Requests -> Nat]
  /\ undefined \in BOOLEAN

(* Every live query, and every query of the batch being computed, has a     *)
(* processing slot below max_concurrent_queries, the number of KV caches a  *)
(* worker allocates (inference_worker.cc, Init), and no two live queries    *)
(* share one; so the unchecked index query_proc_data_list_[proc_id] is      *)
(* always valid, although AddQuery tests the capacity twice, with the lock  *)
(* released in between, and ids wrap around.                                *)
KvSlotsValid ==
  /\ \A id \in DOMAIN query_map : query_map[id].proc_id < MaxConcurrentQueries
  /\ \A q \in input.queries : q.proc_id < MaxConcurrentQueries
  /\ ProcIdsDistinct

(* The concurrency limit is never exceeded, and whenever it is not reached  *)
(* there is a slot to give, so Add never takes its early return of -1.      *)
AdmissionHasSlot ==
  /\ Size <= MaxConcurrentQueries
  /\ Size < MaxConcurrentQueries => \E p \in 0 .. MaxConcurrentQueries - 1 : IsFreeProcId(p)

(* The rows of a live query's KV cache below its prefix_len hold the        *)
(* decoder's keys and values of that very query: no commit ever moves       *)
(* tokens into the prefix that were not computed for this query, and no     *)
(* other query's computation writes over them (SetKRows, Update), also when *)
(* a query is removed and its slot given away in the middle of a round.     *)
KvCacheCoherent ==
  \A id \in DOMAIN query_map :
    LET s == query_map[id]
    IN  \A row \in 0 .. s.prefix_len - 1 :
          /\ row < MaxContextLen
          /\ kv[s.proc_id][row] = [serial |-> s.serial, net |-> "decoder"]

(* Every live query is sampled with its own options: BeginQuery, EndQuery   *)
(* and the table agree although RemoveQuery leaves sampling data behind and *)
(* ids are reused.                                                          *)
SamplingOptionsOwn ==
  \A id \in DOMAIN query_map : id \in DOMAIN sampler /\ sampler[id] = query_map[id].req

(* A query with a limit yields at most one text token more than the limit   *)
(* before GetLocalInput finds it saturated.                                 *)
OutputOverrunAtMostOne ==
  \A id \in DOMAIN query_map :
    LET s == query_map[id] IN s.max_output >= 0 => produced[s.req] <= s.max_output + 1

(* "maximal number of output tokens" (service_data.h): a query never yields *)
(* more text tokens than its limit.                                         *)
OutputWithinLimit ==
  \A id \in DOMAIN query_map :
    LET s == query_map[id] IN s.max_output >= 0 => produced[s.req] <= s.max_output

(* next_net is "0: encoder, 1: decoder" (query_state_table.h): tokens of an *)
(* encoder-decoder network are sampled from the decoder's output, never     *)
(* from a batch that ran the encoder.                                       *)
SampledFromDecoder ==
  (NetType = "encoder_decoder" /\ phase = "sample" /\ input.queries # {}) => ~ input.is_encoder

IsLive(r) == \E id \in DOMAIN query_map : query_map[id].req = r

(* Every accepted query leaves the table in the end, even if eos is never   *)
(* sampled and nobody waits for it any more: the token limit or the context *)
(* length ends it, unless a layer fails and the workers hang.               *)
EveryQueryEnds ==
  \A r \in Requests : IsLive(r) ~> (~ IsLive(r) \/ undefined \/ phase = "hung")
=============================================================================
