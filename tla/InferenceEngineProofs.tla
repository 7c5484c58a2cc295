------------------------ MODULE InferenceEngineProofs ------------------------
(***************************************************************************)
(* Proofs about the engine, for every number of requests, ids, slots and   *)
(* tokens and for each of the three network types: its type invariant, the *)
(* validity of KV cache slots, the concurrency limit, the ownership of     *)
(* sampling options and, for decoder-only networks, the bound on the       *)
(* output and the rows of the KV cache that a round reads.                 *)
(***************************************************************************)
EXTENDS InferenceEngine, QueryStateTableProofs, WellFoundedInduction

(* What TypeOK says beyond the table.                                       *)
LocalTypeOK ==
  /\ call \in [Requests -> {"none", "checked", "accepted", "busy", "error", "removed"}]
  /\ handle \in [Requests -> QueryIds \cup {0}]
  /\ DOMAIN sampler \subseteq QueryIds
  /\ sampler \in [DOMAIN sampler -> Requests \cup {"default"}]
  /\ phase \in {"idle", "read", "compute", "refetch", "reread", "recompute", "sample", "deliver",
              "hung"}
  /\ batch \subseteq Pointer
  /\ dangling \subseteq Nat
  /\ input \in [is_encoder : BOOLEAN, queries : SUBSET QueryProcInput]
  /\ saturated \subseteq [id : QueryIds, req : Requests, pass : {1, 2}]
  /\ results \subseteq [id : QueryIds, req : Requests, prefix_len : Nat, eos : BOOLEAN, pass : 0 .. 2]
  /\ kv \in [0 .. MaxConcurrentQueries - 1 -> [0 .. MaxContextLen - 1 -> Rows]]
  /\ produced \in [Requests -> Nat]
  /\ undefined \in BOOLEAN

(* The slot of every state the engine can reach is one of the KV caches:    *)
(* states in the table, states the batch points to, and the input made of   *)
(* them.  The middle part is what makes the property inductive: the input   *)
(* is filled from the pointers, after the table may have changed.           *)
SlotBounds ==
  /\ \A id \in DOMAIN query_map : query_map[id].proc_id < MaxConcurrentQueries
  /\ \A b \in batch : b.state.proc_id < MaxConcurrentQueries
  /\ \A q \in input.queries : q.proc_id < MaxConcurrentQueries

EngineInv ==
  /\ TableInv
  /\ LocalTypeOK
  /\ SlotBounds
  /\ Size <= MaxConcurrentQueries
  /\ SamplingOptionsOwn

-----------------------------------------------------------------------------
(* The table is finite, for its ids are.                                    *)
LEMMA TableFinite ==
  ASSUME TableTypeOK
  PROVE  IsFiniteSet(DOMAIN query_map) /\ Size \in Nat
<1>1. IsFiniteSet(1 .. MaxQueryId)
  BY FS_Interval, TableAssumption
<1>2. IsFiniteSet(DOMAIN query_map)
  BY <1>1, FS_Subset DEF TableTypeOK, QueryIds
<1> QED BY <1>2, FS_CardinalityType DEF Size

(* A subset of the slots that are all taken has at most Size elements.      *)
LEMMA TakenSlots ==
  ASSUME TableTypeOK, NEW n \in Nat,
         \A q \in 0 .. n - 1 : \E id \in DOMAIN query_map : query_map[id].proc_id = q
  PROVE  n <= Size
<1> DEFINE holder == [q \in 0 .. n - 1 |-> CHOOSE id \in DOMAIN query_map : query_map[id].proc_id = q]
<1>1. /\ holder \in [0 .. n - 1 -> DOMAIN query_map]
      /\ \A q \in 0 .. n - 1 : query_map[holder[q]].proc_id = q
  OBVIOUS
<1>2. IsFiniteSet(0 .. n - 1) /\ Cardinality(0 .. n - 1) = n
  BY FS_Interval
<1>3. IsFiniteSet(DOMAIN query_map) /\ Size \in Nat
  BY TableFinite
<1> HIDE DEF holder
<1>4. ~ (Cardinality(DOMAIN query_map) < Cardinality(0 .. n - 1))
  <2> SUFFICES ASSUME Cardinality(DOMAIN query_map) < Cardinality(0 .. n - 1) PROVE FALSE
    OBVIOUS
  <2>1. \E x, y \in 0 .. n - 1 : x # y /\ holder[x] = holder[y]
    BY <1>1, <1>2, <1>3, FS_PigeonHole
  <2> QED BY <1>1, <2>1
<1> QED BY <1>2, <1>3, <1>4 DEF Size

(* FindFreeProcId returns a slot below the limit whenever the limit is not  *)
(* reached: it takes the lowest, and fewer than the limit are taken.        *)
LEMMA FreeSlotBelowLimit ==
  ASSUME TableTypeOK, Size < MaxConcurrentQueries, NEW p \in 0 .. MaxProcId, IsFreeProcId(p)
  PROVE  p < MaxConcurrentQueries
<1>1. \A q \in 0 .. p - 1 : \E id \in DOMAIN query_map : query_map[id].proc_id = q
  BY DEF IsFreeProcId
<1>2. p <= Size
  BY <1>1, TakenSlots, TableAssumption
<1>3. Size \in Nat
  BY TableFinite
<1> QED BY <1>2, <1>3, EngineAssumption, TableAssumption

(* A nonempty set of natural numbers has a least element.                   *)
LEMMA LeastNatural ==
  ASSUME NEW T, T \subseteq Nat, T # {}
  PROVE  \E p \in T : \A q \in T : ~ (q < p)
<1> DEFINE Below == {0 .. p - 1 : p \in T}
<1>1. Below \subseteq FiniteSubsetsOf(Nat)
  <2> SUFFICES ASSUME NEW p \in T PROVE 0 .. p - 1 \in FiniteSubsetsOf(Nat)
    OBVIOUS
  <2>1. IsFiniteSet(0 .. p - 1)
    BY FS_Interval
  <2>2. 0 .. p - 1 \subseteq Nat
    OBVIOUS
  <2> QED BY <2>1, <2>2 DEF FiniteSubsetsOf
<1>2. Below # {}
  OBVIOUS
<1>3. IsWellFoundedOn(StrictSubsetOrdering(Nat), FiniteSubsetsOf(Nat))
  BY FS_StrictSubsetOrderingWellFounded
<1>4. \E x \in Below : \A y \in Below : ~ (<<y, x>> \in StrictSubsetOrdering(Nat))
  <2> HIDE DEF Below
  <2> QED BY <1>1, <1>2, <1>3, WFMin
<1>5. PICK p \in T : \A q \in T : ~ (<<0 .. q - 1, 0 .. p - 1>> \in StrictSubsetOrdering(Nat))
  BY <1>4
<1>6. ASSUME NEW q \in T, q < p PROVE FALSE
  <2>1. 0 .. q - 1 \subseteq 0 .. p - 1 /\ 0 .. p - 1 \subseteq Nat
    BY <1>6
  <2>2. q \in 0 .. p - 1 /\ q \notin 0 .. q - 1
    BY <1>6
  <2>3. <<0 .. q - 1, 0 .. p - 1>> \in StrictSubsetOrdering(Nat)
    BY <2>1, <2>2 DEF StrictSubsetOrdering
  <2> QED BY <1>5, <2>3
<1> QED BY <1>6

(* And there is one to return.                                              *)
LEMMA FreeSlotExists ==
  ASSUME TableTypeOK, Size < MaxConcurrentQueries
  PROVE  \E p \in 0 .. MaxConcurrentQueries - 1 : IsFreeProcId(p)
<1> DEFINE Free == {p \in 0 .. MaxConcurrentQueries - 1 :
                      \A id \in DOMAIN query_map : query_map[id].proc_id # p}
<1>1. MaxConcurrentQueries \in Nat
  BY EngineAssumption, TableAssumption
<1>2. Size \in Nat
  BY TableFinite
<1>3. Free # {}
  <2> SUFFICES ASSUME Free = {} PROVE FALSE
    OBVIOUS
  <2>1. \A q \in 0 .. MaxConcurrentQueries - 1 :
          \E id \in DOMAIN query_map : query_map[id].proc_id = q
    OBVIOUS
  <2>2. MaxConcurrentQueries <= Size
    BY <1>1, <2>1, TakenSlots
  <2> QED BY <1>1, <1>2, <2>2
<1>4. Free \subseteq Nat
  BY <1>1
<1> HIDE DEF Free
<1>6. PICK p \in Free : \A q \in Free : ~ (q < p)
  BY <1>3, <1>4, LeastNatural
<1>7. \A q \in 0 .. p - 1 : q \notin Free /\ q \in 0 .. MaxConcurrentQueries - 1
  BY <1>1, <1>4, <1>6 DEF Free
<1>8. IsFreeProcId(p)
  BY <1>6, <1>7 DEF Free, IsFreeProcId
<1> QED BY <1>6, <1>8 DEF Free

-----------------------------------------------------------------------------
(* The engine starts with an empty table and nothing in flight.             *)
LEMMA EngineInitInv == Init => EngineInv
<1> SUFFICES ASSUME Init PROVE EngineInv
  OBVIOUS
<1>1. TableInv
  BY TableInitInv DEF Init
<1>2. DOMAIN query_map = {}
  BY DEF Init, TableInit
<1>3. LocalTypeOK
  <2>1. kv \in [0 .. MaxConcurrentQueries - 1 -> [0 .. MaxContextLen - 1 -> Rows]]
    BY DEF Init, NoRow, Rows
  <2> QED BY <2>1 DEF Init, LocalTypeOK, NoInput
<1>4. Size = 0
  BY <1>2, FS_EmptySet DEF Size
<1>5. Size <= MaxConcurrentQueries
  BY <1>4, EngineAssumption, TableAssumption
<1> QED BY <1>1, <1>2, <1>3, <1>5 DEF EngineInv, SlotBounds, SamplingOptionsOwn, Init, NoInput

(* A change of the calls' progress alone.                                   *)
LEMMA CallStep ==
  ASSUME EngineInv,
         call' \in [Requests -> {"none", "checked", "accepted", "busy", "error", "removed"}],
         UNCHANGED <<tableVars, handle, sampler, dangling, produced, undefined, engineVars>>
  PROVE  EngineInv'
<1>1. TableInv'
  BY DEF EngineInv, TableInv, TableTypeOK, ProcIdsDistinct, tableVars
<1>2. LocalTypeOK'
  BY DEF EngineInv, LocalTypeOK, engineVars
<1>3. SlotBounds' /\ (Size <= MaxConcurrentQueries)' /\ SamplingOptionsOwn'
  BY DEF EngineInv, SlotBounds, SamplingOptionsOwn, Size, tableVars, engineVars
<1> QED BY <1>1, <1>2, <1>3 DEF EngineInv

(* A step in which the table loses entries or none, and every state left    *)
(* keeps its request and slot.                                              *)
LEMMA ShrinkStep ==
  ASSUME EngineInv, TableInv', LocalTypeOK',
         DOMAIN query_map' \subseteq DOMAIN query_map,
         \A id \in DOMAIN query_map' :
           /\ query_map'[id].proc_id = query_map[id].proc_id
           /\ query_map'[id].req = query_map[id].req,
         \A id \in DOMAIN query_map' :
           id \in DOMAIN sampler => id \in DOMAIN sampler' /\ sampler'[id] = sampler[id],
         \A b \in batch' : b.state.proc_id < MaxConcurrentQueries,
         \A q \in input'.queries : q.proc_id < MaxConcurrentQueries
  PROVE  EngineInv'
<1>1. Size' <= Size /\ Size' \in Nat /\ Size \in Nat
  <2>1. IsFiniteSet(DOMAIN query_map) /\ Size \in Nat
    BY TableFinite DEF EngineInv, TableInv
  <2> QED BY <2>1, FS_Subset, FS_CardinalityType DEF Size
<1>2. (Size <= MaxConcurrentQueries)'
  BY <1>1, EngineAssumption, TableAssumption DEF EngineInv
<1>3. SlotBounds'
  BY DEF EngineInv, SlotBounds
<1>4. SamplingOptionsOwn'
  BY DEF EngineInv, SamplingOptionsOwn
<1> QED BY <1>2, <1>3, <1>4 DEF EngineInv

(* The second half of AddQuery: the slot it takes is below the limit, the   *)
(* table grows by at most one entry, the new query's options replace        *)
(* whatever was left under its id.                                          *)
LEMMA AddQueryStep ==
  ASSUME EngineInv, NEW r \in Requests, NEW enc \in EncLens, NEW dec \in DecLens,
         NEW limit \in OutLimits, AddQuery_Add(r, enc, dec, limit)
  PROVE  EngineInv'
<1> USE DEF EngineInv, TableInv
<1>1. PICK p \in 0 .. MaxProcId : IsFreeProcId(p) /\ Add(r, enc, dec, limit, p)
  BY DEF AddQuery_Add
<1>2. TableInv'
  BY <1>1, AddKeepsTable
<1>3. /\ DOMAIN query_map' = DOMAIN query_map \cup {next_query_id}
      /\ \A id \in DOMAIN query_map' :
           query_map'[id] = IF id = next_query_id THEN NewState(r, enc, dec, limit, p)
                            ELSE query_map[id]
  BY <1>1 DEF Add
<1>4. p < MaxConcurrentQueries
  BY <1>1, FreeSlotBelowLimit DEF AddQuery_Add
<1>5. next_query_id \in QueryIds
  BY DEF TableTypeOK
<1>6. LocalTypeOK'
  <2>1. call' \in [Requests -> {"none", "checked", "accepted", "busy", "error", "removed"}]
    BY DEF LocalTypeOK, AddQuery_Add
  <2>2. handle' \in [Requests -> QueryIds \cup {0}]
    BY <1>5 DEF LocalTypeOK, AddQuery_Add
  <2>3. /\ DOMAIN sampler' \subseteq QueryIds
        /\ sampler' \in [DOMAIN sampler' -> Requests \cup {"default"}]
    BY <1>5 DEF LocalTypeOK, AddQuery_Add, BeginQuery
  <2> QED BY <2>1, <2>2, <2>3 DEF LocalTypeOK, AddQuery_Add, engineVars
<1>7. SlotBounds'
  BY <1>3, <1>4 DEF SlotBounds, AddQuery_Add, engineVars, NewState
<1>8. (Size <= MaxConcurrentQueries)'
  <2>1. IsFiniteSet(DOMAIN query_map) /\ Size \in Nat
    BY TableFinite
  <2>2. Size' = Size \/ Size' = Size + 1
    BY <1>3, <2>1, FS_AddElement DEF Size
  <2> QED BY <2>1, <2>2, EngineAssumption, TableAssumption DEF AddQuery_Add
<1>9. SamplingOptionsOwn'
  BY <1>3 DEF SamplingOptionsOwn, AddQuery_Add, BeginQuery, NewState
<1> QED BY <1>2, <1>6, <1>7, <1>8, <1>9

(* RemoveQuery: only the table shrinks, and the set of deleted states the   *)
(* engine still points to grows.                                            *)
LEMMA RemoveQueryStep ==
  ASSUME EngineInv, NEW r \in Requests, RemoveQuery(r)
  PROVE  EngineInv'
<1>1. /\ TableInv'
      /\ DOMAIN query_map' \subseteq DOMAIN query_map
      /\ \A i \in DOMAIN query_map' : query_map'[i] = query_map[i]
  BY RemoveKeepsTable DEF EngineInv, RemoveQuery
<1>2. dangling' \subseteq Nat
  BY DEF EngineInv, LocalTypeOK, RemoveQuery, Pointer, QueryState
<1>3. call' \in [Requests -> {"none", "checked", "accepted", "busy", "error", "removed"}]
  BY DEF EngineInv, LocalTypeOK, RemoveQuery
<1>4. LocalTypeOK'
  BY <1>2, <1>3 DEF EngineInv, LocalTypeOK, RemoveQuery, engineVars
<1> QED BY <1>1, <1>4, ShrinkStep DEF EngineInv, SlotBounds, RemoveQuery, engineVars

(* GetLocalInput up to the unlock: the pointers are to states of the table. *)
LEMMA FetchBatchStep ==
  ASSUME EngineInv, FetchBatch
  PROVE  EngineInv'
<1>1. Get \subseteq DOMAIN query_map
  BY DEF Get
<1>2. \A b \in batch' : \E id \in DOMAIN query_map : b = [id |-> id, state |-> query_map[id]]
  BY <1>1 DEF FetchBatch
<1>3. batch' \subseteq Pointer /\ \A b \in batch' : b.state.proc_id < MaxConcurrentQueries
  BY <1>2 DEF EngineInv, TableInv, TableTypeOK, SlotBounds, Pointer
<1>4. TableInv'
  BY DEF EngineInv, TableInv, TableTypeOK, ProcIdsDistinct, tableVars, FetchBatch
<1>5. LocalTypeOK'
  BY <1>3 DEF EngineInv, LocalTypeOK, FetchBatch, apiVars, NoInput
<1> QED BY <1>3, <1>4, <1>5, ShrinkStep DEF FetchBatch, tableVars, NoInput

(* GetLocalInput after the unlock: what it puts into the input has the slot *)
(* of the state that the batch points to.                                   *)
LEMMA ReadBatchStep ==
  ASSUME EngineInv, ReadBatch
  PROVE  EngineInv'
<1>1. \A b \in batch : /\ ProcInput(b) \in QueryProcInput
                       /\ ProcInput(b).proc_id = b.state.proc_id
  BY DEF EngineInv, LocalTypeOK, Pointer, QueryState, ProcInput, QueryProcInput, StateTokens
<1>2. /\ input' \in [is_encoder : BOOLEAN, queries : SUBSET QueryProcInput]
      /\ \A q \in input'.queries : \E b \in batch : q = ProcInput(b)
  <2> DEFINE Q == {ProcInput(b) : b \in batch \ {b \in batch : IsSaturated(b.state)}}
  <2>1. input' = [is_encoder |-> BatchIsEncoder, queries |-> Q]
    BY DEF ReadBatch
  <2>2. Q \in SUBSET QueryProcInput /\ \A q \in Q : \E b \in batch : q = ProcInput(b)
    BY <1>1
  <2>3. BatchIsEncoder \in BOOLEAN
    BY DEF BatchIsEncoder
  <2> HIDE DEF Q
  <2> QED BY <2>1, <2>2, <2>3
<1>3. \A q \in input'.queries : q.proc_id < MaxConcurrentQueries
  BY <1>1, <1>2 DEF EngineInv, SlotBounds
<1>4. saturated' \subseteq [id : QueryIds, req : Requests, pass : {1, 2}]
  BY DEF EngineInv, LocalTypeOK, ReadBatch, Pointer, QueryState
<1>5. phase' \in {"sample", "compute", "recompute"}
  BY DEF ReadBatch
<1>6. LocalTypeOK'
  BY <1>2, <1>4, <1>5 DEF EngineInv, LocalTypeOK, ReadBatch, apiVars
<1>7. TableInv'
  BY DEF EngineInv, TableInv, TableTypeOK, ProcIdsDistinct, tableVars, ReadBatch
<1> QED BY <1>3, <1>6, <1>7, ShrinkStep DEF EngineInv, SlotBounds, ReadBatch, tableVars

(* The workers write rows of the caches, which stay caches.                 *)
LEMMA KvWrittenType ==
  ASSUME LocalTypeOK
  PROVE  KvWritten \in [0 .. MaxConcurrentQueries - 1 -> [0 .. MaxContextLen - 1 -> Rows]]
<1> SUFFICES ASSUME NEW p \in 0 .. MaxConcurrentQueries - 1, NEW row \in 0 .. MaxContextLen - 1
             PROVE  /\ DOMAIN kv = 0 .. MaxConcurrentQueries - 1
                    /\ DOMAIN kv[p] = 0 .. MaxContextLen - 1
                    /\ KvWritten[p][row] \in Rows
  BY DEF LocalTypeOK, KvWritten
<1>1. /\ DOMAIN kv = 0 .. MaxConcurrentQueries - 1
      /\ DOMAIN kv[p] = 0 .. MaxContextLen - 1
      /\ kv[p][row] \in Rows
  BY DEF LocalTypeOK
<1> DEFINE written == \E q \in input.queries :
                        q.proc_id = p /\ row \in q.prefix_len .. q.prefix_len + q.token_num - 1
           writer  == CHOOSE q \in input.queries : q.proc_id = p
           cell    == [serial |-> writer.serial,
                       net |-> IF input.is_encoder THEN "encoder" ELSE "decoder"]
<1>2. KvWritten[p][row] = IF written THEN cell ELSE kv[p][row]
  BY <1>1 DEF KvWritten
<1>3. ASSUME written PROVE cell \in Rows
  <2>1. writer \in input.queries
    BY <1>3
  <2>2. writer.serial \in Nat
    BY <2>1 DEF LocalTypeOK, QueryProcInput
  <2> QED BY <2>2 DEF Rows
<1> HIDE DEF written, cell
<1> QED BY <1>1, <1>2, <1>3

(* BuildLocalOutput, with or without UpdateEncoderEnd.                      *)
LEMMA ComputeStep ==
  ASSUME EngineInv, Compute
  PROVE  EngineInv'
<1>1. /\ TableInv'
      /\ DOMAIN query_map' \subseteq DOMAIN query_map
      /\ \A id \in DOMAIN query_map' :
           query_map'[id].proc_id = query_map[id].proc_id /\ query_map'[id].req = query_map[id].req
  <2>1. CASE UNCHANGED tableVars
    BY <2>1 DEF EngineInv, TableInv, TableTypeOK, ProcIdsDistinct, tableVars
  <2>2. CASE UpdateEncoderEnd({q.id : q \in input.queries})
    BY <2>2, EncoderEndKeepsTable DEF EngineInv
  <2> QED BY <2>1, <2>2 DEF Compute
<1>2. kv' \in [0 .. MaxConcurrentQueries - 1 -> [0 .. MaxContextLen - 1 -> Rows]]
  BY KvWrittenType DEF EngineInv, Compute, BuildLocalOutput
<1>3. phase' \in {"sample", "refetch"}
  BY DEF Compute
<1>4. UNCHANGED <<apiVars, sampler, localVars, produced, undefined>>
  BY DEF Compute
<1>5. LocalTypeOK'
  BY <1>2, <1>3, <1>4 DEF EngineInv, LocalTypeOK, apiVars, localVars
<1> QED BY <1>1, <1>4, <1>5, ShrinkStep DEF EngineInv, SlotBounds, localVars

(* Sampling adds data for ids that have none and changes no other.          *)
LEMMA SampleStep ==
  ASSUME EngineInv, Sample
  PROVE  EngineInv'
<1> DEFINE ids == {q.id : q \in input.queries}
<1>1. ids \subseteq QueryIds
  BY DEF EngineInv, LocalTypeOK, QueryProcInput
<1>2. sampler' = [id \in DOMAIN sampler \cup ids |->
                    IF id \in DOMAIN sampler THEN sampler[id] ELSE "default"]
  BY DEF Sample
<1>3. /\ DOMAIN sampler' \subseteq QueryIds
      /\ sampler' \in [DOMAIN sampler' -> Requests \cup {"default"}]
  <2> HIDE DEF ids
  <2> QED BY <1>1, <1>2 DEF EngineInv, LocalTypeOK
<1>4. results' \subseteq
        [id : QueryIds, req : Requests, prefix_len : Nat, eos : BOOLEAN, pass : 0 .. 2]
  <2>1. PICK eos \in SUBSET ids : results' = SampleResults(eos)
    BY DEF Sample
  <2>2. \A q \in input.queries :
          q.id \in QueryIds /\ q.req \in Requests /\ q.prefix_len \in Nat
    BY DEF EngineInv, LocalTypeOK, QueryProcInput
  <2>3. \A t \in saturated : t.id \in QueryIds /\ t.req \in Requests /\ t.pass \in 0 .. 2
    BY DEF EngineInv, LocalTypeOK
  <2>4. \A q \in input.queries : \A e \in BOOLEAN :
          SampleToken(q, e)
            \in [id : QueryIds, req : Requests, prefix_len : Nat, eos : BOOLEAN, pass : 0 .. 2]
    BY <2>2 DEF SampleToken
  <2>5. \A t \in saturated :
          [id |-> t.id, req |-> t.req, prefix_len |-> MaxContextLen, eos |-> TRUE, pass |-> t.pass]
            \in [id : QueryIds, req : Requests, prefix_len : Nat, eos : BOOLEAN, pass : 0 .. 2]
    BY <2>3, EngineAssumption
  <2>6. \A q \in input.queries : (q.id \in eos) \in BOOLEAN
    OBVIOUS
  <2> HIDE DEF ids
  <2> QED BY <2>1, <2>4, <2>5, <2>6, Zenon DEF SampleResults
<1>5. LocalTypeOK'
  BY <1>3, <1>4 DEF EngineInv, LocalTypeOK, Sample, apiVars
<1>6. TableInv'
  BY DEF EngineInv, TableInv, TableTypeOK, ProcIdsDistinct, tableVars, Sample
<1>7. \A id \in DOMAIN sampler : id \in DOMAIN sampler' /\ sampler'[id] = sampler[id]
  BY <1>2
<1> QED BY <1>5, <1>6, <1>7, ShrinkStep DEF EngineInv, SlotBounds, Sample, tableVars

(* CommitInferenceResult: the options it drops are those of queries it      *)
(* removes from the table in the same critical section.                     *)
LEMMA CommitStep ==
  ASSUME EngineInv, CommitInferenceResult
  PROVE  EngineInv'
<1>1. /\ TableInv'
      /\ DOMAIN query_map' \subseteq DOMAIN query_map
      /\ \A id \in DOMAIN query_map' :
           query_map'[id].proc_id = query_map[id].proc_id /\ query_map'[id].req = query_map[id].req
  BY UpdateKeepsTable DEF EngineInv, CommitInferenceResult
<1>2. DOMAIN query_map' = DOMAIN query_map \ EndedIds
  BY DEF CommitInferenceResult, Update
<1>3. sampler' = [id \in DOMAIN sampler \ (EndedIds \cap DOMAIN query_map) |-> sampler[id]]
  BY DEF CommitInferenceResult, EndQuery
<1>4. \A id \in DOMAIN query_map' :
        id \in DOMAIN sampler => id \in DOMAIN sampler' /\ sampler'[id] = sampler[id]
  BY <1>2, <1>3
<1>5. LocalTypeOK'
  <2>1. produced' \in [Requests -> Nat]
    BY DEF EngineInv, LocalTypeOK, CommitInferenceResult
  <2>2. /\ DOMAIN sampler' \subseteq QueryIds
        /\ sampler' \in [DOMAIN sampler' -> Requests \cup {"default"}]
    BY <1>3 DEF EngineInv, LocalTypeOK
  <2> QED BY <2>1, <2>2 DEF EngineInv, LocalTypeOK, CommitInferenceResult, apiVars, NoInput
<1> QED BY <1>1, <1>4, <1>5, ShrinkStep DEF CommitInferenceResult, NoInput

(* No step of the engine or of a caller breaks the invariant.               *)
LEMMA EngineNextInv == EngineInv /\ [Next]_vars => EngineInv'
<1> SUFFICES ASSUME EngineInv, [Next]_vars PROVE EngineInv'
  OBVIOUS
<1>1. CASE FetchBatch
  BY <1>1, FetchBatchStep
<1>2. CASE ReadBatch
  BY <1>2, ReadBatchStep
<1>3. CASE Compute
  BY <1>3, ComputeStep
<1>4. CASE Sample
  BY <1>4, SampleStep
<1>5. CASE FollowDangling
  <2>1. TableInv'
    BY <1>5 DEF EngineInv, TableInv, TableTypeOK, ProcIdsDistinct, tableVars, FollowDangling
  <2>2. LocalTypeOK'
    BY <1>5 DEF EngineInv, LocalTypeOK, FollowDangling, apiVars, localVars
  <2> QED BY <1>5, <2>1, <2>2, ShrinkStep DEF EngineInv, SlotBounds, FollowDangling, tableVars, localVars
<1>6. CASE CommitInferenceResult
  BY <1>6, CommitStep
<1>7. CASE ApiStep
  <2>1. PICK r \in Requests :
          \/ AddQuery_Check(r)
          \/ AddQuery_Invalid(r)
          \/ \E enc \in EncLens, dec \in DecLens, limit \in OutLimits : AddQuery_Add(r, enc, dec, limit)
          \/ AddQuery_Full(r)
          \/ RemoveQuery(r)
    BY <1>7 DEF ApiStep
  <2>2. CASE AddQuery_Check(r) \/ AddQuery_Invalid(r) \/ AddQuery_Full(r)
    <3>1. call' \in [Requests -> {"none", "checked", "accepted", "busy", "error", "removed"}]
      BY <2>2 DEF EngineInv, LocalTypeOK, AddQuery_Check, AddQuery_Invalid, AddQuery_Full
    <3>2. UNCHANGED <<tableVars, handle, sampler, dangling, produced, undefined, engineVars>>
      BY <2>2 DEF AddQuery_Check, AddQuery_Invalid, AddQuery_Full
    <3> QED BY <3>1, <3>2, CallStep
  <2>3. CASE \E enc \in EncLens, dec \in DecLens, limit \in OutLimits : AddQuery_Add(r, enc, dec, limit)
    BY <2>3, AddQueryStep
  <2>4. CASE RemoveQuery(r)
    BY <2>4, RemoveQueryStep
  <2> QED BY <2>1, <2>2, <2>3, <2>4
<1>9. CASE ComputeFails
  <2>1. TableInv'
    BY <1>9 DEF EngineInv, TableInv, TableTypeOK, ProcIdsDistinct, tableVars, ComputeFails
  <2>2. phase' \in {"compute", "hung", "sample"}
    BY <1>9 DEF ComputeFails
  <2>3. LocalTypeOK'
    BY <1>9, <2>2 DEF EngineInv, LocalTypeOK, ComputeFails, apiVars, localVars
  <2> QED BY <1>9, <2>1, <2>3, ShrinkStep DEF EngineInv, SlotBounds, ComputeFails, tableVars, localVars
<1>8. CASE Halted \/ UNCHANGED vars
  <2>1. UNCHANGED vars
    BY <1>8 DEF Halted
  <2>2. TableInv'
    BY <2>1 DEF EngineInv, TableInv, TableTypeOK, ProcIdsDistinct, vars
  <2>3. LocalTypeOK'
    BY <2>1 DEF EngineInv, LocalTypeOK, vars
  <2> QED BY <2>1, <2>2, <2>3, ShrinkStep DEF EngineInv, SlotBounds, vars
<1> QED BY <1>1, <1>2, <1>3, <1>4, <1>5, <1>6, <1>7, <1>8, <1>9 DEF Next, EngineStep

(* The invariant holds in every state the engine reaches.                   *)
LEMMA EngineInvariant == Spec => []EngineInv
BY EngineInitInv, EngineNextInv, PTL DEF Spec

(* The engine's state keeps its type, in particular the KV cache is never   *)
(* indexed outside and ids stay in range, for every interleaving of         *)
(* submissions, removals and rounds.                                        *)
THEOREM EngineTypeSafe == Spec => []TypeOK
<1>1. EngineInv => TypeOK
  BY DEF EngineInv, TableInv, LocalTypeOK, TypeOK
<1> QED BY <1>1, EngineInvariant, PTL

(* Every query that is live or being computed has a KV cache of its own:    *)
(* query_proc_data_list_[proc_id] of the workers is never indexed past its  *)
(* end and never shared.                                                    *)
THEOREM KvSlotsSafe == Spec => []KvSlotsValid
<1>1. EngineInv => KvSlotsValid
  BY DEF EngineInv, TableInv, SlotBounds, KvSlotsValid
<1> QED BY <1>1, EngineInvariant, PTL

(* max_concurrent_queries is never exceeded although AddQuery tests it in   *)
(* two critical sections, and Add always finds a slot below it.             *)
THEOREM AdmissionSafe == Spec => []AdmissionHasSlot
<1>1. EngineInv => AdmissionHasSlot
  BY FreeSlotExists DEF EngineInv, TableInv, AdmissionHasSlot
<1> QED BY <1>1, EngineInvariant, PTL

(* A live query is sampled with the options it was submitted with, whatever *)
(* RemoveQuery left behind and however often its id was used before.        *)
THEOREM SamplingSafe == Spec => []SamplingOptionsOwn
<1>1. EngineInv => SamplingOptionsOwn
  BY DEF EngineInv
<1> QED BY <1>1, EngineInvariant, PTL

-----------------------------------------------------------------------------
(* Whole rounds of the engine.  For every network: what the engine has in   *)
(* its hands belongs to the request whose id it carries.  For decoder-only  *)
(* networks: a query yields at most one token more than its limit, and its  *)
(* KV cache holds its own keys and values.                                  *)


(* The ways the engine's variables change, here and in the service, where   *)
(* some steps change nothing but undefined.                                 *)
NoChange == UNCHANGED <<tableVars, apiVars, sampler, phase, localVars, kv, produced>>

(* Undefined behaviour: the model stops, everything stays.                  *)
Broken == undefined' = TRUE /\ NoChange

(* Any step of the engine, alone or within the service.                     *)
AnyStep == [Next]_vars \/ Broken

(* A call of AddQuery that only gets on, or is refused.                     *)
CallOnly(r) ==
  /\ call[r] \in {"none", "checked"}
  /\ \E c \in {"checked", "busy", "error"} : call' = [call EXCEPT ![r] = c]
  /\ UNCHANGED <<tableVars, handle, sampler, phase, localVars, kv, produced>>

(* The steps, by what they change.                                          *)
LEMMA StepCases ==
  ASSUME AnyStep
  PROVE  \/ \E r \in Requests : CallOnly(r)
         \/ \E r \in Requests, enc \in EncLens, dec \in DecLens, limit \in OutLimits :
              AddQuery_Add(r, enc, dec, limit)
         \/ \E r \in Requests : RemoveQuery(r)
         \/ FetchBatch \/ ReadBatch \/ Compute \/ ComputeFails \/ Sample
         \/ CommitInferenceResult \/ NoChange
<1>1. CASE ApiStep
  <2>1. ASSUME NEW r \in Requests, AddQuery_Check(r) \/ AddQuery_Invalid(r) \/ AddQuery_Full(r)
        PROVE  CallOnly(r)
    BY <2>1 DEF AddQuery_Check, AddQuery_Invalid, AddQuery_Full, CallOnly, engineVars, localVars
  <2> QED BY <1>1, <2>1 DEF ApiStep
<1>2. CASE UNCHANGED vars \/ Halted \/ FollowDangling \/ Broken
  BY <1>2 DEF vars, Halted, FollowDangling, Broken, NoChange, tableVars, apiVars, localVars
<1> QED
  BY <1>1, <1>2 DEF AnyStep, Next, EngineStep

(* The invariant of InferenceEngineProofs does not depend on undefined.     *)
LEMMA EngineAnyStep ==
  ASSUME EngineInv, AnyStep
  PROVE  EngineInv'
<1>1. CASE [Next]_vars
  BY <1>1, EngineNextInv
<1>2. CASE Broken
  <2>1. TableInv'
    BY <1>2 DEF EngineInv, TableInv, TableTypeOK, ProcIdsDistinct, tableVars, Broken, NoChange
  <2>2. LocalTypeOK'
    BY <1>2 DEF EngineInv, LocalTypeOK, Broken, NoChange, apiVars, localVars
  <2> QED BY <1>2, <2>1, <2>2, ShrinkStep
          DEF EngineInv, SlotBounds, Broken, NoChange, tableVars, localVars
<1> QED BY <1>1, <1>2 DEF AnyStep

-----------------------------------------------------------------------------
(* Request r was given id by AddQuery.                                      *)
Submitted == {"accepted", "removed"}
Owns(r, id) == call[r] \in Submitted /\ handle[r] = id

(* Wherever an id and a request occur together, the id is the request's.    *)
HandleInv ==
  /\ \A id \in DOMAIN query_map : Owns(query_map[id].req, id)
  /\ \A b \in batch : Owns(b.state.req, b.id)
  /\ \A q \in input.queries : Owns(q.req, q.id)
  /\ \A t \in saturated : Owns(t.req, t.id)
  /\ \A x \in results : Owns(x.req, x.id)

(* A request keeps the id it was given: it is submitted only once.          *)
LEMMA OwnsKept ==
  ASSUME LocalTypeOK, AnyStep, NEW r \in Requests, NEW id, Owns(r, id)
  PROVE  Owns(r, id)' /\ handle'[r] = handle[r]
<1>1. CASE \E s \in Requests : CallOnly(s)
  BY <1>1 DEF CallOnly, Owns, Submitted, LocalTypeOK
<1>2. CASE \E s \in Requests, enc \in EncLens, dec \in DecLens, limit \in OutLimits :
             AddQuery_Add(s, enc, dec, limit)
  BY <1>2 DEF AddQuery_Add, Owns, Submitted, LocalTypeOK
<1>3. CASE \E s \in Requests : RemoveQuery(s)
  BY <1>3 DEF RemoveQuery, Owns, Submitted, LocalTypeOK
<1>4. CASE \/ FetchBatch \/ ReadBatch \/ Compute \/ ComputeFails \/ Sample
           \/ CommitInferenceResult \/ NoChange
  BY <1>4 DEF FetchBatch, ReadBatch, Compute, ComputeFails, Sample, CommitInferenceResult, NoChange,
              apiVars, Owns
<1> QED BY <1>1, <1>2, <1>3, <1>4, StepCases

(* Everything of a step with unchanged hands: only the table may change, to *)
(* states of requests that own their ids.                                   *)
LEMMA HandleTableStep ==
  ASSUME EngineInv, HandleInv, AnyStep, UNCHANGED <<batch, input, saturated, results>>,
         \A id \in DOMAIN query_map' :
           \/ id \in DOMAIN query_map /\ query_map'[id].req = query_map[id].req
           \/ Owns(query_map[id].req, id)'
  PROVE  HandleInv'
<1>1. LocalTypeOK /\ TableTypeOK
  BY DEF EngineInv, TableInv
<1>2. \A id \in DOMAIN query_map : query_map[id].req \in Requests
  BY <1>1 DEF TableTypeOK, QueryState
<1>3. \A b \in batch : b.state.req \in Requests
  BY <1>1 DEF LocalTypeOK, Pointer, QueryState
<1>4. /\ \A q \in input.queries : q.req \in Requests
      /\ \A t \in saturated : t.req \in Requests
      /\ \A x \in results : x.req \in Requests
  BY <1>1 DEF LocalTypeOK, QueryProcInput
<1>5. \A r \in Requests : \A id : Owns(r, id) => Owns(r, id)'
  BY <1>1, OwnsKept
<1>6. \A id \in DOMAIN query_map' : Owns(query_map[id].req, id)'
  BY <1>2, <1>5 DEF HandleInv
<1> QED BY <1>3, <1>4, <1>5, <1>6 DEF HandleInv

(* Every step keeps ids with their requests.                                *)
LEMMA HandleStep ==
  ASSUME EngineInv, HandleInv, AnyStep
  PROVE  HandleInv'
<1>t. LocalTypeOK /\ TableTypeOK /\ TableInv
  BY DEF EngineInv, TableInv
<1>1. CASE (\E r \in Requests : CallOnly(r)) \/ ComputeFails \/ NoChange
  <2>1. UNCHANGED <<batch, input, saturated, results>> /\ query_map' = query_map
    BY <1>1 DEF CallOnly, ComputeFails, NoChange, tableVars, localVars
  <2> QED BY <2>1, HandleTableStep
<1>2. ASSUME NEW r \in Requests, NEW enc \in EncLens, NEW dec \in DecLens, NEW limit \in OutLimits,
             AddQuery_Add(r, enc, dec, limit)
      PROVE  HandleInv'
  <2>1. PICK p \in 0 .. MaxProcId : Add(r, enc, dec, limit, p)
    BY <1>2 DEF AddQuery_Add
  <2>2. \A id \in DOMAIN query_map' :
          IF id = next_query_id THEN query_map'[id].req = r
          ELSE id \in DOMAIN query_map /\ query_map'[id] = query_map[id]
    BY <2>1 DEF Add, NewState
  <2>3. call'[r] \in Submitted /\ handle'[r] = next_query_id
    BY <1>2, <1>t DEF AddQuery_Add, Submitted, LocalTypeOK
  <2>4. UNCHANGED <<batch, input, saturated, results>>
    BY <1>2 DEF AddQuery_Add, engineVars
  <2> QED BY <2>2, <2>3, <2>4, HandleTableStep DEF Owns
<1>3. CASE \E r \in Requests : RemoveQuery(r)
  <2>1. \A id \in DOMAIN query_map' : id \in DOMAIN query_map /\ query_map'[id] = query_map[id]
    BY <1>3 DEF RemoveQuery, Remove, Without
  <2>2. UNCHANGED <<batch, input, saturated, results>>
    BY <1>3 DEF RemoveQuery, engineVars
  <2> QED BY <2>1, <2>2, HandleTableStep
<1>4. CASE FetchBatch
  <2>1. \A b \in batch' : \E id \in DOMAIN query_map : b = [id |-> id, state |-> query_map[id]]
    BY <1>4 DEF FetchBatch, Get
  <2>2. UNCHANGED <<query_map, saturated, results, call, handle>> /\ input'.queries = {}
    BY <1>4 DEF FetchBatch, tableVars, apiVars, NoInput
  <2> QED BY <2>1, <2>2 DEF HandleInv, Owns
<1>5. CASE ReadBatch
  <2>1. \A q \in input'.queries : \E b \in batch : q = ProcInput(b)
    BY <1>5 DEF ReadBatch
  <2>2. \A t \in saturated' : t \in saturated \/ \E b \in batch : t.id = b.id /\ t.req = b.state.req
    BY <1>5 DEF ReadBatch
  <2>3. UNCHANGED <<query_map, batch, results, call, handle>>
    BY <1>5 DEF ReadBatch, tableVars, apiVars
  <2> QED BY <2>1, <2>2, <2>3 DEF HandleInv, Owns, ProcInput
<1>6. CASE Compute
  <2>1. \A id \in DOMAIN query_map' : id \in DOMAIN query_map /\ query_map'[id].req = query_map[id].req
    <3>1. CASE UNCHANGED tableVars
      BY <3>1 DEF tableVars
    <3>2. CASE UpdateEncoderEnd({q.id : q \in input.queries})
      BY <1>t, <3>2, EncoderEndKeepsTable
    <3> QED BY <1>6, <3>1, <3>2 DEF Compute
  <2>2. UNCHANGED <<batch, input, saturated, results>>
    BY <1>6 DEF Compute, localVars
  <2> QED BY <2>1, <2>2, HandleTableStep
<1>7. CASE Sample
  <2>1. PICK eos : results' = SampleResults(eos)
    BY <1>7 DEF Sample
  <2>2. \A x \in results' : \/ \E q \in input.queries : x.id = q.id /\ x.req = q.req
                            \/ \E t \in saturated : x.id = t.id /\ x.req = t.req
    BY <2>1 DEF SampleResults, SampleToken
  <2>3. UNCHANGED <<query_map, batch, input, saturated, call, handle>>
    BY <1>7 DEF Sample, tableVars, apiVars
  <2> QED BY <2>2, <2>3 DEF HandleInv, Owns
<1>8. CASE CommitInferenceResult
  <2>1. \A id \in DOMAIN query_map' : id \in DOMAIN query_map /\ query_map'[id].req = query_map[id].req
    BY <1>t, <1>8, UpdateKeepsTable DEF CommitInferenceResult
  <2>2. /\ batch' = {} /\ input'.queries = {} /\ saturated' = {} /\ results' = {}
        /\ call' = call /\ handle' = handle
    BY <1>8 DEF CommitInferenceResult, NoInput, apiVars
  <2> QED BY <2>1, <2>2 DEF HandleInv, Owns
<1> QED
  BY <1>1, <1>2, <1>3, <1>4, <1>5, <1>6, <1>7, <1>8, StepCases

(* No id is in use in the beginning.                                        *)
LEMMA HandleInit == Init => HandleInv
BY DEF Init, TableInit, HandleInv, NoInput

-----------------------------------------------------------------------------
(* A round of a decoder-only network: one GetLocalInput, one computation,   *)
(* one sampling.  The input is made of the pointers that are not saturated, *)
(* the results of the input and of the saturated queries.                   *)
RoundShape ==
  /\ phase \in {"idle", "read", "compute", "sample", "deliver", "hung"}
  /\ phase \in {"idle", "read"} => input.queries = {} /\ saturated = {}
  /\ phase = "idle" => batch = {}
  /\ phase # "deliver" => results = {}
  /\ ~ input.is_encoder
  /\ \A q \in input.queries : \E b \in batch : q = ProcInput(b) /\ ~ IsSaturated(b.state)
  /\ \A t \in saturated : \E b \in batch : t.id = b.id /\ t.req = b.state.req /\ IsSaturated(b.state)
  /\ \A x \in results :
       \/ x.eos /\ \E t \in saturated : x.id = t.id /\ x.req = t.req
       \/ \E q \in input.queries : x.id = q.id /\ x.req = q.req /\ x.prefix_len = q.prefix_len
  /\ \A a, b \in batch : a.id = b.id => a = b

(* Of a decoder-only network a batch is never an encoder's.                 *)
LEMMA DecoderBatch ==
  ASSUME NetType = "decoder_only", NEW s
  PROVE  /\ BatchIsEncoder = FALSE /\ StateTokens(s) = s.decoder_tokens
         /\ BatchIsEncoder' = FALSE /\ StateTokens(s)' = s.decoder_tokens
         /\ IsSaturated(s)' = IsSaturated(s)
BY DEF BatchIsEncoder, StateTokens, IsSaturated

(* GetLocalInput takes pointers to the states as they are.                  *)
LEMMA FetchedPointers ==
  ASSUME FetchBatch
  PROVE  \A b \in batch' : b.id \in DOMAIN query_map /\ b.state = query_map[b.id]
<1>1. batch' = {[id |-> id, state |-> query_map[id]] : id \in Get}
  BY DEF FetchBatch
<1>2. Get \subseteq DOMAIN query_map
  BY DEF Get
<1> QED BY <1>1, <1>2

(* The engine thread starts between two rounds.                             *)
LEMMA RoundShapeInit == Init => RoundShape
BY DEF Init, RoundShape, NoInput

(* Every step of a decoder-only engine keeps the round in shape.            *)
LEMMA RoundShapeStep ==
  ASSUME NetType = "decoder_only", EngineInv, RoundShape, AnyStep
  PROVE  RoundShape'
<1>s. \A s : IsSaturated(s)' = IsSaturated(s)
  BY DecoderBatch
<1>p. \A b : ProcInput(b)' = ProcInput(b)
  BY DecoderBatch DEF ProcInput
<1>1. ASSUME UNCHANGED <<phase, batch, input, saturated, results>> PROVE RoundShape'
  BY <1>1, <1>s, <1>p DEF RoundShape
<1>2. CASE (\E r \in Requests : CallOnly(r)) \/ NoChange
  BY <1>1, <1>2 DEF CallOnly, NoChange, localVars
<1>3. CASE \E r \in Requests, enc \in EncLens, dec \in DecLens, limit \in OutLimits :
             AddQuery_Add(r, enc, dec, limit)
  BY <1>1, <1>3 DEF AddQuery_Add, engineVars
<1>4. CASE \E r \in Requests : RemoveQuery(r)
  BY <1>1, <1>4 DEF RemoveQuery, engineVars
<1>5. CASE FetchBatch
  <2>1. phase = "idle"
    BY <1>5 DEF FetchBatch, RoundShape
  <2>2. batch' = {[id |-> id, state |-> query_map[id]] : id \in Get} /\ Get \subseteq DOMAIN query_map
    BY <1>5 DEF FetchBatch, Get
  <2>3. /\ input'.queries = {} /\ ~ input'.is_encoder
        /\ saturated' = saturated /\ results' = results
        /\ phase' = IF DOMAIN query_map # {} THEN "read" ELSE "idle"
    BY <1>5, <2>1 DEF FetchBatch, NoInput
  <2>4. DOMAIN query_map = {} => batch' = {}
    BY <2>2
  <2>5. \A a, b \in batch' : a.id = b.id => a = b
    BY <2>2
  <2> QED BY <2>1, <2>3, <2>4, <2>5 DEF RoundShape
<1>6. CASE ReadBatch
  <2>1. phase = "read"
    BY <1>6 DEF ReadBatch, RoundShape
  <2>2. saturated = {} /\ results = {}
    BY <2>1 DEF RoundShape
  <2> DEFINE full == {b \in batch : IsSaturated(b.state)}
  <2>3. /\ input' = [is_encoder |-> FALSE, queries |-> {ProcInput(b) : b \in batch \ full}]
        /\ saturated' = {[id |-> b.id, req |-> b.state.req, pass |-> 1] : b \in full}
        /\ phase' \in {"sample", "compute"}
        /\ batch' = batch /\ results' = results
    BY <1>6, <2>1, <2>2, DecoderBatch DEF ReadBatch
  <2>4. \A q \in input'.queries : \E b \in batch : q = ProcInput(b) /\ ~ IsSaturated(b.state)
    BY <2>3
  <2>5. \A t \in saturated' : \E b \in batch :
          t.id = b.id /\ t.req = b.state.req /\ IsSaturated(b.state)
    BY <2>3
  <2>6. input'.is_encoder = FALSE
    BY <2>3
  <2> HIDE DEF full
  <2> QED BY <1>s, <1>p, <2>2, <2>3, <2>4, <2>5, <2>6 DEF RoundShape
<1>7. CASE Compute
  <2>1. phase = "compute" /\ phase' = "sample"
    BY <1>7 DEF Compute, RoundShape
  <2>2. UNCHANGED <<batch, input, saturated, results>>
    BY <1>7 DEF Compute, localVars
  <2> QED BY <1>s, <1>p, <2>1, <2>2 DEF RoundShape
<1>8. CASE Sample
  <2>1. PICK eos : results' = SampleResults(eos)
    BY <1>8 DEF Sample
  <2>2. \A x \in results' :
          \/ x.eos /\ \E t \in saturated : x.id = t.id /\ x.req = t.req
          \/ \E q \in input.queries : x.id = q.id /\ x.req = q.req /\ x.prefix_len = q.prefix_len
    BY <2>1 DEF SampleResults, SampleToken
  <2>3. UNCHANGED <<batch, input, saturated>> /\ phase = "sample" /\ phase' = "deliver"
    BY <1>8 DEF Sample
  <2> QED BY <1>s, <1>p, <2>2, <2>3 DEF RoundShape
<1>9. CASE CommitInferenceResult
  BY <1>9 DEF CommitInferenceResult, NoInput, RoundShape
<1>10. CASE ComputeFails
  <2>1. phase = "compute" /\ phase' \in {"compute", "hung"}
    BY <1>10 DEF ComputeFails, RoundShape
  <2>2. UNCHANGED <<batch, input, saturated, results>>
    BY <1>10 DEF ComputeFails, localVars
  <2> QED BY <1>s, <1>p, <2>1, <2>2 DEF RoundShape
<1> QED
  BY <1>2, <1>3, <1>4, <1>5, <1>6, <1>7, <1>8, <1>9, <1>10, StepCases

(* The steps of a decoder-only network as they concern the table.           *)
LEMMA DecoderTable ==
  ASSUME NetType = "decoder_only", RoundShape, Compute
  PROVE  /\ UNCHANGED tableVars /\ phase = "compute" /\ phase' = "sample"
         /\ UNCHANGED <<call, handle, batch, input, saturated, results, produced>>
         /\ kv' = KvWritten
BY DEF Compute, RoundShape, BuildLocalOutput, apiVars, localVars

-----------------------------------------------------------------------------
(* How many tokens a live query has yielded.  A pointer of the batch shows  *)
(* the state of its query as it is, as long as that query is live.          *)
OutputInv ==
  /\ \A b \in batch :
       b.id \in DOMAIN query_map /\ query_map[b.id].req = b.state.req => query_map[b.id] = b.state
  /\ \A id \in DOMAIN query_map :
       LET s == query_map[id]
       IN  /\ IF s.prefix_len = 0
              THEN s.decoder_tokens > 0 /\ produced[s.req] = 0
              ELSE s.decoder_tokens = 1 /\ produced[s.req] <= s.prefix_len - s.initial_prefix_len + 1
           /\ s.prefix_len = 0 => s.decoder_tokens = s.initial_prefix_len
  /\ \A r \in Requests : call[r] \notin Submitted => produced[r] = 0
  /\ OutputOverrunAtMostOne

(* Nothing was produced in the beginning.                                   *)
LEMMA OutputInit == Init => OutputInv
BY DEF Init, TableInit, OutputInv, OutputOverrunAtMostOne

(* What Update does to a state.                                             *)
LEMMA AdvancedFields ==
  ASSUME NEW s \in QueryState
  PROVE  /\ Advanced(s).prefix_len = s.prefix_len + s.decoder_tokens
         /\ Advanced(s).decoder_tokens = 1
         /\ Advanced(s).initial_prefix_len = s.initial_prefix_len
         /\ Advanced(s).max_output = s.max_output
         /\ Advanced(s).req = s.req /\ Advanced(s).proc_id = s.proc_id
         /\ Advanced(s).serial = s.serial
BY DEF Advanced, QueryState

(* The commit: a text token is counted for a request only if its query was  *)
(* below the limit when the round began, and then it is Advanced.           *)
LEMMA OutputCommit ==
  ASSUME NetType = "decoder_only", EngineInv, HandleInv, RoundShape, OutputInv,
         CommitInferenceResult
  PROVE  OutputInv'
<1>t. LocalTypeOK /\ TableTypeOK
  BY DEF EngineInv, TableInv
<1>1. /\ batch' = {} /\ call' = call
      /\ query_map' = [id \in DOMAIN query_map \ EndedIds |->
                         IF id \in ResultIds THEN Advanced(query_map[id]) ELSE query_map[id]]
      /\ produced' = [r \in Requests |->
           produced[r] + IF \E x \in results : x.req = r /\ ~ IsEnd(x) THEN 1 ELSE 0]
  BY DEF CommitInferenceResult, Update, apiVars
<1>2. ASSUME NEW x \in results, ~ IsEnd(x)
      PROVE  \E b \in batch : x.id = b.id /\ x.req = b.state.req /\ ~ IsSaturated(b.state)
  <2>1. \E q \in input.queries : x.id = q.id /\ x.req = q.req
    BY <1>2 DEF RoundShape, IsEnd
  <2> QED BY <2>1 DEF RoundShape, ProcInput
<1>3. ASSUME NEW id \in DOMAIN query_map'
      PROVE  LET s == query_map'[id]
             IN  /\ IF s.prefix_len = 0
                    THEN s.decoder_tokens > 0 /\ produced'[s.req] = 0
                    ELSE /\ s.decoder_tokens = 1
                         /\ produced'[s.req] <= s.prefix_len - s.initial_prefix_len + 1
                 /\ s.prefix_len = 0 => s.decoder_tokens = s.initial_prefix_len
                 /\ s.max_output >= 0 => produced'[s.req] <= s.max_output + 1
  <2> DEFINE s == query_map[id]
             t == query_map'[id]
             yields == \E x \in results : x.req = s.req /\ ~ IsEnd(x)
  <2>1. id \in DOMAIN query_map /\ s \in QueryState /\ s.req \in Requests
    BY <1>1, <1>t DEF TableTypeOK, QueryState
  <2>2. t = IF id \in ResultIds THEN Advanced(s) ELSE s
    BY <1>1
  <2>3. /\ s.prefix_len \in Nat /\ s.decoder_tokens \in Nat /\ s.initial_prefix_len \in Nat
        /\ s.max_output \in Int /\ produced[s.req] \in Nat
    BY <2>1, <1>t DEF QueryState, LocalTypeOK
  <2>4. produced'[s.req] = produced[s.req] + IF yields THEN 1 ELSE 0
    BY <1>1, <2>1
  <2>5. /\ IF s.prefix_len = 0
           THEN s.decoder_tokens > 0 /\ produced[s.req] = 0
           ELSE s.decoder_tokens = 1 /\ produced[s.req] <= s.prefix_len - s.initial_prefix_len + 1
        /\ s.prefix_len = 0 => s.decoder_tokens = s.initial_prefix_len
        /\ s.max_output >= 0 => produced[s.req] <= s.max_output + 1
    BY <2>1 DEF OutputInv, OutputOverrunAtMostOne
  <2>6. t.req = s.req /\ t.initial_prefix_len = s.initial_prefix_len /\ t.max_output = s.max_output
    BY <2>1, <2>2, AdvancedFields
  <2>7. CASE yields
    <3>1. PICK x \in results : x.req = s.req /\ ~ IsEnd(x)
      BY <2>7
    <3>2. PICK b \in batch : x.id = b.id /\ x.req = b.state.req /\ ~ IsSaturated(b.state)
      BY <1>2, <3>1
    <3>3. x.id = id
      BY <2>1, <3>1 DEF HandleInv, Owns
    <3>4. s = b.state
      BY <2>1, <3>1, <3>2, <3>3 DEF OutputInv
    <3>5. s.max_output >= 0 => s.prefix_len - s.initial_prefix_len < s.max_output
      <4>1. s.max_output >= 0 => ~ (s.prefix_len - s.initial_prefix_len >= s.max_output)
        BY <3>2, <3>4 DEF IsSaturated
      <4> QED BY <2>3, <4>1
    <3>6. t.prefix_len = s.prefix_len + s.decoder_tokens /\ t.decoder_tokens = 1
      <4>1. id \in ResultIds
        BY <3>1, <3>3 DEF ResultIds
      <4> QED BY <2>1, <2>2, <4>1, AdvancedFields
    <3>7. produced'[s.req] = produced[s.req] + 1
      BY <2>4, <2>7
    <3> HIDE DEF s, t, yields
    <3> QED BY <2>3, <2>5, <2>6, <3>5, <3>6, <3>7 DEF s, t
  <2>8. CASE ~ yields
    <3>1. produced'[s.req] = produced[s.req]
      BY <2>3, <2>4, <2>8
    <3>2. CASE id \in ResultIds
      <4>1. t.prefix_len = s.prefix_len + s.decoder_tokens /\ t.decoder_tokens = 1
        BY <2>1, <2>2, <3>2, AdvancedFields
      <4> HIDE DEF s, t, yields
      <4> QED BY <2>3, <2>5, <2>6, <3>1, <4>1 DEF s, t
    <3>3. CASE id \notin ResultIds
      <4>1. t = s
        BY <2>2, <3>3
      <4> HIDE DEF s, t, yields
      <4> QED BY <2>5, <3>1, <4>1 DEF s, t
    <3> QED BY <3>2, <3>3
  <2> QED BY <2>7, <2>8
<1>4. \A r \in Requests : call[r] \notin Submitted => produced'[r] = 0
  <2> SUFFICES ASSUME NEW r \in Requests, call[r] \notin Submitted PROVE produced'[r] = 0
    OBVIOUS
  <2>1. \A x \in results : x.req # r
    BY DEF HandleInv, Owns
  <2>2. produced[r] = 0
    BY DEF OutputInv
  <2> QED BY <1>1, <2>1, <2>2
<1> QED BY <1>1, <1>3, <1>4 DEF OutputInv, OutputOverrunAtMostOne

(* The other steps change no state of the table; Add makes a new one.       *)
LEMMA OutputStep ==
  ASSUME NetType = "decoder_only", EngineInv, HandleInv, RoundShape, OutputInv, AnyStep
  PROVE  OutputInv'
<1>t. LocalTypeOK /\ TableTypeOK
  BY DEF EngineInv, TableInv
<1>1. ASSUME UNCHANGED <<query_map, batch, produced>>,
             \A r \in Requests : call'[r] \notin Submitted => call[r] \notin Submitted
      PROVE  OutputInv'
  BY <1>1 DEF OutputInv, OutputOverrunAtMostOne
<1>2. CASE \E r \in Requests : CallOnly(r)
  <2>1. \A r \in Requests : call'[r] \notin Submitted => call[r] \notin Submitted
    BY <1>2, <1>t DEF CallOnly, LocalTypeOK, Submitted
  <2> QED BY <1>1, <1>2, <2>1 DEF CallOnly, tableVars, localVars
<1>3. CASE NoChange \/ ReadBatch \/ Sample \/ Compute \/ ComputeFails
  <2>1. UNCHANGED <<query_map, batch, produced, call>>
    BY <1>3, DecoderTable DEF NoChange, ReadBatch, Sample, ComputeFails, tableVars, apiVars, localVars
  <2> QED BY <1>1, <2>1
<1>4. ASSUME NEW r \in Requests, NEW enc \in EncLens, NEW dec \in DecLens, NEW limit \in OutLimits,
             AddQuery_Add(r, enc, dec, limit)
      PROVE  OutputInv'
  <2>1. PICK p \in 0 .. MaxProcId : Add(r, enc, dec, limit, p)
    BY <1>4 DEF AddQuery_Add
  <2>2. /\ DOMAIN query_map' = DOMAIN query_map \cup {next_query_id}
        /\ query_map'[next_query_id] = NewState(r, enc, dec, limit, p)
        /\ \A id \in DOMAIN query_map \ {next_query_id} : query_map'[id] = query_map[id]
    BY <2>1 DEF Add
  <2>3. /\ NewState(r, enc, dec, limit, p).req = r
        /\ NewState(r, enc, dec, limit, p).prefix_len = 0
        /\ NewState(r, enc, dec, limit, p).decoder_tokens = dec
        /\ NewState(r, enc, dec, limit, p).initial_prefix_len = dec
        /\ NewState(r, enc, dec, limit, p).max_output = limit
    BY DEF NewState
  <2>4. /\ call[r] = "checked" /\ dec > 0 /\ batch' = batch /\ produced' = produced
        /\ call' = [call EXCEPT ![r] = "accepted"]
    BY <1>4 DEF AddQuery_Add, engineVars
  <2>5. produced[r] = 0
    BY <2>4 DEF OutputInv, Submitted
  <2>6. \A b \in batch : b.state.req # r
    BY <2>4 DEF HandleInv, Owns, Submitted
  <2>7. limit \in Int /\ 0 <= 0 + 1
    BY TableAssumption
  <2>8. \A b \in batch : b.id \in DOMAIN query_map' /\ query_map'[b.id].req = b.state.req
                           => query_map'[b.id] = b.state
    BY <2>2, <2>3, <2>6 DEF OutputInv
  <2>9. \A id \in DOMAIN query_map' :
          LET s == query_map'[id]
          IN  /\ IF s.prefix_len = 0
                 THEN s.decoder_tokens > 0 /\ produced[s.req] = 0
                 ELSE s.decoder_tokens = 1 /\ produced[s.req] <= s.prefix_len - s.initial_prefix_len + 1
              /\ s.prefix_len = 0 => s.decoder_tokens = s.initial_prefix_len
              /\ s.max_output >= 0 => produced[s.req] <= s.max_output + 1
    <3> SUFFICES ASSUME NEW id \in DOMAIN query_map'
                 PROVE  LET s == query_map'[id]
                        IN  /\ IF s.prefix_len = 0
                               THEN s.decoder_tokens > 0 /\ produced[s.req] = 0
                               ELSE /\ s.decoder_tokens = 1
                                    /\ produced[s.req] <= s.prefix_len - s.initial_prefix_len + 1
                            /\ s.prefix_len = 0 => s.decoder_tokens = s.initial_prefix_len
                            /\ s.max_output >= 0 => produced[s.req] <= s.max_output + 1
      OBVIOUS
    <3>1. CASE id = next_query_id
      BY <2>2, <2>3, <2>4, <2>5, <2>7, <3>1
    <3>2. CASE id # next_query_id
      <4>1. id \in DOMAIN query_map /\ query_map'[id] = query_map[id]
        BY <2>2, <3>2
      <4> QED BY <4>1 DEF OutputInv, OutputOverrunAtMostOne
    <3> QED BY <3>1, <3>2
  <2>10. \A c \in Requests : call'[c] \notin Submitted => produced[c] = 0
    BY <1>t, <2>4 DEF OutputInv, LocalTypeOK, Submitted
  <2> QED BY <2>4, <2>8, <2>9, <2>10 DEF OutputInv, OutputOverrunAtMostOne
<1>5. CASE \E r \in Requests : RemoveQuery(r)
  <2>1. \A id \in DOMAIN query_map' : id \in DOMAIN query_map /\ query_map'[id] = query_map[id]
    BY <1>5 DEF RemoveQuery, Remove, Without
  <2>2. batch' = batch /\ produced' = produced
    BY <1>5 DEF RemoveQuery, engineVars
  <2>3. \A c \in Requests : call'[c] \notin Submitted => call[c] \notin Submitted
    BY <1>5, <1>t DEF RemoveQuery, LocalTypeOK, Submitted
  <2> QED BY <2>1, <2>2, <2>3 DEF OutputInv, OutputOverrunAtMostOne
<1>6. CASE FetchBatch
  <2>1. \A b \in batch' : b.id \in DOMAIN query_map /\ b.state = query_map[b.id]
    BY <1>6, FetchedPointers
  <2>2. UNCHANGED <<query_map, produced, call>>
    BY <1>6 DEF FetchBatch, tableVars, apiVars
  <2> QED BY <2>1, <2>2 DEF OutputInv, OutputOverrunAtMostOne
<1>7. CASE CommitInferenceResult
  BY <1>7, OutputCommit
<1> QED BY <1>2, <1>3, <1>4, <1>5, <1>6, <1>7, StepCases

(* What holds in every round of a decoder-only network.                     *)
DecoderInv == EngineInv /\ HandleInv /\ RoundShape /\ OutputInv

(* The invariant holds in the beginning.                                    *)
LEMMA DecoderInvInit == Init => DecoderInv
BY EngineInitInv, HandleInit, RoundShapeInit, OutputInit DEF DecoderInv

(* Every step, also an undefined one, keeps the invariant.                  *)
LEMMA DecoderInvStep ==
  ASSUME NetType = "decoder_only", DecoderInv, AnyStep
  PROVE  DecoderInv'
BY EngineAnyStep, HandleStep, RoundShapeStep, OutputStep DEF DecoderInv

(* The invariant of decoder-only engines.                                   *)
LEMMA DecoderInvariant ==
  ASSUME NetType = "decoder_only"
  PROVE  Spec => []DecoderInv
<1>1. DecoderInv /\ [Next]_vars => DecoderInv'
  BY DecoderInvStep DEF AnyStep
<1> QED BY <1>1, DecoderInvInit, PTL DEF Spec

(* GetLocalInput tests the output limit before the round whose token would  *)
(* be the one too many, and the prompt's own round yields a token: for any  *)
(* limit at most one token more, also while ids are used again and queries  *)
(* are removed under the engine's hands.                                    *)
THEOREM OutputOverrunBounded ==
  ASSUME NetType = "decoder_only"
  PROVE  Spec => []OutputOverrunAtMostOne
<1>1. DecoderInv => OutputOverrunAtMostOne
  BY DEF DecoderInv, OutputInv
<1> QED BY <1>1, DecoderInvariant, PTL

-----------------------------------------------------------------------------
(* The KV cache.  An id that a query of the running batch has is not given  *)
(* to another query before MaxQueryId newer queries were added; with the    *)
(* code's 10000 ids a round is over long before.                            *)
FreshBatch == \A b \in batch : added - b.state.serial < MaxQueryId

(* A live query in the slot of a query of the batch either is that query or *)
(* has nothing in its cache yet.  What the round has computed is in the     *)
(* rows that the commit moves into the prefix.                              *)
KvInv ==
  /\ SerialsSpread
  /\ \A b \in batch : added - b.state.serial >= Since(b.id)
  /\ \A b \in batch : b.id \in DOMAIN query_map => query_map[b.id] = b.state
  /\ \A a, b \in batch : a.state.proc_id = b.state.proc_id => a = b
  /\ \A b \in batch : \A id \in DOMAIN query_map :
       query_map[id].proc_id = b.state.proc_id => id = b.id \/ query_map[id].prefix_len = 0
  /\ phase \in {"sample", "deliver"} =>
       \A q \in input.queries : \A row \in q.prefix_len .. q.prefix_len + q.token_num - 1 :
         kv[q.proc_id][row] = [serial |-> q.serial, net |-> "decoder"]
  /\ KvCacheCoherent

(* The table is empty in the beginning, and no cache is in use.             *)
LEMMA KvInit == Init => KvInv
BY DEF Init, TableInit, KvInv, SerialsSpread, KvCacheCoherent, NoInput

(* Steps that leave the table, the batch and the caches alone.              *)
LEMMA KvSameStep ==
  ASSUME KvInv, UNCHANGED <<tableVars, batch, kv>>,
         phase' \in {"sample", "deliver"} => phase \in {"sample", "deliver"} /\ input' = input
  PROVE  KvInv'
<1>1. query_map' = query_map /\ next_query_id' = next_query_id /\ added' = added
  BY DEF tableVars
<1>2. SerialsSpread' /\ \A b \in batch : added' - b.state.serial >= Since(b.id)'
  BY <1>1 DEF KvInv, SerialsSpread, Since
<1>3. KvCacheCoherent'
  BY <1>1 DEF KvInv, KvCacheCoherent
<1> QED BY <1>1, <1>2, <1>3 DEF KvInv

(* ReadBatch with nothing left to compute goes on to the sampling at once.  *)
LEMMA KvReadStep ==
  ASSUME NetType = "decoder_only", RoundShape, KvInv, ReadBatch
  PROVE  KvInv'
<1>1. phase = "read"
  BY DEF ReadBatch, RoundShape
<1> DEFINE full == {b \in batch : IsSaturated(b.state)}
<1>2. /\ input'.queries = {ProcInput(b) : b \in batch \ full}
      /\ phase' = IF full = batch THEN "sample" ELSE "compute"
      /\ UNCHANGED <<tableVars, batch, kv>>
  BY <1>1 DEF ReadBatch
<1>3. phase' = "sample" => input'.queries = {}
  BY <1>2
<1>4. query_map' = query_map /\ next_query_id' = next_query_id /\ added' = added
  BY <1>2 DEF tableVars
<1>5. SerialsSpread' /\ \A b \in batch : added' - b.state.serial >= Since(b.id)'
  BY <1>4 DEF KvInv, SerialsSpread, Since
<1>6. KvCacheCoherent'
  BY <1>2, <1>4 DEF KvInv, KvCacheCoherent
<1>7. phase' # "deliver"
  BY <1>2
<1> HIDE DEF full
<1> QED BY <1>2, <1>3, <1>4, <1>5, <1>6, <1>7 DEF KvInv

(* BuildLocalOutput: no row below the prefix of a live query is written,    *)
(* and every row of a query of the input is written for that query.         *)
LEMMA KvComputeStep ==
  ASSUME NetType = "decoder_only", EngineInv, RoundShape, KvInv, Compute
  PROVE  KvInv'
<1>t. LocalTypeOK /\ TableTypeOK /\ SlotBounds
  BY DEF EngineInv, TableInv
<1>1. /\ query_map' = query_map /\ next_query_id' = next_query_id /\ added' = added
      /\ UNCHANGED <<batch, input>> /\ phase' = "sample" /\ kv' = KvWritten
  BY DecoderTable DEF tableVars
<1>2. SerialsSpread' /\ \A b \in batch : added' - b.state.serial >= Since(b.id)'
  BY <1>1 DEF KvInv, SerialsSpread, Since
<1>3. DOMAIN kv = 0 .. MaxConcurrentQueries - 1
      /\ \A p \in DOMAIN kv : DOMAIN kv[p] = 0 .. MaxContextLen - 1
  BY <1>t DEF LocalTypeOK
<1>w. \A p \in DOMAIN kv : \A row \in DOMAIN kv[p] :
        kv'[p][row] =
          IF \E q \in input.queries : q.proc_id = p /\ row \in q.prefix_len .. q.prefix_len + q.token_num - 1
          THEN [serial |-> (CHOOSE q \in input.queries : q.proc_id = p).serial, net |-> "decoder"]
          ELSE kv[p][row]
  <2>1. ~ input.is_encoder
    BY DEF RoundShape
  <2> QED BY <1>1, <2>1 DEF KvWritten
<1>q. ASSUME NEW q \in input.queries
      PROVE  /\ \E b \in batch : q = ProcInput(b) /\ q.id = b.id /\ q.proc_id = b.state.proc_id
                                 /\ q.serial = b.state.serial /\ q.prefix_len = b.state.prefix_len
             /\ q.prefix_len \in Nat /\ q.token_num \in Nat /\ q.proc_id \in Nat
             /\ q.prefix_len + q.token_num <= MaxContextLen
  <2>1. PICK b \in batch : q = ProcInput(b) /\ ~ IsSaturated(b.state)
    BY DEF RoundShape
  <2>2. /\ q.id = b.id /\ q.proc_id = b.state.proc_id /\ q.serial = b.state.serial
        /\ q.prefix_len = b.state.prefix_len /\ q.token_num = StateTokens(b.state)
    BY <2>1 DEF ProcInput
  <2>3. q.prefix_len \in Nat /\ q.token_num \in Nat /\ q.proc_id \in Nat
    BY <1>t, TableAssumption DEF LocalTypeOK, QueryProcInput
  <2>4. ~ (q.prefix_len + q.token_num > MaxContextLen)
    BY <2>1, <2>2 DEF IsSaturated
  <2> QED BY <2>1, <2>2, <2>3, <2>4, EngineAssumption
<1>u. ASSUME NEW q \in input.queries, NEW c \in input.queries, c.proc_id = q.proc_id
      PROVE  c = q
  BY <1>q, <1>u DEF KvInv
<1>4. ASSUME NEW q \in input.queries, NEW row \in q.prefix_len .. q.prefix_len + q.token_num - 1
      PROVE  kv'[q.proc_id][row] = [serial |-> q.serial, net |-> "decoder"]
  <2>1. q.proc_id \in DOMAIN kv
    BY <1>q, <1>3, <1>t, EngineAssumption, TableAssumption DEF SlotBounds
  <2>2. row \in DOMAIN kv[q.proc_id]
    BY <1>q, <1>3, <2>1, EngineAssumption, SMTT(30)
  <2>3. (CHOOSE c \in input.queries : c.proc_id = q.proc_id) = q
    BY <1>u
  <2> QED BY <1>w, <2>1, <2>2, <2>3
<1>5. ASSUME NEW id \in DOMAIN query_map, NEW row \in 0 .. query_map[id].prefix_len - 1
      PROVE  /\ row < MaxContextLen
             /\ kv'[query_map[id].proc_id][row] = [serial |-> query_map[id].serial, net |-> "decoder"]
  <2> DEFINE s == query_map[id]
  <2>1. s \in QueryState /\ s.proc_id < MaxConcurrentQueries
    BY <1>t DEF TableTypeOK, SlotBounds
  <2>2. s.prefix_len \in Nat /\ s.proc_id \in Nat
    BY <2>1, TableAssumption DEF QueryState
  <2>3. row < MaxContextLen /\ kv[s.proc_id][row] = [serial |-> s.serial, net |-> "decoder"]
    BY DEF KvInv, KvCacheCoherent
  <2>4. s.proc_id \in DOMAIN kv /\ row \in DOMAIN kv[s.proc_id]
    BY <1>3, <2>1, <2>2, <2>3, EngineAssumption, TableAssumption
  <2>5. ASSUME NEW q \in input.queries, q.proc_id = s.proc_id
        PROVE  row \notin q.prefix_len .. q.prefix_len + q.token_num - 1
    <3>1. PICK b \in batch : q.id = b.id /\ q.proc_id = b.state.proc_id /\ q.prefix_len = b.state.prefix_len
      BY <1>q
    <3>2. s.prefix_len # 0
      BY <2>2
    <3>3. id = b.id
      BY <2>5, <3>1, <3>2 DEF KvInv
    <3>4. s.prefix_len = q.prefix_len
      BY <3>1, <3>3 DEF KvInv
    <3> QED BY <2>2, <3>4
  <2> QED BY <1>w, <2>3, <2>4, <2>5
<1>6. KvCacheCoherent'
  BY <1>1, <1>5 DEF KvCacheCoherent
<1> QED BY <1>1, <1>2, <1>4, <1>6 DEF KvInv

(* AddQuery: the new state has an empty prefix, and an id nobody in the     *)
(* batch has.                                                               *)
LEMMA KvAddStep ==
  ASSUME EngineInv, KvInv, FreshBatch', NEW r \in Requests, NEW enc \in EncLens, NEW dec \in DecLens,
         NEW limit \in OutLimits, AddQuery_Add(r, enc, dec, limit)
  PROVE  KvInv'
<1>t. LocalTypeOK /\ TableTypeOK /\ TableInv
  BY DEF EngineInv, TableInv
<1>1. PICK p \in 0 .. MaxProcId : Add(r, enc, dec, limit, p)
  BY DEF AddQuery_Add
<1>2. UNCHANGED <<batch, kv, phase, input>>
  BY DEF AddQuery_Add, engineVars
<1>3. SerialsSpread'
  BY <1>1, <1>t, AddKeepsSpread DEF CycleInv, KvInv
<1>4. /\ DOMAIN query_map' = DOMAIN query_map \cup {next_query_id}
      /\ query_map'[next_query_id].prefix_len = 0
      /\ \A id \in DOMAIN query_map \ {next_query_id} : query_map'[id] = query_map[id]
      /\ added' = added + 1
      /\ next_query_id' = IF next_query_id < MaxQueryId THEN next_query_id + 1 ELSE 1
  BY <1>1 DEF Add, NewState, NextQueryId
<1>5. /\ MaxQueryId \in Nat /\ MaxQueryId > 0
      /\ next_query_id \in 1 .. MaxQueryId /\ added \in Nat
      /\ \A b \in batch : b.id \in 1 .. MaxQueryId /\ b.state.serial \in Nat
  BY <1>t, TableAssumption, SMTT(30) DEF TableTypeOK, LocalTypeOK, QueryIds, Pointer, QueryState
<1>6. ASSUME NEW b \in batch
      PROVE  b.id # next_query_id /\ added' - b.state.serial >= Since(b.id)'
  <2>1. added - b.state.serial >= Since(b.id)
    BY DEF KvInv
  <2>2. added' - b.state.serial < MaxQueryId
    BY <1>2 DEF FreshBatch
  <2>3. b.id # next_query_id
    BY <1>4, <1>5, <2>1, <2>2 DEF Since
  <2>4. b.id \in 1 .. MaxQueryId /\ b.state.serial \in Nat
    BY <1>5
  <2>5. added' - b.state.serial >= Since(b.id)'
    BY <1>4, <1>5, <2>1, <2>3, <2>4 DEF Since
  <2> QED BY <2>3, <2>5
<1>7. \A b \in batch : b.id \in DOMAIN query_map' => query_map'[b.id] = b.state
  BY <1>4, <1>6 DEF KvInv
<1>8. \A b \in batch : \A id \in DOMAIN query_map' :
        query_map'[id].proc_id = b.state.proc_id => id = b.id \/ query_map'[id].prefix_len = 0
  BY <1>4 DEF KvInv
<1>9. KvCacheCoherent'
  <2> SUFFICES ASSUME NEW id \in DOMAIN query_map', NEW row \in 0 .. query_map'[id].prefix_len - 1
               PROVE  /\ row < MaxContextLen
                      /\ kv[query_map'[id].proc_id][row]
                           = [serial |-> query_map'[id].serial, net |-> "decoder"]
    BY <1>2 DEF KvCacheCoherent
  <2>1. id # next_query_id
    BY <1>4
  <2>2. id \in DOMAIN query_map /\ query_map'[id] = query_map[id]
    BY <1>4, <2>1
  <2> QED BY <2>2 DEF KvInv, KvCacheCoherent
<1> QED BY <1>2, <1>3, <1>6, <1>7, <1>8, <1>9 DEF KvInv

(* RemoveQuery: one query fewer to say something about.                     *)
LEMMA KvRemoveStep ==
  ASSUME EngineInv, KvInv, NEW r \in Requests, RemoveQuery(r)
  PROVE  KvInv'
<1>1. /\ \A id \in DOMAIN query_map' : id \in DOMAIN query_map /\ query_map'[id] = query_map[id]
      /\ next_query_id' = next_query_id /\ added' = added
      /\ UNCHANGED <<batch, kv, phase, input>>
  BY DEF RemoveQuery, Remove, Without, engineVars
<1>2. SerialsSpread' /\ \A b \in batch : added' - b.state.serial >= Since(b.id)'
  BY <1>1 DEF KvInv, SerialsSpread, Since
<1>3. KvCacheCoherent'
  BY <1>1 DEF KvInv, KvCacheCoherent
<1> QED BY <1>1, <1>2, <1>3 DEF KvInv

(* FetchBatch: the pointers are to live states, which have different slots. *)
LEMMA KvFetchStep ==
  ASSUME EngineInv, RoundShape, KvInv, FetchBatch
  PROVE  KvInv'
<1>1. \A b \in batch' : b.id \in DOMAIN query_map /\ b.state = query_map[b.id]
  BY FetchedPointers
<1>2. query_map' = query_map /\ next_query_id' = next_query_id /\ added' = added /\ kv' = kv
  BY DEF FetchBatch, tableVars
<1>3. phase' \in {"read", "idle"}
  BY DEF FetchBatch, RoundShape
<1>4. SerialsSpread' /\ \A b \in batch' : added' - b.state.serial >= Since(b.id)'
  BY <1>1, <1>2 DEF KvInv, SerialsSpread, Since
<1>5. KvCacheCoherent'
  BY <1>2 DEF KvInv, KvCacheCoherent
<1>6. \A b \in batch' : \A id \in DOMAIN query_map : query_map[id].proc_id = b.state.proc_id => id = b.id
  BY <1>1 DEF EngineInv, TableInv, ProcIdsDistinct
<1>7. batch' \subseteq Pointer
  BY EngineAnyStep DEF EngineInv, LocalTypeOK, AnyStep, Next, EngineStep
<1>8. \A a, b \in batch' : a.state.proc_id = b.state.proc_id => a = b
  BY <1>1, <1>6, <1>7 DEF Pointer
<1> QED BY <1>1, <1>2, <1>3, <1>4, <1>5, <1>6, <1>8 DEF KvInv

(* The commit: a query that goes on was in the input of this round, and its *)
(* new rows are the ones computed for it.                                   *)
LEMMA KvCommitStep ==
  ASSUME NetType = "decoder_only", EngineInv, RoundShape, KvInv, CommitInferenceResult
  PROVE  KvInv'
<1>t. LocalTypeOK /\ TableTypeOK
  BY DEF EngineInv, TableInv
<1>1. /\ batch' = {} /\ kv' = kv /\ phase' = "idle" /\ phase = "deliver"
      /\ next_query_id' = next_query_id /\ added' = added
      /\ query_map' = [id \in DOMAIN query_map \ EndedIds |->
                         IF id \in ResultIds THEN Advanced(query_map[id]) ELSE query_map[id]]
  BY DEF CommitInferenceResult, Update
<1>2. \A id \in DOMAIN query_map' :
        /\ id \in DOMAIN query_map /\ id \notin EndedIds
        /\ query_map'[id] = IF id \in ResultIds THEN Advanced(query_map[id]) ELSE query_map[id]
  BY <1>1
<1>3. \A id \in DOMAIN query_map' : query_map'[id].serial = query_map[id].serial
                                    /\ query_map'[id].proc_id = query_map[id].proc_id
  BY <1>2, <1>t, AdvancedFields DEF TableTypeOK
<1>4. SerialsSpread'
  BY <1>1, <1>2, <1>3, ShrinkKeepsSpread DEF KvInv
<1>5. ASSUME NEW id \in DOMAIN query_map', NEW row \in 0 .. query_map'[id].prefix_len - 1
      PROVE  /\ row < MaxContextLen
             /\ kv[query_map[id].proc_id][row] = [serial |-> query_map[id].serial, net |-> "decoder"]
  <2> DEFINE s == query_map[id]
  <2>1. s \in QueryState /\ id \in DOMAIN query_map
    BY <1>t, <1>2 DEF TableTypeOK
  <2>2. s.prefix_len \in Nat /\ s.decoder_tokens \in Nat
    BY <2>1 DEF QueryState
  <2>3. CASE row < s.prefix_len
    <3>1. row \in 0 .. s.prefix_len - 1
      BY <2>2, <2>3
    <3> QED BY <2>1, <3>1 DEF KvInv, KvCacheCoherent
  <2>4. CASE ~ (row < s.prefix_len)
    <3>1. id \in ResultIds
      BY <1>2, <2>2, <2>4
    <3>2. row < s.prefix_len + s.decoder_tokens
      <4>1. query_map'[id].prefix_len = s.prefix_len + s.decoder_tokens
        BY <1>2, <2>1, <3>1, AdvancedFields
      <4> QED BY <2>2, <4>1
    <3>3. PICK x \in results : x.id = id
      BY <3>1 DEF ResultIds
    <3>4. ~ IsEnd(x)
      BY <1>2, <3>3 DEF EndedIds
    <3>5. PICK q \in input.queries : x.id = q.id
      BY <3>4 DEF RoundShape, IsEnd
    <3>6. PICK b \in batch : q = ProcInput(b) /\ ~ IsSaturated(b.state)
      BY DEF RoundShape
    <3>7. /\ q.id = b.id /\ q.proc_id = b.state.proc_id /\ q.serial = b.state.serial
          /\ q.prefix_len = b.state.prefix_len /\ q.token_num = b.state.decoder_tokens
      BY <3>6, DecoderBatch DEF ProcInput
    <3>8. b.state = s
      BY <2>1, <3>3, <3>5, <3>7 DEF KvInv
    <3>9. row \in q.prefix_len .. q.prefix_len + q.token_num - 1
      BY <2>2, <2>4, <3>2, <3>7, <3>8
    <3>10. kv[q.proc_id][row] = [serial |-> q.serial, net |-> "decoder"]
      BY <1>1, <3>9 DEF KvInv
    <3>11. s.prefix_len + s.decoder_tokens <= MaxContextLen
      <4>1. ~ (s.prefix_len + s.decoder_tokens > MaxContextLen)
        BY <3>6, <3>8, DecoderBatch DEF IsSaturated
      <4> QED BY <2>2, <4>1, EngineAssumption
    <3> QED BY <2>2, <3>2, <3>7, <3>8, <3>10, <3>11, EngineAssumption
  <2> QED BY <2>3, <2>4
<1>6. KvCacheCoherent'
  BY <1>1, <1>3, <1>5 DEF KvCacheCoherent
<1> QED BY <1>1, <1>4, <1>6 DEF KvInv

(* Every step keeps the caches right, as long as batches are fresh.         *)
LEMMA KvStep ==
  ASSUME NetType = "decoder_only", DecoderInv, KvInv, FreshBatch', AnyStep
  PROVE  KvInv'
<1>i. EngineInv /\ RoundShape
  BY DEF DecoderInv
<1>1. CASE (\E r \in Requests : CallOnly(r)) \/ ComputeFails \/ NoChange
  <2>1. UNCHANGED <<query_map, batch, input, kv>> /\ (phase' = phase \/ phase' = "hung")
    BY <1>1, <1>i DEF CallOnly, ComputeFails, RoundShape, NoChange, tableVars, localVars
  <2> QED BY <1>1, <2>1, KvSameStep DEF CallOnly, ComputeFails, NoChange, tableVars, localVars
<1>2. CASE \E r \in Requests, enc \in EncLens, dec \in DecLens, limit \in OutLimits :
             AddQuery_Add(r, enc, dec, limit)
  BY <1>2, <1>i, KvAddStep
<1>3. CASE \E r \in Requests : RemoveQuery(r)
  BY <1>3, <1>i, KvRemoveStep
<1>4. CASE FetchBatch
  BY <1>4, <1>i, KvFetchStep
<1>5. CASE ReadBatch
  BY <1>5, <1>i, KvReadStep
<1>6. CASE Compute
  BY <1>6, <1>i, KvComputeStep
<1>7. CASE Sample
  BY <1>7, KvSameStep DEF Sample
<1>8. CASE CommitInferenceResult
  BY <1>8, <1>i, KvCommitStep
<1> QED BY <1>1, <1>2, <1>3, <1>4, <1>5, <1>6, <1>7, <1>8, StepCases

(* The prefix of every live query is in its own KV cache and is its own,    *)
(* for every number of queries, slots, rows and ids, while queries come, go *)
(* and are removed in the middle of a round, as long as no id of a query in *)
(* the running batch is used again.                                         *)
THEOREM KvCacheSafe ==
  ASSUME NetType = "decoder_only"
  PROVE  Spec /\ []FreshBatch => []KvCacheCoherent
<1>1. DecoderInv /\ KvInv /\ FreshBatch' /\ [Next]_vars => KvInv'
  BY KvStep DEF AnyStep
<1>2. KvInv => KvCacheCoherent
  BY DEF KvInv
<1> QED BY <1>1, <1>2, KvInit, DecoderInvariant, PTL DEF Spec
==============================================================================
