------------------------ MODULE QueryStateTableProofs ------------------------
(***************************************************************************)
(* Proofs about the table of live queries, for every size of it: its type  *)
(* invariant, that no two live queries hold one processing slot, and that  *)
(* Get's closed form is what its loop over the entries returns.  The       *)
(* lemmas about the table's operations are used again for the engine,      *)
(* whose steps change the table through the same operations.               *)
(***************************************************************************)
EXTENDS QueryStateTable, LoopTheorems, FiniteSetTheorems

TableInv == TableTypeOK /\ ProcIdsDistinct

(* The object that Add builds is a QueryState.                              *)
LEMMA NewStateType ==
  ASSUME TableTypeOK, NEW r \in Requests, NEW enc \in EncLens, NEW dec \in DecLens,
         NEW limit \in OutLimits, NEW p \in 0 .. MaxProcId
  PROVE  NewState(r, enc, dec, limit, p) \in QueryState
BY TableAssumption DEF TableTypeOK, NewState, QueryState, QueryIds

(* QueryStateTable::Add, with a slot that FindFreeProcId may return, keeps  *)
(* the table well formed and the slots distinct, also when it overwrites    *)
(* the entry of a live query.                                               *)
LEMMA AddKeepsTable ==
  ASSUME TableInv, NEW r \in Requests, NEW enc \in EncLens, NEW dec \in DecLens,
         NEW limit \in OutLimits, NEW p \in 0 .. MaxProcId,
         IsFreeProcId(p), Add(r, enc, dec, limit, p)
  PROVE  TableInv'
<1> DEFINE new == NewState(r, enc, dec, limit, p)
<1>1. new \in QueryState /\ new.proc_id = p
  BY NewStateType DEF TableInv, NewState
<1>2. /\ DOMAIN query_map' = DOMAIN query_map \cup {next_query_id}
      /\ \A id \in DOMAIN query_map' :
           query_map'[id] = IF id = next_query_id THEN new ELSE query_map[id]
      /\ query_map' = [id \in DOMAIN query_map' |-> query_map'[id]]
  BY DEF Add
<1>3. TableTypeOK'
  <2>1. next_query_id' \in QueryIds
    BY TableAssumption DEF TableInv, TableTypeOK, Add, NextQueryId, QueryIds
  <2>2. added' \in Nat
    BY DEF TableInv, TableTypeOK, Add
  <2> HIDE DEF new
  <2> QED BY <1>1, <1>2, <2>1, <2>2 DEF TableInv, TableTypeOK
<1>4. ProcIdsDistinct'
  <2> HIDE DEF new
  <2> QED BY <1>1, <1>2 DEF TableInv, ProcIdsDistinct, IsFreeProcId
<1> QED BY <1>3, <1>4 DEF TableInv

(* Moving the processed tokens into the prefix yields a QueryState again.   *)
LEMMA AdvancedType ==
  ASSUME NEW s \in QueryState
  PROVE  /\ Advanced(s) \in QueryState
         /\ Advanced(s).proc_id = s.proc_id /\ Advanced(s).req = s.req
<1> DEFINE n == s.prefix_len + s.decoder_tokens
<1>1. n \in Nat /\ 1 \in Nat
  BY DEF QueryState
<1>2. Advanced(s) = [[s EXCEPT !.prefix_len = n] EXCEPT !.decoder_tokens = 1]
  BY DEF Advanced, QueryState
<1> HIDE DEF n
<1> QED BY <1>1, <1>2 DEF QueryState

(* What UpdateEncoderEnd makes of a state is a QueryState again.            *)
LEMMA EncodedType ==
  ASSUME NEW s \in QueryState
  PROVE  /\ Encoded(s) \in QueryState
         /\ Encoded(s).proc_id = s.proc_id /\ Encoded(s).req = s.req
BY DEF Encoded, QueryState

(* A step that adds no entry, keeps every remaining state a QueryState and  *)
(* leaves its slot alone preserves the table's invariant.                   *)
LEMMA ShrinkKeepsTable ==
  ASSUME TableInv,
         DOMAIN query_map' \subseteq DOMAIN query_map,
         query_map' = [id \in DOMAIN query_map' |-> query_map'[id]],
         \A id \in DOMAIN query_map' :
           query_map'[id] \in QueryState /\ query_map'[id].proc_id = query_map[id].proc_id,
         next_query_id' \in QueryIds, added' \in Nat
  PROVE  TableInv'
<1>1. TableTypeOK'
  BY DEF TableInv, TableTypeOK
<1>2. ProcIdsDistinct'
  BY DEF TableInv, ProcIdsDistinct
<1> QED BY <1>1, <1>2 DEF TableInv

(* QueryStateTable::Update of any ids, any of which may end.                *)
LEMMA UpdateKeepsTable ==
  ASSUME TableInv, NEW ids, NEW ended, Update(ids, ended)
  PROVE  /\ TableInv'
         /\ DOMAIN query_map' \subseteq DOMAIN query_map
         /\ \A id \in DOMAIN query_map' : /\ query_map'[id].proc_id = query_map[id].proc_id
                                          /\ query_map'[id].req = query_map[id].req
<1>1. /\ DOMAIN query_map' = DOMAIN query_map \ ended
      /\ query_map' = [id \in DOMAIN query_map' |-> query_map'[id]]
      /\ \A id \in DOMAIN query_map' :
           query_map'[id] = IF id \in ids THEN Advanced(query_map[id]) ELSE query_map[id]
  BY DEF Update
<1>2. \A id \in DOMAIN query_map' :
        /\ query_map'[id] \in QueryState
        /\ query_map'[id].proc_id = query_map[id].proc_id
        /\ query_map'[id].req = query_map[id].req
  BY <1>1, AdvancedType DEF TableInv, TableTypeOK
<1>3. next_query_id' \in QueryIds /\ added' \in Nat
  BY DEF Update, TableInv, TableTypeOK
<1>4. DOMAIN query_map' \subseteq DOMAIN query_map
  BY <1>1
<1>5. TableInv'
  BY <1>1, <1>2, <1>3, <1>4, ShrinkKeepsTable
<1> QED BY <1>2, <1>4, <1>5

(* QueryStateTable::UpdateEncoderEnd of any ids.                            *)
LEMMA EncoderEndKeepsTable ==
  ASSUME TableInv, NEW ids, UpdateEncoderEnd(ids)
  PROVE  /\ TableInv'
         /\ DOMAIN query_map' \subseteq DOMAIN query_map
         /\ \A id \in DOMAIN query_map' : /\ query_map'[id].proc_id = query_map[id].proc_id
                                          /\ query_map'[id].req = query_map[id].req
<1>1. /\ DOMAIN query_map' \subseteq DOMAIN query_map
      /\ query_map' = [id \in DOMAIN query_map' |-> query_map'[id]]
      /\ \A id \in DOMAIN query_map' :
           query_map'[id] = Encoded(query_map[id]) \/ query_map'[id] = query_map[id]
  BY DEF UpdateEncoderEnd, Without
<1>2. \A id \in DOMAIN query_map' :
        /\ query_map'[id] \in QueryState
        /\ query_map'[id].proc_id = query_map[id].proc_id
        /\ query_map'[id].req = query_map[id].req
  BY <1>1, EncodedType DEF TableInv, TableTypeOK
<1>3. next_query_id' \in QueryIds /\ added' \in Nat
  BY DEF UpdateEncoderEnd, TableInv, TableTypeOK
<1>4. TableInv'
  BY <1>1, <1>2, <1>3, ShrinkKeepsTable
<1> QED BY <1>1, <1>2, <1>4

(* QueryStateTable::Remove, whether or not the id is in the table.          *)
LEMMA RemoveKeepsTable ==
  ASSUME TableInv, NEW id, Remove(id)
  PROVE  /\ TableInv'
         /\ DOMAIN query_map' \subseteq DOMAIN query_map
         /\ \A i \in DOMAIN query_map' : query_map'[i] = query_map[i]
<1>1. /\ DOMAIN query_map' \subseteq DOMAIN query_map
      /\ query_map' = [i \in DOMAIN query_map' |-> query_map'[i]]
      /\ \A i \in DOMAIN query_map' : query_map'[i] = query_map[i]
  BY DEF Remove, Without
<1>2. next_query_id' \in QueryIds /\ added' \in Nat
  BY DEF Remove, TableInv, TableTypeOK
<1>3. TableInv'
  BY <1>1, <1>2, ShrinkKeepsTable DEF TableInv, TableTypeOK
<1> QED BY <1>1, <1>3

(* The empty table satisfies the invariant.                                 *)
LEMMA TableInitInv == TableInit => TableInv
BY TableAssumption DEF TableInit, TableInv, TableTypeOK, ProcIdsDistinct, QueryIds

(* Whatever calls are made, in whatever order, the table is well formed and *)
(* no two live queries hold the same processing slot.                       *)
THEOREM TableSafe == TableSpec => [](TableTypeOK /\ ProcIdsDistinct)
<1>1. TableInv /\ [TableNext]_tableVars => TableInv'
  <2> SUFFICES ASSUME TableInv, [TableNext]_tableVars PROVE TableInv'
    OBVIOUS
  <2>1. CASE AddSome
    BY <2>1, AddKeepsTable DEF AddSome
  <2>2. CASE UpdateSome
    BY <2>2, UpdateKeepsTable DEF UpdateSome
  <2>3. CASE UpdateEncoderEndSome
    BY <2>3, EncoderEndKeepsTable DEF UpdateEncoderEndSome
  <2>4. CASE RemoveSome
    BY <2>4, RemoveKeepsTable DEF RemoveSome
  <2>5. CASE Clear
    <3>1. /\ DOMAIN query_map' \subseteq DOMAIN query_map
          /\ query_map' = [i \in DOMAIN query_map' |-> query_map'[i]]
          /\ \A i \in DOMAIN query_map' : query_map'[i] = query_map[i]
      BY <2>5 DEF Clear, Without
    <3>2. next_query_id' \in QueryIds /\ added' \in Nat
      BY <2>5, TableAssumption DEF Clear, TableInv, TableTypeOK, QueryIds
    <3> QED BY <3>1, <3>2, ShrinkKeepsTable DEF TableInv, TableTypeOK
  <2>6. CASE UNCHANGED tableVars
    BY <2>6 DEF tableVars, TableInv, TableTypeOK, ProcIdsDistinct
  <2> QED BY <2>1, <2>2, <2>3, <2>4, <2>5, <2>6 DEF TableNext
<1>2. TableInv => TableTypeOK /\ ProcIdsDistinct
  BY DEF TableInv
<1> QED BY TableInitInv, <1>1, <1>2, PTL DEF TableSpec

(* In particular every state keeps its type: ids and slots stay in their    *)
(* ranges although next_query_id_ wraps around and states are deleted and   *)
(* advanced in any order.                                                   *)
THEOREM TableTypes == TableSpec => []TableTypeOK
BY TableSafe, PTL

-----------------------------------------------------------------------------
(* How many ids lie between id and next_query_id_, around the cycle.         *)
Since(id) ==
  IF id < next_query_id THEN next_query_id - id - 1
  ELSE MaxQueryId + next_query_id - id - 1

(* At least that many states were created after the one stored under id.    *)
SerialsSpread ==
  \A id \in DOMAIN query_map : added - query_map[id].serial >= Since(id)

CycleInv == TableInv /\ SerialsSpread

(* A step that creates no state, takes ids only away and keeps serials.     *)
LEMMA ShrinkKeepsSpread ==
  ASSUME SerialsSpread, DOMAIN query_map' \subseteq DOMAIN query_map,
         \A id \in DOMAIN query_map' : query_map'[id].serial = query_map[id].serial,
         UNCHANGED <<next_query_id, added>>
  PROVE  SerialsSpread'
BY DEF SerialsSpread, Since

(* Neither of the two updates touches the serial of a state.                *)
LEMMA SerialKept ==
  ASSUME NEW s \in QueryState
  PROVE  Advanced(s).serial = s.serial /\ Encoded(s).serial = s.serial
BY DEF Advanced, Encoded, QueryState

(* Add moves next_query_id_ on by one, cyclically, and creates one state.   *)
LEMMA AddKeepsSpread ==
  ASSUME CycleInv, NEW r \in Requests, NEW enc \in EncLens, NEW dec \in DecLens,
         NEW limit \in OutLimits, NEW p \in 0 .. MaxProcId, Add(r, enc, dec, limit, p)
  PROVE  /\ SerialsSpread'
         /\ \A id \in DOMAIN query_map :
              query_map'[id].serial # query_map[id].serial
                => query_map'[id].serial - query_map[id].serial >= MaxQueryId
<1>1. /\ MaxQueryId \in Nat /\ MaxQueryId > 0
      /\ next_query_id \in 1 .. MaxQueryId /\ added \in Nat
      /\ DOMAIN query_map \subseteq 1 .. MaxQueryId
      /\ \A id \in DOMAIN query_map : query_map[id].serial \in Nat
  BY TableAssumption DEF CycleInv, TableInv, TableTypeOK, QueryIds, QueryState
<1>2. /\ DOMAIN query_map' = DOMAIN query_map \cup {next_query_id}
      /\ \A id \in DOMAIN query_map' :
           query_map'[id].serial = IF id = next_query_id THEN added + 1 ELSE query_map[id].serial
      /\ added' = added + 1
      /\ next_query_id' = IF next_query_id < MaxQueryId THEN next_query_id + 1 ELSE 1
  BY DEF Add, NewState, NextQueryId
<1>3. \A id \in DOMAIN query_map : added - query_map[id].serial >= Since(id)
  BY DEF CycleInv, SerialsSpread
<1>4. SerialsSpread'
  <2> SUFFICES ASSUME NEW id \in DOMAIN query_map'
               PROVE  added' - query_map'[id].serial >= Since(id)'
    BY DEF SerialsSpread
  <2>1. CASE id = next_query_id
    BY <1>1, <1>2, <2>1 DEF Since
  <2>2. CASE id # next_query_id
    <3>1. id \in DOMAIN query_map /\ query_map'[id].serial = query_map[id].serial
      BY <1>2, <2>2
    <3>2. added - query_map[id].serial >= Since(id)
      BY <1>3, <3>1
    <3>3. id \in 1 .. MaxQueryId /\ query_map[id].serial \in Nat
      BY <1>1, <3>1
    <3> QED BY <1>1, <1>2, <2>2, <3>1, <3>2, <3>3 DEF Since
  <2> QED BY <2>1, <2>2
<1>5. \A id \in DOMAIN query_map :
        query_map'[id].serial # query_map[id].serial
          => query_map'[id].serial - query_map[id].serial >= MaxQueryId
  <2> SUFFICES ASSUME NEW id \in DOMAIN query_map,
                      query_map'[id].serial # query_map[id].serial
               PROVE  query_map'[id].serial - query_map[id].serial >= MaxQueryId
    OBVIOUS
  <2>1. id = next_query_id /\ query_map'[id].serial = added + 1
    BY <1>2
  <2>2. added - query_map[id].serial >= MaxQueryId - 1
    BY <1>1, <1>3, <2>1 DEF Since
  <2> QED BY <1>1, <2>1, <2>2
<1> QED BY <1>4, <1>5

(* An id passes from one live query to another only after the whole cycle   *)
(* of MaxQueryId ids was handed out (QueryStateTable::Add).                 *)
THEOREM TableReuse == TableSpec => ReuseOnlyAfterFullCycle
<1> DEFINE Far == \A id \in DOMAIN query_map :
                    (id \in DOMAIN query_map' /\ query_map'[id].serial # query_map[id].serial)
                      => query_map'[id].serial - query_map[id].serial >= MaxQueryId
<1>1. TableInit => SerialsSpread
  BY DEF TableInit, SerialsSpread
<1>2. CycleInv /\ TableInv' /\ [TableNext]_tableVars => SerialsSpread' /\ Far
  <2> SUFFICES ASSUME CycleInv, [TableNext]_tableVars PROVE SerialsSpread' /\ Far
    OBVIOUS
  <2>t. \A id \in DOMAIN query_map : query_map[id] \in QueryState
    BY DEF CycleInv, TableInv, TableTypeOK
  <2>k. ASSUME DOMAIN query_map' \subseteq DOMAIN query_map,
               \A id \in DOMAIN query_map' : query_map'[id].serial = query_map[id].serial,
               UNCHANGED <<next_query_id, added>>
        PROVE  SerialsSpread' /\ Far
    BY <2>k, ShrinkKeepsSpread DEF CycleInv
  <2>1. CASE AddSome
    BY <2>1, AddKeepsSpread DEF AddSome
  <2>2. CASE UpdateSome
    <3>1. DOMAIN query_map' \subseteq DOMAIN query_map
      BY <2>2 DEF UpdateSome, Update
    <3>2. \A id \in DOMAIN query_map' : query_map'[id].serial = query_map[id].serial
      BY <2>2, <2>t, SerialKept DEF UpdateSome, Update
    <3> QED BY <2>2, <2>k, <3>1, <3>2 DEF UpdateSome, Update
  <2>3. CASE UpdateEncoderEndSome
    <3>1. DOMAIN query_map' \subseteq DOMAIN query_map
      BY <2>3 DEF UpdateEncoderEndSome, UpdateEncoderEnd, Without
    <3>2. \A id \in DOMAIN query_map' : query_map'[id].serial = query_map[id].serial
      BY <2>3, <2>t, SerialKept DEF UpdateEncoderEndSome, UpdateEncoderEnd, Without
    <3> QED BY <2>3, <2>k, <3>1, <3>2 DEF UpdateEncoderEndSome, UpdateEncoderEnd
  <2>4. CASE RemoveSome
    <3>1. /\ DOMAIN query_map' \subseteq DOMAIN query_map
          /\ \A id \in DOMAIN query_map' : query_map'[id].serial = query_map[id].serial
      BY <2>4 DEF RemoveSome, Remove, Without
    <3> QED BY <2>4, <2>k, <3>1 DEF RemoveSome, Remove
  <2>5. CASE Clear
    BY <2>5 DEF Clear, Without, SerialsSpread
  <2>6. CASE UNCHANGED tableVars
    BY <2>6, <2>k DEF tableVars
  <2> QED BY <2>1, <2>2, <2>3, <2>4, <2>5, <2>6 DEF TableNext
<1>3. TableSpec => []TableInv
  BY TableSafe, PTL DEF TableInv
<1>4. CycleInv /\ TableInv' /\ [TableNext]_tableVars => CycleInv' /\ [Far]_tableVars
  BY <1>2 DEF CycleInv
<1>5. TableInit => CycleInv
  BY <1>1, TableInitInv DEF CycleInv
<1> QED BY <1>3, <1>4, <1>5, PTL DEF TableSpec, ReuseOnlyAfterFullCycle

-----------------------------------------------------------------------------
(* The oldest live query has the least id.                                  *)
LEMMA Oldest ==
  ASSUME TableTypeOK, DOMAIN query_map # {}
  PROVE  OldestId \in DOMAIN query_map /\ \A id \in DOMAIN query_map : OldestId <= id
<1>1. DOMAIN query_map \subseteq Nat
  BY TableAssumption DEF TableTypeOK, QueryIds
<1>2. \E x \in DOMAIN query_map : \A y \in DOMAIN query_map : x <= y
  BY <1>1, LeastNumber
<1> QED BY <1>2 DEF OldestId, Min

(* The fields of a live query's state.                                      *)
LEMMA StateFields ==
  ASSUME TableTypeOK, NEW id \in DOMAIN query_map
  PROVE  /\ id \in Nat \ {0} /\ id <= MaxQueryId
         /\ query_map[id].encoder_tokens \in Nat
         /\ query_map[id].decoder_tokens \in Nat
         /\ query_map[id].next_net \in {0, 1}
<1>1. query_map[id] \in QueryState /\ id \in QueryIds
  BY DEF TableTypeOK
<1> QED BY <1>1, TableAssumption DEF QueryState, QueryIds

(* What an id adds to the tokens that Get counts.                           *)
Counted(n) == IF n \in DOMAIN query_map /\ Compatible(n) THEN TokensCounted(n) ELSE 0

(* TokensUpTo is the sum of what the ids add.                               *)
LEMMA TokensSum ==
  ASSUME TableTypeOK
  PROVE  /\ [n \in Nat |-> Counted(n)] \in [Nat -> Nat]
         /\ TokensUpTo \in [Nat -> Nat]
         /\ TokensUpTo[0] = 0
         /\ \A n \in Nat \ {0} : TokensUpTo[n] = TokensUpTo[n - 1] + Counted(n)
<1> DEFINE a       == [n \in Nat |-> Counted(n)]
           Body(f) == [n \in Nat |-> IF n = 0 THEN 0 ELSE f[n - 1] + Counted(n)]
<1>1. a \in [Nat -> Nat]
  <2> SUFFICES ASSUME NEW n \in Nat PROVE Counted(n) \in Nat
    OBVIOUS
  <2>1. n \in DOMAIN query_map => TokensCounted(n) \in Nat
    BY StateFields DEF TokensCounted
  <2> QED BY <2>1 DEF Counted
<1>2. TokensUpTo = CHOOSE f : f = Body(f)
  BY DEF TokensUpTo, Counted
<1>3. PICK g \in [Nat -> Nat] : g = [n \in Nat |-> IF n = 0 THEN 0 ELSE g[n - 1] + a[n]]
  BY <1>1, SumDefined
<1>4. g = Body(g)
  <2>1. \A n \in Nat : a[n] = Counted(n)
    OBVIOUS
  <2> HIDE DEF a
  <2> QED BY <1>3, <2>1
<1> HIDE DEF Body
<1>5. TokensUpTo = Body(TokensUpTo)
  BY <1>2, <1>4
<1> USE DEF Body
<1>6. /\ TokensUpTo[0] = 0
      /\ \A n \in Nat \ {0} : TokensUpTo[n] = TokensUpTo[n - 1] + Counted(n)
  BY <1>5
<1>7. TokensUpTo \in [Nat -> Nat]
  <2> DEFINE S == {n \in Nat : TokensUpTo[n] \in Nat}
  <2>1. 0 \in S
    BY <1>6
  <2>2. ASSUME NEW n \in Nat, n \in S PROVE n + 1 \in S
    <3>1. n + 1 \in Nat \ {0} /\ (n + 1) - 1 = n
      OBVIOUS
    <3>2. Counted(n + 1) \in Nat
      BY <1>1, <3>1
    <3> QED BY <1>6, <2>2, <3>1, <3>2
  <2> HIDE DEF S
  <2>3. \A n \in Nat : n \in S
    BY <2>1, <2>2, AllNumbers
  <2>4. \A n \in Nat : TokensUpTo[n] \in Nat
    BY <2>3 DEF S
  <2> QED BY <1>5, <2>4
<1> QED BY <1>1, <1>6, <1>7

(* A round of Get's loop comes to the next id.                              *)
LEMMA GetRoundType ==
  ASSUME TableTypeOK, NEW m \in GetStates, ~ GetEnds(m)
  PROVE  GetRound(m) \in GetStates /\ GetRound(m).at = m.at + 1
<1>1. /\ m.at \in 1 .. MaxQueryId + 1 /\ m.at <= MaxQueryId /\ m.ids \in SUBSET QueryIds
      /\ m.next_net \in {-1, 0, 1} /\ m.token_num \in Nat
  BY TableAssumption DEF GetStates, GetEnds
<1>2. m.at + 1 \in 1 .. MaxQueryId + 1 /\ m.at \in QueryIds
  BY <1>1, TableAssumption DEF QueryIds
<1> DEFINE s   == query_map[m.at]
           ids == m.ids \cup {m.at}
           net == IF m.next_net < 0 THEN s.next_net ELSE m.next_net
           num == m.token_num + (IF NetType # "decoder_only" /\ m.next_net = 0
                                 THEN s.encoder_tokens ELSE s.decoder_tokens)
           r   == [at |-> m.at + 1, ids |-> ids, next_net |-> net, token_num |-> num]
<1>3. GetRound(m) = r \/ GetRound(m) = [m EXCEPT !.at = @ + 1]
  BY DEF GetRound
<1>4. [m EXCEPT !.at = @ + 1] \in GetStates /\ [m EXCEPT !.at = @ + 1].at = m.at + 1
  BY <1>2 DEF GetStates
<1>5. CASE m.at \in DOMAIN query_map
  <2>1. s.encoder_tokens \in Nat /\ s.decoder_tokens \in Nat /\ s.next_net \in {0, 1}
    BY <1>5, StateFields
  <2>2. ids \in SUBSET QueryIds /\ net \in {-1, 0, 1} /\ num \in Nat
    BY <1>1, <1>2, <2>1
  <2> HIDE DEF ids, net, num
  <2>3. r \in GetStates /\ r.at = m.at + 1
    BY <1>2, <2>2 DEF GetStates
  <2> HIDE DEF r
  <2> QED BY <1>3, <1>4, <2>3
<1>6. CASE m.at \notin DOMAIN query_map
  <2>1. GetRound(m) = [m EXCEPT !.at = @ + 1]
    BY <1>6 DEF GetRound
  <2> QED BY <1>4, <2>1
<1> QED BY <1>5, <1>6

(* GetLoop is that loop.                                                    *)
LEMMA GetLoopIs ==
  ASSUME TableTypeOK, NEW m \in GetStates
  PROVE  GetLoop[m] = IF GetEnds(m) THEN m ELSE GetLoop[GetRound(m)]
<1> DEFINE Body(f) == [x \in GetStates |-> IF GetEnds(x) THEN x ELSE f[GetRound(x)]]
<1>1. GetLoop = CHOOSE f : f = Body(f)
  BY DEF GetLoop
<1>2. \E f : f = Body(f)
  <2> DEFINE D == {x \in GetStates : GetEnds(x)}
             R == [x \in D |-> x]
             F == [x \in GetStates |-> GetRound(x)]
  <2>1. Closed(GetStates, D, F, R)
    BY GetRoundType DEF Closed
  <2>2. PICK f : Computes(f, GetStates, D, F, R)
    BY <2>1, LoopDefined
  <2>3. f = Body(f)
    BY <2>2 DEF Computes
  <2> HIDE DEF D, R, F, Body
  <2> QED BY <2>3
<1> HIDE DEF Body
<1>3. GetLoop = Body(GetLoop)
  BY <1>1, <1>2
<1> QED BY <1>3 DEF Body

(* What the loop has found when it comes to an id: the queries Get selects  *)
(* below it, their tokens, and the network the oldest of them waits for.    *)
Found(m) ==
  /\ m.ids = {id \in Get : id < m.at}
  /\ m.token_num = TokensUpTo[m.at - 1]
  /\ m.next_net = IF \E id \in DOMAIN query_map : id < m.at
                  THEN query_map[OldestId].next_net ELSE -1

(* When the loop ends, it has found all that Get selects: the ids behind    *)
(* the last one come after as many tokens as the one that ended the loop.   *)
LEMMA FoundAll ==
  ASSUME TableTypeOK, NEW m \in GetStates, GetEnds(m), Found(m)
  PROVE  m.ids = Get
<1>1. m.at \in Nat \ {0} /\ m.at - 1 \in Nat
  BY TableAssumption DEF GetStates
<1> SUFFICES ASSUME NEW id \in Get PROVE id < m.at
  BY DEF Found
<1>2. id \in DOMAIN query_map /\ TokensUpTo[id - 1] < MaxTokenNum
  BY DEF Get
<1>3. id \in Nat \ {0} /\ id <= MaxQueryId /\ id - 1 \in Nat
  BY <1>2, StateFields
<1>4. CASE m.at > MaxQueryId
  BY <1>1, <1>3, <1>4, TableAssumption
<1>5. CASE m.token_num >= MaxTokenNum
  <2> SUFFICES ASSUME m.at <= id PROVE FALSE
    BY <1>1, <1>3
  <2>1. m.at - 1 <= id - 1
    BY <1>1, <1>3
  <2> DEFINE a == [n \in Nat |-> Counted(n)]
  <2>2. /\ a \in [Nat -> Nat] /\ TokensUpTo \in [Nat -> Nat]
        /\ \A n \in Nat \ {0} : TokensUpTo[n] = TokensUpTo[n - 1] + a[n]
    BY TokensSum
  <2> HIDE DEF a
  <2>3. \A i, j \in Nat : i <= j => TokensUpTo[i] <= TokensUpTo[j]
    BY <2>2, SumsGrow
  <2>4. TokensUpTo[m.at - 1] <= TokensUpTo[id - 1]
    BY <1>1, <1>3, <2>1, <2>3
  <2>5. TokensUpTo[m.at - 1] \in Nat /\ TokensUpTo[id - 1] \in Nat
    BY <1>1, <1>3, <2>2
  <2> QED BY <1>2, <1>5, <2>4, <2>5, TableAssumption DEF Found
<1> QED BY <1>4, <1>5 DEF GetEnds

(* A round with a query the loop takes: it is one that Get selects.         *)
LEMMA FoundTaken ==
  ASSUME TableTypeOK, NEW m \in GetStates, ~ GetEnds(m), Found(m),
         m.at \in DOMAIN query_map
  PROVE  /\ (m.next_net < 0 \/ NetType # "encoder_decoder"
                \/ m.next_net = query_map[m.at].next_net) <=> Compatible(m.at)
         /\ TokensCounted(m.at) = IF NetType # "decoder_only" /\ m.next_net = 0
                                  THEN query_map[m.at].encoder_tokens
                                  ELSE query_map[m.at].decoder_tokens
         /\ (IF m.next_net < 0 THEN query_map[m.at].next_net ELSE m.next_net)
              = query_map[OldestId].next_net
<1>1. /\ OldestId \in DOMAIN query_map /\ OldestId \in Nat
      /\ \A id \in DOMAIN query_map : OldestId <= id
      /\ query_map[OldestId].next_net \in {0, 1}
  BY Oldest, StateFields
<1>2. m.at \in Nat /\ \A id \in DOMAIN query_map : id \in Nat
  BY StateFields
<1>3. CASE \E id \in DOMAIN query_map : id < m.at
  <2>1. m.next_net = query_map[OldestId].next_net
    BY <1>3 DEF Found
  <2>2. OldestId # m.at
    BY <1>1, <1>2, <1>3
  <2>3. ~(m.next_net < 0)
    BY <1>1, <2>1
  <2> QED BY <2>1, <2>2, <2>3 DEF Compatible, TokensCounted
<1>4. CASE ~ \E id \in DOMAIN query_map : id < m.at
  <2>1. m.next_net = -1
    BY <1>4 DEF Found
  <2>2. OldestId = m.at
    BY <1>1, <1>2, <1>4
  <2>3. m.next_net < 0 /\ m.next_net # 0
    BY <2>1
  <2> QED BY <2>2, <2>3 DEF Compatible, TokensCounted
<1> QED BY <1>3, <1>4

(* Every round keeps what the loop has found right.                         *)
LEMMA FoundRound ==
  ASSUME TableTypeOK, NEW m \in GetStates, ~ GetEnds(m), Found(m)
  PROVE  Found(GetRound(m))
<1> DEFINE n == m.at
           r == GetRound(m)
<1> SUFFICES Found(r)
  OBVIOUS
<1>1. n \in Nat \ {0} /\ n - 1 \in Nat /\ n <= MaxQueryId /\ m.token_num < MaxTokenNum
  BY TableAssumption DEF GetStates, GetEnds
<1>2. r.at = n + 1 /\ r.at - 1 = n
  BY <1>1, GetRoundType
<1>3. TokensUpTo[n] = TokensUpTo[n - 1] + Counted(n) /\ TokensUpTo[n - 1] \in Nat
  BY <1>1, TokensSum
<1>4. \A id \in DOMAIN query_map : id \in Nat /\ (id < n + 1 <=> id < n \/ id = n)
  BY <1>1, StateFields
<1>5. Get \subseteq DOMAIN query_map
  BY DEF Get
<1>6. CASE n \in DOMAIN query_map /\ Compatible(n)
  <2>1. n \in Get
    BY <1>1, <1>6 DEF Get, Found
  <2>2. r = [ at |-> n + 1, ids |-> m.ids \cup {n},
              next_net |-> query_map[OldestId].next_net,
              token_num |-> m.token_num + TokensCounted(n) ]
    BY <1>6, FoundTaken DEF GetRound
  <2>3. r.ids = {id \in Get : id < n + 1}
    <3>1. r.ids = {id \in Get : id < n} \cup {n}
      BY <2>2 DEF Found
    <3> QED BY <1>4, <1>5, <2>1, <3>1
  <2>4. r.token_num = TokensUpTo[n]
    BY <1>3, <1>6, <2>2 DEF Found, Counted
  <2>5. r.next_net = query_map[OldestId].next_net /\ n < n + 1
    BY <1>1, <2>2
  <2> HIDE DEF r, n
  <2> QED BY <1>2, <1>6, <2>3, <2>4, <2>5 DEF Found
<1>7. CASE ~(n \in DOMAIN query_map /\ Compatible(n))
  <2>1. r = [m EXCEPT !.at = @ + 1]
    <3>1. CASE n \in DOMAIN query_map
      BY <1>7, <3>1, FoundTaken DEF GetRound
    <3>2. CASE n \notin DOMAIN query_map
      BY <3>2 DEF GetRound
    <3> QED BY <3>1, <3>2
  <2>2. r.ids = m.ids /\ r.token_num = m.token_num /\ r.next_net = m.next_net
    BY <2>1 DEF GetStates
  <2>3. m.ids = {id \in Get : id < n + 1}
    <3>1. n \notin Get
      BY <1>7 DEF Get
    <3> QED BY <1>4, <1>5, <3>1 DEF Found
  <2>4. m.token_num = TokensUpTo[n]
    BY <1>3, <1>7 DEF Found, Counted
  <2>5. (\E id \in DOMAIN query_map : id < n) <=> (\E id \in DOMAIN query_map : id < n + 1)
    <3>1. CASE n \notin DOMAIN query_map
      BY <1>4, <3>1
    <3>2. CASE n \in DOMAIN query_map
      <4>1. ~ Compatible(n)
        BY <1>7, <3>2
      <4>2. OldestId # n
        BY <4>1 DEF Compatible
      <4>3. OldestId \in DOMAIN query_map /\ OldestId <= n
        BY <3>2, Oldest
      <4>4. OldestId < n
        BY <1>1, <1>4, <4>2, <4>3
      <4> QED BY <1>1, <1>4, <4>3, <4>4
    <3> QED BY <3>1, <3>2
  <2>6. m.next_net = IF \E id \in DOMAIN query_map : id < n + 1
                     THEN query_map[OldestId].next_net ELSE -1
    BY <2>5 DEF Found
  <2> HIDE DEF r, n
  <2> QED BY <1>2, <2>2, <2>3, <2>4, <2>6 DEF Found
<1> QED BY <1>6, <1>7

(* The loop and the closed form select the same queries.                    *)
LEMMA GetLoopFinds ==
  ASSUME TableTypeOK
  PROVE  GetLoop[GetBegin].ids = Get
<1> DEFINE D == {m \in GetStates : GetEnds(m)}
           F == [m \in GetStates |-> GetRound(m)]
           v == [m \in GetStates |-> MaxQueryId + 1 - m.at]
           P == {m \in GetStates : Found(m) => GetLoop[m].ids = Get}
<1>1. v \in [GetStates -> Nat]
  <2>1. \A m \in GetStates : MaxQueryId + 1 - m.at \in Nat
    BY TableAssumption DEF GetStates
  <2> QED BY <2>1
<1>2. ASSUME NEW m \in GetStates \ D
      PROVE  F[m] \in GetStates /\ v[F[m]] < v[m]
  <2>1. GetRound(m) \in GetStates /\ GetRound(m).at = m.at + 1
    BY GetRoundType
  <2>2. m.at \in Int
    BY DEF GetStates
  <2>3. MaxQueryId + 1 - (m.at + 1) < MaxQueryId + 1 - m.at
    BY <2>2, TableAssumption
  <2> QED BY <2>1, <2>3
<1>3. Decreases(GetStates, D, F, v)
  BY <1>1, <1>2 DEF Decreases
<1>4. HoldsBackwards(GetStates, D, F, P)
  <2>1. ASSUME NEW m \in GetStates \cap D PROVE m \in P
    BY FoundAll, GetLoopIs
  <2>2. ASSUME NEW m \in GetStates \ D, F[m] \in P PROVE m \in P
    <3>1. Found(m) => Found(GetRound(m))
      BY FoundRound
    <3>2. GetLoop[m] = GetLoop[GetRound(m)]
      BY GetLoopIs
    <3> QED BY <2>2, <3>1, <3>2
  <2> HIDE DEF D, F, P
  <2> QED BY <2>1, <2>2 DEF HoldsBackwards
<1> HIDE DEF D, F, v, P
<1>5. \A m \in GetStates : m \in P
  BY <1>3, <1>4, LoopInduction
<1>6. GetBegin \in GetStates
  BY TableAssumption DEF GetBegin, GetStates
<1>7. Found(GetBegin)
  <2>1. \A id \in DOMAIN query_map : ~(id < 1)
    BY StateFields
  <2>2. Get \subseteq DOMAIN query_map
    BY DEF Get
  <2>3. {id \in Get : id < 1} = {} /\ ~ \E id \in DOMAIN query_map : id < 1
    BY <2>1, <2>2
  <2>4. TokensUpTo[1 - 1] = 0
    BY TokensSum
  <2> QED BY <2>3, <2>4 DEF Found, GetBegin
<1> QED BY <1>5, <1>6, <1>7 DEF P

(* The oldest query is always taken: nothing is counted before it.          *)
LEMMA OldestTaken ==
  ASSUME TableTypeOK, DOMAIN query_map # {}
  PROVE  OldestId \in Get
<1> DEFINE a == [n \in Nat |-> Counted(n)]
<1>1. /\ OldestId \in DOMAIN query_map /\ OldestId \in Nat \ {0} /\ OldestId - 1 \in Nat
      /\ \A id \in DOMAIN query_map : OldestId <= id
  BY Oldest, StateFields
<1>2. /\ a \in [Nat -> Nat] /\ TokensUpTo \in [Nat -> Nat] /\ TokensUpTo[0] = 0
      /\ \A n \in Nat \ {0} : TokensUpTo[n] = TokensUpTo[n - 1] + a[n]
  BY TokensSum
<1>3. \A i \in 1 .. OldestId - 1 : a[i] = 0
  BY <1>1 DEF Counted
<1> HIDE DEF a
<1>4. TokensUpTo[OldestId - 1] = 0
  BY <1>1, <1>2, <1>3, SumsZero
<1>5. 0 < MaxTokenNum /\ Compatible(OldestId)
  BY TableAssumption DEF Compatible
<1> QED BY <1>1, <1>4, <1>5 DEF Get

(* GetIsLoop in every reachable state of the table: the engine's batches    *)
(* are the ones that the loop of QueryStateTable::Get would gather, and     *)
(* they are never empty while a query lives.                                *)
THEOREM GetAlwaysIsLoop == TableSpec => []GetIsLoop
<1>1. TableTypeOK => GetIsLoop
  BY GetLoopFinds, OldestTaken DEF GetIsLoop
<1> QED BY <1>1, TableTypes, PTL
=============================================================================
