--------------------------- MODULE QueryStateTable ---------------------------
(***************************************************************************)
(* The table of live queries: class QueryStateTable of                     *)
(* src/src/transformer/query_state_table.{h,cc}.  The engine calls it      *)
(* under query_state_lock_ (except where InferenceEngine says otherwise),  *)
(* so every call is one atomic step.                                       *)
(*                                                                         *)
(* Token vectors are kept as their lengths; what they contain is the       *)
(* field "req", the request whose text was tokenised into them.            *)
(* "serial" names the object that `new QueryState` returned: two states    *)
(* stored under the same id at different times differ in it.               *)
(***************************************************************************)
EXTENDS Integers, FiniteSets, FiniteSetsExt

CONSTANTS
  Requests,     (* identities of the submitted texts                       *)
  MaxQueryId,   (* QueryStateTable::MAX_QUERY_ID, 10000 in the code        *)
  MaxProcId,    (* QueryState::MAX_PROC_ID, 63 in the code                 *)
  MaxTokenNum,  (* max_token_num of GetLocalInput, 256 in the code         *)
  NetType,      (* which of the three families the served network is in    *)
  EncLens,      (* possible lengths of an encoder input                    *)
  DecLens,      (* possible lengths of a decoder prefix                    *)
  OutLimits     (* possible max_output_tokens (-1: no limit)               *)

ASSUME TableAssumption ==
  /\ MaxQueryId \in Nat \ {0}
  /\ MaxProcId \in Nat
  /\ MaxTokenNum \in Nat \ {0}
  /\ NetType \in {"decoder_only", "encoder_only", "encoder_decoder"}
  /\ EncLens \subseteq Nat
  /\ DecLens \subseteq Nat
  /\ OutLimits \subseteq Nat \cup {-1}

VARIABLES
  query_map,      (* query_map_: id -> state of the live query              *)
  next_query_id,  (* next_query_id_                                         *)
  added           (* history: how many states were ever created             *)

tableVars == <<query_map, next_query_id, added>>

QueryIds == 1 .. MaxQueryId

QueryState ==
  [ req : Requests, serial : Nat, proc_id : 0 .. MaxProcId,
    encoder_tokens : Nat, decoder_tokens : Nat,
    prefix_len : Nat, initial_prefix_len : Nat,
    max_output : Nat \cup {-1}, next_net : {0, 1} ]

Size == Cardinality(DOMAIN query_map)

(* A faulty variant, for mutation: the number of live queries as the slot.  *)
IsFreeProcId_BySize(p) == p = Size

(* FindFreeProcId: p is the lowest processing slot no live query holds.     *)
IsFreeProcId(p) ==
  /\ \A id \in DOMAIN query_map : query_map[id].proc_id # p
  /\ \A q \in 0 .. p - 1 : \E id \in DOMAIN query_map : query_map[id].proc_id = q

(* The object Add builds.  next_net starts at 0, the encoder.               *)
NewState(r, enc, dec, limit, p) ==
  [ req |-> r, serial |-> added + 1, proc_id |-> p,
    encoder_tokens |-> enc, decoder_tokens |-> dec,
    prefix_len |-> 0, initial_prefix_len |-> dec,
    max_output |-> limit, next_net |-> 0 ]

(* Faulty variants, for mutation: a modulus that yields the invalid id 0,   *)
(* a wrap one id too early, and a forgotten increment.                      *)
NextQueryId_Modulo == (next_query_id + 1) % MaxQueryId
NextQueryId_Early  == IF next_query_id < MaxQueryId - 1 THEN next_query_id + 1 ELSE 1
NextQueryId_Stuck  == next_query_id

NextQueryId == IF next_query_id < MaxQueryId THEN next_query_id + 1 ELSE 1

(* Add with a slot to give: the entry of the new id is overwritten, whether *)
(* or not a live query still has that id.                                   *)
Add(r, enc, dec, limit, p) ==
  /\ query_map' = [id \in DOMAIN query_map \cup {next_query_id} |->
                     IF id = next_query_id THEN NewState(r, enc, dec, limit, p)
                     ELSE query_map[id]]
  /\ next_query_id' = NextQueryId
  /\ added' = added + 1

Without(ids) == [id \in DOMAIN query_map \ ids |-> query_map[id]]

(* Update moves the tokens just processed into the prefix; the sampled      *)
(* token is the next decoder input.                                         *)
Advanced(s) == [s EXCEPT !.prefix_len = @ + s.decoder_tokens, !.decoder_tokens = 1]

(* Update of every id in ids; those in ended are removed.  An id the table  *)
(* does not hold is skipped (Update returns false).                         *)
Update(ids, ended) ==
  /\ query_map' = [id \in DOMAIN query_map \ ended |->
                     IF id \in ids THEN Advanced(query_map[id]) ELSE query_map[id]]
  /\ UNCHANGED <<next_query_id, added>>

Encoded(s) == [s EXCEPT !.next_net = 1, !.prefix_len = 0]

(* UpdateEncoderEnd of every id in ids; an encoder-only query is over.      *)
UpdateEncoderEnd(ids) ==
  /\ query_map' = IF NetType = "encoder_only" THEN Without(ids)
                  ELSE [id \in DOMAIN query_map |->
                          IF id \in ids THEN Encoded(query_map[id]) ELSE query_map[id]]
  /\ UNCHANGED <<next_query_id, added>>

Remove(id) ==
  /\ query_map' = Without({id})
  /\ UNCHANGED <<next_query_id, added>>

Clear ==
  /\ query_map' = Without(DOMAIN query_map)
  /\ next_query_id' = 1
  /\ UNCHANGED added

-----------------------------------------------------------------------------
(* Get, in closed form.  The loop visits ids in increasing order; the first *)
(* query decides which network the batch runs, and queries waiting for the  *)
(* other one are skipped.  The loop stops once the tokens reach MaxTokenNum,*)
(* after the query that reached it.                                         *)
OldestId == Min(DOMAIN query_map)

Compatible(id) ==
  \/ NetType # "encoder_decoder"
  \/ query_map[id].next_net = query_map[OldestId].next_net

(* A faulty variant, for mutation: decoder tokens are always counted.       *)
TokensCounted_Decoder(id) == query_map[id].decoder_tokens

(* is_encoder is evaluated before next_net is known, so the first query is  *)
(* always counted by its decoder tokens.                                    *)
TokensCounted(id) ==
  IF id # OldestId /\ NetType # "decoder_only" /\ query_map[OldestId].next_net = 0
  THEN query_map[id].encoder_tokens
  ELSE query_map[id].decoder_tokens

(* The tokens of the compatible queries with ids up to n.                   *)
TokensUpTo[n \in Nat] ==
  IF n = 0 THEN 0
  ELSE TokensUpTo[n - 1]
         + (IF n \in DOMAIN query_map /\ Compatible(n) THEN TokensCounted(n) ELSE 0)

Get == {id \in DOMAIN query_map : Compatible(id) /\ TokensUpTo[id - 1] < MaxTokenNum}

(* The same call as the loop that the code runs: "at" is the id the         *)
(* iterator has come to, and ids without a live query are passed over.      *)
GetStates ==
  [ at : 1 .. MaxQueryId + 1, ids : SUBSET QueryIds,
    next_net : {-1, 0, 1}, token_num : Nat ]

GetBegin == [at |-> 1, ids |-> {}, next_net |-> -1, token_num |-> 0]

GetEnds(m) == m.at > MaxQueryId \/ m.token_num >= MaxTokenNum

GetRound(m) ==
  LET s             == query_map[m.at]
      is_compatible == m.next_net < 0 \/ NetType # "encoder_decoder"
                         \/ m.next_net = s.next_net
      is_encoder    == NetType # "decoder_only" /\ m.next_net = 0
  IN  IF m.at \in DOMAIN query_map /\ is_compatible
      THEN [ at        |-> m.at + 1,
             ids       |-> m.ids \cup {m.at},
             next_net  |-> IF m.next_net < 0 THEN s.next_net ELSE m.next_net,
             token_num |-> m.token_num
                 + (IF is_encoder THEN s.encoder_tokens ELSE s.decoder_tokens) ]
      ELSE [m EXCEPT !.at = @ + 1]

GetLoop[m \in GetStates] == IF GetEnds(m) THEN m ELSE GetLoop[GetRound(m)]

-----------------------------------------------------------------------------
TableInit ==
  /\ query_map = [id \in {} |-> {}]
  /\ next_query_id = 1
  /\ added = 0

AddSome ==
  \E r \in Requests, enc \in EncLens, dec \in DecLens, limit \in OutLimits,
     p \in 0 .. MaxProcId :
       IsFreeProcId(p) /\ Add(r, enc, dec, limit, p)

UpdateSome == \E id \in DOMAIN query_map : Update({id}, {}) \/ Update({id}, {id})

UpdateEncoderEndSome == \E id \in DOMAIN query_map : UpdateEncoderEnd({id})

RemoveSome == \E id \in DOMAIN query_map : Remove(id)

TableNext == AddSome \/ UpdateSome \/ UpdateEncoderEndSome \/ RemoveSome \/ Clear

TableSpec == TableInit /\ [][TableNext]_tableVars

-----------------------------------------------------------------------------
TableTypeOK ==
  /\ DOMAIN query_map \subseteq QueryIds
  /\ \A id \in DOMAIN query_map : query_map[id] \in QueryState
  /\ query_map = [id \in DOMAIN query_map |-> query_map[id]]
  /\ next_query_id \in QueryIds
  /\ added \in Nat

(* No two live queries hold the same processing slot, whatever sequence of  *)
(* Add, Update, Remove and id wrap-around went before: a slot is the index  *)
(* of a query's KV cache in every worker (FindFreeProcId, Add).             *)
ProcIdsDistinct ==
  \A i, j \in DOMAIN query_map :
    query_map[i].proc_id = query_map[j].proc_id => i = j

(* The closed form of QueryStateTable::Get, which the engine's model uses,  *)
(* selects exactly the queries the loop of the code selects, and the oldest *)
(* live query is always among them: no batch is empty while queries live,   *)
(* however many tokens they have.                                           *)
GetIsLoop ==
  /\ Get = GetLoop[GetBegin].ids
  /\ DOMAIN query_map # {} => OldestId \in Get

(* A live query loses its id to a newer one only after at least MaxQueryId  *)
(* newer queries were added since (Add stores under next_query_id_ without  *)
(* looking whether that id is taken; the property says how far apart two    *)
(* holders of an id are as long as the table is not cleared).               *)
ReuseOnlyAfterFullCycle ==
  [][\A id \in DOMAIN query_map :
       (id \in DOMAIN query_map' /\ query_map'[id].serial # query_map[id].serial)
         => query_map'[id].serial - query_map[id].serial >= MaxQueryId]_tableVars
=============================================================================
