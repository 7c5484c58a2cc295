----------------------- MODULE InferFlowServiceProofs -----------------------
(***************************************************************************)
(* Proofs about the service.  The engine inside it keeps its own           *)
(* invariants; the types of the service's state; no client is shown text   *)
(* of another; and without mishaps nothing is used after its deletion and  *)
(* nothing is left behind.                                                 *)
(***************************************************************************)
EXTENDS InferFlowService, InferenceEngineProofs, SequenceTheorems

(* Every step of the service is, for the engine, one of its own steps or    *)
(* the end of all knowledge about it.                                       *)
LEMMA EngineSide ==
  ASSUME [ServiceNext]_allVars
  PROVE  AnyStep
<1>1. CASE UNCHANGED allVars
  BY <1>1 DEF allVars, AnyStep
<1>2. CASE InferStep
  <2>1. CASE Infer_Round \/ Infer_Sample \/ Infer_Commit
    BY <2>1 DEF Infer_Round, Infer_Sample, Infer_Commit, AnyStep, Next, EngineStep
  <2>2. CASE Infer_FindQueue
    BY <2>2 DEF Infer_FindQueue, AnyStep
  <2>3. CASE Infer_Emplace
    BY <2>3 DEF Infer_Emplace, AnyStep, Broken, NoChange
  <2> QED BY <1>2, <2>1, <2>2, <2>3 DEF InferStep
<1>3. ASSUME NEW r \in Requests, HandlerStep(r) \/ Mishap(r)
      PROVE  AnyStep
  <2>1. CASE EmptyRequest(r) \/ Refused(r) \/ FindQueue(r) \/ WriteChunk(r) \/ FinishStream(r)
             \/ GiveUp(r)
    BY <2>1 DEF EmptyRequest, Refused, FindQueue, WriteChunk, FinishStream, GiveUp, AnyStep
  <2>2. CASE Submit(r)
    BY <2>2 DEF Submit, AnyStep, Next, ApiStep
  <2>3. CASE Dequeue(r) \/ Timeout(r)
    BY <2>3 DEF Dequeue, Timeout, AnyStep
  <2>4. CASE DequeueDeleted(r) \/ Erase(r)
    BY <2>4 DEF DequeueDeleted, Erase, AnyStep, Broken, NoChange
  <2>5. CASE WriteChunk_Fails(r)
    BY <2>5 DEF WriteChunk_Fails, AnyStep, Next, ApiStep
  <2> QED BY <1>3, <2>1, <2>2, <2>3, <2>4, <2>5 DEF HandlerStep, Mishap
<1>4. CASE Quiet
  BY <1>4 DEF Quiet, allVars, AnyStep
<1> QED BY <1>1, <1>2, <1>3, <1>4 DEF ServiceNext

(* What is proved of the engine alone holds of the engine in the service.   *)
LEMMA EngineInService == ServiceSpec => [](EngineInv /\ HandleInv)
<1>1. ServiceInit => EngineInv /\ HandleInv
  BY EngineInitInv, HandleInit DEF ServiceInit
<1>2. EngineInv /\ HandleInv /\ [ServiceNext]_allVars => (EngineInv /\ HandleInv)'
  BY EngineSide, EngineAnyStep, HandleStep
<1> QED BY <1>1, <1>2, PTL DEF ServiceSpec

(* With its handlers, queues and mishaps around it, the engine still gives  *)
(* every query a valid KV slot of its own and its own sampling options.     *)
THEOREM EngineSafeInService ==
  ServiceSpec => []KvSlotsValid /\ []SamplingOptionsOwn
<1>1. EngineInv => KvSlotsValid /\ SamplingOptionsOwn
  BY DEF EngineInv, TableInv, SlotBounds, KvSlotsValid
<1> QED BY <1>1, EngineInService, PTL

-----------------------------------------------------------------------------
(* The types of the service's state, by who writes it.  Infer holds items   *)
(* only while it delivers; a handler that reads has a queue.                *)
QueueType == [freed : BOOLEAN, items : Seq(Item)]

(* The values of ret_code.                                                  *)
Codes == {"none", "succ", "stream", "aborted", "error.busy", "error.empty_request"}

(* Where a handler can stand.                                               *)
Places == {"new", "reading", "erasing", "writing", "writing_last", "finishing", "closed"}

(* What Infer delivers is from the result, and only while delivering.       *)
DeliveryOK ==
  /\ todo \subseteq results
  /\ target # NoTarget => target.queue \in 1 .. Len(queues) /\ target.item \in results
  /\ phase # "deliver" => todo = {} /\ target = NoTarget
  /\ DOMAIN query_to_result \subseteq QueryIds
  /\ \A id \in DOMAIN query_to_result : query_to_result[id] \in 1 .. Len(queues)

(* The queues.                                                              *)
QueuesOK == queues \in Seq(QueueType)

(* The texts of the handlers.                                               *)
TextsOK ==
  /\ stream \in [Requests -> Seq(Token)]
  /\ chunk \in [Requests -> Seq(Token)]
  /\ reply \in [Requests -> [ret : Codes, text : Seq(Token)]]

(* A handler that reads has a queue.                                        *)
HandlersOK ==
  /\ conn \in [Requests -> Places]
  /\ queue \in [Requests -> 0 .. Len(queues)]
  /\ \A r \in Requests : conn[r] \notin {"new", "closed"} => queue[r] # 0

(* The history variables.                                                   *)
HistoryOK ==
  /\ text \in [Requests -> Seq(Nat)]
  /\ over \subseteq Requests

(* The type invariant, made inductive.                                      *)
ServiceOK == DeliveryOK /\ QueuesOK /\ TextsOK /\ HandlersOK /\ HistoryOK

(* The outcomes of Infer_Emplace and of Erase that are not undefined.       *)
EmplaceItem ==
  LET x == target.item
  IN  /\ ~ undefined /\ target # NoTarget /\ ~ queues[target.queue].freed
      /\ queues' = [queues EXCEPT ![target.queue] =
                      [freed |-> FALSE, items |-> Append(queues[target.queue].items, QueryResult(x))]]
      /\ IF IsEnd(x)
         THEN over' = over \cup {x.req} /\ text' = text
         ELSE text' = [text EXCEPT ![x.req] = Append(text[x.req], x.prefix_len)] /\ over' = over
      /\ target' = NoTarget
      /\ UNCHANGED <<vars, query_to_result, todo, handlerVars>>

(* Infer_Emplace, by its outcome.                                           *)
LEMMA EmplaceCases ==
  ASSUME Infer_Emplace, QueuesOK, DeliveryOK
  PROVE  \/ EmplaceItem
         \/ /\ Broken /\ target # NoTarget /\ queues[target.queue].freed
            /\ target' = NoTarget /\ UNCHANGED <<todo, resultVars, handlerVars, historyVars>>
<1>1. target # NoTarget /\ target.queue \in 1 .. Len(queues)
  BY DEF Infer_Emplace, DeliveryOK
<1>2. queues[target.queue] \in QueueType /\ DOMAIN queues = 1 .. Len(queues)
  BY <1>1, ElementOfSeq, LenProperties DEF QueuesOK
<1>3. CASE queues[target.queue].freed
  BY <1>1, <1>3 DEF Infer_Emplace, Broken, NoChange
<1>4. CASE ~ queues[target.queue].freed
  <2>1. queues' = [queues EXCEPT ![target.queue].items = Append(@, QueryResult(target.item))]
    BY <1>4 DEF Infer_Emplace
  <2>2. \A q \in QueueType : \A s : [q EXCEPT !.items = s] = [freed |-> q.freed, items |-> s]
    BY DEF QueueType
  <2>3. queues[target.queue].freed = FALSE
    BY <1>2, <1>4 DEF QueueType
  <2>4. [queues[target.queue] EXCEPT !.items = Append(@, QueryResult(target.item))]
          = [freed |-> FALSE, items |-> Append(queues[target.queue].items, QueryResult(target.item))]
    BY <1>2, <2>2, <2>3
  <2>5. queues' = [queues EXCEPT ![target.queue] =
                    [freed |-> FALSE, items |-> Append(queues[target.queue].items, QueryResult(target.item))]]
    BY <2>1, <2>4
  <2> QED BY <1>1, <1>4, <2>5 DEF Infer_Emplace, EmplaceItem
<1> QED BY <1>3, <1>4

-----------------------------------------------------------------------------
(* What ToChunk makes of the chunk and of the stream.                       *)
NewChunk(r, s) == chunk[r] \o SubSeq(s, 1, GetUtf8EndPos(s))

(* What ToChunk leaves in the stream.                                       *)
NewStream(s) ==
  IF GetUtf8EndPos(s) > 0 THEN s \o SubSeq(s, GetUtf8EndPos(s) + 1, Len(s)) ELSE s

(* What a handler's step may do to the texts of its request: nothing, set   *)
(* the stream, move it to the chunk, answer with it, write the chunk, or    *)
(* close with what was written before or with nothing.                      *)
TextsMoved(r, s) ==
  \/ UNCHANGED <<stream, chunk, reply>>
  \/ stream' = [stream EXCEPT ![r] = s] /\ UNCHANGED <<chunk, reply>>
  \/ /\ stream' = [stream EXCEPT ![r] = NewStream(s)]
     /\ chunk' = [chunk EXCEPT ![r] = NewChunk(r, s)]
     /\ UNCHANGED reply
  \/ /\ \E c \in Codes, t \in {SubSeq(s, 1, GetUtf8EndPos(s)), reply[r].text, <<>>} :
          reply' = [reply EXCEPT ![r] = [ret |-> c, text |-> t]]
     /\ UNCHANGED <<stream, chunk>>
  \/ /\ reply' = [reply EXCEPT ![r] = [ret |-> "stream", text |-> reply[r].text \o chunk[r]]]
     /\ chunk' = [chunk EXCEPT ![r] = <<>>]
     /\ UNCHANGED stream

(* The texts of a request are made of tokens in T.                          *)
TextsIn(r, T) ==
  /\ stream[r] \in Seq(T) /\ chunk[r] \in Seq(T) /\ reply[r].text \in Seq(T)

(* GetUtf8EndPos is a position of the text.                                 *)
LEMMA Utf8EndPos ==
  ASSUME NEW T, NEW s \in Seq(T)
  PROVE  GetUtf8EndPos(s) \in 0 .. Len(s)
<1>1. Len(s) \in Nat /\ (s # <<>> => Len(s) # 0)
  BY LenProperties, EmptySeq
<1> QED BY <1>1 DEF GetUtf8EndPos

(* A part of a text, and a text with a part of it appended, are texts.      *)
LEMMA PartIsText ==
  ASSUME NEW T, NEW s \in Seq(T), NEW m \in 1 .. Len(s) + 1, NEW n \in 0 .. Len(s)
  PROVE  SubSeq(s, m, n) \in Seq(T)
<1>1. Len(s) \in Nat /\ \A i \in 1 .. Len(s) : s[i] \in T
  BY LenProperties, ElementOfSeq
<1>2. \A i \in m .. n : s[i] \in T
  BY <1>1
<1>3. m \in Int /\ n \in Int
  BY <1>1
<1> QED BY <1>2, <1>3, SubSeqProperties

(* Moving text about makes no new tokens, whatever kind they are of.        *)
LEMMA TextsMovedIn ==
  ASSUME TextsOK, NEW r \in Requests, NEW T, TextsIn(r, T), NEW s \in Seq(T), T \subseteq Token,
         TextsMoved(r, s)
  PROVE  /\ TextsOK' /\ TextsIn(r, T)'
         /\ \A o \in Requests \ {r} : /\ stream'[o] = stream[o] /\ chunk'[o] = chunk[o]
                                      /\ reply'[o] = reply[o]
<1>0. \A t \in Seq(T) : t \in Seq(Token)
  BY SeqMonotonic
<1>1. Len(s) \in Nat /\ GetUtf8EndPos(s) \in 0 .. Len(s)
  BY Utf8EndPos, LenProperties
<1>2. SubSeq(s, 1, GetUtf8EndPos(s)) \in Seq(T)
  BY <1>1, PartIsText
<1>3. SubSeq(s, GetUtf8EndPos(s) + 1, Len(s)) \in Seq(T)
  BY <1>1, PartIsText
<1>4. NewStream(s) \in Seq(T)
  BY <1>3, ConcatProperties DEF NewStream
<1>5. NewChunk(r, s) \in Seq(T)
  BY <1>2, ConcatProperties DEF NewChunk, TextsIn
<1>6. reply[r].text \o chunk[r] \in Seq(T) /\ <<>> \in Seq(T)
  BY ConcatProperties, EmptySeq DEF TextsIn
<1>7. ASSUME NEW c \in Codes, NEW t \in Seq(T), reply' = [reply EXCEPT ![r] = [ret |-> c, text |-> t]]
      PROVE  /\ reply' \in [Requests -> [ret : Codes, text : Seq(Token)]]
             /\ reply'[r].text = t
             /\ \A o \in Requests \ {r} : reply'[o] = reply[o]
  <2>1. [ret |-> c, text |-> t] \in [ret : Codes, text : Seq(Token)]
    BY <1>0
  <2> QED BY <1>7, <2>1 DEF TextsOK
<1>8. CASE UNCHANGED <<stream, chunk, reply>>
  BY <1>8 DEF TextsOK, TextsIn
<1>9. CASE stream' = [stream EXCEPT ![r] = s] /\ UNCHANGED <<chunk, reply>>
  BY <1>0, <1>9 DEF TextsOK, TextsIn
<1>10. CASE /\ stream' = [stream EXCEPT ![r] = NewStream(s)]
            /\ chunk' = [chunk EXCEPT ![r] = NewChunk(r, s)]
            /\ UNCHANGED reply
  BY <1>0, <1>4, <1>5, <1>10 DEF TextsOK, TextsIn
<1>11. ASSUME NEW c \in Codes, NEW t \in {SubSeq(s, 1, GetUtf8EndPos(s)), reply[r].text, <<>>},
              reply' = [reply EXCEPT ![r] = [ret |-> c, text |-> t]], UNCHANGED <<stream, chunk>>
       PROVE  /\ TextsOK' /\ TextsIn(r, T)'
              /\ \A o \in Requests \ {r} : /\ stream'[o] = stream[o] /\ chunk'[o] = chunk[o]
                                           /\ reply'[o] = reply[o]
  <2>1. t \in Seq(T)
    BY <1>2, <1>6, <1>11 DEF TextsIn
  <2> QED BY <1>7, <1>11, <2>1 DEF TextsOK, TextsIn
<1>12. CASE /\ reply' = [reply EXCEPT ![r] = [ret |-> "stream", text |-> reply[r].text \o chunk[r]]]
            /\ chunk' = [chunk EXCEPT ![r] = <<>>]
            /\ UNCHANGED stream
  <2>1. /\ reply' \in [Requests -> [ret : Codes, text : Seq(Token)]]
        /\ reply'[r].text \in Seq(T)
        /\ \A o \in Requests \ {r} : reply'[o] = reply[o]
    BY <1>6, <1>7, <1>12 DEF Codes
  <2> QED BY <1>0, <1>6, <1>12, <2>1 DEF TextsOK, TextsIn
<1> QED BY <1>8, <1>9, <1>10, <1>11, <1>12 DEF TextsMoved

-----------------------------------------------------------------------------
(* The steps of a handler, by their effect.                                 *)
HeadItem(r)  == Head(queues[queue[r]].items)
(* The token of the item at the head of the handler's queue.                *)
HeadToken(r) == [req |-> HeadItem(r).req, pos |-> HeadItem(r).pos]

(* The handler goes on to one of some places.                               *)
Moves(r, places) == \E p \in places : conn' = [conn EXCEPT ![r] = p]

(* There is an item to take.                                                *)
HasItem(r) ==
  conn[r] = "reading" /\ ~ queues[queue[r]].freed /\ queues[queue[r]].items # <<>>

(* Dequeue of the end.                                                      *)
TakesEnd(r) ==
  /\ HasItem(r) /\ HeadItem(r).is_end
  /\ queues' = [queues EXCEPT ![queue[r]] = Freed]
  /\ Moves(r, {"erasing"})
  /\ TextsMoved(r, stream[r])
  /\ UNCHANGED <<vars, query_to_result, queue>>

(* Dequeue of a token.                                                      *)
TakesToken(r) ==
  /\ HasItem(r) /\ ~ HeadItem(r).is_end
  /\ queues' = [queues EXCEPT ![queue[r]] = [freed |-> FALSE, items |-> Tail(queues[queue[r]].items)]]
  /\ Moves(r, {"reading", "writing"})
  /\ TextsMoved(r, Append(stream[r], HeadToken(r)))
  /\ UNCHANGED <<vars, query_to_result, queue>>

(* Erase of an entry that is there.                                         *)
ErasesEntry(r) ==
  /\ conn[r] = "erasing"
  /\ query_to_result' = [id \in {i \in DOMAIN query_to_result :
                                   query_to_result[i] # queue[r]} |-> query_to_result[id]]
  /\ Moves(r, {"writing_last", "finishing", "closed"})
  /\ TextsMoved(r, stream[r])
  /\ UNCHANGED <<vars, queues, queue>>

(* Timeout.                                                                 *)
RunsOutOfTime(r) ==
  /\ MayTimeout /\ conn[r] = "reading" /\ ~ queues[queue[r]].freed
  /\ queues' = [queues EXCEPT ![queue[r]] = Freed]
  /\ Moves(r, {"finishing", "closed"})
  /\ TextsMoved(r, stream[r])
  /\ UNCHANGED <<vars, query_to_result, queue>>

(* WriteChunk.                                                              *)
Writes(r) ==
  /\ \/ conn[r] = "writing" /\ Moves(r, {"reading"})
     \/ conn[r] = "writing_last" /\ Moves(r, {"finishing"})
  /\ TextsMoved(r, stream[r])
  /\ UNCHANGED <<vars, resultVars, queue>>

(* The steps that close a connection.                                       *)
Closes(r) ==
  /\ \/ conn[r] = "new" /\ call[r] \in {"none", "busy", "error"} /\ UNCHANGED vars
     \/ conn[r] = "finishing" /\ UNCHANGED vars
     \/ MayGiveUp /\ conn[r] = "new" /\ call[r] = "accepted" /\ UNCHANGED vars
     \/ MayFailWrite /\ RemoveQuery(r)
  /\ Moves(r, {"closed"})
  /\ TextsMoved(r, stream[r])
  /\ UNCHANGED <<resultVars, queue>>

(* The steps with undefined behaviour.                                      *)
Breaks(r) ==
  /\ \/ conn[r] = "reading" /\ queues[queue[r]].freed
     \/ conn[r] = "erasing" /\ ~ \E id \in DOMAIN query_to_result : query_to_result[id] = queue[r]
  /\ Broken
  /\ UNCHANGED <<resultVars, handlerVars>>

(* A handler's step leaves alone what Infer is delivering.                  *)
HandlerFrame == UNCHANGED <<todo, target, text, over>>

(* ToChunk, by its effect.                                                  *)
LEMMA ToChunkMoves ==
  ASSUME NEW r, NEW s, NEW is_end \in BOOLEAN, ToChunk(r, s, is_end), UNCHANGED reply
  PROVE  /\ TextsMoved(r, s)
         /\ Moves(r, IF is_end THEN {"writing_last", "finishing"} ELSE {"reading", "writing"})
<1>1. /\ chunk' = [chunk EXCEPT ![r] = NewChunk(r, s)]
      /\ stream' = [stream EXCEPT ![r] = NewStream(s)]
  BY DEF ToChunk, NewChunk, NewStream
<1>2. Moves(r, IF is_end THEN {"writing_last", "finishing"} ELSE {"reading", "writing"})
  BY DEF ToChunk, Moves
<1> QED BY <1>1, <1>2 DEF TextsMoved

(* Close, by its effect.                                                    *)
LEMMA CloseMoves ==
  ASSUME NEW r, NEW s, NEW c \in Codes, NEW t \in {SubSeq(s, 1, GetUtf8EndPos(s)), reply[r].text, <<>>},
         Close(r, c, t), UNCHANGED <<stream, chunk>>
  PROVE  TextsMoved(r, s) /\ Moves(r, {"closed"})
BY DEF Close, TextsMoved, Moves

(* A handler has no other steps.                                            *)
LEMMA HandlerCases ==
  ASSUME NEW r \in Requests, HandlerStep(r) \/ Mishap(r), QueuesOK, HandlersOK
  PROVE  /\ HandlerFrame
         /\ \/ Submit(r) \/ FindQueue(r) \/ TakesEnd(r) \/ TakesToken(r) \/ ErasesEntry(r)
            \/ RunsOutOfTime(r) \/ Writes(r) \/ Closes(r) \/ Breaks(r)
<1> USE DEF HandlerFrame, deliveryVars, historyVars
<1>1. CASE Submit(r)
  BY <1>1 DEF Submit, serviceVars
<1>2. CASE FindQueue(r)
  BY <1>2 DEF FindQueue
<1>3. CASE EmptyRequest(r) \/ Refused(r)
  <2>1. \E c \in Codes : Close(r, c, <<>>)
    BY <1>3 DEF EmptyRequest, Refused, Codes
  <2>2. TextsMoved(r, stream[r]) /\ Moves(r, {"closed"})
    BY <1>3, <2>1, CloseMoves DEF EmptyRequest, Refused
  <2> QED BY <1>3, <2>2 DEF EmptyRequest, Refused, Closes, resultVars
<1>4. CASE GiveUp(r)
  <2>1. \E c \in Codes : Close(r, c, <<>>)
    BY <1>4 DEF GiveUp, Codes
  <2>2. TextsMoved(r, stream[r]) /\ Moves(r, {"closed"})
    BY <1>4, <2>1, CloseMoves DEF GiveUp
  <2> QED BY <1>4, <2>2 DEF GiveUp, Closes, resultVars
<1>5. CASE FinishStream(r) \/ WriteChunk_Fails(r)
  <2>1. \E c \in Codes : Close(r, c, reply[r].text)
    BY <1>5 DEF FinishStream, WriteChunk_Fails, Codes
  <2>2. TextsMoved(r, stream[r]) /\ Moves(r, {"closed"})
    BY <1>5, <2>1, CloseMoves DEF FinishStream, WriteChunk_Fails
  <2> QED BY <1>5, <2>2 DEF FinishStream, WriteChunk_Fails, Closes, resultVars
<1>6. CASE WriteChunk(r)
  <2>1. Moves(r, {IF conn[r] = "writing" THEN "reading" ELSE "finishing"})
    BY <1>6 DEF WriteChunk, Moves
  <2>2. TextsMoved(r, stream[r])
    BY <1>6 DEF WriteChunk, TextsMoved
  <2> QED BY <1>6, <2>1, <2>2 DEF WriteChunk, Writes, resultVars
<1>7. CASE DequeueDeleted(r)
  BY <1>7 DEF DequeueDeleted, Breaks, Broken, NoChange, serviceVars, resultVars, handlerVars
<1>8. CASE Erase(r) /\ ~ \E id \in DOMAIN query_to_result : query_to_result[id] = queue[r]
  <2>1. Broken /\ UNCHANGED <<resultVars, handlerVars>> /\ conn[r] = "erasing"
    BY <1>8 DEF Erase, Broken, NoChange, resultVars, handlerVars
  <2> QED BY <1>8, <2>1 DEF Erase, Breaks
<1>9. CASE Erase(r) /\ \E id \in DOMAIN query_to_result : query_to_result[id] = queue[r]
  <2>1. \/ ToChunk(r, stream[r], TRUE) /\ UNCHANGED reply
        \/ Close(r, "succ", SubSeq(stream[r], 1, GetUtf8EndPos(stream[r]))) /\ UNCHANGED <<stream, chunk>>
    BY <1>9 DEF Erase
  <2>2. TextsMoved(r, stream[r]) /\ Moves(r, {"writing_last", "finishing", "closed"})
    <3>1. CASE ToChunk(r, stream[r], TRUE) /\ UNCHANGED reply
      BY <3>1, ToChunkMoves DEF Moves
    <3>2. CASE Close(r, "succ", SubSeq(stream[r], 1, GetUtf8EndPos(stream[r]))) /\ UNCHANGED <<stream, chunk>>
      <4>1. "succ" \in Codes
        BY DEF Codes
      <4> QED BY <3>2, <4>1, CloseMoves DEF Moves
    <3> QED BY <2>1, <3>1, <3>2
  <2> QED BY <1>9, <2>2 DEF Erase, ErasesEntry
<1>10. CASE Timeout(r)
  <2>1. TextsMoved(r, stream[r]) /\ Moves(r, {"finishing", "closed"})
    <3>1. CASE conn' = [conn EXCEPT ![r] = "finishing"] /\ UNCHANGED reply
      BY <1>10, <3>1 DEF Timeout, TextsMoved, Moves
    <3>2. CASE Close(r, "succ", <<>>)
      <4>1. "succ" \in Codes
        BY DEF Codes
      <4> QED BY <1>10, <3>2, <4>1, CloseMoves DEF Timeout, Moves
    <3> QED BY <1>10, <3>1, <3>2 DEF Timeout
  <2> QED BY <1>10, <2>1 DEF Timeout, RunsOutOfTime
<1>11. CASE Dequeue(r)
  <2>0. HasItem(r)
    BY <1>11 DEF Dequeue, HasItem
  <2>1. CASE HeadItem(r).is_end
    BY <1>11, <2>0, <2>1 DEF Dequeue, HeadItem, TakesEnd, Moves, TextsMoved
  <2>2. CASE ~ HeadItem(r).is_end
    <3>1. conn[r] = "reading" /\ queue[r] \in 1 .. Len(queues)
      <4>1. queue[r] \in 0 .. Len(queues) /\ queue[r] # 0 /\ Len(queues) \in Nat
        BY <2>0, LenProperties DEF HasItem, HandlersOK, QueuesOK
      <4> QED BY <2>0, <4>1 DEF HasItem
    <3>2. queues[queue[r]] \in QueueType
      BY <3>1, ElementOfSeq DEF QueuesOK
    <3>3. queues' = [queues EXCEPT ![queue[r]].items = Tail(@)]
      BY <1>11, <2>2 DEF Dequeue, HeadItem
    <3>4. \A q \in QueueType : \A s : [q EXCEPT !.items = s] = [freed |-> q.freed, items |-> s]
      BY DEF QueueType
    <3>5. queues[queue[r]].freed = FALSE
      BY <2>0, <3>2 DEF QueueType, HasItem
    <3>6. [queues[queue[r]] EXCEPT !.items = Tail(@)] = [freed |-> FALSE, items |-> Tail(queues[queue[r]].items)]
      BY <3>2, <3>4, <3>5
    <3>7. queues' = [queues EXCEPT ![queue[r]] = [freed |-> FALSE, items |-> Tail(queues[queue[r]].items)]]
      BY <3>3, <3>6
    <3>8. /\ \/ ToChunk(r, Append(stream[r], HeadToken(r)), FALSE)
             \/ stream' = [stream EXCEPT ![r] = Append(stream[r], HeadToken(r))] /\ UNCHANGED <<conn, chunk>>
          /\ UNCHANGED <<reply, vars, query_to_result, queue>>
      BY <1>11, <2>2 DEF Dequeue, HeadItem, HeadToken
    <3>9. TextsMoved(r, Append(stream[r], HeadToken(r))) /\ Moves(r, {"reading", "writing"})
      <4>1. CASE ToChunk(r, Append(stream[r], HeadToken(r)), FALSE)
        BY <3>8, <4>1, ToChunkMoves DEF Moves
      <4>2. CASE stream' = [stream EXCEPT ![r] = Append(stream[r], HeadToken(r))] /\ UNCHANGED <<conn, chunk>>
        <5>1. conn' = [conn EXCEPT ![r] = "reading"]
          BY <3>1, <4>2 DEF HandlersOK
        <5> QED BY <3>8, <4>2, <5>1 DEF TextsMoved, Moves
      <4> QED BY <3>8, <4>1, <4>2
    <3> QED BY <1>11, <2>0, <2>2, <3>7, <3>8, <3>9 DEF TakesToken, Dequeue
  <2> QED BY <2>1, <2>2
<1> QED
  BY <1>1, <1>2, <1>3, <1>4, <1>5, <1>6, <1>7, <1>8, <1>9, <1>10, <1>11 DEF HandlerStep, Mishap

-----------------------------------------------------------------------------
(* The list of queues after one of them is changed, and after a new one.    *)
LEMMA QueueEdited ==
  ASSUME QueuesOK, NEW n \in 1 .. Len(queues), NEW q \in QueueType, queues' = [queues EXCEPT ![n] = q]
  PROVE  /\ QueuesOK' /\ Len(queues') = Len(queues) /\ queues'[n] = q
         /\ \A m \in 1 .. Len(queues) : m # n => queues'[m] = queues[m]
BY ExceptSeq DEF QueuesOK

(* A new queue leaves the others as they are.                               *)
LEMMA QueueAdded ==
  ASSUME QueuesOK, queues' = Append(queues, NewQueue)
  PROVE  /\ QueuesOK' /\ Len(queues) \in Nat /\ Len(queues') = Len(queues) + 1
         /\ queues'[Len(queues) + 1] = NewQueue
         /\ \A m \in 1 .. Len(queues) : queues'[m] = queues[m]
<1>1. NewQueue \in QueueType
  BY EmptySeq DEF NewQueue, QueueType
<1> QED BY <1>1, AppendProperties, LenProperties DEF QueuesOK

(* The queue of a handler that reads exists.                                *)
LEMMA QueueOfReader ==
  ASSUME QueuesOK, HandlersOK, NEW r \in Requests, conn[r] \notin {"new", "closed"}
  PROVE  queue[r] \in 1 .. Len(queues) /\ queues[queue[r]] \in QueueType
<1>1. queue[r] \in 0 .. Len(queues) /\ queue[r] # 0 /\ Len(queues) \in Nat
  BY LenProperties DEF HandlersOK, QueuesOK
<1>2. queue[r] \in 1 .. Len(queues)
  BY <1>1
<1> QED BY <1>2, ElementOfSeq DEF QueuesOK

(* The first item of a queue and the items after it.                        *)
LEMMA ItemTaken ==
  ASSUME QueuesOK, HandlersOK, NEW r \in Requests, HasItem(r)
  PROVE  /\ queue[r] \in 1 .. Len(queues) /\ queues[queue[r]] \in QueueType
         /\ queues[queue[r]].items \in Seq(Item)
         /\ HeadItem(r) \in Item /\ HeadToken(r) \in Token
         /\ Tail(queues[queue[r]].items) \in Seq(Item)
<1>1. queue[r] \in 1 .. Len(queues) /\ queues[queue[r]] \in QueueType
  BY QueueOfReader DEF HasItem
<1>2. queues[queue[r]].items \in Seq(Item) /\ queues[queue[r]].items # <<>>
  BY <1>1 DEF QueueType, HasItem
<1>3. HeadItem(r) \in Item /\ Tail(queues[queue[r]].items) \in Seq(Item)
  BY <1>2, HeadTailProperties DEF HeadItem
<1>4. HeadToken(r) \in Token
  BY <1>3 DEF HeadToken, Item, Token
<1> QED BY <1>1, <1>2, <1>3, <1>4

(* What Infer enqueues is an item.                                          *)
LEMMA ItemEmplaced ==
  ASSUME LocalTypeOK, DeliveryOK, QueuesOK, target # NoTarget
  PROVE  /\ target.queue \in 1 .. Len(queues) /\ queues[target.queue] \in QueueType
         /\ target.item \in results /\ target.item.req \in Requests /\ target.item.prefix_len \in Nat
         /\ target.item.id \in QueryIds
         /\ QueryResult(target.item) \in Item
         /\ Append(queues[target.queue].items, QueryResult(target.item)) \in Seq(Item)
<1>1. target.queue \in 1 .. Len(queues) /\ target.item \in results
  BY DEF DeliveryOK
<1>2. /\ target.item.req \in Requests /\ target.item.prefix_len \in Nat /\ target.item.eos \in BOOLEAN
      /\ target.item.id \in QueryIds
  BY <1>1 DEF LocalTypeOK
<1>3. IsEnd(target.item) \in BOOLEAN
  BY <1>2 DEF IsEnd
<1>4. QueryResult(target.item) \in Item
  BY <1>2, <1>3 DEF QueryResult, Item
<1>5. queues[target.queue] \in QueueType
  BY <1>1, ElementOfSeq DEF QueuesOK
<1>6. queues[target.queue].items \in Seq(Item)
  BY <1>5 DEF QueueType
<1> QED BY <1>1, <1>2, <1>4, <1>5, <1>6, AppendProperties

(* Moving on keeps the handlers well formed.                                *)
LEMMA HandlerMovesOK ==
  ASSUME QueuesOK, HandlersOK, NEW r \in Requests, NEW places \in SUBSET Places, Moves(r, places),
         queue' = queue, Len(queues') = Len(queues),
         conn[r] \notin {"new", "closed"} \/ places = {"closed"}
  PROVE  HandlersOK'
BY DEF HandlersOK, Moves

(* A handler's step keeps the service well formed.                          *)
LEMMA HandlerTypesStep ==
  ASSUME NEW r \in Requests, EngineInv, ServiceOK, HandlerStep(r) \/ Mishap(r)
  PROVE  ServiceOK'
<1>0. DeliveryOK /\ QueuesOK /\ TextsOK /\ HandlersOK /\ HistoryOK
  BY DEF ServiceOK
<1>1. /\ HandlerFrame
      /\ \/ Submit(r) \/ FindQueue(r) \/ TakesEnd(r) \/ TakesToken(r) \/ ErasesEntry(r)
         \/ RunsOutOfTime(r) \/ Writes(r) \/ Closes(r) \/ Breaks(r)
  BY <1>0, HandlerCases
<1>2. HistoryOK'
  BY <1>0, <1>1 DEF HandlerFrame, HistoryOK
<1>3. results' = results /\ phase' = phase
  <2>1. CASE UNCHANGED vars \/ Broken
    BY <2>1 DEF vars, Broken, NoChange, localVars
  <2>2. CASE RemoveQuery(r)
    BY <2>2 DEF RemoveQuery, engineVars
  <2>3. CASE Submit(r)
    BY <2>3 DEF Submit, AddQuery_Check, AddQuery_Invalid, AddQuery_Add, AddQuery_Full, engineVars
  <2> QED BY <1>1, <2>1, <2>2, <2>3 DEF FindQueue, TakesEnd, TakesToken, ErasesEntry, RunsOutOfTime,
                                       Writes, Closes, Breaks
<1>4. ASSUME QueuesOK', Len(queues') = Len(queues), DOMAIN query_to_result' \subseteq DOMAIN query_to_result,
             \A id \in DOMAIN query_to_result' : query_to_result'[id] = query_to_result[id]
      PROVE  DeliveryOK'
  BY <1>0, <1>1, <1>3, <1>4 DEF DeliveryOK, HandlerFrame
<1>5. ASSUME NEW s \in Seq(Token), TextsMoved(r, s) PROVE TextsOK'
  <2>1. TextsIn(r, Token)
    BY <1>0 DEF TextsOK, TextsIn
  <2> QED BY <1>0, <1>5, <2>1, TextsMovedIn
<1>6. stream[r] \in Seq(Token)
  BY <1>0 DEF TextsOK
<1>7. CASE Submit(r) \/ Breaks(r)
  <2>1. UNCHANGED <<query_to_result, queues, conn, queue, stream, chunk, reply>>
    BY <1>7 DEF Submit, Breaks, serviceVars, resultVars, handlerVars
  <2>2. QueuesOK' /\ HandlersOK' /\ TextsOK'
    BY <1>0, <2>1 DEF QueuesOK, HandlersOK, TextsOK
  <2> QED BY <1>2, <1>4, <2>1, <2>2 DEF ServiceOK
<1>8. CASE FindQueue(r)
  <2>1. UNCHANGED <<query_to_result, queues, stream, chunk, reply>>
    BY <1>8 DEF FindQueue, resultVars
  <2>2. query_to_result[handle[r]] \in 1 .. Len(queues) /\ Len(queues) \in Nat
    BY <1>0, <1>8, LenProperties DEF FindQueue, DeliveryOK, QueuesOK
  <2>3. HandlersOK'
    BY <1>0, <1>8, <2>1, <2>2 DEF FindQueue, HandlersOK, Places
  <2>4. QueuesOK' /\ TextsOK'
    BY <1>0, <2>1 DEF QueuesOK, TextsOK
  <2> QED BY <1>2, <1>4, <2>1, <2>3, <2>4 DEF ServiceOK
<1>9. CASE Writes(r) \/ Closes(r)
  <2>1. UNCHANGED <<query_to_result, queues, queue>> /\ TextsMoved(r, stream[r])
    BY <1>9 DEF Writes, Closes, resultVars
  <2>2. QueuesOK' /\ TextsOK'
    BY <1>0, <1>5, <1>6, <2>1 DEF QueuesOK
  <2>3. \/ conn[r] \in {"writing", "writing_last"} /\ Moves(r, {"reading", "finishing"})
        \/ Moves(r, {"closed"})
    BY <1>9 DEF Writes, Closes, Moves
  <2>4. HandlersOK'
    BY <1>0, <2>1, <2>3, HandlerMovesOK DEF Places
  <2> QED BY <1>2, <1>4, <2>1, <2>2, <2>4 DEF ServiceOK
<1>10. CASE ErasesEntry(r)
  <2>1. UNCHANGED <<queues, queue>> /\ TextsMoved(r, stream[r])
    BY <1>10 DEF ErasesEntry
  <2>2. QueuesOK' /\ TextsOK'
    BY <1>0, <1>5, <1>6, <2>1 DEF QueuesOK
  <2>3. conn[r] = "erasing" /\ Moves(r, {"writing_last", "finishing", "closed"})
    BY <1>10 DEF ErasesEntry
  <2>4. HandlersOK'
    BY <1>0, <2>1, <2>3, HandlerMovesOK DEF Places
  <2>5. DOMAIN query_to_result' \subseteq DOMAIN query_to_result
          /\ \A id \in DOMAIN query_to_result' : query_to_result'[id] = query_to_result[id]
    BY <1>10 DEF ErasesEntry
  <2> QED BY <1>2, <1>4, <2>1, <2>2, <2>4, <2>5 DEF ServiceOK
<1>11. CASE TakesEnd(r) \/ RunsOutOfTime(r)
  <2>1. UNCHANGED <<query_to_result, queue>> /\ TextsMoved(r, stream[r])
          /\ queues' = [queues EXCEPT ![queue[r]] = Freed]
    BY <1>11 DEF TakesEnd, RunsOutOfTime
  <2>2. conn[r] = "reading" /\ Moves(r, {"erasing", "finishing", "closed"})
    BY <1>11 DEF TakesEnd, RunsOutOfTime, HasItem, Moves
  <2>3. queue[r] \in 1 .. Len(queues) /\ Freed \in QueueType
    BY <1>0, <2>2, QueueOfReader, EmptySeq DEF Freed, QueueType
  <2>4. QueuesOK' /\ Len(queues') = Len(queues)
    BY <1>0, <2>1, <2>3, QueueEdited
  <2>5. HandlersOK'
    BY <1>0, <2>1, <2>2, <2>4, HandlerMovesOK DEF Places
  <2> QED BY <1>2, <1>4, <1>5, <1>6, <2>1, <2>4, <2>5 DEF ServiceOK
<1>12. CASE TakesToken(r)
  <2>1. /\ queue[r] \in 1 .. Len(queues) /\ HeadToken(r) \in Token
        /\ Tail(queues[queue[r]].items) \in Seq(Item)
    BY <1>0, <1>12, ItemTaken DEF TakesToken
  <2>2. [freed |-> FALSE, items |-> Tail(queues[queue[r]].items)] \in QueueType
    BY <2>1 DEF QueueType
  <2>3. QueuesOK' /\ Len(queues') = Len(queues)
    BY <1>0, <1>12, <2>1, <2>2, QueueEdited DEF TakesToken
  <2>4. Append(stream[r], HeadToken(r)) \in Seq(Token)
    BY <1>6, <2>1, AppendProperties
  <2>5. conn[r] = "reading" /\ Moves(r, {"reading", "writing"}) /\ UNCHANGED <<query_to_result, queue>>
    BY <1>12 DEF TakesToken, HasItem
  <2>6. HandlersOK'
    BY <1>0, <2>3, <2>5, HandlerMovesOK DEF Places
  <2> QED BY <1>2, <1>4, <1>5, <1>12, <2>3, <2>4, <2>5, <2>6 DEF ServiceOK, TakesToken
<1> QED BY <1>1, <1>7, <1>8, <1>9, <1>10, <1>11, <1>12

-----------------------------------------------------------------------------
(* The two outcomes of Infer_FindQueue.                                     *)
FindsQueue(x) ==
  /\ target = NoTarget /\ todo' = todo \ {x} /\ UNCHANGED <<vars, handlerVars, historyVars>>
  /\ x.id \in DOMAIN query_to_result
  /\ target' = [queue |-> query_to_result[x.id], item |-> x]
  /\ UNCHANGED resultVars

(* Infer_FindQueue where there is no queue yet.                             *)
MakesQueue(x) ==
  /\ target = NoTarget /\ todo' = todo \ {x} /\ UNCHANGED <<vars, handlerVars, historyVars>>
  /\ x.id \notin DOMAIN query_to_result
  /\ queues' = Append(queues, NewQueue)
  /\ target' = [queue |-> Len(queues) + 1, item |-> x]
  /\ query_to_result' = [id \in DOMAIN query_to_result \cup {x.id} |->
                           IF id = x.id THEN Len(queues) + 1 ELSE query_to_result[id]]

(* Infer_FindQueue, by its outcome.                                         *)
LEMMA FindQueueCases ==
  ASSUME Infer_FindQueue, QueuesOK
  PROVE  \E x \in todo : FindsQueue(x) \/ MakesQueue(x)
<1>1. PICK x \in todo :
         /\ todo' = todo \ {x}
         /\ IF x.id \in DOMAIN query_to_result
            THEN /\ target' = [queue |-> query_to_result[x.id], item |-> x]
                 /\ UNCHANGED resultVars
            ELSE /\ queues' = Append(queues, NewQueue)
                 /\ target' = [queue |-> Len(queues'), item |-> x]
                 /\ query_to_result' = [id \in DOMAIN query_to_result \cup {x.id} |->
                      IF id = x.id THEN Len(queues') ELSE query_to_result[id]]
  BY DEF Infer_FindQueue
<1>2. queues' = Append(queues, NewQueue) => Len(queues') = Len(queues) + 1
  BY QueueAdded
<1>3. target = NoTarget /\ UNCHANGED <<vars, handlerVars, historyVars>>
  BY DEF Infer_FindQueue
<1> QED BY <1>1, <1>2, <1>3 DEF FindsQueue, MakesQueue

(* A step of Infer keeps the service well formed.                           *)
LEMMA InferTypesStep ==
  ASSUME EngineInv, ServiceOK, InferStep
  PROVE  ServiceOK'
<1>0. DeliveryOK /\ QueuesOK /\ TextsOK /\ HandlersOK /\ HistoryOK /\ LocalTypeOK
  BY DEF ServiceOK, EngineInv
<1>1. ASSUME UNCHANGED handlerVars, Len(queues') >= Len(queues), Len(queues) \in Nat, Len(queues') \in Nat
      PROVE  TextsOK' /\ HandlersOK'
  BY <1>0, <1>1 DEF TextsOK, HandlersOK, handlerVars
<1>n. Len(queues) \in Nat
  BY <1>0, LenProperties DEF QueuesOK
<1>2. ASSUME UNCHANGED <<queues, query_to_result, handlerVars, historyVars>>
      PROVE  QueuesOK' /\ TextsOK' /\ HandlersOK' /\ HistoryOK'
  BY <1>0, <1>1, <1>2, <1>n DEF QueuesOK, HistoryOK, historyVars
<1>3. CASE Infer_Round
  <2>1. results' = results /\ (phase' = "deliver" => phase = "deliver") /\ UNCHANGED <<todo, target, queues, query_to_result>>
    BY <1>3 DEF Infer_Round, FetchBatch, ReadBatch, Compute, ComputeFails, FollowDangling, localVars,
                serviceVars, deliveryVars, resultVars
  <2>2. (phase # "deliver" => phase' # "deliver") /\ (phase = "deliver" => phase' = "deliver")
    BY <1>3 DEF Infer_Round, FetchBatch, ReadBatch, Compute, ComputeFails, FollowDangling
  <2>3. DeliveryOK'
    BY <1>0, <2>1, <2>2 DEF DeliveryOK
  <2> QED BY <1>2, <1>3, <2>3 DEF Infer_Round, serviceVars, resultVars, ServiceOK
<1>4. CASE Infer_Sample
  <2>1. /\ todo' = results' /\ target' = target /\ phase = "sample" /\ phase' = "deliver"
        /\ UNCHANGED <<queues, query_to_result, handlerVars, historyVars>>
    BY <1>4 DEF Infer_Sample, Sample, resultVars
  <2>2. DeliveryOK'
    BY <1>0, <2>1 DEF DeliveryOK
  <2> QED BY <1>2, <2>1, <2>2 DEF ServiceOK
<1>5. CASE Infer_Commit
  <2>1. /\ todo = {} /\ target = NoTarget /\ phase' = "idle"
        /\ UNCHANGED <<todo, target, queues, query_to_result, handlerVars, historyVars>>
    BY <1>5 DEF Infer_Commit, CommitInferenceResult, serviceVars, resultVars, deliveryVars
  <2>2. DeliveryOK'
    BY <1>0, <2>1 DEF DeliveryOK
  <2> QED BY <1>2, <2>1, <2>2 DEF ServiceOK
<1>6. CASE Infer_FindQueue
  <2>1. PICK x \in todo : FindsQueue(x) \/ MakesQueue(x)
    BY <1>0, <1>6, FindQueueCases
  <2>2. x \in results /\ x.id \in QueryIds /\ phase = "deliver"
    BY <1>0 DEF DeliveryOK, LocalTypeOK
  <2>3. results' = results /\ phase' = phase /\ todo' \subseteq todo
    BY <2>1 DEF FindsQueue, MakesQueue, vars
  <2>4. CASE FindsQueue(x)
    <3>1. DeliveryOK'
      BY <1>0, <2>2, <2>3, <2>4 DEF FindsQueue, DeliveryOK, resultVars
    <3> QED BY <1>2, <2>4, <3>1 DEF FindsQueue, resultVars, ServiceOK
  <2>5. CASE MakesQueue(x)
    <3>1. QueuesOK' /\ Len(queues') = Len(queues) + 1
      BY <1>0, <2>5, QueueAdded DEF MakesQueue
    <3>2. Len(queues) + 1 \in 1 .. Len(queues')
      BY <1>n, <3>1
    <3>3. /\ DOMAIN query_to_result' \subseteq QueryIds
          /\ \A id \in DOMAIN query_to_result' : query_to_result'[id] \in 1 .. Len(queues')
      <4>1. \A id \in DOMAIN query_to_result : query_to_result[id] \in 1 .. Len(queues')
        BY <1>0, <1>n, <3>1 DEF DeliveryOK
      <4> QED BY <1>0, <2>2, <2>5, <3>2, <4>1 DEF MakesQueue, DeliveryOK
    <3>4. target'.queue \in 1 .. Len(queues') /\ target'.item \in results'
      BY <2>2, <2>3, <2>5, <3>2 DEF MakesQueue
    <3>5. DeliveryOK'
      BY <1>0, <2>2, <2>3, <3>3, <3>4 DEF DeliveryOK
    <3>6. TextsOK' /\ HandlersOK' /\ HistoryOK'
      BY <1>0, <1>1, <1>n, <2>5, <3>1 DEF MakesQueue, HistoryOK, historyVars
    <3> QED BY <3>1, <3>5, <3>6 DEF ServiceOK
  <2> QED BY <2>1, <2>4, <2>5
<1>7. CASE Infer_Emplace
  <2>1. CASE /\ Broken /\ target' = NoTarget
             /\ UNCHANGED <<todo, resultVars, handlerVars, historyVars>>
    <3>1. results' = results /\ phase' = phase /\ todo' = todo /\ target' = NoTarget
            /\ UNCHANGED <<queues, query_to_result>>
      BY <2>1 DEF Broken, NoChange, localVars, resultVars
    <3>2. DeliveryOK'
      BY <1>0, <3>1 DEF DeliveryOK
    <3> QED BY <1>2, <2>1, <3>1, <3>2 DEF ServiceOK
  <2>2. CASE EmplaceItem
    <3> DEFINE q == [freed |-> FALSE, items |-> Append(queues[target.queue].items, QueryResult(target.item))]
    <3>1. /\ target.queue \in 1 .. Len(queues) /\ target.item.req \in Requests
          /\ target.item.prefix_len \in Nat
          /\ Append(queues[target.queue].items, QueryResult(target.item)) \in Seq(Item)
      BY <1>0, <2>2, ItemEmplaced DEF EmplaceItem
    <3>2. q \in QueueType
      BY <3>1 DEF QueueType
    <3>3. queues' = [queues EXCEPT ![target.queue] = q]
      BY <2>2 DEF EmplaceItem
    <3> HIDE DEF q
    <3>4. QueuesOK' /\ Len(queues') = Len(queues)
      BY <1>0, <3>1, <3>2, <3>3, QueueEdited
    <3>5. UNCHANGED <<handlerVars, query_to_result, todo, results, phase>> /\ target' = NoTarget
      BY <2>2 DEF EmplaceItem, vars
    <3>6. DeliveryOK'
      BY <1>0, <3>4, <3>5 DEF DeliveryOK
    <3>7. HistoryOK'
      <4>1. text[target.item.req] \in Seq(Nat)
        BY <1>0, <3>1 DEF HistoryOK
      <4>2. Append(text[target.item.req], target.item.prefix_len) \in Seq(Nat)
        BY <3>1, <4>1, AppendProperties
      <4>3. \/ over' = over \cup {target.item.req} /\ text' = text
            \/ /\ text' = [text EXCEPT ![target.item.req] = Append(text[target.item.req], target.item.prefix_len)]
               /\ over' = over
        BY <2>2 DEF EmplaceItem
      <4> QED BY <1>0, <3>1, <4>2, <4>3 DEF HistoryOK
    <3> QED BY <1>1, <1>n, <3>4, <3>5, <3>6, <3>7 DEF ServiceOK
  <2> QED BY <1>0, <1>7, <2>1, <2>2, EmplaceCases
<1> QED BY <1>3, <1>4, <1>5, <1>6, <1>7 DEF InferStep

(* The engine's invariants and the service's.                               *)
ServiceInv == EngineInv /\ HandleInv /\ ServiceOK

(* The service is well formed in the beginning.                             *)
LEMMA ServiceInvInit == ServiceInit => ServiceInv
<1> SUFFICES ASSUME ServiceInit PROVE ServiceInv
  OBVIOUS
<1>1. EngineInv /\ HandleInv
  BY EngineInitInv, HandleInit DEF ServiceInit
<1>2. <<>> \in Seq(QueueType) /\ <<>> \in Seq(Token) /\ <<>> \in Seq(Nat) /\ Len(<<>>) = 0
  BY EmptySeq
<1>3. DeliveryOK
  BY DEF ServiceInit, DeliveryOK
<1>4. QueuesOK /\ HandlersOK
  BY <1>2 DEF ServiceInit, QueuesOK, HandlersOK, Places
<1>5. TextsOK /\ HistoryOK
  BY <1>2 DEF ServiceInit, TextsOK, HistoryOK, NoReply, Codes
<1> QED BY <1>1, <1>3, <1>4, <1>5 DEF ServiceInv, ServiceOK

(* Every step keeps the service well formed.                                *)
LEMMA ServiceInvStep ==
  ASSUME ServiceInv, [ServiceNext]_allVars
  PROVE  ServiceInv'
<1>1. EngineInv' /\ HandleInv'
  BY EngineSide, EngineAnyStep, HandleStep DEF ServiceInv
<1>2. ServiceOK'
  <2>1. CASE UNCHANGED allVars
    BY <2>1 DEF ServiceInv, ServiceOK, DeliveryOK, QueuesOK, TextsOK, HandlersOK, HistoryOK, allVars,
                vars, serviceVars, deliveryVars, resultVars, handlerVars, historyVars
  <2>2. CASE InferStep
    BY <2>2, InferTypesStep DEF ServiceInv
  <2>3. ASSUME NEW r \in Requests, HandlerStep(r) \/ Mishap(r) PROVE ServiceOK'
    BY <2>3, HandlerTypesStep DEF ServiceInv
  <2> QED BY <2>1, <2>2, <2>3 DEF ServiceNext, Quiet
<1> QED BY <1>1, <1>2 DEF ServiceInv

(* The state of the service keeps its types: what Infer is delivering comes *)
(* from this round's result, map entries and handlers name queues that      *)
(* exist, and every answer is made of tokens.                               *)
THEOREM ServiceTypes == ServiceSpec => []ServiceTypeOK
<1>1. ServiceInv => ServiceTypeOK
  <2> SUFFICES ASSUME ServiceInv PROVE ServiceTypeOK
    OBVIOUS
  <2>1. TypeOK
    BY DEF ServiceInv, EngineInv, TableInv, LocalTypeOK, TypeOK
  <2>2. DeliveryOK /\ QueuesOK /\ TextsOK /\ HandlersOK /\ HistoryOK
    BY DEF ServiceInv, ServiceOK
  <2>3. DOMAIN queues = 1 .. Len(queues)
    BY <2>2, LenProperties DEF QueuesOK
  <2>4. \A r \in Requests : reply[r].text \in Seq(Token)
    BY <2>2 DEF TextsOK
  <2> QED BY <2>1, <2>2, <2>3, <2>4 DEF ServiceTypeOK, DeliveryOK, QueuesOK, TextsOK, HandlersOK,
                                       HistoryOK, QueueType, Places
<1> QED BY <1>1, ServiceInvInit, ServiceInvStep, PTL DEF ServiceSpec

-----------------------------------------------------------------------------
(* Whose text a client is shown.  As long as no id is given out twice, an   *)
(* id stands for one request: ids are handed out in increasing order.       *)
NoIdReused == added <= MaxQueryId

(* As long as no id is used again, an id belongs to one request.            *)
IdsUnique ==
  /\ \A r, s \in Requests :
       call[r] \in Submitted /\ call[s] \in Submitted /\ handle[r] = handle[s] => r = s
  /\ \A r \in Requests : call[r] \in Submitted => handle[r] \in 1 .. added
  /\ added < MaxQueryId => next_query_id = added + 1

(* Every step keeps ids unique.                                             *)
LEMMA IdsUniqueStep ==
  ASSUME EngineInv, IdsUnique, NoIdReused', AnyStep
  PROVE  IdsUnique'
<1>t. LocalTypeOK /\ added \in Nat /\ MaxQueryId \in Nat
  BY TableAssumption DEF EngineInv, TableInv, TableTypeOK
<1>1. CASE \E r \in Requests : CallOnly(r)
  <2>1. UNCHANGED <<handle, added, next_query_id>>
    BY <1>1 DEF CallOnly, tableVars
  <2>2. \A r \in Requests : call'[r] \in Submitted => call[r] \in Submitted
    BY <1>1, <1>t DEF CallOnly, LocalTypeOK, Submitted
  <2> QED BY <2>1, <2>2 DEF IdsUnique
<1>2. CASE \E r \in Requests : RemoveQuery(r)
  <2>1. UNCHANGED <<handle, added, next_query_id>>
    BY <1>2 DEF RemoveQuery, Remove
  <2>2. \A r \in Requests : call'[r] \in Submitted => call[r] \in Submitted
    BY <1>2, <1>t DEF RemoveQuery, LocalTypeOK, Submitted
  <2> QED BY <2>1, <2>2 DEF IdsUnique
<1>3. CASE \/ FetchBatch \/ ReadBatch \/ Compute \/ ComputeFails \/ Sample
           \/ CommitInferenceResult \/ NoChange
  <2>1. UNCHANGED <<call, handle, added, next_query_id>>
    BY <1>3 DEF FetchBatch, ReadBatch, Compute, ComputeFails, Sample, CommitInferenceResult, NoChange,
                tableVars, apiVars, UpdateEncoderEnd, Update
  <2> QED BY <2>1 DEF IdsUnique
<1>4. ASSUME NEW r \in Requests, NEW enc \in EncLens, NEW dec \in DecLens, NEW limit \in OutLimits,
             AddQuery_Add(r, enc, dec, limit)
      PROVE  IdsUnique'
  <2>1. added' = added + 1 /\ next_query_id' = NextQueryId
    BY <1>4 DEF AddQuery_Add, Add
  <2>2. added < MaxQueryId /\ next_query_id = added + 1
    BY <1>t, <2>1 DEF NoIdReused, IdsUnique
  <2>3. added' < MaxQueryId => next_query_id' = added' + 1
    BY <1>t, <2>1, <2>2 DEF NextQueryId
  <2>4. call' = [call EXCEPT ![r] = "accepted"] /\ handle' = [handle EXCEPT ![r] = added + 1]
    BY <1>4, <2>2 DEF AddQuery_Add
  <2>5. \A s \in Requests \ {r} : call'[s] = call[s] /\ handle'[s] = handle[s]
    BY <1>t, <2>4 DEF LocalTypeOK
  <2>6. handle'[r] = added + 1
    BY <1>t, <2>4 DEF LocalTypeOK
  <2>7. \A s \in Requests \ {r} : call'[s] \in Submitted => handle'[s] \in 1 .. added
    BY <2>5 DEF IdsUnique
  <2>8. \A s \in Requests : call'[s] \in Submitted => handle'[s] \in 1 .. added'
    BY <1>t, <2>1, <2>6, <2>7
  <2>9. \A s, o \in Requests :
          call'[s] \in Submitted /\ call'[o] \in Submitted /\ handle'[s] = handle'[o] => s = o
    BY <1>t, <2>5, <2>6, <2>7 DEF IdsUnique
  <2> QED BY <2>3, <2>8, <2>9 DEF IdsUnique
<1> QED BY <1>1, <1>2, <1>3, <1>4, StepCases

(* Every queue belongs to one id: the map, Infer, the handlers and the      *)
(* items in it agree on it.                                                 *)
OwnItem(id) == {i \in Item : Owns(i.req, id)}
(* The tokens of one request.                                               *)
OwnToken(r) == [req : {r}, pos : Nat]

(* Every queue has an owner: the id it was made for.  What is in it, who    *)
(* reads it and what is on its way to it belong to that id.                 *)
OwnQueues(owner) ==
  /\ \A id \in DOMAIN query_to_result : owner[query_to_result[id]] = id
  /\ target # NoTarget => owner[target.queue] = target.item.id
  /\ \A r \in Requests : queue[r] # 0 => Owns(r, owner[queue[r]])
  /\ \A n \in 1 .. Len(queues) : queues[n].items \in Seq(OwnItem(owner[n]))

(* A handler's texts are its own.                                           *)
OwnTexts == \A r \in Requests : TextsIn(r, OwnToken(r))

(* Queues and texts are their owners'.                                      *)
OwnInv == OwnTexts /\ \E owner \in [1 .. Len(queues) -> QueryIds] : OwnQueues(owner)

(* An item stays its owner's.                                               *)
LEMMA OwnItemKept ==
  ASSUME LocalTypeOK, AnyStep, NEW id, NEW s \in Seq(OwnItem(id))
  PROVE  s \in Seq(OwnItem(id)')
<1>1. \A r \in Requests : Owns(r, id) => Owns(r, id)'
  BY OwnsKept
<1>2. \A i \in Item : i.req \in Requests
  BY DEF Item
<1>3. OwnItem(id) \subseteq OwnItem(id)'
  BY <1>1, <1>2 DEF OwnItem
<1> QED BY <1>3, SeqMonotonic

(* The steps of a handler, when the queue and the tokens taken are its own. *)
LEMMA HandlerOwns ==
  ASSUME ServiceInv, IdsUnique, OwnTexts, AnyStep, NEW r \in Requests,
         NEW owner \in [1 .. Len(queues) -> QueryIds], OwnQueues(owner),
         HandlerStep(r) \/ Mishap(r)
  PROVE  OwnTexts' /\ Len(queues') = Len(queues) /\ OwnQueues(owner)'
<1>0. /\ DeliveryOK /\ QueuesOK /\ TextsOK /\ HandlersOK /\ HistoryOK
      /\ LocalTypeOK
  BY DEF ServiceInv, ServiceOK, EngineInv
<1>1. /\ HandlerFrame
      /\ \/ Submit(r) \/ FindQueue(r) \/ TakesEnd(r) \/ TakesToken(r) \/ ErasesEntry(r)
         \/ RunsOutOfTime(r) \/ Writes(r) \/ Closes(r) \/ Breaks(r)
  BY <1>0, HandlerCases
<1>2. ASSUME NEW s \in Seq(OwnToken(r)), TextsMoved(r, s) PROVE OwnTexts'
  <2>1. OwnToken(r) \subseteq Token /\ TextsIn(r, OwnToken(r))
    BY DEF OwnToken, Token, OwnTexts
  <2>2. TextsIn(r, OwnToken(r))' /\ \A o \in Requests \ {r} : TextsIn(o, OwnToken(o))'
    <3>1. /\ TextsIn(r, OwnToken(r))'
          /\ \A o \in Requests \ {r} : /\ stream'[o] = stream[o] /\ chunk'[o] = chunk[o]
                                       /\ reply'[o] = reply[o]
      BY <1>0, <1>2, <2>1, TextsMovedIn DEF TextsIn, OwnToken
    <3>2. \A o \in Requests \ {r} : TextsIn(o, OwnToken(o))
      BY DEF OwnTexts
    <3> QED BY <3>1, <3>2 DEF TextsIn, OwnToken
  <2> QED BY <2>2 DEF OwnTexts
<1>3. stream[r] \in Seq(OwnToken(r))
  BY DEF OwnTexts, TextsIn
<1>4. \A o \in Requests : queue[o] # 0 => call'[o] \in Submitted /\ handle'[o] = owner[queue[o]]
  <2>1. \A o \in Requests : \A id : Owns(o, id) => Owns(o, id)'
    BY <1>0, OwnsKept
  <2> QED BY <2>1 DEF OwnQueues, Owns
<1>5. \A n \in 1 .. Len(queues) : queues[n].items \in Seq(OwnItem(owner[n])')
  <2>1. \A id : \A s \in Seq(OwnItem(id)) : s \in Seq(OwnItem(id)')
    BY <1>0, OwnItemKept
  <2> QED BY <2>1 DEF OwnQueues
<1>6. ASSUME NEW n \in 1 .. Len(queues), NEW q \in QueueType, queues' = [queues EXCEPT ![n] = q],
             q.items \in Seq(OwnItem(owner[n])')
      PROVE  /\ Len(queues') = Len(queues)
             /\ \A m \in 1 .. Len(queues) : queues'[m].items \in Seq(OwnItem(owner[m])')
  <2>1. /\ Len(queues') = Len(queues) /\ queues'[n] = q
        /\ \A m \in 1 .. Len(queues) : m # n => queues'[m] = queues[m]
    BY <1>0, <1>6, QueueEdited
  <2> QED BY <1>5, <1>6, <2>1
<1>7. CASE Submit(r) \/ Breaks(r) \/ Writes(r) \/ Closes(r) \/ ErasesEntry(r)
  <2>1. /\ UNCHANGED <<queues, queue, target>>
        /\ DOMAIN query_to_result' \subseteq DOMAIN query_to_result
        /\ \A id \in DOMAIN query_to_result' : query_to_result'[id] = query_to_result[id]
    BY <1>1, <1>7, SMTT(30) DEF Submit, Breaks, Writes, Closes, ErasesEntry, serviceVars, handlerVars, resultVars,
                      HandlerFrame
  <2>2. TextsMoved(r, stream[r])
    BY <1>7 DEF Submit, Breaks, Writes, Closes, ErasesEntry, serviceVars, handlerVars, TextsMoved
  <2>3. OwnQueues(owner)'
    BY <1>4, <1>5, <2>1 DEF OwnQueues, Owns
  <2> QED BY <1>2, <1>3, <2>1, <2>2, <2>3
<1>8. CASE FindQueue(r)
  <2>1. /\ UNCHANGED <<queues, query_to_result, target>> /\ TextsMoved(r, stream[r])
        /\ queue' = [queue EXCEPT ![r] = query_to_result[handle[r]]]
        /\ handle[r] \in DOMAIN query_to_result /\ call[r] = "accepted"
        /\ handle' = handle /\ call' = call
    BY <1>1, <1>8 DEF FindQueue, resultVars, HandlerFrame, TextsMoved, vars
  <2>2. owner[query_to_result[handle[r]]] = handle[r]
    BY <2>1 DEF OwnQueues
  <2>3. \A o \in Requests : queue'[o] # 0 => call'[o] \in Submitted /\ handle'[o] = owner[queue'[o]]
    BY <1>0, <1>4, <2>1, <2>2 DEF HandlersOK, Submitted
  <2>4. OwnQueues(owner)'
    BY <1>5, <2>1, <2>3 DEF OwnQueues, Owns
  <2> QED BY <1>2, <1>3, <2>1, <2>4
<1>9. CASE TakesEnd(r) \/ RunsOutOfTime(r)
  <2>1. /\ UNCHANGED <<queue, query_to_result, target>> /\ TextsMoved(r, stream[r])
        /\ queues' = [queues EXCEPT ![queue[r]] = Freed] /\ conn[r] = "reading"
    BY <1>1, <1>9 DEF TakesEnd, RunsOutOfTime, HandlerFrame, HasItem
  <2>2. queue[r] \in 1 .. Len(queues) /\ Freed \in QueueType
    BY <1>0, <2>1, QueueOfReader, EmptySeq DEF Freed, QueueType
  <2>n. PICK n \in 1 .. Len(queues) : n = queue[r]
    BY <2>2
  <2>f. Freed.items \in Seq(OwnItem(owner[n])') /\ queues' = [queues EXCEPT ![n] = Freed]
    BY <2>1, <2>n, EmptySeq DEF Freed
  <2>3. /\ Len(queues') = Len(queues)
        /\ \A m \in 1 .. Len(queues) : queues'[m].items \in Seq(OwnItem(owner[m])')
    BY <1>6, <2>2, <2>f
  <2>4. OwnQueues(owner)'
    BY <1>4, <2>1, <2>3 DEF OwnQueues, Owns
  <2> QED BY <1>2, <1>3, <2>1, <2>3, <2>4
<1>10. CASE TakesToken(r)
  <2> DEFINE q == [freed |-> FALSE, items |-> Tail(queues[queue[r]].items)]
  <2>1. /\ queue[r] \in 1 .. Len(queues) /\ HeadItem(r) \in Item
        /\ Tail(queues[queue[r]].items) \in Seq(Item) /\ queues[queue[r]].items # <<>>
    BY <1>0, <1>10, ItemTaken DEF TakesToken, HasItem
  <2>n. PICK n \in 1 .. Len(queues) : n = queue[r]
    BY <2>1
  <2>2. /\ q \in QueueType /\ q.items = Tail(queues[n].items)
        /\ queues' = [queues EXCEPT ![n] = q]
    BY <1>10, <2>1, <2>n DEF QueueType, TakesToken
  <2>a. Tail(queues[n].items) \in Seq(OwnItem(owner[n])')
    BY <1>5, <2>1, <2>n, HeadTailProperties
  <2> HIDE DEF q
  <2>3. /\ Len(queues') = Len(queues)
        /\ \A m \in 1 .. Len(queues) : queues'[m].items \in Seq(OwnItem(owner[m])')
    BY <1>6, <2>2, <2>a
  <2>4. /\ UNCHANGED <<queue, query_to_result, target>>
        /\ TextsMoved(r, Append(stream[r], HeadToken(r)))
    BY <1>1, <1>10 DEF TakesToken, HandlerFrame
  <2>5. OwnQueues(owner)'
    BY <1>4, <2>3, <2>4 DEF OwnQueues, Owns
  <2>6. HeadItem(r) \in OwnItem(owner[queue[r]])
    <3>1. queues[queue[r]].items \in Seq(OwnItem(owner[queue[r]]))
      BY <2>1 DEF OwnQueues
    <3> QED BY <2>1, <3>1, HeadTailProperties DEF HeadItem
  <2>7. Owns(HeadItem(r).req, owner[queue[r]]) /\ Owns(r, owner[queue[r]]) /\ queue[r] # 0
    <3>1. queue[r] # 0
      BY <2>1
    <3> QED BY <2>6, <3>1 DEF OwnItem, OwnQueues
  <2>8. HeadItem(r).req \in Requests /\ HeadItem(r).pos \in Nat
    BY <2>1 DEF Item
  <2>9. HeadItem(r).req = r
    BY <2>7, <2>8 DEF Owns, IdsUnique
  <2>10. HeadToken(r) \in OwnToken(r)
    BY <2>8, <2>9 DEF HeadToken, OwnToken
  <2>11. Append(stream[r], HeadToken(r)) \in Seq(OwnToken(r))
    BY <1>3, <2>10, AppendProperties
  <2> QED BY <1>2, <2>3, <2>4, <2>5, <2>11
<1> QED BY <1>1, <1>7, <1>8, <1>9, <1>10

(* The steps of Infer: a new queue belongs to the id it is made for, and an *)
(* item goes to the queue of its own id.                                    *)
LEMMA InferOwns ==
  ASSUME ServiceInv, OwnTexts, AnyStep, InferStep,
         NEW owner \in [1 .. Len(queues) -> QueryIds], OwnQueues(owner)
  PROVE  OwnTexts' /\ \E o \in [1 .. Len(queues') -> QueryIds] : OwnQueues(o)'
<1>0. /\ DeliveryOK /\ QueuesOK /\ TextsOK /\ HandlersOK /\ HistoryOK
      /\ LocalTypeOK /\ HandleInv
  BY DEF ServiceInv, ServiceOK, EngineInv
<1>1. UNCHANGED <<queue, stream, chunk, reply>>
  BY DEF InferStep, Infer_Round, Infer_Sample, Infer_FindQueue, Infer_Emplace, Infer_Commit,
         serviceVars, handlerVars
<1>2. OwnTexts'
  BY <1>1 DEF OwnTexts, TextsIn, OwnToken
<1>4. \A r \in Requests : queue[r] # 0 => call'[r] \in Submitted /\ handle'[r] = owner[queue[r]]
  <2>1. \A r \in Requests : \A id : Owns(r, id) => Owns(r, id)'
    BY <1>0, OwnsKept
  <2> QED BY <2>1 DEF OwnQueues, Owns
<1>5. \A n \in 1 .. Len(queues) : queues[n].items \in Seq(OwnItem(owner[n])')
  <2>1. \A id : \A s \in Seq(OwnItem(id)) : s \in Seq(OwnItem(id)')
    BY <1>0, OwnItemKept
  <2> QED BY <2>1 DEF OwnQueues
<1>6. CASE UNCHANGED <<query_to_result, queues>> /\ (target' = target \/ target' = NoTarget)
  <2>1. OwnQueues(owner)'
    BY <1>1, <1>4, <1>5, <1>6 DEF OwnQueues, Owns
  <2> QED BY <1>2, <1>6, <2>1
<1>7. CASE Infer_Round \/ Infer_Sample \/ Infer_Commit
  BY <1>6, <1>7 DEF Infer_Round, Infer_Sample, Infer_Commit, serviceVars, deliveryVars, resultVars
<1>8. ASSUME NEW x \in todo, FindsQueue(x)
      PROVE  \E o \in [1 .. Len(queues') -> QueryIds] : OwnQueues(o)'
  <2>1. /\ UNCHANGED <<query_to_result, queues>> /\ x.id \in DOMAIN query_to_result
        /\ target'.queue = query_to_result[x.id] /\ target'.item = x
    BY <1>8 DEF FindsQueue, resultVars
  <2>2. owner[target'.queue] = target'.item.id
    BY <2>1 DEF OwnQueues
  <2>3. OwnQueues(owner)'
    BY <1>1, <1>4, <1>5, <2>1, <2>2 DEF OwnQueues, Owns
  <2> QED BY <2>1, <2>3
<1>9. ASSUME NEW x \in todo, MakesQueue(x)
      PROVE  \E o \in [1 .. Len(queues') -> QueryIds] : OwnQueues(o)'
  <2> DEFINE o == [n \in 1 .. Len(queues') |-> IF n = Len(queues) + 1 THEN x.id ELSE owner[n]]
  <2>1. x.id \in QueryIds
    BY <1>0 DEF DeliveryOK, LocalTypeOK
  <2>2. /\ Len(queues) \in Nat /\ Len(queues') = Len(queues) + 1
        /\ queues'[Len(queues) + 1].items = <<>>
        /\ \A m \in 1 .. Len(queues) : queues'[m] = queues[m]
    BY <1>0, <1>9, QueueAdded DEF MakesQueue, NewQueue
  <2>3. /\ o \in [1 .. Len(queues') -> QueryIds] /\ o[Len(queues) + 1] = x.id
        /\ \A n \in 1 .. Len(queues) : o[n] = owner[n]
    BY <2>1, <2>2
  <2> HIDE DEF o
  <2>4. /\ query_to_result' = [id \in DOMAIN query_to_result \cup {x.id} |->
                                 IF id = x.id THEN Len(queues) + 1 ELSE query_to_result[id]]
        /\ target'.queue = Len(queues) + 1 /\ target'.item = x
    BY <1>9 DEF MakesQueue
  <2>5. \A id \in DOMAIN query_to_result' : o[query_to_result'[id]] = id
    BY <1>0, <2>3, <2>4 DEF OwnQueues, DeliveryOK
  <2>6. o[target'.queue] = target'.item.id
    BY <2>3, <2>4
  <2>7. \A r \in Requests : queue[r] # 0 => queue[r] \in 1 .. Len(queues)
    BY <1>0, <2>2 DEF HandlersOK
  <2>8. \A r \in Requests : queue'[r] # 0 => call'[r] \in Submitted /\ handle'[r] = o[queue'[r]]
    BY <1>1, <1>4, <2>3, <2>7
  <2> PICK w \in [1 .. Len(queues') -> QueryIds] : w = o
    BY <2>3
  <2>9. \A n \in 1 .. Len(queues') : queues'[n].items \in Seq(OwnItem(w[n])')
    <3> SUFFICES ASSUME NEW n \in 1 .. Len(queues') PROVE queues'[n].items \in Seq(OwnItem(w[n])')
      OBVIOUS
    <3>1. CASE n = Len(queues) + 1
      BY <2>2, <3>1, EmptySeq
    <3>2. CASE n \in 1 .. Len(queues)
      <4>1. w[n] = owner[n] /\ queues'[n] = queues[n]
        BY <2>2, <2>3, <3>2
      <4> PICK id : id = owner[n]
        OBVIOUS
      <4>2. queues[n].items \in Seq(OwnItem(id)')
        BY <1>5, <3>2
      <4> QED BY <4>1, <4>2
    <3> QED BY <2>2, <3>1, <3>2
  <2>10. OwnQueues(w)'
    BY <2>5, <2>6, <2>8, <2>9 DEF OwnQueues, Owns
  <2> QED BY <2>10
<1>10. CASE EmplaceItem
  <2>1. /\ target.queue \in 1 .. Len(queues) /\ target.item \in results
        /\ QueryResult(target.item) \in Item
        /\ queues[target.queue].items \in Seq(Item)
        /\ Append(queues[target.queue].items, QueryResult(target.item)) \in Seq(Item)
    BY <1>0, <1>10, ItemEmplaced DEF EmplaceItem, QueueType
  <2> PICK n \in 1 .. Len(queues) : n = target.queue
    BY <2>1
  <2>q. PICK q : q = [freed |-> FALSE, items |-> Append(queues[n].items, QueryResult(target.item))]
    OBVIOUS
  <2>2. /\ queues' = [queues EXCEPT ![n] = q] /\ q \in QueueType
        /\ q.items = Append(queues[n].items, QueryResult(target.item))
    BY <1>10, <2>1, <2>q DEF EmplaceItem, QueueType
  <2>3. /\ Len(queues') = Len(queues) /\ queues'[n] = q
        /\ \A m \in 1 .. Len(queues) : m # n => queues'[m] = queues[m]
    BY <1>0, <2>2, QueueEdited
  <2>4. Owns(target.item.req, target.item.id) /\ owner[n] = target.item.id
    BY <1>0, <1>10, <2>1 DEF HandleInv, OwnQueues, EmplaceItem
  <2>5. UNCHANGED <<call, handle, query_to_result>> /\ target' = NoTarget
    BY <1>10 DEF EmplaceItem, vars
  <2>6. QueryResult(target.item).req = target.item.req
    BY DEF QueryResult
  <2>7. QueryResult(target.item) \in OwnItem(owner[n])
    BY <2>1, <2>4, <2>6 DEF OwnItem
  <2>8. OwnItem(owner[n])' = OwnItem(owner[n])
    BY <2>5 DEF OwnItem, Owns
  <2>9. q.items \in Seq(OwnItem(owner[n])')
    BY <1>5, <2>2, <2>7, <2>8, AppendProperties
  <2>10. \A m \in 1 .. Len(queues') : queues'[m].items \in Seq(OwnItem(owner[m])')
    BY <1>5, <2>3, <2>9
  <2>11. OwnQueues(owner)'
    BY <1>1, <1>4, <2>5, <2>10 DEF OwnQueues, Owns
  <2> QED BY <1>2, <2>3, <2>11
<1>11. CASE Infer_Emplace
  <2>1. CASE /\ Broken /\ target' = NoTarget
             /\ UNCHANGED <<todo, resultVars, handlerVars, historyVars>>
    BY <1>6, <2>1 DEF resultVars
  <2> QED BY <1>0, <1>10, <1>11, <2>1, EmplaceCases
<1> QED BY <1>0, <1>2, <1>7, <1>8, <1>9, <1>11, FindQueueCases DEF InferStep

(* There are no queues in the beginning.                                    *)
LEMMA OwnInvInit == ServiceInit => OwnInv /\ IdsUnique
<1> SUFFICES ASSUME ServiceInit PROVE OwnInv /\ IdsUnique
  OBVIOUS
<1>1. OwnTexts
  BY EmptySeq DEF ServiceInit, OwnTexts, TextsIn, NoReply
<1>2. Len(queues) = 0
  BY EmptySeq DEF ServiceInit
<1>3. PICK owner : owner = [n \in 1 .. Len(queues) |-> 1]
  OBVIOUS
<1>4. owner \in [1 .. Len(queues) -> QueryIds] /\ OwnQueues(owner)
  BY <1>2, <1>3 DEF ServiceInit, OwnQueues
<1>5. IdsUnique
  BY DEF ServiceInit, Init, TableInit, IdsUnique, Submitted
<1> QED BY <1>1, <1>4, <1>5 DEF OwnInv

(* Every step keeps queues and texts their owners'.                         *)
LEMMA OwnInvStep ==
  ASSUME ServiceInv, OwnInv, IdsUnique, [ServiceNext]_allVars
  PROVE  OwnInv'
<1>1. PICK owner \in [1 .. Len(queues) -> QueryIds] : OwnQueues(owner)
  BY DEF OwnInv
<1>2. AnyStep /\ OwnTexts
  BY EngineSide DEF OwnInv
<1>3. CASE UNCHANGED allVars
  <2>1. UNCHANGED <<call, handle, queues, queue, query_to_result, target, stream, chunk, reply>>
    BY <1>3 DEF allVars, vars, serviceVars, deliveryVars, resultVars, handlerVars
  <2>2. OwnQueues(owner)'
    BY <1>1, <2>1 DEF OwnQueues, Owns, OwnItem
  <2>3. OwnTexts'
    BY <1>2, <2>1 DEF OwnTexts, TextsIn, OwnToken
  <2> QED BY <2>1, <2>2, <2>3 DEF OwnInv
<1>4. CASE InferStep
  BY <1>1, <1>2, <1>4, InferOwns DEF OwnInv
<1>5. ASSUME NEW r \in Requests, HandlerStep(r) \/ Mishap(r) PROVE OwnInv'
  BY <1>1, <1>2, <1>5, HandlerOwns DEF OwnInv
<1> QED BY <1>3, <1>4, <1>5 DEF ServiceNext, Quiet

(* As long as no id is given out twice, no client is shown a token of       *)
(* another client's text: not after handlers gave up, ran out of time or    *)
(* lost their client, and not when queues stayed behind in the map.         *)
THEOREM OwnTextProved == ServiceSpec /\ []NoIdReused => []OwnTextOnly
<1>1. OwnInv /\ ServiceInv => OwnTextOnly
  <2> SUFFICES ASSUME OwnInv, ServiceInv, NEW r \in Requests, NEW i \in DOMAIN reply[r].text
               PROVE  reply[r].text[i].req = r
    BY DEF OwnTextOnly
  <2>1. reply[r].text \in Seq(OwnToken(r))
    BY DEF OwnInv, OwnTexts, TextsIn
  <2>2. reply[r].text[i] \in OwnToken(r)
    BY <2>1, LenProperties, ElementOfSeq
  <2> QED BY <2>2 DEF OwnToken
<1>2. ServiceInv /\ OwnInv /\ IdsUnique /\ NoIdReused' /\ [ServiceNext]_allVars
        => ServiceInv' /\ OwnInv' /\ IdsUnique'
  BY ServiceInvStep, OwnInvStep, IdsUniqueStep, EngineSide DEF ServiceInv
<1> QED BY <1>1, <1>2, ServiceInvInit, OwnInvInit, PTL DEF ServiceSpec

-----------------------------------------------------------------------------
(* Without mishaps: no handler gives up, none waits too long, no client     *)
(* goes away, every layer is computed.  For decoder-only networks.          *)
Mishapless ==
  NetType = "decoder_only" /\ ~ MayGiveUp /\ ~ MayTimeout /\ ~ MayFailWrite /\ ~ MayFailCompute

(* What the engine has in hand is live and has not ended, except queries    *)
(* whose end was delivered and which this round's commit removes.           *)
RoundClean ==
  /\ \A x, y \in results : x.id = y.id => x = y
  /\ \A t \in saturated : t.pass = 1
  /\ dangling = {}
  /\ \A b \in batch : b.id \in DOMAIN query_map
  /\ DOMAIN sampler = DOMAIN query_map
  /\ target # NoTarget => target.item \notin todo /\ target.item.req \notin over
  /\ \A x \in todo : x.req \notin over
  /\ \A r \in over : call[r] \in Submitted
  /\ \A id \in DOMAIN query_map : query_map[id].req \in over => phase = "deliver" /\ id \in EndedIds
  /\ phase # "deliver" => \A b \in batch : b.state.req \notin over

(* A handler past the end of its text.                                      *)
Ending == {"erasing", "writing_last", "finishing", "closed"}

(* A queue is deleted by the handler of a request whose end was enqueued,   *)
(* and until then it is in the map.                                         *)
QueuesClean ==
  /\ \A n \in 1 .. Len(queues) : \A i \in 1 .. Len(queues[n].items) :
       queues[n].items[i].is_end => queues[n].items[i].req \in over
  /\ \A n \in 1 .. Len(queues) :
       IF queues[n].freed THEN \E r \in over : queue[r] = n /\ conn[r] \in Ending
       ELSE \E id \in DOMAIN query_to_result : query_to_result[id] = n
  /\ \A r \in Requests : conn[r] = "erasing" => queues[queue[r]].freed

(* A handler is past the end only after the end was enqueued, and its map   *)
(* entry is there exactly until it erases it.                               *)
HandlersClean ==
  /\ \A r \in Requests : call[r] \in Submitted /\ conn[r] \in Ending => r \in over
  /\ \A r \in Requests : conn[r] \in {"reading", "writing", "erasing"} =>
       handle[r] \in DOMAIN query_to_result /\ query_to_result[handle[r]] = queue[r]
  /\ \A id \in DOMAIN query_to_result : \E r \in Requests : Owns(r, id)
  /\ \A r \in Requests : call[r] \in Submitted /\ handle[r] \in DOMAIN query_to_result =>
       conn[r] \in {"new", "reading", "writing", "erasing"}

(* The invariant without mishaps.                                           *)
CleanInv == ~ undefined /\ RoundClean /\ QueuesClean /\ HandlersClean

(* What holds with mishaps as well.                                         *)
KnownInv == ServiceInv /\ DecoderInv /\ OwnInv /\ IdsUnique

(* A queue is read by one handler only, and what is in it or on its way to  *)
(* it is text of that handler's request.                                    *)
LEMMA QueueIsOwn ==
  ASSUME KnownInv, NEW r \in Requests, queue[r] # 0
  PROVE  /\ \A s \in Requests : queue[s] = queue[r] => s = r
         /\ call[r] \in Submitted
         /\ target # NoTarget /\ target.queue = queue[r] => target.item.req = r
         /\ HasItem(r) => HeadItem(r).req = r
<1>0. /\ DeliveryOK /\ QueuesOK /\ HandlersOK /\ LocalTypeOK /\ HandleInv /\ IdsUnique
  BY DEF KnownInv, ServiceInv, ServiceOK, EngineInv
<1>1. PICK owner \in [1 .. Len(queues) -> QueryIds] : OwnQueues(owner)
  BY DEF KnownInv, OwnInv
<1>2. Owns(r, owner[queue[r]])
  BY <1>1 DEF OwnQueues
<1>3. \A s \in Requests : Owns(s, owner[queue[r]]) => s = r
  BY <1>0, <1>2 DEF Owns, IdsUnique
<1>4. \A s \in Requests : queue[s] = queue[r] => s = r
  BY <1>1, <1>3 DEF OwnQueues
<1>5. target # NoTarget /\ target.queue = queue[r] => target.item.req = r
  <2> SUFFICES ASSUME target # NoTarget, target.queue = queue[r] PROVE target.item.req = r
    OBVIOUS
  <2>1. target.item \in results /\ owner[queue[r]] = target.item.id
    BY <1>0, <1>1 DEF DeliveryOK, OwnQueues
  <2>2. target.item.req \in Requests /\ Owns(target.item.req, target.item.id)
    BY <1>0, <2>1 DEF LocalTypeOK, HandleInv
  <2> QED BY <1>3, <2>1, <2>2
<1>6. HasItem(r) => HeadItem(r).req = r
  <2> SUFFICES ASSUME HasItem(r) PROVE HeadItem(r).req = r
    OBVIOUS
  <2>1. queue[r] \in 1 .. Len(queues) /\ HeadItem(r) \in Item /\ queues[queue[r]].items # <<>>
    BY <1>0, ItemTaken DEF HasItem
  <2>2. queues[queue[r]].items \in Seq(OwnItem(owner[queue[r]]))
    BY <1>1, <2>1 DEF OwnQueues
  <2>3. HeadItem(r) \in OwnItem(owner[queue[r]])
    BY <2>1, <2>2, HeadTailProperties DEF HeadItem
  <2>4. HeadItem(r).req \in Requests /\ Owns(HeadItem(r).req, owner[queue[r]])
    BY <2>1, <2>3 DEF OwnItem, Item
  <2> QED BY <1>3, <2>4
<1> QED BY <1>2, <1>4, <1>5, <1>6 DEF Owns

(* The closing of a request that was refused, and of a stream.              *)
ClosesClean(r) ==
  /\ \/ conn[r] = "new" /\ call[r] \in {"none", "busy", "error"}
     \/ conn[r] = "finishing"
  /\ Moves(r, {"closed"})
  /\ UNCHANGED <<vars, resultVars, queue>>

(* The other steps of a handler without mishaps.                            *)
HandlerClean(r) ==
  /\ HandlerFrame /\ UNCHANGED vars
  /\ \/ FindQueue(r) \/ TakesEnd(r) \/ TakesToken(r) \/ ErasesEntry(r) \/ Writes(r) \/ ClosesClean(r)

(* A handler's calls of AddQuery.                                           *)
SubmitClean(r) ==
  /\ conn[r] = "new" /\ UNCHANGED <<serviceVars, undefined, dangling>>
  /\ \/ CallOnly(r)
     \/ \E enc \in EncLens, dec \in DecLens, limit \in OutLimits : AddQuery_Add(r, enc, dec, limit)

(* The engine's part of Infer, no pointer being left to a deleted state.    *)
RoundStepClean ==
  /\ FetchBatch \/ ReadBatch \/ Compute
  /\ UNCHANGED serviceVars

(* Infer finds the queue it has a pointer to, and follows no pointer to a   *)
(* deleted state.                                                           *)
LEMMA InferCleanSteps ==
  ASSUME Mishapless, KnownInv, CleanInv, InferStep
  PROVE  \/ RoundStepClean \/ Infer_Sample \/ Infer_Commit
         \/ \E x \in todo : FindsQueue(x) \/ MakesQueue(x)
         \/ EmplaceItem
<1>0. /\ DeliveryOK /\ QueuesOK /\ HandlersOK /\ RoundClean /\ QueuesClean
      /\ over \subseteq Requests
  BY DEF KnownInv, CleanInv, ServiceInv, ServiceOK, HistoryOK
<1>1. CASE Infer_Round
  <2>1. ~ FollowDangling
    BY <1>0 DEF FollowDangling, RoundClean
  <2>2. ~ ComputeFails
    BY DEF ComputeFails, Mishapless
  <2> QED BY <1>1, <2>1, <2>2 DEF Infer_Round, RoundStepClean
<1>2. CASE Infer_Emplace
  <2>1. ASSUME target # NoTarget, queues[target.queue].freed PROVE FALSE
    <3>1. target.queue \in 1 .. Len(queues)
      BY <1>0, <2>1 DEF DeliveryOK
    <3>2. PICK r \in over : queue[r] = target.queue
      BY <1>0, <2>1, <3>1 DEF QueuesClean
    <3>3. r \in Requests /\ queue[r] # 0
      BY <1>0, <3>1, <3>2
    <3>4. target.item.req = r
      BY <2>1, <3>2, <3>3, QueueIsOwn
    <3> QED BY <1>0, <2>1, <3>4 DEF RoundClean
  <2> QED BY <1>0, <1>2, <2>1, EmplaceCases
<1>3. CASE Infer_FindQueue
  BY <1>0, <1>3, FindQueueCases
<1> QED BY <1>1, <1>2, <1>3 DEF InferStep

(* Nothing undefined can happen: these are all the steps.                   *)
LEMMA CleanSteps ==
  ASSUME Mishapless, KnownInv, CleanInv, [ServiceNext]_allVars
  PROVE  \/ UNCHANGED allVars \/ RoundStepClean \/ Infer_Sample \/ Infer_Commit
         \/ \E x \in todo : FindsQueue(x) \/ MakesQueue(x)
         \/ EmplaceItem
         \/ \E r \in Requests : SubmitClean(r) \/ HandlerClean(r)
<1>0. /\ DeliveryOK /\ QueuesOK /\ HandlersOK /\ RoundClean /\ QueuesClean /\ HandlersClean
      /\ over \subseteq Requests
  BY DEF KnownInv, CleanInv, ServiceInv, ServiceOK, HistoryOK
<1>1. CASE InferStep
  BY <1>1, InferCleanSteps
<1>2. ASSUME NEW r \in Requests, HandlerStep(r) \/ Mishap(r)
      PROVE  SubmitClean(r) \/ HandlerClean(r)
  <2>1. /\ HandlerFrame
        /\ \/ Submit(r) \/ FindQueue(r) \/ TakesEnd(r) \/ TakesToken(r) \/ ErasesEntry(r)
           \/ RunsOutOfTime(r) \/ Writes(r) \/ Closes(r) \/ Breaks(r)
    BY <1>0, <1>2, HandlerCases
  <2>2. ~ RunsOutOfTime(r)
    BY DEF RunsOutOfTime, Mishapless
  <2>3. ASSUME Closes(r) PROVE ClosesClean(r)
    BY <2>3 DEF Closes, ClosesClean, Mishapless
  <2>4. ~ Breaks(r)
    <3>1. ASSUME conn[r] = "reading", queues[queue[r]].freed PROVE FALSE
      <4>1. queue[r] \in 1 .. Len(queues)
        BY <1>0, <3>1, QueueOfReader
      <4>2. PICK s \in over : queue[s] = queue[r] /\ conn[s] \in Ending
        BY <1>0, <3>1, <4>1 DEF QueuesClean
      <4>3. queue[r] # 0 /\ s \in Requests
        BY <1>0, <4>1
      <4>4. s = r
        BY <4>2, <4>3, QueueIsOwn
      <4> QED BY <3>1, <4>2, <4>4 DEF Ending
    <3>2. ASSUME conn[r] = "erasing" PROVE \E id \in DOMAIN query_to_result : query_to_result[id] = queue[r]
      BY <1>0, <3>2 DEF HandlersClean
    <3> QED BY <3>1, <3>2 DEF Breaks
  <2>5. ASSUME Submit(r) PROVE SubmitClean(r)
    <3>1. ASSUME AddQuery_Check(r) \/ AddQuery_Invalid(r) \/ AddQuery_Full(r) PROVE CallOnly(r)
      BY <3>1 DEF AddQuery_Check, AddQuery_Invalid, AddQuery_Full, CallOnly, engineVars, localVars
    <3>2. undefined' = undefined /\ dangling' = dangling
      BY <2>5 DEF Submit, AddQuery_Check, AddQuery_Invalid, AddQuery_Full, AddQuery_Add
    <3> QED BY <2>5, <3>1, <3>2 DEF Submit, SubmitClean
  <2> QED BY <2>1, <2>2, <2>3, <2>4, <2>5 DEF HandlerClean, FindQueue, TakesEnd, TakesToken, ErasesEntry,
                                             Writes, ClosesClean
<1>3. CASE UNCHANGED allVars \/ Quiet
  BY <1>3 DEF Quiet
<1> QED BY <1>1, <1>2, <1>3 DEF ServiceNext

(* The queries of the result: each is from a pointer of the batch, and each *)
(* has one item only.                                                       *)
LEMMA ResultsFromBatch ==
  ASSUME RoundShape, \A t \in saturated : t.pass = 1, NEW eos, saturated \subseteq [id : QueryIds, req : Requests, pass : {1, 2}]
  PROVE  /\ \A x \in SampleResults(eos) : \E b \in batch : x.id = b.id /\ x.req = b.state.req
         /\ \A x, y \in SampleResults(eos) : x.id = y.id => x = y
<1>1. \A x \in SampleResults(eos) :
        \/ \E q \in input.queries : x = SampleToken(q, q.id \in eos)
        \/ \E t \in saturated :
             x = [id |-> t.id, req |-> t.req, prefix_len |-> MaxContextLen, eos |-> TRUE, pass |-> t.pass]
  BY DEF SampleResults
<1>2. \A q \in input.queries : \E b \in batch :
        q.id = b.id /\ q.req = b.state.req /\ q = ProcInput(b) /\ ~ IsSaturated(b.state)
  BY DEF RoundShape, ProcInput
<1>3. \A t \in saturated : \E b \in batch :
        t.id = b.id /\ t.req = b.state.req /\ t.pass = 1 /\ IsSaturated(b.state)
  BY DEF RoundShape
<1>4. \A a, b \in batch : a.id = b.id => a = b
  BY DEF RoundShape
<1> DEFINE ItemOf(b) ==
      IF IsSaturated(b.state)
      THEN [id |-> b.id, req |-> b.state.req, prefix_len |-> MaxContextLen, eos |-> TRUE, pass |-> 1]
      ELSE SampleToken(ProcInput(b), b.id \in eos)
<1>5. ASSUME NEW x \in SampleResults(eos)
      PROVE  \E b \in batch : x.id = b.id /\ x.req = b.state.req /\ x = ItemOf(b)
  <2>1. CASE \E q \in input.queries : x = SampleToken(q, q.id \in eos)
    <3>1. PICK q \in input.queries : x = SampleToken(q, q.id \in eos)
      BY <2>1
    <3>2. PICK b \in batch : q.id = b.id /\ q.req = b.state.req /\ q = ProcInput(b) /\ ~ IsSaturated(b.state)
      BY <1>2
    <3>3. x.id = q.id /\ x.req = q.req
      BY <3>1 DEF SampleToken
    <3>4. x = SampleToken(ProcInput(b), b.id \in eos)
      BY <3>1, <3>2
    <3> QED BY <3>2, <3>3, <3>4
  <2>2. CASE \E t \in saturated :
               x = [id |-> t.id, req |-> t.req, prefix_len |-> MaxContextLen, eos |-> TRUE, pass |-> t.pass]
    <3>1. PICK t \in saturated :
            x = [id |-> t.id, req |-> t.req, prefix_len |-> MaxContextLen, eos |-> TRUE, pass |-> t.pass]
      BY <2>2
    <3>2. PICK b \in batch : t.id = b.id /\ t.req = b.state.req /\ t.pass = 1 /\ IsSaturated(b.state)
      BY <1>3
    <3>3. x = [id |-> b.id, req |-> b.state.req, prefix_len |-> MaxContextLen, eos |-> TRUE, pass |-> 1]
      BY <3>1, <3>2
    <3>4. x.id = b.id /\ x.req = b.state.req
      BY <3>3
    <3> QED BY <3>2, <3>3, <3>4
  <2> QED BY <1>1, <2>1, <2>2
<1> HIDE DEF ItemOf
<1>6. ASSUME NEW x \in SampleResults(eos), NEW y \in SampleResults(eos), x.id = y.id
      PROVE  x = y
  <2>1. PICK a \in batch : x.id = a.id /\ x = ItemOf(a)
    BY <1>5
  <2>2. PICK b \in batch : y.id = b.id /\ y = ItemOf(b)
    BY <1>5
  <2>3. a = b
    BY <1>4, <1>6, <2>1, <2>2
  <2> QED BY <2>1, <2>2, <2>3
<1> QED BY <1>5, <1>6

(* Steps that change neither the round nor the table.                       *)
LEMMA RoundCleanFrame ==
  ASSUME RoundClean,
         UNCHANGED <<query_map, results, saturated, dangling, batch, sampler, target, todo, over, phase>>,
         \A r \in over : call[r] \in Submitted => call'[r] \in Submitted
  PROVE  RoundClean'
BY DEF RoundClean, EndedIds

(* Every step keeps the round clean.                                        *)
LEMMA RoundCleanStep ==
  ASSUME Mishapless, KnownInv, CleanInv, [ServiceNext]_allVars
  PROVE  RoundClean'
<1>0. /\ RoundClean /\ RoundShape /\ DeliveryOK /\ QueuesOK /\ LocalTypeOK /\ HandleInv /\ IdsUnique /\ TableTypeOK
      /\ over \subseteq Requests
  BY DEF KnownInv, CleanInv, ServiceInv, ServiceOK, HistoryOK, EngineInv, TableInv, DecoderInv
<1>a. AnyStep
  BY EngineSide
<1>1. \A r \in over : call[r] \in Submitted => call'[r] \in Submitted
  <2>1. \A r \in Requests : \A id : Owns(r, id) => Owns(r, id)'
    BY <1>0, <1>a, OwnsKept
  <2> QED BY <1>0, <2>1 DEF Owns
<1>2. CASE UNCHANGED allVars \/ \E r \in Requests : HandlerClean(r)
  <2>1. UNCHANGED <<query_map, results, saturated, dangling, batch, sampler, target, todo, over, phase>>
    BY <1>2 DEF allVars, vars, serviceVars, deliveryVars, historyVars, HandlerClean, HandlerFrame
  <2> QED BY <1>0, <1>1, <2>1, RoundCleanFrame
<1>3. CASE \E r \in Requests : CallOnly(r) /\ UNCHANGED serviceVars
  <2>1. UNCHANGED <<query_map, results, saturated, dangling, batch, sampler, target, todo, over, phase>>
    BY <1>3 DEF serviceVars, deliveryVars, historyVars, CallOnly, tableVars, localVars
  <2> QED BY <1>0, <1>1, <2>1, RoundCleanFrame
<1>4. ASSUME NEW r \in Requests, NEW enc \in EncLens, NEW dec \in DecLens, NEW limit \in OutLimits,
             AddQuery_Add(r, enc, dec, limit), UNCHANGED serviceVars
      PROVE  RoundClean'
  <2>1. PICK p \in 0 .. MaxProcId : Add(r, enc, dec, limit, p)
    BY <1>4 DEF AddQuery_Add
  <2>2. UNCHANGED <<results, saturated, dangling, batch, target, todo, over, phase>>
    BY <1>4 DEF AddQuery_Add, engineVars, serviceVars, deliveryVars, historyVars
  <2>3. /\ DOMAIN query_map' = DOMAIN query_map \cup {next_query_id}
        /\ DOMAIN sampler' = DOMAIN sampler \cup {next_query_id}
        /\ \A id \in DOMAIN query_map' :
             IF id = next_query_id THEN query_map'[id].req = r ELSE query_map'[id] = query_map[id]
    BY <1>4, <2>1 DEF AddQuery_Add, Add, NewState, BeginQuery
  <2>4. r \notin over
    BY <1>0, <1>4 DEF RoundClean, AddQuery_Add, Submitted
  <2> QED BY <1>0, <1>1, <2>2, <2>3, <2>4 DEF RoundClean, EndedIds
<1>5. CASE FetchBatch /\ UNCHANGED serviceVars
  <2>1. /\ UNCHANGED <<query_map, results, saturated, sampler, target, todo, over, call>> /\ dangling' = {}
        /\ phase # "deliver" /\ phase' # "deliver"
    BY <1>5 DEF FetchBatch, tableVars, apiVars, serviceVars, deliveryVars, historyVars
  <2>2. \A b \in batch' : b.id \in DOMAIN query_map /\ b.state = query_map[b.id]
    BY <1>5, FetchedPointers
  <2> QED BY <1>0, <2>1, <2>2 DEF RoundClean
<1>6. CASE ReadBatch /\ UNCHANGED serviceVars
  <2>1. /\ UNCHANGED <<query_map, results, dangling, batch, sampler, target, todo, over, call>>
        /\ phase = "read" /\ phase' # "deliver"
    BY <1>0, <1>6 DEF ReadBatch, RoundShape, tableVars, apiVars, serviceVars, deliveryVars, historyVars
  <2>2. \A t \in saturated' : t.pass = 1
    BY <1>0, <1>6, <2>1 DEF ReadBatch, RoundClean
  <2> QED BY <1>0, <2>1, <2>2 DEF RoundClean
<1>7. CASE Compute /\ UNCHANGED serviceVars
  <2>1. /\ UNCHANGED <<query_map, results, saturated, batch, target, todo, over, call>>
        /\ phase = "compute" /\ phase' = "sample"
    BY <1>0, <1>7, DecoderTable DEF Mishapless, tableVars, serviceVars, deliveryVars, historyVars
  <2>2. UNCHANGED <<dangling, sampler>>
    BY <1>7 DEF Compute, localVars
  <2> QED BY <1>0, <2>1, <2>2 DEF RoundClean
<1>8. CASE Infer_Sample
  <2>1. PICK eos : results' = SampleResults(eos)
    BY <1>8 DEF Infer_Sample, Sample
  <2>2. /\ \A x \in results' : \E b \in batch : x.id = b.id /\ x.req = b.state.req
        /\ \A x, y \in results' : x.id = y.id => x = y
    BY <1>0, <2>1, ResultsFromBatch DEF RoundClean, LocalTypeOK
  <2>3. /\ UNCHANGED <<query_map, saturated, dangling, batch, target, over, call>> /\ todo' = results'
        /\ phase = "sample" /\ phase' = "deliver"
    BY <1>8 DEF Infer_Sample, Sample, tableVars, apiVars, historyVars
  <2>4. target = NoTarget
    BY <1>0, <2>3 DEF DeliveryOK
  <2>5. DOMAIN sampler' = DOMAIN query_map
    <3>1. DOMAIN sampler' = DOMAIN sampler \cup {q.id : q \in input.queries}
      BY <1>8 DEF Infer_Sample, Sample
    <3>2. \A q \in input.queries : q.id \in DOMAIN query_map
      BY <1>0 DEF RoundShape, RoundClean, ProcInput
    <3> QED BY <1>0, <3>1, <3>2 DEF RoundClean
  <2>6. \A b \in batch : b.state.req \notin over
    BY <1>0, <2>3 DEF RoundClean
  <2>7. \A id \in DOMAIN query_map : query_map[id].req \notin over
    BY <1>0, <2>3 DEF RoundClean
  <2>8. \A x \in todo' : x.req \notin over
    BY <2>2, <2>3, <2>6
  <2> QED BY <1>0, <2>2, <2>3, <2>4, <2>5, <2>7, <2>8 DEF RoundClean
<1>9. CASE Infer_Commit
  <2>1. /\ results' = {} /\ saturated' = {} /\ dangling' = {} /\ batch' = {}
        /\ todo' = {} /\ target' = NoTarget /\ UNCHANGED <<over, call>>
    BY <1>9 DEF Infer_Commit, CommitInferenceResult, serviceVars, deliveryVars, historyVars, apiVars
  <2>2. /\ query_map' = [id \in DOMAIN query_map \ EndedIds |->
                           IF id \in ResultIds THEN Advanced(query_map[id]) ELSE query_map[id]]
        /\ DOMAIN sampler' = DOMAIN sampler \ (EndedIds \cap DOMAIN query_map)
    BY <1>9 DEF Infer_Commit, CommitInferenceResult, Update, EndQuery
  <2>3. \A id \in DOMAIN query_map' :
          id \in DOMAIN query_map /\ id \notin EndedIds /\ query_map'[id].req = query_map[id].req
    <3>1. \A id \in DOMAIN query_map : Advanced(query_map[id]).req = query_map[id].req
      BY <1>0, AdvancedFields DEF TableTypeOK
    <3> QED BY <2>2, <3>1
  <2>4. DOMAIN sampler' = DOMAIN query_map'
    BY <1>0, <2>2 DEF RoundClean
  <2>5. \A id \in DOMAIN query_map' : query_map'[id].req \notin over
    BY <1>0, <2>3 DEF RoundClean
  <2> QED BY <1>0, <2>1, <2>4, <2>5 DEF RoundClean
<1>10. ASSUME NEW x \in todo, FindsQueue(x) \/ MakesQueue(x) PROVE RoundClean'
  <2>1. /\ UNCHANGED <<query_map, results, saturated, dangling, batch, sampler, over, phase, call>>
        /\ todo' = todo \ {x} /\ target'.item = x
    BY <1>10 DEF FindsQueue, MakesQueue, vars, historyVars
  <2> QED BY <1>0, <2>1 DEF RoundClean, EndedIds
<1>11. CASE EmplaceItem
  <2>1. /\ UNCHANGED <<query_map, results, saturated, dangling, batch, sampler, phase, call, todo>>
        /\ target' = NoTarget /\ target # NoTarget
        /\ over' = IF IsEnd(target.item) THEN over \cup {target.item.req} ELSE over
    BY <1>11 DEF EmplaceItem, vars
  <2>2. target.item \in results /\ phase = "deliver" /\ todo \subseteq results
    BY <1>0, <2>1 DEF DeliveryOK
  <2>3. Owns(target.item.req, target.item.id) /\ call[target.item.req] \in Submitted
    BY <1>0, <2>2 DEF HandleInv, Owns
  <2>4. \A y \in todo : y.req # target.item.req
    <3> SUFFICES ASSUME NEW y \in todo, y.req = target.item.req PROVE FALSE
      OBVIOUS
    <3>1. Owns(y.req, y.id)
      BY <1>0, <2>2 DEF HandleInv
    <3>2. y.id = target.item.id
      BY <2>3, <3>1 DEF Owns
    <3>3. y = target.item
      BY <1>0, <2>2, <3>2 DEF RoundClean
    <3> QED BY <1>0, <2>1, <3>3 DEF RoundClean
  <2>5. ASSUME IsEnd(target.item), NEW id \in DOMAIN query_map, query_map[id].req = target.item.req
        PROVE  id \in EndedIds
    <3>1. Owns(query_map[id].req, id)
      BY <1>0 DEF HandleInv
    <3>2. id = target.item.id
      BY <2>3, <2>5, <3>1 DEF Owns
    <3> QED BY <2>2, <2>5, <3>2 DEF EndedIds
  <2>6. EndedIds' = EndedIds
    BY <2>1 DEF EndedIds
  <2>7. \A id \in DOMAIN query_map : query_map[id].req \in over' => id \in EndedIds
    BY <1>0, <2>1, <2>5 DEF RoundClean
  <2> QED BY <1>0, <2>1, <2>2, <2>3, <2>4, <2>6, <2>7 DEF RoundClean
<1> QED BY <1>2, <1>3, <1>4, <1>5, <1>6, <1>7, <1>8, <1>9, <1>10, <1>11, CleanSteps
        DEF RoundStepClean, SubmitClean

(* A handler that takes an end takes the end of its own request.            *)
LEMMA EndTaken ==
  ASSUME KnownInv, QueuesClean, NEW r \in Requests, HasItem(r), HeadItem(r).is_end
  PROVE  r \in over
<1>1. QueuesOK /\ HandlersOK
  BY DEF KnownInv, ServiceInv, ServiceOK
<1>2. queue[r] # 0
  BY <1>1 DEF HandlersOK, HasItem
<1>3. HeadItem(r).req = r
  BY <1>2, QueueIsOwn
<1>4. queue[r] \in 1 .. Len(queues) /\ queues[queue[r]].items \in Seq(Item) /\ queues[queue[r]].items # <<>>
  BY <1>1, ItemTaken DEF HasItem
<1>5. Len(queues[queue[r]].items) \in Nat /\ Len(queues[queue[r]].items) # 0
  BY <1>4, EmptySeq
<1>6. 1 \in 1 .. Len(queues[queue[r]].items) /\ HeadItem(r) = queues[queue[r]].items[1]
  BY <1>5 DEF HeadItem
<1> QED BY <1>3, <1>4, <1>6 DEF QueuesClean

(* Every step keeps handlers and map entries together.                      *)
LEMMA HandlersCleanStep ==
  ASSUME Mishapless, KnownInv, CleanInv, [ServiceNext]_allVars
  PROVE  HandlersClean'
<1>0. /\ RoundClean /\ QueuesClean /\ HandlersClean /\ DeliveryOK /\ HandlersOK /\ LocalTypeOK /\ HandleInv
      /\ IdsUnique /\ over \subseteq Requests
  BY DEF KnownInv, CleanInv, ServiceInv, ServiceOK, HistoryOK, EngineInv, DecoderInv
<1>a. AnyStep
  BY EngineSide
<1>1. \A r \in Requests : \A id : Owns(r, id) => Owns(r, id)'
  BY <1>0, <1>a, OwnsKept
<1>2. \A r \in Requests : conn[r] \notin {"new", "closed"} => queue[r] # 0
  BY <1>0 DEF HandlersOK
<1>3. ASSUME UNCHANGED <<call, handle, conn, query_to_result, queue>>, over \subseteq over'
      PROVE  HandlersClean'
  BY <1>0, <1>3 DEF HandlersClean, Owns
<1>4. CASE UNCHANGED allVars \/ RoundStepClean \/ Infer_Sample \/ Infer_Commit
           \/ \E x \in todo : FindsQueue(x)
  <2>1. UNCHANGED <<conn, query_to_result, queue, over>>
    BY <1>4 DEF allVars, RoundStepClean, Infer_Sample, Infer_Commit, FindsQueue, serviceVars, resultVars,
                handlerVars, historyVars
  <2>2. UNCHANGED <<call, handle>>
    BY <1>4 DEF allVars, vars, RoundStepClean, FetchBatch, ReadBatch, Compute, Infer_Sample, Sample,
                Infer_Commit, CommitInferenceResult, FindsQueue, apiVars
  <2> QED BY <1>3, <2>1, <2>2
<1>5. CASE EmplaceItem
  <2>1. UNCHANGED <<call, handle, conn, query_to_result, queue>> /\ over \subseteq over'
    BY <1>5 DEF EmplaceItem, vars, handlerVars
  <2> QED BY <1>3, <2>1
<1>6. ASSUME NEW x \in todo, MakesQueue(x) PROVE HandlersClean'
  <2>1. UNCHANGED <<call, handle, conn, queue, over>>
    BY <1>6 DEF MakesQueue, vars, handlerVars, historyVars
  <2>2. /\ DOMAIN query_to_result' = DOMAIN query_to_result \cup {x.id}
        /\ x.id \notin DOMAIN query_to_result
        /\ \A id \in DOMAIN query_to_result : query_to_result'[id] = query_to_result[id]
    BY <1>6 DEF MakesQueue
  <2>3. x.req \in Requests /\ Owns(x.req, x.id) /\ x.req \notin over
    BY <1>0 DEF DeliveryOK, LocalTypeOK, HandleInv, RoundClean
  <2>4. \A r \in Requests : call[r] \in Submitted /\ handle[r] = x.id => r = x.req
    BY <1>0, <2>3 DEF IdsUnique, Owns
  <2>5. conn[x.req] \in Places /\ conn[x.req] \notin Ending
    BY <1>0, <2>3 DEF HandlersOK, HandlersClean, Owns
  <2>6. conn[x.req] \in {"new", "reading", "writing"}
    BY <2>5 DEF Places, Ending
  <2> QED BY <1>0, <2>1, <2>2, <2>3, <2>4, <2>6 DEF HandlersClean, Owns
<1>7. ASSUME NEW r \in Requests, SubmitClean(r) PROVE HandlersClean'
  <2>1. UNCHANGED <<conn, query_to_result, queue, over>> /\ conn[r] = "new"
    BY <1>7 DEF SubmitClean, serviceVars, resultVars, handlerVars, historyVars
  <2>2. \A s \in Requests : s # r => call'[s] = call[s] /\ handle'[s] = handle[s]
    BY <1>0, <1>7 DEF SubmitClean, CallOnly, AddQuery_Add, LocalTypeOK
  <2>3. \A id \in DOMAIN query_to_result' : \E s \in Requests : Owns(s, id)'
    BY <1>0, <1>1, <2>1 DEF HandlersClean
  <2> QED BY <1>0, <2>1, <2>2, <2>3 DEF HandlersClean, Ending
<1>8. ASSUME NEW r \in Requests, HandlerClean(r) PROVE HandlersClean'
  <2>1. UNCHANGED <<call, handle, over>>
    BY <1>8 DEF HandlerClean, HandlerFrame, vars
  <2>2. CASE FindQueue(r)
    <3>1. /\ query_to_result' = query_to_result /\ handle[r] \in DOMAIN query_to_result
          /\ queue' = [queue EXCEPT ![r] = query_to_result[handle[r]]]
          /\ conn' = [conn EXCEPT ![r] = "reading"]
      BY <2>2 DEF FindQueue, resultVars
    <3>2. /\ queue'[r] = query_to_result[handle[r]] /\ conn'[r] = "reading"
          /\ \A s \in Requests : s # r => queue'[s] = queue[s] /\ conn'[s] = conn[s]
      BY <1>0, <3>1 DEF HandlersOK
    <3> QED BY <1>0, <2>1, <3>1, <3>2 DEF HandlersClean, Ending, Owns
  <2>3. ASSUME NEW p, conn' = [conn EXCEPT ![r] = p], UNCHANGED <<query_to_result, queue>>,
               \/ p \in {"reading", "writing"} /\ conn[r] \in {"reading", "writing"}
               \/ p = "erasing" /\ conn[r] = "reading" /\ r \in over
               \/ p \in Ending \ {"erasing"} /\ conn[r] \in {"writing_last", "finishing"}
               \/ p = "closed" /\ call[r] \notin Submitted
        PROVE  HandlersClean'
    <3>1. conn'[r] = p /\ \A s \in Requests : s # r => conn'[s] = conn[s]
      BY <1>0, <2>3 DEF HandlersOK
    <3> QED BY <1>0, <2>1, <2>3, <3>1 DEF HandlersClean, Ending, Owns
  <2>4. CASE TakesEnd(r)
    <3>1. r \in over
      BY <2>4, EndTaken DEF TakesEnd, CleanInv
    <3> QED BY <2>3, <2>4, <3>1 DEF TakesEnd, Moves, HasItem
  <2>5. CASE TakesToken(r)
    BY <2>3, <2>5 DEF TakesToken, Moves, HasItem
  <2>6. CASE Writes(r)
    BY <2>3, <2>6 DEF Writes, Moves, resultVars, Ending
  <2>7. CASE ClosesClean(r)
    <3>1. call[r] \in {"none", "busy", "error"} => call[r] \notin Submitted
      BY DEF Submitted
    <3> QED BY <2>3, <2>7, <3>1 DEF ClosesClean, Moves, resultVars, Ending
  <2>8. CASE ErasesEntry(r)
    <3>1. PICK p \in {"writing_last", "finishing", "closed"} : conn' = [conn EXCEPT ![r] = p]
      BY <2>8 DEF ErasesEntry, Moves
    <3>2. conn'[r] = p /\ \A s \in Requests : s # r => conn'[s] = conn[s]
      BY <1>0, <3>1 DEF HandlersOK
    <3>3. conn[r] = "erasing" /\ queue' = queue /\ queue[r] # 0
      BY <1>2, <2>8 DEF ErasesEntry
    <3>4. /\ DOMAIN query_to_result' = {i \in DOMAIN query_to_result : query_to_result[i] # queue[r]}
          /\ \A id \in DOMAIN query_to_result' : query_to_result'[id] = query_to_result[id]
      BY <2>8 DEF ErasesEntry
    <3>5. \A s \in Requests : queue[s] = queue[r] => s = r
      BY <3>3, QueueIsOwn
    <3>6. handle[r] \notin DOMAIN query_to_result'
      BY <1>0, <3>3, <3>4 DEF HandlersClean
    <3>7. call[r] \in Submitted => r \in over
      BY <1>0, <3>3 DEF HandlersClean, Ending
    <3>8. \A s \in Requests : conn'[s] \in {"reading", "writing", "erasing"} =>
            handle'[s] \in DOMAIN query_to_result' /\ query_to_result'[handle'[s]] = queue'[s]
      BY <1>0, <2>1, <3>2, <3>3, <3>4, <3>5 DEF HandlersClean
    <3>9. \A id \in DOMAIN query_to_result' : \E s \in Requests : Owns(s, id)'
      BY <1>0, <1>1, <3>4 DEF HandlersClean
    <3>10. \A s \in Requests : call'[s] \in Submitted /\ handle'[s] \in DOMAIN query_to_result' =>
            conn'[s] \in {"new", "reading", "writing", "erasing"}
      BY <1>0, <2>1, <3>2, <3>4, <3>6 DEF HandlersClean
    <3>11. \A s \in Requests : call'[s] \in Submitted /\ conn'[s] \in Ending => s \in over'
      BY <1>0, <2>1, <3>2, <3>7 DEF HandlersClean
    <3> QED BY <3>8, <3>9, <3>10, <3>11 DEF HandlersClean
  <2> QED BY <1>8, <2>2, <2>4, <2>5, <2>6, <2>7, <2>8 DEF HandlerClean
<1> QED BY <1>4, <1>5, <1>6, <1>7, <1>8, CleanSteps

(* Every step keeps queues where their handlers look for them.              *)
LEMMA QueuesCleanStep ==
  ASSUME Mishapless, KnownInv, CleanInv, [ServiceNext]_allVars
  PROVE  QueuesClean'
<1>0. /\ QueuesClean /\ HandlersClean /\ DeliveryOK /\ QueuesOK /\ HandlersOK /\ LocalTypeOK
      /\ over \subseteq Requests
  BY DEF KnownInv, CleanInv, ServiceInv, ServiceOK, HistoryOK, EngineInv
<1>n. Len(queues) \in Nat
  BY <1>0, LenProperties DEF QueuesOK
<1>1. \A r \in Requests : conn[r] \notin {"new", "closed"} =>
        queue[r] \in 1 .. Len(queues) /\ queue[r] # 0
  BY <1>0, <1>n, QueueOfReader
<1>2. CASE UNCHANGED allVars \/ RoundStepClean \/ Infer_Sample \/ Infer_Commit
           \/ (\E x \in todo : FindsQueue(x)) \/ \E r \in Requests : SubmitClean(r)
  <2>1. UNCHANGED <<conn, query_to_result, queue, queues, over>>
    BY <1>2 DEF allVars, RoundStepClean, Infer_Sample, Infer_Commit, FindsQueue, SubmitClean, serviceVars,
                resultVars, handlerVars, historyVars
  <2> QED BY <1>0, <2>1 DEF QueuesClean
<1>3. ASSUME NEW x \in todo, MakesQueue(x) PROVE QueuesClean'
  <2>1. UNCHANGED <<conn, queue, over>>
    BY <1>3 DEF MakesQueue, handlerVars, historyVars
  <2>2. /\ Len(queues') = Len(queues) + 1 /\ queues'[Len(queues) + 1] = NewQueue
        /\ \A m \in 1 .. Len(queues) : queues'[m] = queues[m]
    BY <1>0, <1>3, QueueAdded DEF MakesQueue
  <2>3. /\ x.id \in DOMAIN query_to_result' /\ query_to_result'[x.id] = Len(queues) + 1
        /\ \A id \in DOMAIN query_to_result :
             id \in DOMAIN query_to_result' /\ query_to_result'[id] = query_to_result[id]
    BY <1>3 DEF MakesQueue
  <2>4. NewQueue.freed = FALSE /\ Len(NewQueue.items) = 0
    BY EmptySeq DEF NewQueue
  <2>5. \A n \in 1 .. Len(queues') : n \in 1 .. Len(queues) \/ n = Len(queues) + 1
    BY <1>n, <2>2
  <2>6. \A n \in 1 .. Len(queues') : \A i \in 1 .. Len(queues'[n].items) :
          queues'[n].items[i].is_end => queues'[n].items[i].req \in over'
    BY <1>0, <2>1, <2>2, <2>4, <2>5 DEF QueuesClean
  <2>7. \A n \in 1 .. Len(queues') :
          IF queues'[n].freed THEN \E r \in over' : queue'[r] = n /\ conn'[r] \in Ending
          ELSE \E id \in DOMAIN query_to_result' : query_to_result'[id] = n
    BY <1>0, <2>1, <2>2, <2>3, <2>4, <2>5 DEF QueuesClean
  <2>8. \A r \in Requests : conn'[r] = "erasing" => queues'[queue'[r]].freed
    BY <1>0, <1>1, <2>1, <2>2 DEF QueuesClean
  <2> QED BY <2>6, <2>7, <2>8 DEF QueuesClean
<1>4. CASE EmplaceItem
  <2>1. /\ target.queue \in 1 .. Len(queues) /\ queues[target.queue] \in QueueType
        /\ QueryResult(target.item) \in Item
        /\ Append(queues[target.queue].items, QueryResult(target.item)) \in Seq(Item)
    BY <1>0, <1>4, ItemEmplaced DEF EmplaceItem
  <2> PICK n \in 1 .. Len(queues) : n = target.queue
    BY <2>1
  <2>q. PICK q : q = [freed |-> FALSE, items |-> Append(queues[n].items, QueryResult(target.item))]
    OBVIOUS
  <2>2. /\ queues' = [queues EXCEPT ![n] = q] /\ q \in QueueType /\ q.freed = FALSE
        /\ q.items = Append(queues[n].items, QueryResult(target.item))
    BY <1>4, <2>1, <2>q DEF EmplaceItem, QueueType
  <2>3. /\ Len(queues') = Len(queues) /\ queues'[n] = q
        /\ \A m \in 1 .. Len(queues) : m # n => queues'[m] = queues[m]
    BY <1>0, <2>2, QueueEdited
  <2>4. UNCHANGED <<conn, queue, query_to_result>> /\ over \subseteq over' /\ queues[n].freed = FALSE
    BY <1>4, <2>1 DEF EmplaceItem, handlerVars, QueueType
  <2>5. QueryResult(target.item).is_end => QueryResult(target.item).req \in over'
    BY <1>4 DEF EmplaceItem, QueryResult
  <2>6. \A i \in 1 .. Len(q.items) : q.items[i].is_end => q.items[i].req \in over'
    <3>1. queues[n].items \in Seq(Item) /\ Len(queues[n].items) \in Nat
      BY <2>1, LenProperties DEF QueueType
    <3>2. /\ Len(q.items) = Len(queues[n].items) + 1
          /\ \A i \in 1 .. Len(queues[n].items) : q.items[i] = queues[n].items[i]
          /\ q.items[Len(queues[n].items) + 1] = QueryResult(target.item)
      BY <2>1, <2>2, <3>1, AppendProperties
    <3>3. \A i \in 1 .. Len(q.items) : i \in 1 .. Len(queues[n].items) \/ i = Len(queues[n].items) + 1
      BY <3>1, <3>2
    <3>4. \A i \in 1 .. Len(queues[n].items) :
            queues[n].items[i].is_end => queues[n].items[i].req \in over
      BY <1>0 DEF QueuesClean
    <3> QED BY <2>4, <2>5, <3>2, <3>3, <3>4
  <2>7. \A m \in 1 .. Len(queues') : \A i \in 1 .. Len(queues'[m].items) :
          queues'[m].items[i].is_end => queues'[m].items[i].req \in over'
    BY <1>0, <2>3, <2>4, <2>6 DEF QueuesClean
  <2>8. \A m \in 1 .. Len(queues) : queues'[m].freed = queues[m].freed
    BY <2>2, <2>3, <2>4
  <2>9. \A m \in 1 .. Len(queues') :
          IF queues'[m].freed THEN \E r \in over' : queue'[r] = m /\ conn'[r] \in Ending
          ELSE \E id \in DOMAIN query_to_result' : query_to_result'[id] = m
    BY <1>0, <2>3, <2>4, <2>8 DEF QueuesClean
  <2>10. \A r \in Requests : conn'[r] = "erasing" => queues'[queue'[r]].freed
    BY <1>0, <1>1, <2>4, <2>8 DEF QueuesClean
  <2> QED BY <2>7, <2>9, <2>10 DEF QueuesClean
<1>5. ASSUME NEW r \in Requests, HandlerClean(r) PROVE QueuesClean'
  <2>1. over' = over
    BY <1>5 DEF HandlerClean, HandlerFrame
  <2>2. ASSUME NEW p, conn' = [conn EXCEPT ![r] = p]
        PROVE  conn'[r] = p /\ \A s \in Requests : s # r => conn'[s] = conn[s]
    BY <1>0, <2>2 DEF HandlersOK
  <2>3. CASE FindQueue(r)
    <3>1. /\ UNCHANGED <<query_to_result, queues>> /\ conn[r] = "new"
          /\ queue' = [queue EXCEPT ![r] = query_to_result[handle[r]]]
          /\ conn' = [conn EXCEPT ![r] = "reading"]
      BY <2>3 DEF FindQueue, resultVars
    <3>2. /\ conn'[r] = "reading"
          /\ \A s \in Requests : s # r => queue'[s] = queue[s] /\ conn'[s] = conn[s]
      BY <1>0, <3>1 DEF HandlersOK
    <3> QED BY <1>0, <2>1, <3>1, <3>2 DEF QueuesClean, Ending
  <2>4. CASE Writes(r) \/ ClosesClean(r)
    <3>1. UNCHANGED <<query_to_result, queues, queue>>
      BY <2>4 DEF Writes, ClosesClean, resultVars
    <3>2. PICK p : /\ conn' = [conn EXCEPT ![r] = p] /\ p # "erasing"
                   /\ conn[r] \in Ending => p \in Ending
      BY <2>4 DEF Writes, ClosesClean, Moves, Ending
    <3>3. conn'[r] = p /\ \A s \in Requests : s # r => conn'[s] = conn[s]
      BY <2>2, <3>2
    <3> QED BY <1>0, <2>1, <3>1, <3>2, <3>3 DEF QueuesClean
  <2>5. CASE ErasesEntry(r)
    <3>1. UNCHANGED <<queues, queue>> /\ conn[r] = "erasing"
      BY <2>5 DEF ErasesEntry
    <3>2. PICK p : conn' = [conn EXCEPT ![r] = p] /\ p # "erasing" /\ p \in Ending
      BY <2>5 DEF ErasesEntry, Moves, Ending
    <3>3. conn'[r] = p /\ \A s \in Requests : s # r => conn'[s] = conn[s]
      BY <2>2, <3>2
    <3>4. queues[queue[r]].freed
      BY <1>0, <3>1 DEF QueuesClean
    <3>5. \A id \in DOMAIN query_to_result : query_to_result[id] # queue[r] =>
            id \in DOMAIN query_to_result' /\ query_to_result'[id] = query_to_result[id]
      BY <2>5 DEF ErasesEntry
    <3>6. \A m \in 1 .. Len(queues') :
            IF queues'[m].freed THEN \E s \in over' : queue'[s] = m /\ conn'[s] \in Ending
            ELSE \E id \in DOMAIN query_to_result' : query_to_result'[id] = m
      BY <1>0, <2>1, <3>1, <3>2, <3>3, <3>4, <3>5 DEF QueuesClean
    <3> QED BY <1>0, <2>1, <3>1, <3>2, <3>3, <3>6 DEF QueuesClean
  <2>6. CASE TakesEnd(r)
    <3>1. /\ conn[r] = "reading" /\ conn' = [conn EXCEPT ![r] = "erasing"] /\ r \in over
          /\ queues' = [queues EXCEPT ![queue[r]] = Freed] /\ UNCHANGED <<query_to_result, queue>>
      BY <1>0, <2>6, EndTaken DEF TakesEnd, HasItem, Moves
    <3>2. conn'[r] = "erasing" /\ \A s \in Requests : s # r => conn'[s] = conn[s]
      BY <2>2, <3>1
    <3>3. queue[r] \in 1 .. Len(queues) /\ Freed \in QueueType
      BY <1>1, <3>1, EmptySeq DEF Freed, QueueType
    <3>4. /\ Len(queues') = Len(queues) /\ queues'[queue[r]] = Freed
          /\ \A m \in 1 .. Len(queues) : m # queue[r] => queues'[m] = queues[m]
      BY <1>0, <3>1, <3>3, QueueEdited
    <3>5. Freed.freed = TRUE /\ Len(Freed.items) = 0
      BY EmptySeq DEF Freed
    <3>6. \A m \in 1 .. Len(queues') : \A i \in 1 .. Len(queues'[m].items) :
            queues'[m].items[i].is_end => queues'[m].items[i].req \in over'
      BY <1>0, <2>1, <3>4, <3>5 DEF QueuesClean
    <3>7. \A m \in 1 .. Len(queues') :
            IF queues'[m].freed THEN \E s \in over' : queue'[s] = m /\ conn'[s] \in Ending
            ELSE \E id \in DOMAIN query_to_result' : query_to_result'[id] = m
      <4>1. "erasing" \in Ending /\ "reading" \notin Ending
        BY DEF Ending
      <4> QED BY <1>0, <2>1, <3>1, <3>2, <3>4, <3>5, <4>1 DEF QueuesClean
    <3>8. \A s \in Requests : conn'[s] = "erasing" => queues'[queue'[s]].freed
      BY <1>0, <1>1, <3>1, <3>2, <3>4, <3>5 DEF QueuesClean
    <3> QED BY <3>6, <3>7, <3>8 DEF QueuesClean
  <2>7. CASE TakesToken(r)
    <3>1. /\ conn[r] = "reading" /\ queues[queue[r]].items # <<>> /\ ~ queues[queue[r]].freed
          /\ UNCHANGED <<query_to_result, queue>>
          /\ queues' = [queues EXCEPT ![queue[r]] = [freed |-> FALSE, items |-> Tail(queues[queue[r]].items)]]
      BY <2>7 DEF TakesToken, HasItem
    <3>2. PICK p : conn' = [conn EXCEPT ![r] = p] /\ p \notin Ending
      BY <2>7 DEF TakesToken, Moves, Ending
    <3>3. conn'[r] = p /\ \A s \in Requests : s # r => conn'[s] = conn[s]
      BY <2>2, <3>2
    <3>4. /\ queue[r] \in 1 .. Len(queues) /\ queues[queue[r]].items \in Seq(Item)
          /\ Tail(queues[queue[r]].items) \in Seq(Item)
      BY <1>0, <2>7, ItemTaken DEF TakesToken
    <3> PICK n \in 1 .. Len(queues) : n = queue[r]
      BY <3>4
    <3>q. PICK q : q = [freed |-> FALSE, items |-> Tail(queues[n].items)]
      OBVIOUS
    <3>5. /\ queues' = [queues EXCEPT ![n] = q] /\ q \in QueueType /\ q.freed = FALSE
          /\ q.items = Tail(queues[n].items)
      BY <3>1, <3>4, <3>q DEF QueueType
    <3>6. /\ Len(queues') = Len(queues) /\ queues'[n] = q
          /\ \A m \in 1 .. Len(queues) : m # n => queues'[m] = queues[m]
      BY <1>0, <3>5, QueueEdited
    <3>7. \A i \in 1 .. Len(q.items) : q.items[i].is_end => q.items[i].req \in over
      <4>1. /\ Len(queues[n].items) \in Nat /\ Len(q.items) = Len(queues[n].items) - 1
            /\ \A i \in 1 .. Len(q.items) : q.items[i] = queues[n].items[i + 1]
        BY <3>1, <3>4, <3>5, HeadTailProperties, LenProperties
      <4>2. \A i \in 1 .. Len(q.items) : i + 1 \in 1 .. Len(queues[n].items)
        BY <4>1
      <4> QED BY <1>0, <4>1, <4>2, SMTT(30) DEF QueuesClean
    <3>8. \A m \in 1 .. Len(queues') : \A i \in 1 .. Len(queues'[m].items) :
            queues'[m].items[i].is_end => queues'[m].items[i].req \in over'
      BY <1>0, <2>1, <3>6, <3>7 DEF QueuesClean
    <3>9. \A m \in 1 .. Len(queues) : queues'[m].freed <=> queues[m].freed
      BY <3>1, <3>5, <3>6
    <3>10. \A m \in 1 .. Len(queues') :
            IF queues'[m].freed THEN \E s \in over' : queue'[s] = m /\ conn'[s] \in Ending
            ELSE \E id \in DOMAIN query_to_result' : query_to_result'[id] = m
      <4>1. conn[r] \notin Ending
        BY <3>1 DEF Ending
      <4> QED BY <1>0, <2>1, <3>1, <3>3, <3>6, <3>9, <4>1 DEF QueuesClean
    <3>11. \A s \in Requests : conn'[s] = "erasing" => queues'[queue'[s]].freed
      <4>1. p # "erasing"
        BY <3>2 DEF Ending
      <4> QED BY <1>0, <1>1, <3>1, <3>3, <3>9, <4>1 DEF QueuesClean
    <3> QED BY <3>8, <3>10, <3>11 DEF QueuesClean
  <2> QED BY <1>5, <2>3, <2>4, <2>5, <2>6, <2>7 DEF HandlerClean
<1> QED BY <1>2, <1>3, <1>4, <1>5, CleanSteps

(* The invariant holds in the beginning.                                    *)
LEMMA CleanInvInit == ServiceInit => CleanInv
<1> SUFFICES ASSUME ServiceInit PROVE CleanInv
  OBVIOUS
<1>1. ~ undefined /\ RoundClean
  BY DEF ServiceInit, Init, TableInit, RoundClean
<1>2. Len(queues) = 0
  BY EmptySeq DEF ServiceInit
<1>3. QueuesClean
  BY <1>2 DEF ServiceInit, QueuesClean
<1>4. HandlersClean
  BY DEF ServiceInit, HandlersClean, Ending
<1> QED BY <1>1, <1>3, <1>4 DEF CleanInv

(* Every step keeps the invariant.                                          *)
LEMMA CleanInvStep ==
  ASSUME Mishapless, KnownInv, CleanInv, [ServiceNext]_allVars
  PROVE  CleanInv'
<1>1. ~ undefined'
  BY CleanSteps
     DEF CleanInv, allVars, vars, RoundStepClean, FetchBatch, ReadBatch, Compute, Infer_Sample, Sample,
         Infer_Commit, CommitInferenceResult, FindsQueue, MakesQueue, EmplaceItem, SubmitClean, HandlerClean
<1> QED BY <1>1, RoundCleanStep, QueuesCleanStep, HandlersCleanStep DEF CleanInv

(* The invariant without mishaps holds always.                              *)
LEMMA CleanInvariant ==
  ASSUME Mishapless
  PROVE  ServiceSpec /\ []NoIdReused => [](KnownInv /\ CleanInv)
<1>1. ServiceInit => KnownInv /\ CleanInv
  BY ServiceInvInit, OwnInvInit, CleanInvInit, DecoderInvInit DEF KnownInv, ServiceInit
<1>2. KnownInv /\ CleanInv /\ NoIdReused' /\ [ServiceNext]_allVars => KnownInv' /\ CleanInv'
  BY ServiceInvStep, OwnInvStep, IdsUniqueStep, DecoderInvStep, CleanInvStep, EngineSide
     DEF KnownInv, ServiceInv, Mishapless
<1> QED BY <1>1, <1>2, PTL DEF ServiceSpec

(* Without mishaps nobody follows a pointer to a deleted queue or state:    *)
(* Infer uses a queue outside result_lock_ only while its request's end is  *)
(* still to come, and only the handler that took that end deletes it.       *)
THEOREM NothingUndefinedProved ==
  ASSUME Mishapless
  PROVE  ServiceSpec /\ []NoIdReused => []NothingUndefined
<1>1. CleanInv => NothingUndefined
  BY DEF CleanInv, NothingUndefined
<1> QED BY <1>1, CleanInvariant, PTL

(* Without mishaps, when the work is done the map is empty, every queue is  *)
(* deleted and no sampling data is left.                                    *)
THEOREM QuiescentCleanProved ==
  ASSUME Mishapless
  PROVE  ServiceSpec /\ []NoIdReused => []QuiescentClean
<1>1. ASSUME KnownInv, CleanInv PROVE QuiescentClean
  <2> SUFFICES ASSUME DOMAIN query_map = {}, \A r \in Requests : conn[r] = "closed"
               PROVE  /\ DOMAIN query_to_result = {}
                      /\ \A i \in DOMAIN queues : queues[i].freed
                      /\ DOMAIN sampler = {}
    BY DEF QuiescentClean
  <2>1. RoundClean /\ QueuesClean /\ HandlersClean /\ DOMAIN queues = 1 .. Len(queues)
    BY <1>1, LenProperties DEF CleanInv, KnownInv, ServiceInv, ServiceOK, QueuesOK
  <2>2. DOMAIN query_to_result = {}
    BY <2>1 DEF HandlersClean, Owns
  <2>3. \A i \in DOMAIN queues : queues[i].freed
    BY <2>1, <2>2 DEF QueuesClean
  <2> QED BY <2>1, <2>2, <2>3 DEF RoundClean
<1>2. KnownInv /\ CleanInv => QuiescentClean
  BY <1>1
<1> QED BY <1>2, CleanInvariant, PTL

-----------------------------------------------------------------------------
(* The service implements TextService: without mishaps and without streams. *)
Plain == Mishapless /\ Streaming = {}

(* The items on their way to the handler of a request.                      *)
Pending(r) ==
  IF call[r] \in Submitted /\ handle[r] \in DOMAIN query_to_result
  THEN queues[query_to_result[handle[r]]].items ELSE <<>>

(* A text t, of which s was read and the items p are on their way: together *)
(* they make up the text, and the end, if it was enqueued (e = 1), is last. *)
Flows(s, p, t, e) ==
  /\ Len(s) + Len(p) = Len(t) + e
  /\ \A i \in 1 .. Len(p) : /\ p[i].is_end <=> e = 1 /\ i = Len(p)
                            /\ ~ p[i].is_end => p[i].pos = t[Len(s) + i]

(* What was read is the beginning of the text.                              *)
BeginsWith(t, s) == Len(s) <= Len(t) /\ \A i \in 1 .. Len(s) : s[i].pos = t[i]

(* The text of a request and what its handler has read of it.               *)
TextFlows(r) == Flows(stream[r], Pending(r), text[r], IF r \in over THEN 1 ELSE 0)

(* A request from its submission to its answer: the text flows until the    *)
(* end is taken, and then the handler has all of it.                        *)
FlowOf(r) ==
  /\ conn[r] \in {"new", "reading", "erasing", "closed"}
  /\ call[r] \notin Submitted => text[r] = <<>>
  /\ conn[r] # "closed" => reply[r] = NoReply
  /\ BeginsWith(text[r], stream[r])
  /\ conn[r] \in {"new", "reading"} => TextFlows(r)
  /\ conn[r] = "erasing" => Len(stream[r]) = Len(text[r])

(* The queue Infer has in hand is the one in the map.                       *)
TargetMapped ==
  target # NoTarget => /\ target.item.id \in DOMAIN query_to_result
                       /\ query_to_result[target.item.id] = target.queue

(* The invariant of the refinement.                                         *)
FlowInv == TargetMapped /\ \A r \in Requests : FlowOf(r)

(* EmptyRequest and Refused, for a request without stream.                  *)
Refuses(r) ==
  /\ conn[r] = "new" /\ call[r] \notin Submitted
  /\ conn' = [conn EXCEPT ![r] = "closed"]
  /\ \E c \in {"error.busy", "error.empty_request"} : reply' = [reply EXCEPT ![r] = [ret |-> c, text |-> <<>>]]
  /\ UNCHANGED <<query_to_result, queues, queue, stream>>

(* Dequeue of the end, for a request without stream.                        *)
GetsEnd(r) ==
  /\ TakesEnd(r) /\ conn' = [conn EXCEPT ![r] = "erasing"]
  /\ UNCHANGED <<stream, reply>>

(* Dequeue of a token, for a request without stream.                        *)
GetsToken(r) ==
  /\ TakesToken(r)
  /\ stream' = [stream EXCEPT ![r] = Append(stream[r], HeadToken(r))]
  /\ UNCHANGED <<conn, reply>>

(* Erase, for a request without stream.                                     *)
Answers(r) ==
  /\ ErasesEntry(r) /\ conn' = [conn EXCEPT ![r] = "closed"]
  /\ reply' = [reply EXCEPT ![r] = [ret |-> "succ", text |-> SubSeq(stream[r], 1, GetUtf8EndPos(stream[r]))]]
  /\ UNCHANGED stream

(* The steps of a handler, except its calls of AddQuery.                    *)
PlainHandler(r) ==
  /\ HandlerFrame /\ UNCHANGED vars
  /\ \/ Refuses(r) \/ GetsEnd(r) \/ GetsToken(r) \/ Answers(r)
     \/ FindQueue(r) /\ UNCHANGED <<query_to_result, queues, stream, reply>>

(* The steps of a handler that serves no stream.                            *)
LEMMA PlainSteps ==
  ASSUME Plain, KnownInv, CleanInv, FlowInv, NEW r \in Requests, HandlerStep(r) \/ Mishap(r)
  PROVE  SubmitClean(r) \/ PlainHandler(r)
<1>0. /\ QueuesOK /\ HandlersOK /\ HandlersClean /\ QueuesClean /\ Mishapless /\ r \notin Streaming
  BY DEF KnownInv, CleanInv, ServiceInv, ServiceOK, Plain
<1>1. conn[r] \in {"new", "reading", "erasing", "closed"}
  BY DEF FlowInv, FlowOf
<1>2. /\ HandlerFrame
      /\ \/ Submit(r) \/ FindQueue(r) \/ TakesEnd(r) \/ TakesToken(r) \/ ErasesEntry(r)
         \/ RunsOutOfTime(r) \/ Writes(r) \/ Closes(r) \/ Breaks(r)
  BY <1>0, HandlerCases
<1>3. ~ GiveUp(r) /\ ~ Timeout(r) /\ ~ WriteChunk_Fails(r) /\ ~ WriteChunk(r) /\ ~ FinishStream(r)
  BY <1>0, <1>1 DEF GiveUp, Timeout, WriteChunk_Fails, WriteChunk, FinishStream, Mishapless
<1>4. CASE Submit(r)
  <2>1. ASSUME AddQuery_Check(r) \/ AddQuery_Invalid(r) \/ AddQuery_Full(r) PROVE CallOnly(r)
    BY <2>1 DEF AddQuery_Check, AddQuery_Invalid, AddQuery_Full, CallOnly, engineVars, localVars
  <2>2. undefined' = undefined /\ dangling' = dangling
    BY <1>4 DEF Submit, AddQuery_Check, AddQuery_Invalid, AddQuery_Full, AddQuery_Add
  <2> QED BY <1>4, <2>1, <2>2 DEF Submit, SubmitClean
<1>5. CASE EmptyRequest(r) \/ Refused(r)
  <2>1. call[r] \notin Submitted /\ conn[r] = "new"
    BY <1>5 DEF EmptyRequest, Refused, Submitted
  <2> QED BY <1>2, <1>5, <2>1 DEF EmptyRequest, Refused, Close, Refuses, PlainHandler, resultVars
<1>6. CASE FindQueue(r)
  BY <1>2, <1>6 DEF FindQueue, PlainHandler, resultVars
<1>7. CASE Dequeue(r)
  <2>1. conn[r] = "reading" /\ ~ queues[queue[r]].freed /\ UNCHANGED vars /\ UNCHANGED reply
    BY <1>7 DEF Dequeue
  <2>2. TakesEnd(r) \/ TakesToken(r)
    BY <1>0, <1>2, <2>1 DEF Submit, FindQueue, ErasesEntry, RunsOutOfTime, Writes, Closes, Breaks, Mishapless
  <2>3. CASE TakesEnd(r)
    <3>1. HeadItem(r).is_end
      BY <2>3 DEF TakesEnd
    <3>2. conn' = [conn EXCEPT ![r] = "erasing"] /\ stream' = stream
      BY <1>7, <3>1 DEF Dequeue, HeadItem
    <3> QED BY <1>2, <2>1, <2>3, <3>2 DEF PlainHandler, GetsEnd
  <2>4. CASE TakesToken(r)
    <3>1. ~ HeadItem(r).is_end
      BY <2>4 DEF TakesToken
    <3>2. stream' = [stream EXCEPT ![r] = Append(stream[r], HeadToken(r))] /\ conn' = conn
      BY <1>0, <1>7, <3>1 DEF Dequeue, HeadItem, HeadToken
    <3> QED BY <1>2, <2>1, <2>4, <3>2 DEF PlainHandler, GetsToken
  <2> QED BY <2>2, <2>3, <2>4
<1>8. CASE DequeueDeleted(r)
  <2>1. conn[r] = "reading" /\ queues[queue[r]].freed
    BY <1>8 DEF DequeueDeleted
  <2>2. queue[r] \in 1 .. Len(queues) /\ queue[r] # 0 /\ over \subseteq Requests
    BY <1>0, <2>1, QueueOfReader DEF HandlersOK, KnownInv, ServiceInv, ServiceOK, HistoryOK
  <2>3. PICK s \in over : queue[s] = queue[r] /\ conn[s] \in Ending
    BY <1>0, <2>1, <2>2 DEF QueuesClean
  <2>4. s = r
    BY <2>2, <2>3, QueueIsOwn
  <2> QED BY <2>1, <2>3, <2>4 DEF Ending
<1>9. CASE Erase(r)
  <2>1. conn[r] = "erasing" /\ \E id \in DOMAIN query_to_result : query_to_result[id] = queue[r]
    BY <1>0, <1>9 DEF Erase, HandlersClean
  <2>2. /\ Close(r, "succ", SubSeq(stream[r], 1, GetUtf8EndPos(stream[r])))
        /\ UNCHANGED <<stream, vars>>
    BY <1>0, <1>9, <2>1 DEF Erase
  <2>3. ErasesEntry(r)
    <3>1. TextsMoved(r, stream[r]) /\ Moves(r, {"closed"})
      <4>1. "succ" \in Codes /\ UNCHANGED chunk
        BY <1>0, <1>9, <2>1 DEF Codes, Erase
      <4> QED BY <2>2, <4>1, CloseMoves
    <3> QED BY <1>9, <2>1, <2>2, <3>1 DEF Erase, ErasesEntry, Moves
  <2> QED BY <1>2, <2>2, <2>3 DEF PlainHandler, Answers, Close
<1> QED
  BY <1>3, <1>4, <1>5, <1>6, <1>7, <1>8, <1>9 DEF HandlerStep, Mishap

(* No two ids share a queue.                                                *)
LEMMA EntriesDistinct ==
  ASSUME KnownInv
  PROVE  \A i, j \in DOMAIN query_to_result : query_to_result[i] = query_to_result[j] => i = j
BY DEF KnownInv, OwnInv, OwnQueues

(* What is on its way are items.                                            *)
LEMMA PendingItems ==
  ASSUME QueuesOK, DeliveryOK, NEW r \in Requests
  PROVE  Pending(r) \in Seq(Item) /\ Len(Pending(r)) \in Nat
<1>1. ASSUME handle[r] \in DOMAIN query_to_result
      PROVE  queues[query_to_result[handle[r]]].items \in Seq(Item)
  <2>1. query_to_result[handle[r]] \in 1 .. Len(queues)
    BY <1>1 DEF DeliveryOK
  <2>2. queues[query_to_result[handle[r]]] \in QueueType
    BY <2>1, ElementOfSeq DEF QueuesOK
  <2> QED BY <2>2 DEF QueueType
<1>2. Pending(r) \in Seq(Item)
  BY <1>1, EmptySeq DEF Pending
<1> QED BY <1>2, LenProperties

(* The end is enqueued.                                                     *)
LEMMA FlowsEnd ==
  ASSUME NEW s, NEW p \in Seq(Item), NEW t \in Seq(Nat), Len(s) \in Nat,
         NEW x \in Item, x.is_end, Flows(s, p, t, 0)
  PROVE  Flows(s, Append(p, x), t, 1)
<1>p. PICK p2 : p2 = Append(p, x)
  OBVIOUS
<1>l. PICK lp \in Nat, ls \in Nat, lt \in Nat : lp = Len(p) /\ ls = Len(s) /\ lt = Len(t)
  BY LenProperties
<1>1. /\ Len(p2) = lp + 1 /\ p2[lp + 1] = x
      /\ \A i \in 1 .. lp : p2[i] = p[i]
  BY <1>p, <1>l, AppendProperties
<1>2. ls + lp = lt
  BY <1>l DEF Flows
<1>3. \A i \in 1 .. lp : p[i].pos = t[ls + i] /\ ~ p[i].is_end
  BY <1>l DEF Flows
<1>4. ls + Len(p2) = lt + 1
  BY <1>1, <1>2
<1>5. ASSUME NEW i \in 1 .. Len(p2)
      PROVE  /\ p2[i].is_end <=> i = Len(p2)
             /\ ~ p2[i].is_end => p2[i].pos = t[ls + i]
  <2>1. i \in 1 .. lp \/ i = lp + 1
    BY <1>1
  <2>2. CASE i \in 1 .. lp
    BY <1>1, <1>3, <2>2
  <2>3. CASE i = lp + 1
    BY <1>1, <2>3
  <2> QED BY <2>1, <2>2, <2>3
<1> QED BY <1>p, <1>l, <1>4, <1>5 DEF Flows

(* A token is enqueued.                                                     *)
LEMMA FlowsToken ==
  ASSUME NEW s, NEW p \in Seq(Item), NEW t \in Seq(Nat), Len(s) \in Nat,
         NEW x \in Item, ~ x.is_end, Flows(s, p, t, 0), BeginsWith(t, s)
  PROVE  /\ Flows(s, Append(p, x), Append(t, x.pos), 0)
         /\ BeginsWith(Append(t, x.pos), s)
<1>p. PICK p2 : p2 = Append(p, x)
  OBVIOUS
<1>t. PICK t2 : t2 = Append(t, x.pos)
  OBVIOUS
<1>l. PICK lp \in Nat, ls \in Nat, lt \in Nat : lp = Len(p) /\ ls = Len(s) /\ lt = Len(t)
  BY LenProperties
<1>1. /\ Len(p2) = lp + 1 /\ p2[lp + 1] = x
      /\ \A i \in 1 .. lp : p2[i] = p[i]
  BY <1>p, <1>l, AppendProperties
<1>2. /\ Len(t2) = lt + 1 /\ t2[lt + 1] = x.pos
      /\ \A i \in 1 .. lt : t2[i] = t[i]
  <2>1. x.pos \in Nat
    BY DEF Item
  <2> QED BY <1>t, <1>l, <2>1, AppendProperties
<1>3. ls + lp = lt
  BY <1>l DEF Flows
<1>4. \A i \in 1 .. lp : p[i].pos = t[ls + i] /\ ~ p[i].is_end
  BY <1>l DEF Flows
<1>5. ls + Len(p2) = Len(t2) + 0
  BY <1>1, <1>2, <1>3
<1>6. ASSUME NEW i \in 1 .. Len(p2)
      PROVE  /\ ~ p2[i].is_end
             /\ p2[i].pos = t2[ls + i]
  <2>1. i \in 1 .. lp \/ i = lp + 1
    BY <1>1
  <2>2. CASE i \in 1 .. lp
    <3>1. ls + i \in 1 .. lt
      BY <1>3, <2>2
    <3> QED BY <1>1, <1>2, <1>4, <2>2, <3>1
  <2>3. CASE i = lp + 1
    <3>1. ls + i = lt + 1
      BY <1>3, <2>3
    <3> QED BY <1>1, <1>2, <2>3, <3>1
  <2> QED BY <2>1, <2>2, <2>3
<1>7. BeginsWith(t2, s)
  <2>1. ls <= lt /\ \A i \in 1 .. ls : s[i].pos = t[i]
    BY <1>l DEF BeginsWith
  <2>2. \A i \in 1 .. ls : i \in 1 .. lt
    BY <2>1
  <2>3. ls <= Len(t2) /\ \A i \in 1 .. ls : s[i].pos = t2[i]
    BY <1>2, <2>1, <2>2
  <2> QED BY <1>l, <2>3 DEF BeginsWith
<1>8. Flows(s, p2, t2, 0)
  BY <1>l, <1>5, <1>6 DEF Flows
<1> QED BY <1>p, <1>t, <1>7, <1>8

(* The next item of a queue is read: the end, after the whole text.         *)
LEMMA FlowsTakeEnd ==
  ASSUME NEW s, NEW p \in Seq(Item), NEW t \in Seq(Nat), Len(s) \in Nat, NEW e \in 0 .. 1,
         p # <<>>, Head(p).is_end, Flows(s, p, t, e)
  PROVE  Len(s) = Len(t) /\ e = 1
<1>l. PICK lp \in Nat, ls \in Nat, lt \in Nat : lp = Len(p) /\ ls = Len(s) /\ lt = Len(t)
  BY LenProperties
<1>1. lp > 0 /\ Head(p) = p[1]
  BY <1>l, EmptySeq
<1>2. e = 1 /\ 1 = lp
  BY <1>l, <1>1 DEF Flows
<1>3. ls + lp = lt + 1
  BY <1>l, <1>2 DEF Flows
<1>4. ls = lt
  BY <1>2, <1>3
<1> QED BY <1>l, <1>2, <1>4

(* A token is read: the next one of the text.                               *)
LEMMA FlowsTakeToken ==
  ASSUME NEW s \in Seq(Token), NEW p \in Seq(Item), NEW t \in Seq(Nat), NEW e \in 0 .. 1,
         p # <<>>, ~ Head(p).is_end, Flows(s, p, t, e), BeginsWith(t, s),
         NEW k \in Token, k.pos = Head(p).pos
  PROVE  Flows(Append(s, k), Tail(p), t, e) /\ BeginsWith(t, Append(s, k))
<1>p. PICK p2 : p2 = Tail(p)
  OBVIOUS
<1>s. PICK s2 : s2 = Append(s, k)
  OBVIOUS
<1>l. PICK lp \in Nat, ls \in Nat, lt \in Nat : lp = Len(p) /\ ls = Len(s) /\ lt = Len(t)
  BY LenProperties
<1>1. lp > 0 /\ Head(p) = p[1]
  BY <1>l, EmptySeq
<1>2. Len(p2) = lp - 1 /\ \A i \in 1 .. Len(p2) : p2[i] = p[i + 1]
  BY <1>p, <1>l, HeadTailProperties
<1>3. /\ Len(s2) = ls + 1 /\ s2[ls + 1] = k
      /\ \A i \in 1 .. ls : s2[i] = s[i]
  BY <1>s, <1>l, AppendProperties
<1>4. /\ ls + lp = lt + e
      /\ \A i \in 1 .. lp : p[i].is_end <=> e = 1 /\ i = lp
      /\ \A i \in 1 .. lp : ~ p[i].is_end => p[i].pos = t[ls + i]
  BY <1>l DEF Flows
<1>5. Len(s2) + Len(p2) = lt + e
  BY <1>1, <1>2, <1>3, <1>4
<1>6. ASSUME NEW i \in 1 .. Len(p2)
      PROVE  /\ p2[i].is_end <=> e = 1 /\ i = Len(p2)
             /\ ~ p2[i].is_end => p2[i].pos = t[Len(s2) + i]
  <2>j. PICK j \in Nat : j = i + 1
    OBVIOUS
  <2>1. j \in 1 .. lp /\ (j = lp <=> i = Len(p2)) /\ ls + j = Len(s2) + i /\ p2[i] = p[j]
    <3>1. i \in 1 .. lp - 1 /\ Len(s2) = ls + 1 /\ Len(p2) = lp - 1
      BY <1>2, <1>3
    <3>2. p2[i] = p[j]
      BY <1>2, <2>j
    <3>3. j \in 1 .. lp /\ (j = lp <=> i = lp - 1) /\ ls + j = (ls + 1) + i
      BY <2>j, <3>1
    <3> QED BY <3>1, <3>2, <3>3
  <2>2. /\ p[j].is_end <=> e = 1 /\ j = lp
        /\ ~ p[j].is_end => p[j].pos = t[ls + j]
    BY <1>4, <2>1
  <2> QED BY <2>1, <2>2
<1>7. ls + 1 <= lt /\ k.pos = t[ls + 1]
  <2>1. 1 \in 1 .. lp /\ ~ p[1].is_end /\ k.pos = p[1].pos
    BY <1>1
  <2>2. p[1].pos = t[ls + 1] /\ ~ (e = 1 /\ 1 = lp)
    BY <1>4, <2>1
  <2>3. ls + 1 <= lt
    <3>1. ls + lp = lt + e /\ lp > 0
      BY <1>1, <1>4
    <3> QED BY <2>2, <3>1, SMTT(30)
  <2> QED BY <2>1, <2>2, <2>3
<1>8. BeginsWith(t, s2)
  <2>1. \A i \in 1 .. ls : s[i].pos = t[i]
    BY <1>l DEF BeginsWith
  <2>2. \A i \in 1 .. ls + 1 : i \in 1 .. ls \/ i = ls + 1
    OBVIOUS
  <2>3. \A i \in 1 .. ls + 1 : s2[i].pos = t[i]
    BY <1>3, <1>7, <2>1, <2>2
  <2> QED BY <1>l, <1>3, <1>7, <2>3 DEF BeginsWith
<1>9. Flows(s2, p2, t, e)
  BY <1>l, <1>5, <1>6 DEF Flows
<1> QED BY <1>p, <1>s, <1>8, <1>9

(* A request nothing happens to.                                            *)
LEMMA FlowFrame ==
  ASSUME NEW r \in Requests, FlowOf(r), call[r] \in Submitted => call'[r] \in Submitted,
         conn'[r] = conn[r], text'[r] = text[r], r \in over' <=> r \in over,
         stream'[r] = stream[r], reply'[r] = reply[r], Pending(r)' = Pending(r)
  PROVE  FlowOf(r)'
<1>1. TextFlows(r)' = TextFlows(r)
  BY DEF TextFlows
<1> QED BY <1>1 DEF FlowOf, NoReply

(* Steps of Infer that put nothing into a queue.                            *)
LEMMA FlowQuietStep ==
  ASSUME KnownInv, FlowInv,
         UNCHANGED allVars \/ RoundStepClean \/ Infer_Sample \/ Infer_Commit
           \/ \E x \in todo : FindsQueue(x)
  PROVE  FlowInv'
<1>1. UNCHANGED <<conn, queue, query_to_result, queues, stream, reply, text, over>>
  BY DEF allVars, RoundStepClean, Infer_Sample, Infer_Commit, FindsQueue, serviceVars, resultVars,
         handlerVars, historyVars
<1>2. UNCHANGED <<call, handle>>
  BY DEF allVars, vars, RoundStepClean, FetchBatch, ReadBatch, Compute, Infer_Sample, Sample,
         Infer_Commit, CommitInferenceResult, FindsQueue, apiVars
<1>3. \A r \in Requests : Pending(r)' = Pending(r)
  BY <1>1, <1>2 DEF Pending
<1>4. \A r \in Requests : FlowOf(r)'
  BY <1>1, <1>2, <1>3, FlowFrame DEF FlowInv
<1>5. TargetMapped'
  <2>1. CASE target' = target
    BY <1>1, <2>1 DEF FlowInv, TargetMapped
  <2>2. CASE \E x \in todo : FindsQueue(x)
    BY <1>1, <2>2 DEF FindsQueue, TargetMapped
  <2> QED BY <2>1, <2>2 DEF allVars, serviceVars, deliveryVars, RoundStepClean, Infer_Sample, Infer_Commit
<1> QED BY <1>4, <1>5 DEF FlowInv

(* A new queue is empty, like what was on its way before.                   *)
LEMMA FlowMakeStep ==
  ASSUME KnownInv, FlowInv, NEW x \in todo, MakesQueue(x)
  PROVE  FlowInv'
<1>0. DeliveryOK /\ QueuesOK
  BY DEF KnownInv, ServiceInv, ServiceOK
<1>1. UNCHANGED <<conn, queue, stream, reply, text, over, call, handle>>
  BY DEF MakesQueue, vars, handlerVars, historyVars
<1>2. /\ DOMAIN query_to_result' = DOMAIN query_to_result \cup {x.id}
      /\ x.id \notin DOMAIN query_to_result /\ query_to_result'[x.id] = Len(queues) + 1
      /\ \A id \in DOMAIN query_to_result : query_to_result'[id] = query_to_result[id]
      /\ target'.queue = Len(queues) + 1 /\ target'.item = x
  BY DEF MakesQueue
<1>3. /\ queues'[Len(queues) + 1].items = <<>>
      /\ \A m \in 1 .. Len(queues) : queues'[m] = queues[m]
  BY <1>0, QueueAdded DEF MakesQueue, NewQueue
<1>4. \A id \in DOMAIN query_to_result : query_to_result[id] \in 1 .. Len(queues)
  BY <1>0 DEF DeliveryOK
<1>5. \A r \in Requests : Pending(r)' = Pending(r)
  BY <1>1, <1>2, <1>3, <1>4 DEF Pending
<1>6. \A r \in Requests : FlowOf(r)'
  BY <1>1, <1>5, FlowFrame DEF FlowInv
<1> QED BY <1>2, <1>6 DEF FlowInv, TargetMapped

(* Enqueuing: the item joins the text of its own request.                   *)
LEMMA FlowEmplaceStep ==
  ASSUME KnownInv, CleanInv, FlowInv, EmplaceItem
  PROVE  FlowInv'
<1>0. /\ DeliveryOK /\ QueuesOK /\ LocalTypeOK /\ HandleInv /\ IdsUnique /\ HistoryOK /\ TextsOK /\ HandlersOK
      /\ RoundClean /\ HandlersClean
  BY DEF KnownInv, ServiceInv, ServiceOK, EngineInv, CleanInv
<1> PICK x : x = target.item
  OBVIOUS
<1> PICK n : n = target.queue
  OBVIOUS
<1>1. /\ n \in 1 .. Len(queues) /\ x \in results /\ x.req \in Requests /\ x.prefix_len \in Nat
      /\ QueryResult(x) \in Item /\ queues[n] \in QueueType
      /\ Append(queues[n].items, QueryResult(x)) \in Seq(Item)
  BY <1>0, ItemEmplaced DEF EmplaceItem
<1>2. Owns(x.req, x.id) /\ x.req \notin over
  BY <1>0, <1>1 DEF HandleInv, RoundClean, EmplaceItem
<1>3. x.id \in DOMAIN query_to_result /\ query_to_result[x.id] = n
  BY DEF FlowInv, TargetMapped, EmplaceItem
<1>4. UNCHANGED <<conn, queue, query_to_result, stream, reply, call, handle>> /\ target' = NoTarget
  BY DEF EmplaceItem, vars, handlerVars
<1>q. PICK q : q = [freed |-> FALSE, items |-> Append(queues[n].items, QueryResult(x))]
  OBVIOUS
<1>5. queues' = [queues EXCEPT ![n] = q] /\ q \in QueueType /\ q.items = Append(queues[n].items, QueryResult(x))
  BY <1>1, <1>q DEF EmplaceItem, QueueType
<1>6. queues'[n] = q /\ \A m \in 1 .. Len(queues) : m # n => queues'[m] = queues[m]
  BY <1>0, <1>1, <1>5, QueueEdited
<1>7. ASSUME NEW r \in Requests, r # x.req PROVE FlowOf(r)'
  <2>1. Pending(r)' = Pending(r)
    <3>1. ASSUME call[r] \in Submitted, handle[r] \in DOMAIN query_to_result
          PROVE  query_to_result[handle[r]] # n /\ query_to_result[handle[r]] \in 1 .. Len(queues)
      <4>1. handle[r] # x.id
        BY <1>0, <1>1, <1>2, <1>7, <3>1 DEF IdsUnique, Owns
      <4> QED BY <1>0, <1>3, <3>1, <4>1, EntriesDistinct DEF DeliveryOK
    <3> QED BY <1>4, <1>6, <3>1 DEF Pending
  <2>2. text'[r] = text[r] /\ (r \in over' <=> r \in over)
    BY <1>0, <1>1, <1>7 DEF EmplaceItem, HistoryOK
  <2> QED BY <1>4, <2>1, <2>2, FlowFrame DEF FlowInv
<1>8. FlowOf(x.req)'
  <2> PICK r \in Requests : r = x.req
    BY <1>1
  <2>1. FlowOf(r) /\ call[r] \in Submitted /\ handle[r] = x.id /\ r \notin over
    BY <1>2 DEF FlowInv, Owns
  <2>2. conn[r] \in {"new", "reading"}
    <3>1. conn[r] \notin Ending
      BY <1>0, <2>1 DEF HandlersClean
    <3> QED BY <2>1, <3>1 DEF FlowOf, Ending
  <2>3. Pending(r) = queues[n].items /\ Pending(r)' = q.items
    BY <1>3, <1>4, <1>6, <2>1 DEF Pending
  <2>4. /\ Pending(r) \in Seq(Item) /\ Len(Pending(r)) \in Nat
        /\ Len(stream[r]) \in Nat /\ Len(text[r]) \in Nat /\ text[r] \in Seq(Nat)
    BY <1>0, PendingItems, LenProperties DEF TextsOK, HistoryOK
  <2>5. QueryResult(x).is_end = IsEnd(x) /\ QueryResult(x).pos = x.prefix_len /\ QueryResult(x) \in Item
    BY <1>1 DEF QueryResult, Item
  <2>6. Flows(stream[r], Pending(r), text[r], 0) /\ BeginsWith(text[r], stream[r])
    BY <2>1, <2>2 DEF FlowOf, TextFlows
  <2>7. Pending(r)' = Append(Pending(r), QueryResult(x))
    BY <1>5, <2>3
  <2>9. CASE IsEnd(x)
    <3>1. text' = text /\ r \in over'
      BY <2>9 DEF EmplaceItem
    <3>2. Flows(stream[r], Append(Pending(r), QueryResult(x)), text[r], 1)
      BY <2>4, <2>5, <2>6, <2>9, FlowsEnd
    <3>3. TextFlows(r)'
      BY <1>4, <2>7, <3>1, <3>2 DEF TextFlows
    <3> QED BY <1>4, <2>1, <2>2, <3>1, <3>3 DEF FlowOf, NoReply
  <2>10. CASE ~ IsEnd(x)
    <3>1. text'[r] = Append(text[r], x.prefix_len) /\ over' = over
      BY <1>0, <2>10 DEF EmplaceItem, HistoryOK
    <3>2. /\ Flows(stream[r], Append(Pending(r), QueryResult(x)), Append(text[r], x.prefix_len), 0)
          /\ BeginsWith(Append(text[r], x.prefix_len), stream[r])
      BY <2>4, <2>5, <2>6, <2>10, FlowsToken
    <3>3. TextFlows(r)'
      BY <1>4, <2>1, <2>7, <3>1, <3>2 DEF TextFlows
    <3> QED BY <1>4, <2>1, <2>2, <3>1, <3>2, <3>3 DEF FlowOf, NoReply
  <2> QED BY <2>9, <2>10
<1> QED BY <1>4, <1>7, <1>8 DEF FlowInv, TargetMapped

(* A new query's id is not in the map, so nothing is on its way yet.        *)
LEMMA FlowSubmitStep ==
  ASSUME KnownInv, CleanInv, FlowInv, IdsUnique', NEW r \in Requests, SubmitClean(r)
  PROVE  FlowInv'
<1>0. LocalTypeOK /\ HandlersClean
  BY DEF KnownInv, ServiceInv, EngineInv, CleanInv
<1>1. UNCHANGED <<conn, queue, query_to_result, queues, stream, reply, text, over, target>>
  BY DEF SubmitClean, serviceVars, resultVars, handlerVars, historyVars, deliveryVars
<1>2. CASE CallOnly(r)
  <2>1. call[r] \notin Submitted /\ handle' = handle /\ \A s \in Requests : s # r => call'[s] = call[s]
    BY <1>0, <1>2 DEF CallOnly, Submitted, LocalTypeOK
  <2>2. call'[r] \notin Submitted
    BY <1>0, <1>2 DEF CallOnly, Submitted, LocalTypeOK
  <2>3. \A s \in Requests : (call'[s] \in Submitted <=> call[s] \in Submitted) /\ Pending(s)' = Pending(s)
    BY <1>1, <2>1, <2>2 DEF Pending
  <2>4. \A s \in Requests : FlowOf(s)'
    BY <1>1, <2>3, FlowFrame DEF FlowInv
  <2> QED BY <1>1, <2>4 DEF FlowInv, TargetMapped
<1>3. ASSUME NEW enc \in EncLens, NEW dec \in DecLens, NEW limit \in OutLimits, AddQuery_Add(r, enc, dec, limit)
      PROVE  FlowInv'
  <2>1. /\ call[r] \notin Submitted /\ call'[r] \in Submitted
        /\ \A s \in Requests : s # r => call'[s] = call[s] /\ handle'[s] = handle[s]
    BY <1>0, <1>3 DEF AddQuery_Add, Submitted, LocalTypeOK
  <2>2. handle'[r] \notin DOMAIN query_to_result
    <3> SUFFICES ASSUME handle'[r] \in DOMAIN query_to_result PROVE FALSE
      OBVIOUS
    <3>1. PICK s \in Requests : Owns(s, handle'[r])
      BY <1>0 DEF HandlersClean
    <3>2. s # r /\ call'[s] \in Submitted /\ handle'[s] = handle'[r]
      BY <2>1, <3>1 DEF Owns
    <3> QED BY <2>1, <3>2 DEF IdsUnique
  <2>3. \A s \in Requests : Pending(s)' = Pending(s)
    BY <1>1, <2>1, <2>2 DEF Pending
  <2>4. \A s \in Requests : FlowOf(s)'
    BY <1>1, <2>1, <2>3, FlowFrame DEF FlowInv
  <2> QED BY <1>1, <2>4 DEF FlowInv, TargetMapped
<1> QED BY <1>2, <1>3 DEF SubmitClean

(* A step of a handler: refused, or the queue found, or an item taken, or   *)
(* the answer given.  What is on its way to the others stays.               *)
LEMMA FlowHandlerStep ==
  ASSUME KnownInv, CleanInv, FlowInv, NEW r \in Requests, PlainHandler(r)
  PROVE  FlowInv'
<1>0. /\ DeliveryOK /\ QueuesOK /\ HandlersOK /\ IdsUnique /\ TextsOK /\ HistoryOK /\ RoundClean /\ HandlersClean
  BY DEF KnownInv, ServiceInv, ServiceOK, CleanInv
<1>1. UNCHANGED <<call, handle, text, over, target>>
  BY DEF PlainHandler, HandlerFrame, vars
<1>2. FlowOf(r) /\ TargetMapped /\ \A s \in Requests : FlowOf(s)
  BY DEF FlowInv
<1>3. ASSUME conn[r] \in {"reading", "erasing"}
      PROVE  /\ call[r] \in Submitted /\ queue[r] # 0 /\ queue[r] \in 1 .. Len(queues)
             /\ handle[r] \in DOMAIN query_to_result /\ query_to_result[handle[r]] = queue[r]
             /\ \A s \in Requests : s # r /\ call[s] \in Submitted /\ handle[s] \in DOMAIN query_to_result
                  => query_to_result[handle[s]] # queue[r] /\ query_to_result[handle[s]] \in 1 .. Len(queues)
  <2>1. queue[r] # 0 /\ handle[r] \in DOMAIN query_to_result /\ query_to_result[handle[r]] = queue[r]
    BY <1>0, <1>3 DEF HandlersOK, HandlersClean
  <2>2. call[r] \in Submitted
    BY <2>1, QueueIsOwn
  <2>3. \A s \in Requests : s # r /\ call[s] \in Submitted => handle[s] # handle[r]
    BY <1>0, <2>2 DEF IdsUnique
  <2> QED BY <1>0, <2>1, <2>2, <2>3, EntriesDistinct DEF DeliveryOK
<1>4. ASSUME UNCHANGED <<query_to_result, queues>> PROVE \A s \in Requests : Pending(s)' = Pending(s)
  BY <1>1, <1>4 DEF Pending
<1>5. CASE Refuses(r)
  <2>1. \A s \in Requests : Pending(s)' = Pending(s)
    BY <1>4, <1>5 DEF Refuses
  <2>2. /\ \A s \in Requests : s # r => conn'[s] = conn[s] /\ reply'[s] = reply[s]
        /\ conn'[r] = "closed" /\ stream' = stream /\ query_to_result' = query_to_result
    BY <1>0, <1>5 DEF Refuses, HandlersOK, TextsOK
  <2>3. \A s \in Requests : s # r => FlowOf(s)'
    BY <1>1, <1>2, <2>1, <2>2, FlowFrame
  <2>4. FlowOf(r)'
    BY <1>1, <1>2, <2>2 DEF FlowOf
  <2> QED BY <1>1, <1>2, <2>2, <2>3, <2>4 DEF FlowInv, TargetMapped
<1>6. CASE FindQueue(r) /\ UNCHANGED <<query_to_result, queues, stream, reply>>
  <2>1. \A s \in Requests : Pending(s)' = Pending(s)
    BY <1>4, <1>6
  <2>2. /\ \A s \in Requests : s # r => conn'[s] = conn[s]
        /\ conn[r] = "new" /\ conn'[r] = "reading"
    BY <1>0, <1>6 DEF FindQueue, HandlersOK
  <2>3. \A s \in Requests : s # r => FlowOf(s)'
    BY <1>1, <1>2, <1>6, <2>1, <2>2, FlowFrame
  <2>4. TextFlows(r)'
    BY <1>1, <1>2, <1>6, <2>1, <2>2 DEF FlowOf, TextFlows
  <2>5. FlowOf(r)'
    BY <1>1, <1>2, <1>6, <2>2, <2>4 DEF FlowOf, NoReply
  <2> QED BY <1>1, <1>2, <1>6, <2>3, <2>5 DEF FlowInv, TargetMapped
<1>7. ASSUME HasItem(r), UNCHANGED query_to_result,
             NEW q \in QueueType, queues' = [queues EXCEPT ![queue[r]] = q]
      PROVE  /\ \A s \in Requests : s # r => Pending(s)' = Pending(s)
             /\ Pending(r) = queues[queue[r]].items /\ Pending(r)' = q.items
  <2>1. conn[r] = "reading"
    BY <1>7 DEF HasItem
  <2>2. PICK n \in 1 .. Len(queues) : n = queue[r]
    BY <1>3, <2>1
  <2>3. queues'[n] = q /\ \A m \in 1 .. Len(queues) : m # n => queues'[m] = queues[m]
    BY <1>0, <1>7, <2>2, QueueEdited
  <2>4. \A s \in Requests : s # r => Pending(s)' = Pending(s)
    BY <1>1, <1>3, <1>7, <2>1, <2>2, <2>3 DEF Pending
  <2>5. Pending(r) = queues[queue[r]].items /\ Pending(r)' = q.items
    BY <1>1, <1>3, <1>7, <2>1, <2>2, <2>3 DEF Pending
  <2> QED BY <2>4, <2>5
<1>8. CASE GetsEnd(r)
  <2>1. HasItem(r) /\ HeadItem(r).is_end /\ UNCHANGED query_to_result /\ queues' = [queues EXCEPT ![queue[r]] = Freed]
    BY <1>8 DEF GetsEnd, TakesEnd
  <2>2. Freed \in QueueType
    BY EmptySeq DEF Freed, QueueType
  <2>3. /\ \A s \in Requests : s # r => Pending(s)' = Pending(s)
        /\ Pending(r) = queues[queue[r]].items
    BY <1>7, <2>1, <2>2
  <2>4. /\ \A s \in Requests : s # r => conn'[s] = conn[s]
        /\ conn[r] = "reading" /\ conn'[r] = "erasing" /\ UNCHANGED <<stream, reply>>
    BY <1>0, <1>8, <2>1 DEF GetsEnd, HasItem, HandlersOK
  <2>5. \A s \in Requests : s # r => FlowOf(s)'
    BY <1>1, <1>2, <2>3, <2>4, FlowFrame
  <2>6. Len(stream[r]) = Len(text[r])
    <3>1. Pending(r) # <<>> /\ Head(Pending(r)).is_end /\ Pending(r) \in Seq(Item)
      BY <1>0, <2>1, <2>3, PendingItems DEF HasItem, HeadItem
    <3>2. PICK e \in 0 .. 1 : e = IF r \in over THEN 1 ELSE 0
      OBVIOUS
    <3>3. Flows(stream[r], Pending(r), text[r], e)
      BY <1>2, <2>4, <3>2 DEF FlowOf, TextFlows
    <3>4. text[r] \in Seq(Nat) /\ Len(stream[r]) \in Nat
      BY <1>0, LenProperties DEF TextsOK, HistoryOK
    <3> QED BY <3>1, <3>3, <3>4, FlowsTakeEnd
  <2>7. FlowOf(r)'
    BY <1>1, <1>2, <2>4, <2>6 DEF FlowOf, NoReply
  <2> QED BY <1>1, <1>2, <2>1, <2>5, <2>7 DEF FlowInv, TargetMapped
<1>9. CASE GetsToken(r)
  <2>q. PICK q : q = [freed |-> FALSE, items |-> Tail(queues[queue[r]].items)]
    OBVIOUS
  <2>1. HasItem(r) /\ ~ HeadItem(r).is_end /\ UNCHANGED query_to_result /\ queues' = [queues EXCEPT ![queue[r]] = q]
    BY <1>9, <2>q DEF GetsToken, TakesToken
  <2>2. q \in QueueType /\ HeadToken(r) \in Token /\ q.items = Tail(queues[queue[r]].items)
    BY <1>0, <2>1, <2>q, ItemTaken DEF QueueType
  <2>3. /\ \A s \in Requests : s # r => Pending(s)' = Pending(s)
        /\ Pending(r) = queues[queue[r]].items /\ Pending(r)' = q.items
    BY <1>7, <2>1, <2>2
  <2>4. /\ \A s \in Requests : s # r => stream'[s] = stream[s]
        /\ stream'[r] = Append(stream[r], HeadToken(r))
        /\ conn[r] = "reading" /\ UNCHANGED <<conn, reply>>
    BY <1>0, <1>9, <2>1 DEF GetsToken, HasItem, TextsOK
  <2>5. \A s \in Requests : s # r => FlowOf(s)'
    BY <1>1, <1>2, <2>3, <2>4, FlowFrame
  <2>6. PICK e \in 0 .. 1 : e = IF r \in over THEN 1 ELSE 0
    OBVIOUS
  <2>7. /\ Flows(Append(stream[r], HeadToken(r)), Tail(Pending(r)), text[r], e)
        /\ BeginsWith(text[r], Append(stream[r], HeadToken(r)))
    <3>1. Pending(r) # <<>> /\ ~ Head(Pending(r)).is_end /\ Pending(r) \in Seq(Item)
      BY <1>0, <2>1, <2>3, PendingItems DEF HasItem, HeadItem
    <3>2. HeadToken(r).pos = Head(Pending(r)).pos
      BY <2>3 DEF HeadToken, HeadItem
    <3>3. Flows(stream[r], Pending(r), text[r], e) /\ BeginsWith(text[r], stream[r])
      BY <1>2, <2>4, <2>6 DEF FlowOf, TextFlows
    <3>4. text[r] \in Seq(Nat) /\ stream[r] \in Seq(Token)
      BY <1>0 DEF TextsOK, HistoryOK
    <3> QED BY <2>2, <3>1, <3>2, <3>3, <3>4, FlowsTakeToken
  <2>8. TextFlows(r)'
    BY <1>1, <2>2, <2>3, <2>4, <2>6, <2>7 DEF TextFlows
  <2>9. FlowOf(r)'
    BY <1>1, <1>2, <2>4, <2>7, <2>8 DEF FlowOf, NoReply
  <2> QED BY <1>1, <1>2, <2>1, <2>5, <2>9 DEF FlowInv, TargetMapped
<1>10. CASE Answers(r)
  <2>1. /\ conn[r] = "erasing" /\ queues' = queues /\ stream' = stream
        /\ query_to_result' = [id \in {i \in DOMAIN query_to_result :
                                   query_to_result[i] # queue[r]} |-> query_to_result[id]]
    BY <1>10 DEF Answers, ErasesEntry, resultVars
  <2>2. \A s \in Requests : s # r => Pending(s)' = Pending(s)
    BY <1>1, <1>3, <2>1 DEF Pending
  <2>3. /\ \A s \in Requests : s # r => conn'[s] = conn[s] /\ reply'[s] = reply[s]
        /\ conn'[r] = "closed"
    BY <1>0, <1>10 DEF Answers, HandlersOK, TextsOK
  <2>4. \A s \in Requests : s # r => FlowOf(s)'
    BY <1>1, <1>2, <2>1, <2>2, <2>3, FlowFrame
  <2>5. FlowOf(r)'
    BY <1>1, <1>2, <2>1, <2>3 DEF FlowOf
  <2>6. target # NoTarget => target.queue # queue[r]
    <3>1. r \in over /\ queue[r] # 0
      BY <1>0, <1>3, <2>1 DEF HandlersClean, Ending
    <3> QED BY <1>0, <3>1, QueueIsOwn DEF RoundClean
  <2>7. TargetMapped'
    BY <1>1, <1>2, <2>1, <2>6 DEF TargetMapped
  <2> QED BY <2>4, <2>5, <2>7 DEF FlowInv
<1> QED BY <1>5, <1>6, <1>8, <1>9, <1>10 DEF PlainHandler

(* Nothing is on its way in the beginning.                                  *)
LEMMA FlowInit == ServiceInit => FlowInv
<1> SUFFICES ASSUME ServiceInit PROVE FlowInv
  OBVIOUS
<1>1. ASSUME NEW r \in Requests PROVE FlowOf(r)
  <2>1. /\ stream[r] = <<>> /\ text[r] = <<>> /\ Pending(r) = <<>> /\ r \notin over
        /\ conn[r] = "new" /\ reply[r] = NoReply
    BY DEF ServiceInit, Init, Pending, Submitted
  <2>2. Len(<<>>) = 0
    BY EmptySeq
  <2>3. TextFlows(r) /\ BeginsWith(text[r], stream[r])
    BY <2>1, <2>2 DEF TextFlows, Flows, BeginsWith
  <2> QED BY <2>1, <2>3 DEF FlowOf
<1>2. TargetMapped
  BY DEF ServiceInit, TargetMapped
<1> QED BY <1>1, <1>2 DEF FlowInv

(* The steps of a service without mishaps and streams.                      *)
PlainStep ==
  \/ UNCHANGED allVars \/ RoundStepClean \/ Infer_Sample \/ Infer_Commit
  \/ \E x \in todo : FindsQueue(x) \/ MakesQueue(x)
  \/ EmplaceItem
  \/ \E r \in Requests : SubmitClean(r) \/ PlainHandler(r)

(* There are no other steps.                                                *)
LEMMA PlainStepCases ==
  ASSUME Plain, KnownInv, CleanInv, FlowInv, [ServiceNext]_allVars
  PROVE  PlainStep
<1>1. CASE InferStep
  BY <1>1, InferCleanSteps DEF PlainStep, Plain
<1>2. ASSUME NEW r \in Requests, HandlerStep(r) \/ Mishap(r) PROVE PlainStep
  BY <1>2, PlainSteps DEF PlainStep
<1>3. CASE UNCHANGED allVars \/ Quiet
  BY <1>3 DEF Quiet, PlainStep
<1> QED BY <1>1, <1>2, <1>3 DEF ServiceNext

(* Every step keeps the texts flowing.                                      *)
LEMMA FlowStep ==
  ASSUME KnownInv, CleanInv, FlowInv, IdsUnique', PlainStep
  PROVE  FlowInv'
<1>1. CASE \E x \in todo : MakesQueue(x)
  BY <1>1, FlowMakeStep
<1>2. CASE \E r \in Requests : SubmitClean(r) \/ PlainHandler(r)
  BY <1>2, FlowSubmitStep, FlowHandlerStep
<1> QED BY <1>1, <1>2, FlowQuietStep, FlowEmplaceStep DEF PlainStep

-----------------------------------------------------------------------------
(* The positions of a text so far, compared with the prefix length of the   *)
(* query it is generated from.                                              *)
UpTo(r, n)  == \A i \in 1 .. Len(text[r]) : text[r][i] <= n
Below(r, n) == \A i \in 1 .. Len(text[r]) : text[r][i] < n

(* A text has no token at its query's prefix length yet, except while the   *)
(* token sampled there has been enqueued and not committed.                 *)
PosInv ==
  /\ \A id \in DOMAIN query_map :
       /\ UpTo(query_map[id].req, query_map[id].prefix_len)
       /\ phase # "deliver" \/ id \notin ResultIds => Below(query_map[id].req, query_map[id].prefix_len)
  /\ \A x \in todo : ~ IsEnd(x) => Below(x.req, x.prefix_len)
  /\ target # NoTarget /\ ~ IsEnd(target.item) => Below(target.item.req, target.item.prefix_len)

(* A sampled token is one of a live query, at its prefix length.            *)
ResultsPlaced ==
  \A x \in results : ~ IsEnd(x) =>
    /\ x.id \in DOMAIN query_map /\ query_map[x.id].req = x.req
    /\ query_map[x.id].prefix_len = x.prefix_len /\ x.prefix_len < MaxContextLen

(* The pointers of a round's batch are to the states in the table.          *)
LEMMA ResultPosition == KnownInv /\ CleanInv => ResultsPlaced
<1> SUFFICES ASSUME KnownInv, CleanInv, NEW x \in results, ~ IsEnd(x)
             PROVE  /\ x.id \in DOMAIN query_map /\ query_map[x.id].req = x.req
                    /\ query_map[x.id].prefix_len = x.prefix_len /\ x.prefix_len < MaxContextLen
  BY DEF ResultsPlaced
<1>0. /\ RoundClean /\ RoundShape /\ LocalTypeOK /\ HandleInv /\ IdsUnique /\ TableTypeOK /\ OutputInv
  BY DEF KnownInv, CleanInv, ServiceInv, EngineInv, TableInv, DecoderInv
<1>1. ~ x.eos
  BY DEF IsEnd
<1>2. PICK q \in input.queries : x.id = q.id /\ x.req = q.req /\ x.prefix_len = q.prefix_len
  BY <1>0, <1>1 DEF RoundShape
<1>3. PICK b \in batch : q = ProcInput(b) /\ ~ IsSaturated(b.state)
  BY <1>0, <1>2 DEF RoundShape
<1>4. b.id \in DOMAIN query_map /\ b \in Pointer
  BY <1>0 DEF RoundClean, LocalTypeOK
<1>5. /\ query_map[b.id] \in QueryState /\ b.state \in QueryState
      /\ Owns(query_map[b.id].req, b.id) /\ Owns(b.state.req, b.id)
  BY <1>0, <1>4 DEF HandleInv, TableTypeOK, Pointer
<1>6. query_map[b.id].req = b.state.req
  BY <1>0, <1>5 DEF IdsUnique, Owns, QueryState
<1>7. query_map[b.id] = b.state
  BY <1>0, <1>4, <1>6 DEF OutputInv
<1>8. b.state.prefix_len < MaxContextLen
  <2>1. b.state.prefix_len \in Nat /\ MaxContextLen \in Nat
    BY <1>5, EngineAssumption DEF QueryState
  <2> QED BY <1>3, <2>1 DEF IsSaturated
<1> QED BY <1>2, <1>3, <1>4, <1>7, <1>8 DEF ProcInput

(* Steps that change nothing the positions are about.                       *)
LEMMA PosFrame ==
  ASSUME PosInv, UNCHANGED <<query_map, results, phase, todo, target, text>>
  PROVE  PosInv'
BY DEF PosInv, UpTo, Below, ResultIds, IsEnd

(* An enqueued token stands at its query's prefix length, and no other item *)
(* of the round is of the same request.                                     *)
LEMMA PosEmplaceStep ==
  ASSUME KnownInv, CleanInv, PosInv, EmplaceItem
  PROVE  PosInv'
<1>0. /\ RoundClean /\ LocalTypeOK /\ HandleInv /\ TableTypeOK /\ DeliveryOK /\ QueuesOK /\ HistoryOK
  BY DEF KnownInv, CleanInv, ServiceInv, ServiceOK, EngineInv, TableInv
<1>1. UNCHANGED <<query_map, results, phase, todo>> /\ target' = NoTarget /\ target # NoTarget
  BY DEF EmplaceItem, vars
<1>2. CASE IsEnd(target.item)
  <2>1. text' = text
    BY <1>2 DEF EmplaceItem
  <2> QED BY <1>1, <2>1 DEF PosInv, UpTo, Below, ResultIds, IsEnd
<1>3. CASE ~ IsEnd(target.item)
  <2>x. PICK x \in results : x = target.item
    BY <1>0, <1>1 DEF DeliveryOK
  <2>1. /\ x.req \in Requests /\ x.prefix_len \in Nat /\ Owns(x.req, x.id) /\ phase = "deliver"
        /\ text' = [text EXCEPT ![x.req] = Append(text[x.req], x.prefix_len)]
    BY <1>0, <1>1, <1>3, <2>x, ItemEmplaced DEF HandleInv, DeliveryOK, EmplaceItem
  <2>2. \A r \in Requests : r # x.req => text'[r] = text[r]
    BY <1>0, <2>1 DEF HistoryOK
  <2>3. ASSUME NEW n \in Nat, x.prefix_len <= n, UpTo(x.req, n) PROVE UpTo(x.req, n)'
    <3>1. PICK t \in Seq(Nat) : t = text[x.req]
      BY <1>0, <2>1 DEF HistoryOK
    <3>2. text'[x.req] = Append(t, x.prefix_len)
      BY <1>0, <2>1, <3>1 DEF HistoryOK
    <3>3. PICK l \in Nat : l = Len(t)
      BY <3>1, LenProperties
    <3>4. PICK t2 : t2 = Append(t, x.prefix_len)
      OBVIOUS
    <3>5. Len(t2) = l + 1 /\ t2[l + 1] = x.prefix_len /\ \A i \in 1 .. l : t2[i] = t[i]
      BY <2>1, <3>1, <3>3, <3>4, AppendProperties
    <3>6. \A i \in 1 .. l + 1 : i \in 1 .. l \/ i = l + 1
      BY <3>3
    <3>7. \A i \in 1 .. l : t[i] <= n
      BY <2>3, <3>1, <3>3 DEF UpTo
    <3>8. \A i \in 1 .. l + 1 : t2[i] <= n
      BY <2>3, <3>5, <3>6, <3>7
    <3> QED BY <3>2, <3>4, <3>5, <3>8 DEF UpTo
  <2>4. \A y \in todo : y.req # x.req /\ y.req \in Requests
    <3> SUFFICES ASSUME NEW y \in todo PROVE y.req # x.req /\ y.req \in Requests
      OBVIOUS
    <3>1. y \in results /\ y.req \in Requests /\ Owns(y.req, y.id) /\ y # x
      BY <1>0, <1>1, <2>x DEF HandleInv, RoundClean, DeliveryOK, LocalTypeOK
    <3>2. y.id # x.id
      BY <1>0, <2>x, <3>1 DEF RoundClean
    <3> QED BY <2>1, <3>1, <3>2 DEF Owns
  <2>5. /\ x.id \in DOMAIN query_map /\ query_map[x.id].req = x.req
        /\ query_map[x.id].prefix_len = x.prefix_len
    BY <1>3, <2>x, ResultPosition DEF ResultsPlaced
  <2>6. \A id \in DOMAIN query_map : id # x.id => query_map[id].req # x.req /\ query_map[id].req \in Requests
    BY <1>0, <2>1 DEF HandleInv, Owns, TableTypeOK, QueryState
  <2>7. x.id \in ResultIds
    BY <2>x DEF ResultIds
  <2>8. \A y \in todo : ~ IsEnd(y) => Below(y.req, y.prefix_len)'
    BY <2>2, <2>4 DEF PosInv, Below
  <2>9. ASSUME NEW id \in DOMAIN query_map, id # x.id
        PROVE  /\ UpTo(query_map[id].req, query_map[id].prefix_len)'
               /\ id \notin ResultIds => Below(query_map[id].req, query_map[id].prefix_len)'
    BY <1>1, <2>2, <2>6, <2>9 DEF PosInv, UpTo, Below
  <2>10. UpTo(query_map[x.id].req, query_map[x.id].prefix_len)'
    <3>1. UpTo(x.req, x.prefix_len)
      BY <2>5 DEF PosInv
    <3>2. UpTo(x.req, x.prefix_len)'
      BY <2>1, <2>3, <3>1
    <3> QED BY <1>1, <2>5, <3>2 DEF UpTo
  <2>11. ResultIds' = ResultIds
    BY <1>1 DEF ResultIds
  <2> QED BY <1>1, <2>1, <2>7, <2>8, <2>9, <2>10, <2>11 DEF PosInv, IsEnd
<1> QED BY <1>2, <1>3

(* The commit moves the prefix length of a sampled query past its token.    *)
LEMMA PosCommitStep ==
  ASSUME KnownInv, PosInv, Infer_Commit
  PROVE  PosInv'
<1>0. HandleInv /\ TableTypeOK /\ OutputInv /\ HistoryOK
  BY DEF KnownInv, ServiceInv, ServiceOK, EngineInv, TableInv, DecoderInv
<1>1. /\ todo' = {} /\ target' = NoTarget /\ text' = text /\ phase' = "idle"
      /\ query_map' = [id \in DOMAIN query_map \ EndedIds |->
                         IF id \in ResultIds THEN Advanced(query_map[id]) ELSE query_map[id]]
  BY DEF Infer_Commit, CommitInferenceResult, Update, serviceVars, deliveryVars, historyVars
<1>2. ASSUME NEW id \in DOMAIN query_map'
      PROVE  Below(query_map'[id].req, query_map'[id].prefix_len)
  <2>1. id \in DOMAIN query_map /\ id \notin EndedIds
    BY <1>1
  <2>s. PICK s \in QueryState : s = query_map[id]
    BY <1>0, <2>1 DEF TableTypeOK
  <2>2. s.req \in Requests /\ s.prefix_len \in Nat /\ s.decoder_tokens \in Nat /\ s.decoder_tokens > 0
    <3>1. s.req \in Requests /\ s.prefix_len \in Nat /\ s.decoder_tokens \in Nat
      BY DEF QueryState
    <3> QED BY <1>0, <2>1, <2>s, <3>1 DEF OutputInv
  <2>3. UpTo(s.req, s.prefix_len) /\ (id \notin ResultIds => Below(s.req, s.prefix_len))
    BY <2>1, <2>s DEF PosInv
  <2>4. CASE id \in ResultIds
    <3>1. query_map'[id] = Advanced(s)
      BY <1>1, <2>1, <2>4, <2>s
    <3>2. Advanced(s).req = s.req /\ Advanced(s).prefix_len = s.prefix_len + s.decoder_tokens
      BY AdvancedFields
    <3>3. text[s.req] \in Seq(Nat)
      BY <1>0, <2>2 DEF HistoryOK
    <3>4. \A i \in 1 .. Len(text[s.req]) : text[s.req][i] \in Nat
      BY <3>3, ElementOfSeq
    <3>5. Below(s.req, s.prefix_len + s.decoder_tokens)
      BY <2>2, <2>3, <3>4 DEF UpTo, Below
    <3> QED BY <3>1, <3>2, <3>5
  <2>5. CASE id \notin ResultIds
    BY <1>1, <2>1, <2>3, <2>5, <2>s
  <2> QED BY <2>4, <2>5
<1>3. ASSUME NEW id \in DOMAIN query_map'
      PROVE  /\ UpTo(query_map[id].req, query_map[id].prefix_len)'
             /\ Below(query_map[id].req, query_map[id].prefix_len)'
  <2>1. /\ query_map'[id].req \in Requests /\ query_map'[id].prefix_len \in Nat
    <3>1. id \in DOMAIN query_map /\ query_map[id] \in QueryState
      BY <1>0, <1>1 DEF TableTypeOK
    <3>2. /\ query_map[id].req \in Requests /\ query_map[id].prefix_len \in Nat
          /\ query_map[id].decoder_tokens \in Nat
      BY <3>1 DEF QueryState
    <3> QED BY <1>1, <3>1, <3>2, AdvancedFields
  <2>2. \A i \in 1 .. Len(text[query_map'[id].req]) : text[query_map'[id].req][i] \in Nat
    BY <1>0, <2>1, ElementOfSeq DEF HistoryOK
  <2> QED BY <1>1, <1>2, <2>1, <2>2 DEF UpTo, Below
<1> QED BY <1>1, <1>3 DEF PosInv

(* Every step keeps the positions in order.                                 *)
LEMMA PosStep ==
  ASSUME Mishapless, KnownInv, CleanInv, FlowInv, PosInv, ResultsPlaced', PlainStep
  PROVE  PosInv'
<1>0. RoundShape /\ DeliveryOK /\ TableTypeOK
  BY DEF KnownInv, ServiceInv, ServiceOK, EngineInv, TableInv, DecoderInv
<1>1. CASE UNCHANGED allVars \/ \E r \in Requests : PlainHandler(r)
  <2>1. UNCHANGED <<query_map, results, phase, todo, target, text>>
    BY <1>1 DEF allVars, vars, serviceVars, deliveryVars, historyVars, PlainHandler, HandlerFrame
  <2> QED BY <2>1, PosFrame
<1>2. CASE RoundStepClean
  <2>1. UNCHANGED <<results, todo, target, text>>
    BY <1>2 DEF RoundStepClean, FetchBatch, ReadBatch, Compute, localVars, serviceVars, deliveryVars, historyVars
  <2>2. phase # "deliver" /\ phase' # "deliver"
    BY <1>2 DEF RoundStepClean, FetchBatch, ReadBatch, Compute
  <2>3. query_map' = query_map
    <3>1. CASE Compute
      BY <1>0, <3>1, DecoderTable DEF Mishapless, tableVars
    <3> QED BY <1>2, <3>1 DEF RoundStepClean, FetchBatch, ReadBatch, tableVars
  <2> QED BY <2>1, <2>2, <2>3 DEF PosInv, UpTo, Below, ResultIds, IsEnd
<1>3. CASE Infer_Sample
  <2>1. /\ UNCHANGED <<query_map, target, text>> /\ todo' = results' /\ phase = "sample" /\ phase' = "deliver"
    BY <1>3 DEF Infer_Sample, Sample, tableVars, historyVars
  <2>2. target = NoTarget
    BY <1>0, <2>1 DEF DeliveryOK
  <2>3. \A id \in DOMAIN query_map : /\ UpTo(query_map[id].req, query_map[id].prefix_len)
                                     /\ Below(query_map[id].req, query_map[id].prefix_len)
    BY <2>1 DEF PosInv
  <2>4. ASSUME NEW x \in results', ~ IsEnd(x)
        PROVE  Below(x.req, x.prefix_len)
    <3>1. /\ x.id \in DOMAIN query_map' /\ query_map'[x.id].req = x.req
          /\ query_map'[x.id].prefix_len = x.prefix_len
      BY <2>4 DEF ResultsPlaced, IsEnd
    <3> QED BY <2>1, <2>3, <3>1
  <2> QED BY <2>1, <2>2, <2>3, <2>4 DEF PosInv, UpTo, Below, IsEnd
<1>4. ASSUME NEW x \in todo, FindsQueue(x) \/ MakesQueue(x) PROVE PosInv'
  <2>1. /\ UNCHANGED <<query_map, results, phase, text>> /\ todo' = todo \ {x} /\ target'.item = x
    BY <1>4 DEF FindsQueue, MakesQueue, vars, historyVars
  <2> QED BY <2>1 DEF PosInv, UpTo, Below, ResultIds, IsEnd
<1>5. ASSUME NEW r \in Requests, SubmitClean(r) PROVE PosInv'
  <2>1. UNCHANGED <<todo, target, text>>
    BY <1>5 DEF SubmitClean, serviceVars, deliveryVars, historyVars
  <2>2. CASE CallOnly(r)
    <3>1. UNCHANGED <<query_map, results, phase>>
      BY <2>2 DEF CallOnly, tableVars, localVars
    <3> QED BY <2>1, <3>1, PosFrame
  <2>3. ASSUME NEW enc \in EncLens, NEW dec \in DecLens, NEW limit \in OutLimits, AddQuery_Add(r, enc, dec, limit)
        PROVE  PosInv'
    <3>1. PICK p \in 0 .. MaxProcId : Add(r, enc, dec, limit, p)
      BY <2>3 DEF AddQuery_Add
    <3>2. UNCHANGED <<results, phase>> /\ call[r] = "checked"
      BY <2>3 DEF AddQuery_Add, engineVars
    <3>3. /\ DOMAIN query_map' = DOMAIN query_map \cup {next_query_id}
          /\ \A id \in DOMAIN query_map' :
               IF id = next_query_id THEN query_map'[id].req = r ELSE query_map'[id] = query_map[id]
      BY <2>3, <3>1 DEF AddQuery_Add, Add, NewState
    <3>4. text[r] = <<>> /\ Len(text[r]) = 0
      BY <3>2, EmptySeq DEF FlowInv, FlowOf, Submitted
    <3>5. 1 .. 0 = {}
      OBVIOUS
    <3>6. \A n : UpTo(r, n) /\ Below(r, n)
      BY <3>4, <3>5 DEF UpTo, Below
    <3>7. ASSUME NEW id \in DOMAIN query_map'
          PROVE  /\ UpTo(query_map'[id].req, query_map'[id].prefix_len)
                 /\ phase # "deliver" \/ id \notin ResultIds => Below(query_map'[id].req, query_map'[id].prefix_len)
      BY <3>3, <3>6 DEF PosInv
    <3>8. ResultIds' = ResultIds
      BY <3>2 DEF ResultIds
    <3> QED BY <2>1, <3>2, <3>7, <3>8 DEF PosInv, UpTo, Below, IsEnd
  <2> QED BY <1>5, <2>2, <2>3 DEF SubmitClean
<1> QED BY <1>1, <1>2, <1>3, <1>4, <1>5, PosEmplaceStep, PosCommitStep DEF PlainStep

(* There is no text in the beginning.                                       *)
LEMMA PosInit == ServiceInit => PosInv
BY DEF ServiceInit, Init, TableInit, PosInv

-----------------------------------------------------------------------------
(* The answer to a client that has read the whole text.                     *)
LEMMA ShownText ==
  ASSUME NEW s \in Seq(Token), NEW t \in Seq(Nat), BeginsWith(t, s), Len(s) = Len(t)
  PROVE  PosOf(SubSeq(s, 1, GetUtf8EndPos(s))) = Shown(t)
<1>m. PICK m \in Nat : m = Len(s) /\ m = Len(t)
  BY LenProperties
<1>e. PICK e : e = GetUtf8EndPos(s)
  OBVIOUS
<1>1. \A i \in 1 .. m : s[i].pos = t[i]
  BY <1>m DEF BeginsWith
<1>2. (s # <<>> <=> m # 0) /\ (t # <<>> <=> m # 0)
  BY <1>m, EmptySeq
<1>3. m # 0 => s[m].pos = t[m]
  BY <1>1
<1>4. e \in 0 .. m
  BY <1>m, <1>e, Utf8EndPos
<1>5. PosOf(SubSeq(s, 1, e)) = [i \in 1 .. e |-> t[i]]
  <2>1. SubSeq(s, 1, e) = [i \in 1 .. e |-> s[i]]
    BY <1>m, <1>4
  <2>2. PosOf(SubSeq(s, 1, e)) = [i \in 1 .. e |-> s[i].pos]
    BY <2>1 DEF PosOf
  <2>3. \A i \in 1 .. e : s[i].pos = t[i]
    BY <1>1, <1>4
  <2> QED BY <2>2, <2>3
<1>6. CASE m # 0 /\ t[m] \in SplitPositions
  <2>1. e = m - 1
    BY <1>m, <1>e, <1>2, <1>3, <1>6 DEF GetUtf8EndPos
  <2>2. Shown(t) = SubSeq(t, 1, e)
    BY <1>m, <1>2, <1>6, <2>1 DEF Shown
  <2>3. SubSeq(t, 1, e) = [i \in 1 .. e |-> t[i]]
    BY <1>m, <1>4
  <2> QED BY <1>e, <1>5, <2>2, <2>3
<1>7. CASE ~ (m # 0 /\ t[m] \in SplitPositions)
  <2>1. e = m
    BY <1>m, <1>e, <1>2, <1>3, <1>7 DEF GetUtf8EndPos
  <2>2. Shown(t) = t
    BY <1>m, <1>2, <1>7 DEF Shown
  <2>3. t = [i \in 1 .. e |-> t[i]]
    BY <1>m, <2>1
  <2> QED BY <1>e, <1>5, <2>2, <2>3
<1> QED BY <1>6, <1>7

(* Everything else is hidden from the abstract specification.               *)
LEMMA AbstractStutter ==
  ASSUME UNCHANGED <<text, over, reply>>
  PROVE  UNCHANGED Abstract!textVars
<1>1. \A r \in Requests : ReplyOf(r)' = ReplyOf(r)
  BY DEF ReplyOf, PosOf
<1> QED BY <1>1 DEF Abstract!textVars

(* What the abstract specification sees of a reply that is not there.       *)
LEMMA AbstractNoReply ==
  ASSUME NEW r \in Requests, reply[r] = NoReply
  PROVE  ReplyOf(r) = Abstract!NoReply
<1>1. PosOf(<<>>) = <<>>
  BY DEF PosOf
<1> QED BY <1>1 DEF NoReply, ReplyOf, Abstract!NoReply

(* Enqueuing an item generates a token of its request's text, or ends it.   *)
LEMMA AbstractEmplace ==
  ASSUME KnownInv, CleanInv, FlowInv, PosInv, EmplaceItem
  PROVE  Abstract!TextNext
<1>0. /\ RoundClean /\ LocalTypeOK /\ HandleInv /\ DeliveryOK /\ QueuesOK /\ HistoryOK /\ HandlersClean /\ TextsOK
  BY DEF KnownInv, CleanInv, ServiceInv, ServiceOK, EngineInv
<1>1. target # NoTarget /\ reply' = reply
  BY DEF EmplaceItem, handlerVars
<1>x. PICK x \in results : x = target.item
  BY <1>0, <1>1 DEF DeliveryOK
<1>r. PICK r \in Requests : r = x.req
  BY <1>0, <1>1, <1>x, ItemEmplaced
<1>2. x.prefix_len \in Nat /\ r \notin over /\ Owns(r, x.id)
  BY <1>0, <1>1, <1>x, <1>r, ItemEmplaced DEF HandleInv, RoundClean
<1>3. conn[r] # "closed"
  BY <1>0, <1>2 DEF HandlersClean, Owns, Ending
<1>4. ReplyOf(r) = Abstract!NoReply
  BY <1>3, AbstractNoReply DEF FlowInv, FlowOf
<1>5. \A s \in Requests : ReplyOf(s)' = ReplyOf(s)
  BY <1>1 DEF ReplyOf, PosOf
<1>6. CASE IsEnd(x)
  <2>1. over' = over \cup {r} /\ text' = text
    BY <1>x, <1>r, <1>6 DEF EmplaceItem
  <2>2. Abstract!End(r)
    BY <1>2, <1>4, <1>5, <2>1 DEF Abstract!End
  <2> QED BY <2>2 DEF Abstract!TextNext
<1>7. CASE ~ IsEnd(x)
  <2>1. text' = [text EXCEPT ![r] = Append(text[r], x.prefix_len)] /\ over' = over
    BY <1>x, <1>r, <1>7 DEF EmplaceItem
  <2>2. x.prefix_len \in 0 .. MaxContextLen
    <3>1. x.prefix_len < MaxContextLen
      BY <1>7, ResultPosition DEF ResultsPlaced
    <3> QED BY <1>2, <3>1, EngineAssumption
  <2>3. \A i \in DOMAIN text[r] : text[r][i] < x.prefix_len
    <3>1. DOMAIN text[r] = 1 .. Len(text[r])
      BY <1>0 DEF HistoryOK
    <3>2. Below(r, x.prefix_len)
      BY <1>1, <1>x, <1>r, <1>7 DEF PosInv
    <3> QED BY <3>1, <3>2 DEF Below
  <2>4. Abstract!Generate(r)
    BY <1>2, <1>4, <1>5, <2>1, <2>2, <2>3 DEF Abstract!Generate
  <2> QED BY <2>4 DEF Abstract!TextNext
<1> QED BY <1>6, <1>7

(* A handler's step refuses its request, or answers it with its whole text, *)
(* or shows the client nothing.                                             *)
LEMMA AbstractHandler ==
  ASSUME KnownInv, CleanInv, FlowInv, NEW r \in Requests, PlainHandler(r)
  PROVE  Abstract!TextNext \/ UNCHANGED Abstract!textVars
<1>0. RoundClean /\ HandlersClean /\ HistoryOK /\ TextsOK /\ HandlersOK /\ FlowOf(r)
  BY DEF KnownInv, CleanInv, ServiceInv, ServiceOK, FlowInv
<1>1. UNCHANGED <<text, over, call>>
  BY DEF PlainHandler, HandlerFrame, vars
<1>2. CASE Refuses(r)
  <2>1. PICK c \in {"error.busy", "error.empty_request"} : reply' = [reply EXCEPT ![r] = [ret |-> c, text |-> <<>>]]
    BY <1>2 DEF Refuses
  <2>2. call[r] \notin Submitted /\ conn[r] = "new"
    BY <1>2 DEF Refuses
  <2>3. r \notin over /\ text[r] = <<>> /\ ReplyOf(r) = Abstract!NoReply
    BY <1>0, <2>2, AbstractNoReply DEF RoundClean, FlowOf
  <2>4. reply'[r] = [ret |-> c, text |-> <<>>] /\ \A s \in Requests : s # r => reply'[s] = reply[s]
    BY <1>0, <2>1 DEF TextsOK
  <2>5. ReplyOf(r)' = [ret |-> c, text |-> <<>>] /\ \A s \in Requests : s # r => ReplyOf(s)' = ReplyOf(s)
    BY <2>4 DEF ReplyOf, PosOf
  <2>6. Abstract!Refuse(r)
    BY <1>1, <2>3, <2>5 DEF Abstract!Refuse
  <2> QED BY <2>6 DEF Abstract!TextNext
<1>3. CASE Answers(r)
  <2>1. /\ conn[r] = "erasing"
        /\ reply' = [reply EXCEPT ![r] = [ret |-> "succ", text |-> SubSeq(stream[r], 1, GetUtf8EndPos(stream[r]))]]
    BY <1>3 DEF Answers, ErasesEntry
  <2>2. ReplyOf(r) = Abstract!NoReply
    BY <1>0, <2>1, AbstractNoReply DEF FlowOf
  <2>3. r \in over
    <3>1. queue[r] # 0
      BY <1>0, <2>1 DEF HandlersOK
    <3> QED BY <1>0, <2>1, <3>1, QueueIsOwn DEF HandlersClean, Ending
  <2>4. PosOf(SubSeq(stream[r], 1, GetUtf8EndPos(stream[r]))) = Shown(text[r])
    <3>1. stream[r] \in Seq(Token) /\ text[r] \in Seq(Nat)
      BY <1>0 DEF TextsOK, HistoryOK
    <3>2. BeginsWith(text[r], stream[r]) /\ Len(stream[r]) = Len(text[r])
      BY <1>0, <2>1 DEF FlowOf
    <3> QED BY <3>1, <3>2, ShownText
  <2>5. /\ reply'[r] = [ret |-> "succ", text |-> SubSeq(stream[r], 1, GetUtf8EndPos(stream[r]))]
        /\ \A s \in Requests : s # r => reply'[s] = reply[s]
    BY <1>0, <2>1 DEF TextsOK
  <2>6. /\ ReplyOf(r)' = [ret |-> "succ", text |-> Shown(text[r])]
        /\ \A s \in Requests : s # r => ReplyOf(s)' = ReplyOf(s)
    <3>1. PICK u : u = SubSeq(stream[r], 1, GetUtf8EndPos(stream[r]))
      OBVIOUS
    <3>0. reply'[r] = [ret |-> "succ", text |-> u]
      BY <2>5, <3>1, Zenon
    <3>2. reply'[r].ret = "succ" /\ reply'[r].text = u
      BY <3>0
    <3>3. ReplyOf(r)' = [ret |-> "succ", text |-> PosOf(u)]
      BY <3>2 DEF ReplyOf, PosOf
    <3>4. \A s \in Requests : s # r => ReplyOf(s)' = ReplyOf(s)
      BY <2>5 DEF ReplyOf, PosOf
    <3>5. PosOf(u) = Shown(text[r])
      BY <2>4, <3>1
    <3> QED BY <3>3, <3>4, <3>5
  <2>7. Abstract!Answer(r)
    BY <1>1, <2>2, <2>3, <2>6 DEF Abstract!Answer
  <2> QED BY <2>7 DEF Abstract!TextNext
<1>4. CASE GetsEnd(r) \/ GetsToken(r) \/ (FindQueue(r) /\ UNCHANGED <<query_to_result, queues, stream, reply>>)
  <2>1. reply' = reply
    BY <1>4 DEF GetsEnd, GetsToken
  <2> QED BY <1>1, <2>1, AbstractStutter
<1> QED BY <1>2, <1>3, <1>4 DEF PlainHandler

(* Every step is a step of TextService or shows nothing.                    *)
LEMMA AbstractStep ==
  ASSUME KnownInv, CleanInv, FlowInv, PosInv, PlainStep
  PROVE  [Abstract!TextNext]_(Abstract!textVars)
<1>1. CASE UNCHANGED allVars \/ RoundStepClean \/ Infer_Sample \/ Infer_Commit
           \/ (\E x \in todo : FindsQueue(x) \/ MakesQueue(x)) \/ \E r \in Requests : SubmitClean(r)
  <2>1. UNCHANGED <<text, over, reply>>
    BY <1>1 DEF allVars, RoundStepClean, Infer_Sample, Infer_Commit, FindsQueue, MakesQueue, SubmitClean,
                serviceVars, handlerVars, historyVars
  <2> QED BY <2>1, AbstractStutter
<1> QED BY <1>1, AbstractEmplace, AbstractHandler DEF PlainStep

(* No text and no reply in the beginning.                                   *)
LEMMA AbstractInit == ServiceInit => Abstract!TextInit
<1> SUFFICES ASSUME ServiceInit PROVE Abstract!TextInit
  OBVIOUS
<1>1. \A r \in Requests : ReplyOf(r) = Abstract!NoReply
  BY AbstractNoReply DEF ServiceInit
<1> QED BY <1>1 DEF ServiceInit, Abstract!TextInit

(* Without mishaps and streams, the service, with its threads, ids, queues  *)
(* and batches, implements TextService: whatever the interleaving, an       *)
(* answer with "succ" is the whole text generated for this very request, in *)
(* order, no token twice, cut at its last complete character.               *)
THEOREM ServiceImplementsText ==
  ASSUME Plain
  PROVE  ServiceSpec /\ []NoIdReused => ImplementsTextService
<1>1. ServiceSpec /\ []NoIdReused => [](KnownInv /\ CleanInv)
  BY CleanInvariant DEF Plain
<1>2. KnownInv => IdsUnique
  BY DEF KnownInv
<1>3. KnownInv /\ CleanInv /\ FlowInv /\ PosInv /\ [ServiceNext]_allVars /\ IdsUnique' /\ ResultsPlaced'
        => FlowInv' /\ PosInv'
  BY PlainStepCases, FlowStep, PosStep DEF Plain
<1>4. KnownInv /\ CleanInv /\ FlowInv /\ PosInv /\ [ServiceNext]_allVars
        => [Abstract!TextNext]_(Abstract!textVars)
  BY PlainStepCases, AbstractStep
<1>5. ServiceInit => FlowInv /\ PosInv /\ Abstract!TextInit
  BY FlowInit, PosInit, AbstractInit
<1> QED BY <1>1, <1>2, <1>3, <1>4, <1>5, ResultPosition, PTL
        DEF ServiceSpec, ImplementsTextService, Abstract!TextSpec

=============================================================================
