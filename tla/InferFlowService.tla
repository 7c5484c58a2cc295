-------------------------- MODULE InferFlowService --------------------------
(***************************************************************************)
(* The service around the engine: class InferFlowServiceCore of            *)
(* src/src/service/inferflow_service.{h,cc}.  One thread runs Infer in a   *)
(* loop and hands every sampled token to the queue of its query; every     *)
(* HTTP request has a handler thread, HandleRequest_Inner, that submits    *)
(* the query, polls for its queue, reads it and answers the client.        *)
(*                                                                         *)
(* query_to_result_ maps a query id to a queue on the heap.  The map is    *)
(* used under result_lock_, the queues are not.  A map node and the queue  *)
(* it was created with are named by one number, so an iterator kept by a   *)
(* handler is the number of its queue.                                     *)
(*                                                                         *)
(* Text is a sequence of tokens, a token is [req, pos]: whose it is and    *)
(* the prefix length it was sampled at.  A token of SplitPositions ends in *)
(* the middle of a character.                                              *)
(***************************************************************************)
EXTENDS InferenceEngine, Sequences

CONSTANTS
  Streaming,       (* the requests that asked for a stream                  *)
  FlushLen,        (* a chunk is written when it has this length (16 bytes) *)
  SplitPositions,  (* see above                                             *)
  MayGiveUp,       (* more than 5000 polls may find no queue                *)
  MayTimeout,      (* wait_dequeue_timed may run into its 10 seconds        *)
  MayFailWrite     (* WriteChunk may fail: the client went away             *)

ASSUME ServiceAssumption ==
  /\ Streaming \subseteq Requests
  /\ FlushLen \in Nat \ {0}
  /\ SplitPositions \subseteq Nat
  /\ {MayGiveUp, MayTimeout, MayFailWrite} \subseteq BOOLEAN

VARIABLES
  todo,             (* items of the result not yet put into a queue         *)
  target,           (* the queue Infer holds a pointer to, and the item     *)
  query_to_result,  (* query_to_result_                                     *)
  queues,           (* the queues ever allocated, freed or not              *)
  conn,             (* per request: where its handler stands                *)
  queue,            (* per request: the queue its handler reads (0: none)   *)
  stream,           (* per request: result_stream                           *)
  chunk,            (* per request: chunk_ptr->text                         *)
  reply,            (* per request: what the client got                     *)
  text,             (* history, per request: positions of tokens enqueued   *)
  over              (* history: requests whose end was enqueued             *)

deliveryVars == <<todo, target>>
resultVars   == <<query_to_result, queues>>
handlerVars  == <<conn, queue, stream, chunk, reply>>
historyVars  == <<text, over>>
serviceVars  == <<deliveryVars, resultVars, handlerVars, historyVars>>
allVars      == <<vars, serviceVars>>

NewQueue == [freed |-> FALSE, items |-> <<>>]
Freed    == [freed |-> TRUE, items |-> <<>>]
NoTarget == [queue |-> 0]
NoReply  == [ret |-> "none", text |-> <<>>]

ServiceInit ==
  /\ Init
  /\ todo = {} /\ target = NoTarget
  /\ query_to_result = [id \in {} |-> 0]
  /\ queues = <<>>
  /\ conn = [r \in Requests |-> "new"]
  /\ queue = [r \in Requests |-> 0]
  /\ stream = [r \in Requests |-> <<>>]
  /\ chunk = [r \in Requests |-> <<>>]
  /\ reply = [r \in Requests |-> NoReply]
  /\ text = [r \in Requests |-> <<>>]
  /\ over = {}

-----------------------------------------------------------------------------
(* The engine's part of Infer.                                              *)
Infer_Round ==
  /\ FetchBatch \/ ReadBatch \/ Compute \/ ComputeFails \/ FollowDangling
  /\ UNCHANGED serviceVars

Infer_Sample ==
  /\ Sample
  /\ todo' = results'
  /\ UNCHANGED <<target, resultVars, handlerVars, historyVars>>

(* Items are delivered in the order of the list: sampled tokens by id, then *)
(* the saturated queries of the first and of the second GetLocalInput.      *)
IsNextItem(x) ==
  \A y \in todo \ {x} : x.pass < y.pass \/ (x.pass = y.pass /\ x.id < y.id)

(* A faulty variant, for mutation: every item gets a new queue.             *)
Infer_FindQueue_AlwaysNew ==
  /\ ~ undefined
  /\ target = NoTarget
  /\ \E x \in todo :
       /\ IsNextItem(x)
       /\ todo' = todo \ {x}
       /\ queues' = Append(queues, NewQueue)
       /\ target' = [queue |-> Len(queues'), item |-> x]
       /\ query_to_result' = [id \in DOMAIN query_to_result \cup {x.id} |->
            IF id = x.id THEN Len(queues') ELSE query_to_result[id]]
  /\ UNCHANGED <<vars, handlerVars, historyVars>>

(* Infer, under result_lock_: find the query's queue or make one.           *)
Infer_FindQueue ==
  /\ ~ undefined
  /\ target = NoTarget
  /\ \E x \in todo :
       /\ IsNextItem(x)
       /\ todo' = todo \ {x}
       /\ IF x.id \in DOMAIN query_to_result
          THEN /\ target' = [queue |-> query_to_result[x.id], item |-> x]
               /\ UNCHANGED resultVars
          ELSE /\ queues' = Append(queues, NewQueue)
               /\ target' = [queue |-> Len(queues'), item |-> x]
               /\ query_to_result' = [id \in DOMAIN query_to_result \cup {x.id} |->
                    IF id = x.id THEN Len(queues') ELSE query_to_result[id]]
  /\ UNCHANGED <<vars, handlerVars, historyVars>>

(* A faulty variant, for mutation: the end is announced one token early.    *)
QueryResult_Early(x) ==
  [req |-> x.req, pos |-> x.prefix_len, is_end |-> IsEnd(x) \/ x.prefix_len + 2 >= MaxContextLen]

QueryResult(x) == [req |-> x.req, pos |-> x.prefix_len, is_end |-> IsEnd(x)]

(* Infer, after the unlock: enqueue.  The queue may have been deleted.      *)
Infer_Emplace ==
  /\ ~ undefined
  /\ target # NoTarget
  /\ LET x == target.item
     IN  IF queues[target.queue].freed
         THEN /\ undefined' = TRUE
              /\ UNCHANGED <<tableVars, apiVars, sampler, phase, localVars, kv, produced,
                             resultVars, historyVars>>
         ELSE /\ queues' = [queues EXCEPT ![target.queue].items = Append(@, QueryResult(x))]
              /\ IF IsEnd(x)
                 THEN over' = over \cup {x.req} /\ UNCHANGED text
                 ELSE text' = [text EXCEPT ![x.req] = Append(@, x.prefix_len)] /\ UNCHANGED over
              /\ UNCHANGED <<vars, query_to_result>>
  /\ target' = NoTarget
  /\ UNCHANGED <<todo, handlerVars>>

(* The end of Infer, once every item is enqueued.                           *)
Infer_Commit ==
  /\ todo = {} /\ target = NoTarget
  /\ CommitInferenceResult
  /\ UNCHANGED serviceVars

InferStep == Infer_Round \/ Infer_Sample \/ Infer_FindQueue \/ Infer_Emplace \/ Infer_Commit

-----------------------------------------------------------------------------
Close(r, ret, answer) ==
  /\ conn' = [conn EXCEPT ![r] = "closed"]
  /\ reply' = [reply EXCEPT ![r] = [ret |-> ret, text |-> answer]]

(* A request without any text.                                              *)
EmptyRequest(r) ==
  /\ ~ undefined
  /\ conn[r] = "new" /\ call[r] = "none"
  /\ Close(r, "error.empty_request", <<>>)
  /\ UNCHANGED <<vars, deliveryVars, resultVars, queue, stream, chunk, historyVars>>

Submit(r) ==
  /\ conn[r] = "new"
  /\ \/ AddQuery_Check(r)
     \/ AddQuery_Invalid(r)
     \/ \E enc \in EncLens, dec \in DecLens, limit \in OutLimits : AddQuery_Add(r, enc, dec, limit)
     \/ AddQuery_Full(r)
  /\ UNCHANGED serviceVars

(* AddQuery returned 0 or less.                                             *)
Refused(r) ==
  /\ ~ undefined
  /\ conn[r] = "new" /\ call[r] \in {"busy", "error"}
  /\ Close(r, "error.busy", <<>>)
  /\ UNCHANGED <<vars, deliveryVars, resultVars, queue, stream, chunk, historyVars>>

(* A poll that finds the queue.                                             *)
FindQueue(r) ==
  /\ ~ undefined
  /\ conn[r] = "new" /\ call[r] = "accepted"
  /\ handle[r] \in DOMAIN query_to_result
  /\ queue' = [queue EXCEPT ![r] = query_to_result[handle[r]]]
  /\ conn' = [conn EXCEPT ![r] = "reading"]
  /\ UNCHANGED <<vars, deliveryVars, resultVars, stream, chunk, reply, historyVars>>

(* A faulty variant, for mutation: the polls are counted only while the     *)
(* queue is there.                                                          *)
GiveUp_Inverted(r) ==
  /\ ~ undefined
  /\ MayGiveUp
  /\ conn[r] = "new" /\ call[r] = "accepted"
  /\ handle[r] \in DOMAIN query_to_result
  /\ Close(r, IF r \in Streaming THEN "aborted" ELSE "succ", <<>>)
  /\ UNCHANGED <<vars, deliveryVars, resultVars, queue, stream, chunk, historyVars>>

(* More than 5000 polls.  The query stays in the engine.  The caller of a   *)
(* request without stream fills in "succ" as ret_code.                      *)
GiveUp(r) ==
  /\ ~ undefined
  /\ MayGiveUp
  /\ conn[r] = "new" /\ call[r] = "accepted"
  /\ Close(r, IF r \in Streaming THEN "aborted" ELSE "succ", <<>>)
  /\ UNCHANGED <<vars, deliveryVars, resultVars, queue, stream, chunk, historyVars>>

-----------------------------------------------------------------------------
(* A faulty variant, for mutation: the text is never cut.                   *)
GetUtf8EndPos_Len(s) == Len(s)

(* GetUtf8EndPos: where the last complete character of a text ends.         *)
GetUtf8EndPos(s) ==
  IF s # <<>> /\ s[Len(s)].pos \in SplitPositions THEN Len(s) - 1 ELSE Len(s)

(* What the streaming branch does with the text in result_stream: all of it *)
(* up to the last complete character goes to the chunk.  buffer.clear() and *)
(* result_stream.clear() leave the contents of the stream as they are, and  *)
(* the incomplete rest is appended once more.                               *)
ToChunk(r, s, is_end) ==
  LET end == GetUtf8EndPos(s)
      c   == chunk[r] \o SubSeq(s, 1, end)
  IN  /\ chunk' = [chunk EXCEPT ![r] = c]
      /\ stream' = [stream EXCEPT ![r] = IF end > 0 THEN s \o SubSeq(s, end + 1, Len(s)) ELSE s]
      /\ conn' = [conn EXCEPT ![r] =
           IF end > 0 /\ Len(c) >= FlushLen
           THEN (IF is_end THEN "writing_last" ELSE "writing")
           ELSE (IF is_end THEN "finishing" ELSE "reading")]

(* wait_dequeue_timed returns an item.  The last one of a query deletes     *)
(* the queue before the map entry is erased.                                *)
Dequeue(r) ==
  /\ ~ undefined
  /\ conn[r] = "reading"
  /\ ~ queues[queue[r]].freed /\ queues[queue[r]].items # <<>>
  /\ LET item == Head(queues[queue[r]].items)
         s    == Append(stream[r], [req |-> item.req, pos |-> item.pos])
     IN  IF item.is_end
         THEN /\ queues' = [queues EXCEPT ![queue[r]] = Freed]
              /\ conn' = [conn EXCEPT ![r] = "erasing"]
              /\ UNCHANGED <<stream, chunk>>
         ELSE /\ queues' = [queues EXCEPT ![queue[r]].items = Tail(@)]
              /\ IF r \in Streaming THEN ToChunk(r, s, FALSE)
                 ELSE stream' = [stream EXCEPT ![r] = s] /\ UNCHANGED <<conn, chunk>>
  /\ UNCHANGED <<vars, deliveryVars, query_to_result, queue, reply, historyVars>>

(* Two handlers read one queue, or a handler found a stale map entry.       *)
DequeueDeleted(r) ==
  /\ ~ undefined
  /\ conn[r] = "reading"
  /\ queues[queue[r]].freed
  /\ undefined' = TRUE
  /\ UNCHANGED <<tableVars, apiVars, sampler, phase, localVars, kv, produced, serviceVars>>

(* A faulty variant, for mutation: the map entry is not erased.             *)
Erase_Forgotten(r) ==
  /\ ~ undefined
  /\ conn[r] = "erasing"
  /\ IF r \in Streaming
     THEN ToChunk(r, stream[r], TRUE) /\ UNCHANGED reply
     ELSE /\ Close(r, "succ", SubSeq(stream[r], 1, GetUtf8EndPos(stream[r])))
          /\ UNCHANGED <<stream, chunk>>
  /\ UNCHANGED <<vars, deliveryVars, resultVars, queue, historyVars>>

(* erase(iter), under result_lock_.  A node erased before is undefined      *)
(* behaviour.  Then the answer, or the last chunk.                          *)
Erase(r) ==
  /\ ~ undefined
  /\ conn[r] = "erasing"
  /\ IF \E id \in DOMAIN query_to_result : query_to_result[id] = queue[r]
     THEN /\ query_to_result' = [id \in {i \in DOMAIN query_to_result :
                                           query_to_result[i] # queue[r]} |-> query_to_result[id]]
          /\ IF r \in Streaming
             THEN ToChunk(r, stream[r], TRUE) /\ UNCHANGED reply
             ELSE /\ Close(r, "succ", SubSeq(stream[r], 1, GetUtf8EndPos(stream[r])))
                  /\ UNCHANGED <<stream, chunk>>
          /\ UNCHANGED vars
     ELSE /\ undefined' = TRUE
          /\ UNCHANGED <<tableVars, apiVars, sampler, phase, localVars, kv, produced,
                         query_to_result, conn, stream, chunk, reply>>
  /\ UNCHANGED <<deliveryVars, queues, queue, historyVars>>

(* Ten seconds without an item: the queue is deleted, its map entry stays.  *)
Timeout(r) ==
  /\ ~ undefined
  /\ MayTimeout
  /\ conn[r] = "reading"
  /\ ~ queues[queue[r]].freed /\ queues[queue[r]].items = <<>>
  /\ queues' = [queues EXCEPT ![queue[r]] = Freed]
  /\ IF r \in Streaming
     THEN conn' = [conn EXCEPT ![r] = "finishing"] /\ UNCHANGED reply
     ELSE Close(r, "succ", <<>>)
  /\ UNCHANGED <<vars, deliveryVars, query_to_result, queue, stream, chunk, historyVars>>

WriteChunk(r) ==
  /\ ~ undefined
  /\ conn[r] \in {"writing", "writing_last"}
  /\ reply' = [reply EXCEPT ![r] = [ret |-> "stream", text |-> @.text \o chunk[r]]]
  /\ chunk' = [chunk EXCEPT ![r] = <<>>]
  /\ conn' = [conn EXCEPT ![r] = IF @ = "writing" THEN "reading" ELSE "finishing"]
  /\ UNCHANGED <<vars, deliveryVars, resultVars, queue, stream, historyVars>>

(* The client is gone: the query is removed; its queue and map entry stay.  *)
WriteChunk_Fails(r) ==
  /\ MayFailWrite
  /\ conn[r] \in {"writing", "writing_last"}
  /\ RemoveQuery(r)
  /\ Close(r, "aborted", reply[r].text)
  /\ UNCHANGED <<deliveryVars, resultVars, queue, stream, chunk, historyVars>>

(* The empty chunk that ends a stream.                                      *)
FinishStream(r) ==
  /\ ~ undefined
  /\ conn[r] = "finishing"
  /\ Close(r, "stream", reply[r].text)
  /\ UNCHANGED <<vars, deliveryVars, resultVars, queue, stream, chunk, historyVars>>

HandlerStep(r) ==
  \/ EmptyRequest(r) \/ Submit(r) \/ Refused(r) \/ FindQueue(r)
  \/ Dequeue(r) \/ DequeueDeleted(r) \/ Erase(r) \/ WriteChunk(r) \/ FinishStream(r)

Mishap(r) == GiveUp(r) \/ Timeout(r) \/ WriteChunk_Fails(r)

(* Every handler is done and the engine has no query, or hangs; or          *)
(* undefined.                                                               *)
Quiet ==
  /\ \/ undefined
     \/ /\ phase = "hung" \/ (phase = "idle" /\ DOMAIN query_map = {})
        /\ \A r \in Requests : conn[r] = "closed"
  /\ UNCHANGED allVars

ServiceNext ==
  InferStep \/ (\E r \in Requests : HandlerStep(r) \/ Mishap(r)) \/ Quiet

ServiceSpec == ServiceInit /\ [][ServiceNext]_allVars

(* The threads are scheduled fairly by the operating system and none waits  *)
(* for a lock that is held for long; nothing is assumed about mishaps.      *)
FairServiceSpec ==
  /\ ServiceSpec
  /\ WF_allVars(InferStep)
  /\ \A r \in Requests : WF_allVars(HandlerStep(r))

(* The waits of a handler are bounded: 5000 polls of a millisecond, ten     *)
(* seconds for an item.                                                     *)
TimedServiceSpec ==
  /\ FairServiceSpec
  /\ \A r \in Requests : WF_allVars(GiveUp(r)) /\ WF_allVars(Timeout(r))

-----------------------------------------------------------------------------
Token == [req : Requests, pos : Nat]
Item  == [req : Requests, pos : Nat, is_end : BOOLEAN]

ServiceTypeOK ==
  /\ TypeOK
  /\ todo \subseteq results
  /\ target = NoTarget \/ (target.queue \in DOMAIN queues /\ target.item \in results)
  /\ DOMAIN query_to_result \subseteq QueryIds
  /\ \A id \in DOMAIN query_to_result : query_to_result[id] \in DOMAIN queues
  /\ queues \in Seq([freed : BOOLEAN, items : Seq(Item)])
  /\ conn \in [Requests -> {"new", "reading", "erasing", "writing", "writing_last",
                        "finishing", "closed"}]
  /\ queue \in [Requests -> 0 .. Len(queues)]
  /\ stream \in [Requests -> Seq(Token)]
  /\ chunk \in [Requests -> Seq(Token)]
  /\ \A r \in Requests : reply[r].text \in Seq(Token)
  /\ text \in [Requests -> Seq(Nat)]
  /\ over \subseteq Requests

(* No client is ever shown a token of another client's text, even when      *)
(* handlers give up, time out or lose their client in the middle, as long   *)
(* as no id is used twice (query_to_result_ is keyed by the id alone).      *)
OwnTextOnly ==
  \A r \in Requests :
    \A i \in DOMAIN reply[r].text : reply[r].text[i].req = r

(* Without mishaps nobody touches a deleted queue or a deleted state,       *)
(* although queues are used outside result_lock_ and a queue is deleted     *)
(* before its entry is erased from query_to_result_.                        *)
NothingUndefined == ~ undefined

(* Without mishaps, nothing is left behind when the work is done: no entry  *)
(* of query_to_result_ (a later query with that id would read it), no       *)
(* allocated queue, no sampling data.                                       *)
QuiescentClean ==
  (DOMAIN query_map = {} /\ phase = "idle" /\ \A r \in Requests : conn[r] = "closed")
     => /\ DOMAIN query_to_result = {}
        /\ \A i \in DOMAIN queues : queues[i].freed
        /\ DOMAIN sampler = {}

PosOf(s) == [i \in DOMAIN s |-> s[i].pos]

(* The tokens of a text up to its last complete character.                  *)
Shown(s) == IF s # <<>> /\ s[Len(s)] \in SplitPositions THEN SubSeq(s, 1, Len(s) - 1) ELSE s

ReplyOf(r) == [ret |-> reply[r].ret, text |-> PosOf(reply[r].text)]

Abstract == INSTANCE TextService
  WITH Positions <- 0 .. MaxContextLen,
       reply <- [r \in Requests |-> ReplyOf(r)]

(* The service, with all its threads, ids, queues and batches, implements   *)
(* TextService for requests without stream: every answer with "succ" is the *)
(* whole text that was generated for this very request, in order.           *)
ImplementsTextService == Abstract!TextSpec

(* Every handler comes to an end: without mishaps because the engine ends   *)
(* every query and each end reaches its queue; with mishaps, and with ids   *)
(* used again while old queues are still in the map, because of timeouts.   *)
EveryRequestAnswered == \A r \in Requests : <>(conn[r] = "closed" \/ undefined)

(* "for chunk in response: print(chunk...)" (docs/API.md): the chunks a     *)
(* streaming client has received, one after another, are the beginning of   *)
(* the text generated for it.                                               *)
StreamIsText ==
  \A r \in Streaming :
    /\ Len(reply[r].text) <= Len(text[r])
    /\ PosOf(reply[r].text) = SubSeq(text[r], 1, Len(reply[r].text))
=============================================================================
