----------------------------- MODULE HttpServer -----------------------------
(***************************************************************************)
(* The server the service is built on: BaseTcpServer and BaseHttpServer of *)
(* src/3rd_party/sslib (base_tcp_server.cc, http_server.cc, socket.cc) as  *)
(* InferFlowService uses them, in the Linux build.  Three kinds of threads *)
(* share the connections: the accept loop (Start), one epoll thread        *)
(* (WaitForEvents_Epoll) and the workers (WorkerFunction).                 *)
(*                                                                         *)
(* A Socket is shared by reference: the accept loop, the connection map,   *)
(* the event in hand and every task of the connection hold one, and its    *)
(* descriptor is closed, and free for the next connection, when the last   *)
(* of them lets go.  Everything else names a connection by its descriptor. *)
(*                                                                         *)
(* Every client connects once, so a socket is named by its client.  What a *)
(* client sends before it is accepted cannot be seen before that, so it    *)
(* starts with being accepted.                                             *)
(***************************************************************************)
EXTENDS HttpMessage, FiniteSets

CONSTANTS
  Clients,
  Plans,      (* what the clients may be about to do, see plan              *)
  Fds,        (* the descriptors the process may have for connections       *)
  Workers,
  MaxChunks,  (* bound on the chunks a client gets of streamed answers      *)
  MaxTasks,   (* bound on the tasks a torn connection has when cut again    *)
  None        (* no descriptor, socket, task or connection                  *)

(* The events epoll may report, and the tasks: the socket a request came   *)
(* from, which of its requests it is, and the request.                     *)
Events == [fd : Fds, from : Clients, type : {"read", "hup"}]

Tasks == [sock : Clients, num : Nat \ {0}, msg : Messages]

ASSUME HttpAssumption ==
  /\ \A p \in Plans :
       /\ p.script \in [Clients -> Seq(Kinds)]
       /\ p.hasty \subseteq Clients /\ p.choppy \subseteq Clients
  /\ None \notin Clients \cup Fds /\ None \notin Tasks
  /\ MaxChunks \in Nat /\ MaxTasks \in Nat

VARIABLES
  plan,       (* the requests every client sends in turn (script), and the  *)
              (* clients that may go away or stop sending at any time       *)
              (* (hasty) or whose requests may arrive in pieces (choppy)    *)
  phase,      (* per client: "new", "on", "half" (sends no more), "gone"    *)
  sent,       (* per client: how many requests it has sent                  *)
  wire,       (* per client: what it sent and the server has not received   *)
  got,        (* per client: the parts of answers it received               *)
  torn,       (* history: clients whose request a read has cut unfavourably *)
  fd_of,      (* per socket: id_                                            *)
  shut,       (* the sockets that were Shutdown                             *)
  acceptor,   (* the accept loop: where it stands, and its socket           *)
  conn_map,   (* connection_map_                                            *)
  watched,    (* the sockets whose descriptor epoll watches                 *)
  batch,      (* event_list_: what is left of the last epoll_wait           *)
  evt,        (* the event being handled                                    *)
  queue,      (* task_queue_                                                *)
  worker,     (* per worker: its task and where it stands with it           *)
  running     (* FALSE: Accept failed, and the server object is going away  *)

clientVars == <<phase, sent, got>>
netVars    == <<wire, torn>>
sockVars   == <<fd_of, shut>>
ioVars     == <<batch, evt>>
httpVars   == <<clientVars, netVars, sockVars, acceptor, conn_map, watched,
                ioVars, queue, worker, running, plan>>

Idle     == [pc |-> "accept", sock |-> None, fd |-> None]
NoEvent  == [pc |-> "wait", fd |-> None, from |-> None, type |-> "none",
             sock |-> None, data |-> <<>>]
Resting  == [pc |-> "pop", task |-> None, ok |-> FALSE]

HttpInit ==
  /\ plan \in Plans
  /\ phase = [c \in Clients |-> "new"]
  /\ sent = [c \in Clients |-> 0]
  /\ wire = [c \in Clients |-> <<>>]
  /\ got = [c \in Clients |-> <<>>]
  /\ torn = {}
  /\ fd_of = [c \in Clients |-> None]
  /\ shut = {}
  /\ acceptor = Idle
  /\ conn_map = [fd \in {} |-> None]
  /\ watched = {}
  /\ batch = {}
  /\ evt = NoEvent
  /\ queue = <<>>
  /\ worker = [w \in Workers |-> Resting]
  /\ running = TRUE

-----------------------------------------------------------------------------
(* The references to sockets.                                              *)
Connections == {conn_map[fd] : fd \in DOMAIN conn_map}

WaitingTasks == {queue[i] : i \in DOMAIN queue}
BusyTasks    == {worker[w].task : w \in {v \in Workers : worker[v].pc # "pop"}}

(* A faulty variant, for mutation: a task names its socket without holding *)
(* a reference to it.                                                      *)
Held_NoTasks ==
  ({acceptor.sock, evt.sock} \cup {conn.sock : conn \in Connections}) \ {None}

Held ==
  ({acceptor.sock, evt.sock} \cup {conn.sock : conn \in Connections}
     \cup {t.sock : t \in WaitingTasks \cup BusyTasks}) \ {None}

(* The sockets that have descriptor fd in the kernel (at most one).        *)
Owners(fd) == {s \in Held : fd_of[s] = fd}

FreeFds == {fd \in Fds : Owners(fd) = {}}

(* connection_map_ with an entry set or erased.                            *)
Put(fd, conn) == [f \in DOMAIN conn_map \cup {fd} |->
                    IF f = fd THEN conn ELSE conn_map[f]]
Erase(fd) == [f \in DOMAIN conn_map \ {fd} |-> conn_map[f]]

-----------------------------------------------------------------------------
(* The clients.  What a client has received ends with a part of the answer *)
(* to its request number n: it is complete with the part "last", and stays *)
(* incomplete for ever with "refusal".                                     *)
LastPart(c) == got[c][Len(got[c])]

Complete(c, n) ==
  IF got[c] = <<>> THEN n = 0 ELSE LastPart(c).num = n /\ LastPart(c).part = "last"

Refused(c) == got[c] # <<>> /\ LastPart(c).part = "refusal"

(* A client sends its next request when the answers to the ones before are *)
(* complete.                                                               *)
Send(c) ==
  /\ running /\ phase[c] = "on" /\ c \notin shut /\ c \in Held
  /\ sent[c] < Len(plan.script[c])
  /\ Complete(c, sent[c])
  /\ sent' = [sent EXCEPT ![c] = @ + 1]
  /\ wire' = [wire EXCEPT ![c] = @ \o Request[plan.script[c][sent[c] + 1]]]
  /\ UNCHANGED <<phase, got, torn, sockVars, acceptor, conn_map, watched,
                 ioVars, queue, worker, running, plan>>

(* A client goes away; what it sent may be lost with it.                   *)
HangUp(c) ==
  /\ running /\ c \in plan.hasty /\ phase[c] \in {"on", "half"}
  /\ phase' = [phase EXCEPT ![c] = "gone"]
  /\ \E left \in {wire[c], <<>>} : wire' = [wire EXCEPT ![c] = left]
  /\ UNCHANGED <<sent, got, torn, sockVars, acceptor, conn_map, watched,
                 ioVars, queue, worker, running, plan>>

(* A client sends no more, but still reads.                                *)
HalfClose(c) ==
  /\ running /\ c \in plan.hasty /\ phase[c] = "on"
  /\ phase' = [phase EXCEPT ![c] = "half"]
  /\ UNCHANGED <<sent, got, netVars, sockVars, acceptor, conn_map, watched,
                 ioVars, queue, worker, running, plan>>

-----------------------------------------------------------------------------
(* A faulty variant, for mutation: the result of accept is not tested.     *)
Accept_Unchecked(c) ==
  /\ running /\ acceptor.pc = "accept" /\ phase[c] = "new" /\ plan.script[c] # <<>>
  /\ \E fd \in IF FreeFds = {} THEN {None} ELSE FreeFds :
       /\ acceptor' = [pc |-> "insert", sock |-> c, fd |-> fd]
       /\ fd_of' = [fd_of EXCEPT ![c] = fd]
  /\ phase' = [phase EXCEPT ![c] = "on"]
  /\ UNCHANGED <<sent, got, netVars, shut, conn_map, watched, ioVars, queue,
                 worker, running, plan>>

(* The accept loop of Start.  The kernel gives a free descriptor (in fact  *)
(* the lowest, but nothing depends on which).                              *)
Accept(c) ==
  /\ running /\ acceptor.pc = "accept" /\ phase[c] = "new" /\ plan.script[c] # <<>>
  /\ \E fd \in FreeFds :
       /\ acceptor' = [pc |-> "insert", sock |-> c, fd |-> fd]
       /\ fd_of' = [fd_of EXCEPT ![c] = fd]
  /\ phase' = [phase EXCEPT ![c] = "on"]
  /\ UNCHANGED <<sent, got, netVars, shut, conn_map, watched, ioVars, queue,
                 worker, running, plan>>

(* accept returns an error: no descriptor is left, or the connection was   *)
(* aborted, or a signal came.  Whatever it is, Start returns, Run returns, *)
(* and the server is destroyed under its threads.  What they do after that *)
(* is not followed.                                                        *)
AcceptFails ==
  /\ running /\ acceptor.pc = "accept"
  /\ running' = FALSE
  /\ UNCHANGED <<clientVars, netVars, sockVars, acceptor, conn_map, watched,
                 ioVars, queue, worker, plan>>

(* AddEvent: the connection is put into the map, and, unless another one   *)
(* was there, its descriptor is given to epoll.                            *)
AddConnection ==
  /\ running /\ acceptor.pc = "insert"
  /\ conn_map' = Put(acceptor.fd, [sock |-> acceptor.sock, task |-> None])
  /\ acceptor' = IF acceptor.fd \in DOMAIN conn_map
                 THEN Idle ELSE [acceptor EXCEPT !.pc = "watch"]
  /\ UNCHANGED <<clientVars, netVars, sockVars, watched, ioVars, queue,
                 worker, running, plan>>

AddEvent_Epoll ==
  /\ running /\ acceptor.pc = "watch"
  /\ watched' = watched \cup Owners(acceptor.fd)
  /\ acceptor' = Idle
  /\ UNCHANGED <<clientVars, netVars, sockVars, conn_map, ioVars, queue,
                 worker, running, plan>>

AcceptStep == AddConnection \/ AddEvent_Epoll

-----------------------------------------------------------------------------
(* The epoll thread.  epoll is level triggered: it reports a watched       *)
(* descriptor as long as there is something to read, or the other end (or  *)
(* Shutdown) has closed its side; in that case this is what counts.        *)
EventOf(s) ==
  [fd |-> fd_of[s], from |-> s,
   type |-> IF s \in shut \/ phase[s] \in {"half", "gone"} THEN "hup" ELSE "read"]

Ready ==
  {s \in watched \cap Held :
     /\ fd_of[s] # None
     /\ s \in shut \/ phase[s] \in {"half", "gone"} \/ wire[s] # <<>>}

WaitForEvents ==
  /\ running /\ evt.pc = "wait" /\ batch = {} /\ Ready # {}
  /\ batch' = {EventOf(s) : s \in Ready}
  /\ UNCHANGED <<clientVars, netVars, sockVars, acceptor, conn_map, watched,
                 evt, queue, worker, running, plan>>

(* The task of a connection nothing of a request was read for yet.         *)
NewTask(sock, num) == [sock |-> sock, num |-> num, msg |-> NewMessage]

(* GetSocketPtr finds the socket of an event by the descriptor.            *)
GetSocketPtr(fd) ==
  IF fd \in DOMAIN conn_map THEN conn_map[fd].sock ELSE None

NextEvent(e) ==
  /\ running /\ evt.pc = "wait"
  /\ batch' = batch \ {e}
  /\ evt' = [pc |-> "handle", fd |-> e.fd, from |-> e.from, type |-> e.type,
             sock |-> GetSocketPtr(e.fd), data |-> <<>>]
  /\ UNCHANGED <<clientVars, netVars, sockVars, acceptor, conn_map, watched,
                 queue, worker, running, plan>>

(* HandleEvent of an event without a socket, "Null socket pointer", and of *)
(* one whose data is gone: nothing is done.                                *)
IgnoreEvent ==
  /\ running /\ evt.pc = "handle"
  /\ evt.sock # None => evt.type = "read" /\ wire[evt.sock] = <<>>
  /\ evt' = NoEvent
  /\ UNCHANGED <<clientVars, netVars, sockVars, acceptor, conn_map, watched,
                 batch, queue, worker, running, plan>>

TasksOf(s) == {t \in WaitingTasks \cup BusyTasks : t.sock = s}

(* A read takes what is on the wire, or some of it.                        *)
Recv ==
  /\ running /\ evt.pc = "handle" /\ evt.type = "read" /\ evt.sock # None
  /\ \E n \in 1 .. Len(wire[evt.sock]) :
       LET s    == evt.sock
           left == SubSeq(wire[s], n + 1, Len(wire[s]))
           kind == plan.script[s][sent[s]]
       IN  /\ left # <<>> => /\ s \in plan.choppy
                             /\ s \in torn => Cardinality(TasksOf(s)) < MaxTasks
           /\ wire' = [wire EXCEPT ![s] = left]
           /\ evt' = [evt EXCEPT !.pc = "received",
                                 !.data = SubSeq(wire[s], 1, n)]
           /\ torn' = IF s \in torn \/ IsCleanCut(kind, Len(Request[kind]) - Len(left))
                      THEN torn ELSE torn \cup {s}
  /\ UNCHANGED <<clientVars, sockVars, acceptor, conn_map, watched, batch,
                 queue, worker, running, plan>>

(* A faulty variant, for mutation: connection->task is not reset.          *)
OnDataReceived_KeepTask ==
  /\ running /\ evt.pc = "received"
  /\ IF evt.fd \in DOMAIN conn_map
     THEN LET conn == conn_map[evt.fd]
              old  == IF conn.task = None
                      THEN NewTask(conn.sock, sent[conn.sock]) ELSE conn.task
              new  == [sock |-> conn.sock, num |-> old.num,
                       msg |-> Prepared(old.msg, evt.data)]
          IN  /\ conn_map' = Put(evt.fd, [sock |-> conn.sock, task |-> new])
              /\ IF new.msg.state = "End"
                 THEN queue' = Append(queue, new)
                 ELSE UNCHANGED queue
     ELSE UNCHANGED <<conn_map, queue>>
  /\ evt' = NoEvent
  /\ UNCHANGED <<clientVars, netVars, sockVars, acceptor, watched, batch,
                 worker, running, plan>>

(* OnDataReceived and PrepareTask: the data goes to the connection that    *)
(* has the descriptor now; a complete request becomes a task for the       *)
(* workers, and the connection starts anew.                                *)
OnDataReceived ==
  /\ running /\ evt.pc = "received"
  /\ IF evt.fd \in DOMAIN conn_map
     THEN LET conn == conn_map[evt.fd]
              old  == IF conn.task = None
                      THEN NewTask(conn.sock, sent[conn.sock]) ELSE conn.task
              new  == [sock |-> conn.sock, num |-> old.num,
                       msg |-> Prepared(old.msg, evt.data)]
          IN  IF new.msg.state = "End"
              THEN /\ queue' = Append(queue, new)
                   /\ conn_map' = Put(evt.fd, [sock |-> conn.sock, task |-> None])
              ELSE /\ conn_map' = Put(evt.fd, [sock |-> conn.sock, task |-> new])
                   /\ UNCHANGED queue
     ELSE UNCHANGED <<conn_map, queue>>
  /\ evt' = NoEvent
  /\ UNCHANGED <<clientVars, netVars, sockVars, acceptor, watched, batch,
                 worker, running, plan>>

(* RemoveEvent: epoll forgets the descriptor, then the map the connection. *)
RemoveEvent_Epoll ==
  /\ running /\ evt.pc = "handle" /\ evt.type = "hup" /\ evt.sock # None
  /\ watched' = watched \ Owners(evt.fd)
  /\ evt' = [evt EXCEPT !.pc = "erase"]
  /\ UNCHANGED <<clientVars, netVars, sockVars, acceptor, conn_map, batch,
                 queue, worker, running, plan>>

(* A faulty variant, for mutation: a connection with a request that is not *)
(* complete is kept.                                                       *)
EraseConnection_KeepPartial ==
  /\ running /\ evt.pc = "erase"
  /\ conn_map' = IF evt.fd \in DOMAIN conn_map /\ conn_map[evt.fd].task # None
                 THEN conn_map ELSE Erase(evt.fd)
  /\ evt' = NoEvent
  /\ UNCHANGED <<clientVars, netVars, sockVars, acceptor, watched, batch,
                 queue, worker, running, plan>>

EraseConnection ==
  /\ running /\ evt.pc = "erase"
  /\ conn_map' = Erase(evt.fd)
  /\ evt' = NoEvent
  /\ UNCHANGED <<clientVars, netVars, sockVars, acceptor, watched, batch,
                 queue, worker, running, plan>>

EpollStep ==
  \/ WaitForEvents
  \/ \E e \in batch : NextEvent(e)
  \/ IgnoreEvent \/ Recv \/ OnDataReceived
  \/ RemoveEvent_Epoll \/ EraseConnection

-----------------------------------------------------------------------------
(* The workers.  A request whose URL no handler answers gets no answer.    *)
Pop(w) ==
  /\ running /\ worker[w].pc = "pop" /\ queue # <<>>
  /\ worker' = [worker EXCEPT ![w] =
                  [pc |-> IF HasKnownUrl(Head(queue).msg) THEN "head" ELSE "finish",
                   task |-> Head(queue), ok |-> FALSE]]
  /\ queue' = Tail(queue)
  /\ UNCHANGED <<clientVars, netVars, sockVars, acceptor, conn_map, watched,
                 ioVars, running, plan>>

(* WriteAll writes to the descriptor, so to the client that has it.        *)
Deliver(s, part) ==
  got' = [c \in Clients |-> IF c \in Owners(fd_of[s])
                            THEN Append(got[c], part) ELSE got[c]]

(* One write of an answer.                                                 *)
WriteStep(w, pc, part, next) ==
  /\ running /\ worker[w].pc = pc
  /\ LET t == worker[w].task
     IN  /\ t.sock \notin shut
         /\ Deliver(t.sock, [sock |-> t.sock, num |-> t.num, part |-> part])
  /\ worker' = [worker EXCEPT ![w] =
                  [pc |-> next, task |-> worker[w].task, ok |-> TRUE]]
  /\ UNCHANGED <<phase, sent, netVars, sockVars, acceptor, conn_map, watched,
                 ioVars, queue, running, plan>>

(* The header goes out first.  Then comes the body at once, or, if the     *)
(* body of the request asks for it, a stream of chunks, or the one chunk   *)
(* that says why there is no stream.                                       *)
WriteHeader(w) ==
  \E next \in {"body"} \cup IF worker[w].pc = "head" /\ worker[w].task.msg.body # <<>>
                            THEN {"stream", "refuse"} ELSE {} :
    WriteStep(w, "head", "head", next)

WriteString(w) == WriteStep(w, "body", "last", "finish")

Streamed(c) == Cardinality({i \in DOMAIN got[c] : got[c][i].part = "chunk"})

(* WriteChunk with some of the text.                                       *)
WriteChunk(w) ==
  /\ worker[w].pc = "stream" /\ Streamed(worker[w].task.sock) < MaxChunks
  /\ WriteStep(w, "stream", "chunk", "stream")

(* The empty chunk, which ends the answer.                                 *)
WriteLastChunk(w) == WriteStep(w, "stream", "last", "finish")

(* A refusal: HandleRequest_Inner returns after its chunk, with success,   *)
(* and the empty chunk is not written.                                     *)
WriteRefusal(w) == WriteStep(w, "refuse", "refusal", "finish")

WriteAnswer(w) ==
  \/ WriteHeader(w) \/ WriteString(w)
  \/ WriteChunk(w) \/ WriteLastChunk(w) \/ WriteRefusal(w)

Writing == {"head", "body", "stream", "refuse"}

(* A write fails, as it must on a socket that was Shutdown, or the handler *)
(* gives the query up: no result after five seconds.                       *)
WriteFails(w) ==
  /\ running /\ worker[w].pc \in Writing
  /\ worker' = [worker EXCEPT ![w] =
                  [pc |-> "finish", task |-> worker[w].task, ok |-> FALSE]]
  /\ UNCHANGED <<clientVars, netVars, sockVars, acceptor, conn_map, watched,
                 ioVars, queue, running, plan>>

KeepsConnection(w) ==
  /\ worker[w].ok
  /\ ~IsUnknownType(worker[w].task.msg) /\ ~worker[w].task.msg.is_close

(* A faulty variant, for mutation: the socket is closed rather than shut.  *)
FinishTask_Close(w) ==
  /\ running /\ worker[w].pc = "finish"
  /\ fd_of' = IF KeepsConnection(w) THEN fd_of
              ELSE [fd_of EXCEPT ![worker[w].task.sock] = None]
  /\ worker' = [worker EXCEPT ![w] = Resting]
  /\ UNCHANGED <<clientVars, netVars, shut, acceptor, conn_map, watched,
                 ioVars, queue, running, plan>>

(* A faulty variant, for mutation: the worker itself removes a connection  *)
(* that is not kept, as the statement commented out in WorkerFunction does.*)
FinishTask_RemoveEvent(w) ==
  /\ running /\ worker[w].pc = "finish"
  /\ LET s == worker[w].task.sock
     IN  IF KeepsConnection(w)
         THEN UNCHANGED <<shut, watched, conn_map>>
         ELSE /\ shut' = shut \cup {s}
              /\ watched' = watched \ Owners(fd_of[s])
              /\ conn_map' = Erase(fd_of[s])
  /\ worker' = [worker EXCEPT ![w] = Resting]
  /\ UNCHANGED <<clientVars, netVars, fd_of, acceptor, ioVars, queue, running, plan>>

(* The end of HandleTask and of the worker's loop: the connection is shut  *)
(* unless it is kept, and the task is deleted.                             *)
FinishTask(w) ==
  /\ running /\ worker[w].pc = "finish"
  /\ shut' = IF KeepsConnection(w) THEN shut ELSE shut \cup {worker[w].task.sock}
  /\ worker' = [worker EXCEPT ![w] = Resting]
  /\ UNCHANGED <<clientVars, netVars, fd_of, acceptor, conn_map, watched,
                 ioVars, queue, running, plan>>

WorkerStep(w) ==
  Pop(w) \/ WriteAnswer(w) \/ WriteFails(w) \/ FinishTask(w)

-----------------------------------------------------------------------------
ClientStep(c) == Send(c) \/ HangUp(c) \/ HalfClose(c)

HttpNext ==
  \/ \E c \in Clients : ClientStep(c) \/ Accept(c)
  \/ AcceptStep \/ AcceptFails
  \/ EpollStep
  \/ \E w \in Workers : WorkerStep(w)

HttpSpec == HttpInit /\ [][HttpNext]_httpVars

(* The threads of the server are scheduled; the clients do as they like.   *)
FairHttpSpec ==
  /\ HttpSpec
  /\ WF_httpVars(AcceptStep)
  /\ WF_httpVars(EpollStep)
  /\ \A w \in Workers : WF_httpVars(WorkerStep(w))

-----------------------------------------------------------------------------
(* Every variable has its type; an accepted connection has a descriptor,   *)
(* and only a complete request is queued or handled.                       *)
HttpTypeOK ==
  /\ phase \in [Clients -> {"new", "on", "half", "gone"}]
  /\ \A c \in Clients : sent[c] \in 0 .. Len(plan.script[c])
  /\ fd_of \in [Clients -> Fds \cup {None}]
  /\ torn \subseteq Clients /\ shut \subseteq Clients /\ watched \subseteq Clients
  /\ acceptor = Idle \/ acceptor \in [pc : {"insert", "watch"}, sock : Clients, fd : Fds]
  /\ \A conn \in Connections : conn.task # None => conn.task \in Tasks
                                 /\ conn.task.msg.state # "End"
  /\ batch \subseteq Events
  /\ evt.pc \in {"wait", "handle", "received", "erase"}
  /\ \A t \in WaitingTasks \cup BusyTasks : t \in Tasks /\ t.msg.state = "End"
  /\ \A w \in Workers :
       /\ worker[w].pc \in {"pop", "finish"} \cup Writing
       /\ worker[w].pc = "pop" <=> worker[w].task = None
  /\ running \in BOOLEAN

(* A connection in connection_map_ stands under the descriptor its socket  *)
(* still has, so that AddEvent never finds an old connection in the way of *)
(* a new one, which it would then not give to epoll.                       *)
DescriptorsOwned ==
  \A fd \in DOMAIN conn_map : fd_of[conn_map[fd].sock] = fd

(* The event in hand is handled on the connection epoll reported it for,   *)
(* however many descriptors were closed and reused since: GetSocketPtr     *)
(* finds a socket, the right one, and the data goes into its task.         *)
EventsReachTheirSocket ==
  evt.pc # "wait" =>
    /\ evt.sock = evt.from
    /\ evt.fd \in DOMAIN conn_map /\ conn_map[evt.fd].sock = evt.from

(* A client gets answers to its own requests only: WriteAll writes to a    *)
(* descriptor, and no other connection has it while the task lives.        *)
OwnAnswersOnly ==
  \A c \in Clients : \A i \in DOMAIN got[c] : got[c][i].sock = c

(* As long as no read has cut the requests of a client unfavourably, it    *)
(* gets its answers once and in their order, although any worker may       *)
(* handle any of them: the next one starts when the one before is whole,   *)
(* and nothing comes after one that was refused or given up.               *)
Follows(p, q) ==
  \/ p.part = "last" /\ q.part = "head" /\ q.num = p.num + 1
  \/ p.part \in {"head", "chunk"} /\ q.part # "head" /\ q.num = p.num

AnswersInOrder ==
  \A c \in Clients \ torn : \A i \in DOMAIN got[c] :
    IF i = 1 THEN got[c][i].part = "head" /\ got[c][i].num = 1
             ELSE Follows(got[c][i - 1], got[c][i])

(* A request is handled as it was sent, however the network cut it, except *)
(* where IsCleanCut excludes it: the body is whole, nothing is left over   *)
(* but the end of the last chunk, and its fields are seen.                 *)
HandledAsSent ==
  \A t \in WaitingTasks \cup BusyTasks :
    t.sock \notin torn =>
      LET kind == plan.script[t.sock][t.num]
      IN  /\ ~IsUnknownType(t.msg) /\ HasKnownUrl(t.msg)
          /\ t.msg.body = BodyOf(kind)
          /\ t.msg.is_close <=> kind = "closing"
          /\ t.msg.rest = IF kind = "chunked" THEN Eol ELSE <<>>

Waits(c) ==
  /\ ~Complete(c, sent[c]) /\ ~Refused(c)
  /\ phase[c] = "on" /\ c \notin torn \cup shut /\ running

(* A client that waits for the answer to a request that arrived, cut or    *)
(* not, does not wait for ever while it stays on and the server runs: it   *)
(* gets all of it, or a refusal, or its connection is shut.                *)
Answered == \A c \in Clients : []<>~Waits(c)

(* A client that has gone, or was shut, remains so, and its descriptor is  *)
(* given back.                                                             *)
GoneIsForgotten ==
  \A c \in Clients :
    []<>(phase[c] = "gone" \/ c \in shut => c \notin Held \/ ~running)
=============================================================================
