-------------------------- MODULE HttpServerProofs --------------------------
(***************************************************************************)
(* What HttpServer says about descriptors, events and answers, for any     *)
(* clients, plans, descriptors and workers.  The argument is about who     *)
(* holds a socket: as long as somebody does, its descriptor is its own, so *)
(* that a name by descriptor means the same connection to every thread.    *)
(* The second half is about what the requests say: types for every read,   *)
(* by UpdateType, and the order and the contents of the requests as long   *)
(* as all reads of a connection are clean, by CleanRead.                   *)
(***************************************************************************)
EXTENDS HttpServer, HttpMessageProofs

(* The records and functions are of the form the actions build them in.    *)
Shapes ==
  /\ fd_of \in [Clients -> Fds \cup {None}]
  /\ phase \in [Clients -> {"new", "on", "half", "gone"}]
  /\ acceptor = [pc |-> acceptor.pc, sock |-> acceptor.sock, fd |-> acceptor.fd]
  /\ evt = [pc |-> evt.pc, fd |-> evt.fd, from |-> evt.from, type |-> evt.type,
            sock |-> evt.sock, data |-> evt.data]
  /\ queue \in Seq(WaitingTasks)
  /\ worker = [w \in Workers |-> [pc |-> worker[w].pc, task |-> worker[w].task,
                                  ok |-> worker[w].ok]]

(* A socket somebody holds was accepted and has a descriptor of its own.   *)
HeldOK ==
  /\ \A s \in Held : s \in Clients /\ fd_of[s] \in Fds /\ phase[s] # "new"
  /\ \A s, t \in Held : fd_of[s] = fd_of[t] => s = t

MapOK ==
  /\ DOMAIN conn_map \subseteq Fds
  /\ \A fd \in DOMAIN conn_map :
       conn_map[fd].sock \in Clients /\ fd_of[conn_map[fd].sock] = fd

Stands(s, fd) == fd \in DOMAIN conn_map /\ conn_map[fd].sock = s

(* The accept loop: its connection is not in the map before AddEvent puts  *)
(* it there, and nobody hears of it before epoll watches it.               *)
AcceptorOK ==
  /\ acceptor.pc \in {"accept", "insert", "watch"}
  /\ acceptor.pc # "accept" =>
       acceptor.sock \in Clients /\ fd_of[acceptor.sock] = acceptor.fd
       /\ acceptor.fd \in Fds
  /\ acceptor.pc = "insert" => acceptor.fd \notin DOMAIN conn_map
  /\ acceptor.pc = "watch" =>
       /\ Stands(acceptor.sock, acceptor.fd)
       /\ acceptor.sock \notin watched
       /\ \A e \in batch : e.fd # acceptor.fd
       /\ evt.pc # "wait" => evt.fd # acceptor.fd

(* Every socket epoll watches, and every event it has reported, belongs to *)
(* a connection in the map; there is one event for a descriptor.           *)
EventsOK ==
  /\ \A s \in watched : s \in Clients /\ Stands(s, fd_of[s])
  /\ \A e \in batch : Stands(e.from, e.fd)
  /\ \A e, f \in batch : e.fd = f.fd => e = f
  /\ evt.pc # "wait" =>
       /\ evt.sock = evt.from /\ Stands(evt.from, evt.fd)
       /\ \A e \in batch : e.fd # evt.fd
  /\ evt.pc = "erase" => \A s \in watched : fd_of[s] # evt.fd

(* The invariant about sockets and descriptors.                             *)
SocketInv == Shapes /\ HeldOK /\ MapOK /\ AcceptorOK /\ EventsOK

-----------------------------------------------------------------------------
(* The elements of a queue after Append and after Tail.                    *)
LEMMA AppendElements ==
  ASSUME NEW S, NEW q \in Seq(S), NEW x
  PROVE  /\ Append(q, x) \in Seq(S \cup {x})
         /\ \A i \in DOMAIN Append(q, x) :
              Append(q, x)[i] = x \/ \E j \in DOMAIN q : Append(q, x)[i] = q[j]
<1> DEFINE T == S \cup {x}
<1>1. q \in Seq(T) /\ x \in T
  OBVIOUS
<1>2. Append(q, x) \in Seq(T) /\ Len(Append(q, x)) = Len(q) + 1
  BY <1>1
<1>3. \A i \in 1 .. Len(q) : Append(q, x)[i] = q[i]
  BY <1>1
<1>4. Append(q, x)[Len(q) + 1] = x
  BY <1>1
<1> QED
  BY <1>1, <1>2, <1>3, <1>4

(* What is left of a queue after its head was taken.                        *)
LEMMA TailElements ==
  ASSUME NEW S, NEW q \in Seq(S), q # <<>>
  PROVE  /\ Tail(q) \in Seq(S)
         /\ \A i \in DOMAIN Tail(q) : \E j \in DOMAIN q : Tail(q)[i] = q[j]
         /\ \E j \in DOMAIN q : Head(q) = q[j]
<1>1. Len(q) \in Nat /\ Len(q) > 0 /\ DOMAIN q = 1 .. Len(q)
  OBVIOUS
<1>2. Tail(q) \in Seq(S) /\ Len(Tail(q)) = Len(q) - 1
  OBVIOUS
<1>3. \A i \in 1 .. Len(q) - 1 : Tail(q)[i] = q[i + 1]
  OBVIOUS
<1>4. Head(q) = q[1]
  OBVIOUS
<1> QED
  BY <1>1, <1>2, <1>3, <1>4

(* A sequence is a sequence of its own elements.                           *)
LEMMA OwnElements ==
  ASSUME NEW S, NEW q \in Seq(S)
  PROVE  q \in Seq({q[i] : i \in DOMAIN q})
OBVIOUS

-----------------------------------------------------------------------------
(* Held, as a disjunction.                                                 *)
HeldBy(s) ==
  /\ s # None
  /\ \/ s = acceptor.sock \/ s = evt.sock
     \/ \E fd \in DOMAIN conn_map : s = conn_map[fd].sock
     \/ \E i \in DOMAIN queue : s = queue[i].sock
     \/ \E w \in Workers : worker[w].pc # "pop" /\ s = worker[w].task.sock

(* Held, element by element.                                                *)
LEMMA HeldMeans == \A s : s \in Held <=> HeldBy(s)
BY DEF Held, HeldBy, Connections, WaitingTasks, BusyTasks

(* The same of the next state.                                              *)
LEMMA HeldMeansNext == \A s : s \in Held' <=> HeldBy(s)'
BY DEF Held, HeldBy, Connections, WaitingTasks, BusyTasks

(* Initially nobody holds a socket.                                        *)
LEMMA SocketInit == HttpInit => SocketInv
<1> SUFFICES ASSUME HttpInit PROVE SocketInv
  OBVIOUS
<1>1. queue \in Seq(WaitingTasks)
  BY DEF HttpInit
<1>2. Shapes
  BY <1>1 DEF HttpInit, Shapes, Idle, NoEvent, Resting
<1>3. Held = {}
  BY DEF HttpInit, Held, Connections, WaitingTasks, BusyTasks, Idle, NoEvent,
         Resting
<1>4. MapOK /\ AcceptorOK /\ EventsOK
  BY DEF HttpInit, MapOK, AcceptorOK, EventsOK, Idle, NoEvent
<1> QED
  BY <1>2, <1>3, <1>4 DEF SocketInv, HeldOK

(* A step in which nobody takes up a socket that nobody held, and sockets  *)
(* keep their descriptors, keeps what HeldOK says.                         *)
LEMMA HeldShrinks ==
  ASSUME HeldOK, Held' \subseteq Held, fd_of' = fd_of,
         \A s \in Held : phase'[s] # "new"
  PROVE  HeldOK'
BY SMTT(30) DEF HeldOK

(* A client that sends, goes away or stops sending holds nothing.          *)
LEMMA ClientKeepsSockets ==
  ASSUME SocketInv, NEW c \in Clients, ClientStep(c)
  PROVE  SocketInv'
<1> USE DEF SocketInv
<1>1. /\ phase' \in [Clients -> {"new", "on", "half", "gone"}]
      /\ \A s \in Clients : phase[s] # "new" => phase'[s] # "new"
      /\ UNCHANGED <<fd_of, acceptor, conn_map, watched, batch, evt, queue, worker>>
  BY DEF ClientStep, Send, HangUp, HalfClose, Shapes, sockVars, ioVars
<1>2. Held' = Held /\ WaitingTasks' = WaitingTasks
  BY <1>1 DEF Held, Connections, WaitingTasks, BusyTasks
<1>3. HeldOK'
  BY <1>1, <1>2, HeldShrinks DEF HeldOK
<1>4. Shapes' /\ MapOK' /\ AcceptorOK' /\ EventsOK'
  BY <1>1, <1>2 DEF Shapes, MapOK, AcceptorOK, EventsOK, Stands
<1> QED
  BY <1>3, <1>4, SMTT(30)

(* Accept: a new client, held by nobody, gets a descriptor nobody has.     *)
LEMMA AcceptKeepsSockets ==
  ASSUME SocketInv, NEW c \in Clients, Accept(c)
  PROVE  SocketInv'
<1> USE DEF SocketInv
<1>1. PICK fd \in FreeFds :
        /\ acceptor' = [pc |-> "insert", sock |-> c, fd |-> fd]
        /\ fd_of' = [fd_of EXCEPT ![c] = fd]
  BY DEF Accept
<1>2. /\ phase[c] = "new" /\ phase' = [phase EXCEPT ![c] = "on"]
      /\ UNCHANGED <<conn_map, watched, batch, evt, queue, worker>>
  BY DEF Accept, ioVars
<1>3. c \notin Held /\ fd \in Fds /\ \A s \in Held : fd_of[s] # fd
  BY <1>2 DEF HeldOK, FreeFds, Owners
<1>4. \A s \in Held' : s = c \/ s \in Held
  BY <1>1, <1>2, HeldMeans, HeldMeansNext DEF HeldBy
<1>5. \A f \in DOMAIN conn_map : conn_map[f].sock \in Held
  BY HeldMeans, HttpAssumption DEF HeldBy, MapOK
<1>6. HeldOK'
  BY <1>1, <1>2, <1>3, <1>4 DEF HeldOK, Shapes
<1>7. Shapes'
  <2>1. WaitingTasks' = WaitingTasks
    BY <1>2 DEF WaitingTasks
  <2> QED
    BY <1>1, <1>2, <1>3, <2>1 DEF Shapes
<1>8. fd \notin DOMAIN conn_map /\ MapOK'
  BY <1>1, <1>2, <1>3, <1>5 DEF MapOK, Shapes
<1>9. AcceptorOK' /\ EventsOK'
  <2>1. \A s \in watched : s # c /\ fd_of'[s] = fd_of[s]
    BY <1>1, <1>3, <1>5 DEF EventsOK, Stands, Shapes
  <2>2. fd_of'[c] = fd
    BY <1>1 DEF Shapes
  <2> QED
    BY <1>1, <1>2, <1>3, <1>8, <2>1, <2>2 DEF AcceptorOK, EventsOK, Stands
<1> QED
  BY <1>6, <1>7, <1>8, <1>9

(* The rest of the accept loop passes its socket on to the map and epoll.  *)
LEMMA AcceptStepKeepsSockets ==
  ASSUME SocketInv, AcceptStep
  PROVE  SocketInv'
<1> USE DEF SocketInv
<1>1. CASE AddConnection
  <2> DEFINE conn == [sock |-> acceptor.sock, task |-> None]
  <2>1. /\ acceptor.pc = "insert" /\ acceptor.fd \notin DOMAIN conn_map
        /\ acceptor.sock \in Clients /\ acceptor.fd \in Fds
        /\ fd_of[acceptor.sock] = acceptor.fd
    BY <1>1 DEF AddConnection, AcceptorOK
  <2>2. /\ acceptor' = [acceptor EXCEPT !.pc = "watch"]
        /\ UNCHANGED <<phase, fd_of, watched, batch, evt, queue, worker>>
    BY <1>1, <2>1 DEF AddConnection, clientVars, sockVars, ioVars
  <2>3. /\ DOMAIN conn_map' = DOMAIN conn_map \cup {acceptor.fd}
        /\ conn_map'[acceptor.fd].sock = acceptor.sock
        /\ \A f \in DOMAIN conn_map : conn_map'[f] = conn_map[f]
    BY <1>1, <2>1 DEF AddConnection, Put
  <2>4. acceptor' = [pc |-> "watch", sock |-> acceptor.sock, fd |-> acceptor.fd]
    BY <2>2 DEF Shapes
  <2>5. Held' \subseteq Held
    BY <2>2, <2>3, <2>4, HeldMeans, HeldMeansNext DEF HeldBy
  <2>6. HeldOK'
    BY <2>2, <2>5, HeldShrinks DEF HeldOK
  <2>7. Shapes'
    BY <2>2, <2>4 DEF Shapes, WaitingTasks
  <2>8. MapOK'
    BY <2>1, <2>2, <2>3 DEF MapOK
  <2>9. AcceptorOK' /\ EventsOK'
    BY <2>1, <2>2, <2>3, <2>4 DEF AcceptorOK, EventsOK, Stands
  <2> QED
    BY <2>6, <2>7, <2>8, <2>9
<1>2. CASE AddEvent_Epoll
  <2>1. /\ acceptor.pc = "watch" /\ acceptor' = Idle
        /\ watched' = watched \cup Owners(acceptor.fd)
        /\ UNCHANGED <<phase, fd_of, conn_map, batch, evt, queue, worker>>
    BY <1>2 DEF AddEvent_Epoll, clientVars, sockVars, ioVars
  <2>2. acceptor.sock \in Held
    BY <2>1, HeldMeans, HttpAssumption DEF HeldBy, AcceptorOK
  <2>3. \A s \in watched' : s \in watched \/ s = acceptor.sock
    BY <2>1, <2>2 DEF Owners, HeldOK, AcceptorOK
  <2>4. Held' \subseteq Held
    BY <2>1, HeldMeans, HeldMeansNext DEF HeldBy, Idle
  <2>5. HeldOK'
    BY <2>1, <2>4, HeldShrinks DEF HeldOK
  <2>6. Shapes' /\ MapOK' /\ AcceptorOK'
    BY <2>1 DEF Shapes, WaitingTasks, MapOK, AcceptorOK, Idle
  <2>7. EventsOK'
    BY <2>1, <2>3 DEF EventsOK, AcceptorOK, Stands
  <2> QED
    BY <2>5, <2>6, <2>7
<1> QED
  BY <1>1, <1>2 DEF AcceptStep

(* The epoll thread, one case per step.                                    *)
LEMMA EpollKeepsSockets ==
  ASSUME SocketInv, EpollStep
  PROVE  SocketInv'
<1> USE DEF SocketInv
<1>1. CASE WaitForEvents
  <2>1. /\ evt.pc = "wait" /\ batch' = {EventOf(s) : s \in Ready}
        /\ UNCHANGED <<phase, fd_of, acceptor, conn_map, watched, evt, queue, worker>>
    BY <1>1 DEF WaitForEvents, clientVars, sockVars
  <2>2. Held' = Held /\ WaitingTasks' = WaitingTasks
    BY <2>1 DEF Held, Connections, WaitingTasks, BusyTasks
  <2>3. \A e \in batch' : e.from \in watched /\ e.fd = fd_of[e.from]
                          /\ e = EventOf(e.from)
    BY <2>1 DEF EventOf, Ready
  <2>4. HeldOK' /\ Shapes' /\ MapOK'
    BY <2>1, <2>2 DEF HeldOK, Shapes, MapOK
  <2>5. EventsOK'
    BY <2>1, <2>3 DEF EventsOK, Stands
  <2>6. AcceptorOK'
    BY <2>1, <2>3 DEF AcceptorOK, EventsOK, Stands
  <2> QED
    BY <2>4, <2>5, <2>6
<1>2. ASSUME NEW e \in batch, NextEvent(e)
      PROVE  SocketInv'
  <2>1. /\ evt.pc = "wait" /\ batch' = batch \ {e}
        /\ evt' = [pc |-> "handle", fd |-> e.fd, from |-> e.from,
                   type |-> e.type, sock |-> GetSocketPtr(e.fd), data |-> <<>>]
        /\ UNCHANGED <<phase, fd_of, acceptor, conn_map, watched, queue, worker>>
    BY <1>2 DEF NextEvent, clientVars, sockVars
  <2>2. GetSocketPtr(e.fd) = e.from /\ Stands(e.from, e.fd)
    BY DEF GetSocketPtr, EventsOK, Stands
  <2>3. Held' \subseteq Held
    BY <2>1, <2>2, HeldMeans, HeldMeansNext DEF HeldBy, Stands
  <2>4. HeldOK'
    BY <2>1, <2>3, HeldShrinks DEF HeldOK
  <2>5. Shapes' /\ MapOK'
    BY <2>1 DEF Shapes, WaitingTasks, MapOK
  <2>6. EventsOK' /\ AcceptorOK'
    BY <2>1, <2>2 DEF EventsOK, AcceptorOK, Stands
  <2> QED
    BY <2>4, <2>5, <2>6
<1>3. CASE IgnoreEvent
  <2>1. /\ evt' = NoEvent
        /\ UNCHANGED <<phase, fd_of, acceptor, conn_map, watched, batch, queue, worker>>
    BY <1>3 DEF IgnoreEvent, clientVars, sockVars
  <2>2. Held' \subseteq Held
    BY <2>1, HeldMeans, HeldMeansNext DEF HeldBy, NoEvent
  <2>3. HeldOK'
    BY <2>1, <2>2, HeldShrinks DEF HeldOK
  <2>4. Shapes' /\ MapOK' /\ EventsOK' /\ AcceptorOK'
    BY <2>1 DEF Shapes, WaitingTasks, MapOK, EventsOK, AcceptorOK, Stands, NoEvent
  <2> QED
    BY <2>3, <2>4
<1>4. CASE Recv
  <2>1. /\ evt.pc = "handle"
        /\ UNCHANGED <<phase, fd_of, acceptor, conn_map, watched, batch, queue, worker>>
    BY <1>4 DEF Recv, clientVars, sockVars
  <2>2. PICK d : evt' = [evt EXCEPT !.pc = "received", !.data = d]
    BY <1>4 DEF Recv
  <2>3. evt' = [pc |-> "received", fd |-> evt.fd, from |-> evt.from,
                type |-> evt.type, sock |-> evt.sock, data |-> d]
    BY <2>2 DEF Shapes
  <2>4. Held' = Held /\ WaitingTasks' = WaitingTasks
    BY <2>1, <2>3 DEF Held, Connections, WaitingTasks, BusyTasks
  <2>5. HeldOK' /\ Shapes' /\ MapOK' /\ EventsOK' /\ AcceptorOK'
    BY <2>1, <2>3, <2>4 DEF HeldOK, Shapes, MapOK, EventsOK, AcceptorOK, Stands
  <2> QED
    BY <2>5
<1>5. CASE OnDataReceived
  <2>1. /\ evt.pc = "received" /\ evt' = NoEvent
        /\ UNCHANGED <<phase, fd_of, acceptor, watched, batch, worker>>
    BY <1>5 DEF OnDataReceived, clientVars, sockVars
  <2>2. Stands(evt.from, evt.fd)
    BY <2>1 DEF EventsOK
  <2>3. PICK new, task :
          /\ new.sock = conn_map[evt.fd].sock
          /\ conn_map' = Put(evt.fd, [sock |-> conn_map[evt.fd].sock, task |-> task])
          /\ queue' = queue \/ queue' = Append(queue, new)
    BY <1>5, <2>2, Zenon DEF OnDataReceived, Stands
  <2>4. /\ DOMAIN conn_map' = DOMAIN conn_map
        /\ \A f \in DOMAIN conn_map : conn_map'[f].sock = conn_map[f].sock
    BY <2>2, <2>3 DEF Put, Stands
  <2>5. /\ queue' \in Seq(WaitingTasks')
        /\ \A i \in DOMAIN queue' :
             queue'[i] = new \/ \E j \in DOMAIN queue : queue'[i] = queue[j]
    <3>1. CASE queue' = queue
      BY <3>1 DEF Shapes, WaitingTasks
    <3>2. CASE queue' = Append(queue, new)
      <4>1. queue' \in Seq(WaitingTasks \cup {new})
        BY <3>2, AppendElements DEF Shapes
      <4>2. queue' \in Seq({queue'[i] : i \in DOMAIN queue'})
        BY <4>1, OwnElements
      <4> QED
        BY <3>2, <4>2, AppendElements, SMTT(30) DEF Shapes, WaitingTasks
    <3> QED
      BY <2>3, <3>1, <3>2
  <2>6. Held' \subseteq Held
    BY <2>1, <2>2, <2>3, <2>4, <2>5, HeldMeans, HeldMeansNext
       DEF HeldBy, NoEvent, Stands
  <2>7. HeldOK'
    BY <2>1, <2>6, HeldShrinks DEF HeldOK
  <2>8. Shapes'
    BY <2>1, <2>5 DEF Shapes, NoEvent
  <2>9. MapOK' /\ EventsOK' /\ AcceptorOK'
    BY <2>1, <2>4 DEF MapOK, EventsOK, AcceptorOK, Stands, NoEvent
  <2> QED
    BY <2>7, <2>8, <2>9
<1>6. CASE RemoveEvent_Epoll
  <2>1. /\ evt.pc = "handle" /\ evt' = [evt EXCEPT !.pc = "erase"]
        /\ watched' = watched \ Owners(evt.fd)
        /\ UNCHANGED <<phase, fd_of, acceptor, conn_map, batch, queue, worker>>
    BY <1>6 DEF RemoveEvent_Epoll, clientVars, sockVars
  <2>2. evt' = [pc |-> "erase", fd |-> evt.fd, from |-> evt.from,
                type |-> evt.type, sock |-> evt.sock, data |-> evt.data]
    BY <2>1 DEF Shapes
  <2>3. Held' = Held /\ WaitingTasks' = WaitingTasks
    BY <2>1, <2>2 DEF Held, Connections, WaitingTasks, BusyTasks
  <2>4. \A s \in watched : s \in Held
    BY HeldMeans, HttpAssumption DEF HeldBy, EventsOK, Stands
  <2>5. \A s \in watched' : s \in watched /\ fd_of[s] # evt.fd
    BY <2>1, <2>4 DEF Owners
  <2>6. HeldOK' /\ Shapes' /\ MapOK' /\ AcceptorOK'
    BY <2>1, <2>2, <2>3 DEF HeldOK, Shapes, MapOK, AcceptorOK, Stands
  <2>7. EventsOK'
    BY <2>1, <2>2, <2>5 DEF EventsOK, Stands
  <2> QED
    BY <2>6, <2>7
<1>7. CASE EraseConnection
  <2>1. /\ evt.pc = "erase" /\ evt' = NoEvent /\ conn_map' = Erase(evt.fd)
        /\ UNCHANGED <<phase, fd_of, acceptor, watched, batch, queue, worker>>
    BY <1>7 DEF EraseConnection, clientVars, sockVars
  <2>2. /\ DOMAIN conn_map' = DOMAIN conn_map \ {evt.fd}
        /\ \A f \in DOMAIN conn_map' : conn_map'[f] = conn_map[f]
    BY <2>1 DEF Erase
  <2>3. Held' \subseteq Held
    BY <2>1, <2>2, HeldMeans, HeldMeansNext DEF HeldBy, NoEvent
  <2>4. HeldOK'
    BY <2>1, <2>3, HeldShrinks DEF HeldOK
  <2>5. Shapes' /\ MapOK'
    BY <2>1, <2>2 DEF Shapes, WaitingTasks, MapOK, NoEvent
  <2>6. EventsOK' /\ AcceptorOK'
    BY <2>1, <2>2 DEF EventsOK, AcceptorOK, Stands, NoEvent
  <2> QED
    BY <2>4, <2>5, <2>6
<1> QED
  BY <1>1, <1>2, <1>3, <1>4, <1>5, <1>6, <1>7 DEF EpollStep

(* Any write of an answer: the header first, then what follows a header,   *)
(* and nothing after the last of it.                                       *)
LEMMA WriteMeans ==
  ASSUME NEW w, WriteAnswer(w)
  PROVE  \E pc, part, next :
           /\ pc \in Writing /\ WriteStep(w, pc, part, next)
           /\ pc = "head" => part = "head" /\ next \in {"body", "stream", "refuse"}
           /\ pc # "head" => \/ part = "chunk" /\ next = "stream"
                             \/ part \in {"last", "refusal"} /\ next = "finish"
<1>1. CASE WriteHeader(w)
  <2>1. PICK next \in {"body", "stream", "refuse"} : WriteStep(w, "head", "head", next)
    BY <1>1 DEF WriteHeader
  <2> QED
    BY <2>1 DEF Writing
<1>2. CASE WriteString(w)
  <2>1. WriteStep(w, "body", "last", "finish")
    BY <1>2 DEF WriteString
  <2> QED
    BY <2>1 DEF Writing
<1>3. CASE WriteChunk(w)
  <2>1. WriteStep(w, "stream", "chunk", "stream")
    BY <1>3 DEF WriteChunk
  <2>2. "stream" \in Writing /\ "stream" # "head"
    BY DEF Writing
  <2> QED
    BY <2>1, <2>2
<1>4. CASE WriteLastChunk(w)
  <2>1. WriteStep(w, "stream", "last", "finish")
    BY <1>4 DEF WriteLastChunk
  <2> QED
    BY <2>1 DEF Writing
<1>5. CASE WriteRefusal(w)
  <2>1. WriteStep(w, "refuse", "refusal", "finish")
    BY <1>5 DEF WriteRefusal
  <2> QED
    BY <2>1 DEF Writing
<1> QED
  BY <1>1, <1>2, <1>3, <1>4, <1>5 DEF WriteAnswer

(* What a write leaves alone, and what becomes of the worker.              *)
LEMMA WriteLeaves ==
  ASSUME NEW w, WriteAnswer(w) \/ WriteFails(w)
  PROVE  /\ UNCHANGED <<phase, sent, netVars, sockVars, acceptor, conn_map, watched,
                        ioVars, queue, running, plan>>
         /\ worker[w].pc \in Writing
         /\ \E pc \in {"body", "stream", "refuse", "finish"}, ok \in BOOLEAN :
              worker' = [worker EXCEPT ![w] =
                           [pc |-> pc, task |-> worker[w].task, ok |-> ok]]
<1>1. CASE WriteFails(w)
  BY <1>1 DEF WriteFails, clientVars
<1>2. CASE WriteAnswer(w)
  <2>1. PICK pc, part, next :
          /\ pc \in Writing
          /\ WriteStep(w, pc, part, next)
          /\ next \in {"body", "stream", "refuse", "finish"}
    BY <1>2, WriteMeans
  <2> QED
    BY <2>1 DEF WriteStep
<1> QED
  BY <1>1, <1>2

(* A worker takes its socket over from the queue and lets it go in the end.*)
LEMMA WorkerKeepsSockets ==
  ASSUME SocketInv, NEW w \in Workers, WorkerStep(w)
  PROVE  SocketInv'
<1> USE DEF SocketInv
<1>1. UNCHANGED <<phase, fd_of, acceptor, conn_map, watched, batch, evt>>
  BY WriteLeaves DEF WorkerStep, Pop, FinishTask, clientVars, sockVars, ioVars
<1>2. Shapes' /\ Held' \subseteq Held
  <2>1. CASE Pop(w)
    <3>1. PICK pc : worker' = [worker EXCEPT ![w] =
                                 [pc |-> pc, task |-> Head(queue), ok |-> FALSE]]
      BY <2>1 DEF Pop
    <3>2. queue # <<>> /\ queue' = Tail(queue)
      BY <2>1 DEF Pop
    <3>3. /\ queue' \in Seq(WaitingTasks)
          /\ \A i \in DOMAIN queue' : \E j \in DOMAIN queue : queue'[i] = queue[j]
          /\ \E j \in DOMAIN queue : Head(queue) = queue[j]
      BY <3>2, TailElements DEF Shapes
    <3>4. queue' \in Seq(WaitingTasks')
      BY <3>3, OwnElements DEF WaitingTasks
    <3>5. Shapes'
      BY <1>1, <3>1, <3>4 DEF Shapes
    <3>6. /\ worker'[w].task = Head(queue)
          /\ \A v \in Workers \ {w} : worker'[v] = worker[v]
      BY <3>1 DEF Shapes
    <3>7. Held' \subseteq Held
      BY <1>1, <3>3, <3>6, HeldMeans, HeldMeansNext DEF HeldBy
    <3> QED
      BY <3>5, <3>7
  <2>2. CASE WriteAnswer(w) \/ WriteFails(w)
    <3>1. worker[w].pc # "pop" /\ queue' = queue
      BY <2>2, WriteLeaves DEF Writing
    <3>2. PICK pc, ok :
            worker' = [worker EXCEPT ![w] =
                         [pc |-> pc, task |-> worker[w].task, ok |-> ok]]
      BY <2>2, WriteLeaves
    <3>3. Shapes'
      BY <1>1, <3>1, <3>2 DEF Shapes, WaitingTasks
    <3>4. /\ worker'[w].task = worker[w].task
          /\ \A v \in Workers \ {w} : worker'[v] = worker[v]
      BY <3>2 DEF Shapes
    <3>5. Held' \subseteq Held
      BY <1>1, <3>1, <3>4, HeldMeans, HeldMeansNext DEF HeldBy
    <3> QED
      BY <3>3, <3>5
  <2>3. CASE FinishTask(w)
    <3>1. queue' = queue /\ worker' = [worker EXCEPT ![w] = Resting]
      BY <2>3 DEF FinishTask
    <3>2. Shapes'
      BY <1>1, <3>1 DEF Shapes, WaitingTasks, Resting
    <3>3. /\ worker'[w].pc = "pop"
          /\ \A v \in Workers \ {w} : worker'[v] = worker[v]
      BY <3>1 DEF Shapes, Resting
    <3>4. Held' \subseteq Held
      BY <1>1, <3>1, <3>3, HeldMeans, HeldMeansNext DEF HeldBy
    <3> QED
      BY <3>2, <3>4
  <2> QED
    BY <2>1, <2>2, <2>3 DEF WorkerStep
<1>3. HeldOK'
  BY <1>1, <1>2, HeldShrinks DEF HeldOK
<1>4. MapOK' /\ AcceptorOK' /\ EventsOK'
  BY <1>1 DEF MapOK, AcceptorOK, EventsOK, Stands
<1> QED
  BY <1>2, <1>3, <1>4

(* A step that leaves all of this alone.                                   *)
LEMMA UntouchedSockets ==
  ASSUME SocketInv,
         UNCHANGED <<phase, fd_of, acceptor, conn_map, watched, batch, evt,
                     queue, worker>>
  PROVE  SocketInv'
<1>1. Held' = Held /\ WaitingTasks' = WaitingTasks
  BY DEF Held, Connections, WaitingTasks, BusyTasks
<1>2. Shapes' /\ HeldOK' /\ MapOK'
  BY <1>1 DEF SocketInv, Shapes, HeldOK, MapOK
<1>3. AcceptorOK' /\ EventsOK'
  BY DEF SocketInv, AcceptorOK, EventsOK, Stands
<1> QED
  BY <1>2, <1>3 DEF SocketInv

(* Every step of the server and of its clients.                            *)
LEMMA SocketStep == SocketInv /\ [HttpNext]_httpVars => SocketInv'
<1> SUFFICES ASSUME SocketInv, [HttpNext]_httpVars PROVE SocketInv'
  OBVIOUS
<1>1. CASE AcceptFails
  BY <1>1, UntouchedSockets DEF AcceptFails, clientVars, sockVars, ioVars
<1>2. CASE UNCHANGED httpVars
  BY <1>2, UntouchedSockets DEF httpVars, clientVars, sockVars, ioVars
<1> QED
  BY <1>1, <1>2, ClientKeepsSockets, AcceptKeepsSockets,
     AcceptStepKeepsSockets, EpollKeepsSockets, WorkerKeepsSockets DEF HttpNext

(* The invariant about sockets and descriptors.                             *)
LEMMA SocketsAlwaysOK == HttpSpec => []SocketInv
BY SocketInit, SocketStep, PTL DEF HttpSpec

(* A connection stands in connection_map_ under the descriptor its socket  *)
(* still has, for any number of connections, descriptors and workers:      *)
(* AddEvent never replaces a connection.                                   *)
THEOREM DescriptorsAlwaysOwned == HttpSpec => []DescriptorsOwned
<1>1. SocketInv => DescriptorsOwned
  BY DEF SocketInv, MapOK, DescriptorsOwned
<1> QED
  BY <1>1, SocketsAlwaysOK, PTL

(* HandleEvent always works on the connection epoll reported the event     *)
(* for, however descriptors are reused while a batch of events is handled. *)
THEOREM EventsAlwaysReach == HttpSpec => []EventsReachTheirSocket
<1>1. SocketInv => EventsReachTheirSocket
  BY DEF SocketInv, EventsOK, Stands, EventsReachTheirSocket
<1> QED
  BY <1>1, SocketsAlwaysOK, PTL

-----------------------------------------------------------------------------
(* The answers: a task has the socket of a client, and what was written to *)
(* a client was written for a task of its own.                             *)
TasksOK ==
  /\ \A i \in DOMAIN queue : queue[i].sock \in Clients
  /\ \A w \in Workers : worker[w].pc # "pop" => worker[w].task.sock \in Clients

(* A sequence, of whatever elements it has.                                *)
IsSequence(q) == q \in Seq({q[i] : i \in DOMAIN q})

AnswersInv ==
  /\ got = [c \in Clients |-> got[c]]
  /\ \A c \in Clients : IsSequence(got[c])
  /\ TasksOK /\ OwnAnswersOnly

(* There are no answers in the beginning.                                   *)
LEMMA AnswersInit == HttpInit => AnswersInv
BY DEF HttpInit, AnswersInv, IsSequence, TasksOK, OwnAnswersOnly, Resting

(* Appending a part of a client's own task.                                *)
LEMMA OwnPart ==
  ASSUME NEW c, NEW q, NEW part,
         IsSequence(q), \A i \in DOMAIN q : q[i].sock = c, part.sock = c
  PROVE  /\ IsSequence(Append(q, part))
         /\ \A i \in DOMAIN Append(q, part) : Append(q, part)[i].sock = c
<1> DEFINE r == Append(q, part)
           S == {q[i] : i \in DOMAIN q}
<1>1. /\ r \in Seq(S \cup {part})
      /\ \A i \in DOMAIN r : r[i] = part \/ \E j \in DOMAIN q : r[i] = q[j]
  BY AppendElements DEF IsSequence
<1> HIDE DEF S, r
<1>2. IsSequence(r) /\ \A i \in DOMAIN r : r[i].sock = c
  BY <1>1, OwnElements DEF IsSequence
<1> QED
  BY <1>2 DEF r

(* Every step keeps answers with their clients.                             *)
LEMMA AnswersStep == SocketInv /\ AnswersInv /\ [HttpNext]_httpVars => AnswersInv'
<1> SUFFICES ASSUME SocketInv, AnswersInv, [HttpNext]_httpVars PROVE AnswersInv'
  OBVIOUS
<1>1. ASSUME UNCHANGED <<got, queue, worker>> PROVE AnswersInv'
  BY <1>1 DEF AnswersInv, TasksOK, OwnAnswersOnly
<1>2. CASE OnDataReceived
  <2>1. evt.pc = "received" /\ UNCHANGED <<got, worker>>
    BY <1>2 DEF OnDataReceived, clientVars
  <2>2. Stands(evt.from, evt.fd) /\ conn_map[evt.fd].sock \in Clients
    BY <2>1 DEF SocketInv, EventsOK, MapOK, Stands
  <2>3. PICK new : /\ new.sock = conn_map[evt.fd].sock
                   /\ queue' = queue \/ queue' = Append(queue, new)
    BY <1>2, <2>2, Zenon DEF OnDataReceived, Stands
  <2>4. \A i \in DOMAIN queue' : queue'[i].sock \in Clients
    <3>1. CASE queue' = queue
      BY <3>1 DEF AnswersInv, TasksOK
    <3>2. CASE queue' = Append(queue, new)
      BY <2>2, <2>3, <3>2, AppendElements DEF AnswersInv, TasksOK, SocketInv, Shapes
    <3> QED
      BY <2>3, <3>1, <3>2
  <2> QED
    BY <2>1, <2>4 DEF AnswersInv, TasksOK, OwnAnswersOnly
<1>3. ASSUME NEW w \in Workers, Pop(w) PROVE AnswersInv'
  <2>1. PICK pc : worker' = [worker EXCEPT ![w] =
                               [pc |-> pc, task |-> Head(queue), ok |-> FALSE]]
    BY <1>3 DEF Pop
  <2>2. queue # <<>> /\ queue' = Tail(queue) /\ got' = got
    BY <1>3 DEF Pop, clientVars
  <2>3. /\ \A i \in DOMAIN queue' : \E j \in DOMAIN queue : queue'[i] = queue[j]
        /\ \E j \in DOMAIN queue : Head(queue) = queue[j]
    BY <2>2, TailElements DEF SocketInv, Shapes
  <2> QED
    BY <2>1, <2>2, <2>3 DEF AnswersInv, TasksOK, OwnAnswersOnly, SocketInv, Shapes
<1>4. ASSUME NEW w \in Workers, NEW pc \in Writing, NEW kind, NEW next,
             WriteStep(w, pc, kind, next)
      PROVE  AnswersInv'
  <2> DEFINE t    == worker[w].task
             part == [sock |-> t.sock, num |-> t.num, part |-> kind]
  <2>1. /\ worker[w].pc = pc /\ queue' = queue
        /\ worker' = [worker EXCEPT ![w] =
                        [pc |-> next, task |-> worker[w].task, ok |-> TRUE]]
        /\ got' = [c \in Clients |-> IF c \in Owners(fd_of[t.sock])
                                     THEN Append(got[c], part) ELSE got[c]]
    BY <1>4 DEF WriteStep, Deliver
  <2>2. t.sock \in Clients /\ t.sock \in Held
    BY <2>1, HeldMeans, HttpAssumption DEF AnswersInv, TasksOK, HeldBy, Writing
  <2>3. \A c \in Owners(fd_of[t.sock]) : c = t.sock
    BY <2>2 DEF SocketInv, HeldOK, Owners
  <2>4. TasksOK'
    BY <2>1, <2>2 DEF TasksOK, AnswersInv, SocketInv, Shapes
  <2>5. ASSUME NEW c \in Clients
        PROVE  /\ IsSequence(got'[c])
               /\ \A i \in DOMAIN got'[c] : got'[c][i].sock = c
    <3>1. CASE c \in Owners(fd_of[t.sock])
      <4>1. got'[c] = Append(got[c], part) /\ part.sock = c
        BY <2>1, <2>3, <3>1
      <4>2. IsSequence(got[c]) /\ \A i \in DOMAIN got[c] : got[c][i].sock = c
        BY DEF AnswersInv, OwnAnswersOnly
      <4> HIDE DEF part
      <4> QED
        BY <4>1, <4>2, OwnPart
    <3>2. CASE c \notin Owners(fd_of[t.sock])
      BY <2>1, <3>2 DEF AnswersInv, OwnAnswersOnly
    <3> QED
      BY <3>1, <3>2
  <2> QED
    BY <2>1, <2>4, <2>5 DEF AnswersInv, OwnAnswersOnly
<1>5. ASSUME NEW w \in Workers, WriteFails(w) \/ FinishTask(w) PROVE AnswersInv'
  <2>1. UNCHANGED <<got, queue>>
    BY <1>5 DEF WriteFails, FinishTask, clientVars
  <2>2. PICK new : /\ worker' = [worker EXCEPT ![w] = new]
                   /\ new.pc # "pop" => worker[w].pc # "pop"
                                         /\ new.task = worker[w].task
    BY <1>5, SMTT(30) DEF WriteFails, FinishTask, Resting, Writing
  <2>3. TasksOK'
    BY <2>1, <2>2, SMTT(30) DEF TasksOK, AnswersInv, SocketInv, Shapes
  <2> QED
    BY <2>1, <2>3 DEF AnswersInv, OwnAnswersOnly
<1>6. ASSUME NEW c \in Clients, ClientStep(c) \/ Accept(c)
      PROVE  AnswersInv'
  BY <1>1, <1>6 DEF ClientStep, Send, HangUp, HalfClose, Accept, clientVars
<1>7. CASE AcceptStep \/ AcceptFails
  BY <1>1, <1>7, SMTT(30) DEF AcceptStep, AddConnection, AddEvent_Epoll, AcceptFails,
                              clientVars
<1>8. CASE EpollStep
  BY <1>1, <1>2, <1>8 DEF EpollStep, WaitForEvents, NextEvent, IgnoreEvent, Recv,
                          RemoveEvent_Epoll, EraseConnection, clientVars
<1>9. CASE UNCHANGED httpVars
  BY <1>1, <1>9 DEF httpVars, clientVars
<1>10. ASSUME NEW w \in Workers, WorkerStep(w) PROVE AnswersInv'
  BY <1>3, <1>4, <1>5, <1>10, WriteMeans DEF WorkerStep
<1> QED
  BY <1>6, <1>7, <1>8, <1>9, <1>10 DEF HttpNext

(* A client gets answers to its own requests only, whatever connections    *)
(* come and go on its descriptor before and after it.                      *)
THEOREM AnswersAlwaysOwn == HttpSpec => []OwnAnswersOnly
<1>1. AnswersInv => OwnAnswersOnly
  BY DEF AnswersInv
<1> QED
  BY <1>1, AnswersInit, AnswersStep, SocketsAlwaysOK, PTL DEF HttpSpec
-----------------------------------------------------------------------------
(* The types: what arrived consists of symbols, a part of a request that   *)
(* was received is one of a request that was sent, so that its number is   *)
(* not 0, and only a complete request is queued or handled.                *)
DataOK ==
  /\ plan \in Plans
  /\ sent = [c \in Clients |-> sent[c]]
  /\ wire = [c \in Clients |-> wire[c]]
  /\ \A c \in Clients :
       /\ sent[c] \in 0 .. Len(plan.script[c])
       /\ wire[c] \in Seq(Symbols)
       /\ wire[c] # <<>> => sent[c] > 0
  /\ evt.data \in Seq(Symbols)
  /\ evt.pc = "received" => sent[evt.from] > 0

RequestsOK ==
  /\ \A fd \in DOMAIN conn_map : conn_map[fd].task # None =>
       conn_map[fd].task \in Tasks /\ conn_map[fd].task.msg.state # "End"
  /\ \A i \in DOMAIN queue : queue[i] \in Tasks /\ queue[i].msg.state = "End"
  /\ \A w \in Workers : worker[w].pc # "pop" =>
       worker[w].task \in Tasks /\ worker[w].task.msg.state = "End"
  /\ \A w \in Workers : worker[w].pc = "pop" => worker[w].task = None

ControlOK ==
  /\ torn \subseteq Clients /\ shut \subseteq Clients
  /\ acceptor.pc = "accept" => acceptor = Idle
  /\ batch \subseteq Events
  /\ evt.pc \in {"wait", "handle", "received", "erase"}
  /\ evt.pc # "wait" => evt.from \in Clients
  /\ \A w \in Workers : worker[w].pc \in {"pop", "finish"} \cup Writing
  /\ running \in BOOLEAN

HttpTypeInv == DataOK /\ RequestsOK /\ ControlOK

-----------------------------------------------------------------------------
(* One request at a time.  The request a client sent last, and its text.   *)
KindOf(c) == plan.script[c][sent[c]]
Text(c)   == Request[KindOf(c)]

(* The event in hand brings data from c.                                   *)
Brings(c) == evt.pc = "received" /\ evt.from = c

(* The connection of c, if there is one, has this task.                    *)
HasTask(c, task) ==
  \A fd \in DOMAIN conn_map : conn_map[fd].sock = c => conn_map[fd].task = task

(* Nothing of a request of c is on its way or in its connection.           *)
Quiet(c) == wire[c] = <<>> /\ HasTask(c, None) /\ ~Brings(c)

(* The task of a connection that has read the request of kind up to q.     *)
TaskAt(c, num, kind, q) ==
  IF q = 0 THEN None ELSE [sock |-> c, num |-> num, msg |-> Partial(kind, q)]

(* The last request of c has been read up to q and received up to p, both  *)
(* clean cuts, and the rest of it is on the wire or was lost.              *)
ReadUpTo(c, q, p) ==
  /\ Complete(c, sent[c] - 1)
  /\ wire[c] \in {<<>>, SubSeq(Text(c), p + 1, Len(Text(c)))}
  /\ HasTask(c, TaskAt(c, sent[c], KindOf(c), q))
  /\ IF Brings(c)
     THEN q < p /\ IsCleanCut(KindOf(c), p) /\ evt.data = Left(KindOf(c), q, p)
     ELSE q = p
  /\ acceptor.pc = "insert" /\ acceptor.sock = c => q = 0

(* The answer to the last request of c has begun, and there is more of it. *)
Begun(c) ==
  /\ got[c] # <<>>
  /\ LastPart(c).num = sent[c] /\ LastPart(c).part \in {"head", "chunk"}

(* The last request of c is being answered: n = 0, nothing of the answer   *)
(* is written, or n = 1, some of it.                                       *)
Answering(c, n) ==
  sent[c] > 0 /\ Quiet(c) /\ IF n = 0 THEN Complete(c, sent[c] - 1) ELSE Begun(c)

(* The task of a request that is handled as it was sent.                   *)
AsSent(t) == IsWhole(plan.script[t.sock][t.num], t.msg)

LastTask(t, n) == t.num = sent[t.sock] /\ AsSent(t) /\ Answering(t.sock, n)

(* Before it is finished, a task is the only one of its client, and of the *)
(* client's last request.                                                  *)
Unanswered(w) == worker[w].pc \in Writing

QueueOK ==
  \A i \in DOMAIN queue : queue[i].sock \notin torn => LastTask(queue[i], 0)

WritersOK ==
  \A w \in Workers : worker[w].pc # "pop" /\ worker[w].task.sock \notin torn =>
    /\ worker[w].pc = "head" => LastTask(worker[w].task, 0)
    /\ worker[w].pc \in Writing \ {"head"} => LastTask(worker[w].task, 1)
    /\ worker[w].pc = "finish" => AsSent(worker[w].task)

OneTask ==
  /\ \A i, j \in DOMAIN queue :
       queue[i].sock = queue[j].sock /\ queue[i].sock \notin torn => i = j
  /\ \A v, w \in Workers :
       Unanswered(v) /\ Unanswered(w) /\ worker[v].task.sock = worker[w].task.sock
         /\ worker[v].task.sock \notin torn => v = w
  /\ \A i \in DOMAIN queue : \A w \in Workers :
       Unanswered(w) /\ queue[i].sock \notin torn => worker[w].task.sock # queue[i].sock

Reader(c) ==
  \/ Quiet(c)
  \/ sent[c] > 0 /\ \E q \in Cuts[KindOf(c)], p \in 0 .. Len(Text(c)) : ReadUpTo(c, q, p)

ReadersOK == \A c \in Clients \ torn : Reader(c)

(* What AnswersInOrder says of the part i of the parts q.                  *)
InOrder(q, i) ==
  IF i = 1 THEN q[i].part = "head" /\ q[i].num = 1 ELSE Follows(q[i - 1], q[i])

NewOK == \A c \in Clients : phase[c] = "new" => sent[c] = 0

OrderInv ==
  NewOK /\ ReadersOK /\ QueueOK /\ WritersOK /\ OneTask /\ AnswersInOrder
-----------------------------------------------------------------------------
(* What a plan says, and the requests of a client.                         *)
LEMMA ScriptType ==
  ASSUME plan \in Plans, NEW c \in Clients
  PROVE  plan.script[c] \in Seq(Kinds) /\ Len(plan.script[c]) \in Nat
BY HttpAssumption

(* Initially nothing was sent.                                             *)
LEMMA TypeInit == HttpInit => HttpTypeInv
<1> SUFFICES ASSUME HttpInit PROVE HttpTypeInv
  OBVIOUS
<1>1. \A c \in Clients : 0 \in 0 .. Len(plan.script[c])
  BY ScriptType DEF HttpInit
<1>2. DataOK
  BY <1>1 DEF HttpInit, DataOK, NoEvent
<1>3. RequestsOK /\ ControlOK
  BY DEF HttpInit, RequestsOK, ControlOK, Resting, Idle, NoEvent
<1> QED
  BY <1>2, <1>3 DEF HttpTypeInv

(* What a client does.                                                     *)
LEMMA ClientTypes ==
  ASSUME HttpTypeInv, NEW c \in Clients, ClientStep(c)
  PROVE  HttpTypeInv'
<1> USE DEF HttpTypeInv
<1>1. UNCHANGED <<torn, shut, acceptor, conn_map, batch, evt, queue, worker, running, plan>>
  BY DEF ClientStep, Send, HangUp, HalfClose, netVars, sockVars, ioVars
<1>2. RequestsOK' /\ ControlOK'
  BY <1>1 DEF RequestsOK, ControlOK
<1>3. DataOK'
  <2>1. CASE Send(c)
    <3> DEFINE kind == plan.script[c][sent[c] + 1]
    <3>1. /\ sent' = [sent EXCEPT ![c] = @ + 1] /\ sent[c] < Len(plan.script[c])
          /\ wire' = [wire EXCEPT ![c] = @ \o Request[kind]]
      BY <2>1 DEF Send
    <3>2. sent[c] \in Nat /\ plan.script[c] \in Seq(Kinds) /\ Len(plan.script[c]) \in Nat
      BY ScriptType DEF DataOK
    <3>3. kind \in Kinds
      BY <3>1, <3>2
    <3>4. wire[c] \o Request[kind] \in Seq(Symbols)
      BY <3>3, TextType DEF DataOK
    <3> HIDE DEF kind
    <3>5. sent'[c] = sent[c] + 1 /\ wire'[c] = wire[c] \o Request[kind]
      BY <3>1 DEF DataOK
    <3>6. \A d \in Clients \ {c} : sent'[d] = sent[d] /\ wire'[d] = wire[d]
      BY <3>1 DEF DataOK
    <3>7. sent' = [d \in Clients |-> sent'[d]] /\ wire' = [d \in Clients |-> wire'[d]]
      BY <3>1 DEF DataOK
    <3>8. ASSUME NEW d \in Clients
          PROVE  /\ sent'[d] \in 0 .. Len(plan.script[d]) /\ wire'[d] \in Seq(Symbols)
                 /\ wire'[d] # <<>> => sent'[d] > 0
                 /\ sent[d] > 0 => sent'[d] > 0
      <4>1. CASE d = c
        BY <3>1, <3>2, <3>4, <3>5, <4>1
      <4>2. CASE d # c
        <5>1. sent'[d] = sent[d] /\ wire'[d] = wire[d]
          BY <3>6, <4>2
        <5> QED
          BY <5>1 DEF DataOK
      <4> QED
        BY <4>1, <4>2
    <3> QED
      BY <1>1, <3>7, <3>8 DEF DataOK, ControlOK
  <2>2. CASE HangUp(c)
    <3>1. sent' = sent /\ \E left \in {wire[c], <<>>} : wire' = [wire EXCEPT ![c] = left]
      BY <2>2 DEF HangUp
    <3>2. wire' = [d \in Clients |-> wire'[d]]
      BY <3>1 DEF DataOK
    <3>3. \A d \in Clients : wire'[d] \in {wire[d], <<>>}
      BY <3>1 DEF DataOK
    <3>4. ASSUME NEW d \in Clients
          PROVE  wire'[d] \in Seq(Symbols) /\ (wire'[d] # <<>> => sent[d] > 0)
      <4>1. <<>> \in Seq(Symbols)
        OBVIOUS
      <4>2. wire[d] \in Seq(Symbols) /\ (wire[d] # <<>> => sent[d] > 0)
        BY DEF DataOK
      <4>3. wire'[d] = wire[d] \/ wire'[d] = <<>>
        BY <3>3
      <4> QED
        BY <4>1, <4>2, <4>3
    <3>5. plan' = plan /\ evt' = evt /\ sent' = sent
      BY <1>1, <3>1
    <3> QED
      BY <3>2, <3>4, <3>5 DEF DataOK
  <2>3. CASE HalfClose(c)
    BY <1>1, <2>3 DEF HalfClose, netVars, DataOK
  <2> QED
    BY <2>1, <2>2, <2>3 DEF ClientStep
<1> QED
  BY <1>2, <1>3, SMTT(30)

(* What the accept loop does.                                              *)
LEMMA AcceptTypes ==
  ASSUME SocketInv, HttpTypeInv,
         AcceptStep \/ AcceptFails \/ \E c \in Clients : Accept(c)
  PROVE  HttpTypeInv'
<1> USE DEF HttpTypeInv
<1>1. UNCHANGED <<sent, wire, torn, shut, batch, evt, queue, worker, plan>>
  BY DEF AcceptStep, AddConnection, AddEvent_Epoll, Accept, AcceptFails,
         clientVars, netVars, sockVars, ioVars
<1>2. DataOK'
  BY <1>1 DEF DataOK
<1>3. /\ acceptor'.pc = "accept" => acceptor' = Idle
      /\ running' \in BOOLEAN
  <2>1. CASE AddConnection
    <3>1. /\ running /\ running' = running
          /\ acceptor' = IF acceptor.fd \in DOMAIN conn_map
                         THEN Idle ELSE [acceptor EXCEPT !.pc = "watch"]
      BY <2>1 DEF AddConnection
    <3> QED
      BY <3>1 DEF ControlOK, SocketInv, Shapes, Idle
  <2>2. CASE AddEvent_Epoll
    BY <2>2 DEF AddEvent_Epoll, ControlOK
  <2>3. CASE \E c \in Clients : Accept(c)
    BY <2>3 DEF Accept, ControlOK
  <2>4. CASE AcceptFails
    BY <2>4 DEF AcceptFails, ControlOK
  <2> QED
    BY <2>1, <2>2, <2>3, <2>4 DEF AcceptStep
<1>4. ControlOK'
  BY <1>1, <1>3 DEF ControlOK
<1>5. RequestsOK'
  <2>1. \/ conn_map' = conn_map
        \/ conn_map' = Put(acceptor.fd, [sock |-> acceptor.sock, task |-> None])
    BY DEF AcceptStep, AddConnection, AddEvent_Epoll, Accept, AcceptFails
  <2>2. \A fd \in DOMAIN conn_map' :
          \/ conn_map'[fd].task = None
          \/ fd \in DOMAIN conn_map /\ conn_map'[fd] = conn_map[fd]
    BY <2>1 DEF Put
  <2> QED
    BY <1>1, <2>2 DEF RequestsOK
<1> QED
  BY <1>2, <1>4, <1>5

-----------------------------------------------------------------------------
(* The task PrepareTask works on, and what it makes of it.                 *)
OldTask ==
  IF conn_map[evt.fd].task = None
  THEN NewTask(evt.from, sent[evt.from]) ELSE conn_map[evt.fd].task

NextTask ==
  [sock |-> evt.from, num |-> OldTask.num, msg |-> Prepared(OldTask.msg, evt.data)]

(* OnDataReceived, on the connection the data came from.                   *)
LEMMA DataMeans ==
  ASSUME SocketInv, OnDataReceived
  PROVE  /\ evt.pc = "received" /\ evt' = NoEvent /\ Stands(evt.from, evt.fd)
         /\ UNCHANGED <<plan, phase, sent, got, wire, torn, fd_of, shut, acceptor,
                        watched, batch, worker, running>>
         /\ \/ /\ NextTask.msg.state = "End" /\ queue' = Append(queue, NextTask)
               /\ conn_map' = Put(evt.fd, [sock |-> evt.from, task |-> None])
            \/ /\ NextTask.msg.state # "End" /\ queue' = queue
               /\ conn_map' = Put(evt.fd, [sock |-> evt.from, task |-> NextTask])
<1>1. /\ evt.pc = "received" /\ evt' = NoEvent
      /\ UNCHANGED <<plan, phase, sent, got, wire, torn, fd_of, shut, acceptor,
                     watched, batch, worker, running>>
  BY DEF OnDataReceived, clientVars, netVars, sockVars
<1>2. Stands(evt.from, evt.fd)
  BY <1>1 DEF SocketInv, EventsOK
<1>3. evt.fd \in DOMAIN conn_map /\ conn_map[evt.fd].sock = evt.from
  BY <1>2 DEF Stands
<1>4. IF NextTask.msg.state = "End"
      THEN /\ queue' = Append(queue, NextTask)
           /\ conn_map' = Put(evt.fd, [sock |-> evt.from, task |-> None])
      ELSE /\ conn_map' = Put(evt.fd, [sock |-> evt.from, task |-> NextTask])
           /\ UNCHANGED queue
  BY <1>3, Zenon DEF OnDataReceived, NextTask, OldTask
<1> QED
  BY <1>1, <1>2, <1>4

(* The new task has its type.                                              *)
LEMMA NextTaskType ==
  ASSUME SocketInv, HttpTypeInv, evt.pc = "received"
  PROVE  NextTask \in Tasks /\ evt.from \in Clients
<1>1. /\ evt.from \in Clients /\ evt.data \in Seq(Symbols)
      /\ sent[evt.from] > 0 /\ sent[evt.from] \in 0 .. Len(plan.script[evt.from])
  BY DEF HttpTypeInv, DataOK, ControlOK
<1>2. sent[evt.from] \in Nat \ {0}
  BY <1>1, ScriptType DEF HttpTypeInv, DataOK
<1>3. NewMessage \in Messages
  BY DEF NewMessage, Messages
<1>4. OldTask.num \in Nat \ {0} /\ OldTask.msg \in Messages
  <2>1. CASE conn_map[evt.fd].task = None
    BY <1>2, <1>3, <2>1 DEF OldTask, NewTask
  <2>2. CASE conn_map[evt.fd].task # None
    BY <2>2 DEF OldTask, HttpTypeInv, RequestsOK, SocketInv, EventsOK, Stands, Tasks
  <2> QED
    BY <2>1, <2>2
<1>5. Prepared(OldTask.msg, evt.data) \in Messages
  BY <1>1, <1>4, PreparedType
<1> QED
  BY <1>1, <1>4, <1>5 DEF NextTask, Tasks
(* The elements of a queue of tasks after a step of the queue.             *)
LEMMA QueueTypes ==
  ASSUME SocketInv, HttpTypeInv, OnDataReceived
  PROVE  \A i \in DOMAIN queue' : queue'[i] \in Tasks /\ queue'[i].msg.state = "End"
<1>1. evt.pc = "received"
  BY DataMeans
<1>2. NextTask \in Tasks
  BY <1>1, NextTaskType
<1>3. \A i \in DOMAIN queue : queue[i] \in Tasks /\ queue[i].msg.state = "End"
  BY DEF HttpTypeInv, RequestsOK
<1>4. CASE queue' = queue
  BY <1>3, <1>4
<1>5. CASE queue' = Append(queue, NextTask) /\ NextTask.msg.state = "End"
  <2> DEFINE t == NextTask
  <2>1. t \in Tasks /\ t.msg.state = "End" /\ queue' = Append(queue, t)
    BY <1>2, <1>5
  <2> HIDE DEF t
  <2>2. \A i \in DOMAIN queue' : queue'[i] = t \/ \E j \in DOMAIN queue : queue'[i] = queue[j]
    BY <2>1, AppendElements DEF SocketInv, Shapes
  <2> QED
    BY <1>3, <2>1, <2>2
<1> QED
  BY <1>4, <1>5, DataMeans

(* What the epoll thread does.                                             *)
LEMMA EpollTypes ==
  ASSUME SocketInv, HttpTypeInv, EpollStep
  PROVE  HttpTypeInv'
<1> USE DEF HttpTypeInv
<1>1. CASE WaitForEvents
  <2>1. /\ batch' = {EventOf(s) : s \in Ready}
        /\ UNCHANGED <<sent, wire, torn, shut, acceptor, conn_map, evt, queue,
                       worker, running, plan>>
    BY <1>1 DEF WaitForEvents, clientVars, netVars, sockVars
  <2>2. ASSUME NEW s \in Ready PROVE EventOf(s) \in Events
    <3>1. s \in Held /\ s \in watched
      BY DEF Ready
    <3>2. s \in Clients /\ fd_of[s] \in Fds
      BY <3>1 DEF SocketInv, HeldOK
    <3> QED
      BY <3>2 DEF EventOf, Events
  <2>3. batch' \subseteq Events
    BY <2>1, <2>2
  <2> QED
    BY <2>1, <2>3 DEF DataOK, RequestsOK, ControlOK
<1>2. ASSUME NEW e \in batch, NextEvent(e)
      PROVE  HttpTypeInv'
  <2>1. /\ batch' = batch \ {e}
        /\ evt' = [pc |-> "handle", fd |-> e.fd, from |-> e.from,
                   type |-> e.type, sock |-> GetSocketPtr(e.fd), data |-> <<>>]
        /\ UNCHANGED <<sent, wire, torn, shut, acceptor, conn_map, queue, worker,
                       running, plan>>
    BY <1>2 DEF NextEvent, clientVars, netVars, sockVars
  <2>2. e.from \in Clients
    BY DEF ControlOK, Events
  <2>3. evt'.pc = "handle" /\ evt'.data = <<>> /\ evt'.from = e.from
    BY <2>1
  <2>4. DataOK'
    BY <2>1, <2>3 DEF DataOK
  <2> QED
    BY <2>1, <2>2, <2>3, <2>4 DEF RequestsOK, ControlOK
<1>3. CASE IgnoreEvent
  <2>1. /\ evt' = NoEvent
        /\ UNCHANGED <<sent, wire, torn, shut, acceptor, conn_map, batch, queue,
                       worker, running, plan>>
    BY <1>3 DEF IgnoreEvent, clientVars, netVars, sockVars
  <2>2. evt'.pc = "wait" /\ evt'.data = <<>>
    BY <2>1 DEF NoEvent
  <2>3. DataOK'
    BY <2>1, <2>2 DEF DataOK
  <2> QED
    BY <2>1, <2>2, <2>3 DEF RequestsOK, ControlOK
<1>4. CASE Recv
  <2> DEFINE s == evt.sock
  <2>1. /\ evt.pc = "handle" /\ s = evt.from /\ s \in Clients
        /\ UNCHANGED <<sent, shut, acceptor, conn_map, batch, queue, worker, running, plan>>
    BY <1>4 DEF Recv, clientVars, sockVars, SocketInv, EventsOK, ControlOK
  <2>2. PICK n \in 1 .. Len(wire[s]) :
          /\ wire' = [wire EXCEPT ![s] = SubSeq(wire[s], n + 1, Len(wire[s]))]
          /\ evt' = [evt EXCEPT !.pc = "received", !.data = SubSeq(wire[s], 1, n)]
          /\ torn' \in {torn, torn \cup {s}}
    BY <1>4, Zenon DEF Recv
  <2>3. wire[s] \in Seq(Symbols) /\ wire[s] # <<>> /\ sent[s] > 0
    BY <2>1, <2>2 DEF DataOK
  <2>4. /\ SubSeq(wire[s], n + 1, Len(wire[s])) \in Seq(Symbols)
        /\ SubSeq(wire[s], 1, n) \in Seq(Symbols)
    BY <2>2, <2>3
  <2>5. evt'.pc = "received" /\ evt'.from = s /\ evt'.data \in Seq(Symbols)
    BY <2>1, <2>2, <2>4 DEF SocketInv, Shapes
  <2> HIDE DEF s
  <2>6. /\ wire' = [c \in Clients |-> wire'[c]]
        /\ \A c \in Clients : wire'[c] \in Seq(Symbols) /\ (wire'[c] # <<>> => sent[c] > 0)
    <3>1. wire' = [c \in Clients |-> wire'[c]]
      BY <2>2 DEF DataOK
    <3>2. wire'[s] \in Seq(Symbols)
      BY <2>1, <2>2, <2>4 DEF DataOK
    <3>3. \A c \in Clients \ {s} : wire'[c] = wire[c]
      BY <2>2 DEF DataOK
    <3> QED
      BY <2>3, <3>1, <3>2, <3>3 DEF DataOK
  <2>7. DataOK'
    BY <2>1, <2>3, <2>5, <2>6 DEF DataOK
  <2>8. torn' \subseteq Clients
    BY <2>1, <2>2 DEF ControlOK
  <2> QED
    BY <2>1, <2>5, <2>7, <2>8 DEF RequestsOK, ControlOK
<1>5. CASE OnDataReceived
  <2>1. /\ evt.pc = "received" /\ evt' = NoEvent /\ Stands(evt.from, evt.fd)
        /\ UNCHANGED <<sent, wire, torn, shut, acceptor, batch, worker, running, plan>>
    BY <1>5, DataMeans
  <2>2. NextTask \in Tasks
    BY <2>1, NextTaskType
  <2>3. PICK task :
          /\ conn_map' = Put(evt.fd, [sock |-> evt.from, task |-> task])
          /\ task = None \/ (task = NextTask /\ NextTask.msg.state # "End")
    BY <1>5, DataMeans
  <2>4. \A fd \in DOMAIN conn_map' :
          \/ conn_map'[fd].task = task
          \/ fd \in DOMAIN conn_map /\ conn_map'[fd] = conn_map[fd]
    BY <2>3 DEF Put
  <2>5. RequestsOK'
    BY <1>5, <2>1, <2>2, <2>3, <2>4, QueueTypes DEF RequestsOK
  <2>6. evt'.pc = "wait" /\ evt'.data = <<>>
    BY <2>1 DEF NoEvent
  <2>7. DataOK'
    BY <2>1, <2>6 DEF DataOK
  <2> QED
    BY <2>1, <2>5, <2>6, <2>7 DEF ControlOK
<1>6. CASE RemoveEvent_Epoll
  <2>1. /\ evt' = [evt EXCEPT !.pc = "erase"] /\ evt.pc = "handle"
        /\ UNCHANGED <<sent, wire, torn, shut, acceptor, conn_map, batch, queue,
                       worker, running, plan>>
    BY <1>6 DEF RemoveEvent_Epoll, clientVars, netVars, sockVars
  <2>2. evt'.pc = "erase" /\ evt'.data = evt.data /\ evt'.from = evt.from
    BY <2>1 DEF SocketInv, Shapes
  <2>3. DataOK'
    BY <2>1, <2>2 DEF DataOK
  <2> QED
    BY <2>1, <2>2, <2>3 DEF RequestsOK, ControlOK
<1>7. CASE EraseConnection
  <2>1. /\ evt' = NoEvent /\ conn_map' = Erase(evt.fd)
        /\ UNCHANGED <<sent, wire, torn, shut, acceptor, batch, queue, worker,
                       running, plan>>
    BY <1>7 DEF EraseConnection, clientVars, netVars, sockVars
  <2>2. evt'.pc = "wait" /\ evt'.data = <<>>
    BY <2>1 DEF NoEvent
  <2>3. \A fd \in DOMAIN conn_map' : fd \in DOMAIN conn_map /\ conn_map'[fd] = conn_map[fd]
    BY <2>1 DEF Erase
  <2>4. DataOK'
    BY <2>1, <2>2 DEF DataOK
  <2>5. RequestsOK'
    BY <2>1, <2>3 DEF RequestsOK
  <2> QED
    BY <2>1, <2>2, <2>4, <2>5 DEF ControlOK
<1> QED
  BY <1>1, <1>2, <1>3, <1>4, <1>5, <1>6, <1>7 DEF EpollStep

(* What a worker does.                                                     *)
LEMMA WorkerTypes ==
  ASSUME SocketInv, HttpTypeInv, NEW w \in Workers, WorkerStep(w)
  PROVE  HttpTypeInv'
<1> USE DEF HttpTypeInv
<1>1. UNCHANGED <<sent, wire, torn, acceptor, conn_map, batch, evt, running, plan>>
  BY WriteLeaves DEF WorkerStep, Pop, FinishTask, clientVars, netVars, ioVars
<1>2. PICK new :
        /\ worker' = [worker EXCEPT ![w] = new]
        /\ \/ new = Resting
           \/ /\ new.pc \in {"finish"} \cup Writing
              /\ new.task \in Tasks /\ new.task.msg.state = "End"
  <2>1. CASE Pop(w)
    <3>1. PICK pc \in {"head", "finish"} :
            worker' = [worker EXCEPT ![w] = [pc |-> pc, task |-> Head(queue), ok |-> FALSE]]
      BY <2>1 DEF Pop
    <3>2. \E j \in DOMAIN queue : Head(queue) = queue[j]
      <4>1. queue # <<>> /\ queue \in Seq(WaitingTasks)
        BY <2>1 DEF Pop, SocketInv, Shapes
      <4> QED
        BY <4>1, TailElements
    <3>3. Head(queue) \in Tasks /\ Head(queue).msg.state = "End"
      BY <3>2 DEF RequestsOK
    <3> DEFINE new == [pc |-> pc, task |-> Head(queue), ok |-> FALSE]
    <3>4. new.pc = pc /\ new.task = Head(queue) /\ worker' = [worker EXCEPT ![w] = new]
      BY <3>1
    <3> HIDE DEF new
    <3> QED
      BY <3>3, <3>4 DEF Writing
  <2>2. CASE WriteAnswer(w) \/ WriteFails(w)
    <3>1. /\ worker[w].pc \in Writing
          /\ \E pc \in {"body", "stream", "refuse", "finish"}, ok \in BOOLEAN :
               worker' = [worker EXCEPT ![w] = [pc |-> pc, task |-> worker[w].task, ok |-> ok]]
      BY <2>2, WriteLeaves
    <3> QED
      BY <3>1 DEF RequestsOK, Writing
  <2>3. CASE FinishTask(w)
    BY <2>3 DEF FinishTask
  <2> QED
    BY <2>1, <2>2, <2>3 DEF WorkerStep
<1>3. \A v \in Workers : worker'[v] = IF v = w THEN new ELSE worker[v]
  BY <1>2 DEF SocketInv, Shapes
<1>4. \A i \in DOMAIN queue' : \E j \in DOMAIN queue : queue'[i] = queue[j]
  <2>1. CASE Pop(w)
    <3>1. queue # <<>> /\ queue' = Tail(queue) /\ queue \in Seq(WaitingTasks)
      BY <2>1 DEF Pop, SocketInv, Shapes
    <3> QED
      BY <3>1, TailElements
  <2>2. CASE ~Pop(w)
    BY <2>2, WriteLeaves DEF WorkerStep, FinishTask
  <2> QED
    BY <2>1, <2>2
<1>5. shut' \subseteq Clients
  <2>1. CASE FinishTask(w)
    <3>1. worker[w].pc = "finish" /\ shut' \in {shut, shut \cup {worker[w].task.sock}}
      BY <2>1 DEF FinishTask
    <3>2. worker[w].task.sock \in Clients
      BY <3>1 DEF RequestsOK, Tasks
    <3> QED
      BY <3>1, <3>2 DEF ControlOK
  <2>2. CASE ~FinishTask(w)
    BY <2>2, WriteLeaves DEF WorkerStep, Pop, sockVars, ControlOK
  <2> QED
    BY <2>1, <2>2
<1>6. DataOK'
  BY <1>1 DEF DataOK
<1>7. RequestsOK'
  BY <1>1, <1>2, <1>3, <1>4 DEF RequestsOK, Resting, Writing
<1>8. ControlOK'
  BY <1>1, <1>2, <1>3, <1>5 DEF ControlOK, Resting
<1> QED
  BY <1>6, <1>7, <1>8

(* Every step keeps the types.                                             *)
LEMMA TypeStep == SocketInv /\ HttpTypeInv /\ [HttpNext]_httpVars => HttpTypeInv'
<1> SUFFICES ASSUME SocketInv, HttpTypeInv, [HttpNext]_httpVars PROVE HttpTypeInv'
  OBVIOUS
<1>1. CASE UNCHANGED httpVars
  BY <1>1 DEF httpVars, clientVars, netVars, sockVars, ioVars, HttpTypeInv, DataOK,
              RequestsOK, ControlOK
<1> QED
  BY <1>1, ClientTypes, AcceptTypes, EpollTypes, WorkerTypes DEF HttpNext

(* The type invariant, always.                                             *)
LEMMA TypesAlwaysOK == HttpSpec => []HttpTypeInv
BY TypeInit, TypeStep, SocketsAlwaysOK, PTL DEF HttpSpec

(* Every variable of the server has its type, for any clients, plans,      *)
(* descriptors and workers and however requests are cut: UpdateMessage     *)
(* makes a message of whatever arrives, and only complete ones are queued. *)
THEOREM HttpTypesAlwaysOK == HttpSpec => []HttpTypeOK
<1>1. SocketInv /\ HttpTypeInv => HttpTypeOK
  <2> SUFFICES ASSUME SocketInv, HttpTypeInv PROVE HttpTypeOK
    OBVIOUS
  <2> USE DEF HttpTypeInv
  <2>1. /\ phase \in [Clients -> {"new", "on", "half", "gone"}]
        /\ fd_of \in [Clients -> Fds \cup {None}]
    BY DEF SocketInv, Shapes
  <2>2. acceptor = Idle \/ acceptor \in [pc : {"insert", "watch"}, sock : Clients, fd : Fds]
    BY DEF SocketInv, Shapes, AcceptorOK, ControlOK
  <2>3. \A conn \in Connections : conn.task # None => conn.task \in Tasks
                                    /\ conn.task.msg.state # "End"
    BY DEF Connections, RequestsOK
  <2>4. \A t \in WaitingTasks \cup BusyTasks : t \in Tasks /\ t.msg.state = "End"
    BY DEF WaitingTasks, BusyTasks, RequestsOK
  <2>5. \A v \in Workers :
          /\ worker[v].pc \in {"pop", "finish"} \cup Writing
          /\ worker[v].pc = "pop" <=> worker[v].task = None
    BY HttpAssumption DEF RequestsOK, ControlOK
  <2>6. watched \subseteq Clients
    BY DEF SocketInv, EventsOK
  <2> QED
    BY <2>1, <2>2, <2>3, <2>4, <2>5, <2>6 DEF HttpTypeOK, DataOK, ControlOK
<1> QED
  BY <1>1, SocketsAlwaysOK, TypesAlwaysOK, PTL
-----------------------------------------------------------------------------
(* No task of c waits for its answer.                                      *)
Inactive(c) ==
  /\ \A i \in DOMAIN queue : queue[i].sock # c
  /\ \A w \in Workers : Unanswered(w) => worker[w].task.sock # c

(* A step that concerns other clients than c, or takes away what is on the *)
(* wire from c, or its connection, or brings the first of it into the map. *)
Undisturbed(c) ==
  /\ sent'[c] = sent[c] /\ got'[c] = got[c]
  /\ wire'[c] \in {wire[c], <<>>}
  /\ \A fd \in DOMAIN conn_map' : conn_map'[fd].sock = c =>
       \/ fd \in DOMAIN conn_map /\ conn_map'[fd] = conn_map[fd]
       \/ acceptor.pc = "insert" /\ acceptor.sock = c /\ conn_map'[fd].task = None
  /\ Brings(c)' <=> Brings(c)
  /\ Brings(c) => evt'.data = evt.data
  /\ acceptor'.pc = "insert" /\ acceptor'.sock = c =>
       \/ acceptor.pc = "insert" /\ acceptor.sock = c
       \/ sent[c] = 0

(* Such a step leaves what holds of c's request.                           *)
LEMMA StaysQuiet ==
  ASSUME NEW c, Undisturbed(c), Quiet(c)
  PROVE  Quiet(c)'
<1>1. wire'[c] = <<>>
  BY DEF Undisturbed, Quiet
<1>2. HasTask(c, None)'
  BY DEF Undisturbed, Quiet, HasTask
<1> QED
  BY <1>1, <1>2 DEF Undisturbed, Quiet

(* The same of a request that is being answered.                           *)
LEMMA StaysLast ==
  ASSUME NEW t, NEW n, plan' = plan, Undisturbed(t.sock), LastTask(t, n)
  PROVE  LastTask(t, n)'
<1>1. Quiet(t.sock)'
  BY StaysQuiet DEF LastTask, Answering
<1>2. sent'[t.sock] = sent[t.sock] /\ got'[t.sock] = got[t.sock]
  BY DEF Undisturbed
<1> QED
  BY <1>1, <1>2 DEF LastTask, Answering, AsSent, Begun, Complete, LastPart

(* The same of a request that is being read.                               *)
LEMMA StaysReader ==
  ASSUME NEW c, plan' = plan, Undisturbed(c), Reader(c)
  PROVE  Reader(c)'
<1>1. CASE Quiet(c)
  BY <1>1, StaysQuiet DEF Reader
<1>2. CASE ~Quiet(c)
  <2>1. sent[c] > 0 /\ \E q \in Cuts[KindOf(c)], p \in 0 .. Len(Text(c)) : ReadUpTo(c, q, p)
    BY <1>2 DEF Reader
  <2>2. PICK q \in Cuts[KindOf(c)] : \E p \in 0 .. Len(Text(c)) : ReadUpTo(c, q, p)
    BY <2>1
  <2>3. PICK p \in 0 .. Len(Text(c)) : ReadUpTo(c, q, p)
    BY <2>2
  <2>4. sent'[c] = sent[c] /\ got'[c] = got[c] /\ KindOf(c)' = KindOf(c) /\ Text(c)' = Text(c)
    BY DEF Undisturbed, KindOf, Text
  <2>5. ASSUME NEW task, HasTask(c, task), q = 0 => task = None
        PROVE  \A fd \in DOMAIN conn_map' : conn_map'[fd].sock = c => conn_map'[fd].task = task
    BY <2>3, <2>5 DEF Undisturbed, HasTask, ReadUpTo
  <2>6. wire'[c] \in {<<>>, SubSeq(Text(c), p + 1, Len(Text(c)))}
    BY <2>3 DEF Undisturbed, ReadUpTo
  <2>7. /\ Brings(c)' <=> Brings(c)
        /\ Brings(c) => evt'.data = evt.data
        /\ acceptor'.pc = "insert" /\ acceptor'.sock = c => q = 0
    <3>1. sent[c] # 0
      BY <2>1
    <3> QED
      BY <2>3, <3>1 DEF Undisturbed, ReadUpTo
  <2>8. \A fd \in DOMAIN conn_map' : conn_map'[fd].sock = c =>
          conn_map'[fd].task = TaskAt(c, sent'[c], KindOf(c)', q)
    <3>1. HasTask(c, TaskAt(c, sent[c], KindOf(c), q))
      BY <2>3 DEF ReadUpTo
    <3>2. q = 0 => TaskAt(c, sent[c], KindOf(c), q) = None
      BY DEF TaskAt
    <3>3. \A fd \in DOMAIN conn_map' : conn_map'[fd].sock = c =>
            conn_map'[fd].task = TaskAt(c, sent[c], KindOf(c), q)
      BY <2>5, <3>1, <3>2
    <3> QED
      BY <2>4, <3>3
  <2>9. ReadUpTo(c, q, p)'
    BY <2>3, <2>4, <2>6, <2>7, <2>8 DEF ReadUpTo, HasTask, Complete, LastPart
  <2> QED
    BY <2>1, <2>4, <2>9 DEF Reader
<1> QED
  BY <1>1, <1>2

(* What is active is quiet.                                                *)
LEMMA ActiveIsQuiet ==
  ASSUME QueueOK, WritersOK, NEW c, c \notin torn, ~Inactive(c), sent[c] \in Nat
  PROVE  Quiet(c) /\ ~Complete(c, sent[c])
<1>1. Answering(c, 0) \/ Answering(c, 1)
  BY DEF Inactive, QueueOK, WritersOK, LastTask, Unanswered, Writing
<1> QED
  BY <1>1 DEF Answering, Begun, Complete

(* Initially there is nothing to answer.                                   *)
LEMMA OrderInit == HttpInit => OrderInv
<1> SUFFICES ASSUME HttpInit PROVE OrderInv
  OBVIOUS
<1>1. NewOK /\ QueueOK /\ WritersOK /\ OneTask /\ AnswersInOrder
  BY DEF HttpInit, NewOK, QueueOK, WritersOK, OneTask, AnswersInOrder, Unanswered, Writing, Resting
<1>2. ReadersOK
  BY DEF HttpInit, ReadersOK, Reader, Quiet, HasTask, Brings, NoEvent
<1> QED
  BY <1>1, <1>2 DEF OrderInv

(* A task of a client the step does not disturb stays what it was.         *)
LEMMA TaskStays ==
  ASSUME plan' = plan, NEW t, AsSent(t)
  PROVE  AsSent(t)'
BY DEF AsSent

(* A waiting task, after a step that disturbs no client whose tasks wait.  *)
LEMMA QueuedStays ==
  ASSUME HttpTypeInv, QueueOK, plan' = plan, torn \subseteq torn',
         \A c \in Clients \ torn' : Undisturbed(c) \/ Inactive(c),
         NEW i \in DOMAIN queue, NEW t, t = queue[i], t.sock \notin torn'
  PROVE  LastTask(t, 0)'
<1>1. t.sock \in Clients
  BY DEF HttpTypeInv, RequestsOK, Tasks
<1>2. Undisturbed(t.sock)
  BY <1>1 DEF Inactive
<1>3. LastTask(t, 0)
  BY DEF QueueOK
<1> QED
  BY <1>2, <1>3, StaysLast

(* The same of the task of a worker.                                       *)
LEMMA WrittenStays ==
  ASSUME HttpTypeInv, WritersOK, plan' = plan, torn \subseteq torn',
         \A c \in Clients \ torn' : Undisturbed(c) \/ Inactive(c),
         NEW w \in Workers, worker[w].pc # "pop",
         NEW t, t = worker[w].task, t.sock \notin torn'
  PROVE  /\ worker[w].pc = "head" => LastTask(t, 0)'
         /\ worker[w].pc \in Writing \ {"head"} => LastTask(t, 1)'
         /\ worker[w].pc = "finish" => AsSent(t)'
<1>1. t.sock \in Clients
  BY DEF HttpTypeInv, RequestsOK, Tasks
<1>2. Unanswered(w) => Undisturbed(t.sock)
  BY <1>1 DEF Inactive
<1>3. /\ worker[w].pc = "head" => LastTask(t, 0)
      /\ worker[w].pc \in Writing \ {"head"} => LastTask(t, 1)
      /\ worker[w].pc = "finish" => AsSent(t)
  BY DEF WritersOK
<1> QED
  BY <1>2, <1>3, StaysLast, TaskStays DEF Unanswered, Writing

(* The tasks, after a step that leaves the queue and the workers alone.    *)
LEMMA TasksStay ==
  ASSUME HttpTypeInv, QueueOK, WritersOK, OneTask,
         plan' = plan, torn \subseteq torn', UNCHANGED <<queue, worker>>,
         \A c \in Clients \ torn' : Undisturbed(c) \/ Inactive(c)
  PROVE  QueueOK' /\ WritersOK' /\ OneTask'
<1>1. OneTask'
  BY DEF OneTask, Unanswered
<1>2. QueueOK'
  BY QueuedStays DEF QueueOK
<1>3. WritersOK'
  BY WrittenStays DEF WritersOK
<1> QED
  BY <1>1, <1>2, <1>3

(* A step that answers nothing, makes no task, and leaves alone the        *)
(* clients whose tasks wait.                                               *)
LEMMA KeepOrder ==
  ASSUME HttpTypeInv, OrderInv, NewOK',
         plan' = plan, torn \subseteq torn', UNCHANGED <<got, queue, worker>>,
         \A c \in Clients \ torn' : Undisturbed(c) \/ (Inactive(c) /\ Reader(c)')
  PROVE  OrderInv'
<1>1. QueueOK' /\ WritersOK' /\ OneTask'
  BY TasksStay DEF OrderInv
<1>2. ASSUME NEW c \in Clients, c \notin torn' PROVE Reader(c)'
  BY <1>2, StaysReader DEF OrderInv, ReadersOK
<1>3. AnswersInOrder'
  BY DEF OrderInv, AnswersInOrder
<1> QED
  BY <1>1, <1>2, <1>3 DEF OrderInv, ReadersOK

(* Clients that go away or stop sending.                                   *)
LEMMA LeavingKeepsOrder ==
  ASSUME SocketInv, HttpTypeInv, OrderInv, NEW c \in Clients, HangUp(c) \/ HalfClose(c)
  PROVE  OrderInv'
<1>1. /\ UNCHANGED <<sent, got, torn, acceptor, conn_map, evt, queue, worker, plan>>
      /\ phase[c] # "new"
  BY DEF HangUp, HalfClose, netVars, ioVars
<1>2. \A d \in Clients : phase'[d] = "new" => phase[d] = "new"
  BY <1>1 DEF HangUp, HalfClose, SocketInv, Shapes
<1>3. NewOK'
  BY <1>1, <1>2 DEF OrderInv, NewOK
<1>4. \A d \in Clients : wire'[d] \in {wire[d], <<>>}
  BY DEF HangUp, HalfClose, netVars, HttpTypeInv, DataOK
<1>5. \A d \in Clients : Undisturbed(d)
  BY <1>1, <1>4 DEF Undisturbed, Brings
<1> QED
  BY <1>1, <1>3, <1>5, KeepOrder

(* The accept loop: a client it brings in has sent nothing before, and its *)
(* connection has no task.                                                 *)
LEMMA AcceptingKeepsOrder ==
  ASSUME SocketInv, HttpTypeInv, OrderInv,
         AcceptStep \/ AcceptFails \/ \E c \in Clients : Accept(c)
  PROVE  OrderInv'
<1>1. UNCHANGED <<sent, got, wire, torn, evt, queue, worker, plan>>
  BY DEF AcceptStep, AddConnection, AddEvent_Epoll, Accept, AcceptFails,
         clientVars, netVars, ioVars
<1>2. NewOK'
  <2>1. \A d \in Clients : phase'[d] = "new" => phase[d] = "new"
    BY DEF AcceptStep, AddConnection, AddEvent_Epoll, Accept, AcceptFails,
           clientVars, SocketInv, Shapes
  <2> QED
    BY <1>1, <2>1 DEF OrderInv, NewOK
<1>3. ASSUME NEW d \in Clients PROVE Undisturbed(d)
  <2>1. \A fd \in DOMAIN conn_map' : conn_map'[fd].sock = d =>
          \/ fd \in DOMAIN conn_map /\ conn_map'[fd] = conn_map[fd]
          \/ acceptor.pc = "insert" /\ acceptor.sock = d /\ conn_map'[fd].task = None
    <3>1. CASE AddConnection
      <4>1. /\ acceptor.pc = "insert"
            /\ conn_map' = Put(acceptor.fd, [sock |-> acceptor.sock, task |-> None])
        BY <3>1 DEF AddConnection
      <4> QED
        BY <4>1 DEF Put
    <3>2. CASE ~AddConnection
      BY <3>2 DEF AcceptStep, AddEvent_Epoll, Accept, AcceptFails
    <3> QED
      BY <3>1, <3>2
  <2>2. acceptor'.pc = "insert" /\ acceptor'.sock = d =>
          \/ acceptor.pc = "insert" /\ acceptor.sock = d
          \/ sent[d] = 0
    <3>1. CASE AddConnection
      BY <3>1 DEF AddConnection, Idle, SocketInv, Shapes
    <3>2. CASE AddEvent_Epoll
      BY <3>2 DEF AddEvent_Epoll, Idle
    <3>3. ASSUME NEW c \in Clients, Accept(c)
          PROVE  acceptor'.sock = d => sent[d] = 0
      BY <3>3 DEF Accept, OrderInv, NewOK
    <3>4. CASE AcceptFails
      BY <3>4 DEF AcceptFails
    <3> QED
      BY <3>1, <3>2, <3>3, <3>4 DEF AcceptStep
  <2> QED
    BY <1>1, <2>1, <2>2 DEF Undisturbed, Brings
<1> QED
  BY <1>1, <1>2, <1>3, KeepOrder

(* The epoll thread, as long as it reads nothing.                          *)
LEMMA EventsKeepOrder ==
  ASSUME HttpTypeInv, OrderInv,
         \/ WaitForEvents \/ \E e \in batch : NextEvent(e)
         \/ IgnoreEvent \/ RemoveEvent_Epoll \/ EraseConnection
  PROVE  OrderInv'
<1>1. UNCHANGED <<phase, sent, got, wire, torn, acceptor, queue, worker, plan>>
  BY DEF WaitForEvents, NextEvent, IgnoreEvent, RemoveEvent_Epoll, EraseConnection,
         clientVars, netVars
<1>2. evt' = evt \/ (evt.pc # "received" /\ evt'.pc # "received")
  <2>1. CASE WaitForEvents
    BY <2>1 DEF WaitForEvents
  <2>2. CASE \E e \in batch : NextEvent(e)
    BY <2>2 DEF NextEvent
  <2>3. CASE IgnoreEvent \/ EraseConnection
    BY <2>3 DEF IgnoreEvent, EraseConnection, NoEvent
  <2>4. CASE RemoveEvent_Epoll
    <3>1. evt.pc = "handle" /\ evt' = [evt EXCEPT !.pc = "erase"]
      BY <2>4 DEF RemoveEvent_Epoll
    <3>2. evt' # evt => evt'.pc # "received"
      BY <3>1 DEF HttpTypeInv, ControlOK
    <3> QED
      BY <3>1, <3>2
  <2> QED
    BY <2>1, <2>2, <2>3, <2>4
<1>3. \A fd \in DOMAIN conn_map' : fd \in DOMAIN conn_map /\ conn_map'[fd] = conn_map[fd]
  <2>1. conn_map' = conn_map \/ conn_map' = Erase(evt.fd)
    BY DEF WaitForEvents, NextEvent, IgnoreEvent, RemoveEvent_Epoll, EraseConnection
  <2> QED
    BY <2>1 DEF Erase
<1>4. NewOK'
  BY <1>1 DEF OrderInv, NewOK
<1>5. \A d \in Clients : Undisturbed(d)
  BY <1>1, <1>2, <1>3 DEF Undisturbed, Brings
<1> QED
  BY <1>1, <1>4, <1>5, KeepOrder

(* The request a client sent last.                                         *)
LEMMA KindOfType ==
  ASSUME HttpTypeInv, NEW c \in Clients, sent[c] > 0
  PROVE  KindOf(c) \in Kinds /\ Text(c) \in Seq(Symbols) /\ Len(Text(c)) \in Nat
<1>1. plan.script[c] \in Seq(Kinds) /\ sent[c] \in 1 .. Len(plan.script[c])
  BY ScriptType DEF HttpTypeInv, DataOK
<1>2. KindOf(c) \in Kinds
  BY <1>1 DEF KindOf
<1> QED
  BY <1>2, TextType DEF Text

(* A client that sends its next request has its answers, so that nothing   *)
(* of it is left; all of the new one is on the wire.                       *)
LEMMA SendKeepsOrder ==
  ASSUME SocketInv, HttpTypeInv, OrderInv, NEW c \in Clients, Send(c)
  PROVE  OrderInv'
<1>1. /\ UNCHANGED <<phase, got, torn, acceptor, conn_map, evt, queue, worker, plan>>
      /\ phase[c] = "on" /\ Complete(c, sent[c])
  BY DEF Send, ioVars
<1> DEFINE kind == plan.script[c][sent[c] + 1]
<1>2. /\ sent' = [sent EXCEPT ![c] = @ + 1]
      /\ wire' = [wire EXCEPT ![c] = @ \o Request[kind]]
      /\ sent[c] < Len(plan.script[c])
  BY DEF Send
<1>3. /\ sent[c] \in Nat /\ kind \in Kinds
  BY <1>2, ScriptType DEF HttpTypeInv, DataOK
<1> HIDE DEF kind
<1>4. /\ sent'[c] = sent[c] + 1 /\ wire'[c] = wire[c] \o Request[kind]
      /\ \A d \in Clients \ {c} : sent'[d] = sent[d] /\ wire'[d] = wire[d]
  BY <1>2 DEF HttpTypeInv, DataOK
<1>5. NewOK'
  BY <1>1, <1>4 DEF OrderInv, NewOK
<1>6. \A d \in Clients \ {c} : Undisturbed(d)
  BY <1>1, <1>4 DEF Undisturbed, Brings
<1>7. ASSUME c \notin torn
      PROVE  Inactive(c) /\ Reader(c)'
  <2>1. Inactive(c)
    BY <1>1, <1>3, <1>7, ActiveIsQuiet DEF OrderInv
  <2>2. Quiet(c)
    <3>1. ASSUME NEW q, NEW p, ReadUpTo(c, q, p) PROVE FALSE
      BY <1>1, <1>3, <3>1 DEF ReadUpTo, Complete
    <3> QED
      BY <1>7, <3>1 DEF OrderInv, ReadersOK, Reader
  <2>3. KindOf(c)' = kind
    BY <1>1, <1>4 DEF KindOf, kind
  <2>4. /\ Request[kind] \in Seq(Symbols) /\ Len(Request[kind]) \in Nat
        /\ 0 \in Cuts[kind]
    BY <1>3, TextType, PartialFacts
  <2> DEFINE r == Request[kind]
  <2>5. wire'[c] = SubSeq(r, 0 + 1, Len(r))
    <3>1. wire'[c] = <<>> \o r
      BY <1>4, <2>2 DEF Quiet
    <3> HIDE DEF r
    <3>2. r \in Seq(Symbols)
      BY <2>4 DEF r
    <3>3. <<>> \o r = r /\ SubSeq(r, 1, Len(r)) = r
      BY <3>2
    <3> QED
      BY <3>1, <3>3
  <2>6. Text(c)' = r
    BY <2>3 DEF Text
  <2> HIDE DEF r
  <2>7. \A fd \in DOMAIN conn_map' : conn_map'[fd].sock = c =>
          conn_map'[fd].task = TaskAt(c, sent'[c], KindOf(c)', 0)
    BY <1>1, <2>2 DEF Quiet, HasTask, TaskAt
  <2>8. ~Brings(c)'
    BY <1>1, <2>2 DEF Quiet, Brings
  <2>9. Complete(c, sent[c] - 1)'
    BY <1>1, <1>3, <1>4 DEF Complete, LastPart
  <2>10. ReadUpTo(c, 0, 0)'
    BY <2>5, <2>6, <2>7, <2>8, <2>9 DEF ReadUpTo, HasTask
  <2>11. sent'[c] > 0 /\ 0 \in Cuts[KindOf(c)'] /\ 0 \in 0 .. Len(Text(c)')
    BY <1>3, <1>4, <2>3, <2>4, <2>6 DEF r
  <2> QED
    BY <2>1, <2>10, <2>11 DEF Reader
<1> QED
  BY <1>1, <1>5, <1>6, <1>7, KeepOrder

(* The parts a read of n symbols makes of what is left of a text after p.  *)
Splits(s, p, r, n) ==
  /\ p + n \in 1 .. Len(s)
  /\ SubSeq(r, 1, n) = SubSeq(s, p + 1, p + n)
  /\ SubSeq(r, n + 1, Len(r)) = SubSeq(s, p + n + 1, Len(s))
  /\ Len(s) - Len(SubSeq(r, n + 1, Len(r))) = p + n

(* Any read of some of it.                                                 *)
LEMMA ReadParts ==
  ASSUME NEW s \in Seq(Symbols), NEW p \in 0 .. Len(s), NEW r, r = SubSeq(s, p + 1, Len(s)),
         NEW n \in 1 .. Len(r)
  PROVE  Splits(s, p, r, n)
<1>1. Len(s) \in Nat /\ p \in Nat
  OBVIOUS
<1>2. r \in Seq(Symbols) /\ Len(r) = Len(s) - p /\ n <= Len(s) - p /\ n \in Nat
  <2>1. p + 1 \in 1 .. Len(s) + 1 /\ Len(s) \in 0 .. Len(s)
    BY <1>1
  <2> QED
    BY <1>1, <2>1, PartOfText
<1>3. SubSeq(r, n + 1, Len(r)) = SubSeq(s, p + n + 1, Len(s))
  <2>1. p + n <= Len(s)
    BY <1>1, <1>2
  <2> QED
    BY <1>1, <1>2, <2>1, PartOfPart
<1>4. SubSeq(r, 1, n) = SubSeq(s, p + 1, p + n)
  <2> DEFINE a == SubSeq(r, 1, n)
             b == SubSeq(s, p + 1, p + n)
  <2>1. a \in Seq(Symbols) /\ Len(a) = n /\ \A i \in 1 .. n : a[i] = r[i]
    BY <1>1, <1>2
  <2>2. b \in Seq(Symbols) /\ Len(b) = n /\ \A i \in 1 .. n : b[i] = s[p + i]
    BY <1>1, <1>2
  <2>3. \A i \in 1 .. n : r[i] = s[p + i]
    BY <1>1, <1>2
  <2> HIDE DEF a, b
  <2>4. \A i \in 1 .. n : a[i] = b[i]
    BY <2>1, <2>2, <2>3
  <2>5. a = b
    BY <2>1, <2>2, <2>4
  <2> QED
    BY <2>5 DEF a, b
<1>5. Len(SubSeq(s, p + n + 1, Len(s))) = Len(s) - p - n
  <2>1. p + n + 1 \in 1 .. Len(s) + 1 /\ Len(s) \in 0 .. Len(s)
    BY <1>1, <1>2
  <2> QED
    BY <1>1, <1>2, <2>1, PartOfText
<1> DEFINE left == SubSeq(r, n + 1, Len(r))
<1>6. Len(left) = Len(s) - p - n
  BY <1>3, <1>5
<1> HIDE DEF left
<1>7. Len(s) - Len(left) = p + n /\ p + n \in 1 .. Len(s)
  BY <1>1, <1>2, <1>6
<1> QED
  BY <1>3, <1>4, <1>7 DEF left, Splits

(* A read takes the next part of the request from the wire; as long as the *)
(* client counts as not torn, up to a clean cut.                           *)
LEMMA RecvKeepsOrder ==
  ASSUME SocketInv, HttpTypeInv, OrderInv, Recv
  PROVE  OrderInv'
<1> DEFINE c == evt.sock
<1>1. /\ evt.pc = "handle" /\ c = evt.from /\ c \in Clients
      /\ UNCHANGED <<phase, sent, got, acceptor, conn_map, queue, worker, plan>>
  BY DEF Recv, clientVars, sockVars, SocketInv, EventsOK, HttpTypeInv, ControlOK
<1>2. PICK n \in 1 .. Len(wire[c]) :
        /\ wire' = [wire EXCEPT ![c] = SubSeq(wire[c], n + 1, Len(wire[c]))]
        /\ evt' = [evt EXCEPT !.pc = "received", !.data = SubSeq(wire[c], 1, n)]
        /\ torn' = IF c \in torn \/ IsCleanCut(KindOf(c),
                        Len(Text(c)) - Len(SubSeq(wire[c], n + 1, Len(wire[c]))))
                   THEN torn ELSE torn \cup {c}
  BY Zenon DEF Recv, KindOf, Text
<1> HIDE DEF c
<1>3. PICK e : e = c
  OBVIOUS
<1>4. /\ wire'[e] = SubSeq(wire[e], n + 1, Len(wire[e]))
      /\ \A d \in Clients \ {e} : wire'[d] = wire[d]
  BY <1>1, <1>2, <1>3 DEF HttpTypeInv, DataOK
<1>5. evt'.pc = "received" /\ evt'.from = e /\ evt'.data = SubSeq(wire[e], 1, n)
  BY <1>1, <1>2, <1>3 DEF SocketInv, Shapes
<1>6. \A d \in Clients \ {e} : Undisturbed(d)
  BY <1>1, <1>3, <1>4, <1>5 DEF Undisturbed, Brings
<1>7. NewOK' /\ torn \subseteq torn'
  BY <1>1, <1>2 DEF OrderInv, NewOK
<1>8. ASSUME e \notin torn'
      PROVE  Inactive(e) /\ Reader(e)'
  <2>1. /\ e \notin torn /\ e \in Clients
        /\ IsCleanCut(KindOf(e), Len(Text(e)) - Len(SubSeq(wire[e], n + 1, Len(wire[e]))))
    BY <1>1, <1>2, <1>3, <1>8
  <2>2. wire[e] \in Seq(Symbols) /\ wire[e] # <<>> /\ sent[e] \in Nat /\ n \in 1 .. Len(wire[e])
    BY <1>2, <1>3, <2>1, ScriptType DEF HttpTypeInv, DataOK
  <2>3. Inactive(e)
    BY <2>1, <2>2, ActiveIsQuiet DEF OrderInv, Quiet
  <2>4. /\ sent[e] > 0
        /\ \E q \in Cuts[KindOf(e)], p \in 0 .. Len(Text(e)) : ReadUpTo(e, q, p)
    BY <2>1, <2>2 DEF OrderInv, ReadersOK, Reader, Quiet
  <2>5. PICK q \in Cuts[KindOf(e)] : \E p \in 0 .. Len(Text(e)) : ReadUpTo(e, q, p)
    BY <2>4
  <2>6. PICK p \in 0 .. Len(Text(e)) : ReadUpTo(e, q, p)
    BY <2>5
  <2>7. KindOf(e) \in Kinds /\ Text(e) \in Seq(Symbols) /\ Len(Text(e)) \in Nat
    BY <2>1, <2>4, KindOfType
  <2>8. q = p /\ wire[e] = SubSeq(Text(e), p + 1, Len(Text(e)))
    BY <1>1, <1>3, <2>2, <2>6 DEF ReadUpTo, Brings
  <2> DEFINE s == Text(e)
             r == wire[e]
  <2>9. /\ p + n \in 1 .. Len(s)
        /\ SubSeq(r, 1, n) = SubSeq(s, p + 1, p + n)
        /\ SubSeq(r, n + 1, Len(r)) = SubSeq(s, p + n + 1, Len(s))
        /\ Len(s) - Len(SubSeq(r, n + 1, Len(r))) = p + n
    <3>1. s \in Seq(Symbols) /\ p \in 0 .. Len(s) /\ r = SubSeq(s, p + 1, Len(s)) /\ n \in 1 .. Len(r)
      BY <2>2, <2>7, <2>8
    <3> HIDE DEF s, r
    <3>2. Splits(s, p, r, n)
      BY <3>1, ReadParts
    <3> QED
      BY <3>2 DEF Splits
  <2> DEFINE t == p + n
  <2>10. KindOf(e)' = KindOf(e) /\ Text(e)' = Text(e) /\ sent'[e] = sent[e] /\ got'[e] = got[e]
    BY <1>1 DEF KindOf, Text
  <2>11. /\ IsCleanCut(KindOf(e), t) /\ evt'.data = Left(KindOf(e), q, t)
         /\ wire'[e] = SubSeq(Text(e), t + 1, Len(Text(e)))
    BY <1>4, <1>5, <2>1, <2>8, <2>9 DEF Left, Text
  <2>12. t \in 0 .. Len(Text(e)) /\ q < t
    BY <2>2, <2>7, <2>8, <2>9
  <2> HIDE DEF t
  <2>13. \A fd \in DOMAIN conn_map' : conn_map'[fd].sock = e =>
           conn_map'[fd].task = TaskAt(e, sent'[e], KindOf(e)', q)
    BY <1>1, <2>6, <2>10 DEF ReadUpTo, HasTask
  <2>14. Brings(e)'
    BY <1>5 DEF Brings
  <2>15. acceptor'.pc = "insert" /\ acceptor'.sock = e => q = 0
    BY <1>1, <2>6 DEF ReadUpTo
  <2>16. Complete(e, sent[e] - 1)'
    BY <2>6, <2>10 DEF ReadUpTo, Complete, LastPart
  <2>17. ReadUpTo(e, q, t)'
    BY <2>10, <2>11, <2>12, <2>13, <2>14, <2>15, <2>16 DEF ReadUpTo, HasTask
  <2>18. Reader(e)'
    BY <2>4, <2>10, <2>12, <2>17 DEF Reader
  <2> QED
    BY <2>3, <2>18
<1> QED
  BY <1>1, <1>6, <1>7, <1>8, KeepOrder

(* What PrepareTask makes of a clean read: the whole request, or its task  *)
(* at the next clean cut.                                                  *)
LEMMA DataResult ==
  ASSUME SocketInv, HttpTypeInv, OrderInv, evt.pc = "received",
         NEW c, c = evt.from, c \notin torn
  PROVE  /\ sent[c] > 0 /\ Complete(c, sent[c] - 1)
         /\ NextTask.sock = c /\ NextTask.num = sent[c]
         /\ \/ NextTask.msg.state = "End" /\ AsSent(NextTask) /\ wire[c] = <<>>
            \/ /\ NextTask.msg.state # "End"
               /\ \E p \in Cuts[KindOf(c)] :
                    /\ p \in 0 .. Len(Text(c))
                    /\ NextTask = TaskAt(c, sent[c], KindOf(c), p)
                    /\ wire[c] \in {<<>>, SubSeq(Text(c), p + 1, Len(Text(c)))}
<1>1. /\ c \in Clients /\ Brings(c) /\ evt.fd \in DOMAIN conn_map
      /\ conn_map[evt.fd].sock = c
  BY DEF SocketInv, EventsOK, Stands, HttpTypeInv, ControlOK, Brings
<1>2. /\ sent[c] > 0
      /\ \E q \in Cuts[KindOf(c)], p \in 0 .. Len(Text(c)) : ReadUpTo(c, q, p)
  BY <1>1 DEF OrderInv, ReadersOK, Reader, Quiet
<1>3. PICK q \in Cuts[KindOf(c)] : \E p \in 0 .. Len(Text(c)) : ReadUpTo(c, q, p)
  BY <1>2
<1>4. PICK p \in 0 .. Len(Text(c)) : ReadUpTo(c, q, p)
  BY <1>3
<1>5. KindOf(c) \in Kinds /\ Text(c) \in Seq(Symbols) /\ Len(Text(c)) \in Nat
  BY <1>1, <1>2, KindOfType
<1> DEFINE kind == KindOf(c)
           text == Request[kind]
<1>6. q < p /\ IsCleanCut(kind, p) /\ evt.data = Left(kind, q, p)
  BY <1>1, <1>4 DEF ReadUpTo
<1>7. q \in Nat /\ p \in 1 .. Len(text)
  <2>1. q \in {0, 3, 6, 8, 9}
    BY <1>5, CutsOf
  <2> QED
    BY <1>5, <1>6, <2>1 DEF Text
<1>8. conn_map[evt.fd].task = TaskAt(c, sent[c], kind, q)
  BY <1>1, <1>4 DEF ReadUpTo, HasTask
<1>9. sent[c] \in Nat \ {0}
  BY <1>1, <1>2, ScriptType DEF HttpTypeInv, DataOK
<1>10. OldTask.num = sent[c] /\ OldTask.msg = Partial(kind, q)
  <2>1. CASE q = 0
    <3>1. conn_map[evt.fd].task = None
      BY <1>8, <2>1 DEF TaskAt
    <3>2. OldTask = [sock |-> c, num |-> sent[c], msg |-> NewMessage]
      BY <3>1 DEF OldTask, NewTask
    <3>3. Partial(kind, 0) = NewMessage
      BY <1>5, PartialFacts
    <3> QED
      BY <2>1, <3>2, <3>3
  <2>2. CASE q # 0
    <3> DEFINE t == [sock |-> c, num |-> sent[c], msg |-> Partial(kind, q)]
    <3>1. conn_map[evt.fd].task = t
      BY <1>8, <2>2 DEF TaskAt
    <3>2. Partial(kind, q) \in Messages
      BY <1>5, PartialFacts
    <3>3. t \in Tasks
      BY <1>1, <1>9, <3>2 DEF Tasks
    <3>4. t.num = sent[c] /\ t.msg = Partial(kind, q)
      OBVIOUS
    <3> HIDE DEF t
    <3>5. OldTask = t
      BY <3>1, <3>3, HttpAssumption DEF OldTask
    <3> QED
      BY <3>4, <3>5
  <2> QED
    BY <2>1, <2>2
<1> DEFINE m == Prepared(Partial(kind, q), Left(kind, q, p))
<1>11. NextTask = [sock |-> c, num |-> sent[c], msg |-> m]
  BY <1>6, <1>10 DEF NextTask
<1>12. IF p = Len(text) THEN IsWhole(kind, m)
       ELSE p \in Cuts[kind] /\ m = Partial(kind, p)
  BY <1>5, <1>6, <1>7, CleanRead
<1> HIDE DEF m
<1>13. NextTask.sock = c /\ NextTask.num = sent[c] /\ NextTask.msg = m
  BY <1>11
<1>14. wire[c] \in {<<>>, SubSeq(text, p + 1, Len(text))} /\ Complete(c, sent[c] - 1)
  BY <1>4 DEF ReadUpTo, Text
<1>15. CASE p = Len(text)
  <2>1. IsWhole(kind, m) /\ m.state = "End"
    BY <1>12, <1>15 DEF IsWhole
  <2>2. AsSent(NextTask)
    BY <1>13, <2>1 DEF AsSent, KindOf
  <2>3. wire[c] = <<>>
    <3>1. Left(kind, p, p) = <<>>
      BY <1>5, <1>7, NothingLeft
    <3> QED
      BY <1>14, <1>15, <3>1 DEF Left
  <2> QED
    BY <1>2, <1>13, <1>14, <2>1, <2>2, <2>3
<1>16. CASE p # Len(text)
  <2>1. p \in Cuts[kind] /\ m = Partial(kind, p) /\ m.state # "End"
    BY <1>5, <1>12, <1>16, PartialFacts
  <2>2. NextTask = TaskAt(c, sent[c], kind, p)
    <3>1. p # 0
      BY <1>7
    <3> QED
      BY <1>11, <2>1, <3>1 DEF TaskAt
  <2> QED
    BY <1>2, <1>4, <1>13, <1>14, <2>1, <2>2 DEF Text
<1> QED
  BY <1>15, <1>16

(* The queue with one more task: where each task stands.                   *)
LEMMA AppendIndices ==
  ASSUME NEW S, NEW s \in Seq(S), NEW x
  PROVE  /\ DOMAIN Append(s, x) = DOMAIN s \cup {Len(s) + 1}
         /\ Len(s) + 1 \notin DOMAIN s
         /\ \A i \in DOMAIN s : Append(s, x)[i] = s[i]
         /\ Append(s, x)[Len(s) + 1] = x
<1> DEFINE T == S \cup {x}
<1>1. s \in Seq(T) /\ x \in T /\ Len(s) \in Nat /\ DOMAIN s = 1 .. Len(s)
  OBVIOUS
<1> HIDE DEF T
<1>2. Append(s, x) \in Seq(T) /\ Len(Append(s, x)) = Len(s) + 1
  BY <1>1
<1>3. DOMAIN Append(s, x) = 1 .. Len(s) + 1
  BY <1>2, <1>1
<1>4. \A i \in 1 .. Len(s) : Append(s, x)[i] = s[i]
  BY <1>1
<1>5. Append(s, x)[Len(s) + 1] = x
  BY <1>1
<1> QED
  BY <1>1, <1>3, <1>4, <1>5

(* The queue without its head.                                             *)
LEMMA TailIndices ==
  ASSUME NEW S, NEW s \in Seq(S), s # <<>>
  PROVE  /\ 1 \in DOMAIN s /\ Head(s) = s[1]
         /\ \A i \in DOMAIN Tail(s) :
              i \in Nat /\ i + 1 \in DOMAIN s /\ i + 1 # 1 /\ Tail(s)[i] = s[i + 1]
<1>1. Len(s) \in Nat /\ Len(s) > 0 /\ DOMAIN s = 1 .. Len(s) /\ Head(s) = s[1]
  OBVIOUS
<1>2. Tail(s) \in Seq(S) /\ Len(Tail(s)) = Len(s) - 1
  OBVIOUS
<1>3. \A i \in 1 .. Len(s) - 1 : Tail(s)[i] = s[i + 1]
  OBVIOUS
<1>4. DOMAIN Tail(s) = 1 .. Len(s) - 1
  BY <1>1, <1>2
<1> QED
  BY <1>1, <1>3, <1>4

(* Data received: the connection's task goes on, or becomes a task for the *)
(* workers, the only one of its client.                                    *)
LEMMA DataKeepsOrder ==
  ASSUME SocketInv, HttpTypeInv, OrderInv, OnDataReceived
  PROVE  OrderInv'
<1>1. PICK c : c = evt.from
  OBVIOUS
<1>2. /\ evt.pc = "received" /\ evt' = NoEvent /\ Stands(evt.from, evt.fd)
      /\ UNCHANGED <<plan, phase, sent, got, wire, torn, acceptor, worker>>
  BY DataMeans
<1>3. /\ c \in Clients /\ Brings(c) /\ evt'.pc = "wait"
      /\ evt.fd \in DOMAIN conn_map /\ conn_map[evt.fd].sock = c
  BY <1>1, <1>2 DEF HttpTypeInv, ControlOK, Brings, NoEvent, Stands
<1>4. PICK task : /\ conn_map' = Put(evt.fd, [sock |-> c, task |-> task])
                  /\ \/ /\ NextTask.msg.state = "End" /\ task = None
                        /\ queue' = Append(queue, NextTask)
                     \/ /\ NextTask.msg.state # "End" /\ task = NextTask
                        /\ queue' = queue
  BY <1>1, DataMeans
<1>5. /\ DOMAIN conn_map' = DOMAIN conn_map
      /\ conn_map'[evt.fd] = [sock |-> c, task |-> task]
      /\ \A fd \in DOMAIN conn_map \ {evt.fd} : conn_map'[fd] = conn_map[fd]
  BY <1>3, <1>4 DEF Put
<1>6. \A d \in Clients \ {c} : Undisturbed(d)
  BY <1>1, <1>2, <1>3, <1>5 DEF Undisturbed, Brings
<1>7. HasTask(c, task)'
  <2>1. \A fd \in DOMAIN conn_map \ {evt.fd} : conn_map[fd].sock # c
    BY <1>3 DEF SocketInv, MapOK
  <2>2. ASSUME NEW fd \in DOMAIN conn_map', conn_map'[fd].sock = c
        PROVE  conn_map'[fd].task = task
    BY <1>5, <2>1, <2>2
  <2> QED
    BY <2>2 DEF HasTask
<1>8. NewOK' /\ AnswersInOrder'
  BY <1>2 DEF OrderInv, NewOK, AnswersInOrder
<1>9. c \notin torn => Inactive(c)
  <2>1. sent[c] \in Nat
    BY <1>3, ScriptType DEF HttpTypeInv, DataOK
  <2> QED
    BY <1>3, <2>1, ActiveIsQuiet DEF OrderInv, Quiet
<1>10. ~Brings(c)'
  BY <1>3 DEF Brings
<1>11. CASE NextTask.msg.state # "End"
  <2>1. queue' = queue /\ task = NextTask
    BY <1>4, <1>11
  <2>2. ASSUME c \notin torn PROVE Reader(c)'
    <3>1. /\ sent[c] > 0 /\ Complete(c, sent[c] - 1)
          /\ \E p \in Cuts[KindOf(c)] :
               /\ p \in 0 .. Len(Text(c))
               /\ NextTask = TaskAt(c, sent[c], KindOf(c), p)
               /\ wire[c] \in {<<>>, SubSeq(Text(c), p + 1, Len(Text(c)))}
      BY <1>1, <1>2, <1>11, <2>2, DataResult
    <3>2. PICK p \in Cuts[KindOf(c)] :
            /\ p \in 0 .. Len(Text(c))
            /\ NextTask = TaskAt(c, sent[c], KindOf(c), p)
            /\ wire[c] \in {<<>>, SubSeq(Text(c), p + 1, Len(Text(c)))}
      BY <3>1
    <3>3. KindOf(c)' = KindOf(c) /\ Text(c)' = Text(c)
      BY <1>2 DEF KindOf, Text
    <3>4. \A fd \in DOMAIN conn_map' : conn_map'[fd].sock = c =>
            conn_map'[fd].task = TaskAt(c, sent'[c], KindOf(c)', p)
      BY <1>2, <1>7, <2>1, <3>2, <3>3 DEF HasTask
    <3>5. ~(acceptor.pc = "insert" /\ acceptor.sock = c)
      BY <1>3 DEF SocketInv, AcceptorOK, MapOK
    <3>6. ReadUpTo(c, p, p)'
      BY <1>2, <1>10, <3>1, <3>2, <3>3, <3>4, <3>5 DEF ReadUpTo, HasTask, Complete, LastPart
    <3> QED
      BY <1>2, <3>1, <3>2, <3>3, <3>6 DEF Reader
  <2>3. \A d \in Clients \ torn' : Undisturbed(d) \/ (Inactive(d) /\ Reader(d)')
    BY <1>2, <1>6, <1>9, <2>2
  <2> QED
    BY <1>2, <1>8, <2>1, <2>3, KeepOrder
<1>12. CASE NextTask.msg.state = "End"
  <2>1. queue' = Append(queue, NextTask) /\ task = None
    BY <1>4, <1>12
  <2>2. PICK new : new = NextTask
    OBVIOUS
  <2>3. /\ DOMAIN queue' = DOMAIN queue \cup {Len(queue) + 1}
        /\ Len(queue) + 1 \notin DOMAIN queue
        /\ \A i \in DOMAIN queue : queue'[i] = queue[i]
        /\ queue'[Len(queue) + 1] = new
    BY <2>1, <2>2, AppendIndices DEF SocketInv, Shapes
  <2>4. new.sock = c
    BY <1>1, <2>2 DEF NextTask
  <2>5. ASSUME c \notin torn
        PROVE  LastTask(new, 0)' /\ Reader(c)'
    <3>1. /\ sent[c] > 0 /\ Complete(c, sent[c] - 1) /\ NextTask.num = sent[c]
          /\ AsSent(NextTask) /\ wire[c] = <<>>
      BY <1>1, <1>2, <1>12, <2>5, DataResult
    <3>2. Quiet(c)'
      BY <1>2, <1>7, <1>10, <2>1, <3>1 DEF Quiet
    <3>3. new.num = sent'[c] /\ AsSent(new)'
      BY <1>2, <2>2, <3>1 DEF AsSent
    <3>4. Answering(c, 0)'
      BY <1>2, <3>1, <3>2 DEF Answering, Complete, LastPart
    <3>5. LastTask(new, 0)'
      BY <2>4, <3>3, <3>4 DEF LastTask
    <3> QED
      BY <3>2, <3>5 DEF Reader
  <2>6. \A d \in Clients \ torn' : Undisturbed(d) \/ Inactive(d)
    BY <1>2, <1>6, <1>9
  <2>7. ReadersOK'
    <3>1. ASSUME NEW d \in Clients, d \notin torn' PROVE Reader(d)'
      BY <1>2, <1>6, <2>5, <3>1, StaysReader DEF OrderInv, ReadersOK
    <3> QED
      BY <3>1 DEF ReadersOK
  <2>8. QueueOK'
    <3>1. ASSUME NEW i \in DOMAIN queue', NEW t, t = queue'[i], t.sock \notin torn'
          PROVE  LastTask(t, 0)'
      <4>1. CASE i \in DOMAIN queue
        <5>1. t = queue[i] /\ QueueOK /\ torn \subseteq torn' /\ plan' = plan
          BY <1>2, <2>3, <3>1, <4>1 DEF OrderInv
        <5> QED
          BY <2>6, <3>1, <4>1, <5>1, QueuedStays
      <4>2. CASE i = Len(queue) + 1
        BY <1>2, <2>3, <2>4, <2>5, <3>1, <4>2
      <4> QED
        BY <2>3, <4>1, <4>2
    <3> QED
      BY <3>1 DEF QueueOK
  <2>9. WritersOK'
    <3>1. ASSUME NEW w \in Workers, worker[w].pc # "pop",
                 NEW t, t = worker[w].task, t.sock \notin torn'
          PROVE  /\ worker[w].pc = "head" => LastTask(t, 0)'
                 /\ worker[w].pc \in Writing \ {"head"} => LastTask(t, 1)'
                 /\ worker[w].pc = "finish" => AsSent(t)'
      <4>1. WritersOK /\ torn \subseteq torn' /\ plan' = plan
        BY <1>2 DEF OrderInv
      <4> QED
        BY <2>6, <3>1, <4>1, WrittenStays
    <3> QED
      BY <1>2, <3>1 DEF WritersOK
  <2>10. OneTask'
    <3>1. \A i \in DOMAIN queue : queue[i].sock \notin torn => queue[i].sock # c
      BY <1>9 DEF Inactive
    <3>2. \A w \in Workers : Unanswered(w) /\ worker[w].task.sock \notin torn =>
            worker[w].task.sock # c
      BY <1>9 DEF Inactive
    <3>3. \A i, j \in DOMAIN queue' :
            queue'[i].sock = queue'[j].sock /\ queue'[i].sock \notin torn => i = j
      BY <2>3, <2>4, <3>1 DEF OrderInv, OneTask
    <3>4. \A i \in DOMAIN queue' : \A w \in Workers :
            Unanswered(w) /\ queue'[i].sock \notin torn =>
              worker[w].task.sock # queue'[i].sock
      BY <2>3, <2>4, <3>2 DEF OrderInv, OneTask
    <3> QED
      BY <1>2, <3>3, <3>4 DEF OrderInv, OneTask, Unanswered
  <2> QED
    BY <1>8, <2>7, <2>8, <2>9, <2>10 DEF OrderInv
<1> QED
  BY <1>11, <1>12

(* A worker takes the first task: it is still the only one of its client.  *)
LEMMA PopKeepsOrder ==
  ASSUME SocketInv, HttpTypeInv, OrderInv, NEW w \in Workers, Pop(w)
  PROVE  OrderInv'
<1>1. /\ worker[w].pc = "pop" /\ queue # <<>> /\ queue' = Tail(queue)
      /\ UNCHANGED <<plan, phase, sent, got, wire, torn, acceptor, conn_map, evt>>
  BY DEF Pop, clientVars, netVars, ioVars
<1>2. PICK pc \in {"head", "finish"} :
        worker' = [worker EXCEPT ![w] = [pc |-> pc, task |-> Head(queue), ok |-> FALSE]]
  BY DEF Pop
<1>3. PICK t : t = Head(queue)
  OBVIOUS
<1>4. /\ 1 \in DOMAIN queue /\ t = queue[1]
      /\ \A i \in DOMAIN queue' :
           i \in Nat /\ i + 1 \in DOMAIN queue /\ i + 1 # 1 /\ queue'[i] = queue[i + 1]
  BY <1>1, <1>3, TailIndices DEF SocketInv, Shapes
<1>5. /\ worker'[w].pc = pc /\ worker'[w].task = t
      /\ \A v \in Workers \ {w} : worker'[v] = worker[v]
  BY <1>2, <1>3 DEF SocketInv, Shapes
<1>6. \A d \in Clients : Undisturbed(d)
  BY <1>1 DEF Undisturbed, Brings
<1>7. /\ QueueOK /\ WritersOK /\ OneTask /\ ReadersOK /\ torn \subseteq torn' /\ plan' = plan
      /\ \A d \in Clients \ torn' : Undisturbed(d) \/ Inactive(d)
  BY <1>1, <1>6 DEF OrderInv
<1>8. QueueOK'
  <2>1. ASSUME NEW i \in DOMAIN queue', NEW u, u = queue'[i], u.sock \notin torn'
        PROVE  LastTask(u, 0)'
    BY <1>4, <1>7, <2>1, QueuedStays
  <2> QED
    BY <2>1 DEF QueueOK
<1>9. t.sock \notin torn' => LastTask(t, 0)' /\ AsSent(t)'
  <2>1. t.sock \notin torn' => LastTask(t, 0)'
    BY <1>4, <1>7, QueuedStays
  <2> QED
    BY <2>1 DEF LastTask
<1>10. WritersOK'
  <2>1. ASSUME NEW v \in Workers, worker'[v].pc # "pop",
               NEW u, u = worker'[v].task, u.sock \notin torn'
        PROVE  /\ worker'[v].pc = "head" => LastTask(u, 0)'
               /\ worker'[v].pc \in Writing \ {"head"} => LastTask(u, 1)'
               /\ worker'[v].pc = "finish" => AsSent(u)'
    <3>1. CASE v = w
      BY <1>2, <1>5, <1>9, <2>1, <3>1 DEF Writing
    <3>2. CASE v # w
      BY <1>5, <1>7, <2>1, <3>2, WrittenStays
    <3> QED
      BY <3>1, <3>2
  <2> QED
    BY <2>1 DEF WritersOK
<1>11. OneTask'
  <2>1. \A v \in Workers : Unanswered(v)' => (v = w \/ Unanswered(v))
    BY <1>5 DEF Unanswered
  <2>2. \A v \in Workers : Unanswered(v) => v # w
    BY <1>1 DEF Unanswered, Writing
  <2>3. \A v, x \in Workers :
          Unanswered(v)' /\ Unanswered(x)' /\ worker'[v].task.sock = worker'[x].task.sock
            /\ worker'[v].task.sock \notin torn' => v = x
    BY <1>1, <1>4, <1>5, <1>7, <2>1, <2>2 DEF OneTask
  <2>4. \A i, j \in DOMAIN queue' :
          queue'[i].sock = queue'[j].sock /\ queue'[i].sock \notin torn' => i = j
    <3>1. ASSUME NEW i \in DOMAIN queue', NEW j \in DOMAIN queue',
                 queue'[i].sock = queue'[j].sock, queue'[i].sock \notin torn'
          PROVE  i = j
      <4>1. i + 1 = j + 1 /\ i \in Nat /\ j \in Nat
        BY <1>1, <1>4, <1>7, <3>1 DEF OneTask
      <4> QED
        BY <4>1
    <3> QED
      BY <3>1
  <2>5. \A i \in DOMAIN queue' : \A v \in Workers :
          Unanswered(v)' /\ queue'[i].sock \notin torn' =>
            worker'[v].task.sock # queue'[i].sock
    BY <1>1, <1>4, <1>5, <1>7, <2>1, <2>2 DEF OneTask
  <2> QED
    BY <2>3, <2>4, <2>5 DEF OneTask
<1>12. ReadersOK'
  <2>1. ASSUME NEW d \in Clients, d \notin torn' PROVE Reader(d)'
    BY <1>1, <1>6, <1>7, <2>1, StaysReader DEF ReadersOK
  <2> QED
    BY <2>1 DEF ReadersOK
<1>13. NewOK' /\ AnswersInOrder'
  BY <1>1 DEF OrderInv, NewOK, AnswersInOrder
<1> QED
  BY <1>8, <1>10, <1>11, <1>12, <1>13 DEF OrderInv

(* A worker gives up a task, because a write failed or it is finished.     *)
LEMMA FinishKeepsOrder ==
  ASSUME SocketInv, HttpTypeInv, OrderInv, NEW w \in Workers,
         WriteFails(w) \/ FinishTask(w)
  PROVE  OrderInv'
<1>1. UNCHANGED <<plan, phase, sent, got, wire, torn, acceptor, conn_map, evt, queue>>
  BY DEF WriteFails, FinishTask, clientVars, netVars, ioVars
<1>2. /\ \A v \in Workers \ {w} : worker'[v] = worker[v]
      /\ \/ worker'[w].pc = "pop"
         \/ /\ worker[w].pc \in Writing /\ worker'[w].pc = "finish"
            /\ worker'[w].task = worker[w].task
  BY DEF WriteFails, FinishTask, Resting, SocketInv, Shapes
<1>3. \A d \in Clients : Undisturbed(d)
  BY <1>1 DEF Undisturbed, Brings
<1>4. /\ QueueOK /\ WritersOK /\ OneTask /\ ReadersOK /\ torn \subseteq torn' /\ plan' = plan
      /\ \A d \in Clients \ torn' : Undisturbed(d) \/ Inactive(d)
  BY <1>1, <1>3 DEF OrderInv
<1>5. QueueOK'
  BY <1>1, <1>4, QueuedStays DEF QueueOK
<1>6. WritersOK'
  <2>1. ASSUME NEW v \in Workers, worker'[v].pc # "pop",
               NEW u, u = worker'[v].task, u.sock \notin torn'
        PROVE  /\ worker'[v].pc = "head" => LastTask(u, 0)'
               /\ worker'[v].pc \in Writing \ {"head"} => LastTask(u, 1)'
               /\ worker'[v].pc = "finish" => AsSent(u)'
    <3>1. CASE v = w
      <4>1. /\ worker[w].pc \in Writing /\ worker'[w].pc = "finish"
            /\ u = worker[w].task /\ u.sock \notin torn
        BY <1>1, <1>2, <2>1, <3>1
      <4>2. LastTask(u, 0) \/ LastTask(u, 1)
        BY <1>4, <4>1 DEF WritersOK, Writing
      <4>3. AsSent(u)'
        BY <1>1, <4>2, TaskStays DEF LastTask
      <4> QED
        BY <3>1, <4>1, <4>3 DEF Writing
    <3>2. CASE v # w
      BY <1>2, <1>4, <2>1, <3>2, WrittenStays
    <3> QED
      BY <3>1, <3>2
  <2> QED
    BY <2>1 DEF WritersOK
<1>7. OneTask'
  <2>1. \A v \in Workers : Unanswered(v)' => Unanswered(v) /\ worker'[v] = worker[v]
    BY <1>2 DEF Unanswered, Writing
  <2> QED
    BY <1>1, <1>4, <2>1 DEF OneTask
<1>8. ReadersOK'
  <2>1. ASSUME NEW d \in Clients, d \notin torn' PROVE Reader(d)'
    BY <1>1, <1>3, <1>4, <2>1, StaysReader DEF ReadersOK
  <2> QED
    BY <2>1 DEF ReadersOK
<1>9. NewOK' /\ AnswersInOrder'
  BY <1>1 DEF OrderInv, NewOK, AnswersInOrder
<1> QED
  BY <1>5, <1>6, <1>7, <1>8, <1>9 DEF OrderInv

(* A worker writes the next part of an answer, to the client it is for.    *)
LEMMA WriteKeepsOrder ==
  ASSUME SocketInv, HttpTypeInv, AnswersInv, OrderInv, NEW w \in Workers,
         WriteAnswer(w)
  PROVE  OrderInv'
<1>1. PICK t : t = worker[w].task
  OBVIOUS
<1>2. PICK c : c = t.sock
  OBVIOUS
<1>3. PICK pc, part, next :
        /\ pc \in Writing
        /\ WriteStep(w, pc, part, next)
        /\ pc = "head" => part = "head" /\ next \in {"body", "stream", "refuse"}
        /\ pc # "head" => \/ part = "chunk" /\ next = "stream"
                          \/ part \in {"last", "refusal"} /\ next = "finish"
  BY WriteMeans
<1>4. PICK n : n = IF pc = "head" THEN 0 ELSE 1
  OBVIOUS
<1>5. next \in {"body", "stream", "refuse", "finish"} /\ (next # "finish" => part \in {"head", "chunk"})
  BY <1>3
<1>6. worker[w].pc = pc /\ worker[w].pc # "pop" /\ Unanswered(w)
  BY <1>3 DEF WriteStep, Writing, Unanswered
<1>7. /\ UNCHANGED <<plan, phase, sent, wire, torn, acceptor, conn_map, evt, queue>>
      /\ worker' = [worker EXCEPT ![w] = [pc |-> next, task |-> worker[w].task, ok |-> TRUE]]
      /\ got' = [d \in Clients |-> IF d \in Owners(fd_of[c])
                   THEN Append(got[d], [sock |-> c, num |-> t.num, part |-> part])
                   ELSE got[d]]
  BY <1>1, <1>2, <1>3 DEF WriteStep, Deliver, netVars, ioVars
<1>8. /\ worker'[w].pc = next /\ worker'[w].task = t
      /\ \A v \in Workers \ {w} : worker'[v] = worker[v]
  BY <1>1, <1>7 DEF SocketInv, Shapes
<1>9. t \in Tasks /\ c \in Clients /\ c \in Held
  <2>1. worker[w].pc # "pop"
    BY <1>6
  <2>2. t \in Tasks /\ c \in Clients
    BY <1>1, <1>2, <2>1 DEF HttpTypeInv, RequestsOK, Tasks
  <2> QED
    BY <1>1, <1>2, <2>1, <2>2, HeldMeans, HttpAssumption DEF HeldBy
<1>10. \A d \in Clients : d \in Owners(fd_of[c]) <=> d = c
  BY <1>9 DEF SocketInv, HeldOK, Owners
<1>11. PICK answer : answer = [sock |-> c, num |-> t.num, part |-> part]
  OBVIOUS
<1>12. /\ got'[c] = Append(got[c], answer)
       /\ \A d \in Clients \ {c} : got'[d] = got[d]
  BY <1>7, <1>9, <1>10, <1>11
<1>13. \A d \in Clients \ {c} : Undisturbed(d)
  BY <1>7, <1>12 DEF Undisturbed, Brings
<1>14. QueueOK /\ WritersOK /\ OneTask /\ ReadersOK /\ AnswersInOrder
  BY DEF OrderInv
<1>15. ASSUME c \notin torn
       PROVE  /\ LastTask(t, n) /\ Quiet(c)' /\ AsSent(t)'
              /\ next # "finish" => LastTask(t, 1)'
              /\ \A i \in DOMAIN queue : queue[i].sock # c
              /\ \A v \in Workers : Unanswered(v) /\ v # w => worker[v].task.sock # c
              /\ \A i \in DOMAIN got'[c] : InOrder(got'[c], i)
  <2>1. LastTask(t, n)
    BY <1>1, <1>2, <1>3, <1>4, <1>6, <1>14, <1>15 DEF WritersOK
  <2>2. /\ t.num = sent[c] /\ AsSent(t) /\ sent[c] > 0 /\ Quiet(c)
        /\ IF n = 0 THEN Complete(c, sent[c] - 1) ELSE Begun(c)
    BY <1>2, <2>1 DEF LastTask, Answering
  <2>3. Quiet(c)'
    BY <1>7, <2>2 DEF Quiet, HasTask, Brings
  <2>4. AsSent(t)'
    BY <1>7, <2>2, TaskStays
  <2>5. sent[c] \in Nat \ {0}
    BY <1>9, <2>2, ScriptType DEF HttpTypeInv, DataOK
  <2> DEFINE S == {got[c][i] : i \in DOMAIN got[c]}
  <2>6. got[c] \in Seq(S)
    BY <1>9 DEF AnswersInv, IsSequence
  <2> HIDE DEF S
  <2>7. /\ DOMAIN got'[c] = DOMAIN got[c] \cup {Len(got[c]) + 1}
        /\ \A i \in DOMAIN got[c] : got'[c][i] = got[c][i]
        /\ got'[c][Len(got[c]) + 1] = answer
    BY <1>12, <2>6, AppendIndices
  <2>8. Len(got'[c]) = Len(got[c]) + 1
    <3>1. S \subseteq S \cup {answer} /\ answer \in S \cup {answer}
      OBVIOUS
    <3>2. got[c] \in Seq(S \cup {answer})
      BY <2>6
    <3> QED
      BY <1>12, <3>1, <3>2
  <2>9. next # "finish" => LastTask(t, 1)'
    <3> SUFFICES ASSUME next # "finish" PROVE LastTask(t, 1)'
      OBVIOUS
    <3>1. LastPart(c)' = answer
      BY <2>7, <2>8 DEF LastPart
    <3>2. answer.num = t.num /\ answer.part = part
      BY <1>11
    <3>3. got'[c] # <<>>
      BY <2>6, <2>8
    <3>4. Begun(c)'
      BY <1>5, <1>7, <2>2, <3>1, <3>2, <3>3 DEF Begun
    <3> QED
      BY <1>2, <1>7, <2>2, <2>3, <2>4, <3>4 DEF LastTask, Answering
  <2>10. /\ \A i \in DOMAIN queue : queue[i].sock # c
         /\ \A v \in Workers : Unanswered(v) /\ v # w => worker[v].task.sock # c
    <3>1. Unanswered(w) /\ worker[w].task.sock = c
      BY <1>1, <1>2, <1>6
    <3> QED
      BY <1>14, <1>15, <3>1 DEF OneTask
  <2>11. ASSUME NEW i \in DOMAIN got'[c] PROVE InOrder(got'[c], i)
    <3>1. Len(got[c]) \in Nat /\ DOMAIN got[c] = 1 .. Len(got[c])
      BY <2>6
    <3>2. CASE i \in DOMAIN got[c]
      <4>1. InOrder(got[c], i)
        BY <1>9, <1>14, <1>15, <3>2 DEF AnswersInOrder, InOrder
      <4>2. i # 1 => i - 1 \in DOMAIN got[c]
        BY <3>1, <3>2
      <4> QED
        BY <2>7, <3>2, <4>1, <4>2 DEF InOrder
    <3>3. CASE i = Len(got[c]) + 1
      <4>1. got'[c][i].num = sent[c] /\ got'[c][i].part = part
        BY <1>11, <2>2, <2>7, <3>3
      <4>2. CASE got[c] = <<>>
        <5>1. i = 1 /\ n = 0 /\ sent[c] = 1
          BY <2>2, <2>5, <3>1, <3>3, <4>2 DEF Complete, Begun
        <5> QED
          BY <1>3, <1>4, <4>1, <5>1 DEF InOrder
      <4>3. CASE got[c] # <<>>
        <5>1. i # 1 /\ got'[c][i - 1] = LastPart(c)
          BY <2>6, <2>7, <3>1, <3>3, <4>3 DEF LastPart
        <5>2. CASE n = 0
          <6>1. LastPart(c).num = sent[c] - 1 /\ LastPart(c).part = "last" /\ part = "head"
            BY <1>3, <1>4, <2>2, <4>3, <5>2 DEF Complete
          <6> QED
            BY <2>5, <4>1, <5>1, <6>1 DEF InOrder, Follows
        <5>3. CASE n # 0
          <6>1. /\ LastPart(c).num = sent[c] /\ LastPart(c).part \in {"head", "chunk"}
                /\ part # "head"
            BY <1>3, <1>4, <2>2, <5>3 DEF Begun
          <6> QED
            BY <4>1, <5>1, <6>1 DEF InOrder, Follows
        <5> QED
          BY <5>2, <5>3
      <4> QED
        BY <4>2, <4>3
    <3> QED
      BY <2>7, <3>2, <3>3
  <2> QED
    BY <2>1, <2>3, <2>4, <2>9, <2>10, <2>11
<1>16. QueueOK'
  <2>1. ASSUME NEW i \in DOMAIN queue', NEW u, u = queue'[i], u.sock \notin torn'
        PROVE  LastTask(u, 0)'
    <3>1. u = queue[i] /\ u.sock \notin torn /\ i \in DOMAIN queue
      BY <1>7, <2>1
    <3>2. u.sock \in Clients \ {c} /\ LastTask(u, 0)
      BY <1>14, <1>15, <3>1 DEF QueueOK, HttpTypeInv, RequestsOK, Tasks
    <3> QED
      BY <1>7, <1>13, <3>2, StaysLast
  <2> QED
    BY <2>1 DEF QueueOK
<1>17. WritersOK'
  <2>1. ASSUME NEW v \in Workers, worker'[v].pc # "pop",
               NEW u, u = worker'[v].task, u.sock \notin torn'
        PROVE  /\ worker'[v].pc = "head" => LastTask(u, 0)'
               /\ worker'[v].pc \in Writing \ {"head"} => LastTask(u, 1)'
               /\ worker'[v].pc = "finish" => AsSent(u)'
    <3>1. CASE v = w
      <4>1. u = t /\ worker'[v].pc = next /\ c \notin torn
        BY <1>2, <1>7, <1>8, <2>1, <3>1
      <4> QED
        BY <1>5, <1>15, <4>1 DEF Writing
    <3>2. CASE v # w
      <4>1. worker'[v] = worker[v] /\ u = worker[v].task /\ u.sock \notin torn
            /\ worker[v].pc # "pop"
        BY <1>7, <1>8, <2>1, <3>2
      <4>2. /\ worker[v].pc = "head" => LastTask(u, 0)
            /\ worker[v].pc \in Writing \ {"head"} => LastTask(u, 1)
            /\ worker[v].pc = "finish" => AsSent(u)
        BY <1>14, <4>1 DEF WritersOK
      <4>3. Unanswered(v) => u.sock \in Clients \ {c}
        BY <1>15, <3>2, <4>1 DEF HttpTypeInv, RequestsOK, Tasks
      <4>4. \A k : LastTask(u, k) /\ Unanswered(v) => LastTask(u, k)'
        BY <1>7, <1>13, <4>3, StaysLast
      <4>5. AsSent(u) => AsSent(u)'
        BY <1>7, TaskStays
      <4> QED
        BY <4>1, <4>2, <4>4, <4>5 DEF Unanswered, Writing
    <3> QED
      BY <3>1, <3>2
  <2> QED
    BY <2>1 DEF WritersOK
<1>18. OneTask'
  <2>1. \A v \in Workers : /\ worker'[v].task = worker[v].task
                           /\ Unanswered(v)' => Unanswered(v)
    BY <1>1, <1>6, <1>8 DEF Unanswered
  <2> QED
    BY <1>7, <1>14, <2>1 DEF OneTask
<1>19. ReadersOK'
  <2>1. ASSUME NEW d \in Clients, d \notin torn' PROVE Reader(d)'
    <3>1. CASE d = c
      BY <1>7, <1>15, <2>1, <3>1 DEF Reader
    <3>2. CASE d # c
      BY <1>7, <1>13, <1>14, <2>1, <3>2, StaysReader DEF ReadersOK
    <3> QED
      BY <3>1, <3>2
  <2> QED
    BY <2>1 DEF ReadersOK
<1>20. AnswersInOrder'
  <2>1. ASSUME NEW d \in Clients, d \notin torn', NEW i \in DOMAIN got'[d]
        PROVE  InOrder(got'[d], i)
    <3>1. CASE d = c
      BY <1>7, <1>15, <2>1, <3>1
    <3>2. CASE d # c
      <4>1. got'[d] = got[d] /\ d \in Clients \ torn
        BY <1>7, <1>12, <2>1, <3>2
      <4>2. \A j \in DOMAIN got[d] : InOrder(got[d], j)
        BY <1>14, <4>1, Zenon DEF AnswersInOrder, InOrder
      <4> QED
        BY <2>1, <4>1, <4>2
    <3> QED
      BY <3>1, <3>2
  <2> QED
    BY <2>1, Zenon DEF AnswersInOrder, InOrder
<1>21. NewOK'
  BY <1>7 DEF OrderInv, NewOK
<1> QED
  BY <1>16, <1>17, <1>18, <1>19, <1>20, <1>21 DEF OrderInv

(* Every step keeps the requests and answers of a client in their order.   *)
LEMMA OrderStep ==
  SocketInv /\ HttpTypeInv /\ AnswersInv /\ OrderInv /\ [HttpNext]_httpVars => OrderInv'
<1> SUFFICES ASSUME SocketInv, HttpTypeInv, AnswersInv, OrderInv, [HttpNext]_httpVars
             PROVE  OrderInv'
  OBVIOUS
<1>1. CASE UNCHANGED httpVars
  <2>1. UNCHANGED <<plan, phase, sent, got, wire, torn, acceptor, conn_map, evt,
                    queue, worker>>
    BY <1>1 DEF httpVars, clientVars, netVars, ioVars
  <2>2. NewOK' /\ \A d \in Clients : Undisturbed(d)
    BY <2>1 DEF OrderInv, NewOK, Undisturbed, Brings
  <2> QED
    BY <2>1, <2>2, KeepOrder
<1>2. ASSUME NEW c \in Clients, ClientStep(c) PROVE OrderInv'
  BY <1>2, SendKeepsOrder, LeavingKeepsOrder DEF ClientStep
<1>3. CASE EpollStep
  BY <1>3, EventsKeepOrder, RecvKeepsOrder, DataKeepsOrder DEF EpollStep
<1>4. ASSUME NEW w \in Workers, WorkerStep(w) PROVE OrderInv'
  BY <1>4, PopKeepsOrder, WriteKeepsOrder, FinishKeepsOrder DEF WorkerStep
<1> QED
  BY <1>1, <1>2, <1>3, <1>4, AcceptingKeepsOrder DEF HttpNext

(* Both invariants about answers.                                          *)
LEMMA OrderAlwaysOK == HttpSpec => []OrderInv
<1>1. HttpSpec => []AnswersInv
  BY AnswersInit, AnswersStep, SocketsAlwaysOK, PTL DEF HttpSpec
<1> QED
  BY <1>1, OrderInit, OrderStep, SocketsAlwaysOK, TypesAlwaysOK, PTL DEF HttpSpec

(* A client whose requests were not cut unfavourably gets its answers      *)
(* once and in their order, whichever workers handle them and however much *)
(* is streamed, for any clients, plans, descriptors and workers.           *)
THEOREM AnswersAlwaysInOrder == HttpSpec => []AnswersInOrder
<1>1. OrderInv => AnswersInOrder
  BY DEF OrderInv
<1> QED
  BY <1>1, OrderAlwaysOK, PTL

(* A request that is queued or handled is the one that was sent, however   *)
(* the network cut it where PrepareTask can put it together again.         *)
THEOREM RequestsAlwaysAsSent == HttpSpec => []HandledAsSent
<1>1. HttpTypeInv /\ OrderInv => HandledAsSent
  <2> SUFFICES ASSUME HttpTypeInv, OrderInv,
                      NEW t \in WaitingTasks \cup BusyTasks, t.sock \notin torn
               PROVE  LET kind == plan.script[t.sock][t.num]
                      IN  /\ ~IsUnknownType(t.msg) /\ HasKnownUrl(t.msg)
                          /\ t.msg.body = BodyOf(kind)
                          /\ t.msg.is_close <=> kind = "closing"
                          /\ t.msg.rest = IF kind = "chunked" THEN Eol ELSE <<>>
    BY Zenon DEF HandledAsSent
  <2>1. AsSent(t)
    <3>1. CASE t \in WaitingTasks
      BY <3>1 DEF WaitingTasks, OrderInv, QueueOK, LastTask
    <3>2. CASE t \in BusyTasks
      <4>1. PICK w \in Workers : worker[w].pc # "pop" /\ t = worker[w].task
        BY <3>2 DEF BusyTasks
      <4>2. worker[w].pc \in {"finish"} \cup Writing
        BY <4>1 DEF HttpTypeInv, ControlOK
      <4> QED
        BY <4>1, <4>2 DEF OrderInv, WritersOK, LastTask
    <3> QED
      BY <3>1, <3>2
  <2> DEFINE kind == plan.script[t.sock][t.num]
             m    == t.msg
  <2>2. IsWhole(kind, m)
    BY <2>1 DEF AsSent
  <2> HIDE DEF kind, m
  <2>3. FirstLine(m) = <<"known">>
    BY <2>2 DEF IsWhole, FirstLine
  <2>4. ~IsUnknownType(m) /\ HasKnownUrl(m)
    BY <2>3 DEF IsUnknownType, HasKnownUrl
  <2>5. /\ m.body = BodyOf(kind) /\ (m.is_close <=> kind = "closing")
        /\ m.rest = IF kind = "chunked" THEN Eol ELSE <<>>
    BY <2>2, Zenon DEF IsWhole
  <2> QED
    BY <2>4, <2>5 DEF kind, m
<1> QED
  BY <1>1, TypesAlwaysOK, OrderAlwaysOK, PTL
=============================================================================
