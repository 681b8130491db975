------------------------------ MODULE HttpServer ------------------------------
(***************************************************************************)
(* The HTTP server in the main of each of the three programs: the server     *)
(* half of src/include/httplib.h with the two handlers this repository gives *)
(* it, KETILOG::HandleSetLogLevel and Scheduler::HandleSetAlgorithm.         *)
(*                                                                           *)
(* The main thread accepts connections and puts each into the thread pool as *)
(* a job; a worker serves a connection from its first request to its end.    *)
(* A request arrives in two pieces, its request line and the rest of its     *)
(* headers with the blank line, which the network delivers together or       *)
(* apart.  A worker reads all that has arrived into the buffer of its        *)
(* SocketStream; there is one stream per REQUEST, so what the buffer still   *)
(* holds when the request has been answered is lost.  Time is left out: a    *)
(* timeout is something that may happen to a read with nothing to read.      *)
(* EMFILE, EINTR and EAGAIN make the accept loop try again and change        *)
(* nothing.  A connection exists here from accept on: what its client sends  *)
(* before is the same as what it sends before a worker takes the job.        *)
(***************************************************************************)
EXTENDS Naturals, Sequences, FiniteSets

CONSTANTS Conn,          \* the connections clients open
          Requests,      \* of each connection: the requests its client sends
          Pipelining,    \* connections whose client does not wait for answers
          Worker,        \* the threads of the pool
          KeepAliveMax,  \* CPPHTTPLIB_KEEPALIVE_MAX_COUNT
          Routes,        \* the paths main has given to Server::Get
          Levels,        \* the log levels that stoi reads
          Algorithms     \* the names setAlgorithm knows

ASSUME HttpAssumption ==
  /\ Pipelining \subseteq Conn
  /\ KeepAliveMax \in Nat \ {0}
  /\ Requests \in [Conn -> Seq([good : BOOLEAN, path : STRING, value : STRING,
                                connection : {"keep-alive", "close", "HTTP/1.0"}])]
  /\ IsFiniteSet(Worker)

VARIABLES acceptor,      \* what the main thread does
          shutdown,      \* shutdown_ of the pool
          jobs,          \* jobs_ of the pool: connections nobody serves yet
          worker,        \* what each thread of the pool does
          status,        \* how far each connection has got
          socket,        \* pieces that have arrived and are not read yet
          sent,          \* pieces each client has sent
          ended,         \* clients that have closed their side
          late,          \* history: connections with a request that timed out
          answers,       \* what each client has been answered
          settings       \* the log level and the scheduling algorithm

vars == <<acceptor, shutdown, jobs, worker, status, socket, sent, ended, late,
          answers, settings>>
clients == <<sent, ended>>
pool == <<acceptor, shutdown, jobs>>

\* Piece n of a client: odd ones are request lines, even ones the headers.
RequestOf(n) == (n + 1) \div 2
IsLine(n) == n % 2 = 1

\* A worker with nothing to serve; one that serves c, `left' answers allowed; one
\* that has read the line of a request of c.
Resting(doing) == [doing |-> doing, conn |-> {}, left |-> 0, buffer |-> <<>>, line |-> 0]
Serving(c, left) == [doing |-> "serving", conn |-> {c}, left |-> left, buffer |-> <<>>, line |-> 0]
Reading(c, left, buffer, line) ==
  [doing |-> "reading", conn |-> {c}, left |-> left, buffer |-> buffer, line |-> line]

Init ==
  /\ acceptor = "starting"
  /\ shutdown = FALSE
  /\ jobs = <<>>
  /\ worker = [w \in Worker |-> Resting("idle")]
  /\ status = [c \in Conn |-> "new"]
  /\ socket = [c \in Conn |-> <<>>]
  /\ sent = [c \in Conn |-> 0]
  /\ ended = {}
  /\ late = {}
  /\ answers = [c \in Conn |-> <<>>]
  /\ settings = [level |-> "INFO", algorithm |-> "dcs"]
------------------------------------------------------------------------------
\* The clients.  A client sends piece by piece; one that does not pipeline
\* starts a request only when the ones before it have been answered.
MaySend(c) ==
  /\ sent[c] < 2 * Len(Requests[c])
  /\ c \in Pipelining \/ ~IsLine(sent[c] + 1) \/ sent[c] <= 2 * Len(answers[c])

Send(c) ==
  /\ status[c] = "accepted"
  /\ c \notin ended
  /\ MaySend(c)
  /\ sent' = [sent EXCEPT ![c] = @ + 1]
  /\ socket' = [socket EXCEPT ![c] = Append(@, sent[c] + 1)]
  /\ UNCHANGED <<pool, worker, status, ended, late, answers, settings>>

HangUp(c) ==
  /\ status[c] = "accepted"
  /\ c \notin ended
  /\ ended' = ended \cup {c}
  /\ UNCHANGED <<pool, worker, status, socket, sent, late, answers, settings>>
------------------------------------------------------------------------------
\* create_socket: the address is known and one of its sockets can be bound and
\* listened on, or there is no server socket.
CreateSocket == {"listening", "returned"}

\* Server::listen: bind_to_port, then listen_internal.  Without a socket it
\* returns, and the program runs on without its HTTP server.
Bind ==
  /\ acceptor = "starting"
  /\ acceptor' \in CreateSocket
  /\ UNCHANGED <<shutdown, jobs, worker, status, socket, clients, late, answers, settings>>

\* Faulty variant: the pool is told of a job only if it had none.
AcceptFirst(c) ==
  /\ acceptor = "listening"
  /\ status[c] = "new"
  /\ status' = [status EXCEPT ![c] = "accepted"]
  /\ jobs' = Append(jobs, c)
  /\ acceptor' = IF jobs = <<>> THEN "notifying" ELSE "listening"
  /\ UNCHANGED <<shutdown, worker, socket, clients, late, answers, settings>>

\* accept, and enqueue up to the end of its critical section.
Accept(c) ==
  /\ acceptor = "listening"
  /\ status[c] = "new"
  /\ status' = [status EXCEPT ![c] = "accepted"]
  /\ jobs' = Append(jobs, c)
  /\ acceptor' = "notifying"
  /\ UNCHANGED <<shutdown, worker, socket, clients, late, answers, settings>>

Sleepers == {w \in Worker : worker[w].doing = "waiting"}

\* cond_.notify_one(), after the mutex has been released.
NotifyOne ==
  /\ acceptor = "notifying"
  /\ acceptor' = "listening"
  /\ \/ /\ Sleepers = {}
        /\ UNCHANGED worker
     \/ \E w \in Sleepers : worker' = [worker EXCEPT ![w] = Resting("idle")]
  /\ UNCHANGED <<shutdown, jobs, status, socket, clients, late, answers, settings>>

\* accept fails with another error: the server socket is closed, but svr_sock_
\* keeps its value, so that connections go on being served.
AcceptFails ==
  /\ acceptor = "listening"
  /\ acceptor' = "stopping"
  /\ UNCHANGED <<shutdown, jobs, worker, status, socket, clients, late, answers, settings>>

\* ThreadPool::shutdown: the flag under the mutex, then notify_all, then join.
ShutdownFlag ==
  /\ acceptor = "stopping"
  /\ ~shutdown
  /\ shutdown' = TRUE
  /\ UNCHANGED <<acceptor, jobs, worker, status, socket, clients, late, answers, settings>>

NotifyAll ==
  /\ acceptor = "stopping"
  /\ shutdown
  /\ acceptor' = "joining"
  /\ worker' = [w \in Worker |-> IF w \in Sleepers THEN Resting("idle") ELSE worker[w]]
  /\ UNCHANGED <<shutdown, jobs, status, socket, clients, late, answers, settings>>

\* The threads have been joined: listen returns and main waits for gRPC.
ListenReturns ==
  /\ acceptor = "joining"
  /\ \A w \in Worker : worker[w].doing = "ended"
  /\ acceptor' = "returned"
  /\ UNCHANGED <<shutdown, jobs, worker, status, socket, clients, late, answers, settings>>
------------------------------------------------------------------------------
\* worker::operator(): the wait, and what ends it.
Wait(w) ==
  /\ worker[w].doing = "idle"
  /\ jobs = <<>>
  /\ ~shutdown
  /\ worker' = [worker EXCEPT ![w] = Resting("waiting")]
  /\ UNCHANGED <<pool, status, socket, clients, late, answers, settings>>

SpuriousWakeup(w) ==
  /\ w \in Sleepers
  /\ worker' = [worker EXCEPT ![w] = Resting("idle")]
  /\ UNCHANGED <<pool, status, socket, clients, late, answers, settings>>

TakeJob(w) ==
  /\ worker[w].doing = "idle"
  /\ jobs # <<>>
  /\ jobs' = Tail(jobs)
  /\ worker' = [worker EXCEPT ![w] = Serving(Head(jobs), KeepAliveMax)]
  /\ UNCHANGED <<acceptor, shutdown, status, socket, clients, late, answers, settings>>

\* Faulty variant: a thread ends with jobs left.
MayEndAtOnce == shutdown

MayEnd == shutdown /\ jobs = <<>>

End(w) ==
  /\ worker[w].doing = "idle"
  /\ MayEnd
  /\ worker' = [worker EXCEPT ![w] = Resting("ended")]
  /\ UNCHANGED <<pool, status, socket, clients, late, answers, settings>>
------------------------------------------------------------------------------
\* The connection is closed; what has arrived unread is dropped with it.
CloseConnection(w, c) ==
  /\ worker' = [worker EXCEPT ![w] = Resting("idle")]
  /\ status' = [status EXCEPT ![c] = "closed"]

\* Faulty variant: the count is one off.
LastAllowedOffByOne(w) == worker[w].left = 0

\* close_connection: the answer the client is told the connection ends with.
LastAllowed(w) == worker[w].left = 1

\* is_writable looks at the socket first: with nothing unread and the client's
\* side closed, nothing is written, and process_request does not mind.
Writable(c, unread) == unread # <<>> \/ c \notin ended

\* write_response_core for request k, with `told' the Connection header of a
\* request whose headers were read.
WriteResponse(w, c, k, code, told, unread) ==
  answers' =
    IF Writable(c, unread)
    THEN [answers EXCEPT ![c] = Append(@, [to |-> k, code |-> code,
              close |-> LastAllowed(w) \/ told = "close"])]
    ELSE answers

\* A turn of the loop in process_server_socket_core ends: the answer is written
\* and the connection is closed or goes on with one answer less.
Respond(w, c, k, code, told, unread) ==
  /\ WriteResponse(w, c, k, code, told, unread)
  /\ IF worker[w].left = 1 \/ told \in {"close", "HTTP/1.0"}
     THEN CloseConnection(w, c)
     ELSE /\ worker' = [worker EXCEPT ![w] = Serving(c, worker[w].left - 1)]
          /\ UNCHANGED status

\* Faulty variant: what no route answers is answered at once.
ReadsOnForRoutes(c, n) ==
  IsLine(n) /\ Requests[c][RequestOf(n)].good /\ Requests[c][RequestOf(n)].path \in Routes

\* parse_request_line succeeds; header lines are no request lines.
ReadsOn(c, n) == IsLine(n) /\ Requests[c][RequestOf(n)].good

\* SocketStream::read with an empty buffer: recv takes all that has arrived.
\* getline is given the first line of it, the buffer keeps the rest.
ReadAll(c) == socket' = [socket EXCEPT ![c] = <<>>]
GetLine(c) == Head(socket[c])

\* keep_alive sees the socket readable, and process_request reads a line.  One
\* that is no request line is answered 400 with the headers unread.
ReadLine(w, c) ==
  /\ worker[w].doing = "serving"
  /\ worker[w].conn = {c}
  /\ socket[c] # <<>>
  /\ ReadAll(c)
  /\ LET n == GetLine(c)
     IN IF ReadsOn(c, n)
        THEN /\ worker' = [worker EXCEPT ![w] =
                             Reading(c, worker[w].left, Tail(socket[c]), RequestOf(n))]
             /\ UNCHANGED <<status, answers>>
        ELSE Respond(w, c, RequestOf(n), 400, "unread", <<>>)
  /\ UNCHANGED <<pool, clients, late, settings>>

\* keep_alive runs into its timeout, or the client has closed its side and
\* getline reads nothing.
NothingMore(w, c) ==
  /\ worker[w].doing = "serving"
  /\ worker[w].conn = {c}
  /\ socket[c] = <<>>
  /\ CloseConnection(w, c)
  /\ UNCHANGED <<pool, socket, clients, late, answers, settings>>

\* routing: only regular handlers are set, and one is run if its path matches.
Routed(r) == r.path \in Routes

\* HandleSetLogLevel: stoi throws if the level is no number.
HandleSetLogLevel(r) ==
  settings' = [settings EXCEPT !.level = IF r.value \in Levels THEN r.value ELSE @]

\* HandleSetAlgorithm: an algorithm nobody knows changes nothing and is
\* answered like one that was set.
HandleSetAlgorithm(r) ==
  settings' = [settings EXCEPT !.algorithm = IF r.value \in Algorithms THEN r.value ELSE @]

Code(r) ==
  CASE ~Routed(r) -> 404
    [] r.path = "/log-level" /\ r.value \notin Levels -> 501
    [] OTHER -> 200

\* read_headers succeeds, from the buffer or from the socket: routing, the
\* handler, and the answer.
HandleRequest(w, c) ==
  /\ worker[w].doing = "reading"
  /\ worker[w].conn = {c}
  /\ LET r == Requests[c][worker[w].line]
     IN /\ \/ /\ worker[w].buffer # <<>>
              /\ UNCHANGED socket
              /\ Respond(w, c, worker[w].line, Code(r), r.connection, socket[c])
           \/ /\ worker[w].buffer = <<>>
              /\ socket[c] # <<>>
              /\ ReadAll(c)
              /\ Respond(w, c, worker[w].line, Code(r), r.connection, <<>>)
        /\ CASE ~Routed(r) -> UNCHANGED settings
             [] r.path = "/log-level" -> HandleSetLogLevel(r)
             [] OTHER -> HandleSetAlgorithm(r)
  /\ UNCHANGED <<pool, clients, late>>

\* read_headers runs into its timeout or the end of the stream: 400.
HeadersMissing(w, c) ==
  /\ worker[w].doing = "reading"
  /\ worker[w].conn = {c}
  /\ worker[w].buffer = <<>>
  /\ socket[c] = <<>>
  /\ late' = late \cup {c}
  /\ Respond(w, c, worker[w].line, 400, "unread", <<>>)
  /\ UNCHANGED <<pool, socket, clients, settings>>
------------------------------------------------------------------------------
Serve == \E w \in Worker : \E c \in worker[w].conn :
           ReadLine(w, c) \/ NothingMore(w, c) \/ HandleRequest(w, c) \/ HeadersMissing(w, c)

Next ==
  \/ \E c \in Conn : Send(c) \/ HangUp(c) \/ Accept(c)
  \/ Bind \/ NotifyOne \/ AcceptFails \/ ShutdownFlag \/ NotifyAll \/ ListenReturns
  \/ \E w \in Worker : Wait(w) \/ SpuriousWakeup(w) \/ TakeJob(w) \/ End(w)
  \/ Serve

\* The main thread goes on while it does not wait for a client, an awake
\* thread takes a job or ends, and a thread that serves a connection reads or
\* runs into a timeout.  No client is obliged to anything.
Runs == \/ NotifyOne \/ ShutdownFlag \/ NotifyAll \/ ListenReturns
        \/ \E w \in Worker : TakeJob(w) \/ End(w)
        \/ Serve

Spec == Init /\ [][Next]_vars /\ WF_vars(Runs)
------------------------------------------------------------------------------
\* A client in step: it waits for its answers, sends no line that is not
\* HTTP, and no part of a request has come so late that its read timed out.
InStep(c) ==
  /\ c \notin Pipelining \cup late
  /\ \A k \in DOMAIN Requests[c] : Requests[c][k].good

\* The answers a client in step gets are those to its requests, one by one in
\* their order, and once the server waits for more on the connection none is
\* missing.  One stream per request with a buffer that is thrown away, and a
\* 400 that leaves headers unread, make it wrong for every other client
\* (httplib.h:2900, 5321, 6470).
AnswersInStep ==
  \A c \in Conn : InStep(c) =>
    /\ \A i \in DOMAIN answers[c] : answers[c][i].to = i
    /\ \A w \in Worker :
         (/\ worker[w].doing = "serving" /\ worker[w].conn = {c}
          /\ socket[c] = <<>> /\ c \notin ended) => sent[c] = 2 * Len(answers[c])

\* While a thread of the pool sleeps, the jobs do not outnumber the threads
\* that are awake and the one that is about to be woken: enqueue notifies after
\* it has released the mutex, and for every job (httplib.h:603-643).
JobsHaveWorkers ==
  Sleepers = {}
    \/ Len(jobs) <= Cardinality({w \in Worker : worker[w].doing = "idle"})
                      + (IF acceptor = "notifying" THEN 1 ELSE 0)

\* A server that closes a connection with an answer has said so in it: the
\* Connection header of the answer and the count of the loop agree.  Only an
\* HTTP/1.0 client is promised a connection that is closed
\* (httplib.h:2881-2885, 5835, 6480).
CloseIsAnnounced ==
  [][\A c \in Conn :
       (status'[c] = "closed" /\ answers'[c] # answers[c]) =>
         LET last == answers'[c][Len(answers'[c])]
         IN last.close \/ Requests[c][last.to].connection = "HTTP/1.0"]_vars

\* Every connection that has been accepted is closed in the end, whatever its
\* client does, also when accept has failed; and then listen returns.
EverythingEnds ==
  []<>(/\ \A c \in Conn : status[c] # "accepted"
       /\ acceptor \in {"starting", "listening", "returned"})
==============================================================================
