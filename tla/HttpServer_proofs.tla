-------------------------- MODULE HttpServer_proofs --------------------------
(***************************************************************************)
(* The HTTP server for any number of connections, requests and threads: no   *)
(* job waits beside a thread that sleeps, and a client in step is answered   *)
(* in step.                                                                  *)
(***************************************************************************)
EXTENDS HttpServer, FiniteSetTheorems, SequenceTheorems, TLAPS

WorkerState == [doing : {"idle", "waiting", "ended", "serving", "reading"},
                conn : SUBSET Conn, left : Int, buffer : Seq(Nat), line : Nat]

Types ==
  /\ jobs \in Seq(Conn)
  /\ worker \in [Worker -> WorkerState]
  /\ status \in [Conn -> {"new", "accepted", "closed"}]
  /\ socket \in [Conn -> Seq(Nat)]
  /\ sent \in [Conn -> Nat]
  /\ answers \in [Conn -> Seq([to : Nat, code : Nat, close : BOOLEAN])]

\* A thread has a connection while it serves it, and one at most.
Hands ==
  \A w \in Worker :
    /\ worker[w].conn # {} <=> worker[w].doing \in {"serving", "reading"}
    /\ \A c, d \in worker[w].conn : c = d

\* A connection is a job once or served by one thread, from accept to its end.
OneServer ==
  /\ \A i, j \in DOMAIN jobs : jobs[i] = jobs[j] => i = j
  /\ \A i \in DOMAIN jobs : status[jobs[i]] = "accepted"
  /\ \A i \in DOMAIN jobs : \A w \in Worker : jobs[i] \notin worker[w].conn
  /\ \A w \in Worker : \A c \in worker[w].conn : status[c] = "accepted"
  /\ \A w, v \in Worker : \A c \in worker[w].conn : c \in worker[v].conn => w = v

ServerInv == Types /\ Hands /\ OneServer

\* What a turn of the loop does to the thread and to the connection, whatever it
\* answers: the connection goes on with the same thread or is closed.
LEMMA TurnEnds ==
  ASSUME Types, NEW w \in Worker, NEW c \in Conn, NEW k \in Nat, NEW code \in Nat, NEW told,
         NEW unread, Respond(w, c, k, code, told, unread)
  PROVE  /\ worker' \in [Worker -> WorkerState]
         /\ \A v \in Worker \ {w} : worker'[v] = worker[v]
         /\ \/ worker'[w] = Resting("idle") /\ status' = [status EXCEPT ![c] = "closed"]
            \/ worker'[w] = Serving(c, worker[w].left - 1) /\ status' = status
         /\ IF Writable(c, unread)
            THEN \E close \in BOOLEAN :
                   answers' = [answers EXCEPT ![c] = Append(@, [to |-> k, code |-> code, close |-> close])]
            ELSE answers' = answers
<1>1. worker \in [Worker -> WorkerState] /\ worker[w].left \in Int
  BY DEF Types, WorkerState
<1>2. Resting("idle") \in WorkerState
  BY DEF Resting, WorkerState
<1>3. Serving(c, worker[w].left - 1) \in WorkerState
  BY <1>1 DEF Serving, WorkerState
<1>4. /\ \/ worker' = [worker EXCEPT ![w] = Resting("idle")] /\ status' = [status EXCEPT ![c] = "closed"]
         \/ worker' = [worker EXCEPT ![w] = Serving(c, worker[w].left - 1)] /\ status' = status
  BY DEF Respond, CloseConnection
<1>5. ASSUME Writable(c, unread)
      PROVE  \E close \in BOOLEAN :
                   answers' = [answers EXCEPT ![c] = Append(@, [to |-> k, code |-> code, close |-> close])]
  <2>1. (LastAllowed(w) \/ told = "close") \in BOOLEAN
    BY DEF LastAllowed
  <2>2. QED
    BY <1>5, <2>1 DEF Respond, WriteResponse
<1>6. ~ Writable(c, unread) => answers' = answers
  BY DEF Respond, WriteResponse
<1>7. QED
  BY <1>1, <1>2, <1>3, <1>4, <1>5, <1>6
------------------------------------------------------------------------------
(* Types and who serves whom.                                                 *)

\* Steps of the main thread and of threads without a connection: they touch no
\* connection, and the threads they change have none before and after.
LEMMA PoolStep ==
  ASSUME Types, Hands,
         \/ Bind \/ NotifyOne \/ AcceptFails \/ ShutdownFlag \/ NotifyAll \/ ListenReturns
         \/ \E w \in Worker : Wait(w) \/ SpuriousWakeup(w) \/ End(w)
  PROVE  /\ UNCHANGED <<jobs, status, socket, sent, ended, late, answers>>
         /\ worker' \in [Worker -> WorkerState]
         /\ \A w \in Worker :
              \/ worker'[w] = worker[w]
              \/ /\ worker[w].conn = {} /\ worker'[w].conn = {}
                 /\ worker'[w].doing \notin {"serving", "reading"}
<1> DEFINE Rested(w) == \/ worker'[w] = worker[w]
                        \/ /\ worker[w].conn = {} /\ worker'[w].conn = {}
                           /\ worker'[w].doing \notin {"serving", "reading"}
<1>1. \A doing \in {"idle", "waiting", "ended"} :
        /\ Resting(doing) \in WorkerState /\ Resting(doing).conn = {}
        /\ Resting(doing).doing \notin {"serving", "reading"}
  BY DEF Resting, WorkerState
<1>2. UNCHANGED <<jobs, status, socket, sent, ended, late, answers>>
  BY DEF Bind, NotifyOne, AcceptFails, ShutdownFlag, NotifyAll, ListenReturns, Wait,
         SpuriousWakeup, End, pool, clients
<1>3. CASE Bind \/ AcceptFails \/ ShutdownFlag \/ ListenReturns \/ (NotifyOne /\ worker' = worker)
  <2>1. worker' = worker
    BY <1>3 DEF Bind, AcceptFails, ShutdownFlag, ListenReturns
  <2>2. QED
    BY <1>2, <2>1 DEF Types
<1>4. ASSUME NEW w \in Worker, NEW doing \in {"idle", "waiting", "ended"},
             worker[w].doing \notin {"serving", "reading"},
             worker' = [worker EXCEPT ![w] = Resting(doing)]
      PROVE  worker' \in [Worker -> WorkerState] /\ \A v \in Worker : Rested(v)
  BY <1>1, <1>4 DEF Types, Hands
<1>5. CASE NotifyOne /\ worker' # worker
  <2>1. PICK w \in Worker : worker[w].doing = "waiting" /\ worker' = [worker EXCEPT ![w] = Resting("idle")]
    BY <1>5 DEF NotifyOne, Sleepers
  <2>2. QED
    BY <1>2, <1>4, <2>1
<1>6. CASE NotifyAll
  <2>1. worker' = [w \in Worker |-> IF w \in Sleepers THEN Resting("idle") ELSE worker[w]]
    BY <1>6 DEF NotifyAll
  <2>2. \A w \in Sleepers : worker[w].conn = {}
    BY DEF Sleepers, Hands
  <2>3. worker' \in [Worker -> WorkerState]
    BY <1>1, <2>1 DEF Types
  <2>4. \A v \in Worker : Rested(v)
    BY <1>1, <2>1, <2>2
  <2>5. QED
    BY <1>2, <2>3, <2>4
<1>7. ASSUME NEW w \in Worker, Wait(w) \/ SpuriousWakeup(w) \/ End(w)
      PROVE  worker' \in [Worker -> WorkerState] /\ \A v \in Worker : Rested(v)
  <2>1. CASE Wait(w)
    BY <1>4, <2>1 DEF Wait
  <2>2. CASE SpuriousWakeup(w)
    BY <1>4, <2>2 DEF SpuriousWakeup, Sleepers
  <2>3. CASE End(w)
    BY <1>4, <2>3 DEF End
  <2>4. QED
    BY <1>7, <2>1, <2>2, <2>3
<1>8. QED
  BY <1>2, <1>3, <1>5, <1>6, <1>7

\* Threads that keep their connection or give it up, with it closed, keep to the
\* rule that one serves it.
LEMMA OwnersKeep ==
  ASSUME ServerInv, jobs' = jobs,
         \A w \in Worker : worker'[w].conn \subseteq worker[w].conn,
         \/ status' = status
         \/ \E w \in Worker : \E c \in Conn :
              /\ worker[w].conn = {c} /\ worker'[w].conn = {}
              /\ status' = [status EXCEPT ![c] = "closed"]
  PROVE  OneServer'
<1>1. CASE status' = status
  BY <1>1 DEF ServerInv, OneServer
<1>2. ASSUME NEW w \in Worker, NEW c \in Conn, worker[w].conn = {c}, worker'[w].conn = {},
             status' = [status EXCEPT ![c] = "closed"]
      PROVE  OneServer'
  <2>1. \A d \in Conn \ {c} : status'[d] = status[d]
    BY <1>2 DEF ServerInv, Types
  <2>2. ASSUME NEW i \in DOMAIN jobs PROVE jobs[i] \in Conn \ {c}
    <3>1. jobs[i] \in Conn
      BY DEF ServerInv, Types
    <3>2. jobs[i] \notin worker[w].conn
      BY DEF ServerInv, OneServer
    <3>3. QED
      BY <1>2, <3>1, <3>2
  <2>3. \A v \in Worker : \A d \in worker'[v].conn : d \in Conn \ {c}
    BY <1>2 DEF ServerInv, Types, WorkerState, OneServer
  <2>4. QED
    BY <2>1, <2>2, <2>3 DEF ServerInv, OneServer
<1>3. QED
  BY <1>1, <1>2

\* After a turn of the loop.
LEMMA TurnOwns ==
  ASSUME ServerInv, jobs' = jobs, NEW w \in Worker, NEW c \in Conn, worker[w].conn = {c},
         worker' \in [Worker -> WorkerState],
         \A v \in Worker \ {w} : worker'[v] = worker[v],
         \/ worker'[w] = Resting("idle") /\ status' = [status EXCEPT ![c] = "closed"]
         \/ \E left \in Int : worker'[w] = Serving(c, left) /\ status' = status
  PROVE  Hands' /\ OneServer'
<1>1. \/ /\ worker'[w].doing = "idle" /\ worker'[w].conn = {}
         /\ status' = [status EXCEPT ![c] = "closed"]
      \/ worker'[w].doing = "serving" /\ worker'[w].conn = {c} /\ status' = status
  BY DEF Resting, Serving
<1>2. Hands'
  BY <1>1 DEF ServerInv, Hands
<1>3. \A v \in Worker : worker'[v].conn \subseteq worker[v].conn
  BY <1>1
<1>4. OneServer'
  BY <1>1, <1>3, OwnersKeep
<1>5. QED
  BY <1>2, <1>4
------------------------------------------------------------------------------
(* What a thread does with its connection, in the terms the invariants need.  *)

\* A turn of the loop ends with the answer to k: see TurnEnds.
Turn(w, c, k, unread) ==
  /\ worker' \in [Worker -> WorkerState]
  /\ \A v \in Worker \ {w} : worker'[v] = worker[v]
  /\ \/ worker'[w] = Resting("idle") /\ status' = [status EXCEPT ![c] = "closed"]
     \/ worker'[w] = Serving(c, worker[w].left - 1) /\ status' = status
  /\ IF Writable(c, unread)
     THEN \E code \in Nat, close \in BOOLEAN :
            answers' = [answers EXCEPT ![c] = Append(@, [to |-> k, code |-> code, close |-> close])]
     ELSE answers' = answers

Reader(c, w, n) == Reading(c, worker[w].left, Tail(socket[c]), RequestOf(n))

LineRead(w, c) ==
  /\ worker[w].doing = "serving" /\ socket[c] # <<>> /\ ReadAll(c) /\ late' = late
  /\ \/ /\ ReadsOn(c, Head(socket[c]))
        /\ worker' = [worker EXCEPT ![w] = Reader(c, w, Head(socket[c]))]
        /\ UNCHANGED <<status, answers>>
     \/ /\ ~ ReadsOn(c, Head(socket[c]))
        /\ Turn(w, c, RequestOf(Head(socket[c])), <<>>)

Quit(w, c) ==
  /\ worker[w].doing = "serving" /\ UNCHANGED <<socket, late, answers>>
  /\ worker' = [worker EXCEPT ![w] = Resting("idle")]
  /\ status' = [status EXCEPT ![c] = "closed"]

Handled(w, c) ==
  /\ worker[w].doing = "reading" /\ late' = late
  /\ \/ worker[w].buffer # <<>> /\ socket' = socket /\ Turn(w, c, worker[w].line, socket[c])
     \/ worker[w].buffer = <<>> /\ socket[c] # <<>> /\ ReadAll(c) /\ Turn(w, c, worker[w].line, <<>>)

GivenUp(w, c) ==
  /\ worker[w].doing = "reading" /\ late' = late \cup {c}
  /\ socket' = socket /\ Turn(w, c, worker[w].line, <<>>)

LEMMA TurnOf ==
  ASSUME Types, NEW w \in Worker, NEW c \in Conn, NEW k \in Nat, NEW code \in Nat, NEW told,
         NEW unread, Respond(w, c, k, code, told, unread)
  PROVE  Turn(w, c, k, unread)
BY TurnEnds DEF Turn

\* A request that is answered 400.
LEMMA RefusalTurn ==
  ASSUME Types, NEW w \in Worker, NEW c \in Conn, NEW k \in Nat,
         Respond(w, c, k, 400, "unread", <<>>)
  PROVE  Turn(w, c, k, <<>>)
<1> DEFINE told == "unread"
           unread == <<>>
           code == 400
<1>1. Respond(w, c, k, code, told, unread) /\ code \in Nat
  OBVIOUS
<1> HIDE DEF told, unread, code
<1>2. Turn(w, c, k, unread)
  BY <1>1, TurnOf
<1>3. QED
  BY <1>2 DEF unread

LEMMA RequestOfNat ==
  ASSUME NEW n \in Nat
  PROVE  RequestOf(n) \in Nat
BY DEF RequestOf

LEMMA ServeStep ==
  ASSUME Types, Hands, NEW w \in Worker, NEW c \in worker[w].conn,
         ReadLine(w, c) \/ NothingMore(w, c) \/ HandleRequest(w, c) \/ HeadersMissing(w, c)
  PROVE  /\ c \in Conn /\ worker[w].conn = {c} /\ UNCHANGED <<jobs, sent, ended>>
         /\ LineRead(w, c) \/ Quit(w, c) \/ Handled(w, c) \/ GivenUp(w, c)
<1>1. c \in Conn /\ worker[w] \in WorkerState /\ worker[w].line \in Nat
  BY DEF Types, WorkerState
<1>2. worker[w].conn = {c} /\ UNCHANGED <<jobs, sent, ended>>
  BY DEF ReadLine, NothingMore, HandleRequest, HeadersMissing, pool, clients
<1>3. CASE ReadLine(w, c)
  <2> DEFINE n == Head(socket[c])
  <2>1. /\ worker[w].doing = "serving" /\ socket[c] # <<>> /\ ReadAll(c) /\ late' = late
        /\ IF ReadsOn(c, n)
           THEN /\ worker' = [worker EXCEPT ![w] = Reader(c, w, n)]
                /\ UNCHANGED <<status, answers>>
           ELSE Respond(w, c, RequestOf(n), 400, "unread", <<>>)
    BY <1>3 DEF ReadLine, GetLine, Reader
  <2>2. n \in Nat
    BY <1>1, <2>1 DEF Types
  <2> HIDE DEF n
  <2>3. ASSUME ~ ReadsOn(c, n)
        PROVE  Turn(w, c, RequestOf(n), <<>>)
    BY <1>1, <2>1, <2>2, <2>3, RefusalTurn, RequestOfNat
  <2>4. QED
    BY <1>1, <1>2, <2>1, <2>3 DEF LineRead, n
<1>4. CASE NothingMore(w, c)
  <2>1. Quit(w, c)
    BY <1>4 DEF NothingMore, CloseConnection, Quit
  <2>2. QED
    BY <1>1, <1>2, <2>1
<1>5. CASE HandleRequest(w, c)
  <2> DEFINE r == Requests[c][worker[w].line]
  <2>1. /\ worker[w].doing = "reading" /\ late' = late
        /\ \/ /\ worker[w].buffer # <<>> /\ socket' = socket
              /\ Respond(w, c, worker[w].line, Code(r), r.connection, socket[c])
           \/ /\ worker[w].buffer = <<>> /\ socket[c] # <<>> /\ ReadAll(c)
              /\ Respond(w, c, worker[w].line, Code(r), r.connection, <<>>)
    BY <1>5 DEF HandleRequest
  <2>2. Code(r) \in Nat
    BY DEF Code
  <2> HIDE DEF r
  <2>3. \A unread : Respond(w, c, worker[w].line, Code(r), r.connection, unread)
                    => Turn(w, c, worker[w].line, unread)
    BY <1>1, <2>2, TurnOf
  <2>4. Handled(w, c)
    BY <2>1, <2>3 DEF Handled
  <2>5. QED
    BY <1>1, <1>2, <2>4
<1>6. CASE HeadersMissing(w, c)
  <2>1. /\ worker[w].doing = "reading" /\ late' = late \cup {c} /\ socket' = socket
        /\ Respond(w, c, worker[w].line, 400, "unread", <<>>)
    BY <1>6 DEF HeadersMissing
  <2>2. Turn(w, c, worker[w].line, <<>>)
    BY <1>1, <2>1, RefusalTurn
  <2>3. GivenUp(w, c)
    BY <2>1, <2>2 DEF GivenUp
  <2>4. QED
    BY <1>1, <1>2, <2>3
<1>7. QED
  BY <1>3, <1>4, <1>5, <1>6

LEMMA TurnTypes ==
  ASSUME Types, Hands, NEW w \in Worker, NEW c \in Conn, NEW k \in Nat, NEW unread, Turn(w, c, k, unread),
         socket' = socket \/ ReadAll(c), jobs' = jobs, sent' = sent
  PROVE  Types'
<1>1. worker' \in [Worker -> WorkerState]
  BY DEF Turn
<1>2. status' \in [Conn -> {"new", "accepted", "closed"}]
  BY DEF Turn, Types
<1>3. socket' \in [Conn -> Seq(Nat)]
  <2>1. <<>> \in Seq(Nat) /\ socket \in [Conn -> Seq(Nat)]
    BY DEF Types
  <2>2. CASE ReadAll(c)
    BY <2>1, <2>2 DEF ReadAll
  <2>3. QED
    BY <2>1, <2>2
<1>4. answers' \in [Conn -> Seq([to : Nat, code : Nat, close : BOOLEAN])]
  <2> DEFINE A == [to : Nat, code : Nat, close : BOOLEAN]
  <2>1. answers \in [Conn -> Seq(A)]
    BY DEF Types
  <2>2. ASSUME NEW a \in A, answers' = [answers EXCEPT ![c] = Append(@, a)]
        PROVE  answers' \in [Conn -> Seq(A)]
    <3> HIDE DEF A
    <3>1. Append(answers[c], a) \in Seq(A)
      BY <2>1
    <3>2. QED
      BY <2>1, <2>2, <3>1
  <2>3. \A code \in Nat, close \in BOOLEAN : [to |-> k, code |-> code, close |-> close] \in A
    OBVIOUS
  <2>4. QED
    BY <2>1, <2>2, <2>3 DEF Turn
<1>5. QED
  BY <1>1, <1>2, <1>3, <1>4 DEF Types

LEMMA ServeKeepsInv ==
  ASSUME ServerInv, NEW w \in Worker, NEW c \in Conn, worker[w].conn = {c},
         UNCHANGED <<jobs, sent, ended>>,
         LineRead(w, c) \/ Quit(w, c) \/ Handled(w, c) \/ GivenUp(w, c)
  PROVE  ServerInv'
<1>1. Types /\ Hands /\ worker[w] \in WorkerState /\ worker[w].line \in Nat /\ worker[w].left \in Int
  BY DEF ServerInv, Types, WorkerState
<1>2. Resting("idle") \in WorkerState
  BY DEF Resting, WorkerState
<1>3. ASSUME NEW k \in Nat, NEW unread, Turn(w, c, k, unread), socket' = socket \/ ReadAll(c)
      PROVE  ServerInv'
  <2>1. Types'
    BY <1>1, <1>3, TurnTypes
  <2>2. /\ worker' \in [Worker -> WorkerState]
        /\ \A v \in Worker \ {w} : worker'[v] = worker[v]
        /\ \/ worker'[w] = Resting("idle") /\ status' = [status EXCEPT ![c] = "closed"]
           \/ \E left \in Int : worker'[w] = Serving(c, left) /\ status' = status
    BY <1>1, <1>3 DEF Turn
  <2>3. Hands' /\ OneServer'
    BY <2>2, TurnOwns
  <2>4. QED
    BY <2>1, <2>3 DEF ServerInv
<1>4. CASE Quit(w, c)
  <2>1. /\ worker' \in [Worker -> WorkerState]
        /\ \A v \in Worker \ {w} : worker'[v] = worker[v]
        /\ worker'[w] = Resting("idle") /\ status' = [status EXCEPT ![c] = "closed"]
    BY <1>1, <1>2, <1>4 DEF Quit, Types
  <2>2. Hands' /\ OneServer'
    BY <2>1, TurnOwns
  <2>3. Types'
    BY <1>1, <1>4, <2>1 DEF Types, Quit
  <2>4. QED
    BY <2>2, <2>3 DEF ServerInv
<1>5. ASSUME LineRead(w, c), ReadsOn(c, Head(socket[c]))
      PROVE  ServerInv'
  <2> DEFINE n == Head(socket[c])
  <2>1. n \in Nat /\ Tail(socket[c]) \in Seq(Nat)
    BY <1>1, <1>5 DEF LineRead, Types
  <2>2. RequestOf(n) \in Nat
    BY <2>1, RequestOfNat
  <2>3. Reader(c, w, n) \in WorkerState /\ Reader(c, w, n).conn = {c} /\ Reader(c, w, n).doing = "reading"
    BY <1>1, <2>1, <2>2 DEF Reader, Reading, WorkerState
  <2>4. worker' = [worker EXCEPT ![w] = Reader(c, w, n)] /\ UNCHANGED <<status, answers>>
    BY <1>5 DEF LineRead
  <2> HIDE DEF n
  <2>5. /\ worker' \in [Worker -> WorkerState]
        /\ \A v \in Worker : worker'[v].conn = worker[v].conn
        /\ \A v \in Worker \ {w} : worker'[v] = worker[v]
        /\ worker'[w].doing = "reading"
    BY <1>1, <2>3, <2>4 DEF Types
  <2>6. Hands'
    BY <1>1, <2>5 DEF Hands
  <2>7. OneServer'
    BY <2>4, <2>5, OwnersKeep
  <2>8. Types'
    BY <1>1, <1>5, <2>4, <2>5 DEF Types, LineRead, ReadAll
  <2>9. QED
    BY <2>6, <2>7, <2>8 DEF ServerInv
<1>6. ASSUME LineRead(w, c), ~ ReadsOn(c, Head(socket[c]))
      PROVE  ServerInv'
  <2>1. Head(socket[c]) \in Nat
    BY <1>1, <1>6 DEF LineRead, Types
  <2>2. QED
    BY <1>3, <1>6, <2>1, RequestOfNat DEF LineRead
<1>7. CASE Handled(w, c) \/ GivenUp(w, c)
  BY <1>1, <1>3, <1>7 DEF Handled, GivenUp
<1>8. QED
  BY <1>4, <1>5, <1>6, <1>7

LEMMA PoolKeepsInv ==
  ASSUME ServerInv,
         \/ Bind \/ NotifyOne \/ AcceptFails \/ ShutdownFlag \/ NotifyAll \/ ListenReturns
         \/ \E w \in Worker : Wait(w) \/ SpuriousWakeup(w) \/ End(w)
  PROVE  ServerInv'
<1>1. Types /\ Hands
  BY DEF ServerInv
<1>2. /\ UNCHANGED <<jobs, status, socket, sent, ended, late, answers>>
      /\ worker' \in [Worker -> WorkerState]
      /\ \A w \in Worker :
           \/ worker'[w] = worker[w]
           \/ /\ worker[w].conn = {} /\ worker'[w].conn = {}
              /\ worker'[w].doing \notin {"serving", "reading"}
  BY <1>1, PoolStep
<1>3. Types'
  BY <1>1, <1>2 DEF Types
<1>4. Hands'
  BY <1>1, <1>2 DEF Hands
<1>5. OneServer'
  <2>1. \A w \in Worker : worker'[w].conn \subseteq worker[w].conn
    BY <1>2
  <2>2. QED
    BY <1>2, <2>1, OwnersKeep
<1>6. QED
  BY <1>3, <1>4, <1>5 DEF ServerInv

LEMMA ClientKeepsInv ==
  ASSUME ServerInv, NEW c \in Conn, Send(c) \/ HangUp(c)
  PROVE  ServerInv'
<1>1. Types /\ UNCHANGED <<jobs, worker, status, answers>>
  BY DEF ServerInv, Send, HangUp, pool
<1>2. sent' \in [Conn -> Nat] /\ socket' \in [Conn -> Seq(Nat)]
  <2>1. CASE Send(c)
    <3>1. sent[c] + 1 \in Nat
      BY <1>1 DEF Types
    <3>2. Append(socket[c], sent[c] + 1) \in Seq(Nat)
      BY <1>1, <3>1 DEF Types
    <3>3. QED
      BY <1>1, <2>1, <3>1, <3>2 DEF Send, Types
  <2>2. CASE HangUp(c)
    BY <1>1, <2>2 DEF HangUp, Types
  <2>3. QED
    BY <2>1, <2>2
<1>3. QED
  BY <1>1, <1>2 DEF ServerInv, Types, Hands, OneServer

LEMMA AcceptKeepsInv ==
  ASSUME ServerInv, NEW c \in Conn, Accept(c)
  PROVE  ServerInv'
<1>1. Types /\ Hands /\ OneServer /\ jobs \in Seq(Conn)
  BY DEF ServerInv, Types
<1>2. /\ UNCHANGED <<worker, socket, sent, answers>>
      /\ status[c] = "new" /\ status' = [status EXCEPT ![c] = "accepted"]
      /\ jobs' = Append(jobs, c)
  BY DEF Accept, clients
<1>3. /\ jobs' \in Seq(Conn) /\ DOMAIN jobs' = 1..(Len(jobs) + 1) /\ DOMAIN jobs = 1..Len(jobs)
      /\ jobs'[Len(jobs) + 1] = c /\ \A i \in DOMAIN jobs : jobs'[i] = jobs[i]
      /\ Len(jobs) \in Nat
  BY <1>1, <1>2
<1>4. Types'
  BY <1>1, <1>2, <1>3 DEF Types
<1>5. Hands'
  BY <1>1, <1>2 DEF Hands
<1>6. \A d \in Conn : status'[d] = IF d = c THEN "accepted" ELSE status[d]
  BY <1>1, <1>2 DEF Types
<1>7. ASSUME NEW i \in DOMAIN jobs'
      PROVE  i \in DOMAIN jobs \/ (i = Len(jobs) + 1 /\ jobs'[i] = c)
  BY <1>3
<1>8. ASSUME NEW i \in DOMAIN jobs PROVE jobs[i] \in Conn /\ jobs[i] # c /\ status[jobs[i]] = "accepted"
  BY <1>1, <1>2 DEF OneServer
<1>9. ASSUME NEW w \in Worker, NEW d \in worker[w].conn PROVE d \in Conn /\ d # c
  BY <1>1, <1>2 DEF OneServer, Types, WorkerState
<1>10. OneServer'
  <2>1. ASSUME NEW i \in DOMAIN jobs', NEW j \in DOMAIN jobs', jobs'[i] = jobs'[j] PROVE i = j
    BY <1>1, <1>3, <1>7, <1>8, <2>1 DEF OneServer
  <2>2. ASSUME NEW i \in DOMAIN jobs' PROVE status'[jobs'[i]] = "accepted"
    BY <1>3, <1>6, <1>7, <1>8
  <2>3. ASSUME NEW i \in DOMAIN jobs', NEW w \in Worker PROVE jobs'[i] \notin worker'[w].conn
    BY <1>1, <1>2, <1>3, <1>7, <1>9 DEF OneServer
  <2>4. \A w \in Worker : \A d \in worker'[w].conn : status'[d] = "accepted"
    BY <1>1, <1>2, <1>6, <1>9 DEF OneServer
  <2>5. \A w, v \in Worker : \A d \in worker'[w].conn : d \in worker'[v].conn => w = v
    BY <1>1, <1>2 DEF OneServer
  <2>6. QED
    BY <2>1, <2>2, <2>3, <2>4, <2>5 DEF OneServer
<1>11. QED
  BY <1>4, <1>5, <1>10 DEF ServerInv

LEMMA TakeJobKeepsInv ==
  ASSUME ServerInv, NEW w \in Worker, TakeJob(w)
  PROVE  /\ ServerInv'
         /\ UNCHANGED <<status, socket, sent, ended, late, answers>>
         /\ \A v \in Worker \ {w} : worker'[v] = worker[v]
         /\ worker[w].conn = {} /\ worker'[w].doing = "serving"
         /\ Head(jobs) \in Conn /\ worker'[w].conn = {Head(jobs)}
         /\ status[Head(jobs)] = "accepted"
         /\ \A v \in Worker : Head(jobs) \notin worker[v].conn
<1> DEFINE c == Head(jobs)
<1>1. Types /\ Hands /\ OneServer /\ jobs \in Seq(Conn) /\ KeepAliveMax \in Int /\ jobs # <<>>
  BY HttpAssumption DEF ServerInv, Types, TakeJob
<1>2. /\ UNCHANGED <<status, socket, sent, ended, late, answers>>
      /\ worker[w].doing = "idle"
      /\ worker' = [worker EXCEPT ![w] = Serving(c, KeepAliveMax)]
      /\ jobs' = Tail(jobs)
  BY DEF TakeJob, clients
<1>3. /\ c \in Conn /\ c = jobs[1] /\ 1 \in DOMAIN jobs
      /\ Tail(jobs) \in Seq(Conn)
      /\ \A i \in DOMAIN Tail(jobs) : i + 1 \in DOMAIN jobs /\ i \in Nat /\ i # 0 /\ Tail(jobs)[i] = jobs[i + 1]
  BY <1>1
<1> HIDE DEF c
<1>4. Serving(c, KeepAliveMax) \in WorkerState /\ Serving(c, KeepAliveMax).conn = {c}
      /\ Serving(c, KeepAliveMax).doing = "serving"
  BY <1>1, <1>3 DEF Serving, WorkerState
<1>5. /\ worker' \in [Worker -> WorkerState] /\ \A v \in Worker \ {w} : worker'[v] = worker[v]
      /\ worker'[w].conn = {c} /\ worker'[w].doing = "serving"
  BY <1>1, <1>2, <1>4 DEF Types
<1>6. Types'
  BY <1>1, <1>2, <1>3, <1>5 DEF Types
<1>7. Hands'
  BY <1>1, <1>5 DEF Hands
<1>8. /\ status[c] = "accepted" /\ \A v \in Worker : c \notin worker[v].conn
      /\ worker[w].conn = {}
  BY <1>1, <1>2, <1>3 DEF OneServer, Hands
<1>9. ASSUME NEW i \in DOMAIN jobs' PROVE i + 1 \in DOMAIN jobs /\ jobs'[i] = jobs[i + 1] /\ jobs'[i] # c
  <2>1. i + 1 \in DOMAIN jobs /\ jobs'[i] = jobs[i + 1] /\ i + 1 # 1
    BY <1>2, <1>3
  <2>2. QED
    BY <1>1, <1>3, <2>1 DEF OneServer
<1>10. OneServer'
  <2>1. ASSUME NEW i \in DOMAIN jobs', NEW j \in DOMAIN jobs', jobs'[i] = jobs'[j] PROVE i = j
    <3>1. i + 1 = j + 1
      BY <1>1, <1>9, <2>1 DEF OneServer
    <3>2. i \in Nat /\ j \in Nat
      BY <1>2, <1>3
    <3>3. QED
      BY <3>1, <3>2
  <2>2. ASSUME NEW i \in DOMAIN jobs' PROVE status'[jobs'[i]] = "accepted"
    BY <1>1, <1>2, <1>9 DEF OneServer
  <2>3. ASSUME NEW i \in DOMAIN jobs', NEW v \in Worker PROVE jobs'[i] \notin worker'[v].conn
    BY <1>1, <1>5, <1>9 DEF OneServer
  <2>4. \A v \in Worker : \A d \in worker'[v].conn : status'[d] = "accepted"
    BY <1>1, <1>2, <1>5, <1>8 DEF OneServer
  <2>5. \A u, v \in Worker : \A d \in worker'[u].conn : d \in worker'[v].conn => u = v
    BY <1>1, <1>5, <1>8 DEF OneServer
  <2>6. QED
    BY <2>1, <2>2, <2>3, <2>4, <2>5 DEF OneServer
<1>11. QED
  BY <1>2, <1>3, <1>5, <1>6, <1>7, <1>8, <1>10 DEF ServerInv, c
------------------------------------------------------------------------------
(* Enough threads are awake.                                                  *)

IdleWorkers == {w \in Worker : worker[w].doing = "idle"}

LEMMA IdleFinite == IsFiniteSet(IdleWorkers) /\ Cardinality(IdleWorkers) \in Nat
BY HttpAssumption, FS_Subset, FS_CardinalityType DEF IdleWorkers

\* A step that takes threads out of the idle ones and adds others.
LEMMA OneMoreIdle ==
  ASSUME NEW w \in Worker, IdleWorkers' = IdleWorkers \cup {w}, w \notin IdleWorkers
  PROVE  Cardinality(IdleWorkers') = Cardinality(IdleWorkers) + 1
BY IdleFinite, FS_AddElement

LEMMA OneLessIdle ==
  ASSUME NEW w \in Worker, IdleWorkers' = IdleWorkers \ {w}, w \in IdleWorkers
  PROVE  Cardinality(IdleWorkers') = Cardinality(IdleWorkers) - 1
BY IdleFinite, FS_RemoveElement

\* The account that JobsHaveWorkers keeps.
Awake == Cardinality(IdleWorkers) + (IF acceptor = "notifying" THEN 1 ELSE 0)

LEMMA AwakeNat == Awake \in Nat /\ (JobsHaveWorkers <=> Sleepers = {} \/ Len(jobs) <= Awake)
BY IdleFinite DEF Awake, JobsHaveWorkers, IdleWorkers

\* A thread that gets another state: who sleeps and who is idle afterwards.
LEMMA SetsAfter ==
  ASSUME Types, NEW w \in Worker, NEW doing, worker'[w].doing = doing,
         \A v \in Worker \ {w} : worker'[v] = worker[v]
  PROVE  /\ IdleWorkers' = IF doing = "idle" THEN IdleWorkers \cup {w} ELSE IdleWorkers \ {w}
         /\ Sleepers' = IF doing = "waiting" THEN Sleepers \cup {w} ELSE Sleepers \ {w}
BY DEF IdleWorkers, Sleepers

LEMMA AwakeKept ==
  ASSUME ServerInv, JobsHaveWorkers, [Next]_vars
  PROVE  JobsHaveWorkers'
<1>1. Types /\ Hands /\ Len(jobs) \in Nat /\ jobs \in Seq(Conn)
  BY DEF ServerInv, Types
<1>2. /\ Cardinality(IdleWorkers) \in Nat /\ IsFiniteSet(IdleWorkers)
      /\ Sleepers = {} \/ Len(jobs) <= Cardinality(IdleWorkers) + (IF acceptor = "notifying" THEN 1 ELSE 0)
  BY IdleFinite, AwakeNat DEF Awake
<1> DEFINE Goal == Sleepers' = {} \/ Len(jobs') <= Cardinality(IdleWorkers')
                                                  + (IF acceptor' = "notifying" THEN 1 ELSE 0)
<1>3. SUFFICES Goal
  BY DEF JobsHaveWorkers, IdleWorkers
<1>4. ASSUME worker' = worker, jobs' = jobs, acceptor' = acceptor \/ acceptor # "notifying"
      PROVE  Goal
  <2>1. IdleWorkers' = IdleWorkers /\ Sleepers' = Sleepers
    BY <1>4 DEF IdleWorkers, Sleepers
  <2>2. QED
    BY <1>1, <1>2, <1>4, <2>1
\* One more job, and its notification is to come.
<1>5. ASSUME NEW c \in Conn, Accept(c) PROVE Goal
  <2>1. /\ acceptor # "notifying" /\ acceptor' = "notifying"
        /\ Len(jobs') = Len(jobs) + 1 /\ worker' = worker
    BY <1>1, <1>5 DEF Accept
  <2>2. IdleWorkers' = IdleWorkers /\ Sleepers' = Sleepers
    BY <2>1 DEF IdleWorkers, Sleepers
  <2>3. QED
    BY <1>1, <1>2, <2>1, <2>2
\* The notification makes a sleeper idle, or finds none asleep.
<1>6. CASE NotifyOne
  <2>1. acceptor = "notifying" /\ acceptor' = "listening" /\ jobs' = jobs
    BY <1>6 DEF NotifyOne
  <2>2. CASE Sleepers = {} /\ worker' = worker
    BY <2>2 DEF Sleepers
  <2>3. ASSUME NEW w \in Sleepers, worker' = [worker EXCEPT ![w] = Resting("idle")] PROVE Goal
    <3>1. w \in Worker /\ w \notin IdleWorkers /\ worker[w].doing = "waiting"
      BY DEF Sleepers, IdleWorkers
    <3>2. worker'[w].doing = "idle" /\ \A v \in Worker \ {w} : worker'[v] = worker[v]
      BY <1>1, <2>3, <3>1 DEF Types, Resting
    <3>3. IdleWorkers' = IdleWorkers \cup {w}
      BY <1>1, <3>1, <3>2, SetsAfter
    <3>4. Cardinality(IdleWorkers') = Cardinality(IdleWorkers) + 1
      BY <3>1, <3>3, OneMoreIdle
    <3>5. QED
      BY <1>1, <1>2, <2>1, <3>4
  <2>4. QED
    BY <1>6, <2>2, <2>3 DEF NotifyOne
<1>7. CASE NotifyAll
  <2>1. worker' = [w \in Worker |-> IF w \in Sleepers THEN Resting("idle") ELSE worker[w]]
    BY <1>7 DEF NotifyAll
  <2>2. Sleepers' = {}
    BY <2>1 DEF Sleepers, Resting
  <2>3. QED
    BY <2>2
\* Who goes to sleep found no job.
<1>8. ASSUME NEW w \in Worker, Wait(w) PROVE Goal
  <2>1. Len(jobs') = 0
    BY <1>8 DEF Wait, pool
  <2>2. Cardinality(IdleWorkers') \in Nat
    BY HttpAssumption, FS_Subset, FS_CardinalityType DEF IdleWorkers
  <2>3. QED
    BY <2>1, <2>2
<1>9. ASSUME NEW w \in Worker, SpuriousWakeup(w) PROVE Goal
  <2>1. w \notin IdleWorkers /\ jobs' = jobs /\ acceptor' = acceptor /\ w \in Sleepers
    BY <1>9 DEF SpuriousWakeup, Sleepers, IdleWorkers, pool
  <2>2. worker'[w].doing = "idle" /\ \A v \in Worker \ {w} : worker'[v] = worker[v]
    BY <1>1, <1>9 DEF SpuriousWakeup, Types, Resting
  <2>3. IdleWorkers' = IdleWorkers \cup {w}
    BY <1>1, <2>2, SetsAfter
  <2>4. Cardinality(IdleWorkers') = Cardinality(IdleWorkers) + 1
    BY <2>1, <2>3, OneMoreIdle
  <2>5. QED
    BY <1>1, <1>2, <2>1, <2>4
\* An idle thread less, but a job less too.
<1>10. ASSUME NEW w \in Worker, TakeJob(w) PROVE Goal
  <2>1. Len(jobs') = Len(jobs) - 1 /\ acceptor' = acceptor /\ w \in IdleWorkers
    BY <1>1, <1>10 DEF TakeJob, IdleWorkers
  <2>2. worker'[w].doing = "serving" /\ \A v \in Worker \ {w} : worker'[v] = worker[v]
    BY <1>10, TakeJobKeepsInv
  <2>3. IdleWorkers' = IdleWorkers \ {w} /\ Sleepers' = Sleepers \ {w}
    BY <1>1, <2>2, SetsAfter
  <2>4. Cardinality(IdleWorkers') = Cardinality(IdleWorkers) - 1
    BY <2>1, <2>3, OneLessIdle
  <2>5. QED
    BY <1>1, <1>2, <2>1, <2>3, <2>4
\* A thread ends only with no job left.
<1>11. ASSUME NEW w \in Worker, End(w) PROVE Goal
  <2>1. Len(jobs') = 0
    BY <1>11 DEF End, MayEnd, pool
  <2>2. Cardinality(IdleWorkers') \in Nat
    BY HttpAssumption, FS_Subset, FS_CardinalityType DEF IdleWorkers
  <2>3. QED
    BY <2>1, <2>2
\* A thread that serves goes on or becomes idle.
<1>12. ASSUME NEW w \in Worker, NEW c \in worker[w].conn,
              ReadLine(w, c) \/ NothingMore(w, c) \/ HandleRequest(w, c) \/ HeadersMissing(w, c)
       PROVE  Goal
  <2>1. UNCHANGED <<jobs, acceptor>>
    BY <1>12 DEF ReadLine, NothingMore, HandleRequest, HeadersMissing, pool
  <2>2. /\ c \in Conn
        /\ LineRead(w, c) \/ Quit(w, c) \/ Handled(w, c) \/ GivenUp(w, c)
    BY <1>1, <1>12, ServeStep
  <2>3. worker[w].doing \in {"serving", "reading"}
    BY <2>2 DEF LineRead, Quit, Handled, GivenUp
  <2>4. /\ \A v \in Worker \ {w} : worker'[v] = worker[v]
        /\ worker'[w].doing \in {"idle", "serving", "reading"}
    BY <1>1, <2>2 DEF LineRead, Quit, Handled, GivenUp, Turn, Resting, Serving, Reader, Reading, Types
  <2>5. CASE worker'[w].doing = "idle"
    <3>1. IdleWorkers' = IdleWorkers \cup {w} /\ Sleepers' = Sleepers \ {w} /\ w \notin IdleWorkers
      BY <1>1, <2>3, <2>4, <2>5, SetsAfter DEF IdleWorkers
    <3>2. Cardinality(IdleWorkers') = Cardinality(IdleWorkers) + 1
      BY <3>1, OneMoreIdle
    <3>3. QED
      BY <1>1, <1>2, <2>1, <3>1, <3>2
  <2>6. CASE worker'[w].doing # "idle"
    <3>1. IdleWorkers' = IdleWorkers /\ Sleepers' = Sleepers
      BY <2>3, <2>4, <2>6 DEF IdleWorkers, Sleepers
    <3>2. QED
      BY <1>1, <1>2, <2>1, <3>1
  <2>7. QED
    BY <2>5, <2>6
<1>13. ASSUME \/ \E c \in Conn : Send(c) \/ HangUp(c)
              \/ Bind \/ AcceptFails \/ ShutdownFlag \/ ListenReturns
              \/ UNCHANGED vars
       PROVE  Goal
  <2>1. worker' = worker /\ jobs' = jobs /\ (acceptor' = acceptor \/ acceptor # "notifying")
    BY <1>13 DEF Send, HangUp, Bind, AcceptFails, ShutdownFlag, ListenReturns, vars, pool
  <2>2. QED
    BY <1>4, <2>1
<1>14. QED
  BY <1>5, <1>6, <1>7, <1>8, <1>9, <1>10, <1>11, <1>12, <1>13 DEF Next, Serve
------------------------------------------------------------------------------
(* A client in step.                                                          *)

\* Between two requests: what has arrived is the next request as far as it has
\* been sent; or the client has closed its side before it got its answer, and
\* nothing will come any more.
Fits(c) ==
  /\ sent[c] \in 2 * Len(answers[c]) .. 2 * Len(answers[c]) + 2
  /\ Len(socket[c]) = sent[c] - 2 * Len(answers[c])
  /\ \A k \in DOMAIN socket[c] : socket[c][k] = 2 * Len(answers[c]) + k

Between(c) == Fits(c) \/ (c \in ended /\ socket[c] = <<>>)

\* Within a request: its line has been read, and its headers, if they have been
\* sent, are in the buffer or the socket.
Within(w, c) ==
  /\ worker[w].line = Len(answers[c]) + 1
  /\ sent[c] \in {2 * Len(answers[c]) + 1, 2 * Len(answers[c]) + 2}
  /\ Len(worker[w].buffer) + Len(socket[c]) = sent[c] - (2 * Len(answers[c]) + 1)

Reads(w, c) == worker[w].doing = "reading" /\ worker[w].conn = {c}

Asking(c) ==
  /\ sent[c] <= 2 * Len(Requests[c])
  /\ \A i \in DOMAIN answers[c] : answers[c][i].to = i
  /\ \A w \in Worker : Reads(w, c) => Within(w, c)
  /\ status[c] # "closed" /\ (\A w \in Worker : ~ Reads(w, c)) => Between(c)

StepInv == ServerInv /\ \A c \in Conn : InStep(c) => Asking(c)

\* The numbers of the pieces: a answers, s pieces sent, l of them in the socket
\* and b in the buffer.
LEMMA OddEven ==
  ASSUME NEW a \in Nat
  PROVE  (2 * a + 1 + 1) \div 2 = a + 1 /\ (2 * a + 1) % 2 = 1 /\ (2 * a + 2) % 2 = 0
<1>1. (2 * a + 1 + 1) \div 2 = a + 1
  OBVIOUS
<1>2. (2 * a + 1) % 2 = 1
  OBVIOUS
<1>3. (2 * a + 2) % 2 = 0
  OBVIOUS
<1>4. QED
  BY <1>1, <1>2, <1>3

LEMMA HeadersSent ==
  ASSUME NEW a \in Nat, NEW s \in Nat, NEW l \in Nat, NEW b \in Nat,
         s = 2 * a + 1, b + l = s - (2 * a + 1)
  PROVE  s + 1 = 2 * a + 2 /\ b + (l + 1) = (s + 1) - (2 * a + 1)
OBVIOUS

LEMMA PieceSent ==
  ASSUME NEW a \in Nat, NEW s \in Nat, NEW l \in Nat, s \in 2 * a .. 2 * a + 2, l = s - 2 * a,
         s % 2 = 1 \/ s <= 2 * a
  PROVE  s + 1 \in 2 * a .. 2 * a + 2 /\ l + 1 = (s + 1) - 2 * a /\ s + 1 = 2 * a + (l + 1)
<1>1. s # 2 * a + 2
  <2>1. s = 2 * a + 2 => s % 2 = 0
    BY OddEven
  <2>2. s = 2 * a + 2 => ~ (s <= 2 * a)
    OBVIOUS
  <2>3. QED
    BY <2>1, <2>2
<1>2. QED
  BY <1>1

LEMMA LineSent ==
  ASSUME NEW a \in Nat, NEW s \in Nat, NEW l \in Nat, s \in 2 * a .. 2 * a + 2, l = s - 2 * a, l # 0
  PROVE  s \in {2 * a + 1, 2 * a + 2} /\ l - 1 = s - (2 * a + 1)
OBVIOUS

LEMMA RequestExists ==
  ASSUME NEW a \in Nat, NEW s \in Nat, NEW m \in Nat, s \in {2 * a + 1, 2 * a + 2}, s <= 2 * m
  PROVE  a + 1 \in 1..m
OBVIOUS

\* A step that does not touch a connection: others may read theirs, or end.
LEMMA AskingKept ==
  ASSUME NEW c, Asking(c), sent'[c] = sent[c], socket'[c] = socket[c], answers'[c] = answers[c],
         c \in ended => c \in ended', status'[c] # "closed" => status[c] # "closed",
         \A w \in Worker : \/ worker'[w] = worker[w]
                           \/ ~ Reads(w, c) /\ ~ Reads(w, c)'
  PROVE  Asking(c)'
<1>1. \A w \in Worker : Reads(w, c)' <=> Reads(w, c)
  BY DEF Reads
<1>2. \A w \in Worker : Reads(w, c)' => Within(w, c)'
  BY DEF Asking, Reads, Within
<1>3. Between(c) => Between(c)'
  BY DEF Between, Fits
<1>4. QED
  BY <1>1, <1>2, <1>3 DEF Asking

\* The client sends the next piece: a request it has started, or the first of one
\* when it has all its answers.
LEMMA AskingSend ==
  ASSUME ServerInv, NEW c \in Conn, Send(c), InStep(c), Asking(c)
  PROVE  Asking(c)'
<1> DEFINE a == Len(answers[c])
<1>1. /\ a \in Nat /\ sent[c] \in Nat /\ socket[c] \in Seq(Nat) /\ Len(Requests[c]) \in Nat
      /\ \A w \in Worker : worker[w].buffer \in Seq(Nat)
  BY HttpAssumption DEF ServerInv, Types, WorkerState
<1>2. /\ sent'[c] = sent[c] + 1 /\ socket'[c] = Append(socket[c], sent[c] + 1)
      /\ UNCHANGED <<worker, answers, ended, status>> /\ c \notin ended /\ status[c] # "closed"
  BY DEF Send, ServerInv, Types
<1>3. sent[c] < 2 * Len(Requests[c]) /\ (sent[c] % 2 = 1 \/ sent[c] <= 2 * a)
  <2>1. sent[c] < 2 * Len(Requests[c]) /\ (~ IsLine(sent[c] + 1) \/ sent[c] <= 2 * a)
    BY DEF Send, MaySend, InStep
  <2>2. QED
    BY <1>1, <2>1 DEF IsLine
<1>4. /\ Len(socket'[c]) = Len(socket[c]) + 1
      /\ socket'[c][Len(socket[c]) + 1] = sent[c] + 1
      /\ \A k \in DOMAIN socket'[c] : \/ k \in DOMAIN socket[c] /\ socket'[c][k] = socket[c][k]
                                      \/ k = Len(socket[c]) + 1
      /\ Len(socket[c]) \in Nat
  BY <1>1, <1>2
<1>5. a' = a
  BY <1>2
<1> HIDE DEF a
<1>6. ASSUME NEW w \in Worker, Reads(w, c) PROVE Within(w, c)'
  <2>1. /\ worker[w].line = a + 1 /\ sent[c] \in {2 * a + 1, 2 * a + 2}
        /\ Len(worker[w].buffer) + Len(socket[c]) = sent[c] - (2 * a + 1)
    BY <1>6 DEF Asking, Within, a
  <2>2. sent[c] = 2 * a + 1
    BY <1>1, <1>3, <2>1
  <2>3. Len(worker[w].buffer) \in Nat
    BY <1>1
  <2>4. /\ sent'[c] = 2 * a + 2
        /\ Len(worker[w].buffer) + Len(socket'[c]) = sent'[c] - (2 * a + 1)
    <3> DEFINE b == Len(worker[w].buffer)
               l == Len(socket[c])
               s == sent[c]
    <3>1. a \in Nat /\ s \in Nat /\ l \in Nat /\ b \in Nat /\ s = 2 * a + 1 /\ b + l = s - (2 * a + 1)
      BY <1>1, <1>4, <2>1, <2>2, <2>3
    <3>2. Len(socket'[c]) = l + 1 /\ sent'[c] = s + 1
      BY <1>2, <1>4
    <3> HIDE DEF b, l, s
    <3>3. s + 1 = 2 * a + 2 /\ b + (l + 1) = (s + 1) - (2 * a + 1)
      BY <3>1, HeadersSent
    <3>4. QED
      BY <3>2, <3>3 DEF b
  <2>5. QED
    BY <1>2, <2>1, <2>4 DEF Within, a
<1>7. ASSUME \A w \in Worker : ~ Reads(w, c) PROVE Fits(c)'
  <2>1. /\ sent[c] \in 2 * a .. 2 * a + 2 /\ Len(socket[c]) = sent[c] - 2 * a
        /\ \A k \in DOMAIN socket[c] : socket[c][k] = 2 * a + k
    BY <1>2, <1>7 DEF Asking, Between, Fits, a
  <2>2. /\ sent[c] + 1 \in 2 * a .. 2 * a + 2 /\ Len(socket[c]) + 1 = (sent[c] + 1) - 2 * a
        /\ sent[c] + 1 = 2 * a + (Len(socket[c]) + 1)
    BY <1>1, <1>3, <1>4, <2>1, PieceSent
  <2>3. sent'[c] \in 2 * a .. 2 * a + 2 /\ Len(socket'[c]) = sent'[c] - 2 * a
    BY <1>2, <1>4, <2>2
  <2>4. sent[c] + 1 = 2 * a + (Len(socket[c]) + 1)
    BY <2>2
  <2>5. \A k \in DOMAIN socket'[c] : socket'[c][k] = 2 * a + k
    BY <1>4, <2>1, <2>4
  <2>6. QED
    BY <1>5, <2>3, <2>5 DEF Fits, a
<1>8. sent'[c] <= 2 * Len(Requests[c])
  BY <1>1, <1>2, <1>3
<1>9. /\ \A w \in Worker : Reads(w, c)' <=> Reads(w, c)
      /\ \A i \in DOMAIN answers'[c] : answers'[c][i].to = i
  BY <1>2 DEF Asking, Reads
<1>10. QED
  BY <1>6, <1>7, <1>8, <1>9 DEF Asking, Between

\* A line is read: it is that of the next request, and good, so that the thread
\* goes on to the headers.
LEMMA AskingLine ==
  ASSUME ServerInv, NEW w \in Worker, NEW c \in Conn, worker[w].conn = {c},
         UNCHANGED <<sent, ended>>, InStep(c), Asking(c), LineRead(w, c)
  PROVE  Asking(c)'
<1> DEFINE a == Len(answers[c])
           n == Head(socket[c])
<1>1. /\ a \in Nat /\ sent[c] \in Nat /\ socket[c] \in Seq(Nat)
      /\ Requests[c] \in Seq([good : BOOLEAN, path : STRING, value : STRING,
                              connection : {"keep-alive", "close", "HTTP/1.0"}])
      /\ worker \in [Worker -> WorkerState] /\ worker[w].doing = "serving" /\ socket[c] # <<>>
  BY HttpAssumption DEF ServerInv, Types, LineRead
<1>2. ASSUME NEW v \in Worker PROVE ~ Reads(v, c)
  BY <1>1 DEF Reads, ServerInv, OneServer
<1>3. status[c] # "closed"
  BY DEF ServerInv, OneServer
<1>4. /\ sent[c] \in 2 * a .. 2 * a + 2 /\ Len(socket[c]) = sent[c] - 2 * a
      /\ \A k \in DOMAIN socket[c] : socket[c][k] = 2 * a + k
  BY <1>1, <1>2, <1>3 DEF Asking, Between, Fits
<1>5. /\ n = 2 * a + 1 /\ sent[c] \in {2 * a + 1, 2 * a + 2} /\ Len(Tail(socket[c])) = sent[c] - (2 * a + 1)
      /\ Tail(socket[c]) \in Seq(Nat)
  <2>1. 1 \in DOMAIN socket[c] /\ n = socket[c][1] /\ Len(socket[c]) \in Nat /\ Len(socket[c]) # 0
    BY <1>1
  <2>2. Len(Tail(socket[c])) = Len(socket[c]) - 1 /\ Tail(socket[c]) \in Seq(Nat)
    BY <1>1
  <2>3. sent[c] \in {2 * a + 1, 2 * a + 2} /\ Len(socket[c]) - 1 = sent[c] - (2 * a + 1)
    BY <1>1, <1>4, <2>1, LineSent
  <2>4. QED
    BY <1>4, <2>1, <2>2, <2>3
<1> HIDE DEF n
<1>6. RequestOf(n) = a + 1 /\ IsLine(n)
  <2>1. (2 * a + 1 + 1) \div 2 = a + 1 /\ (2 * a + 1) % 2 = 1
    BY <1>1, OddEven
  <2>2. QED
    BY <1>5, <2>1 DEF RequestOf, IsLine
<1>7. ReadsOn(c, n)
  <2>1. a + 1 \in DOMAIN Requests[c]
    <3>1. sent[c] <= 2 * Len(Requests[c]) /\ Len(Requests[c]) \in Nat
      BY <1>1 DEF Asking
    <3>2. a + 1 \in 1..Len(Requests[c])
      BY <1>1, <1>5, <3>1, RequestExists
    <3>3. QED
      BY <1>1, <3>2
  <2>2. Requests[c][a + 1].good
    BY <2>1 DEF InStep
  <2>3. QED
    BY <1>6, <2>2 DEF ReadsOn
<1>8. /\ worker' = [worker EXCEPT ![w] = Reader(c, w, n)] /\ UNCHANGED <<status, answers>>
      /\ socket'[c] = <<>>
  BY <1>7 DEF LineRead, ReadAll, n, ServerInv, Types
<1> HIDE DEF a
<1>9. /\ worker'[w].line = a + 1 /\ worker'[w].buffer = Tail(socket[c]) /\ worker'[w].doing = "reading"
      /\ worker'[w].conn = {c}
      /\ \A v \in Worker \ {w} : worker'[v] = worker[v]
  BY <1>1, <1>6, <1>8 DEF Reader, Reading
<1>10. Within(w, c)'
  <2>1. Len(worker'[w].buffer) + Len(socket'[c]) = sent'[c] - (2 * a + 1)
    <3>1. Len(socket'[c]) = 0 /\ sent'[c] = sent[c]
      BY <1>8
    <3>2. Len(Tail(socket[c])) + 0 = Len(Tail(socket[c]))
      BY <1>5
    <3>3. QED
      BY <1>5, <1>9, <3>1, <3>2
  <2>2. QED
    BY <1>5, <1>8, <1>9, <2>1 DEF Within, a
<1>11. \A v \in Worker : Reads(v, c)' => v = w
  BY <1>2, <1>9 DEF Reads
<1>12. Reads(w, c)'
  BY <1>9 DEF Reads
<1>13. QED
  BY <1>8, <1>10, <1>11, <1>12 DEF Asking

\* The request is answered: with its number, and nothing of it is left anywhere.
LEMMA AskingHandled ==
  ASSUME ServerInv, NEW w \in Worker, NEW c \in Conn, worker[w].conn = {c},
         UNCHANGED <<sent, ended>>, InStep(c), Asking(c), Handled(w, c)
  PROVE  Asking(c)'
<1> DEFINE a == Len(answers[c])
<1>1. /\ a \in Nat /\ sent[c] \in Nat /\ socket[c] \in Seq(Nat) /\ worker[w].buffer \in Seq(Nat)
      /\ answers \in [Conn -> Seq([to : Nat, code : Nat, close : BOOLEAN])]
      /\ socket \in [Conn -> Seq(Nat)]
  BY DEF ServerInv, Types, WorkerState
<1>2. Reads(w, c) /\ \A v \in Worker \ {w} : ~ Reads(v, c)
  BY DEF Handled, Reads, ServerInv, OneServer
<1>3. /\ worker[w].line = a + 1 /\ sent[c] \in {2 * a + 1, 2 * a + 2}
      /\ Len(worker[w].buffer) + Len(socket[c]) = sent[c] - (2 * a + 1)
  BY <1>2 DEF Asking, Within
<1>4. sent[c] = 2 * a + 2 /\ socket'[c] = <<>>
  <2>1. CASE worker[w].buffer # <<>> /\ socket' = socket
    <3>1. Len(worker[w].buffer) >= 1 /\ Len(worker[w].buffer) \in Nat /\ Len(socket[c]) \in Nat
      BY <1>1, <2>1
    <3> DEFINE b == Len(worker[w].buffer)
               n == Len(socket[c])
               m == sent[c]
    <3>2. Len(socket[c]) = 0 /\ sent[c] = 2 * a + 2
      <4>1. /\ a \in Nat /\ b \in Nat /\ n \in Nat /\ b >= 1
            /\ m \in {2 * a + 1, 2 * a + 2} /\ b + n = m - (2 * a + 1)
        BY <1>1, <1>3, <3>1
      <4> HIDE DEF a, b, n, m
      <4>2. n = 0 /\ m = 2 * a + 2
        BY <4>1
      <4>3. QED
        BY <4>2 DEF n, m
    <3>3. QED
      BY <1>1, <2>1, <3>2
  <2>2. CASE worker[w].buffer = <<>> /\ socket[c] # <<>> /\ ReadAll(c)
    <3>1. Len(socket[c]) >= 1 /\ Len(socket[c]) \in Nat /\ Len(worker[w].buffer) = 0
      BY <1>1, <2>2
    <3> DEFINE n == Len(socket[c])
               m == sent[c]
    <3>2. sent[c] = 2 * a + 2
      <4>1. a \in Nat /\ n \in Nat /\ n >= 1 /\ m \in {2 * a + 1, 2 * a + 2} /\ n = m - (2 * a + 1)
        BY <1>1, <1>3, <3>1
      <4> HIDE DEF a, n, m
      <4>2. m = 2 * a + 2
        BY <4>1
      <4>3. QED
        BY <4>2 DEF m
    <3>3. socket'[c] = <<>>
      BY <1>1, <2>2 DEF ReadAll
    <3>4. QED
      BY <3>2, <3>3
  <2>3. QED
    BY <2>1, <2>2 DEF Handled
<1>5. PICK unread : Turn(w, c, worker[w].line, unread) /\ (unread = <<>> \/ unread = socket[c])
  BY DEF Handled
<1>6. /\ worker' \in [Worker -> WorkerState] /\ \A v \in Worker \ {w} : worker'[v] = worker[v]
      /\ worker'[w].doing # "reading"
  BY <1>5 DEF Turn, Resting, Serving
<1>7. \A v \in Worker : ~ Reads(v, c)'
  BY <1>2, <1>6 DEF Reads
<1>8. CASE answers' = answers /\ c \in ended
  BY <1>4, <1>7, <1>8 DEF Asking, Between
<1>9. ASSUME NEW code \in Nat, NEW close \in BOOLEAN,
             answers' = [answers EXCEPT ![c] = Append(@, [to |-> worker[w].line, code |-> code, close |-> close])]
      PROVE  Asking(c)'
  <2> DEFINE new == [to |-> worker[w].line, code |-> code, close |-> close]
  <2>1. new.to = a + 1
    BY <1>3
  <2>2. answers'[c] = Append(answers[c], new)
    BY <1>1, <1>9
  <2> HIDE DEF new
  <2>3. Len(answers'[c]) = a + 1
    BY <1>1, <2>2
  <2>4. \A i \in DOMAIN answers'[c] : answers'[c][i].to = i
    <3>1. SUFFICES ASSUME NEW i \in DOMAIN answers'[c] PROVE answers'[c][i].to = i
      OBVIOUS
    <3>2. CASE i \in DOMAIN answers[c]
      <4>1. answers'[c][i] = answers[c][i]
        BY <1>1, <2>2, <3>2
      <4>2. QED
        BY <3>2, <4>1 DEF Asking
    <3>3. CASE i \notin DOMAIN answers[c]
      <4>1. i = a + 1 /\ answers'[c][i] = new
        BY <1>1, <2>2, <3>3
      <4>2. QED
        BY <2>1, <4>1
    <3>4. QED
      BY <3>2, <3>3
  <2>5. Fits(c)'
    <3>1. sent'[c] = 2 * Len(answers'[c])
      BY <1>1, <1>4, <2>3
    <3>2. Len(socket'[c]) = 0 /\ DOMAIN socket'[c] = {}
      BY <1>4
    <3>3. Len(answers'[c]) \in Nat
      BY <1>1, <2>3
    <3>4. QED
      BY <3>1, <3>2, <3>3 DEF Fits
  <2>6. QED
    BY <1>7, <2>4, <2>5 DEF Asking, Between
<1>10. CASE Writable(c, unread)
  BY <1>5, <1>9, <1>10 DEF Turn
<1>11. CASE ~ Writable(c, unread)
  BY <1>5, <1>8, <1>11 DEF Turn, Writable
<1>12. QED
  BY <1>10, <1>11
------------------------------------------------------------------------------
(* The theorems.                                                              *)

\* A thread that serves a connection leaves the others alone.
LEMMA ServeLocal ==
  ASSUME Types, NEW w \in Worker, NEW c \in Conn,
         LineRead(w, c) \/ Quit(w, c) \/ Handled(w, c) \/ GivenUp(w, c)
  PROVE  /\ \A v \in Worker \ {w} : worker'[v] = worker[v]
         /\ \A d \in Conn \ {c} : /\ socket'[d] = socket[d] /\ answers'[d] = answers[d]
                                  /\ status'[d] = status[d]
         /\ \A d \in Conn \ {c} : d \notin worker'[w].conn
<1> DEFINE Local == /\ \A v \in Worker \ {w} : worker'[v] = worker[v]
                    /\ \A d \in Conn \ {c} : answers'[d] = answers[d] /\ status'[d] = status[d]
                    /\ worker'[w].conn \subseteq {c}
<1>1. ASSUME NEW k, NEW unread, Turn(w, c, k, unread) PROVE Local
  <2>1. \A d \in Conn \ {c} : answers'[d] = answers[d] /\ status'[d] = status[d]
    BY <1>1 DEF Turn, Types
  <2>2. worker'[w].conn \subseteq {c}
    BY <1>1 DEF Turn, Resting, Serving
  <2>3. QED
    BY <1>1, <2>1, <2>2 DEF Turn
<1>2. CASE Quit(w, c)
  BY <1>2 DEF Quit, Types, Resting
<1>3. \A d \in Conn \ {c} : socket'[d] = socket[d]
  BY DEF LineRead, Quit, Handled, GivenUp, ReadAll, Types
<1>4. CASE Handled(w, c) \/ GivenUp(w, c)
  <2>1. Local
    BY <1>1, <1>4 DEF Handled, GivenUp
  <2>2. QED
    BY <1>3, <2>1
<1>5. CASE LineRead(w, c)
  <2>1. CASE UNCHANGED <<status, answers>> /\ worker' = [worker EXCEPT ![w] = Reader(c, w, Head(socket[c]))]
    <3>1. /\ \A v \in Worker \ {w} : worker'[v] = worker[v]
          /\ worker'[w].conn = {c}
      BY <2>1 DEF Types, Reader, Reading
    <3>2. QED
      BY <1>3, <2>1, <3>1
  <2>2. CASE Turn(w, c, RequestOf(Head(socket[c])), <<>>)
    <3>1. Local
      BY <1>1, <2>2
    <3>2. QED
      BY <1>3, <3>1
  <2>3. QED
    BY <1>5, <2>1, <2>2 DEF LineRead
<1>6. QED
  BY <1>2, <1>4, <1>5

LEMMA InitInv == Init => StepInv /\ JobsHaveWorkers
<1> SUFFICES ASSUME Init PROVE StepInv /\ JobsHaveWorkers
  OBVIOUS
<1>1. Resting("idle") \in WorkerState /\ Resting("idle").conn = {} /\ Resting("idle").doing = "idle"
  BY DEF Resting, WorkerState
<1>2. /\ jobs = <<>> /\ worker = [w \in Worker |-> Resting("idle")]
      /\ \A w \in Worker : worker[w].conn = {} /\ worker[w].doing = "idle"
  BY <1>1 DEF Init
<1>3. Types
  <2>1. \A S : <<>> \in Seq(S)
    OBVIOUS
  <2>2. QED
    BY <1>1, <1>2, <2>1 DEF Init, Types
<1>4. Hands /\ OneServer
  BY <1>2 DEF Hands, OneServer
<1>5. ASSUME NEW c \in Conn PROVE Asking(c)
  <2>1. /\ sent[c] = 0 /\ Len(answers[c]) = 0 /\ Len(socket[c]) = 0
        /\ DOMAIN answers[c] = {} /\ DOMAIN socket[c] = {}
    BY DEF Init
  <2>2. Fits(c)
    BY <2>1 DEF Fits
  <2>3. Len(Requests[c]) \in Nat
    BY HttpAssumption
  <2>4. \A w \in Worker : ~ Reads(w, c)
    BY <1>2 DEF Reads
  <2>5. QED
    BY <2>1, <2>2, <2>3, <2>4 DEF Asking, Between
<1>6. JobsHaveWorkers
  BY <1>2 DEF JobsHaveWorkers, Sleepers
<1>7. QED
  BY <1>3, <1>4, <1>5, <1>6 DEF StepInv, ServerInv

LEMMA NextInv ==
  ASSUME StepInv, [Next]_vars
  PROVE  StepInv'
<1>1. ServerInv /\ Types /\ Hands /\ OneServer
  BY DEF StepInv, ServerInv
<1>2. late \subseteq late'
  <2>1. CASE Serve
    <3>1. PICK w \in Worker : \E c \in worker[w].conn :
            ReadLine(w, c) \/ NothingMore(w, c) \/ HandleRequest(w, c) \/ HeadersMissing(w, c)
      BY <2>1 DEF Serve
    <3>2. QED
      BY <3>1 DEF ReadLine, NothingMore, HandleRequest, HeadersMissing
  <2>2. CASE ~ Serve
    BY <2>2 DEF Next, vars, Send, HangUp, Accept, Bind, NotifyOne, AcceptFails, ShutdownFlag,
                NotifyAll, ListenReturns, Wait, SpuriousWakeup, TakeJob, End
  <2>3. QED
    BY <2>1, <2>2
<1>3. \A c \in Conn : InStep(c)' => InStep(c) /\ Asking(c)
  BY <1>2 DEF StepInv, InStep
\* A step that leaves every connection as it was, or accepts one.
<1>4. ASSUME UNCHANGED <<socket, sent, answers>>, ended \subseteq ended', ServerInv',
             \A c \in Conn : status'[c] # "closed" => status[c] # "closed",
             \A w \in Worker : \/ worker'[w] = worker[w]
                               \/ worker[w].conn = {} /\ worker'[w].doing # "reading"
      PROVE  StepInv'
  <2>1. ASSUME NEW c \in Conn, Asking(c) PROVE Asking(c)'
    <3>1. \A w \in Worker : worker'[w] = worker[w] \/ (~ Reads(w, c) /\ ~ Reads(w, c)')
      BY <1>4 DEF Reads
    <3>2. QED
      BY <1>4, <2>1, <3>1, AskingKept
  <2>2. QED
    BY <1>3, <1>4, <2>1 DEF StepInv
<1>5. ASSUME \/ Bind \/ NotifyOne \/ AcceptFails \/ ShutdownFlag \/ NotifyAll \/ ListenReturns
             \/ \E w \in Worker : Wait(w) \/ SpuriousWakeup(w) \/ End(w)
      PROVE  StepInv'
  <2>1. ServerInv'
    BY <1>1, <1>5, PoolKeepsInv
  <2>2. QED
    BY <1>1, <1>4, <1>5, <2>1, PoolStep
<1>6. ASSUME NEW c \in Conn, Accept(c) PROVE StepInv'
  <2>1. ServerInv'
    BY <1>1, <1>6, AcceptKeepsInv
  <2>2. UNCHANGED <<socket, sent, answers, ended, worker>> /\ status[c] = "new"
        /\ status' = [status EXCEPT ![c] = "accepted"]
    BY <1>6 DEF Accept, clients
  <2>3. \A d \in Conn : status'[d] # "closed" => status[d] # "closed"
    BY <1>1, <2>2 DEF Types
  <2>4. QED
    BY <1>4, <2>1, <2>2, <2>3
<1>7. ASSUME NEW w \in Worker, TakeJob(w) PROVE StepInv'
  <2>1. /\ ServerInv' /\ UNCHANGED <<status, socket, sent, ended, late, answers>>
        /\ \A v \in Worker \ {w} : worker'[v] = worker[v]
        /\ worker[w].conn = {} /\ worker'[w].doing = "serving"
    BY <1>1, <1>7, TakeJobKeepsInv
  <2>2. QED
    BY <1>4, <2>1
<1>8. ASSUME NEW c \in Conn, HangUp(c) PROVE StepInv'
  <2>1. ServerInv'
    BY <1>1, <1>8, ClientKeepsInv
  <2>2. UNCHANGED <<socket, sent, answers, worker, status>> /\ ended \subseteq ended'
    BY <1>8 DEF HangUp
  <2>3. QED
    BY <1>4, <2>1, <2>2
<1>9. ASSUME NEW c \in Conn, Send(c) PROVE StepInv'
  <2>1. ServerInv'
    BY <1>1, <1>9, ClientKeepsInv
  <2>2. /\ UNCHANGED <<answers, worker, status, ended>>
        /\ \A d \in Conn \ {c} : sent'[d] = sent[d] /\ socket'[d] = socket[d]
    BY <1>1, <1>9 DEF Send, Types
  <2>3. ASSUME NEW d \in Conn, InStep(d), Asking(d) PROVE Asking(d)'
    <3>1. CASE d = c
      BY <1>1, <1>9, <2>3, <3>1, AskingSend
    <3>2. CASE d # c
      BY <2>2, <2>3, <3>2, AskingKept
    <3>3. QED
      BY <3>1, <3>2
  <2>4. QED
    BY <1>3, <2>1, <2>3 DEF StepInv
<1>10. ASSUME NEW w \in Worker, NEW c \in worker[w].conn,
              ReadLine(w, c) \/ NothingMore(w, c) \/ HandleRequest(w, c) \/ HeadersMissing(w, c)
       PROVE  StepInv'
  <2>1. /\ c \in Conn /\ worker[w].conn = {c} /\ UNCHANGED <<jobs, sent, ended>>
        /\ LineRead(w, c) \/ Quit(w, c) \/ Handled(w, c) \/ GivenUp(w, c)
    BY <1>1, <1>10, ServeStep
  <2>2. ServerInv'
    BY <1>1, <2>1, ServeKeepsInv
  <2>3. /\ \A v \in Worker \ {w} : worker'[v] = worker[v]
        /\ \A d \in Conn \ {c} : /\ socket'[d] = socket[d] /\ answers'[d] = answers[d]
                                 /\ status'[d] = status[d]
        /\ \A d \in Conn \ {c} : d \notin worker'[w].conn
    BY <1>1, <2>1, ServeLocal
  <2>4. ASSUME NEW d \in Conn, InStep(d)', InStep(d), Asking(d) PROVE Asking(d)'
    <3>1. CASE d # c
      <4>1. ~ Reads(w, d) /\ ~ Reads(w, d)'
        BY <2>1, <2>3, <3>1 DEF Reads
      <4>2. \A v \in Worker : worker'[v] = worker[v] \/ (~ Reads(v, d) /\ ~ Reads(v, d)')
        BY <2>3, <4>1
      <4>3. QED
        BY <2>1, <2>3, <2>4, <3>1, <4>2, AskingKept
    <3>2. CASE d = c /\ LineRead(w, c)
      BY <1>1, <2>1, <2>4, <3>2, AskingLine
    <3>3. CASE d = c /\ Quit(w, c)
      <4>1. /\ UNCHANGED <<socket, answers>> /\ status'[c] = "closed" /\ worker'[w].doing = "idle"
            /\ worker[w].doing = "serving"
        BY <1>1, <2>1, <3>3 DEF Quit, Types, Resting
      <4>2. \A v \in Worker : worker'[v] = worker[v] \/ (~ Reads(v, d) /\ ~ Reads(v, d)')
        BY <2>3, <4>1 DEF Reads
      <4>3. QED
        BY <2>1, <2>4, <3>3, <4>1, <4>2, AskingKept
    <3>4. CASE d = c /\ Handled(w, c)
      BY <1>1, <2>1, <2>4, <3>4, AskingHandled
    \* A request whose headers did not come: its client is not in step any more.
    <3>5. CASE d = c /\ GivenUp(w, c)
      BY <2>4, <3>5 DEF GivenUp, InStep
    <3>6. QED
      BY <2>1, <3>1, <3>2, <3>3, <3>4, <3>5
  <2>5. QED
    BY <1>3, <2>2, <2>4 DEF StepInv
<1>11. CASE UNCHANGED vars
  <2>1. ServerInv'
    BY <1>1, <1>11 DEF vars, ServerInv, Types, Hands, OneServer
  <2>2. QED
    BY <1>4, <1>11, <2>1 DEF vars
<1>12. QED
  BY <1>5, <1>6, <1>7, <1>8, <1>9, <1>10, <1>11 DEF Next, Serve

\* A client in step: between two of its requests no answer is missing, whichever
\* thread serves it.
LEMMA InvAnswers == StepInv => AnswersInStep
<1> SUFFICES ASSUME StepInv, NEW c \in Conn, InStep(c)
             PROVE  /\ \A i \in DOMAIN answers[c] : answers[c][i].to = i
                    /\ \A w \in Worker :
                         (/\ worker[w].doing = "serving" /\ worker[w].conn = {c}
                          /\ socket[c] = <<>> /\ c \notin ended) => sent[c] = 2 * Len(answers[c])
  BY DEF AnswersInStep
<1>1. Asking(c) /\ OneServer /\ Types
  BY DEF StepInv, ServerInv
<1>2. ASSUME NEW w \in Worker, worker[w].doing = "serving", worker[w].conn = {c},
             socket[c] = <<>>, c \notin ended
      PROVE  sent[c] = 2 * Len(answers[c])
  <2>1. status[c] # "closed" /\ \A v \in Worker : ~ Reads(v, c)
    BY <1>1, <1>2 DEF OneServer, Reads
  <2>2. Fits(c)
    BY <1>1, <1>2, <2>1 DEF Asking, Between
  <2>3. Len(socket[c]) = 0 /\ sent[c] \in Nat /\ Len(answers[c]) \in Nat
    BY <1>1, <1>2 DEF Types
  <2>4. QED
    BY <2>2, <2>3 DEF Fits
<1>3. QED
  BY <1>1, <1>2 DEF Asking

\* While a thread of the pool sleeps, every queued job has a thread that is awake,
\* or one that is about to be woken, for any number of threads and connections
\* (httplib.h:603-643).
THEOREM JobsNeverWait == Spec => []JobsHaveWorkers
<1>1. ServerInv /\ JobsHaveWorkers /\ [Next]_vars => JobsHaveWorkers'
  BY AwakeKept
<1>2. StepInv => ServerInv
  BY DEF StepInv
<1>3. StepInv /\ [Next]_vars => StepInv'
  BY NextInv
<1>4. QED
  BY <1>1, <1>2, <1>3, InitInv, PTL DEF Spec

\* A client that waits for its answers, sends only good lines and is not too late
\* is answered request by request, in order, without a gap, for any number of
\* threads, connections and requests, and whoever else breaks off or pipelines
\* (httplib.h:2858-2905, 5321, 6433-6560).
THEOREM ClientsInStep == Spec => []AnswersInStep
<1>1. StepInv /\ [Next]_vars => StepInv'
  BY NextInv
<1>2. QED
  BY <1>1, InitInv, InvAnswers, PTL DEF Spec
------------------------------------------------------------------------------
(* Connections that are closed with an answer.                                *)

\* The connection is not closed by an answer that keeps it to itself.
Announced(c) ==
  (status'[c] = "closed" /\ answers'[c] # answers[c]) =>
    LET last == answers'[c][Len(answers'[c])]
    IN last.close \/ Requests[c][last.to].connection = "HTTP/1.0"

\* The answer and the loop count with the same number, and an answer says what its
\* request asked for (httplib.h:2881-2885, 5835).
LEMMA AnswerAnnounces ==
  ASSUME ServerInv, NEW w \in Worker, NEW c \in worker[w].conn, NEW k, NEW code, NEW told,
         NEW unread, Respond(w, c, k, code, told, unread),
         told = "HTTP/1.0" => Requests[c][k].connection = "HTTP/1.0"
  PROVE  \A d \in Conn : Announced(d)
<1> DEFINE close == LastAllowed(w) \/ told = "close"
           last == [to |-> k, code |-> code, close |-> close]
<1>1. c \in Conn /\ status[c] # "closed" /\ answers[c] \in Seq([to : Nat, code : Nat, close : BOOLEAN])
  BY DEF ServerInv, Types, WorkerState, OneServer
<1>2. answers' = answers \/ answers' = [answers EXCEPT ![c] = Append(@, last)]
  BY DEF Respond, WriteResponse
<1>3. status'[c] = "closed" => close \/ told = "HTTP/1.0"
  BY <1>1 DEF Respond, LastAllowed
<1>4. \A d \in Conn : d # c => answers'[d] = answers[d]
  <2>1. answers \in [Conn -> Seq([to : Nat, code : Nat, close : BOOLEAN])]
    BY DEF ServerInv, Types
  <2> HIDE DEF last
  <2>2. QED
    BY <1>2, <2>1
<1>5. last.to = k /\ (last.close <=> close)
  OBVIOUS
<1> HIDE DEF last, close
<1>6. CASE answers' = [answers EXCEPT ![c] = Append(@, last)]
  <2>1. answers'[c] = Append(answers[c], last)
    BY <1>1, <1>6 DEF ServerInv, Types
  <2>2. answers'[c][Len(answers'[c])] = last
    BY <1>1, <2>1
  <2>3. Announced(c)
    BY <1>3, <1>5, <2>2 DEF Announced
  <2>4. QED
    BY <1>4, <2>3 DEF Announced
<1>7. QED
  BY <1>2, <1>6 DEF Announced

\* Every way a thread serves its connection.
LEMMA ServeAnnounces ==
  ASSUME ServerInv, NEW w \in Worker, NEW c \in worker[w].conn,
         ReadLine(w, c) \/ NothingMore(w, c) \/ HandleRequest(w, c) \/ HeadersMissing(w, c)
  PROVE  \A d \in Conn : Announced(d)
<1>1. ASSUME NEW k, Respond(w, c, k, 400, "unread", <<>>)
      PROVE  \A d \in Conn : Announced(d)
  BY <1>1, AnswerAnnounces
<1>2. CASE ReadLine(w, c)
  <2>1. answers' = answers \/ Respond(w, c, RequestOf(GetLine(c)), 400, "unread", <<>>)
    BY <1>2 DEF ReadLine
  <2>2. QED
    BY <1>1, <2>1 DEF Announced
<1>3. CASE NothingMore(w, c)
  BY <1>3 DEF NothingMore, Announced
<1>4. CASE HandleRequest(w, c)
  <2> DEFINE k == worker[w].line
             r == Requests[c][k]
  <2>1. PICK unread : Respond(w, c, k, Code(r), r.connection, unread)
    BY <1>4 DEF HandleRequest
  <2>2. QED
    BY <2>1, AnswerAnnounces
<1>5. CASE HeadersMissing(w, c)
  BY <1>1, <1>5 DEF HeadersMissing
<1>6. QED
  BY <1>2, <1>3, <1>4, <1>5

\* A connection that is closed with an answer was announced to be, or its client
\* speaks HTTP/1.0, for any number of connections, threads and answers allowed
\* (httplib.h:2881-2885, 5835, 6480).
THEOREM ClosesAreAnnounced == Spec => CloseIsAnnounced
<1>1. ASSUME ServerInv, [Next]_vars
      PROVE  [\A c \in Conn : Announced(c)]_vars
  <2>1. CASE Serve
    BY <1>1, <2>1, ServeAnnounces DEF Serve
  <2>2. CASE answers' = answers
    BY <2>2 DEF Announced
  <2>3. Next => Serve \/ answers' = answers
    BY DEF Next, Send, HangUp, Accept, Bind, NotifyOne, AcceptFails, ShutdownFlag, NotifyAll,
       ListenReturns, Wait, SpuriousWakeup, TakeJob, End
  <2>4. QED
    BY <1>1, <2>1, <2>2, <2>3
<1>2. StepInv => ServerInv
  BY DEF StepInv
<1>3. StepInv /\ [Next]_vars => StepInv'
  BY NextInv
<1>4. [\A c \in Conn : Announced(c)]_vars
        => [\A c \in Conn :
             (status'[c] = "closed" /\ answers'[c] # answers[c]) =>
               LET last == answers'[c][Len(answers'[c])]
               IN last.close \/ Requests[c][last.to].connection = "HTTP/1.0"]_vars
  BY DEF Announced
<1>5. QED
  BY <1>1, <1>2, <1>3, <1>4, InitInv, PTL DEF Spec, CloseIsAnnounced
==============================================================================
