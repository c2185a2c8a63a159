-------------------------------- MODULE HttpPool --------------------------------
(***************************************************************************)
(* The threads of the HTTP server: HttpServer::StartListening and          *)
(* StopListening, and mg_start, mg_stop, master_thread, worker_thread and  *)
(* the ring of accepted sockets between them in mongoose.c.  stop_flag is  *)
(* written and the wait for sockets is woken without the mutex, and        *)
(* num_threads is incremented without it.                                  *)
(***************************************************************************)
EXTENDS Integers, Sequences, FiniteSets

CONSTANTS
    Worker,     \* the worker threads (num_threads)
    Socket,     \* the connections of clients, by number in the order of arrival
    Denied,     \* those that the access control list refuses
    QueueSize,  \* slots of the ring (20)
    MayFail     \* a thread cannot be created, or a worker finds no memory, only if TRUE

ASSUME PoolAssumption ==
    /\ Socket = 1 .. Cardinality(Socket) /\ IsFiniteSet(Socket) /\ Denied \subseteq Socket
    /\ QueueSize \in Nat \ {0} /\ MayFail \in BOOLEAN
    /\ IsFiniteSet(Worker) /\ {0, -1, -2} \cap Worker = {}     \* Nobody, Owner, Master

VARIABLES
    owner,      \* where StartListening or StopListening is
    stop_flag,
    num_threads,
    loaded,     \* num_threads as a thread has read it to change it
    arrived,    \* how many clients have connected
    accepted,   \* how many of them the master thread has taken
    queue, sq_head, sq_tail,
    master,     \* where the master thread is
    thread,     \* where each worker is
    client,     \* the socket that a worker has copied from the ring, or 0
    mutex,      \* who holds the mutex of the context, or 0
    sq_full,    \* the workers that wait on this condition
    grabbed,    \* the sockets in the order in which they were taken from the ring
    closed,     \* the sockets that have been closed
    poor,       \* whether a worker has run out of memory
    missed      \* the workers that began to wait after the others had been woken

context == <<stop_flag, num_threads, loaded, queue, sq_head, sq_tail>>
pool == <<owner, context, arrived, accepted, master, thread, client, mutex, sq_full,
          grabbed, closed, poor, missed>>

Nobody == 0
Owner == -1
Master == -2

PoolInit ==
    /\ owner = "off" /\ stop_flag = 0 /\ num_threads = 0
    /\ loaded = [t \in Worker \cup {Owner} |-> 0]
    /\ arrived = 0 /\ accepted = 0
    /\ queue = [x \in 0 .. QueueSize - 1 |-> 0] /\ sq_head = 0 /\ sq_tail = 0
    /\ master = "none" /\ thread = [w \in Worker |-> "none"]
    /\ client = [w \in Worker |-> 0] /\ mutex = Nobody /\ sq_full = {}
    /\ grabbed = <<>> /\ closed = {} /\ poor = FALSE /\ missed = {}

\* A client connects: the kernel keeps it until accept.
Connect ==
    /\ owner = "running" /\ arrived < Cardinality(Socket)
    /\ arrived' = arrived + 1
    /\ UNCHANGED <<owner, context, accepted, master, thread, client, mutex, sq_full, grabbed,
                   closed, poor, missed>>

--------------------------------------------------------------------------------
(* The thread that owns the server. *)

\* The master thread starts before the workers do.
StartListening ==
    /\ owner = "off"
    /\ owner' = "starting" /\ master' = "poll"
    /\ UNCHANGED <<context, arrived, accepted, thread, client, mutex, sq_full, grabbed,
                   closed, poor, missed>>

\* One round of the loop over num_threads, and the two halves of num_threads++.
StartWorker(w) ==
    /\ owner = "starting" /\ thread[w] = "none"
    /\ \/ thread' = [thread EXCEPT ![w] = "born"] /\ owner' = "load"
       \/ MayFail /\ thread' = [thread EXCEPT ![w] = "gone"] /\ UNCHANGED owner
    /\ UNCHANGED <<context, arrived, accepted, master, client, mutex, sq_full, grabbed,
                   closed, poor, missed>>

LoadThreads ==
    /\ owner = "load"
    /\ owner' = "store" /\ loaded' = [loaded EXCEPT ![Owner] = num_threads]
    /\ UNCHANGED <<stop_flag, num_threads, queue, sq_head, sq_tail, arrived, accepted, master,
                   thread, client, mutex, sq_full, grabbed, closed, poor, missed>>

StoreThreads ==
    /\ owner = "store"
    /\ owner' = "starting" /\ num_threads' = loaded[Owner] + 1
    /\ UNCHANGED <<stop_flag, loaded, queue, sq_head, sq_tail, arrived, accepted, master,
                   thread, client, mutex, sq_full, grabbed, closed, poor, missed>>

Started ==
    /\ owner = "starting" /\ \A w \in Worker : thread[w] # "none"
    /\ owner' = "running"
    /\ UNCHANGED <<context, arrived, accepted, master, thread, client, mutex, sq_full, grabbed,
                   closed, poor, missed>>

StopListening ==
    /\ owner = "running"
    /\ owner' = "stopping" /\ stop_flag' = 1
    /\ UNCHANGED <<num_threads, loaded, queue, sq_head, sq_tail, arrived, accepted, master,
                   thread, client, mutex, sq_full, grabbed, closed, poor, missed>>

\* The context is freed.
Stopped ==
    /\ owner = "stopping" /\ stop_flag = 2
    /\ owner' = "stopped"
    /\ UNCHANGED <<context, arrived, accepted, master, thread, client, mutex, sq_full, grabbed,
                   closed, poor, missed>>

--------------------------------------------------------------------------------
(* master_thread. *)

\* poll, accept and check_acl; poll returns every 200 ms, so that stop_flag is seen.
Poll ==
    /\ master = "poll"
    /\ IF stop_flag # 0
       THEN master' = "broadcast" /\ UNCHANGED <<accepted, closed>>
       ELSE /\ accepted < arrived
            /\ accepted' = accepted + 1
            /\ IF accepted + 1 \in Denied
               THEN closed' = closed \cup {accepted + 1} /\ UNCHANGED master
               ELSE master' = "lock" /\ UNCHANGED closed
    /\ UNCHANGED <<owner, context, arrived, thread, client, mutex, sq_full, grabbed, poor, missed>>

LockMaster ==
    /\ master \in {"lock", "woken", "join", "joining"} /\ mutex = Nobody
    /\ master' = IF master \in {"lock", "woken"} THEN "room" ELSE "count"
    /\ mutex' = Master
    /\ UNCHANGED <<owner, context, arrived, accepted, thread, client, sq_full, grabbed,
                   closed, poor, missed>>

\* One of the workers that wait, if any does, goes on to take the mutex again.
SignalFull ==
    IF sq_full = {} THEN UNCHANGED <<sq_full, thread>>
    ELSE \E w \in sq_full :
           sq_full' = sq_full \ {w} /\ thread' = [thread EXCEPT ![w] = "lock"]

Put(s) ==
    /\ queue' = [queue EXCEPT ![sq_head % QueueSize] = s]
    /\ sq_head' = sq_head + 1
Full == sq_head - sq_tail >= QueueSize

\* produce_socket, with the mutex: the wait on sq_empty gives it up.  When it is told
\* to stop while the ring is full, the socket is dropped and stays open.
produce_socket ==
    /\ master = "room" /\ mutex = Master
    /\ IF stop_flag = 0 /\ Full
       THEN /\ master' = "wait"
            /\ UNCHANGED <<queue, sq_head, sq_full, thread>>
       ELSE /\ master' = "poll"
            /\ IF Full THEN UNCHANGED <<queue, sq_head>> ELSE Put(accepted)
            /\ SignalFull
    /\ mutex' = Nobody
    /\ UNCHANGED <<owner, stop_flag, num_threads, loaded, sq_tail, arrived, accepted, client,
                   grabbed, closed, poor, missed>>

\* The listening sockets are closed, and the workers that wait now are woken.
Broadcast ==
    /\ master = "broadcast"
    /\ master' = "join"
    /\ thread' = [w \in Worker |-> IF w \in sq_full THEN "lock" ELSE thread[w]]
    /\ sq_full' = {}
    /\ UNCHANGED <<owner, context, arrived, accepted, client, mutex, grabbed, closed, poor, missed>>

\* A slip: the last worker is not waited for.
AwaitsButOne == num_threads > 1
Awaits == num_threads > 0

\* The wait for the workers to end; when none is left the context may be freed.
Join ==
    /\ master = "count" /\ mutex = Master
    /\ IF Awaits THEN master' = "waitThreads" /\ UNCHANGED stop_flag
                 ELSE master' = "done" /\ stop_flag' = 2
    /\ mutex' = Nobody
    /\ UNCHANGED <<owner, num_threads, loaded, queue, sq_head, sq_tail, arrived, accepted,
                   thread, client, sq_full, grabbed, closed, poor, missed>>

--------------------------------------------------------------------------------
(* worker_thread. *)

WorkerStep(w, from, to) == thread[w] = from /\ thread' = [thread EXCEPT ![w] = to]

Allocate(w) ==
    /\ \/ WorkerStep(w, "born", "lock") /\ UNCHANGED poor
       \/ MayFail /\ WorkerStep(w, "born", "quit") /\ poor' = TRUE
    /\ UNCHANGED <<owner, context, arrived, accepted, master, client, mutex, sq_full, grabbed,
                   closed, missed>>

LockWorker(w) ==
    /\ mutex = Nobody
    /\ \/ WorkerStep(w, "lock", "check") \/ WorkerStep(w, "quit", "load")
    /\ mutex' = w
    /\ UNCHANGED <<owner, context, arrived, accepted, master, client, sq_full, grabbed,
                   closed, poor, missed>>

EmptyQueue == sq_head = sq_tail
MustWait == EmptyQueue /\ stop_flag = 0

Grabs == sq_head > sq_tail

\* The ring after a socket has been taken from it: both pointers are wrapped.
Wraps == sq_tail + 1 > QueueSize
Wrap ==
    /\ sq_tail' = IF Wraps THEN sq_tail + 1 - QueueSize ELSE sq_tail + 1
    /\ sq_head' = IF Wraps THEN sq_head - QueueSize ELSE sq_head

\* The master, if it waits on sq_empty, goes on to take the mutex again.
SignalEmpty == master' = IF master = "wait" THEN "woken" ELSE master

\* consume_socket, with the mutex: what it finds, and the wait that follows a while
\* later and gives the mutex up.
CheckQueue(w) ==
    /\ mutex = w /\ WorkerStep(w, "check", IF MustWait THEN "wait" ELSE "grabbed")
    /\ IF MustWait
       THEN UNCHANGED <<sq_head, sq_tail, client, grabbed, mutex, master>>
       ELSE /\ IF Grabs
               THEN LET s == queue[sq_tail % QueueSize]
                    IN /\ client' = [client EXCEPT ![w] = s] /\ grabbed' = Append(grabbed, s)
                       /\ Wrap
               ELSE UNCHANGED <<sq_head, sq_tail, client, grabbed>>
            /\ mutex' = Nobody /\ SignalEmpty
    /\ UNCHANGED <<owner, stop_flag, num_threads, loaded, queue, arrived, accepted, sq_full,
                   closed, poor, missed>>

PastBroadcast == master \in {"join", "count", "waitThreads", "joining", "done"}

WaitFull(w) ==
    /\ mutex = w /\ WorkerStep(w, "wait", "waiting")
    /\ sq_full' = sq_full \cup {w} /\ mutex' = Nobody
    /\ missed' = IF PastBroadcast THEN missed \cup {w} ELSE missed
    /\ UNCHANGED <<owner, context, arrived, accepted, master, client, grabbed, closed, poor>>

\* The value that consume_socket returns is read after the mutex was given up: a
\* socket that was grabbed before stop_flag was set is neither served nor closed.
Decide(w) ==
    /\ thread[w] = "grabbed"
    /\ thread' = [thread EXCEPT ![w] = IF stop_flag # 0 THEN "quit" ELSE "serve"]
    /\ UNCHANGED <<owner, context, arrived, accepted, master, client, mutex, sq_full, grabbed,
                   closed, poor, missed>>

\* process_new_connection and close_connection: sockets have a timeout.
Serve(w) ==
    /\ WorkerStep(w, "serve", "lock")
    /\ closed' = closed \cup {client[w]}
    /\ client' = [client EXCEPT ![w] = 0]
    /\ UNCHANGED <<owner, context, arrived, accepted, master, mutex, sq_full, grabbed, poor, missed>>

\* The two halves of num_threads--, with the mutex, and the signal to the master.
LoadExit(w) ==
    /\ mutex = w /\ WorkerStep(w, "load", "store")
    /\ loaded' = [loaded EXCEPT ![w] = num_threads]
    /\ UNCHANGED <<owner, stop_flag, num_threads, queue, sq_head, sq_tail, arrived, accepted,
                   master, client, mutex, sq_full, grabbed, closed, poor, missed>>

SignalEnd == master' = IF master = "waitThreads" THEN "joining" ELSE master

\* The assertion that num_threads is not negative ends the program when it fails.
StoreExit(w) ==
    /\ mutex = w /\ WorkerStep(w, "store", "gone")
    /\ num_threads' = loaded[w] - 1
    /\ owner' = IF loaded[w] - 1 < 0 THEN "aborted" ELSE owner
    /\ SignalEnd
    /\ mutex' = Nobody
    /\ UNCHANGED <<stop_flag, loaded, queue, sq_head, sq_tail, arrived, accepted, client,
                   sq_full, grabbed, closed, poor, missed>>

--------------------------------------------------------------------------------
MasterNext == Poll \/ LockMaster \/ produce_socket \/ Broadcast \/ Join
WorkerNext(w) ==
    \/ Allocate(w) \/ LockWorker(w) \/ CheckQueue(w) \/ WaitFull(w) \/ Decide(w) \/ Serve(w)
    \/ LoadExit(w) \/ StoreExit(w)
OwnerNext ==
    \/ StartListening \/ (\E w \in Worker : StartWorker(w)) \/ LoadThreads \/ StoreThreads
    \/ Started \/ StopListening \/ Stopped

PoolNext ==
    /\ owner # "aborted"
    /\ Connect \/ MasterNext \/ OwnerNext \/ \E w \in Worker : WorkerNext(w)

PoolSpec == PoolInit /\ [][PoolNext]_pool

\* Threads run on; when clients connect and when the server stops is not theirs.
PoolFairness ==
    /\ WF_pool(PoolNext /\ MasterNext)
    /\ WF_pool(PoolNext /\ OwnerNext /\ ~ StopListening)
    /\ \A w \in Worker : WF_pool(PoolNext /\ WorkerNext(w))

--------------------------------------------------------------------------------
\* What is in the ring, and all that has ever been in it.
Held == [x \in 1 .. sq_head - sq_tail |-> queue[(sq_tail + x - 1) % QueueSize]]
Queued == grabbed \o Held

\* Sockets are grabbed in the order in which they were accepted, each once: the ring
\* holds what has been accepted and not grabbed, whatever its pointers have been
\* wrapped to (produce_socket, consume_socket).  Only the last one may be missing, on its
\* way, or if it was accepted while the ring was full and the server stopped.
RingHolds ==
    LET all == 1 .. Len(Queued)
        missing == (1 .. accepted) \ (Denied \cup {Queued[x] : x \in all})
        onWay == master \in {"lock", "woken", "room", "wait"}
    IN /\ sq_head - sq_tail \in 0 .. QueueSize
       /\ \A x \in all : Queued[x] \in (1 .. accepted) \ Denied
       /\ \A x, y \in all : x < y => Queued[x] < Queued[y]
       /\ onWay => missing = {accepted}
       /\ ~ onWay => missing \subseteq (IF stop_flag # 0 THEN {accepted} ELSE {})

\* The context is freed when no worker uses it any more; only a worker that ran out
\* of memory while workers were being started makes the count of them wrong
\* (worker_thread, mg_start).
FreedLast ==
    owner = "stopped" => poor \/ \A w \in Worker : thread[w] = "gone"

\* Threads: the ring, and the end of the context that they share.
ThreadsHold == RingHolds /\ FreedLast

AllGone == \A w \in Worker : thread[w] = "gone"

\* The server can never end: a worker had found nothing to do when the server was stopped
\* and began to wait only after the others were woken; or the master waits for room in
\* the ring and the workers have looked at it for the last time before it did; or memory
\* ran out while workers were being started and the count of them came out too high, or
\* so low that the assertion failed.
Stranded ==
    \/ \E w \in missed : thread[w] = "waiting"
    \/ master = "wait" /\ AllGone
    \/ poor /\ master = "waitThreads" /\ AllGone
    \/ poor /\ owner = "aborted"

\* StopListening returns, the master having joined the workers and freed the context:
\* unless a worker missed the broadcast, which master_thread sends without the mutex; or
\* no worker is left to signal sq_empty to a master that waits on it, as the last ones
\* look at stop_flag after they have given up the mutex; or the count of the workers is
\* wrong, which mg_start increments without the mutex (mg_stop, master_thread,
\* worker_thread, produce_socket, consume_socket).
StopReturns == owner = "stopping" ~> owner = "stopped" \/ Stranded

\* Every client that connects is served and its socket closed while the server runs
\* and has a worker.
ClientsServed ==
    \A s \in Socket :
        arrived >= s ~> s \in closed \/ owner # "running" \/ AllGone
================================================================================
