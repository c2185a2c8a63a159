------------------------------- MODULE PoolProofs -------------------------------
(***************************************************************************)
(* The threads of the HTTP server, for any number of workers and clients,  *)
(* any ring and any access control list: every socket is taken from the    *)
(* ring once and in order, and the context is freed after its last user    *)
(* unless memory ran out while workers were being started.  And the        *)
(* connection that a worker serves, for any messages, packets and buffer.  *)
(***************************************************************************)
EXTENDS HttpPool, HttpConnection, FiniteSetTheorems, SequenceTheorems, TLAPS

--------------------------------------------------------------------------------
(* The inductive invariant. *)

Owners == {"off", "starting", "load", "store", "running", "stopping", "stopped", "aborted"}
OnTheWay == {"lock", "woken", "room", "wait"}
Ending == {"broadcast", "join", "count", "waitThreads", "joining", "done"}
Masters == {"none", "poll"} \cup OnTheWay \cup Ending
Threads == {"none", "born", "lock", "check", "wait", "waiting", "grabbed", "serve", "quit",
            "load", "store", "gone"}
Locked == {"check", "wait", "load", "store"}

PoolTypeOK ==
    /\ owner \in Owners /\ stop_flag \in {0, 1, 2}
    /\ num_threads \in Int /\ loaded \in [Worker \cup {Owner} -> Int]
    /\ arrived \in Nat /\ accepted \in Nat
    /\ queue \in [0 .. QueueSize - 1 -> Nat]
    /\ sq_head \in Nat /\ sq_tail \in 0 .. QueueSize
    /\ sq_head - sq_tail \in 0 .. QueueSize
    /\ master \in Masters /\ thread \in [Worker -> Threads]
    /\ mutex \in Worker \cup {Nobody, Master} /\ sq_full \subseteq Worker
    /\ grabbed \in Seq(Nat) /\ poor \in BOOLEAN

\* Who has the mutex is where it is held, and who waits for a socket is told to the ones
\* that have some.
MutexInv ==
    /\ \A w \in Worker : mutex = w <=> thread[w] \in Locked
    /\ mutex = Master <=> master \in {"room", "count"}
    /\ \A w \in sq_full : thread[w] = "waiting"

\* The owner, stop_flag and the master go through the same phases.
PhaseInv ==
    /\ owner \in {"off", "starting", "load", "store", "running"} => stop_flag = 0
    /\ owner = "stopped" => stop_flag = 2
    /\ master \in Ending => stop_flag # 0
    /\ owner \in {"running", "stopping", "stopped"} => \A w \in Worker : thread[w] # "none"
    /\ owner = "off" => master = "none" /\ \A w \in Worker : thread[w] = "none"
    /\ ~ poor /\ stop_flag = 0 => \A w \in Worker : thread[w] \notin {"quit", "load", "store"}

\* While memory lasts, nobody changes num_threads at the same time as another, and it is
\* the number of workers, but for the one just made.
Live == {w \in Worker : thread[w] \notin {"none", "gone"}}
NotYet == IF owner \in {"load", "store"} THEN 1 ELSE 0
CountInv ==
    ~ poor /\ owner # "aborted" =>
      /\ num_threads + NotYet = Cardinality(Live)
      /\ owner = "store" => loaded[Owner] = num_threads
      /\ \A w \in Worker : thread[w] = "store" => loaded[w] = num_threads
      /\ stop_flag = 2 => Live = {}

\* The k-th socket that was ever put into the ring, and their number.
QueuedAt(k) ==
    IF k <= Len(grabbed) THEN grabbed[k]
    ELSE queue[(sq_tail + (k - Len(grabbed)) - 1) % QueueSize]
Total == Len(grabbed) + (sq_head - sq_tail)

RingInv ==
    /\ \A k \in 1 .. Total : QueuedAt(k) \in 1 .. accepted /\ QueuedAt(k) \notin Denied
    /\ \A k, m \in 1 .. Total : k < m => QueuedAt(k) < QueuedAt(m)
    /\ \A s \in 1 .. accepted : s \notin Denied =>
         \/ \E k \in 1 .. Total : QueuedAt(k) = s
         \/ s = accepted /\ (master \in OnTheWay \/ stop_flag # 0)
    /\ master \in OnTheWay =>
         /\ accepted \in 1 .. accepted /\ accepted \notin Denied
         /\ \A k \in 1 .. Total : QueuedAt(k) # accepted

PoolInv == PoolTypeOK /\ MutexInv /\ PhaseInv /\ CountInv /\ RingInv

--------------------------------------------------------------------------------
(* Types, mutex and phases: one lemma per action. *)

Shape == PoolTypeOK /\ MutexInv /\ PhaseInv

LEMMA Names == /\ Worker \cap {Nobody, Owner, Master} = {} /\ QueueSize \in Nat \ {0}
               /\ Nobody # Master /\ Nobody # Owner /\ Owner # Master
  BY PoolAssumption DEF Nobody, Owner, Master

LEMMA ShapeInit == PoolInit => Shape
<1> SUFFICES ASSUME PoolInit PROVE Shape
  OBVIOUS
<1>1. /\ owner = "off" /\ stop_flag = 0 /\ num_threads = 0
      /\ loaded = [t \in Worker \cup {Owner} |-> 0]
      /\ arrived = 0 /\ accepted = 0 /\ sq_head = 0 /\ sq_tail = 0
      /\ queue = [x \in 0 .. QueueSize - 1 |-> 0]
      /\ master = "none" /\ thread = [w \in Worker |-> "none"]
      /\ mutex = Nobody /\ sq_full = {} /\ grabbed = <<>> /\ poor = FALSE
  BY DEF PoolInit
<1>2. PoolTypeOK
  <2>1. QueueSize \in Nat \ {0}  BY Names
  <2>2. /\ owner \in Owners /\ stop_flag \in {0, 1, 2} /\ num_threads \in Int
        /\ arrived \in Nat /\ accepted \in Nat /\ sq_head \in Nat /\ sq_tail \in 0 .. QueueSize
        /\ sq_head - sq_tail \in 0 .. QueueSize /\ master \in Masters
        /\ mutex \in Worker \cup {Nobody, Master} /\ sq_full \subseteq Worker
        /\ poor \in BOOLEAN
    BY <1>1, <2>1 DEF Owners, Masters
  <2>3. loaded \in [Worker \cup {Owner} -> Int]  BY <1>1
  <2>4. queue \in [0 .. QueueSize - 1 -> Nat]  BY <1>1
  <2>5. thread \in [Worker -> Threads]  BY <1>1 DEF Threads
  <2>6. grabbed \in Seq(Nat)  BY <1>1
  <2> QED BY <2>2, <2>3, <2>4, <2>5, <2>6 DEF PoolTypeOK
<1>3. MutexInv
  BY <1>1, Names DEF MutexInv, Locked
<1>4. PhaseInv
  BY <1>1 DEF PhaseInv, Ending, OnTheWay
<1> QED BY <1>2, <1>3, <1>4 DEF Shape

LEMMA ConnectShape == ASSUME Shape, Connect PROVE Shape'
<1> USE Names DEF Shape, Connect, context
<1>1. PoolTypeOK'
  BY DEF PoolTypeOK, MutexInv, PhaseInv, Owners, Masters, Threads, Locked, OnTheWay, Ending
<1>2. MutexInv'
  BY DEF PoolTypeOK, MutexInv, Masters, Threads, Locked, OnTheWay, Ending
<1>3. PhaseInv'
  BY DEF PoolTypeOK, PhaseInv, Owners, Masters, Threads, OnTheWay, Ending, MutexInv
<1>4. QED
  BY <1>1, <1>2, <1>3

LEMMA StartListeningShape == ASSUME Shape, StartListening PROVE Shape'
<1> USE Names DEF Shape, StartListening, context
<1>1. PoolTypeOK'
  BY DEF PoolTypeOK, MutexInv, PhaseInv, Owners, Masters, Threads, Locked, OnTheWay, Ending
<1>2. MutexInv'
  BY DEF PoolTypeOK, MutexInv, PhaseInv, Masters, Threads, Locked, OnTheWay, Ending
<1>3. PhaseInv'
  BY DEF PoolTypeOK, PhaseInv, Owners, Masters, Threads, OnTheWay, Ending, MutexInv
<1>4. QED
  BY <1>1, <1>2, <1>3

LEMMA StartWorkerShape == ASSUME NEW w \in Worker, Shape, StartWorker(w) PROVE Shape'
<1> USE Names DEF Shape, StartWorker, context
<1>1. PoolTypeOK'
  BY DEF PoolTypeOK, MutexInv, PhaseInv, Owners, Masters, Threads, Locked, OnTheWay, Ending
<1>2. MutexInv'
  <2>1. PICK new \in {"born", "gone"} : thread' = [thread EXCEPT ![w] = new]
    OBVIOUS
  <2>2. /\ thread[w] = "none" /\ UNCHANGED <<master, mutex, sq_full>>
        /\ thread \in [Worker -> Threads]
    BY DEF PoolTypeOK
  <2>3. thread'[w] = new /\ \A v \in Worker \ {w} : thread'[v] = thread[v]
    BY <2>1, <2>2
  <2>4. QED
    BY <2>2, <2>3 DEF MutexInv, Locked, PoolTypeOK
<1>3. PhaseInv'
  BY DEF PoolTypeOK, PhaseInv, Owners, Masters, Threads, OnTheWay, Ending, MutexInv
<1>4. QED
  BY <1>1, <1>2, <1>3

LEMMA LoadThreadsShape == ASSUME Shape, LoadThreads PROVE Shape'
<1> USE Names DEF Shape, LoadThreads, context
<1>1. PoolTypeOK'
  BY DEF PoolTypeOK, MutexInv, PhaseInv, Owners, Masters, Threads, Locked, OnTheWay, Ending
<1>2. MutexInv'
  BY DEF PoolTypeOK, MutexInv, Masters, Threads, Locked, OnTheWay, Ending
<1>3. PhaseInv'
  BY DEF PoolTypeOK, PhaseInv, Owners, Masters, Threads, OnTheWay, Ending, MutexInv
<1>4. QED
  BY <1>1, <1>2, <1>3

LEMMA StoreThreadsShape == ASSUME Shape, StoreThreads PROVE Shape'
<1> USE Names DEF Shape, StoreThreads, context
<1>1. PoolTypeOK'
  BY DEF PoolTypeOK, MutexInv, PhaseInv, Owners, Masters, Threads, Locked, OnTheWay, Ending
<1>2. MutexInv'
  BY DEF PoolTypeOK, MutexInv, Masters, Threads, Locked, OnTheWay, Ending
<1>3. PhaseInv'
  BY DEF PoolTypeOK, PhaseInv, Owners, Masters, Threads, OnTheWay, Ending, MutexInv
<1>4. QED
  BY <1>1, <1>2, <1>3

LEMMA StartedShape == ASSUME Shape, Started PROVE Shape'
<1> USE Names DEF Shape, Started, context
<1>1. PoolTypeOK'
  BY DEF PoolTypeOK, MutexInv, PhaseInv, Owners, Masters, Threads, Locked, OnTheWay, Ending
<1>2. MutexInv'
  BY DEF PoolTypeOK, MutexInv, Masters, Threads, Locked, OnTheWay, Ending
<1>3. PhaseInv'
  BY DEF PoolTypeOK, PhaseInv, Owners, Masters, Threads, OnTheWay, Ending, MutexInv
<1>4. QED
  BY <1>1, <1>2, <1>3

LEMMA StopListeningShape == ASSUME Shape, StopListening PROVE Shape'
<1> USE Names DEF Shape, StopListening, context
<1>1. PoolTypeOK'
  BY DEF PoolTypeOK, MutexInv, PhaseInv, Owners, Masters, Threads, Locked, OnTheWay, Ending
<1>2. MutexInv'
  BY DEF PoolTypeOK, MutexInv, Masters, Threads, Locked, OnTheWay, Ending
<1>3. PhaseInv'
  BY DEF PoolTypeOK, PhaseInv, Owners, Masters, Threads, OnTheWay, Ending, MutexInv
<1>4. QED
  BY <1>1, <1>2, <1>3

LEMMA StoppedShape == ASSUME Shape, Stopped PROVE Shape'
<1> USE Names DEF Shape, Stopped, context
<1>1. PoolTypeOK'
  BY DEF PoolTypeOK, MutexInv, PhaseInv, Owners, Masters, Threads, Locked, OnTheWay, Ending
<1>2. MutexInv'
  BY DEF PoolTypeOK, MutexInv, Masters, Threads, Locked, OnTheWay, Ending
<1>3. PhaseInv'
  BY DEF PoolTypeOK, PhaseInv, Owners, Masters, Threads, OnTheWay, Ending, MutexInv
<1>4. QED
  BY <1>1, <1>2, <1>3

LEMMA PollShape == ASSUME Shape, Poll PROVE Shape'
<1> USE Names DEF Shape, Poll, context
<1>1. PoolTypeOK'
  BY DEF PoolTypeOK, MutexInv, PhaseInv, Owners, Masters, Threads, Locked, OnTheWay, Ending
<1>2. MutexInv'
  BY DEF PoolTypeOK, MutexInv, Masters, Threads, Locked, OnTheWay, Ending
<1>3. PhaseInv'
  BY DEF PoolTypeOK, PhaseInv, Owners, Masters, Threads, OnTheWay, Ending, MutexInv
<1>4. QED
  BY <1>1, <1>2, <1>3

LEMMA LockMasterShape == ASSUME Shape, LockMaster PROVE Shape'
<1> USE Names DEF Shape, LockMaster, context
<1>1. PoolTypeOK'
  BY DEF PoolTypeOK, MutexInv, PhaseInv, Owners, Masters, Threads, Locked, OnTheWay, Ending
<1>2. MutexInv'
  BY DEF PoolTypeOK, MutexInv, Masters, Threads, Locked, OnTheWay, Ending
<1>3. PhaseInv'
  BY DEF PoolTypeOK, PhaseInv, Owners, Masters, Threads, OnTheWay, Ending, MutexInv
<1>4. QED
  BY <1>1, <1>2, <1>3

LEMMA produce_socketShape == ASSUME Shape, produce_socket PROVE Shape'
<1> USE Names DEF Shape, produce_socket, context, SignalFull, Put, Full
<1>1. PoolTypeOK'
  <2>1. sq_head \in Nat /\ sq_tail \in Nat /\ QueueSize \in Nat /\ accepted \in Nat
    BY DEF PoolTypeOK
  <2>2. queue' \in [0 .. QueueSize - 1 -> Nat]
    BY <2>1 DEF PoolTypeOK
  <2>3. sq_head' \in Nat /\ sq_head' - sq_tail' \in 0 .. QueueSize /\ sq_tail' \in 0 .. QueueSize
    <3>1. /\ sq_tail' = sq_tail
          /\ sq_head' = sq_head \/ (sq_head' = sq_head + 1 /\ ~ (sq_head - sq_tail >= QueueSize))
      OBVIOUS
    <3>2. sq_tail \in 0 .. QueueSize /\ sq_head - sq_tail \in 0 .. QueueSize
      BY DEF PoolTypeOK
    <3> HIDE DEF Shape, produce_socket, Put, Full
    <3>3. QED
      BY <2>1, <3>1, <3>2
  <2>4. /\ thread' \in [Worker -> Threads] /\ sq_full' \subseteq Worker /\ master' \in Masters
        /\ mutex' \in Worker \cup {Nobody, Master}
    BY DEF PoolTypeOK, Threads, Masters, OnTheWay
  <2>5. QED
    BY <2>2, <2>3, <2>4 DEF PoolTypeOK
<1>2. MutexInv'
  BY DEF PoolTypeOK, MutexInv, Masters, Threads, Locked, OnTheWay, Ending
<1>3. PhaseInv'
  BY DEF PoolTypeOK, PhaseInv, Owners, Masters, Threads, OnTheWay, Ending, MutexInv
<1>4. QED
  BY <1>1, <1>2, <1>3

LEMMA BroadcastShape == ASSUME Shape, Broadcast PROVE Shape'
<1> USE Names DEF Shape, Broadcast, context
<1>1. PoolTypeOK'
  BY DEF PoolTypeOK, MutexInv, PhaseInv, Owners, Masters, Threads, Locked, OnTheWay, Ending
<1>2. MutexInv'
  BY DEF PoolTypeOK, MutexInv, Masters, Threads, Locked, OnTheWay, Ending
<1>3. PhaseInv'
  BY DEF PoolTypeOK, PhaseInv, Owners, Masters, Threads, OnTheWay, Ending, MutexInv
<1>4. QED
  BY <1>1, <1>2, <1>3

LEMMA JoinShape == ASSUME Shape, Join PROVE Shape'
<1> USE Names DEF Shape, Join, context, Awaits
<1>1. PoolTypeOK'
  BY DEF PoolTypeOK, MutexInv, PhaseInv, Owners, Masters, Threads, Locked, OnTheWay, Ending
<1>2. MutexInv'
  BY DEF PoolTypeOK, MutexInv, Masters, Threads, Locked, OnTheWay, Ending
<1>3. PhaseInv'
  BY DEF PoolTypeOK, PhaseInv, Owners, Masters, Threads, OnTheWay, Ending, MutexInv
<1>4. QED
  BY <1>1, <1>2, <1>3

LEMMA AllocateShape == ASSUME NEW w \in Worker, Shape, Allocate(w) PROVE Shape'
<1> USE Names DEF Shape, Allocate, context, WorkerStep
<1>1. PoolTypeOK'
  BY ZenonT(40) DEF PoolTypeOK, MutexInv, PhaseInv, Owners, Masters, Threads, Locked, OnTheWay, Ending
<1>2. MutexInv'
  BY DEF PoolTypeOK, MutexInv, Masters, Threads, Locked, OnTheWay, Ending
<1>3. PhaseInv'
  BY DEF PoolTypeOK, PhaseInv, Owners, Masters, Threads, OnTheWay, Ending, MutexInv
<1>4. QED
  BY <1>1, <1>2, <1>3

LEMMA LockWorkerShape == ASSUME NEW w \in Worker, Shape, LockWorker(w) PROVE Shape'
<1> USE Names DEF Shape, LockWorker, context, WorkerStep
<1>1. PoolTypeOK'
  BY DEF PoolTypeOK, MutexInv, PhaseInv, Owners, Masters, Threads, Locked, OnTheWay, Ending
<1>2. MutexInv'
  BY DEF PoolTypeOK, MutexInv, Masters, Threads, Locked, OnTheWay, Ending
<1>3. PhaseInv'
  BY DEF PoolTypeOK, PhaseInv, Owners, Masters, Threads, OnTheWay, Ending, MutexInv
<1>4. QED
  BY <1>1, <1>2, <1>3

LEMMA CheckQueueShape == ASSUME NEW w \in Worker, Shape, CheckQueue(w) PROVE Shape'
<1> USE Names DEF Shape, CheckQueue, context, Wrap, Wraps, SignalEmpty, MustWait, EmptyQueue, Grabs, WorkerStep
<1>1. PoolTypeOK'
  <2>1. /\ sq_head \in Nat /\ sq_tail \in 0 .. QueueSize /\ QueueSize \in Nat \ {0}
        /\ sq_head - sq_tail \in 0 .. QueueSize
    BY DEF PoolTypeOK
  <2>2. /\ sq_head' \in Nat /\ sq_tail' \in 0 .. QueueSize
        /\ sq_head' - sq_tail' \in 0 .. QueueSize
    BY <2>1
  <2>3. grabbed' \in Seq(Nat)
    <3>1. queue[sq_tail % QueueSize] \in Nat
      <4>1. sq_tail % QueueSize \in 0 .. QueueSize - 1
        BY <2>1
      <4>2. QED
        BY <4>1 DEF PoolTypeOK
    <3>2. grabbed' = grabbed \/ grabbed' = Append(grabbed, queue[sq_tail % QueueSize])
      OBVIOUS
    <3>3. grabbed \in Seq(Nat)
      BY DEF PoolTypeOK
    <3> HIDE DEF Shape, CheckQueue
    <3>4. QED
      BY <3>1, <3>2, <3>3, SMTT(30)
  <2>4. /\ thread' \in [Worker -> Threads] /\ master' \in Masters
        /\ mutex' \in Worker \cup {Nobody, Master}
    BY DEF PoolTypeOK, Threads, Masters, OnTheWay
  <2>5. QED
    BY <2>2, <2>3, <2>4 DEF PoolTypeOK
<1>2. MutexInv'
  BY DEF PoolTypeOK, MutexInv, Masters, Threads, Locked, OnTheWay, Ending
<1>3. PhaseInv'
  BY DEF PoolTypeOK, PhaseInv, Owners, Masters, Threads, OnTheWay, Ending, MutexInv
<1>4. QED
  BY <1>1, <1>2, <1>3

LEMMA WaitFullShape == ASSUME NEW w \in Worker, Shape, WaitFull(w) PROVE Shape'
<1> USE Names DEF Shape, WaitFull, context, WorkerStep
<1>1. PoolTypeOK'
  BY DEF PoolTypeOK, MutexInv, PhaseInv, Owners, Masters, Threads, Locked, OnTheWay, Ending
<1>2. MutexInv'
  BY DEF PoolTypeOK, MutexInv, Masters, Threads, Locked, OnTheWay, Ending
<1>3. PhaseInv'
  BY DEF PoolTypeOK, PhaseInv, Owners, Masters, Threads, OnTheWay, Ending, MutexInv
<1>4. QED
  BY <1>1, <1>2, <1>3

LEMMA DecideShape == ASSUME NEW w \in Worker, Shape, Decide(w) PROVE Shape'
<1> USE Names DEF Shape, Decide, context, WorkerStep
<1>1. PoolTypeOK'
  BY DEF PoolTypeOK, MutexInv, PhaseInv, Owners, Masters, Threads, Locked, OnTheWay, Ending
<1>2. MutexInv'
  BY DEF PoolTypeOK, MutexInv, Masters, Threads, Locked, OnTheWay, Ending
<1>3. PhaseInv'
  BY DEF PoolTypeOK, PhaseInv, Owners, Masters, Threads, OnTheWay, Ending, MutexInv
<1>4. QED
  BY <1>1, <1>2, <1>3

LEMMA ServeShape == ASSUME NEW w \in Worker, Shape, Serve(w) PROVE Shape'
<1> USE Names DEF Shape, Serve, context, WorkerStep
<1>1. PoolTypeOK'
  BY DEF PoolTypeOK, MutexInv, PhaseInv, Owners, Masters, Threads, Locked, OnTheWay, Ending
<1>2. MutexInv'
  BY DEF PoolTypeOK, MutexInv, Masters, Threads, Locked, OnTheWay, Ending
<1>3. PhaseInv'
  BY DEF PoolTypeOK, PhaseInv, Owners, Masters, Threads, OnTheWay, Ending, MutexInv
<1>4. QED
  BY <1>1, <1>2, <1>3

LEMMA LoadExitShape == ASSUME NEW w \in Worker, Shape, LoadExit(w) PROVE Shape'
<1> USE Names DEF Shape, LoadExit, context, WorkerStep
<1>1. PoolTypeOK'
  BY DEF PoolTypeOK, MutexInv, PhaseInv, Owners, Masters, Threads, Locked, OnTheWay, Ending
<1>2. MutexInv'
  BY DEF PoolTypeOK, MutexInv, Masters, Threads, Locked, OnTheWay, Ending
<1>3. PhaseInv'
  BY DEF PoolTypeOK, PhaseInv, Owners, Masters, Threads, OnTheWay, Ending, MutexInv
<1>4. QED
  BY <1>1, <1>2, <1>3

LEMMA StoreExitShape == ASSUME NEW w \in Worker, Shape, StoreExit(w) PROVE Shape'
<1> USE Names DEF Shape, StoreExit, SignalEnd, context, WorkerStep
<1>1. PoolTypeOK'
  BY DEF PoolTypeOK, MutexInv, PhaseInv, Owners, Masters, Threads, Locked, OnTheWay, Ending
<1>2. MutexInv'
  BY DEF PoolTypeOK, MutexInv, Masters, Threads, Locked, OnTheWay, Ending
<1>3. PhaseInv'
  BY DEF PoolTypeOK, PhaseInv, Owners, Masters, Threads, OnTheWay, Ending, MutexInv
<1>4. QED
  BY <1>1, <1>2, <1>3

--------------------------------------------------------------------------------
(* The count of the workers. *)

LEMMA LiveFinite == IsFiniteSet(Live) /\ Cardinality(Live) \in Nat
<1>1. IsFiniteSet(Worker) /\ Live \subseteq Worker
  BY PoolAssumption DEF Live
<1>2. QED
  BY <1>1, FS_Subset, FS_CardinalityType

LEMMA CountInit == ASSUME PoolInit PROVE CountInv
<1>1. Live = {} /\ num_threads = 0 /\ NotYet = 0
  BY DEF PoolInit, Live, NotYet
<1>2. Cardinality({}) = 0
  BY FS_EmptySet
<1>3. QED
  BY <1>1, <1>2 DEF PoolInit, CountInv

\* What counts is who is there, who is being made and who is about to go.
LEMMA CountStays ==
    ASSUME CountInv, owner # "aborted", num_threads' = num_threads, loaded' = loaded,
           stop_flag' = 2 => stop_flag = 2, poor => poor',
           NotYet' = NotYet, owner' = "store" => owner = "store",
           \A v \in Worker : thread'[v] \in {"none", "gone"} <=> thread[v] \in {"none", "gone"},
           \A v \in Worker : thread'[v] = "store" => thread[v] = "store"
    PROVE  CountInv'
<1>1. Live' = Live
  BY DEF Live
<1>2. QED
  BY <1>1 DEF CountInv

LEMMA ConnectCount ==
    ASSUME Shape, CountInv, owner # "aborted", Connect PROVE CountInv'
<1>1. /\ num_threads' = num_threads /\ loaded' = loaded /\ (stop_flag' = 2 => stop_flag = 2)
      /\ (poor => poor') /\ NotYet' = NotYet /\ (owner' = "store" => owner = "store")
  BY DEF Connect, context, NotYet
<1>2. /\ \A v \in Worker : thread'[v] \in {"none", "gone"} <=> thread[v] \in {"none", "gone"}
      /\ \A v \in Worker : thread'[v] = "store" => thread[v] = "store"
  BY DEF Connect, Shape, PoolTypeOK
<1>3. QED
  BY <1>1, <1>2, CountStays

LEMMA StartListeningCount ==
    ASSUME Shape, CountInv, owner # "aborted", StartListening PROVE CountInv'
<1>1. /\ num_threads' = num_threads /\ loaded' = loaded /\ (stop_flag' = 2 => stop_flag = 2)
      /\ (poor => poor') /\ NotYet' = NotYet /\ (owner' = "store" => owner = "store")
  BY DEF StartListening, context, NotYet
<1>2. /\ \A v \in Worker : thread'[v] \in {"none", "gone"} <=> thread[v] \in {"none", "gone"}
      /\ \A v \in Worker : thread'[v] = "store" => thread[v] = "store"
  BY DEF StartListening, Shape, PoolTypeOK
<1>3. QED
  BY <1>1, <1>2, CountStays

LEMMA StartedCount ==
    ASSUME Shape, CountInv, owner # "aborted", Started PROVE CountInv'
<1>1. /\ num_threads' = num_threads /\ loaded' = loaded /\ (stop_flag' = 2 => stop_flag = 2)
      /\ (poor => poor') /\ NotYet' = NotYet /\ (owner' = "store" => owner = "store")
  BY DEF Started, context, NotYet
<1>2. /\ \A v \in Worker : thread'[v] \in {"none", "gone"} <=> thread[v] \in {"none", "gone"}
      /\ \A v \in Worker : thread'[v] = "store" => thread[v] = "store"
  BY DEF Started, Shape, PoolTypeOK
<1>3. QED
  BY <1>1, <1>2, CountStays

LEMMA StopListeningCount ==
    ASSUME Shape, CountInv, owner # "aborted", StopListening PROVE CountInv'
<1>1. /\ num_threads' = num_threads /\ loaded' = loaded /\ (stop_flag' = 2 => stop_flag = 2)
      /\ (poor => poor') /\ NotYet' = NotYet /\ (owner' = "store" => owner = "store")
  BY DEF StopListening, context, NotYet
<1>2. /\ \A v \in Worker : thread'[v] \in {"none", "gone"} <=> thread[v] \in {"none", "gone"}
      /\ \A v \in Worker : thread'[v] = "store" => thread[v] = "store"
  BY DEF StopListening, Shape, PoolTypeOK
<1>3. QED
  BY <1>1, <1>2, CountStays

LEMMA StoppedCount ==
    ASSUME Shape, CountInv, owner # "aborted", Stopped PROVE CountInv'
<1>1. /\ num_threads' = num_threads /\ loaded' = loaded /\ (stop_flag' = 2 => stop_flag = 2)
      /\ (poor => poor') /\ NotYet' = NotYet /\ (owner' = "store" => owner = "store")
  BY DEF Stopped, context, NotYet
<1>2. /\ \A v \in Worker : thread'[v] \in {"none", "gone"} <=> thread[v] \in {"none", "gone"}
      /\ \A v \in Worker : thread'[v] = "store" => thread[v] = "store"
  BY DEF Stopped, Shape, PoolTypeOK
<1>3. QED
  BY <1>1, <1>2, CountStays

LEMMA PollCount ==
    ASSUME Shape, CountInv, owner # "aborted", Poll PROVE CountInv'
<1>1. /\ num_threads' = num_threads /\ loaded' = loaded /\ (stop_flag' = 2 => stop_flag = 2)
      /\ (poor => poor') /\ NotYet' = NotYet /\ (owner' = "store" => owner = "store")
  BY DEF Poll, context, NotYet
<1>2. /\ \A v \in Worker : thread'[v] \in {"none", "gone"} <=> thread[v] \in {"none", "gone"}
      /\ \A v \in Worker : thread'[v] = "store" => thread[v] = "store"
  BY DEF Poll, Shape, PoolTypeOK
<1>3. QED
  BY <1>1, <1>2, CountStays

LEMMA LockMasterCount ==
    ASSUME Shape, CountInv, owner # "aborted", LockMaster PROVE CountInv'
<1>1. /\ num_threads' = num_threads /\ loaded' = loaded /\ (stop_flag' = 2 => stop_flag = 2)
      /\ (poor => poor') /\ NotYet' = NotYet /\ (owner' = "store" => owner = "store")
  BY DEF LockMaster, context, NotYet
<1>2. /\ \A v \in Worker : thread'[v] \in {"none", "gone"} <=> thread[v] \in {"none", "gone"}
      /\ \A v \in Worker : thread'[v] = "store" => thread[v] = "store"
  BY DEF LockMaster, Shape, PoolTypeOK
<1>3. QED
  BY <1>1, <1>2, CountStays

LEMMA produce_socketCount ==
    ASSUME Shape, CountInv, owner # "aborted", produce_socket PROVE CountInv'
<1>1. /\ num_threads' = num_threads /\ loaded' = loaded /\ (stop_flag' = 2 => stop_flag = 2)
      /\ (poor => poor') /\ NotYet' = NotYet /\ (owner' = "store" => owner = "store")
  BY DEF produce_socket, context, NotYet
<1>2. /\ \A v \in Worker : thread'[v] \in {"none", "gone"} <=> thread[v] \in {"none", "gone"}
      /\ \A v \in Worker : thread'[v] = "store" => thread[v] = "store"
  BY DEF produce_socket, Shape, PoolTypeOK, SignalFull, MutexInv
<1>3. QED
  BY <1>1, <1>2, CountStays

LEMMA BroadcastCount ==
    ASSUME Shape, CountInv, owner # "aborted", Broadcast PROVE CountInv'
<1>1. /\ num_threads' = num_threads /\ loaded' = loaded /\ (stop_flag' = 2 => stop_flag = 2)
      /\ (poor => poor') /\ NotYet' = NotYet /\ (owner' = "store" => owner = "store")
  BY DEF Broadcast, context, NotYet
<1>2. /\ \A v \in Worker : thread'[v] \in {"none", "gone"} <=> thread[v] \in {"none", "gone"}
      /\ \A v \in Worker : thread'[v] = "store" => thread[v] = "store"
  BY DEF Broadcast, Shape, PoolTypeOK, MutexInv, Ending, PhaseInv
<1>3. QED
  BY <1>1, <1>2, CountStays

LEMMA AllocateCount ==
    ASSUME NEW w \in Worker, Shape, CountInv, owner # "aborted", Allocate(w) PROVE CountInv'
<1>1. /\ num_threads' = num_threads /\ loaded' = loaded /\ (stop_flag' = 2 => stop_flag = 2)
      /\ (poor => poor') /\ NotYet' = NotYet /\ (owner' = "store" => owner = "store")
  BY DEF Allocate, context, NotYet, WorkerStep
<1>2. /\ \A v \in Worker : thread'[v] \in {"none", "gone"} <=> thread[v] \in {"none", "gone"}
      /\ \A v \in Worker : thread'[v] = "store" => thread[v] = "store"
  BY DEF Allocate, Shape, PoolTypeOK, WorkerStep
<1>3. QED
  BY <1>1, <1>2, CountStays

LEMMA LockWorkerCount ==
    ASSUME NEW w \in Worker, Shape, CountInv, owner # "aborted", LockWorker(w) PROVE CountInv'
<1>1. /\ num_threads' = num_threads /\ loaded' = loaded /\ (stop_flag' = 2 => stop_flag = 2)
      /\ (poor => poor') /\ NotYet' = NotYet /\ (owner' = "store" => owner = "store")
  BY DEF LockWorker, context, NotYet, WorkerStep
<1>2. /\ \A v \in Worker : thread'[v] \in {"none", "gone"} <=> thread[v] \in {"none", "gone"}
      /\ \A v \in Worker : thread'[v] = "store" => thread[v] = "store"
  BY DEF LockWorker, Shape, PoolTypeOK, WorkerStep
<1>3. QED
  BY <1>1, <1>2, CountStays

LEMMA CheckQueueCount ==
    ASSUME NEW w \in Worker, Shape, CountInv, owner # "aborted", CheckQueue(w) PROVE CountInv'
<1>1. /\ num_threads' = num_threads /\ loaded' = loaded /\ (stop_flag' = 2 => stop_flag = 2)
      /\ (poor => poor') /\ NotYet' = NotYet /\ (owner' = "store" => owner = "store")
  BY DEF CheckQueue, context, NotYet, WorkerStep
<1>2. /\ \A v \in Worker : thread'[v] \in {"none", "gone"} <=> thread[v] \in {"none", "gone"}
      /\ \A v \in Worker : thread'[v] = "store" => thread[v] = "store"
  BY DEF CheckQueue, Shape, PoolTypeOK, WorkerStep
<1>3. QED
  BY <1>1, <1>2, CountStays

LEMMA WaitFullCount ==
    ASSUME NEW w \in Worker, Shape, CountInv, owner # "aborted", WaitFull(w) PROVE CountInv'
<1>1. /\ num_threads' = num_threads /\ loaded' = loaded /\ (stop_flag' = 2 => stop_flag = 2)
      /\ (poor => poor') /\ NotYet' = NotYet /\ (owner' = "store" => owner = "store")
  BY DEF WaitFull, context, NotYet, WorkerStep
<1>2. /\ \A v \in Worker : thread'[v] \in {"none", "gone"} <=> thread[v] \in {"none", "gone"}
      /\ \A v \in Worker : thread'[v] = "store" => thread[v] = "store"
  BY DEF WaitFull, Shape, PoolTypeOK, WorkerStep
<1>3. QED
  BY <1>1, <1>2, CountStays

LEMMA DecideCount ==
    ASSUME NEW w \in Worker, Shape, CountInv, owner # "aborted", Decide(w) PROVE CountInv'
<1>1. /\ num_threads' = num_threads /\ loaded' = loaded /\ (stop_flag' = 2 => stop_flag = 2)
      /\ (poor => poor') /\ NotYet' = NotYet /\ (owner' = "store" => owner = "store")
  BY DEF Decide, context, NotYet, WorkerStep
<1>2. /\ \A v \in Worker : thread'[v] \in {"none", "gone"} <=> thread[v] \in {"none", "gone"}
      /\ \A v \in Worker : thread'[v] = "store" => thread[v] = "store"
  BY DEF Decide, Shape, PoolTypeOK, WorkerStep
<1>3. QED
  BY <1>1, <1>2, CountStays

LEMMA ServeCount ==
    ASSUME NEW w \in Worker, Shape, CountInv, owner # "aborted", Serve(w) PROVE CountInv'
<1>1. /\ num_threads' = num_threads /\ loaded' = loaded /\ (stop_flag' = 2 => stop_flag = 2)
      /\ (poor => poor') /\ NotYet' = NotYet /\ (owner' = "store" => owner = "store")
  BY DEF Serve, context, NotYet, WorkerStep
<1>2. /\ \A v \in Worker : thread'[v] \in {"none", "gone"} <=> thread[v] \in {"none", "gone"}
      /\ \A v \in Worker : thread'[v] = "store" => thread[v] = "store"
  BY DEF Serve, Shape, PoolTypeOK, WorkerStep
<1>3. QED
  BY <1>1, <1>2, CountStays

\* A worker that is made is counted a little later; one that cannot be made, never.
LEMMA StartWorkerCount ==
    ASSUME NEW w \in Worker, Shape, CountInv, owner # "aborted", StartWorker(w) PROVE CountInv'
<1>1. /\ UNCHANGED <<num_threads, loaded, stop_flag, poor>> /\ owner = "starting"
      /\ thread[w] = "none" /\ thread \in [Worker -> Threads]
  BY DEF StartWorker, context, Shape, PoolTypeOK
<1>2. CASE thread' = [thread EXCEPT ![w] = "gone"] /\ owner' = owner
  <2>1. NotYet' = NotYet
    BY <1>2 DEF NotYet
  <2>2. \A v \in Worker : thread'[v] \in {"none", "gone"} <=> thread[v] \in {"none", "gone"}
    BY <1>1, <1>2
  <2>3. \A v \in Worker : thread'[v] = "store" => thread[v] = "store"
    BY <1>1, <1>2
  <2>4. QED
    BY <1>1, <1>2, <2>1, <2>2, <2>3, CountStays
<1>3. CASE thread' = [thread EXCEPT ![w] = "born"] /\ owner' = "load"
  <2>1. Live' = Live \cup {w} /\ w \notin Live
    BY <1>1, <1>3 DEF Live
  <2>2. Cardinality(Live') = Cardinality(Live) + 1
    BY <2>1, LiveFinite, FS_AddElement
  <2>3. NotYet = 0 /\ NotYet' = 1
    BY <1>1, <1>3 DEF NotYet
  <2>4. \A v \in Worker : thread'[v] = "store" => thread[v] = "store"
    BY <1>1, <1>3
  <2>5. stop_flag = 0 /\ num_threads \in Int
    BY <1>1 DEF Shape, PhaseInv, PoolTypeOK
  <2>6. QED
    BY <1>1, <1>3, <2>2, <2>3, <2>4, <2>5, LiveFinite DEF CountInv
<1>4. QED
  BY <1>2, <1>3 DEF StartWorker

\* num_threads++ reads and writes without the mutex, but nobody else does so then.
LEMMA LoadThreadsCount ==
    ASSUME Shape, CountInv, owner # "aborted", LoadThreads PROVE CountInv'
<1>1. /\ UNCHANGED <<num_threads, stop_flag, poor, thread>> /\ owner = "load" /\ owner' = "store"
      /\ loaded' = [loaded EXCEPT ![Owner] = num_threads]
      /\ loaded \in [Worker \cup {Owner} -> Int]
  BY DEF LoadThreads, Shape, PoolTypeOK
<1>2. loaded'[Owner] = num_threads /\ \A w \in Worker : loaded'[w] = loaded[w]
  BY <1>1, Names
<1>3. Live' = Live /\ NotYet' = NotYet
  BY <1>1 DEF Live, NotYet
<1>4. QED
  BY <1>1, <1>2, <1>3 DEF CountInv

LEMMA StoreThreadsCount ==
    ASSUME Shape, CountInv, owner # "aborted", StoreThreads PROVE CountInv'
<1>1. /\ UNCHANGED <<loaded, stop_flag, poor, thread>> /\ owner = "store" /\ owner' = "starting"
      /\ num_threads' = loaded[Owner] + 1
  BY DEF StoreThreads
<1>2. SUFFICES ASSUME ~ poor PROVE CountInv'
  BY <1>1 DEF CountInv
<1>3. loaded[Owner] = num_threads /\ num_threads + NotYet = Cardinality(Live) /\ NotYet = 1
  BY <1>1, <1>2 DEF CountInv, NotYet
<1>4. stop_flag = 0 /\ \A w \in Worker : thread[w] # "store"
  BY <1>1, <1>2 DEF Shape, PhaseInv
<1>5. Live' = Live /\ NotYet' = 0
  BY <1>1 DEF Live, NotYet
<1>6. num_threads \in Int
  BY DEF Shape, PoolTypeOK
<1>7. QED
  BY <1>1, <1>3, <1>4, <1>5, <1>6 DEF CountInv

\* When the count is down to zero, there is none.
LEMMA JoinCount ==
    ASSUME Shape, CountInv, owner # "aborted", Join PROVE CountInv'
<1>1. /\ UNCHANGED <<owner, num_threads, loaded, thread, poor>> /\ master = "count"
      /\ num_threads > 0 => stop_flag' = stop_flag
  BY DEF Join, Awaits
<1>2. Live' = Live /\ NotYet' = NotYet
  BY <1>1 DEF Live, NotYet
<1>3. SUFFICES ASSUME ~ poor PROVE CountInv'
  BY <1>1 DEF CountInv
<1>4. NotYet = 0
  BY <1>1 DEF NotYet, Shape, PhaseInv, Ending
<1>5. ~ (num_threads > 0) => Live = {}
  <2>1. num_threads \in Int /\ num_threads = Cardinality(Live)
    BY <1>3, <1>4 DEF CountInv, Shape, PoolTypeOK
  <2>2. ~ (num_threads > 0) => Cardinality(Live) = 0
    BY <2>1, LiveFinite
  <2>3. QED
    BY <2>2, LiveFinite, FS_EmptySet
<1>6. QED
  BY <1>1, <1>2, <1>3, <1>5 DEF CountInv

\* num_threads-- is made of two steps, with the mutex.
LEMMA LoadExitCount ==
    ASSUME NEW w \in Worker, Shape, CountInv, owner # "aborted", LoadExit(w) PROVE CountInv'
<1>1. /\ UNCHANGED <<owner, num_threads, stop_flag, poor>> /\ mutex = w
      /\ thread[w] = "load" /\ thread' = [thread EXCEPT ![w] = "store"]
      /\ loaded' = [loaded EXCEPT ![w] = num_threads]
      /\ loaded \in [Worker \cup {Owner} -> Int] /\ thread \in [Worker -> Threads]
  BY DEF LoadExit, WorkerStep, Shape, PoolTypeOK
<1>2. /\ loaded'[w] = num_threads /\ loaded'[Owner] = loaded[Owner]
      /\ \A v \in Worker : v # w => thread[v] # "store"
  <2>1. \A v \in Worker : v # w => thread[v] # "store"
    BY <1>1 DEF Shape, MutexInv, Locked
  <2>2. QED
    BY <1>1, <2>1, Names
<1>3. \A v \in Worker : thread'[v] = "store" => v = w
  BY <1>1, <1>2
<1>4. Live' = Live /\ NotYet' = NotYet
  BY <1>1 DEF Live, NotYet
<1>5. QED
  BY <1>1, <1>2, <1>3, <1>4 DEF CountInv

LEMMA StoreExitCount ==
    ASSUME NEW w \in Worker, Shape, CountInv, owner # "aborted", StoreExit(w) PROVE CountInv'
<1>1. /\ UNCHANGED <<loaded, stop_flag, poor>> /\ mutex = w
      /\ thread[w] = "store" /\ thread' = [thread EXCEPT ![w] = "gone"]
      /\ num_threads' = loaded[w] - 1 /\ owner' \in {owner, "aborted"}
      /\ thread \in [Worker -> Threads]
  BY DEF StoreExit, WorkerStep, Shape, PoolTypeOK
<1>2. SUFFICES ASSUME ~ poor, owner' = owner PROVE CountInv'
  BY <1>1 DEF CountInv
<1>3. /\ num_threads + NotYet = Cardinality(Live) /\ loaded[w] = num_threads
      /\ stop_flag = 2 => Live = {}
  BY <1>1, <1>2 DEF CountInv
<1>4. stop_flag # 0 /\ NotYet = 0 /\ num_threads \in Int
  BY <1>1, <1>2 DEF Shape, PhaseInv, NotYet, PoolTypeOK
<1>5. w \in Live /\ Live' = Live \ {w}
  BY <1>1 DEF Live
<1>6. Cardinality(Live') = Cardinality(Live) - 1
  BY <1>5, LiveFinite, FS_RemoveElement
<1>7. \A v \in Worker : thread'[v] # "store"
  BY <1>1 DEF Shape, MutexInv, Locked
<1>8. NotYet' = 0 /\ owner' # "store" /\ stop_flag' # 2
  BY <1>1, <1>2, <1>3, <1>4, <1>5 DEF NotYet
<1>9. QED
  BY <1>1, <1>3, <1>4, <1>6, <1>7, <1>8, LiveFinite DEF CountInv

--------------------------------------------------------------------------------
(* The ring. *)

\* Its pointers are never further than twice its size.
LEMMA ModOnce ==
    ASSUME NEW a \in Nat, a < 2 * QueueSize
    PROVE  a % QueueSize = IF a < QueueSize THEN a ELSE a - QueueSize
<1>1. QueueSize \in Nat \ {0}
  BY Names
<1>2. CASE a < QueueSize
  BY <1>1, <1>2, SMT
<1>3. CASE a >= QueueSize
  <2>1. a - QueueSize \in 0 .. QueueSize - 1
    BY <1>1, <1>3
  <2>2. a % QueueSize = a - QueueSize
    BY <1>1, <1>3, <2>1, SMT
  <2>3. ~ (a < QueueSize)
    BY <1>1, <1>3
  <2>4. QED
    BY <2>2, <2>3
<1>4. QED
  BY <1>1, <1>2, <1>3

LEMMA RingInit == ASSUME PoolInit PROVE RingInv
<1>1. Total = 0 /\ accepted = 0 /\ master = "none"
  BY DEF PoolInit, Total
<1>2. QED
  BY <1>1 DEF RingInv, OnTheWay

\* Only the ring, what was taken from it and what is on the way count.
LEMMA RingStays ==
    ASSUME RingInv, UNCHANGED <<queue, sq_head, sq_tail, grabbed, accepted>>,
           master' \in OnTheWay <=> master \in OnTheWay, stop_flag # 0 => stop_flag' # 0
    PROVE  RingInv'
<1>1. Total' = Total /\ \A k : QueuedAt(k)' = QueuedAt(k)
  BY DEF Total, QueuedAt
<1>2. QED
  BY <1>1 DEF RingInv

LEMMA OthersRing ==
    ASSUME Shape, RingInv,
           \/ Connect \/ LockMaster \/ Broadcast \/ Join \/ OwnerNext
           \/ \E w \in Worker : \/ Allocate(w) \/ LockWorker(w) \/ WaitFull(w) \/ Decide(w)
                                \/ Serve(w) \/ LoadExit(w) \/ StoreExit(w)
    PROVE  RingInv'
<1>1. CASE OwnerNext
  <2>1. UNCHANGED <<queue, sq_head, sq_tail, grabbed, accepted>>
    BY <1>1 DEF OwnerNext, StartListening, StartWorker, LoadThreads, StoreThreads, Started,
                StopListening, Stopped, context
  <2>2. stop_flag # 0 => stop_flag' # 0
    BY <1>1 DEF OwnerNext, StartListening, StartWorker, LoadThreads, StoreThreads, Started,
                StopListening, Stopped, context
  <2>3. master' = master \/ (owner = "off" /\ master' = "poll")
    BY <1>1 DEF OwnerNext, StartListening, StartWorker, LoadThreads, StoreThreads, Started,
                StopListening, Stopped, context
  <2>4. master' \in OnTheWay <=> master \in OnTheWay
    BY <2>3 DEF OnTheWay, Shape, PhaseInv
  <2>5. QED
    BY <2>1, <2>2, <2>4, RingStays
<1>2. CASE Connect \/ LockMaster \/ Broadcast \/ Join
  <2>1. UNCHANGED <<queue, sq_head, sq_tail, grabbed, accepted>>
    BY <1>2 DEF Connect, LockMaster, Broadcast, Join, context
  <2>2. stop_flag # 0 => stop_flag' # 0
    BY <1>2 DEF Connect, LockMaster, Broadcast, Join, context
  <2>3. master' \in OnTheWay <=> master \in OnTheWay
    BY <1>2 DEF Connect, LockMaster, Broadcast, Join, OnTheWay
  <2>4. QED
    BY <2>1, <2>2, <2>3, RingStays
<1>3. ASSUME NEW w \in Worker,
             \/ Allocate(w) \/ LockWorker(w) \/ WaitFull(w) \/ Decide(w) \/ Serve(w)
             \/ LoadExit(w) \/ StoreExit(w)
      PROVE  RingInv'
  <2>1. UNCHANGED <<queue, sq_head, sq_tail, grabbed, accepted, stop_flag>>
    BY <1>3 DEF Allocate, LockWorker, WaitFull, Decide, Serve, LoadExit, StoreExit, context
  <2>2. master' \in OnTheWay <=> master \in OnTheWay
    BY <1>3 DEF Allocate, LockWorker, WaitFull, Decide, Serve, LoadExit, StoreExit, SignalEnd,
                OnTheWay
  <2>3. QED
    BY <2>1, <2>2, RingStays
<1>4. QED
  BY <1>1, <1>2, <1>3

\* The socket that is accepted is the last one, and all before it are in the ring or were.
LEMMA PollRing == ASSUME Shape, RingInv, Poll PROVE RingInv'
<1>1. /\ master = "poll" /\ UNCHANGED <<queue, sq_head, sq_tail, grabbed, stop_flag>>
      /\ accepted \in Nat
  BY DEF Poll, context, Shape, PoolTypeOK
<1>2. Total' = Total /\ \A k : QueuedAt(k)' = QueuedAt(k)
  BY <1>1 DEF Total, QueuedAt
<1>3. CASE stop_flag # 0
  BY <1>1, <1>3, RingStays DEF Poll, OnTheWay
<1>4. CASE stop_flag = 0
  <2>1. /\ accepted' = accepted + 1
        /\ accepted + 1 \in Denied => master' = "poll"
        /\ accepted + 1 \notin Denied => master' = "lock"
    BY <1>1, <1>4 DEF Poll
  <2>2. \A k \in 1 .. Total : QueuedAt(k) \in 1 .. accepted /\ QueuedAt(k) \notin Denied
    BY DEF RingInv
  <2>3. \A s \in 1 .. accepted : s \notin Denied => \E k \in 1 .. Total : QueuedAt(k) = s
    BY <1>1, <1>4 DEF RingInv, OnTheWay
  <2>4. \A s \in 1 .. accepted' : s \in 1 .. accepted \/ s = accepted + 1
    BY <1>1, <2>1
  <2>5. \A s \in 1 .. accepted : s \in 1 .. accepted' /\ s # accepted'
    BY <1>1, <2>1
  <2>6. accepted' \in 1 .. accepted'
    BY <1>1, <2>1
  <2>7. \A s \in 1 .. accepted' : s \notin Denied =>
          \/ \E k \in 1 .. Total' : QueuedAt(k)' = s
          \/ s = accepted' /\ master' \in OnTheWay
    BY <1>2, <2>1, <2>3, <2>4 DEF OnTheWay
  <2>8. master' \in OnTheWay => accepted' \notin Denied
    BY <2>1 DEF OnTheWay
  <2>9. \A k \in 1 .. Total' : /\ QueuedAt(k)' \in 1 .. accepted' /\ QueuedAt(k)' \notin Denied
                              /\ QueuedAt(k)' # accepted'
    BY <1>2, <2>2, <2>5
  <2>10. \A k, m \in 1 .. Total' : k < m => QueuedAt(k)' < QueuedAt(m)'
    BY <1>2 DEF RingInv
  <2>11. QED
    BY <2>6, <2>7, <2>8, <2>9, <2>10 DEF RingInv
<1>5. QED
  BY <1>3, <1>4

\* Where the k-th one is, when it has not been taken yet.
LEMMA Place ==
    ASSUME PoolTypeOK, NEW k \in 1 .. Total, k > Len(grabbed)
    PROVE  LET a == sq_tail + (k - Len(grabbed)) - 1
           IN  /\ a \in sq_tail .. sq_head - 1 /\ a \in Nat /\ a < 2 * QueueSize
               /\ QueuedAt(k) = queue[IF a < QueueSize THEN a ELSE a - QueueSize]
<1> DEFINE a == sq_tail + (k - Len(grabbed)) - 1
<1>1. /\ Len(grabbed) \in Nat /\ sq_tail \in 0 .. QueueSize /\ sq_head \in Nat
      /\ sq_head - sq_tail \in 0 .. QueueSize /\ QueueSize \in Nat \ {0}
  BY Names DEF PoolTypeOK
<1>2. a \in sq_tail .. sq_head - 1 /\ a \in Nat /\ a < 2 * QueueSize
  BY <1>1 DEF Total
<1>3. QueuedAt(k) = queue[a % QueueSize]
  BY <1>1 DEF QueuedAt
<1>4. a % QueueSize = IF a < QueueSize THEN a ELSE a - QueueSize
  BY <1>2, ModOnce
<1>5. QueuedAt(k) = queue[IF a < QueueSize THEN a ELSE a - QueueSize]
  BY <1>3, <1>4
<1>6. QED
  BY <1>2, <1>5

\* A socket that is put into the ring comes last and moves no other.
LEMMA PutQueues ==
    ASSUME PoolTypeOK, ~ Full, Put(accepted), UNCHANGED <<sq_tail, grabbed>>
    PROVE  /\ Total' = Total + 1 /\ Total \in Nat
           /\ \A k \in 1 .. Total : QueuedAt(k)' = QueuedAt(k)
           /\ \A k : k = Total + 1 => QueuedAt(k)' = accepted
<1>1. /\ Len(grabbed) \in Nat /\ sq_tail \in 0 .. QueueSize /\ sq_head \in Nat
      /\ sq_head - sq_tail \in 0 .. QueueSize /\ QueueSize \in Nat \ {0}
      /\ queue \in [0 .. QueueSize - 1 -> Nat]
  BY Names DEF PoolTypeOK
<1>2. sq_head - sq_tail < QueueSize /\ sq_head' = sq_head + 1
      /\ queue' = [queue EXCEPT ![sq_head % QueueSize] = accepted]
  BY <1>1 DEF Full, Put
<1>3. sq_head < 2 * QueueSize
  BY <1>1, <1>2
<1> DEFINE h == IF sq_head < QueueSize THEN sq_head ELSE sq_head - QueueSize
<1>4. sq_head % QueueSize = h /\ h \in 0 .. QueueSize - 1
  <2>1. sq_head % QueueSize = h
    BY <1>1, <1>3, ModOnce
  <2>2. h \in 0 .. QueueSize - 1
    BY <1>1, <1>3
  <2>3. QED
    BY <2>1, <2>2
<1>5. queue'[h] = accepted /\ \A x \in 0 .. QueueSize - 1 : x # h => queue'[x] = queue[x]
  BY <1>1, <1>2, <1>4
<1>6. Total' = Total + 1 /\ Total \in Nat
  BY <1>1, <1>2 DEF Total
<1>7. ASSUME NEW k \in 1 .. Total PROVE QueuedAt(k)' = QueuedAt(k)
  <2>1. CASE k <= Len(grabbed)
    BY <2>1 DEF QueuedAt
  <2>2. CASE k > Len(grabbed)
    <3> DEFINE a == sq_tail + (k - Len(grabbed)) - 1
               x == IF a < QueueSize THEN a ELSE a - QueueSize
    <3>1. a \in sq_tail .. sq_head - 1 /\ a \in Nat /\ a < 2 * QueueSize /\ QueuedAt(k) = queue[x]
      BY <2>2, Place
    <3>2. QueuedAt(k)' = queue'[a % QueueSize]
      BY <1>1, <2>2 DEF QueuedAt
    <3>3. a % QueueSize = x
      BY <3>1, ModOnce
    <3> HIDE DEF a
    <3>4. x \in 0 .. QueueSize - 1 /\ x # h
      BY <1>1, <1>2, <3>1
    <3>5. QED
      BY <1>5, <3>1, <3>2, <3>3, <3>4
  <2>3. QED
    BY <1>1, <1>6, <2>1, <2>2
<1>8. ASSUME NEW k, k = Total + 1 PROVE QueuedAt(k)' = accepted
  <2>1. /\ ~ (k <= Len(grabbed)) /\ k - Len(grabbed) = sq_head - sq_tail + 1
        /\ sq_tail + (sq_head - sq_tail + 1) - 1 = sq_head
    BY <1>1, <1>8 DEF Total
  <2>2. QueuedAt(k)' = queue'[(sq_tail + (k - Len(grabbed)) - 1) % QueueSize]
    BY <2>1 DEF QueuedAt
  <2>3. QED
    BY <1>4, <1>5, <2>1, <2>2
<1>9. QED
  BY <1>6, <1>7, <1>8

\* produce_socket puts what is on the way into the ring, when there is room for it.
LEMMA ProduceRing == ASSUME Shape, RingInv, produce_socket PROVE RingInv'
<1>1. /\ master = "room" /\ UNCHANGED <<stop_flag, sq_tail, grabbed, accepted>>
      /\ accepted \in Nat /\ PoolTypeOK
  BY DEF produce_socket, Shape, PoolTypeOK
<1>2. CASE stop_flag = 0 /\ Full
  <2>1. UNCHANGED <<queue, sq_head>> /\ master' = "wait"
    BY <1>2 DEF produce_socket
  <2>2. QED
    BY <1>1, <2>1, RingStays DEF OnTheWay
<1>3. CASE stop_flag # 0 /\ Full
  <2>1. UNCHANGED <<queue, sq_head>> /\ master' = "poll"
    BY <1>3 DEF produce_socket
  <2>2. Total' = Total /\ \A k : QueuedAt(k)' = QueuedAt(k)
    BY <1>1, <2>1 DEF Total, QueuedAt
  <2>3. QED
    BY <1>1, <1>3, <2>1, <2>2 DEF RingInv, OnTheWay
<1>4. CASE ~ Full
  <2>1. Put(accepted) /\ master' = "poll"
    BY <1>4 DEF produce_socket
  <2>2. /\ Total' = Total + 1 /\ Total \in Nat
        /\ \A k \in 1 .. Total : QueuedAt(k)' = QueuedAt(k)
        /\ \A k : k = Total + 1 => QueuedAt(k)' = accepted
    BY <1>1, <1>4, <2>1, PutQueues
  <2>3. /\ \A k \in 1 .. Total' : k \in 1 .. Total \/ k = Total + 1
        /\ \A k \in 1 .. Total : k \in 1 .. Total'
        /\ Total + 1 \in 1 .. Total'
    BY <2>2
  <2>4. /\ accepted \in 1 .. accepted /\ accepted \notin Denied
        /\ \A k \in 1 .. Total : QueuedAt(k) # accepted
    BY <1>1 DEF RingInv, OnTheWay
  <2>5. \A k \in 1 .. Total : QueuedAt(k) \in 1 .. accepted /\ QueuedAt(k) \notin Denied
    BY DEF RingInv
  <2>6. \A k \in 1 .. Total' : QueuedAt(k)' \in 1 .. accepted' /\ QueuedAt(k)' \notin Denied
    BY <1>1, <2>2, <2>3, <2>4, <2>5
  <2>7. \A k, m \in 1 .. Total' : k < m => QueuedAt(k)' < QueuedAt(m)'
    <3>1. SUFFICES ASSUME NEW k \in 1 .. Total', NEW m \in 1 .. Total', k < m
                   PROVE  QueuedAt(k)' < QueuedAt(m)'
      OBVIOUS
    <3>2. k \in 1 .. Total
      BY <2>2, <3>1
    <3>3. CASE m \in 1 .. Total
      BY <2>2, <3>1, <3>2, <3>3 DEF RingInv
    <3>4. CASE m = Total + 1
      <4>1. QueuedAt(k) \in 1 .. accepted /\ QueuedAt(k) # accepted
        BY <2>4, <2>5, <3>2
      <4>2. QueuedAt(k) < accepted
        BY <1>1, <4>1
      <4>3. QED
        BY <2>2, <3>2, <3>4, <4>2
    <3>5. QED
      BY <2>3, <3>3, <3>4
  <2>8. \A s \in 1 .. accepted' : s \notin Denied => \/ \E k \in 1 .. Total' : QueuedAt(k)' = s
                                                     \/ s = accepted' /\ stop_flag' # 0
    <3>1. SUFFICES ASSUME NEW s \in 1 .. accepted, s \notin Denied
                   PROVE  \E k \in 1 .. Total' : QueuedAt(k)' = s
      BY <1>1
    <3>2. CASE s = accepted
      <4>1. PICK k \in 1 .. Total' : k = Total + 1
        BY <2>3
      <4>2. QueuedAt(k)' = s
        BY <2>2, <3>2, <4>1
      <4>3. QED
        BY <4>2
    <3>3. CASE s # accepted
      <4>1. PICK k \in 1 .. Total : QueuedAt(k) = s
        BY <3>1, <3>3 DEF RingInv
      <4>2. QED
        BY <2>2, <2>3, <4>1
    <3>4. QED
      BY <3>2, <3>3
  <2>9. QED
    BY <2>1, <2>6, <2>7, <2>8 DEF RingInv, OnTheWay
<1>5. QED
  BY <1>2, <1>3, <1>4

\* consume_socket takes the first one that is left, and both pointers wrap around at once.
LEMMA GrabQueues ==
    ASSUME PoolTypeOK, Grabs, Wrap, UNCHANGED queue,
           grabbed' = Append(grabbed, queue[sq_tail % QueueSize])
    PROVE  Total' = Total /\ \A k \in 1 .. Total : QueuedAt(k)' = QueuedAt(k)
<1>1. /\ Len(grabbed) \in Nat /\ sq_tail \in 0 .. QueueSize /\ sq_head \in Nat
      /\ sq_head - sq_tail \in 0 .. QueueSize /\ QueueSize \in Nat \ {0}
      /\ queue \in [0 .. QueueSize - 1 -> Nat] /\ grabbed \in Seq(Nat)
      /\ sq_head > sq_tail
  BY Names DEF PoolTypeOK, Grabs
<1> DEFINE back == IF sq_tail = QueueSize THEN QueueSize ELSE 0
<1>2. sq_tail' = sq_tail + 1 - back /\ sq_head' = sq_head - back /\ back \in {0, QueueSize}
  BY <1>1 DEF Wrap, Wraps
<1>3. sq_tail % QueueSize = (IF sq_tail < QueueSize THEN sq_tail ELSE sq_tail - QueueSize)
  <2>1. sq_tail \in Nat /\ sq_tail < 2 * QueueSize
    BY <1>1
  <2>2. QED
    BY <2>1, ModOnce
<1>4. sq_tail % QueueSize \in 0 .. QueueSize - 1
  BY <1>1, <1>3
<1>5. /\ Len(grabbed') = Len(grabbed) + 1
      /\ \A x \in 1 .. Len(grabbed) : grabbed'[x] = grabbed[x]
      /\ grabbed'[Len(grabbed) + 1] = queue[sq_tail % QueueSize]
  BY <1>1, <1>4
<1>6. Total' = Total
  BY <1>1, <1>2, <1>5 DEF Total
<1>7. ASSUME NEW k \in 1 .. Total PROVE QueuedAt(k)' = QueuedAt(k)
  <2>0. k \in Nat /\ k >= 1
    BY <1>1 DEF Total
  <2>1. CASE k <= Len(grabbed)
    BY <1>1, <1>5, <2>0, <2>1 DEF QueuedAt
  <2>2. CASE k = Len(grabbed) + 1
    <3>1. QueuedAt(k)' = queue[sq_tail % QueueSize]
      BY <1>1, <1>5, <2>2 DEF QueuedAt
    <3>2. sq_tail + (k - Len(grabbed)) - 1 = sq_tail /\ ~ (k <= Len(grabbed))
      BY <1>1, <2>2
    <3>3. QED
      BY <3>1, <3>2 DEF QueuedAt
  <2>3. CASE k > Len(grabbed) + 1
    <3> DEFINE a == sq_tail + (k - Len(grabbed)) - 1
               x == IF a < QueueSize THEN a ELSE a - QueueSize
    <3>1. k > Len(grabbed)
      BY <1>1, <2>0, <2>3
    <3>2. a \in sq_tail .. sq_head - 1 /\ a \in Nat /\ a < 2 * QueueSize /\ QueuedAt(k) = queue[x]
      BY <3>1, Place
    <3>3. QueuedAt(k)' = queue[(sq_tail' + (k - Len(grabbed')) - 1) % QueueSize]
      BY <1>1, <1>5, <2>0, <2>3 DEF QueuedAt
    <3>4. sq_tail' + (k - Len(grabbed')) - 1 = a - back /\ a >= sq_tail /\ a \in Nat
      BY <1>1, <1>2, <1>5, <2>0, <2>3
    <3> HIDE DEF a
    <3>5. a - back \in Nat /\ a - back < 2 * QueueSize
      BY <1>1, <3>2, <3>4
    <3>6. (a - back) % QueueSize = IF a - back < QueueSize THEN a - back ELSE a - back - QueueSize
      <4> HIDE DEF back
      <4>1. QED
        BY <3>5, ModOnce
    <3>7. (a - back) % QueueSize = x
      BY <1>1, <3>2, <3>4, <3>6
    <3>8. QED
      BY <3>2, <3>3, <3>4, <3>7
  <2>4. k <= Len(grabbed) \/ k = Len(grabbed) + 1 \/ k > Len(grabbed) + 1
    <3> DEFINE l == Len(grabbed)
    <3>1. k \in Nat /\ l \in Nat
      BY <1>1, <2>0
    <3> HIDE DEF l
    <3>2. k <= l \/ k = l + 1 \/ k > l + 1
      BY <3>1
    <3>3. QED
      BY <3>2 DEF l
  <2>5. QED
    BY <2>1, <2>2, <2>3, <2>4
<1>8. QED
  BY <1>6, <1>7

LEMMA CheckQueueRing ==
    ASSUME Shape, RingInv, NEW w \in Worker, CheckQueue(w) PROVE RingInv'
<1>1. /\ UNCHANGED <<stop_flag, queue, accepted>> /\ PoolTypeOK
      /\ master' \in OnTheWay <=> master \in OnTheWay
  <2>1. UNCHANGED <<stop_flag, queue, accepted>> /\ PoolTypeOK
    BY DEF CheckQueue, Shape
  <2>2. master' = master \/ (master = "wait" /\ master' = "woken")
    BY DEF CheckQueue, SignalEmpty
  <2>3. QED
    BY <2>1, <2>2 DEF OnTheWay
<1>2. CASE MustWait \/ ~ Grabs
  <2>1. UNCHANGED <<sq_head, sq_tail, grabbed>>
    BY <1>2 DEF CheckQueue
  <2>2. QED
    BY <1>1, <2>1, RingStays
<1>3. CASE ~ MustWait /\ Grabs
  <2>1. Wrap /\ grabbed' = Append(grabbed, queue[sq_tail % QueueSize])
    BY <1>3 DEF CheckQueue
  <2>2. Total' = Total /\ \A k \in 1 .. Total : QueuedAt(k)' = QueuedAt(k)
    BY <1>1, <1>3, <2>1, GrabQueues
  <2>3. /\ \A k \in 1 .. Total' : QueuedAt(k)' \in 1 .. accepted' /\ QueuedAt(k)' \notin Denied
        /\ \A k, m \in 1 .. Total' : k < m => QueuedAt(k)' < QueuedAt(m)'
    BY <1>1, <2>2 DEF RingInv
  <2>4. \A s \in 1 .. accepted' : s \notin Denied =>
           \/ \E k \in 1 .. Total' : QueuedAt(k)' = s
           \/ s = accepted' /\ (master' \in OnTheWay \/ stop_flag' # 0)
    <3>1. SUFFICES ASSUME NEW s \in 1 .. accepted, s \notin Denied,
                          ~ (s = accepted /\ (master \in OnTheWay \/ stop_flag # 0))
                   PROVE  \E k \in 1 .. Total' : QueuedAt(k)' = s
      BY <1>1
    <3>2. PICK k \in 1 .. Total : QueuedAt(k) = s
      BY <3>1 DEF RingInv
    <3>3. QED
      BY <2>2, <3>2
  <2>5. master' \in OnTheWay =>
           /\ accepted' \in 1 .. accepted' /\ accepted' \notin Denied
           /\ \A k \in 1 .. Total' : QueuedAt(k)' # accepted'
    BY <1>1, <2>2 DEF RingInv
  <2>6. QED
    BY <2>3, <2>4, <2>5 DEF RingInv
<1>4. QED
  BY <1>2, <1>3

LEMMA RingStutter == ASSUME RingInv, UNCHANGED pool PROVE RingInv'
  BY RingStays DEF pool, context

--------------------------------------------------------------------------------
(* The invariant holds, and what it gives. *)

LEMMA ShapeStep == ASSUME Shape, PoolNext PROVE Shape'
<1>1. CASE Connect
  BY <1>1, ConnectShape
<1>2. CASE MasterNext
  BY <1>2, PollShape, LockMasterShape, produce_socketShape, BroadcastShape, JoinShape DEF MasterNext
<1>3. CASE OwnerNext
  BY <1>3, StartListeningShape, StartWorkerShape, LoadThreadsShape, StoreThreadsShape, StartedShape,
     StopListeningShape, StoppedShape DEF OwnerNext
<1>4. ASSUME NEW w \in Worker, WorkerNext(w) PROVE Shape'
  BY <1>4, AllocateShape, LockWorkerShape, CheckQueueShape, WaitFullShape, DecideShape, ServeShape,
     LoadExitShape, StoreExitShape DEF WorkerNext
<1>5. QED
  BY <1>1, <1>2, <1>3, <1>4 DEF PoolNext

LEMMA CountStep == ASSUME Shape, CountInv, PoolNext PROVE CountInv'
<1>0. owner # "aborted"
  BY DEF PoolNext
<1>1. CASE Connect
  BY <1>0, <1>1, ConnectCount
<1>2. CASE MasterNext
  BY <1>0, <1>2, PollCount, LockMasterCount, produce_socketCount, BroadcastCount, JoinCount
     DEF MasterNext
<1>3. CASE OwnerNext
  BY <1>0, <1>3, StartListeningCount, StartWorkerCount, LoadThreadsCount, StoreThreadsCount,
     StartedCount, StopListeningCount, StoppedCount DEF OwnerNext
<1>4. ASSUME NEW w \in Worker, WorkerNext(w) PROVE CountInv'
  BY <1>0, <1>4, AllocateCount, LockWorkerCount, CheckQueueCount, WaitFullCount, DecideCount,
     ServeCount, LoadExitCount, StoreExitCount DEF WorkerNext
<1>5. QED
  BY <1>1, <1>2, <1>3, <1>4 DEF PoolNext

LEMMA RingStep == ASSUME Shape, RingInv, PoolNext PROVE RingInv'
<1>1. CASE Connect \/ OwnerNext
  BY <1>1, OthersRing
<1>2. CASE MasterNext
  BY <1>2, OthersRing, PollRing, ProduceRing DEF MasterNext
<1>3. ASSUME NEW w \in Worker, WorkerNext(w) PROVE RingInv'
  BY <1>3, OthersRing, CheckQueueRing DEF WorkerNext
<1>4. QED
  BY <1>1, <1>2, <1>3 DEF PoolNext

LEMMA PoolStutter == ASSUME PoolInv, UNCHANGED pool PROVE PoolInv'
<1>1. PoolTypeOK' /\ MutexInv' /\ PhaseInv'
  BY DEF PoolInv, PoolTypeOK, MutexInv, PhaseInv, pool, context
<1>2. CountInv'
  <2>1. Live' = Live /\ NotYet' = NotYet
    BY DEF Live, NotYet, pool
  <2>2. QED
    BY <2>1 DEF PoolInv, CountInv, pool, context
<1>3. QED
  BY <1>1, <1>2, RingStutter DEF PoolInv

\* The mutex, the phases, the count and the ring hold together (mongoose.c).
THEOREM PoolHolds == PoolSpec => []PoolInv
<1>1. PoolInit => PoolInv
  BY ShapeInit, CountInit, RingInit DEF PoolInv, Shape
<1>2. PoolInv /\ [PoolNext]_pool => PoolInv'
  <2>1. ASSUME PoolInv, PoolNext PROVE PoolInv'
    BY <2>1, ShapeStep, CountStep, RingStep DEF PoolInv, Shape
  <2>2. QED
    BY <2>1, PoolStutter
<1>3. QED
  BY <1>1, <1>2, PTL DEF PoolSpec

\* The sockets that were ever in the ring, as a sequence and one by one.
LEMMA QueuedIs ==
    ASSUME PoolTypeOK
    PROVE  /\ Len(Queued) = Total /\ Total \in Nat
           /\ \A k \in 1 .. Total : Queued[k] = QueuedAt(k)
<1>1. /\ Len(grabbed) \in Nat /\ sq_tail \in 0 .. QueueSize /\ sq_head \in Nat
      /\ sq_head - sq_tail \in 0 .. QueueSize /\ QueueSize \in Nat \ {0}
      /\ queue \in [0 .. QueueSize - 1 -> Nat] /\ grabbed \in Seq(Nat)
  BY Names DEF PoolTypeOK
<1> DEFINE n == sq_head - sq_tail
<1>2. n \in Nat /\ Held = [x \in 1 .. n |-> queue[(sq_tail + x - 1) % QueueSize]]
  BY <1>1 DEF Held
<1>3. \A x \in 1 .. n : queue[(sq_tail + x - 1) % QueueSize] \in Nat
  <2>1. SUFFICES ASSUME NEW x \in 1 .. n PROVE queue[(sq_tail + x - 1) % QueueSize] \in Nat
    OBVIOUS
  <2>2. sq_tail + x - 1 \in Nat /\ sq_tail + x - 1 < 2 * QueueSize
    BY <1>1
  <2>3. (sq_tail + x - 1) % QueueSize \in 0 .. QueueSize - 1
    <3> DEFINE a == sq_tail + x - 1
    <3>1. a \in Nat
      BY <2>2
    <3> HIDE DEF a
    <3>2. a % QueueSize \in 0 .. QueueSize - 1
      BY <1>1, <3>1
    <3>3. QED
      BY <3>2 DEF a
  <2>4. QED
    BY <1>1, <2>3
<1> HIDE DEF n
<1>4. Held \in Seq(Nat) /\ Len(Held) = n
  BY <1>2, <1>3
<1>5. /\ Len(Queued) = Len(grabbed) + n
      /\ \A k \in 1 .. Len(grabbed) + n :
           Queued[k] = IF k <= Len(grabbed) THEN grabbed[k] ELSE Held[k - Len(grabbed)]
  BY <1>1, <1>4, ConcatProperties DEF Queued
<1>6. Total = Len(grabbed) + n
  BY DEF Total, n
<1>7. ASSUME NEW k \in 1 .. Total PROVE Queued[k] = QueuedAt(k)
  <2>1. CASE k <= Len(grabbed)
    BY <1>5, <1>6, <2>1 DEF QueuedAt
  <2>2. CASE ~ (k <= Len(grabbed))
    <3> DEFINE x == k - Len(grabbed)
    <3>1. x \in 1 .. n /\ Queued[k] = Held[x]
      <4>1. Len(grabbed) \in Nat /\ n \in Nat /\ k \in 1 .. Len(grabbed) + n
        BY <1>1, <1>2, <1>6
      <4>2. Queued[k] = Held[x]
        BY <1>5, <2>2, <4>1
      <4>3. x \in 1 .. n
        BY <2>2, <4>1
      <4>4. QED
        BY <4>2, <4>3
    <3>2. QueuedAt(k) = queue[(sq_tail + x - 1) % QueueSize]
      BY <2>2 DEF QueuedAt
    <3> HIDE DEF x
    <3>3. QED
      BY <1>2, <3>1, <3>2
  <2>3. QED
    BY <2>1, <2>2
<1>8. QED
  BY <1>1, <1>2, <1>5, <1>6, <1>7

LEMMA RingIsTrue == PoolInv => RingHolds
<1>1. SUFFICES ASSUME PoolInv PROVE RingHolds
  OBVIOUS
<1>2. /\ Len(Queued) = Total /\ \A k \in 1 .. Total : Queued[k] = QueuedAt(k)
      /\ sq_head - sq_tail \in 0 .. QueueSize /\ RingInv /\ accepted \in Nat
  BY <1>1, QueuedIs DEF PoolInv, PoolTypeOK
<1> DEFINE all == 1 .. Len(Queued)
           missing == (1 .. accepted) \ (Denied \cup {Queued[x] : x \in all})
<1>3. \A x \in all : Queued[x] \in (1 .. accepted) \ Denied
  BY <1>2 DEF RingInv
<1>4. \A x, y \in all : x < y => Queued[x] < Queued[y]
  BY <1>2 DEF RingInv
<1>5. master \in OnTheWay => missing = {accepted}
  BY <1>2 DEF RingInv
<1>6. master \notin OnTheWay => missing \subseteq (IF stop_flag # 0 THEN {accepted} ELSE {})
  BY <1>2 DEF RingInv
<1>7. QED
  BY <1>2, <1>3, <1>4, <1>5, <1>6 DEF RingHolds, OnTheWay

\* The owner frees the context when stop_flag is 2, and then no worker is left.
LEMMA LastIsFreed == PoolInv => FreedLast
<1>1. SUFFICES ASSUME PoolInv, owner = "stopped", ~ poor, NEW w \in Worker
               PROVE  thread[w] = "gone"
  BY DEF FreedLast
<1>2. stop_flag = 2 /\ thread[w] # "none"
  BY <1>1 DEF PoolInv, PhaseInv
<1>3. Live = {}
  BY <1>1, <1>2 DEF PoolInv, CountInv
<1>4. QED
  BY <1>2, <1>3 DEF Live

\* For any number of workers and of clients and any size of the ring: every socket is
\* grabbed in the order of its arrival, each once, whatever the pointers have been wrapped
\* to, and the context is freed after its last worker ended, unless one of them ran out of
\* memory (mg_start, mg_stop, produce_socket, consume_socket, worker_thread).
THEOREM ThreadsAreSafe == PoolSpec => []ThreadsHold
<1>1. PoolInv => ThreadsHold
  BY RingIsTrue, LastIsFreed DEF ThreadsHold
<1>2. QED
  BY <1>1, PoolHolds, PTL
--------------------------------------------------------------------------------
(* A connection: the bytes are counted from the head on, through the buffer into the body. *)

Whole == IF HasContent /\ postSize > 0 THEN postSize ELSE 0

ConnectionTypeOK ==
    /\ message \in Message /\ file \in File
    /\ stage \in {"head", "wrong", "post", "body", "called", "closed", "died"}
    /\ taken \in Nat /\ data_len \in Nat /\ failed \in BOOLEAN

\* Before the handler nothing of the body has been copied, and what was received is in the
\* buffer.
HeadInv ==
    /\ stage \in {"head", "post"} =>
         read = <<>> /\ taken = data_len /\ ~ failed /\ status # 200
    /\ stage = "wrong" => failed \/ message.head > BufSize
    /\ stage = "post" => message.wrong = "" /\ HeadWhole

\* The bytes that have been copied are the first ones of the body, no more than there are
\* to be copied but where the length has become negative, and the next one to be received
\* is the one behind them.
BodyInv ==
    stage \in {"body", "called"} =>
        \E n \in Nat :
          /\ read = Bytes(message.head, n)
          /\ n <= Whole \/ postSize < 0
          /\ n < Whole => taken = message.head + n
          /\ stage = "called" => failed

ConnectionInv == ConnectionTypeOK /\ HeadInv /\ BodyInv /\ RequestsHold

\* The first n bytes and the next k are the first n + k.
LEMMA BytesJoin ==
    ASSUME NEW from \in Int, NEW n \in Nat, NEW k \in Nat
    PROVE  Bytes(from, n) \o Bytes(from + n, k) = Bytes(from, n + k)
<1> DEFINE a == Bytes(from, n)
<1> DEFINE b == Bytes(from + n, k)
<1>0. a \in Seq(Int) /\ Len(a) = n /\ b \in Seq(Int) /\ Len(b) = k  BY DEF Bytes
<1>1. /\ \A x \in 1 .. n : a[x] = from + x
      /\ \A x \in 1 .. k : b[x] = (from + n) + x
  BY DEF Bytes
<1> HIDE DEF a, b
<1>2. /\ a \o b \in Seq(Int) /\ Len(a \o b) = n + k
      /\ \A x \in 1 .. n + k : (a \o b)[x] = IF x <= n THEN a[x] ELSE b[x - n]
  BY <1>0
<1>3. \A x \in 1 .. n + k : (a \o b)[x] = from + x
  <2> SUFFICES ASSUME NEW x \in 1 .. n + k PROVE (a \o b)[x] = from + x
    OBVIOUS
  <2>1. CASE x <= n  BY <1>1, <1>2, <2>1
  <2>2. CASE ~ (x <= n)
    <3>1. x - n \in 1 .. k /\ b[x - n] = (from + n) + (x - n)  BY <1>1, <2>2
    <3> QED BY <1>2, <2>2, <3>1
  <2> QED BY <2>1, <2>2
<1>4. /\ Bytes(from, n + k) \in Seq(Int) /\ Len(Bytes(from, n + k)) = n + k
      /\ \A x \in 1 .. n + k : Bytes(from, n + k)[x] = from + x
  BY DEF Bytes
<1> QED BY <1>2, <1>3, <1>4, SeqEqual DEF a, b

\* What is handed begins with the bytes, and junk is only behind them.
LEMMA BytesThenJunk ==
    ASSUME NEW from \in Int, NEW n \in Nat, NEW j \in Nat
    PROVE  LET all == Bytes(from, n) \o [x \in 1 .. j |-> Junk]
           IN /\ n \in 0 .. Len(all) /\ SubSeq(all, 1, n) = Bytes(from, n)
              /\ \A x \in n + 1 .. Len(all) : all[x] = Junk
<1> DEFINE a == Bytes(from, n)
<1> DEFINE b == [x \in 1 .. j |-> Junk]
<1>1. a \in Seq(Int) /\ Len(a) = n /\ b \in Seq(Int) /\ Len(b) = j /\ \A x \in 1 .. j : b[x] = Junk
  BY DEF Bytes, Junk
<1> HIDE DEF a, b
<1>2. /\ a \o b \in Seq(Int) /\ Len(a \o b) = n + j
      /\ \A x \in 1 .. n + j : (a \o b)[x] = IF x <= n THEN a[x] ELSE b[x - n]
  BY <1>1, SMTT(30)
<1>3. SubSeq(a \o b, 1, n) \in Seq(Int) /\ Len(SubSeq(a \o b, 1, n)) = n
      /\ \A x \in 1 .. n : SubSeq(a \o b, 1, n)[x] = a[x]
  BY <1>1, <1>2
<1>4. SubSeq(a \o b, 1, n) = a
  BY <1>1, <1>3, SeqEqual
<1>5. \A x \in n + 1 .. Len(a \o b) : (a \o b)[x] = Junk
  <2> SUFFICES ASSUME NEW x \in n + 1 .. n + j PROVE (a \o b)[x] = Junk  BY <1>2
  <2>1. x - n \in 1 .. j /\ ~ (x <= n) /\ x \in 1 .. n + j  OBVIOUS
  <2> QED BY <1>1, <1>2, <2>1
<1> QED BY <1>2, <1>4, <1>5 DEF a, b

LEMMA SmallMod ==
    ASSUME NEW k \in Nat \ {0}, NEW a \in 0 .. k - 1
    PROVE  a % k = a
  BY SMT

\* A length that an int holds is read as it is.
LEMMA CutKeeps ==
    ASSUME ConnectionAssumption, NEW x \in 0 .. IntMax
    PROVE  Limited(x) = x /\ CutToInt(x) = x
<1>1. IntMax \in Nat /\ LongMax \in Nat /\ IntMax <= LongMax  BY DEF ConnectionAssumption
<1>2. Limited(x) = x  BY <1>1 DEF Limited
<1>3. (x + IntMax + 1) % (2 * IntMax + 2) = x + IntMax + 1
  <2> DEFINE k == 2 * IntMax + 2
  <2>1. k \in Nat \ {0} /\ x + IntMax + 1 \in 0 .. k - 1  BY <1>1
  <2> HIDE DEF k
  <2>2. x + IntMax + 1 \in Nat  BY <1>1
  <2>3. (x + IntMax + 1) % k = x + IntMax + 1  BY <2>1, <2>2, SmallMod
  <2> QED BY <2>3 DEF k
<1>4. CutToInt(x) = x  BY <1>1, <1>3 DEF CutToInt
<1> QED BY <1>2, <1>4

\* What IsMessage tells of the message that is being sent.
LEMMA MessageShape ==
    ASSUME ConnectionAssumption, ConnectionTypeOK
    PROVE  /\ message.head \in Nat \ {0}
           /\ message.method \in {"GET", "HEAD", "POST", "PUT", "DELETE", "OPTIONS", "PROPFIND",
                                  "CONNECT"}
           /\ message.wrong \in {"", "character", "method", "uri", "version"}
<1>1. IsMessage(message)  BY DEF ConnectionAssumption, ConnectionTypeOK
<1> QED BY <1>1 DEF IsMessage

\* The numbers that Content-Length is read as.
LEMMA LengthShape ==
    ASSUME ConnectionAssumption, ConnectionTypeOK
    PROVE  /\ message.head \in Nat /\ content_len \in Int /\ postSize \in Int /\ Whole \in Nat
           /\ ToldExactly => Whole = Told /\ postSize = Told
<1>1. IsMessage(message)  BY DEF ConnectionAssumption, ConnectionTypeOK
<1>2. IntMax \in Nat /\ LongMax \in Nat  BY DEF ConnectionAssumption
<1>3. /\ content_len \in Int /\ postSize \in Int
      /\ ToldExactly => Told = postSize /\ (Told = content_len \/ Told = 0)
  <2>1. CASE message.length = NoLength  BY <2>1 DEF content_len, postSize, Told
  <2>2. CASE message.length # NoLength
    <3>1. message.length \in Int  BY <1>1, <2>2 DEF IsMessage
    <3>2. Limited(message.length) \in Int  BY <1>2, <3>1 DEF Limited
    <3>3. CutToInt(Limited(message.length)) \in Int
      <4> DEFINE k == 2 * IntMax + 2
      <4>1. k \in Nat \ {0} /\ Limited(message.length) + IntMax + 1 \in Int  BY <1>2, <3>2
      <4> HIDE DEF k
      <4>2. (Limited(message.length) + IntMax + 1) % k \in Int  BY <4>1
      <4> QED BY <1>2, <4>2 DEF CutToInt, k
    <3>4. content_len = Limited(message.length) /\ Told = message.length
          /\ postSize = CutToInt(Limited(message.length))
      BY <2>2 DEF content_len, postSize, Told
    <3>5. ASSUME ToldExactly PROVE Told = postSize /\ Told = content_len
      <4>1. message.length \in 0 .. IntMax  BY <3>4, <3>5 DEF ToldExactly
      <4>2. Limited(message.length) = message.length /\ CutToInt(message.length) = message.length
        BY <4>1, CutKeeps
      <4> QED BY <3>4, <4>2
    <3> QED BY <3>2, <3>3, <3>4, <3>5
  <2> QED BY <2>1, <2>2
<1>4. Whole \in Nat
  BY <1>3 DEF Whole
<1>5. ToldExactly => Whole = Told
  <2> SUFFICES ASSUME ToldExactly PROVE Whole = Told
    OBVIOUS
  <2>1. Told \in Nat /\ Told = postSize  BY <1>2, <1>3 DEF ToldExactly
  <2>2. CASE Told = 0  BY <2>1, <2>2 DEF Whole
  <2>3. CASE Told # 0  BY <1>3, <2>1, <2>3 DEF Whole, HasContent
  <2> QED BY <2>2, <2>3
<1>6. message.head \in Nat  BY <1>1 DEF IsMessage
<1> QED BY <1>3, <1>4, <1>5, <1>6

\* A file is never answered as a request that cannot be read (handle_request).
LEMMA FileAnswered ==
    ASSUME ConnectionAssumption, ConnectionTypeOK
    PROVE  FileStatus # 500
<1>1. message.method \in {"GET", "HEAD", "POST", "PUT", "DELETE", "OPTIONS", "PROPFIND", "CONNECT"}
  BY MessageShape
<1>2. file \in {"none", "hidden", "directory", "directory/", "indexed", "indexed/", "file",
               "same", "cgi"}
  BY DEF ConnectionAssumption, ConnectionTypeOK
<1>3. CASE message.method = "OPTIONS"  BY <1>3 DEF FileStatus, IsPutOrDelete
<1>4. CASE IsPutOrDelete  BY <1>4 DEF FileStatus, IsPutOrDelete
<1>5. CASE message.method \notin {"OPTIONS", "PUT", "DELETE"}
  <2> DEFINE answer ==
        CASE file \in {"none", "hidden"} -> 404
          [] file \in {"directory", "indexed"} -> 301
          [] file \in {"directory/", "indexed/"} /\ message.method = "PROPFIND" -> 207
          [] file = "directory/" /\ message.method # "PROPFIND" -> 200
          [] file \in {"file", "same", "cgi", "indexed/"} ->
               CASE message.method = "PROPFIND" -> 207
                 [] file = "cgi" /\ message.method \notin {"PROPFIND", "GET", "HEAD"} -> 501
                 [] file = "same" /\ message.method # "PROPFIND" -> 304
                 [] OTHER -> 200
  <2>1. FileStatus = answer  BY <1>5 DEF FileStatus, IsPutOrDelete
  <2>2. answer # 500  BY <1>1, <1>2
  <2> QED BY <2>1, <2>2
<1> QED BY <1>3, <1>4, <1>5 DEF IsPutOrDelete

LEMMA ConnectionInvInit ==
    ASSUME ConnectionAssumption, ConnectionInit
    PROVE  ConnectionInv
<1>1. ConnectionTypeOK  BY DEF ConnectionInit, ConnectionTypeOK
<1>2. HeadInv  BY DEF ConnectionInit, HeadInv
<1>3. BodyInv  BY DEF ConnectionInit, BodyInv
<1>4. RequestsHold  BY DEF ConnectionInit, RequestsHold, BodyFirst, HeadsFit
<1> QED BY <1>1, <1>2, <1>3, <1>4 DEF ConnectionInv

\* Nothing that the sender does or the stop of the server changes what has been received.
LEMMA SenderKeeps ==
    ASSUME ConnectionInv, Send \/ End \/ Stop \/ UNCHANGED connection
    PROVE  ConnectionInv'
<1>1. UNCHANGED <<message, file, worker>>
  BY DEF Send, End, Stop, connection, worker
<1>2. UNCHANGED <<message, file, stage, taken, data_len, read, failed, handed, status>>
  BY <1>1 DEF worker
<1>3. UNCHANGED <<postSize, Whole, HeadWhole, Told>>
  BY <1>2 DEF postSize, content_len, HasContent, Whole, HeadWhole, Told
<1>4. ConnectionTypeOK' /\ HeadInv'  BY <1>2, <1>3 DEF ConnectionInv, ConnectionTypeOK, HeadInv
<1>5. BodyInv'  BY <1>2, <1>3 DEF ConnectionInv, BodyInv
<1>6. BodyFirst'  BY <1>2, <1>3 DEF ConnectionInv, RequestsHold, BodyFirst, ToldExactly
<1>7. HeadsFit'  BY <1>2 DEF ConnectionInv, RequestsHold, HeadsFit
<1> QED BY <1>4, <1>5, <1>6, <1>7 DEF ConnectionInv, RequestsHold

\* Until the connection is closed there is nothing to be said of its end.
LEMMA NotClosed ==
    ASSUME stage' # "closed"
    PROVE  RequestsHold'
BY DEF RequestsHold, BodyFirst, HeadsFit

LEMMA ReadHeadKeeps ==
    ASSUME ConnectionAssumption, ConnectionInv, ReadHead
    PROVE  ConnectionInv'
<1>1. /\ stage = "head" /\ ~ HeadWhole /\ UNCHANGED <<message, file, read, status>>
      /\ message.head \in Nat
  BY LengthShape DEF ReadHead, sender, ConnectionInv
<1>2. CASE RoomLeft <= 0
  <2>1. stage' = "wrong" /\ UNCHANGED <<taken, data_len, failed>>  BY <1>2 DEF ReadHead
  <2>2. message.head > BufSize
    BY <1>1, <1>2 DEF RoomLeft, HeadWhole, ConnectionAssumption, ConnectionInv, ConnectionTypeOK
  <2>3. ConnectionTypeOK' /\ HeadInv' /\ BodyInv'
    BY <1>1, <2>1, <2>2 DEF ConnectionInv, ConnectionTypeOK, HeadInv, BodyInv
  <2> QED BY <2>1, <2>3, NotClosed DEF ConnectionInv
<1>3. CASE ~ (RoomLeft <= 0)
  <2>1. PICK n \in 0 .. RoomLeft :
          /\ taken' = taken + n /\ data_len' = data_len + n
          /\ stage' = IF n = 0 THEN "wrong" ELSE "head"
          /\ failed' = (n = 0)
    BY <1>3 DEF ReadHead
  <2>2. n \in Nat /\ taken = data_len /\ read = <<>> /\ status # 200
    BY <1>1 DEF ConnectionInv, HeadInv
  <2>3. failed' \in BOOLEAN /\ (stage' = "wrong" => failed') /\ (stage' = "head" => ~ failed')
        /\ stage' \in {"wrong", "head"}
    BY <2>1
  <2>4. ConnectionTypeOK' /\ HeadInv' /\ BodyInv'
    BY <1>1, <2>1, <2>2, <2>3 DEF ConnectionInv, ConnectionTypeOK, HeadInv, BodyInv
  <2> QED BY <2>3, <2>4, NotClosed DEF ConnectionInv
<1> QED BY <1>2, <1>3

\* A request that is closed without a call was not answered as one.
LEMMA GetRequestKeeps ==
    ASSUME ConnectionAssumption, ConnectionInv, GetRequest
    PROVE  ConnectionInv'
<1>1. /\ stage = "head" /\ (HeadWhole \/ Malformed)
      /\ UNCHANGED <<message, file, taken, data_len, read, failed>>
  BY DEF GetRequest, sender
<1>2. /\ ConnectionTypeOK /\ read = <<>> /\ taken = data_len /\ ~ failed /\ status # 200
      /\ message.head \in Nat /\ data_len \in Nat
      /\ message.method \in {"GET", "HEAD", "POST", "PUT", "DELETE", "OPTIONS", "PROPFIND",
                             "CONNECT"}
      /\ message.wrong \in {"", "character", "method", "uri", "version"}
  <2>1. ConnectionTypeOK /\ HeadInv  BY DEF ConnectionInv
  <2>2. read = <<>> /\ taken = data_len /\ ~ failed /\ status # 200
    BY <1>1, <2>1 DEF HeadInv
  <2> QED BY <2>1, <2>2, MessageShape DEF ConnectionTypeOK
<1>3. CASE message.wrong = "" /\ (IsPutOrDelete \/ ~ message.guarded) /\ message.method = "POST"
           /\ stage' = "post" /\ UNCHANGED status
  <2>1. HeadWhole'  BY <1>1, <1>3 DEF HeadWhole, Malformed
  <2>2. ConnectionTypeOK' /\ HeadInv' /\ BodyInv'
    BY <1>1, <1>2, <1>3, <2>1 DEF ConnectionTypeOK, HeadInv, BodyInv
  <2> QED BY <1>3, <2>2, NotClosed DEF ConnectionInv
<1>4. CASE /\ stage' = "closed"
           /\ message.method = "POST" => status' # 200
           /\ message.wrong = "" => status' # 500
  <2>1. ConnectionTypeOK' /\ HeadInv' /\ BodyInv'
    BY <1>1, <1>2, <1>4 DEF ConnectionTypeOK, HeadInv, BodyInv
  <2>2. RequestsHold'  BY <1>1, <1>4 DEF RequestsHold, BodyFirst, HeadsFit
  <2> QED BY <2>1, <2>2 DEF ConnectionInv
<1>5. CASE message.wrong \in {"character", "method"}
  <2>1. stage' = "closed" /\ status' = 500  BY <1>5 DEF GetRequest, Answered
  <2>2. status' # 200  BY <2>1
  <2>3. message.wrong # ""  BY <1>5
  <2> QED BY <1>4, <2>1, <2>2, <2>3
<1>6. CASE message.wrong = "uri"  BY <1>4, <1>6 DEF GetRequest, Answered
<1>7. CASE message.wrong = "version"  BY <1>4, <1>7 DEF GetRequest, Answered
<1>8. CASE message.wrong = "" /\ ~ IsPutOrDelete /\ message.guarded
  <2>1. stage' = "closed" /\ status' = 401  BY <1>8 DEF GetRequest, Answered
  <2> QED BY <1>4, <2>1
<1>9. CASE message.wrong = "" /\ (IsPutOrDelete \/ ~ message.guarded)
  <2>1. FileStatus # 500  BY <1>2, FileAnswered
  <2>2. CASE message.method = "GET" /\ showSpec
    <3>1. stage' = "closed" /\ status' = 200  BY <1>9, <2>2 DEF GetRequest, Answered
    <3> QED BY <1>4, <2>2, <3>1
  <2>3. CASE message.method = "POST"
    BY <1>3, <1>9, <2>3 DEF GetRequest, Answered, IsPutOrDelete
  <2>4. CASE message.method # "POST" /\ ~ (message.method = "GET" /\ showSpec)
    BY <1>4, <1>9, <2>1, <2>4 DEF GetRequest, Answered, IsPutOrDelete
  <2> QED BY <2>2, <2>3, <2>4
<1> QED BY <1>2, <1>5, <1>6, <1>7, <1>8, <1>9

LEMMA GetWrongKeeps ==
    ASSUME ConnectionAssumption, ConnectionInv, GetWrong
    PROVE  ConnectionInv'
<1>1. /\ stage = "wrong" /\ stage' = "closed" /\ status' = 500
      /\ UNCHANGED <<message, file, taken, data_len, read, failed>>
  BY DEF GetWrong, Answered, sender
<1>2. failed \/ message.head > BufSize  BY <1>1 DEF ConnectionInv, HeadInv
<1>3. message.head \in Nat /\ BufSize \in Int
  BY MessageShape DEF ConnectionInv, ConnectionAssumption
<1>4. ConnectionTypeOK' /\ HeadInv' /\ BodyInv'
  BY <1>1 DEF ConnectionInv, ConnectionTypeOK, HeadInv, BodyInv
<1>5. RequestsHold'
  <2>1. failed' \/ ~ (message.head <= BufSize)'  BY <1>1, <1>2, <1>3
  <2>2. status' # 200  BY <1>1
  <2> QED BY <2>1, <2>2 DEF RequestsHold, BodyFirst, HeadsFit
<1> QED BY <1>4, <1>5 DEF ConnectionInv

LEMMA ReadBufferedKeeps ==
    ASSUME ConnectionAssumption, ConnectionInv, ReadBuffered
    PROVE  ConnectionInv'
<1>1. /\ stage = "post" /\ UNCHANGED <<message, file, taken, data_len, failed>>
      /\ UNCHANGED <<postSize, Whole>>
  BY DEF ReadBuffered, sender, postSize, content_len, HasContent, Whole
<1>2. /\ ConnectionTypeOK /\ taken = data_len /\ HeadWhole
      /\ data_len \in Nat /\ message.head \in Nat /\ postSize \in Int
  <2>1. ConnectionTypeOK /\ HeadInv  BY DEF ConnectionInv
  <2> QED BY <1>1, <2>1, LengthShape DEF HeadInv, ConnectionTypeOK
<1>3. CASE stage' = "died"
  <2>1. ConnectionTypeOK' /\ HeadInv' /\ BodyInv'
    BY <1>1, <1>2, <1>3 DEF ConnectionTypeOK, HeadInv, BodyInv
  <2> QED BY <1>3, <2>1, NotClosed DEF ConnectionInv
<1>4. CASE stage' = "body" /\ read' = Bytes(message.head, Buffered)
  <2>1. BufferedBody = data_len - message.head /\ BufferedBody \in Nat
    BY <1>2 DEF BufferedBody, HeadWhole
  <2>2. /\ Buffered \in Nat /\ (Buffered <= Whole \/ postSize < 0)
        /\ Buffered < Whole => taken = message.head + Buffered
    <3>1. CASE ~ HasContent  BY <3>1 DEF Buffered, Whole
    <3>2. CASE HasContent /\ postSize < 0  BY <1>2, <2>1, <3>2 DEF Buffered, Whole
    <3>3. CASE HasContent /\ ~ (postSize < 0)  BY <1>2, <2>1, <3>3 DEF Buffered, Whole
    <3> QED BY <3>1, <3>2, <3>3
  <2>3. BodyInv'  BY <1>1, <1>4, <2>2 DEF BodyInv
  <2>4. ConnectionTypeOK' /\ HeadInv'
    BY <1>1, <1>2, <1>4 DEF ConnectionTypeOK, HeadInv
  <2> QED BY <1>4, <2>3, <2>4, NotClosed DEF ConnectionInv
<1> QED BY <1>3, <1>4 DEF ReadBuffered

\* What BodyInv tells of the bytes that have been copied and the ones that are left.
LEMMA Copied ==
    ASSUME ConnectionAssumption, ConnectionInv, stage \in {"body", "called"}
    PROVE  \E n \in Nat :
             /\ read = Bytes(message.head, n) /\ Len(read) = n
             /\ n <= Whole \/ postSize < 0
             /\ Left \in Int /\ (Left > 0 <=> n < Whole) /\ (Left > 0 => Left = Whole - n)
             /\ n < Whole => taken = message.head + n
             /\ stage = "called" => failed
<1>1. PICK n \in Nat :
        /\ read = Bytes(message.head, n)
        /\ n <= Whole \/ postSize < 0
        /\ n < Whole => taken = message.head + n
        /\ stage = "called" => failed
  BY DEF ConnectionInv, BodyInv
<1>2. Len(read) = n  BY <1>1 DEF Bytes
<1>3. postSize \in Int  BY LengthShape DEF ConnectionInv
<1>4. Left \in Int /\ (Left > 0 <=> n < Whole) /\ (Left > 0 => Left = Whole - n)
  BY <1>2, <1>3 DEF Left, Whole
<1> QED BY <1>1, <1>2, <1>4

LEMMA ReadBodyKeeps ==
    ASSUME ConnectionAssumption, ConnectionInv, ReadBody
    PROVE  ConnectionInv'
<1>1. /\ stage = "body" /\ Left > 0 /\ UNCHANGED <<message, file, data_len>>
      /\ UNCHANGED <<postSize, Whole>>
  BY DEF ReadBody, sender, postSize, content_len, HasContent, Whole
<1>2. /\ ConnectionTypeOK /\ taken \in Nat /\ message.head \in Nat /\ Whole \in Nat
  BY LengthShape DEF ConnectionInv, ConnectionTypeOK
<1>3. PICK n \in Nat :
        /\ read = Bytes(message.head, n) /\ Len(read) = n
        /\ Left \in Int /\ (Left > 0 <=> n < Whole) /\ (Left > 0 => Left = Whole - n)
        /\ n < Whole => taken = message.head + n
  BY <1>1, Copied
<1>4. Left = Whole - n /\ n < Whole /\ taken = message.head + n
  BY <1>1, <1>3
<1>5. PICK k \in 0 .. Left :
        /\ read' = read \o Bytes(taken, k) /\ taken' = taken + k
        /\ stage' = IF k = 0 THEN "called" ELSE "body"
        /\ failed' = (k = 0)
  BY DEF ReadBody
<1>6. k \in Nat /\ n + k \in 0 .. Whole  BY <1>2, <1>4, <1>5
<1>7. read' = Bytes(message.head, n + k)
  <2>1. Bytes(message.head, n) \o Bytes(message.head + n, k) = Bytes(message.head, n + k)
    <3>1. message.head \in Int  BY <1>2
    <3> QED BY <1>4, <1>6, <3>1, BytesJoin
  <2> QED BY <1>3, <1>4, <1>5, <2>1
<1>8. taken' = message.head + (n + k) /\ taken' \in Nat  BY <1>2, <1>4, <1>5, <1>6
<1>9. stage' \in {"body", "called"} /\ (stage' = "called" => failed') /\ failed' \in BOOLEAN
  BY <1>5
<1>10. BodyInv'
  <2>1. read' = Bytes(message.head', n + k) /\ taken' = message.head' + (n + k)
        /\ n + k \in Nat /\ n + k <= Whole'
    BY <1>1, <1>2, <1>6, <1>7, <1>8
  <2> QED BY <1>9, <2>1 DEF BodyInv
<1>11. ConnectionTypeOK' /\ HeadInv'
  BY <1>1, <1>2, <1>8, <1>9 DEF ConnectionTypeOK, HeadInv
<1> QED BY <1>9, <1>10, <1>11, NotClosed DEF ConnectionInv

LEMMA CallKeeps ==
    ASSUME ConnectionAssumption, ConnectionInv, Call
    PROVE  ConnectionInv'
<1>1. /\ stage = "called" \/ (stage = "body" /\ Left <= 0)
      /\ stage' = "closed" /\ status' = 200
      /\ UNCHANGED <<message, file, taken, data_len, read, failed>>
      /\ UNCHANGED <<Whole, Told>>
  BY DEF Call, Answered, sender, postSize, content_len, HasContent, Whole, Told
<1>2. /\ ConnectionTypeOK /\ message.head \in Nat /\ postSize \in Int /\ Whole \in Nat
      /\ ToldExactly => Whole = Told /\ postSize = Told
  BY LengthShape DEF ConnectionInv, ConnectionTypeOK
<1>3. PICK n \in Nat :
        /\ read = Bytes(message.head, n) /\ Len(read) = n
        /\ n <= Whole \/ postSize < 0
        /\ Left \in Int /\ (Left > 0 <=> n < Whole)
        /\ stage = "called" => failed
  <2>1. stage \in {"body", "called"}  BY <1>1
  <2> QED BY <2>1, Copied
<1>4. n < Whole => failed
  BY <1>1, <1>3
<1>5. PICK junk \in Nat : handed' = read \o [x \in 1 .. junk |-> Junk]
  <2> DEFINE most == IF message.length = NoLength THEN 0
                     ELSE IF postSize < Len(read) THEN 1 ELSE postSize + 1 - Len(read)
  <2>1. most \in Int  BY <1>2, <1>3
  <2>2. PICK j \in 0 .. most : handed' = read \o [x \in 1 .. j |-> Junk]  BY DEF Call
  <2> HIDE DEF most
  <2>3. j \in Nat  BY <2>1
  <2> QED BY <2>2, <2>3
<1>6. /\ n \in 0 .. Len(handed') /\ SubSeq(handed', 1, n) = Bytes(message.head, n)
      /\ \A x \in n + 1 .. Len(handed') : handed'[x] = Junk
  <2>1. message.head \in Int  BY <1>2
  <2>2. handed' = Bytes(message.head, n) \o [x \in 1 .. junk |-> Junk]  BY <1>3, <1>5
  <2> DEFINE all == Bytes(message.head, n) \o [x \in 1 .. junk |-> Junk]
  <2>3. /\ n \in 0 .. Len(all) /\ SubSeq(all, 1, n) = Bytes(message.head, n)
        /\ \A x \in n + 1 .. Len(all) : all[x] = Junk
    BY <1>4, <2>1, BytesThenJunk
  <2> HIDE DEF all
  <2>4. handed' = all  BY <2>2 DEF all
  <2> QED BY <2>3, <2>4
<1>7. BodyFirst'
  <2>1. /\ n \in 0 .. Len(handed') /\ SubSeq(handed', 1, n) = Bytes(message.head', n)
        /\ \A x \in n + 1 .. Len(handed') : handed'[x] = Junk
    BY <1>1, <1>6
  <2>2. ToldExactly' => n <= Told' /\ (n < Told' => failed')
    <3>1. SUFFICES ASSUME ToldExactly PROVE n <= Told /\ (n < Told => failed)
      BY <1>1 DEF ToldExactly
    <3>2. Whole = Told  BY <1>2, <3>1
    <3>3. ~ (postSize < 0)  BY <1>2, <3>1, <3>2
    <3> QED BY <1>3, <1>4, <3>2, <3>3
  <2> QED BY <2>1, <2>2 DEF BodyFirst
<1>8. ConnectionTypeOK' /\ HeadInv' /\ BodyInv'
  BY <1>1, <1>2 DEF ConnectionTypeOK, HeadInv, BodyInv
<1>9. HeadsFit'
  <2>1. status' # 500  BY <1>1
  <2> QED BY <2>1 DEF HeadsFit
<1> QED BY <1>7, <1>8, <1>9 DEF ConnectionInv, RequestsHold

\* For any messages, cut into packets at will, any buffer and any end or stop on the way:
\* what a method is called with begins with the body that was sent, as far as
\* Content-Length says unless a recv failed or an int does not hold that length, and a
\* request that fits is not refused for its size (process_new_connection, mg_read,
\* HttpServer::callback).  Content-Length may be any integer.
THEOREM RequestsAreRead ==
    ASSUME ConnectionAssumption
    PROVE  ConnectionSpec => []RequestsHold
<1>1. ConnectionInit => ConnectionInv  BY ConnectionInvInit
<1>2. ConnectionInv /\ [ConnectionNext]_connection => ConnectionInv'
  <2> SUFFICES ASSUME ConnectionInv, [ConnectionNext]_connection PROVE ConnectionInv'
    OBVIOUS
  <2>1. CASE Send \/ End \/ Stop \/ UNCHANGED connection  BY <2>1, SenderKeeps
  <2>2. CASE ReadHead  BY <2>2, ReadHeadKeeps
  <2>3. CASE GetRequest  BY <2>3, GetRequestKeeps
  <2>4. CASE GetWrong  BY <2>4, GetWrongKeeps
  <2>5. CASE ReadBuffered  BY <2>5, ReadBufferedKeeps
  <2>6. CASE ReadBody  BY <2>6, ReadBodyKeeps
  <2>7. CASE Call  BY <2>7, CallKeeps
  <2> QED BY <2>1, <2>2, <2>3, <2>4, <2>5, <2>6, <2>7 DEF ConnectionNext, ServeNext
<1>3. ConnectionInv => RequestsHold  BY DEF ConnectionInv
<1> QED BY <1>1, <1>2, <1>3, PTL DEF ConnectionSpec

================================================================================
