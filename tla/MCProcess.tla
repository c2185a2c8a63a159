------------------------------- MODULE MCProcess -------------------------------
(* Small instances of what a process of the program shares with others: files, *)
(* pages of memory, locks, permits and connections.  A behaviour is one of one *)
(* of these parts, and the other ones stay as they are at first.               *)
EXTENDS Startup, LockedPages, Connect

CONSTANTS Thread, Section, NoThread, MaxNested, Waiter, Permits

VARIABLES
    part,   \* what the behaviour is of
    owner, entered, waits, lockstack, lockorders, detected,
    value, asleep, woken, notifies, grants

Order == INSTANCE LockOrder
Count == INSTANCE Semaphore

ASSUME ProcessAssumption ==
    /\ LockedPagesAssumption /\ ConnectAssumption
    /\ Order!LockOrderAssumption /\ Count!SemaphoreAssumption

\* Three objects of a few bytes, two of which meet in a page.
MCAddr == [o \in Object |-> CASE o = 1 -> 0 [] o = 2 -> 3 [] o = 3 -> 7]
MCSize == [o \in Object |-> CASE o = 1 -> 3 [] o = 2 -> 6 [] o = 3 -> 1]

MCDestinations ==
    {[kind |-> "numeric", net |-> "ipv4"], [kind |-> "numeric", net |-> "tor"],
     [kind |-> "name", net |-> "ipv4"], [kind |-> "name", net |-> "none"]}

connection == <<call, peer, proxies>>
sections == <<owner, entered, waits, lockstack, lockorders, detected>>
semaphore == <<value, asleep, woken, notifies, grants>>
allvars == <<part, vars, pages, connection, sections, semaphore>>

ProcessInit ==
    /\ part \in {"files", "pages", "connection", "sections", "semaphore"}
    /\ Init /\ PagesInit /\ ConnectInit /\ Order!Init /\ Count!Init
    /\ part # "files" => bms_conf = 0
    /\ part # "connection" => nameproxyInfo = 0 /\ \A net \in Networks : proxyInfo[net] = 0

ProcessNext ==
    \/ part = "files" /\ Next
         /\ UNCHANGED <<part, pages, connection, sections, semaphore>>
    \/ part = "pages" /\ PagesNext
         /\ UNCHANGED <<part, vars, connection, sections, semaphore>>
    \/ part = "connection" /\ ConnectNext
         /\ UNCHANGED <<part, vars, pages, sections, semaphore>>
    \/ part = "sections" /\ Order!Next
         /\ UNCHANGED <<part, vars, pages, connection, semaphore>>
    \/ part = "semaphore" /\ Count!Next
         /\ UNCHANGED <<part, vars, pages, connection, sections>>

\* The fairness of each part.
ProcessSpec ==
    /\ ProcessInit /\ [][ProcessNext]_allvars
    /\ \A p \in Program : /\ WF_vars(part = "files" /\ Load(p))
                          /\ WF_vars(part = "files" /\ Unload(p))
    /\ \A o \in Object : WF_pages(part = "pages" /\ (LockRange(o) \/ UnlockRange(o) \/ Leave(o)))
    /\ WF_connection(part = "connection" /\ Steps)
    /\ WF_connection(part = "connection" /\ Deliver)

--------------------------------------------------------------------------------
\* Sections and permits: what a thread holds is on its stack, a deadlock of two is told
\* before it comes, no permit is lost or made and no wakeup missed (sync.cpp, sync.h).
LocksHold ==
    Order!StackIsHeld /\ Order!DeadlockTold /\ Count!PermitsKept /\ Count!NoLostWakeup

\* Whatever is begun ends: every start, every call and every loop under the mutex
\* (main, ConnectSocketByName, LockRange, UnlockRange).
ProcessGoesOn == StartsEnd /\ CallEnds /\ MutexReleased
================================================================================
