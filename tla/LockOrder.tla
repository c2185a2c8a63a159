------------------------------- MODULE LockOrder -------------------------------
(***************************************************************************)
(* sync.h and sync.cpp: critical sections that a thread may enter again,   *)
(* entered with LOCK and TRY_LOCK and left at the end of the scope, and    *)
(* the detection of inconsistent orders of DEBUG_LOCKORDER, which runs     *)
(* before the thread waits.                                                *)
(***************************************************************************)
EXTENDS Integers, Sequences, FiniteSets

CONSTANTS
    Thread,
    Section,    \* CCriticalSections
    NoThread,   \* owns a section that is free
    MaxNested   \* bound: LOCKs of a thread that are open at once

LockOrderAssumption == NoThread \notin Thread

VARIABLES
    owner,      \* the thread that has each section
    entered,    \* how many times it has entered it
    waits,      \* threads that wait in lock()
    lockstack,  \* the sections of each thread, in the order of its LOCKs
    lockorders, \* pairs of sections that have been entered in this order
    detected    \* whether a potential deadlock was told

vars == <<owner, entered, waits, lockstack, lockorders, detected>>

Init ==
    /\ owner = [c \in Section |-> NoThread]
    /\ entered = [c \in Section |-> 0]
    /\ waits = {}
    /\ lockstack = [t \in Thread |-> <<>>]
    /\ lockorders = {}
    /\ detected = FALSE

Top(t) == lockstack[t][Len(lockstack[t])]
Held(t) == {c \in Section : owner[c] = t}

\* The sections before the first occurrence of c on the stack.
Before(stack, c) ==
    {stack[i] : i \in {j \in DOMAIN stack : \A h \in 1 .. j : stack[h] # c}}

\* push_lock: the loop over the stack stops at the first new order that was seen
\* the other way round before.
push_lock(t, c, fTry) ==
    LET stack == Append(lockstack[t], c)
        new == {<<b, c>> : b \in {b \in Before(stack, c) : <<b, c>> \notin lockorders}}
        reversed == {o \in new : <<o[2], o[1]>> \in lockorders}
        Position(o) == CHOOSE j \in DOMAIN stack :
                           stack[j] = o[1] /\ \A h \in 1 .. (j - 1) : stack[h] # o[1]
        UpTo(o) == {r \in new : Position(r) <= Position(o)}
    IN  /\ lockstack' = [lockstack EXCEPT ![t] = stack]
        /\ IF fTry
           THEN UNCHANGED <<lockorders, detected>>
           ELSE IF reversed = {}
           THEN lockorders' = lockorders \cup new /\ UNCHANGED detected
           ELSE \E o \in reversed :
                    /\ \A r \in reversed : Position(o) <= Position(r)
                    /\ lockorders' = lockorders \cup UpTo(o)
                    /\ detected' = TRUE

Enter(t, c) ==
    /\ t \notin waits /\ Len(lockstack[t]) < MaxNested
    /\ push_lock(t, c, FALSE)
    /\ waits' = waits \cup {t}
    /\ UNCHANGED <<owner, entered>>

lock(t) ==
    LET c == Top(t)
    IN  /\ t \in waits /\ owner[c] \in {NoThread, t}
        /\ owner' = [owner EXCEPT ![c] = t]
        /\ entered' = [entered EXCEPT ![c] = @ + 1]
        /\ waits' = waits \ {t}
        /\ UNCHANGED <<lockstack, lockorders, detected>>

\* The stack is popped again when the section is another's.
TryEnter(t, c) ==
    /\ t \notin waits /\ Len(lockstack[t]) < MaxNested
    /\ IF owner[c] \in {NoThread, t}
       THEN /\ push_lock(t, c, TRUE)
            /\ owner' = [owner EXCEPT ![c] = t]
            /\ entered' = [entered EXCEPT ![c] = @ + 1]
       ELSE UNCHANGED <<lockstack, lockorders, detected, owner, entered>>
    /\ UNCHANGED waits

pop_lock(t) == lockstack' = [lockstack EXCEPT ![t] = SubSeq(@, 1, Len(@) - 1)]

OwnerAfter(t, c) == IF entered[c] = 1 THEN NoThread ELSE t

Leave(t) ==
    LET c == Top(t)
    IN  /\ t \notin waits /\ lockstack[t] # <<>>
        /\ pop_lock(t)
        /\ entered' = [entered EXCEPT ![c] = @ - 1]
        /\ owner' = [owner EXCEPT ![c] = OwnerAfter(t, c)]
        /\ UNCHANGED <<waits, lockorders, detected>>

Next ==
    \E t \in Thread :
        \/ \E c \in Section : Enter(t, c) \/ TryEnter(t, c)
        \/ lock(t) \/ Leave(t)

Spec == Init /\ [][Next]_vars

--------------------------------------------------------------------------------
\* What AssertLockHeld and LocksHeld look at is what the thread holds: its stack
\* has a section as often as the thread has entered it, and on top the one it
\* waits for (sync.cpp:133, 142).
StackIsHeld ==
    \A t \in Thread, c \in Section :
        Cardinality({i \in DOMAIN lockstack[t] : lockstack[t][i] = c}) =
          (IF owner[c] = t THEN entered[c] ELSE 0) +
          (IF t \in waits /\ Top(t) = c THEN 1 ELSE 0)

\* Two threads never wait for each other without a potential deadlock having been
\* told (sync.cpp:78).
WaitsFor(t, u) == t \in waits /\ owner[Top(t)] = u /\ t # u
DeadlockTold ==
    \A t, u \in Thread : WaitsFor(t, u) /\ WaitsFor(u, t) => detected
================================================================================
