------------------------------- MODULE Semaphore -------------------------------
(***************************************************************************)
(* CSemaphore of sync.h and the grants of it that threads hold, release    *)
(* and move.  A post takes two steps: the mutex is given back before       *)
(* notify_one.                                                             *)
(***************************************************************************)
EXTENDS Integers, FiniteSets

CONSTANTS Waiter,   \* threads, each with a grant (a fresh one after a move)
          Permits   \* the initial value

SemaphoreAssumption == IsFiniteSet(Waiter) /\ Permits \in Nat

VARIABLES
    value,
    asleep,     \* threads in condition.wait
    woken,      \* threads that were notified and have not looked at value again
    notifies,   \* threads between the end of post's block and notify_one
    grants      \* whether the grant of each thread has fHaveGrant: 0 or 1

vars == <<value, asleep, woken, notifies, grants>>

Init ==
    /\ value = Permits
    /\ asleep = {} /\ woken = {} /\ notifies = {}
    /\ grants = [t \in Waiter |-> 0]

Busy(t) == t \in asleep \cup woken \cup notifies

Take(t) == value' = value - 1 /\ grants' = [grants EXCEPT ![t] = @ + 1]

\* Acquire: a wait, unless there is a grant.
Acquire(t) ==
    /\ ~Busy(t) /\ grants[t] = 0
    /\ \/ value >= 1 /\ Take(t) /\ UNCHANGED asleep
       \/ value < 1 /\ asleep' = asleep \cup {t} /\ UNCHANGED <<value, grants>>
    /\ UNCHANGED <<woken, notifies>>

\* The loop of wait looks again, and may sleep again.
Awake(t) ==
    /\ t \in woken /\ woken' = woken \ {t}
    /\ \/ value >= 1 /\ Take(t) /\ UNCHANGED asleep
       \/ value < 1 /\ asleep' = asleep \cup {t} /\ UNCHANGED <<value, grants>>
    /\ UNCHANGED notifies

TryAcquire(t) ==
    /\ ~Busy(t) /\ grants[t] = 0 /\ value >= 1
    /\ Take(t)
    /\ UNCHANGED <<asleep, woken, notifies>>

\* A slip: a notification only when the value leaves 0.
NotifyFirst(t) == notifies' = IF value = 0 THEN notifies \cup {t} ELSE notifies
NotifyLater(t) == notifies' = notifies \cup {t}

\* The destructor of a grant is a Release too.
Release(t) ==
    /\ ~Busy(t) /\ grants[t] > 0
    /\ grants' = [grants EXCEPT ![t] = @ - 1]
    /\ value' = value + 1
    /\ NotifyLater(t)
    /\ UNCHANGED <<asleep, woken>>

notify_one(t) ==
    /\ t \in notifies /\ notifies' = notifies \ {t}
    /\ IF asleep = {}
       THEN UNCHANGED <<asleep, woken>>
       ELSE \E u \in asleep : asleep' = asleep \ {u} /\ woken' = woken \cup {u}
    /\ UNCHANGED <<value, grants>>

MoveReleases(t, u) ==
    /\ grants' = [grants EXCEPT ![t] = 0, ![u] = grants[t]]
    /\ value' = value + grants[u]
    /\ notifies' = IF grants[u] > 0 THEN notifies \cup {t} ELSE notifies

\* MoveTo: the grant of another thread takes the place of its own, which is released.
MoveTo(t, u) ==
    /\ t # u /\ ~Busy(t) /\ ~Busy(u) /\ grants[t] > 0
    /\ MoveReleases(t, u)
    /\ UNCHANGED <<asleep, woken>>

Next ==
    \E t \in Waiter :
        \/ Acquire(t) \/ Awake(t) \/ TryAcquire(t) \/ Release(t) \/ notify_one(t)
        \/ \E u \in Waiter : MoveTo(t, u)

Spec == Init /\ [][Next]_vars

--------------------------------------------------------------------------------
\* Permits are neither lost nor made, whatever is moved over what (sync.h:226).
PermitsKept ==
    value + Cardinality({t \in Waiter : grants[t] = 1}) = Permits

\* No wake-up is lost: a thread only sleeps on when every permit that is free has
\* a notification on its way, whoever takes the permits first (sync.h:174-196).
NoLostWakeup ==
    asleep # {} => value <= Cardinality(notifies) + Cardinality(woken)
================================================================================
