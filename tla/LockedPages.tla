------------------------------ MODULE LockedPages ------------------------------
(***************************************************************************)
(* LockedPageManagerBase of allocators.h: mlock() does not stack, so the   *)
(* manager counts, for every page, the ranges that need it locked.  An     *)
(* object is a key, a block of secure_allocator or a local array given to  *)
(* LockObject; each lives in a thread of its own.  A page is named by its  *)
(* number, its base address over page_size.                                *)
(***************************************************************************)
EXTENDS Integers, FiniteSets

CONSTANTS
    Object,     \* what is kept out of swap
    None,       \* no object
    Addr,       \* the address of each object
    Size,       \* how many bytes it has
    page_size,
    MayRefuse   \* whether mlock() can fail, its result being ignored

LockedPagesAssumption ==
    /\ IsFiniteSet(Object) /\ None \notin Object
    /\ Addr \in [Object -> Nat] /\ Size \in [Object -> Nat]
    /\ page_size \in Nat \ {0}
    /\ MayRefuse \in BOOLEAN

VARIABLES
    histogram,  \* ranges counted for every page, 0 for one that has no entry
    locked,     \* pages that the system keeps in memory
    refused,    \* pages counted after a refusal of mlock()
    task,       \* what the thread of the object is doing with it
    page,       \* the page that its loop has come to
    mutex,      \* the object whose thread holds it, or None
    secret,     \* objects that hold secret bytes
    aborted     \* whether the assertion of UnlockRange has failed

pages == <<histogram, locked, refused, task, page, mutex, secret, aborted>>

start_page(o) == Addr[o] \div page_size
end_page(o) == (Addr[o] + Size[o] - 1) \div page_size
PagesOf(o) == IF Size[o] = 0 THEN {} ELSE start_page(o) .. end_page(o)
Pages == UNION {PagesOf(o) : o \in Object}

Stages == {"free", "allocated", "locking", "held", "cleansed", "unlocking", "unlocked"}

PagesInit ==
    /\ histogram = [p \in Pages |-> 0]
    /\ locked = {} /\ refused = {} /\ secret = {}
    /\ task = [o \in Object |-> "free"]
    /\ page = [o \in Object |-> 0]
    /\ mutex = None
    /\ aborted = FALSE

Becomes(o, s) == task' = [task EXCEPT ![o] = s]

--------------------------------------------------------------------------------
(* secure_allocator, LockObject and UnlockObject. *)

allocate(o) ==
    /\ task[o] = "free" /\ Becomes(o, "allocated")
    /\ UNCHANGED <<histogram, locked, refused, page, mutex, secret, aborted>>

Write(o) ==
    /\ task[o] = "held" /\ o \notin secret
    /\ secret' = secret \cup {o}
    /\ UNCHANGED <<histogram, locked, refused, task, page, mutex, aborted>>

\* OPENSSL_cleanse runs before UnlockRange.
Cleanse(o) ==
    /\ task[o] = "held" /\ Becomes(o, "cleansed")
    /\ secret' = secret \ {o}
    /\ UNCHANGED <<histogram, locked, refused, page, mutex, aborted>>

deallocate(o) ==
    /\ task[o] = "unlocked" /\ Becomes(o, "free")
    /\ UNCHANGED <<histogram, locked, refused, page, mutex, secret, aborted>>

--------------------------------------------------------------------------------
(* LockRange and UnlockRange: the mutex is held for the whole loop. *)

SetPage(o) == page' = [page EXCEPT ![o] = start_page(o)]

Enter(o) ==
    /\ mutex = None
    /\ \/ task[o] = "allocated" /\ Becomes(o, "locking")
       \/ task[o] = "cleansed" /\ Becomes(o, "unlocking")
    /\ mutex' = o
    /\ SetPage(o)
    /\ UNCHANGED <<histogram, locked, refused, secret, aborted>>

InLoop(o) == mutex = o /\ page[o] \in PagesOf(o)

LockRange(o) ==
    /\ task[o] = "locking" /\ InLoop(o)
    /\ \/ histogram[page[o]] = 0
          /\ \/ locked' = locked \cup {page[o]} /\ UNCHANGED refused
             \/ MayRefuse /\ refused' = refused \cup {page[o]} /\ UNCHANGED locked
       \/ histogram[page[o]] > 0 /\ UNCHANGED <<locked, refused>>
    /\ histogram' = [histogram EXCEPT ![page[o]] = @ + 1]
    /\ page' = [page EXCEPT ![o] = @ + 1]
    /\ UNCHANGED <<task, mutex, secret, aborted>>

\* A slip: a page is unlocked with the first of its ranges.
UnlocksFirst(count) == count >= 0
\* A count that comes to 0 is erased with its page unlocked.
Unlocks(count) == count = 0

UnlockRange(o) ==
    /\ task[o] = "unlocking" /\ InLoop(o) /\ ~aborted
    /\ IF histogram[page[o]] = 0
       THEN aborted' = TRUE /\ UNCHANGED <<histogram, locked, refused, page>>
       ELSE /\ histogram' = [histogram EXCEPT ![page[o]] = @ - 1]
            /\ IF Unlocks(histogram[page[o]] - 1)
               THEN locked' = locked \ {page[o]} /\ refused' = refused \ {page[o]}
               ELSE UNCHANGED <<locked, refused>>
            /\ page' = [page EXCEPT ![o] = @ + 1]
            /\ UNCHANGED aborted
    /\ UNCHANGED <<task, mutex, secret>>

Leave(o) ==
    /\ mutex = o /\ page[o] \notin PagesOf(o)
    /\ \/ task[o] = "locking" /\ Becomes(o, "held")
       \/ task[o] = "unlocking" /\ Becomes(o, "unlocked")
    /\ mutex' = None
    /\ UNCHANGED <<histogram, locked, refused, page, secret, aborted>>

PagesNext ==
    \E o \in Object :
        \/ allocate(o) \/ Write(o) \/ Cleanse(o) \/ deallocate(o)
        \/ Enter(o) \/ LockRange(o) \/ UnlockRange(o) \/ Leave(o)

\* A thread that holds the mutex is not stopped: it does no I/O.
PagesSpec ==
    /\ PagesInit /\ [][PagesNext]_pages
    /\ \A o \in Object : WF_pages(LockRange(o) \/ UnlockRange(o) \/ Leave(o))

--------------------------------------------------------------------------------
PagesTypeOK ==
    /\ histogram \in [Pages -> Nat]
    /\ locked \subseteq Pages /\ refused \subseteq Pages
    /\ task \in [Object -> Stages]
    /\ page \in [Object -> Nat]
    /\ mutex \in Object \cup {None}
    /\ secret \subseteq Object
    /\ aborted \in BOOLEAN

\* Bytes written by a thread never are in a page that may be swapped, whatever
\* other threads lock and unlock in the same pages (allocators.h:46, 69).
SecretsLocked ==
    \A o \in secret : PagesOf(o) \subseteq locked \cup refused

\* The count of a page is the number of ranges in it that have been locked and not
\* yet unlocked; loops under way count for the pages they have passed.
Counted(o, p) ==
    /\ p \in PagesOf(o)
    /\ \/ task[o] \in {"held", "cleansed"}
       \/ task[o] = "locking" /\ p < page[o]
       \/ task[o] = "unlocking" /\ p >= page[o]
Counts == \A p \in Pages : histogram[p] = Cardinality({o \in Object : Counted(o, p)})

\* No page stays locked that no range needs: when every range has been unlocked
\* the histogram is empty, as the destructor asserts (allocators.h:41), and no
\* UnlockRange meets a page that was not locked (allocators.h:79).
NothingLeft ==
    /\ ~aborted
    /\ (\A o \in Object : task[o] \in {"free", "allocated", "unlocked"}) =>
         locked = {} /\ \A p \in Pages : histogram[p] = 0

\* All of these, of the memory that secrets are in.
PagesHold == PagesTypeOK /\ SecretsLocked /\ Counts /\ NothingLeft

\* The mutex is given back: no loop waits for another.
MutexReleased == \A o \in Object : mutex = o ~> mutex # o
================================================================================
