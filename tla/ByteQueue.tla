------------------------------- MODULE ByteQueue -------------------------------
(***************************************************************************)
(* What a data stream promises: bytes come out at the front in the order   *)
(* in which they were put in at the end, and those that came out may be    *)
(* put back by rewinding for as long as they are remembered.               *)
(***************************************************************************)
EXTENDS Integers, Sequences

CONSTANTS Data      \* what may be put in at once

VARIABLES
    behind,     \* what came out and is still remembered
    ahead,      \* what is still to come
    out         \* what was read last

queue == <<behind, ahead, out>>

QueueInit == behind = <<>> /\ ahead = <<>> /\ out = <<>>

Front(n) == SubSeq(ahead, 1, n)
After(n) == SubSeq(ahead, n + 1, Len(ahead))

\* The bytes in front are passed; they are remembered, or all that is behind is forgotten.
Pass(n) ==
    /\ ahead' = After(n)
    /\ behind' \in {<<>>, behind \o Front(n)}
Take(n) == Pass(n) /\ out' = Front(n)
Skip(n) == Pass(n) /\ UNCHANGED out

Put(s) == ahead' = ahead \o s /\ UNCHANGED <<behind, out>>

\* What is put in front takes the place of the last that is behind, or nothing is forgotten.
PutFront(s) ==
    /\ ahead' = s \o ahead
    /\ \E n \in 0 .. Len(behind) : behind' = SubSeq(behind, 1, n)
    /\ UNCHANGED out

\* Bytes in the middle go, or come.
Cut(m, n) == ahead' = Front(m) \o After(n) /\ UNCHANGED <<behind, out>>
PutAt(m, s) == ahead' = Front(m) \o s \o After(m) /\ UNCHANGED <<behind, out>>

Back(n) ==
    /\ n <= Len(behind)
    /\ behind' = SubSeq(behind, 1, Len(behind) - n)
    /\ ahead' = SubSeq(behind, Len(behind) - n + 1, Len(behind)) \o ahead
    /\ UNCHANGED out

Forget == behind' = <<>> /\ UNCHANGED <<ahead, out>>

QueueNext ==
    \/ \E n \in 0 .. Len(ahead) : Take(n) \/ Skip(n)
    \/ \E s \in Data : Put(s) \/ PutFront(s) \/ \E m \in 1 .. Len(ahead) : PutAt(m, s)
    \/ \E m, n \in 0 .. Len(ahead) : m <= n /\ Cut(m, n)
    \/ \E n \in 1 .. Len(behind) : Back(n)
    \/ Forget

QueueSpec == QueueInit /\ [][QueueNext]_queue
================================================================================
