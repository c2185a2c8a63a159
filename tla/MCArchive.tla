------------------------------- MODULE MCArchive -------------------------------
(* The archive of messages, on small instances: one user who waits between his runs, *)
(* two at once whose programs may fail and die, and one who reads while the blocks   *)
(* are found.  A behaviour is one of one of these, and the other ones stay as they   *)
(* are at first.                                                                     *)
EXTENDS MCSession

CONSTANTS MaxTogether, NumMessages, nBlocks, MaxBlocks, MaxOthers

VARIABLES
    part,       \* what the behaviour is of: "alone", "together" or "reading"
    overtaken,  \* the programs that are running and since whose start another one has
                \* written bms.conf: a history, which no step depends on
    msgs, sent, blocks, mode, at, TxBegin, TxEnd, first, last, chain, block, i, j, txs, returned

MixedShapes == {<<"data", "end">>, <<"data", "single", "end">>}

Reader == INSTANCE ChainReader WITH Messages <- MixedShapes, pc <- at, chains <- returned

ASSUME ArchiveAssumption == p1 \in Writers /\ MaxTogether \in Nat /\ Reader!ReaderAssumption

sessions == <<vars, overtaken>>
reading == <<msgs, sent, blocks, mode, at, TxBegin, TxEnd, first, last, chain, block, i, j, txs,
             returned>>

ArchiveInit ==
    /\ part \in {"alone", "together", "reading"}
    /\ part # "reading" =>
         msgs = [x \in 1 .. NumMessages |-> <<"data", "end">>] /\ mode = "backward"
    /\ Init /\ Reader!Init /\ overtaken = {}

\* Whoever writes is done; whoever else is running has been overtaken.
Overtakes ==
    overtaken' = {p \in Writers : /\ pc'[p] # "idle"
                                  /\ p \in overtaken \/ file' \notin {file, Truncated}}

ArchiveNext ==
    \/ part = "alone" /\ Undisturbed(p1) /\ Overtakes /\ UNCHANGED <<part, reading>>
    \/ part = "together" /\ Next /\ Overtakes /\ Len(chains') + Cardinality(Choosing') <= MaxTogether
         /\ UNCHANGED <<part, reading>>
    \/ part = "reading" /\ Reader!Next /\ UNCHANGED <<part, sessions>>

\* A program that was started keeps running, and a read that has started goes on.
ArchiveSpec ==
    /\ ArchiveInit /\ [][ArchiveNext]_<<part, sessions, reading>>
    /\ WF_vars(part = "alone" /\ Run(p1))
    /\ WF_vars(part = "alone" /\ LockTimeout)
    /\ WF_reading(part = "reading" /\ Reader!Read)

--------------------------------------------------------------------------------
\* Every message leads to the one before it, whichever outputs were selected for it
\* (SelectInputs, SerializeState).
SessionsReadable ==
    /\ TypeOK
    /\ part = "alone" => ChainReadable

\* Who does not fail leaves no message half sent (MinimumBudget, SendTransactions).
NothingStrandedAlone == part = "alone" => NothingStranded

\* What SerializeState overwrites, unless another program has written bms.conf since this
\* one was started, is the state it was started with, and what it writes carries that one
\* on: FirstTx, once set, stays, and LastTx names a later message.  So a message is lost
\* from the file only by runs that overlap (Main.cpp, UpdateChainstate, SerializeState).
StateAdvances ==
    \A p \in Writers \ overtaken : pc[p] \in {"open", "write"} =>
        /\ file = Truncated \/ (pc[p] = "open" /\ file = run[p].str)
        /\ run[p].str.first \in {0, run[p].cfg.first}
        /\ run[p].str.last < run[p].cfg.last

\* Who is alone and waits has an archive: messages sent go into a log at its end, one at a
\* time, and stay there (main, mode W).
SentAlone == IF part = "alone" THEN {m \in Built : Complete(m)} ELSE {}
LogAlone == IF part = "alone" THEN ReadBack(Recorded) ELSE <<>>

Kept == INSTANCE Archive WITH sent <- SentAlone, log <- LogAlone

KeepsArchive == Kept!Spec

\* Readers: what is returned backward is whole messages, and nothing is returned forward
\* without the blocks that were asked for (ReadTransactions).
ReadsHold ==
    part = "reading" => Reader!TypeOK /\ Reader!BackwardReads /\ Reader!ForwardNeedsBlocks

\* Forward all of the chain in these blocks is collected, nothing twice (ReadTransactions).
ForwardCollectsAll == part = "reading" => Reader!ForwardCollects

\* Whatever is asked for, the reader comes to an end (ReadTransactions).
ReadingEnds == Reader!ReadEnds
================================================================================
