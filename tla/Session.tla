-------------------------------- MODULE Session --------------------------------
(***************************************************************************)
(* Runs of the program in mode 'W', from loading bms.conf to writing the   *)
(* state back to it, by processes that share the wallet daemon, the        *)
(* network and the file.  Between any two calls of one process the others  *)
(* may act, blocks may be found, the wallet may lock itself and its owner  *)
(* may spend from it; calls may fail, with or without having been carried  *)
(* out, and a process may die.                                             *)
(*                                                                         *)
(* What a message says is left out: message m is a chain of chains[m].n    *)
(* transactions, of which the first spends wallet outputs, each other one  *)
(* the one before it, and the last pays the wallet.  That output and the   *)
(* message share a name: State.LastTx = m is the hash of m's last          *)
(* transaction, State.FirstTx = m that of its first.                       *)
(***************************************************************************)
EXTENDS Integers, Sequences, FiniteSets, FiniteSetsExt, Functions

CONSTANTS
    Writers,        \* processes of the program
    Coins,          \* outputs the wallet holds at first, all confirmed
    Amount,         \* their amounts
    ChainLengths,   \* numbers of transactions a message may need
    Fee,            \* fee of one transaction
    Margin,         \* what MinimumBudget adds to the fees
    MaxMessages,    \* bound on the chains ever built
    MaxCrashes,     \* bound on deaths of processes
    Failures,       \* may calls to the daemon fail?
    Spending,       \* does the owner spend from the wallet on the side?
    Patient         \* does the user wait for confirmations between runs?

Messages == 1 .. MaxMessages

ASSUME SessionAssumption ==
    /\ Amount \in [Coins -> Nat]
    /\ Coins \cap Messages = {}
    /\ ChainLengths \subseteq Nat \ {0, 1}     \* EmbedData starts with two
    /\ Fee \in Nat /\ Margin \in Nat
    /\ MaxMessages \in Nat /\ MaxCrashes \in Nat
    /\ {Failures, Spending, Patient} \subseteq BOOLEAN
    /\ IsFiniteSet(Writers) /\ IsFiniteSet(Coins)

VARIABLES
    pc,         \* where each process is
    run,        \* what each process holds in memory
    file,       \* State.FirstTx and State.LastTx in bms.conf, or Truncated
    chains,     \* the chains built so far
    accepted,   \* how many transactions of each the daemon has taken
    mined,      \* how many of these are in blocks
    taken,      \* outputs the owner has spent on the side
    unlocked,   \* is the wallet unlocked?
    crashes

network == <<chains, accepted, mined, taken>>
vars == <<pc, run, file, network, unlocked, crashes>>

Truncated == [first |-> -1, last |-> -1]
State == [first : 0 .. MaxMessages, last : 0 .. MaxMessages]
NoState == [first |-> 0, last |-> 0]

\* A process: Config's state, the length of the chain its text needs, the
\* chain it has built, the transaction it sends next and the state that
\* SerializeState has read from the file.
Fresh == [cfg |-> NoState, size |-> 0, msg |-> 0, k |-> 0, str |-> NoState]
Chain == [ins : Seq(Coins \cup Messages), n : Nat, budget : Int]

--------------------------------------------------------------------------------
(* The wallet. *)

Built == 1 .. Len(chains)

\* An output stops being spendable when a transaction that spends it is taken.
Spent(c) == \/ c \in taken
            \/ \E m \in Built : /\ accepted[m] > 0
                                /\ c \in Range(chains[m].ins)

Complete(m) == accepted[m] = chains[m].n

Value(c) == IF c \in Coins THEN Amount[c]
            ELSE chains[c].budget - chains[c].n * Fee

\* What getbalance counts, and what listunspent lists with its default of one
\* confirmation.  Before it is in a block the last output of a message is neither: the
\* transaction spends outputs to script hashes, whose scripts the wallet does not know,
\* so that it does not trust it.
Listed == {c \in Coins : ~ Spent(c)} \cup {m \in Built : mined[m] = chains[m].n /\ ~ Spent(m)}

Worth(S) == MapThenSumSet(Value, S)

--------------------------------------------------------------------------------
(* SelectInputs and EmbedData *)

\* A slip: the fee of one transaction only.
OneFee(n) == Fee + Margin

\* MinimumBudget for a chain of n transactions.
MinimumBudget(n) == n * Fee + Margin

\* The loop over the remaining outputs, largest amount first: it stops as
\* soon as the budget reaches the minimum, or when the outputs run out.
\* Which of two equal amounts comes first is up to the sort.
Accumulates(s, rest, budget, nMin) ==
    LET picked == Range(s) IN
    /\ picked \subseteq rest
    /\ Cardinality(picked) = Len(s)
    /\ \A x, y \in DOMAIN s : x < y => Value(s[x]) >= Value(s[y])
    /\ \A x \in DOMAIN s, c \in rest \ picked : Value(s[x]) >= Value(c)
    /\ s # <<>> => budget + Worth(picked \ {s[Len(s)]}) < nMin
    /\ budget + Worth(picked) >= nMin \/ picked = rest

SequencesOf(S) == UNION {[1 .. n -> S] : n \in 0 .. Cardinality(S)}

\* A slip: the message chain's output comes after the others.
LinkLast(last, nMin) ==
    LET rest == Listed \ {last} IN
    {s \o (IF last \in Listed THEN <<last>> ELSE <<>>) : s \in
        {t \in SequencesOf(rest) : Accumulates(t, rest, 0, nMin)}}

\* The last output of the chain of messages comes first when it is listed.
Selections(last, nMin) ==
    LET head == IF last \in Listed THEN <<last>> ELSE <<>>
        rest == Listed \ {last}
        budget == IF last \in Listed THEN Value(last) ELSE 0
    IN {head \o s : s \in {t \in SequencesOf(rest) :
                             Accumulates(t, rest, budget, nMin)}}

--------------------------------------------------------------------------------
(* The steps of main() *)

Init ==
    /\ pc = [p \in Writers |-> "idle"]
    /\ run = [p \in Writers |-> Fresh]
    /\ file = NoState
    /\ chains = <<>>
    /\ accepted = <<>>
    /\ mined = <<>>
    /\ taken = {}
    /\ unlocked = FALSE
    /\ crashes = 0

Goto(p, label) == pc' = [pc EXCEPT ![p] = label]

\* The end of a run, good or bad, unloads everything.
Exit(p) == Goto(p, "idle") /\ run' = [run EXCEPT ![p] = Fresh]

Confirmed == \A m \in Built : mined[m] = accepted[m]

\* Runs that have yet to build their chain; the bound on chains counts them.
Choosing == {p \in Writers : pc[p] \in {"balance", "unspent"}}

\* A run starts with a text that needs n transactions.  A bms.conf without
\* its lines leaves Config empty, and the program gives up.
Load(p, n) ==
    /\ pc[p] = "idle"
    /\ Patient => Confirmed
    /\ Len(chains) + Cardinality(Choosing) < MaxMessages
    /\ file # Truncated
    /\ run' = [run EXCEPT ![p].cfg = file, ![p].size = n]
    /\ Goto(p, "balance")
    /\ UNCHANGED <<file, network, unlocked, crashes>>

\* SelectInputs asks for the balance first.
GetBalance(p) ==
    /\ pc[p] = "balance"
    /\ IF Worth(Listed) < MinimumBudget(run[p].size)
       THEN Exit(p)
       ELSE Goto(p, "unspent") /\ UNCHANGED run
    /\ UNCHANGED <<file, network, unlocked, crashes>>

\* It then picks inputs among what is listed now, and EmbedData builds the
\* chain on them.
ListUnspent(p) ==
    /\ pc[p] = "unspent"
    /\ \E ins \in Selections(run[p].cfg.last, MinimumBudget(run[p].size)) :
         chains' = Append(chains,
                     [ins |-> ins, n |-> run[p].size,
                      budget |-> Worth(Range(ins))])
    /\ accepted' = Append(accepted, 0)
    /\ mined' = Append(mined, 0)
    /\ run' = [run EXCEPT ![p].msg = Len(chains) + 1]
    /\ Goto(p, "unlock")
    /\ UNCHANGED <<file, taken, unlocked, crashes>>

WalletPassphrase(p) ==
    /\ pc[p] = "unlock"
    /\ unlocked' = TRUE
    /\ Goto(p, "sign")
    /\ UNCHANGED <<run, file, network, crashes>>

\* AuthorizeTransactions: the wallet signs the first transaction if it is
\* unlocked and still owns the inputs; the error otherwise skips walletlock.
Authorize(p) ==
    /\ pc[p] = "sign"
    /\ IF unlocked /\ \A c \in Range(chains[run[p].msg].ins) : ~ Spent(c)
       THEN Goto(p, "lock") /\ UNCHANGED run
       ELSE Exit(p)
    /\ UNCHANGED <<file, network, unlocked, crashes>>

\* A slip: the transactions go out first.
LockForgotten(p) ==
    /\ pc[p] = "lock"
    /\ run' = [run EXCEPT ![p].k = 1]
    /\ Goto(p, "send")
    /\ UNCHANGED <<file, network, unlocked, crashes>>

WalletLock(p) ==
    /\ pc[p] = "lock"
    /\ unlocked' = FALSE
    /\ run' = [run EXCEPT ![p].k = 1]
    /\ Goto(p, "send")
    /\ UNCHANGED <<file, network, crashes>>

\* The daemon takes a transaction whose inputs are there to be spent and
\* whose outputs do not ask for more.
Acceptable(m, x) ==
    /\ accepted[m] = x - 1
    /\ x = 1 => \A c \in Range(chains[m].ins) : ~ Spent(c)
    /\ chains[m].budget >= x * Fee

\* A slip: a refusal is swallowed.
SendAndForget(p) ==
    LET m == run[p].msg  x == run[p].k IN
    /\ pc[p] = "send"
    /\ x <= chains[m].n
    /\ accepted' = IF Acceptable(m, x) THEN [accepted EXCEPT ![m] = x] ELSE accepted
    /\ run' = [run EXCEPT ![p].k = x + 1]
    /\ UNCHANGED <<pc, file, chains, mined, taken, unlocked, crashes>>

\* A slip: a refused transaction is sent again, until it is taken.
SendUntilTaken(p) ==
    LET m == run[p].msg  x == run[p].k IN
    /\ pc[p] = "send"
    /\ x <= chains[m].n
    /\ Acceptable(m, x)
    /\ accepted' = [accepted EXCEPT ![m] = x]
    /\ run' = [run EXCEPT ![p].k = x + 1]
    /\ UNCHANGED <<pc, file, chains, mined, taken, unlocked, crashes>>

\* One turn of SendTransactions' loop; a refusal ends the run.
Send(p) ==
    LET m == run[p].msg  x == run[p].k IN
    /\ pc[p] = "send"
    /\ x <= chains[m].n
    /\ \/ /\ Acceptable(m, x)
          /\ accepted' = [accepted EXCEPT ![m] = x]
          /\ run' = [run EXCEPT ![p].k = x + 1]
          /\ UNCHANGED pc
       \/ /\ ~ Acceptable(m, x)
          /\ Exit(p)
          /\ UNCHANGED accepted
    /\ UNCHANGED <<file, chains, mined, taken, unlocked, crashes>>

Sent(p) ==
    /\ pc[p] = "send"
    /\ run[p].k > chains[run[p].msg].n
    /\ Goto(p, "update")
    /\ UNCHANGED <<run, file, network, unlocked, crashes>>

\* The state in memory becomes new, and SerializeState reads the file.
ReadState(p, new) ==
    /\ pc[p] = "update"
    /\ file # Truncated
    /\ run' = [run EXCEPT ![p].cfg = new, ![p].str = file]
    /\ Goto(p, "open")
    /\ UNCHANGED <<file, network, unlocked, crashes>>

\* Slips: FirstTx follows LastTx; LastTx is only set together with FirstTx;
\* the file is opened for output before it is read.
FirstFollows(p) == ReadState(p, [first |-> run[p].msg, last |-> run[p].msg])

LastStays(p) == ReadState(p, IF run[p].cfg.first = 0
                             THEN [first |-> run[p].msg, last |-> run[p].msg]
                             ELSE run[p].cfg)

OpenThenRead(p) ==
    /\ pc[p] = "update"
    /\ file' = Truncated
    /\ Exit(p)
    /\ UNCHANGED <<network, unlocked, crashes>>

\* UpdateChainstate: FirstTx is set once, LastTx always; SerializeState reads
\* the file.  The replacement fails on an empty one.
UpdateChainstate(p) ==
    LET m == run[p].msg  old == run[p].cfg IN
    IF file = Truncated
    THEN /\ pc[p] = "update"
         /\ Exit(p)
         /\ UNCHANGED <<file, network, unlocked, crashes>>
    ELSE ReadState(p, [first |-> IF old.first = 0 THEN m ELSE old.first, last |-> m])

\* Opening the file for output empties it.
OpenOutput(p) ==
    /\ pc[p] = "open"
    /\ file' = Truncated
    /\ Goto(p, "write")
    /\ UNCHANGED <<run, network, unlocked, crashes>>

WriteState(p) ==
    /\ pc[p] = "write"
    /\ file' = run[p].cfg
    /\ Exit(p)
    /\ UNCHANGED <<network, unlocked, crashes>>

--------------------------------------------------------------------------------
(* What else can happen. *)

Calls == {"balance", "unspent", "unlock", "sign", "lock", "send"}

\* A call fails and nothing was done; every error ends the run.
CallFails(p) ==
    /\ Failures
    /\ pc[p] \in Calls
    /\ Exit(p)
    /\ UNCHANGED <<file, network, unlocked, crashes>>

\* A call is carried out, but its answer does not arrive.
AnswerLost(p) ==
    /\ Failures
    /\ \/ /\ pc[p] \in {"unlock", "lock"}
          /\ unlocked' = (pc[p] = "unlock")
          /\ UNCHANGED accepted
       \/ /\ pc[p] = "send"
          /\ run[p].k <= chains[run[p].msg].n
          /\ Acceptable(run[p].msg, run[p].k)
          /\ accepted' = [accepted EXCEPT ![run[p].msg] = run[p].k]
          /\ UNCHANGED unlocked
    /\ Exit(p)
    /\ UNCHANGED <<file, chains, mined, taken, crashes>>

\* The process dies; only the file, the wallet and the network remember.
Crash(p) ==
    /\ pc[p] # "idle"
    /\ crashes < MaxCrashes
    /\ crashes' = crashes + 1
    /\ Exit(p)
    /\ UNCHANGED <<file, network, unlocked>>

\* The 60 seconds asked for in walletpassphrase are over.
LockTimeout ==
    /\ unlocked
    /\ unlocked' = FALSE
    /\ UNCHANGED <<pc, run, file, network, crashes>>

\* A block takes the next transaction of a chain.
Mine(m) ==
    /\ m \in Built
    /\ mined[m] < accepted[m]
    /\ mined' = [mined EXCEPT ![m] = @ + 1]
    /\ UNCHANGED <<pc, run, file, chains, accepted, taken, unlocked, crashes>>

SpendElsewhere(c) ==
    /\ Spending
    /\ c \in Listed
    /\ taken' = taken \cup {c}
    /\ UNCHANGED <<pc, run, file, chains, accepted, mined, unlocked, crashes>>

Run(p) ==
    \/ GetBalance(p) \/ ListUnspent(p) \/ WalletPassphrase(p) \/ Authorize(p)
    \/ WalletLock(p) \/ Send(p) \/ Sent(p) \/ UpdateChainstate(p)
    \/ OpenOutput(p) \/ WriteState(p)

Environment ==
    \/ \E p \in Writers : CallFails(p) \/ AnswerLost(p) \/ Crash(p)
    \/ LockTimeout
    \/ \E m \in Messages : Mine(m)
    \/ \E c \in Coins \cup Messages : SpendElsewhere(c)

Next ==
    \/ \E p \in Writers : \/ \E n \in ChainLengths : Load(p, n)
                          \/ Run(p)
    \/ Environment

Spec == Init /\ [][Next]_vars

\* What happens to a user who runs the program when all he has sent is in blocks, whose
\* calls are answered and whose wallet nobody else uses.
Undisturbed(p) ==
    \/ Confirmed /\ \E n \in ChainLengths : Load(p, n)
    \/ Run(p)
    \/ LockTimeout
    \/ \E m \in Messages : Mine(m)

\* A started process keeps running, and the wallet's timer goes off.
FairSpec == /\ Spec
            /\ \A p \in Writers : WF_vars(Run(p))
            /\ WF_vars(LockTimeout)

--------------------------------------------------------------------------------
(* What should hold. *)

\* Every variable has its type.
TypeOK ==
    /\ pc \in [Writers -> Calls \cup {"idle", "update", "open", "write"}]
    /\ run \in [Writers -> [cfg : State, size : {0} \cup ChainLengths, msg : 0 .. MaxMessages,
                             k : Nat, str : State]]
    /\ file \in State \cup {Truncated}
    /\ Len(chains) <= MaxMessages
    /\ chains \in Seq(Chain)
    /\ accepted \in [Built -> Nat] /\ mined \in [Built -> Nat]
    /\ \A m \in Built : mined[m] <= accepted[m] /\ accepted[m] <= chains[m].n
    /\ taken \subseteq Coins \cup Messages
    /\ unlocked \in BOOLEAN
    /\ crashes \in 0 .. MaxCrashes

\* main() writes LastTx only after SendTransactions came back: whatever fails
\* on the way and whoever else runs, bms.conf never names a message of which
\* the daemon has not taken every transaction.
RecordedIsSent ==
    file # Truncated => \A m \in {file.first, file.last} \ {0} :
                            m \in Built /\ Complete(m)

\* The other process's walletlock, or the owner's own, may come between
\* walletpassphrase and signing, but a single process never sends with the
\* wallet still unlocked: walletlock was answered before.
LockedWhileSending ==
    \A p \in Writers : pc[p] \in {"send", "update", "open", "write"} => ~ unlocked

\* bms.conf is without its state only while some process rewrites it, or after
\* one has died there: two processes that truncate and write in turn leave a
\* whole state behind.
StateSurvives ==
    file = Truncated => crashes > 0 \/ \E p \in Writers : pc[p] = "write"

\* A chain of which only some transactions were taken holds outputs to script
\* hashes whose scripts the program no longer has: it does not happen unless
\* its process is still sending.
NothingStranded ==
    \A m \in Built : accepted[m] > 0 => \/ Complete(m)
                                       \/ \E p \in Writers : pc[p] = "send" /\ run[p].msg = m

\* SelectInputs promises outputs that "accumulate above the specified
\* minimum"; it compares the minimum with the balance, and then picks among what is
\* listed at the next call.
BudgetCovers == \A m \in Built : chains[m].budget >= MinimumBudget(chains[m].n)

\* The state of the file, also while SerializeState rewrites it.
Recorded == IF file # Truncated THEN file
            ELSE LET p == CHOOSE q \in Writers : pc[q] = "write" IN run[p].str

\* The messages ReadTransactions meets on its way from LastTx along the first
\* inputs, in the order written, up to FirstTx or to an output that is not an
\* earlier message's.
ReadBack(state) ==
    LET back[m \in Built] ==
            LET ins == chains[m].ins IN
            IF m = state.first \/ ins = <<>> \/ ins[1] \notin 1 .. m - 1 THEN <<m>>
            ELSE Append(back[ins[1]], m)
    IN IF state.last = 0 THEN <<>> ELSE back[state.last]

\* ReadTransactions(State.FirstTx, State.LastTx) comes to its end: SelectInputs
\* puts the last message's output first, so each message leads to the one
\* before it.
ChainReadable ==
    Recorded.last # 0 => ReadBack(Recorded)[1] = Recorded.first

\* What the program is for: an archive that keeps every message sent, in order.
Published == INSTANCE Archive WITH
    sent <- {m \in Built : Complete(m)}, log <- ReadBack(Recorded)

ImplementsArchive == Published!Spec

\* A run comes to its end, whatever fails.
RunsEnd == \A p \in Writers : pc[p] # "idle" ~> pc[p] = "idle"
================================================================================
