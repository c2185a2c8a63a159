----------------------------- MODULE ArchiveProofs -----------------------------
(***************************************************************************)
(* What bms.conf says of the network, for any number of processes, any     *)
(* wallet and any failures.  Then the archive of one user who waits for    *)
(* confirmations, for any wallet, any messages and any fees: what he sends *)
(* is sent to its end, can be read back from its last message to its       *)
(* first, and is what Archive says.                                        *)
(***************************************************************************)
EXTENDS MCArchive, SequenceProofs

--------------------------------------------------------------------------------
(* Sessions. *)

Pair == [first : Nat, last : Nat]
Process == [cfg : Pair, size : Nat, msg : Nat, k : Nat, str : Pair]
Labels == Calls \cup {"idle", "update", "open", "write"}

\* The chains known so far, and how many of their transactions were taken.
Known ==
    /\ \E S : chains \in Seq(S)
    /\ accepted \in Seq(Nat)
    /\ Len(accepted) = Len(chains)
    /\ \A m \in Built : chains[m].n \in Nat /\ accepted[m] <= chains[m].n

\* A state whose messages are completely sent.
Good(state) == \A m \in {state.first, state.last} \ {0} : m \in Built /\ Complete(m)

\* A process knows only completed messages from the file; its own has been
\* sent as far as its loop has come.
Running(p) ==
    /\ Good(run[p].cfg)
    /\ pc[p] \in {"balance", "unspent"} => run[p].size \in ChainLengths
    /\ pc[p] \in {"unlock", "sign", "lock", "send", "update", "open", "write"} =>
          run[p].msg \in Built
    /\ pc[p] = "send" => run[p].k - 1 <= accepted[run[p].msg]
    /\ pc[p] \in {"update", "open", "write"} => Complete(run[p].msg)

IInv ==
    /\ pc \in [Writers -> Labels]
    /\ run \in [Writers -> Process]
    /\ Known
    /\ \A p \in Writers : Running(p)
    /\ file # Truncated => file \in Pair /\ Good(file)

\* What every step does to the network: chains stay, and more is taken.
Grows ==
    /\ Len(chains) <= Len(chains')
    /\ \A m \in Built : /\ chains'[m] = chains[m]
                        /\ accepted[m] <= accepted'[m]
                        /\ accepted'[m] <= chains[m].n

--------------------------------------------------------------------------------

\* A completed message stays completed, whatever is sent after it.
LEMMA GoodStays ==
    ASSUME Known, Known', Grows, NEW state, Good(state)
    PROVE  Good(state)'
<1>. SUFFICES ASSUME NEW m \in {state.first, state.last} \ {0}
              PROVE  m \in Built' /\ Complete(m)'
  BY DEF Good
<1>1. m \in Built /\ accepted[m] = chains[m].n
  BY DEF Good, Complete
<1>2. Len(chains) \in Nat /\ Len(chains') \in Nat
  BY DEF Known
<1>3. m \in Built'
  BY <1>1, <1>2 DEF Grows, Built
<1>4. chains'[m] = chains[m] /\ accepted[m] <= accepted'[m] /\ accepted'[m] <= chains[m].n
  BY <1>1 DEF Grows
<1>5. accepted[m] \in Nat
  BY <1>1 DEF Known, Built
<1>6. accepted'[m] \in Nat
  BY <1>3 DEF Known, Built
<1>. QED
  BY <1>1, <1>3, <1>4, <1>5, <1>6 DEF Complete

\* A process that a step leaves alone stays as it should be.
LEMMA OthersStay ==
    ASSUME Known, Known', Grows, NEW p \in Writers, Running(p),
           pc'[p] = pc[p], run'[p] = run[p], run[p] \in Process
    PROVE  Running(p)'
<1>1. Good(run[p].cfg)'
  BY GoodStays DEF Running
<1>2. \A m \in Built : m \in Built'
  BY DEF Grows, Built, Known
<1>3. \A m \in Built : accepted[m] \in Nat /\ accepted'[m] \in Nat
  BY <1>2 DEF Known, Built
<1>4. \A m \in Built : Complete(m) => Complete(m)'
  BY <1>3 DEF Grows, Complete, Known
<1>5. pc[p] = "send" => run[p].k - 1 <= accepted'[run[p].msg]
  <2>. HAVE pc[p] = "send"
  <2>1. run[p].msg \in Built /\ run[p].k - 1 <= accepted[run[p].msg]
    BY DEF Running
  <2>2. accepted[run[p].msg] <= accepted'[run[p].msg]
    BY <2>1 DEF Grows
  <2>3. run[p].k \in Nat
    BY DEF Process
  <2>. QED
    BY <1>3, <2>1, <2>2, <2>3
<1>. QED
  BY <1>1, <1>2, <1>4, <1>5 DEF Running

\* A step that leaves the chains and what was taken of them alone.
LEMMA NetworkStays ==
    ASSUME Known, UNCHANGED <<chains, accepted>>
    PROVE  Known' /\ Grows
<1>1. Known'
  BY DEF Known, Built
<1>2. \A m \in Built : accepted[m] \in Nat
  BY DEF Known, Built
<1>. QED
  BY <1>1, <1>2 DEF Known, Grows

\* The daemon takes the next transaction of a chain.
LEMMA NetworkTakes ==
    ASSUME Known, NEW m \in Built, NEW x \in Nat, x <= chains[m].n, Acceptable(m, x),
           accepted' = [accepted EXCEPT ![m] = x], UNCHANGED chains
    PROVE  Known' /\ Grows /\ accepted'[m] = x
<1>1. m \in 1 .. Len(accepted) /\ accepted[m] = x - 1
  BY DEF Known, Built, Acceptable
<1>2. /\ accepted' \in Seq(Nat) /\ Len(accepted') = Len(accepted)
      /\ \A e \in 1 .. Len(accepted) : accepted'[e] = IF e = m THEN x ELSE accepted[e]
  BY <1>1, ExceptSeq DEF Known
<1>3. \A e \in Built : accepted[e] \in Nat /\ e \in 1 .. Len(accepted)
  BY DEF Known, Built
<1>4. Known'
  BY <1>2, <1>3 DEF Known, Built
<1>5. Grows
  BY <1>1, <1>2, <1>3, SMTT(30) DEF Known, Grows
<1>. QED
  BY <1>1, <1>2, <1>4, <1>5

\* A step of one process: it leaves the file alone, empties it or writes its
\* state to it.
LEMMA StepOfOne ==
    ASSUME IInv, NEW p \in Writers, Known', Grows, NEW label \in Labels, NEW new \in Process,
           pc' = [pc EXCEPT ![p] = label], run' = [run EXCEPT ![p] = new],
           Running(p)', file' \in {file, Truncated, run[p].cfg}
    PROVE  IInv'
<1>1. pc' \in [Writers -> Labels] /\ run' \in [Writers -> Process]
  BY DEF IInv
<1>2. ASSUME NEW q \in Writers PROVE Running(q)'
  <2>1. CASE q = p
    BY <2>1
  <2>2. CASE q # p
    <3>1. pc'[q] = pc[q] /\ run'[q] = run[q] /\ run[q] \in Process
      BY <2>2 DEF IInv
    <3>. QED
      BY <3>1, OthersStay DEF IInv
  <2>. QED
    BY <2>1, <2>2
<1>3. file' # Truncated => file' \in Pair /\ Good(file)'
  <2>1. CASE file' = file
    <3>1. file # Truncated => Good(file)
      BY DEF IInv
    <3>2. file # Truncated => Good(file)'
      BY <2>1, <3>1, GoodStays DEF IInv
    <3>. QED
      BY <2>1, <3>2 DEF IInv
  <2>2. CASE file' = run[p].cfg
    <3>1. run[p].cfg \in Pair /\ Good(run[p].cfg)
      BY DEF IInv, Running, Process
    <3>2. Known
      BY DEF IInv
    <3>3. \A state : Good(state) => \A m \in {state.first, state.last} \ {0} :
                                      m \in Built' /\ Complete(m)'
      BY <3>2, GoodStays DEF Good
    <3>. QED
      BY <2>2, <3>1, <3>3 DEF Good
  <2>3. CASE file' = Truncated
    BY <2>3
  <2>. QED
    BY <2>1, <2>2, <2>3
<1>. QED
  BY <1>1, <1>2, <1>3 DEF IInv

\* A step of the wallet, of the network or of nobody.
LEMMA StepOfNone ==
    ASSUME IInv, UNCHANGED <<pc, run, file, chains, accepted>>
    PROVE  IInv'
<1>1. Known' /\ Grows
  BY NetworkStays DEF IInv
<1>2. ASSUME NEW p \in Writers PROVE Running(p)'
  BY <1>1, OthersStay DEF IInv
<1>3. file # Truncated => Good(file)'
  BY <1>1, GoodStays DEF IInv
<1>. QED
  BY <1>1, <1>2, <1>3 DEF IInv

--------------------------------------------------------------------------------
(* One lemma for each action. *)

\* An unloaded process knows nothing.
LEMMA FreshRuns ==
    ASSUME NEW p \in Writers, pc'[p] = "idle", run'[p] = Fresh
    PROVE  Running(p)' /\ Fresh \in Process
BY DEF Running, Fresh, NoState, Good, Process, Pair

\* Wherever a run ends, the others go on.
LEMMA ExitStep ==
    ASSUME IInv, NEW p \in Writers, Known', Grows, Exit(p),
           file' \in {file, Truncated, run[p].cfg}
    PROVE  IInv'
<1>1. pc'[p] = "idle" /\ run'[p] = Fresh
  BY DEF Exit, Goto, IInv
<1>2. Running(p)' /\ Fresh \in Process
  BY <1>1, FreshRuns
<1>3. "idle" \in Labels
  BY DEF Labels
<1>. QED
  BY <1>2, <1>3, StepOfOne DEF Exit, Goto

\* A step that only moves a process on, with what it remembers.
LEMMA MoveStep ==
    ASSUME IInv, NEW p \in Writers, NEW label \in Labels, Goto(p, label),
           UNCHANGED <<run, chains, accepted>>, Running(p)',
           file' \in {file, Truncated, run[p].cfg}
    PROVE  IInv'
<1>1. Known' /\ Grows
  BY NetworkStays DEF IInv
<1>2. run[p] \in Process /\ run' = [run EXCEPT ![p] = run[p]]
  BY DEF IInv
<1>. QED
  BY <1>1, <1>2, StepOfOne DEF Goto

LEMMA LoadStep ==
    ASSUME IInv, NEW p \in Writers, NEW n \in ChainLengths, Load(p, n)
    PROVE  IInv'
<1>. DEFINE new == [run[p] EXCEPT !.cfg = file, !.size = n]
<1>1. Known' /\ Grows
  BY NetworkStays DEF IInv, Load, network
<1>2. run[p] \in Process /\ file \in Pair /\ Good(file) /\ n \in Nat
  BY SessionAssumption DEF IInv, Load
<1>3. new \in Process
  BY <1>2 DEF Process
<1>4. run' = [run EXCEPT ![p] = new] /\ pc' = [pc EXCEPT ![p] = "balance"]
  BY DEF Load, Goto, IInv
<1>5. run'[p].cfg = file /\ run'[p].size = n /\ pc'[p] = "balance"
  BY <1>2, <1>4 DEF IInv, Process
<1>6. Good(file)'
  BY <1>1, <1>2, GoodStays DEF IInv, Load
<1>7. file' = file
  BY DEF Load
<1>8. Running(p)'
  BY <1>5, <1>6, <1>7 DEF Running
<1>9. "balance" \in Labels
  BY DEF Labels, Calls
<1>. HIDE DEF new
<1>. QED
  BY <1>1, <1>3, <1>4, <1>7, <1>8, <1>9, StepOfOne

LEMMA GetBalanceStep ==
    ASSUME IInv, NEW p \in Writers, GetBalance(p)
    PROVE  IInv'
<1>1. Known' /\ Grows /\ file' = file
  BY NetworkStays DEF IInv, GetBalance, network
<1>2. CASE Exit(p)
  BY <1>1, <1>2, ExitStep
<1>3. CASE Goto(p, "unspent") /\ UNCHANGED run
  <2>1. pc'[p] = "unspent" /\ run'[p] = run[p]
    BY <1>3 DEF Goto, IInv
  <2>2. Good(run[p].cfg)'
    <3>1. Known /\ Good(run[p].cfg)
      BY DEF IInv, Running
    <3>. QED
      BY <1>1, <1>3, <3>1, GoodStays
  <2>3. Running(p)'
    BY <2>1, <2>2 DEF Running, GetBalance, IInv
  <2>4. UNCHANGED <<run, chains, accepted>> /\ "unspent" \in Labels
    BY <1>3 DEF GetBalance, network, Labels, Calls
  <2>. QED
    BY <1>1, <1>3, <2>3, <2>4, MoveStep
<1>. QED
  BY <1>2, <1>3 DEF GetBalance

\* A new chain comes last, with nothing sent of it.
LEMMA NetworkGains ==
    ASSUME Known, NEW fresh, fresh.n \in Nat,
           chains' = Append(chains, fresh), accepted' = Append(accepted, 0)
    PROVE  Known' /\ Grows /\ Len(chains) + 1 \in Built'
<1>1. PICK S : chains \in Seq(S)
  BY DEF Known
<1>2. /\ chains' \in Seq(S \cup {fresh}) /\ Len(chains') = Len(chains) + 1
      /\ \A m \in 1 .. Len(chains) : chains'[m] = chains[m]
      /\ chains'[Len(chains) + 1] = fresh
  <2>. DEFINE T == S \cup {fresh}
              next == Append(chains, fresh)
  <2>1. chains \in Seq(T) /\ fresh \in T
    BY <1>1
  <2>2. chains' = next
    OBVIOUS
  <2>3. /\ next \in Seq(T) /\ Len(next) = Len(chains) + 1
        /\ \A m \in 1 .. Len(chains) : next[m] = chains[m]
        /\ next[Len(chains) + 1] = fresh
    <3>. HIDE DEF T
    <3>. QED
      BY ONLY <2>1, AppendProperties
  <2>. HIDE DEF next
  <2>. QED
    BY <2>2, <2>3
<1>3. /\ accepted' \in Seq(Nat) /\ Len(accepted') = Len(accepted) + 1
      /\ \A m \in 1 .. Len(accepted) : accepted'[m] = accepted[m]
      /\ accepted'[Len(accepted) + 1] = 0
  BY AppendProperties DEF Known
<1>4. Len(chains) \in Nat /\ Len(accepted) = Len(chains)
  BY <1>1 DEF Known
<1>5. \A m \in Built' : m \in Built \/ m = Len(chains) + 1
  BY <1>2, <1>4 DEF Built
<1>6. \A m \in Built : accepted[m] \in Nat
  BY <1>4 DEF Known, Built
<1>7. \A m \in Built' : chains'[m].n \in Nat /\ accepted'[m] <= chains'[m].n
  <2>. SUFFICES ASSUME NEW m \in Built'
                PROVE  chains'[m].n \in Nat /\ accepted'[m] <= chains'[m].n
    OBVIOUS
  <2>1. CASE m \in Built
    <3>1. chains'[m] = chains[m] /\ accepted'[m] = accepted[m]
      BY <2>1, <1>2, <1>3, <1>4 DEF Built
    <3>. QED
      BY <2>1, <3>1 DEF Known
  <2>2. CASE m = Len(chains) + 1
    BY <2>2, <1>2, <1>3, <1>4
  <2>. QED
    BY <1>5, <2>1, <2>2
<1>8. Known'
  BY <1>2, <1>3, <1>4, <1>7 DEF Known
<1>9. Grows
  <2>1. ASSUME NEW m \in Built
        PROVE  /\ chains'[m] = chains[m]
               /\ accepted[m] <= accepted'[m] /\ accepted'[m] <= chains[m].n
    <3>1. m \in 1 .. Len(chains) /\ m \in 1 .. Len(accepted)
      BY <1>4 DEF Built
    <3>2. chains'[m] = chains[m] /\ accepted'[m] = accepted[m]
      BY <1>2, <1>3, <3>1
    <3>3. accepted[m] <= chains[m].n
      BY DEF Known
    <3>4. accepted[m] \in Nat
      BY <1>6
    <3>5. accepted[m] <= accepted'[m]
      BY ONLY <3>2, <3>4
    <3>6. accepted'[m] <= chains[m].n
      BY ONLY <3>2, <3>3
    <3>. QED
      BY ONLY <3>2, <3>5, <3>6
  <2>2. Len(chains) <= Len(chains')
    BY <1>2, <1>4
  <2>. QED
    BY <2>1, <2>2 DEF Grows
<1>. QED
  BY <1>2, <1>4, <1>8, <1>9 DEF Built

LEMMA ListUnspentStep ==
    ASSUME IInv, NEW p \in Writers, ListUnspent(p)
    PROVE  IInv'
<1>. DEFINE m == Len(chains) + 1
            new == [run[p] EXCEPT !.msg = m]
<1>1. Known /\ run[p] \in Process /\ run[p].size \in Nat /\ Len(chains) \in Nat
  BY DEF IInv, Known, Process
<1>2. PICK ins : chains' = Append(chains, [ins |-> ins, n |-> run[p].size,
                                           budget |-> Worth(Range(ins))])
  BY DEF ListUnspent
<1>3. Known' /\ Grows /\ m \in Built'
  BY <1>1, <1>2, NetworkGains DEF ListUnspent
<1>4. new \in Process
  BY <1>1 DEF Process
<1>5. run' = [run EXCEPT ![p] = new] /\ pc' = [pc EXCEPT ![p] = "unlock"]
  BY DEF ListUnspent, Goto, IInv
<1>6. run'[p].cfg = run[p].cfg /\ run'[p].msg = m /\ pc'[p] = "unlock"
  BY <1>1, <1>5 DEF IInv, Process
<1>7. Good(run[p].cfg)
  BY DEF IInv, Running
<1>8. Good(run[p].cfg)'
  BY <1>1, <1>3, <1>6, <1>7, GoodStays
<1>9. Running(p)'
  BY <1>3, <1>6, <1>8 DEF Running
<1>10. "unlock" \in Labels /\ file' = file
  BY DEF Labels, Calls, ListUnspent
<1>. HIDE DEF new
<1>. QED
  BY <1>3, <1>4, <1>5, <1>9, <1>10, StepOfOne

\* What a process knew from the file stays good.
LEMMA ConfigStays ==
    ASSUME IInv, NEW p \in Writers, Known', Grows, run'[p].cfg = run[p].cfg
    PROVE  Good(run[p].cfg)'
<1>1. Known /\ Good(run[p].cfg)
  BY DEF IInv, Running
<1>. QED
  BY <1>1, GoodStays

\* A process that has built its chain and moves on before it sends.
LEMMA PassStep ==
    ASSUME IInv, NEW p \in Writers, NEW label \in {"sign", "lock"}, Goto(p, label),
           pc[p] \in {"unlock", "sign"}, UNCHANGED <<run, chains, accepted, file>>
    PROVE  IInv'
<1>1. Known' /\ Grows
  BY NetworkStays DEF IInv
<1>2. pc'[p] = label /\ run'[p] = run[p] /\ run[p].msg \in Built /\ Built' = Built
  BY DEF Goto, IInv, Running, Built
<1>3. Running(p)'
  BY <1>1, <1>2, ConfigStays DEF Running
<1>4. label \in Labels
  BY DEF Labels, Calls
<1>. QED
  BY <1>3, <1>4, MoveStep

LEMMA WalletPassphraseStep ==
    ASSUME IInv, NEW p \in Writers, WalletPassphrase(p)
    PROVE  IInv'
BY PassStep DEF WalletPassphrase, network

LEMMA AuthorizeStep ==
    ASSUME IInv, NEW p \in Writers, Authorize(p)
    PROVE  IInv'
<1>1. UNCHANGED <<chains, accepted, file>> /\ pc[p] = "sign"
  BY DEF Authorize, network
<1>2. CASE Exit(p)
  BY <1>1, <1>2, ExitStep, NetworkStays DEF IInv
<1>3. CASE Goto(p, "lock") /\ UNCHANGED run
  BY <1>1, <1>3, PassStep
<1>. QED
  BY <1>2, <1>3 DEF Authorize

LEMMA WalletLockStep ==
    ASSUME IInv, NEW p \in Writers, WalletLock(p)
    PROVE  IInv'
<1>. DEFINE new == [run[p] EXCEPT !.k = 1]
<1>1. Known' /\ Grows /\ file' = file /\ UNCHANGED <<chains, accepted>>
  BY NetworkStays DEF IInv, WalletLock, network
<1>2. run[p] \in Process /\ run[p].msg \in Built
  BY DEF IInv, Running, WalletLock
<1>3. new \in Process
  BY <1>2 DEF Process
<1>4. run' = [run EXCEPT ![p] = new] /\ pc' = [pc EXCEPT ![p] = "send"]
  BY DEF WalletLock, Goto, IInv
<1>5. run'[p] = new /\ pc'[p] = "send"
  BY <1>4 DEF IInv
<1>6. new.cfg = run[p].cfg /\ new.msg = run[p].msg /\ new.k = 1
  BY <1>2 DEF Process
<1>. HIDE DEF new
<1>7. run[p].msg \in Built' /\ 1 - 1 <= accepted'[run[p].msg]
  <2>1. accepted[run[p].msg] \in Nat
    BY <1>2 DEF IInv, Known, Built
  <2>. QED
    BY <1>1, <1>2, <2>1 DEF Built
<1>8. Running(p)'
  BY <1>1, <1>5, <1>6, <1>7, ConfigStays DEF Running
<1>9. "send" \in Labels
  BY DEF Labels, Calls
<1>. QED
  BY <1>1, <1>3, <1>4, <1>8, <1>9, StepOfOne

LEMMA SendStep ==
    ASSUME IInv, NEW p \in Writers, Send(p)
    PROVE  IInv'
<1>. DEFINE m == run[p].msg
            x == run[p].k
            new == [run[p] EXCEPT !.k = x + 1]
<1>1. /\ pc[p] = "send" /\ x <= chains[m].n /\ UNCHANGED <<file, chains>>
      /\ \/ /\ Acceptable(m, x) /\ accepted' = [accepted EXCEPT ![m] = x]
            /\ run' = [run EXCEPT ![p].k = x + 1] /\ UNCHANGED pc
         \/ Exit(p) /\ UNCHANGED accepted
  BY DEF Send
<1>2. run[p] \in Process /\ m \in Built /\ x \in Nat /\ Known
  BY <1>1 DEF IInv, Running, Process
<1>3. CASE /\ Acceptable(m, x) /\ accepted' = [accepted EXCEPT ![m] = x]
           /\ run' = [run EXCEPT ![p].k = x + 1] /\ UNCHANGED pc
  <2>1. Known' /\ Grows /\ accepted'[m] = x
    BY <1>1, <1>2, <1>3, NetworkTakes
  <2>2. new \in Process /\ new.cfg = run[p].cfg /\ new.msg = m /\ new.k = x + 1
    BY <1>2 DEF Process
  <2>3. /\ run' = [run EXCEPT ![p] = new] /\ pc' = [pc EXCEPT ![p] = "send"]
        /\ run'[p] = new /\ pc'[p] = "send"
    BY <1>1, <1>3 DEF IInv
  <2>. HIDE DEF new
  <2>4. m \in Built' /\ (x + 1) - 1 <= accepted'[m]
    BY <1>1, <1>2, <2>1 DEF Built
  <2>5. Running(p)'
    BY <2>1, <2>2, <2>3, <2>4, ConfigStays DEF Running
  <2>6. "send" \in Labels
    BY DEF Labels, Calls
  <2>. QED
    BY <1>1, <2>1, <2>2, <2>3, <2>5, <2>6, StepOfOne
<1>4. CASE Exit(p) /\ UNCHANGED accepted
  BY <1>1, <1>2, <1>4, ExitStep, NetworkStays
<1>. QED
  BY <1>1, <1>3, <1>4

\* The loop's end: every transaction of the chain has been taken.
LEMMA SentStep ==
    ASSUME IInv, NEW p \in Writers, Sent(p)
    PROVE  IInv'
<1>. DEFINE m == run[p].msg
<1>1. /\ Known /\ Known' /\ Grows /\ UNCHANGED <<run, chains, accepted, file>>
      /\ pc[p] = "send" /\ run[p].k > chains[m].n /\ Goto(p, "update")
  BY NetworkStays DEF IInv, Sent, network
<1>2. run[p] \in Process /\ m \in Built /\ run[p].k \in Nat /\ run[p].k - 1 <= accepted[m]
  BY <1>1 DEF IInv, Running, Process
<1>3. accepted[m] \in Nat /\ chains[m].n \in Nat /\ accepted[m] <= chains[m].n
  BY <1>1, <1>2, SMTT(30) DEF Known, Built
<1>4. Complete(m)
  BY <1>1, <1>2, <1>3 DEF Complete
<1>5. pc'[p] = "update" /\ run'[p] = run[p]
  BY <1>1 DEF Goto, IInv
<1>6. Complete(run[p].msg)' /\ run'[p].msg \in Built'
  BY <1>1, <1>2, <1>4 DEF Complete, Built
<1>7. Running(p)'
  BY <1>1, <1>5, <1>6, ConfigStays DEF Running
<1>8. "update" \in Labels
  BY DEF Labels
<1>. QED
  BY <1>1, <1>7, <1>8, MoveStep

LEMMA UpdateChainstateStep ==
    ASSUME IInv, NEW p \in Writers, UpdateChainstate(p)
    PROVE  IInv'
<1>. DEFINE m == run[p].msg
            cfg == [first |-> IF run[p].cfg.first = 0 THEN m ELSE run[p].cfg.first,
                    last |-> m]
            new == [run[p] EXCEPT !.cfg = cfg, !.str = file]
<1>1. /\ Known /\ Known' /\ Grows /\ UNCHANGED <<chains, accepted, file>>
      /\ pc[p] = "update"
      /\ ReadState(p, cfg) \/ Exit(p)
  BY NetworkStays DEF IInv, UpdateChainstate, ReadState, network
<1>2. run[p] \in Process /\ m \in Built /\ Complete(m) /\ Good(run[p].cfg) /\ m \in Nat
  BY <1>1 DEF IInv, Running, Process
<1>3. CASE ReadState(p, cfg)
  <2>1. file \in Pair
    BY <1>3 DEF ReadState, IInv
  <2>2. cfg \in Pair /\ Good(cfg)
    BY <1>2 DEF Pair, Process, Good
  <2>. HIDE DEF cfg
  <2>3. new \in Process /\ new.cfg = cfg /\ new.msg = m
    BY <1>2, <2>1, <2>2 DEF Process
  <2>4. run' = [run EXCEPT ![p] = new] /\ pc' = [pc EXCEPT ![p] = "open"]
    BY <1>3 DEF ReadState, Goto, IInv
  <2>5. run'[p] = new /\ pc'[p] = "open"
    BY <2>4 DEF IInv
  <2>. HIDE DEF new
  <2>6. m \in Built' /\ accepted'[m] = chains'[m].n
    BY <1>1, <1>2 DEF Built, Complete
  <2>7. \A state : Good(state) => Good(state)'
    BY <1>1, GoodStays
  <2>8. Good(run[p].cfg)' /\ run'[p].msg = m
    BY <2>2, <2>3, <2>5, <2>7
  <2>9. Complete(run[p].msg)'
    BY <2>6, <2>8 DEF Complete
  <2>10. Running(p)'
    BY <2>5, <2>6, <2>8, <2>9 DEF Running
  <2>11. "open" \in Labels
    BY DEF Labels
  <2>. QED
    BY <1>1, <2>3, <2>4, <2>10, <2>11, StepOfOne
<1>4. CASE Exit(p)
  BY <1>1, <1>4, ExitStep
<1>. QED
  BY <1>1, <1>3, <1>4

LEMMA OpenOutputStep ==
    ASSUME IInv, NEW p \in Writers, OpenOutput(p)
    PROVE  IInv'
<1>1. /\ Known' /\ Grows /\ UNCHANGED <<run, chains, accepted>> /\ file' = Truncated
      /\ pc[p] = "open" /\ Goto(p, "write")
  BY NetworkStays DEF IInv, OpenOutput, network
<1>2. /\ pc'[p] = "write" /\ run'[p] = run[p] /\ Built' = Built
      /\ run[p].msg \in Built /\ Complete(run[p].msg)
  BY <1>1 DEF Goto, IInv, Running, Built
<1>3. Complete(run[p].msg)'
  BY <1>1, <1>2 DEF Complete
<1>4. Running(p)'
  BY <1>1, <1>2, <1>3, ConfigStays DEF Running
<1>5. "write" \in Labels
  BY DEF Labels
<1>. QED
  BY <1>1, <1>4, <1>5, MoveStep

LEMMA WriteStateStep ==
    ASSUME IInv, NEW p \in Writers, WriteState(p)
    PROVE  IInv'
<1>1. Known' /\ Grows /\ file' = run[p].cfg /\ Exit(p)
  BY NetworkStays DEF IInv, WriteState, network
<1>. QED
  BY <1>1, ExitStep

\* A run that ends early, for whatever reason, having done nothing.
LEMMA StopStep ==
    ASSUME IInv, NEW p \in Writers, CallFails(p) \/ Crash(p)
    PROVE  IInv'
<1>1. Known' /\ Grows /\ file' = file /\ Exit(p)
  BY NetworkStays DEF IInv, CallFails, Crash, network
<1>. QED
  BY <1>1, ExitStep

LEMMA AnswerLostStep ==
    ASSUME IInv, NEW p \in Writers, AnswerLost(p)
    PROVE  IInv'
<1>. DEFINE m == run[p].msg
            x == run[p].k
<1>1. /\ Known /\ file' = file /\ UNCHANGED chains /\ Exit(p)
      /\ \/ UNCHANGED accepted
         \/ /\ pc[p] = "send" /\ x <= chains[m].n /\ Acceptable(m, x)
            /\ accepted' = [accepted EXCEPT ![m] = x]
  BY DEF AnswerLost, IInv
<1>2. pc[p] = "send" => m \in Built /\ x \in Nat
  BY DEF IInv, Running, Process
<1>3. Known' /\ Grows
  <2>1. CASE UNCHANGED accepted
    BY <1>1, <2>1, NetworkStays
  <2>2. CASE /\ pc[p] = "send" /\ x <= chains[m].n /\ Acceptable(m, x)
             /\ accepted' = [accepted EXCEPT ![m] = x]
    BY <1>1, <1>2, <2>2, NetworkTakes
  <2>. QED
    BY <1>1, <2>1, <2>2
<1>. QED
  BY <1>1, <1>3, ExitStep

--------------------------------------------------------------------------------

LEMMA InvarianceInit == ASSUME Init PROVE IInv
<1>1. Known
  <2>1. chains \in Seq({}) /\ accepted \in Seq(Nat) /\ Len(chains) = 0 /\ Len(accepted) = 0
    BY DEF Init
  <2>. QED
    BY <2>1 DEF Known, Built
<1>2. pc \in [Writers -> Labels] /\ run \in [Writers -> Process]
  BY DEF Init, Labels, Fresh, NoState, Process, Pair
<1>3. \A p \in Writers : Running(p)
  BY DEF Init, Running, Fresh, NoState, Good
<1>4. file \in Pair /\ Good(file)
  BY DEF Init, NoState, Pair, Good
<1>. QED
  BY <1>1, <1>2, <1>3, <1>4 DEF IInv

LEMMA InvarianceStep == ASSUME IInv, [Next]_vars PROVE IInv'
<1>1. ASSUME NEW p \in Writers, NEW n \in ChainLengths, Load(p, n) PROVE IInv'
  BY <1>1, LoadStep
<1>2. ASSUME NEW p \in Writers, Run(p) PROVE IInv'
  BY <1>2, GetBalanceStep, ListUnspentStep, WalletPassphraseStep, AuthorizeStep, WalletLockStep,
     SendStep, SentStep, UpdateChainstateStep, OpenOutputStep, WriteStateStep DEF Run
<1>3. ASSUME NEW p \in Writers, CallFails(p) \/ AnswerLost(p) \/ Crash(p) PROVE IInv'
  BY <1>3, StopStep, AnswerLostStep
<1>4. CASE LockTimeout
  BY <1>4, StepOfNone DEF LockTimeout, network
<1>5. ASSUME NEW m \in Messages, Mine(m) PROVE IInv'
  BY <1>5, StepOfNone DEF Mine
<1>6. ASSUME NEW c \in Coins \cup Messages, SpendElsewhere(c) PROVE IInv'
  BY <1>6, StepOfNone DEF SpendElsewhere
<1>7. CASE UNCHANGED vars
  BY <1>7, StepOfNone DEF vars, network
<1>. QED
  BY <1>1, <1>2, <1>3, <1>4, <1>5, <1>6, <1>7 DEF Next, Environment

\* The invariant holds of every behaviour of the program, the wallet, the
\* network and whatever fails: a process reaches UpdateChainstate only when
\* SendTransactions has seen every transaction of its chain taken.
THEOREM Invariance == Spec => []IInv
<1>1. Init => IInv
  BY InvarianceInit
<1>2. IInv /\ [Next]_vars => IInv'
  BY InvarianceStep
<1>. QED
  BY <1>1, <1>2, PTL DEF Spec

\* Whatever bms.conf names as first or last message has been taken by the
\* daemon to its last transaction, however many processes write the file.
THEOREM RecordsAreSent == Spec => []RecordedIsSent
<1>1. IInv => RecordedIsSent
  BY DEF IInv, RecordedIsSent, Good
<1>. QED
  BY <1>1, Invariance, PTL

\* Where a step may leave bms.conf without its state.
LEMMA StateSurvivesStep ==
    ASSUME IInv, IInv', crashes \in Nat, StateSurvives, [Next]_vars
    PROVE  (crashes \in Nat /\ StateSurvives)'
<1>1. pc \in [Writers -> Labels] /\ pc' \in [Writers -> Labels]
  BY DEF IInv
<1>2. CASE \E p \in Writers : Crash(p)
  BY <1>2 DEF Crash, StateSurvives
<1>3. CASE \E p \in Writers : OpenOutput(p)
  <2>1. PICK p \in Writers : OpenOutput(p)
    BY <1>3
  <2>2. pc'[p] = "write" /\ crashes' = crashes
    BY <1>1, <2>1 DEF OpenOutput, Goto
  <2>. QED
    BY <2>2 DEF StateSurvives
<1>4. CASE \E p \in Writers : WriteState(p)
  <2>1. PICK p \in Writers : WriteState(p)
    BY <1>4
  <2>2. file' \in Pair /\ crashes' = crashes
    BY <2>1 DEF WriteState, IInv, Process
  <2>. QED
    BY <2>2 DEF StateSurvives, Pair, Truncated
<1>5. CASE /\ UNCHANGED <<file, crashes>>
           /\ \/ UNCHANGED pc
              \/ \E p \in Writers : /\ pc[p] # "write"
                                    /\ \E label \in Labels : pc' = [pc EXCEPT ![p] = label]
  BY <1>1, <1>5 DEF StateSurvives
<1>6. CASE \/ \E p \in Writers : \E n \in ChainLengths : Load(p, n)
           \/ LockTimeout \/ UNCHANGED vars
           \/ \E m \in Messages : Mine(m)
           \/ \E c \in Coins \cup Messages : SpendElsewhere(c)
  BY <1>5, <1>6 DEF Load, LockTimeout, vars, Mine, SpendElsewhere, Goto, Labels, Calls
<1>7. ASSUME NEW p \in Writers,
             \/ GetBalance(p) \/ ListUnspent(p) \/ WalletPassphrase(p) \/ Authorize(p)
             \/ WalletLock(p)
      PROVE  (crashes \in Nat /\ StateSurvives)'
  BY <1>5, <1>7 DEF GetBalance, ListUnspent, WalletPassphrase, Authorize, WalletLock,
     Goto, Exit, Labels, Calls
<1>8. ASSUME NEW p \in Writers,
             \/ Send(p) \/ Sent(p) \/ UpdateChainstate(p) \/ CallFails(p) \/ AnswerLost(p)
      PROVE  (crashes \in Nat /\ StateSurvives)'
  BY <1>5, <1>8 DEF Send, Sent, UpdateChainstate, ReadState, CallFails, AnswerLost,
     Goto, Exit, Labels, Calls
<1>. QED
  BY <1>2, <1>3, <1>4, <1>6, <1>7, <1>8 DEF Next, Run, Environment

\* However many processes empty and write bms.conf in turn, its state is lost
\* only if one of them dies between the two.
THEOREM StateIsKept == Spec => []StateSurvives
<1>1. Init => crashes \in Nat /\ StateSurvives
  BY DEF Init, StateSurvives, Truncated, NoState
<1>2. IInv /\ IInv' /\ (crashes \in Nat /\ StateSurvives) /\ [Next]_vars
      => (crashes \in Nat /\ StateSurvives)'
  BY StateSurvivesStep
<1>. QED
  BY <1>1, <1>2, Invariance, PTL DEF Spec

\* A process that has the wallet to itself never sends with it unlocked.
THEOREM OneProcessSendsLocked ==
    ASSUME NEW w, Writers = {w}
    PROVE  Spec => []LockedWhileSending
<1>1. Init => LockedWhileSending
  BY DEF Init, LockedWhileSending
<1>2. IInv /\ LockedWhileSending /\ [Next]_vars => LockedWhileSending'
  <2>. SUFFICES ASSUME IInv, LockedWhileSending, [Next]_vars PROVE LockedWhileSending'
    OBVIOUS
  <2>. DEFINE after == {"send", "update", "open", "write"}
  <2>1. pc \in [Writers -> Labels] /\ w \in Writers
    BY DEF IInv
  <2>2. CASE pc'[w] \notin after \/ unlocked' = FALSE
    BY <2>2 DEF LockedWhileSending
  <2>3. CASE pc[w] \in after /\ UNCHANGED unlocked
    BY <2>1, <2>3 DEF LockedWhileSending
  <2>4. CASE UNCHANGED <<pc, unlocked>>
    BY <2>4 DEF LockedWhileSending
  <2>5. CASE \/ \E n \in ChainLengths : Load(w, n)
             \/ GetBalance(w) \/ ListUnspent(w) \/ WalletPassphrase(w) \/ Authorize(w)
             \/ WalletLock(w)
    BY <2>1, <2>2, <2>5 DEF Load, GetBalance, ListUnspent, WalletPassphrase, Authorize,
       WalletLock, Goto, Exit
  <2>6. CASE \/ Send(w) \/ Sent(w) \/ UpdateChainstate(w) \/ OpenOutput(w) \/ WriteState(w)
    BY <2>1, <2>3, <2>6 DEF Send, Sent, UpdateChainstate, ReadState, OpenOutput, WriteState, network
  <2>7. CASE CallFails(w) \/ AnswerLost(w) \/ Crash(w)
    BY <2>1, <2>2, <2>7 DEF CallFails, AnswerLost, Crash, Goto, Exit
  <2>8. CASE \/ LockTimeout \/ UNCHANGED vars
             \/ \E m \in Messages : Mine(m)
             \/ \E c \in Coins \cup Messages : SpendElsewhere(c)
    BY <2>2, <2>4, <2>8 DEF LockTimeout, vars, Mine, SpendElsewhere
  <2>. QED
    BY <2>5, <2>6, <2>7, <2>8 DEF Next, Run, Environment
<1>. QED
  BY <1>1, <1>2, Invariance, PTL DEF Spec

--------------------------------------------------------------------------------
(* Where a run is. *)

Asking == {"balance", "unspent"}
Building == {"unlock", "sign", "lock", "send", "update"}

--------------------------------------------------------------------------------
(* What a wallet is worth. *)

\* What Worth adds up.
LEMMA WorthIs ==
    ASSUME NEW S, IsFiniteSet(S), NEW v, \A c \in S : Value(c) = v[c]
    PROVE  Worth(S) = SumOf(v, S)
<1> DEFINE P(g) == g = [s \in SUBSET S |-> IF s = {} THEN 0
                          ELSE Value(CHOOSE x \in s : TRUE) + g[s \ {CHOOSE x \in s : TRUE}]]
<1>1. \A s \in SUBSET S : s # {} => Value(Choice(s)) = v[Choice(s)]
  BY ChoiceIn
<1>2. \E g : P(g)
  <2>1. PICK h : Sums(h, v, S)
    BY SumsExist
  <2> DEFINE g == [s \in SUBSET S |-> h[s]]
  <2>2. \A s \in SUBSET S : g[s] = IF s = {} THEN 0
                              ELSE Value(Choice(s)) + g[s \ {Choice(s)}]
    <3>1. SUFFICES ASSUME NEW s \in SUBSET S
                   PROVE  h[s] = IF s = {} THEN 0 ELSE Value(Choice(s)) + g[s \ {Choice(s)}]
      OBVIOUS
    <3>2. s \ {Choice(s)} \in SUBSET S
      OBVIOUS
    <3>3. Adds(h, v, s)
      BY <2>1 DEF Sums
    <3>4. QED
      BY <1>1, <3>2, <3>3 DEF Adds
  <2>3. g = [s \in SUBSET S |-> IF s = {} THEN 0
                              ELSE Value(Choice(s)) + g[s \ {Choice(s)}]]
    BY <2>2
  <2>4. P(g)
    BY <2>3 DEF Choice
  <2>5. QED
    BY <2>4
<1>3. P(CHOOSE g : P(g))
  BY <1>2
<1> DEFINE f == CHOOSE g : P(g)
<1>4. Worth(S) = f[S]
  BY DEF Worth, MapThenSumSet, MapThenFoldSet
<1>5. Sums(f, v, S)
  <2>1. P(f)
    BY <1>3
  <2> HIDE DEF f
  <2>2. \A s \in SUBSET S : f[s] = IF s = {} THEN 0
                              ELSE Value(Choice(s)) + f[s \ {Choice(s)}]
    BY <2>1 DEF Choice
  <2>3. QED
    BY <1>1, <2>2 DEF Sums, Adds
<1>6. QED
  BY <1>4, <1>5, SumIs

--------------------------------------------------------------------------------
(* Types: one lemma for what leaves the network alone, one for each action that does *)
(* not.                                                                              *)

RunType == [cfg : State, size : {0} \cup ChainLengths, msg : 0 .. MaxMessages, k : Nat,
            str : State]
Room == Len(chains) + Cardinality(Choosing) <= MaxMessages
TypeInv == TypeOK /\ Room

LEMMA ChoosingFinite == IsFiniteSet(Choosing) /\ Cardinality(Choosing) \in Nat
<1>1. Choosing \in SUBSET Writers /\ IsFiniteSet(Writers)
  BY SessionAssumption DEF Choosing
<1>2. IsFiniteSet(Choosing)
  BY <1>1, FS_Subset
<1>3. QED
  BY <1>2, FS_CardinalityType

LEMMA TypesAre ==
    TypeOK <=>
      /\ pc \in [Writers -> Labels] /\ run \in [Writers -> RunType]
      /\ file \in State \cup {Truncated}
      /\ Len(chains) <= MaxMessages /\ chains \in Seq(Chain)
      /\ accepted \in [Built -> Nat] /\ mined \in [Built -> Nat]
      /\ \A m \in Built : mined[m] <= accepted[m] /\ accepted[m] <= chains[m].n
      /\ taken \subseteq Coins \cup Messages
      /\ unlocked \in BOOLEAN /\ crashes \in 0 .. MaxCrashes
  BY DEF TypeOK, Labels, RunType

LEMMA TypeInvInit == ASSUME Init PROVE TypeInv
<1>1. Built = {} /\ chains \in Seq(Chain) /\ Len(chains) = 0
  BY DEF Init, Built
<1>2. pc \in [Writers -> Labels] /\ run \in [Writers -> RunType] /\ file \in State
  BY SessionAssumption DEF Init, Labels, RunType, State, NoState, Fresh
<1>3. accepted \in [Built -> Nat] /\ mined \in [Built -> Nat]
  BY <1>1 DEF Init
<1>4. TypeOK
  <2>1. Len(chains) <= MaxMessages /\ crashes \in 0 .. MaxCrashes
    BY <1>1, SessionAssumption DEF Init
  <2>2. taken \subseteq Coins \cup Messages /\ unlocked \in BOOLEAN
    BY DEF Init
  <2>3. QED
    BY <1>1, <1>2, <1>3, <2>1, <2>2, TypesAre
<1>5. Cardinality(Choosing) = 0
  <2>1. Choosing = {}
    BY DEF Init, Choosing
  <2>2. QED
    BY <2>1, FS_EmptySet
<1>6. Room
  BY <1>1, <1>5, SessionAssumption DEF Room
<1>7. QED
  BY <1>4, <1>6 DEF TypeInv

LEMMA TypesStay ==
    ASSUME TypeInv, UNCHANGED <<chains, accepted, mined, taken>>,
           pc' \in [Writers -> Labels], run' \in [Writers -> RunType],
           file' \in State \cup {Truncated}, unlocked' \in BOOLEAN, crashes' \in 0 .. MaxCrashes,
           Choosing' \subseteq Choosing
    PROVE  TypeInv'
<1>1. TypeOK'
  BY DEF TypeInv, TypeOK, Labels, RunType, Built
<1>2. Cardinality(Choosing') <= Cardinality(Choosing) /\ Cardinality(Choosing') \in Nat
  <2>1. IsFiniteSet(Choosing') /\ Cardinality(Choosing') <= Cardinality(Choosing)
    BY ChoosingFinite, FS_Subset
  <2>2. QED
    BY <2>1, FS_CardinalityType
<1>3. Len(chains) \in Nat /\ MaxMessages \in Nat
  BY SessionAssumption DEF TypeInv, TypeOK
<1>4. Room'
  BY <1>2, <1>3, ChoosingFinite DEF TypeInv, Room
<1>5. QED
  BY <1>1, <1>4 DEF TypeInv

\* Where a process goes from one place to another that is not at the choice of inputs.
LEMMA ChoosingShrinks ==
    ASSUME pc \in [Writers -> Labels], NEW p \in Writers, NEW label \in Labels,
           pc' = [pc EXCEPT ![p] = label],
           label \in {"balance", "unspent"} => pc[p] \in {"balance", "unspent"}
    PROVE  Choosing' \subseteq Choosing
  BY DEF Choosing

LEMMA FreshType == Fresh \in RunType /\ NoState \in State
  BY SessionAssumption DEF Fresh, RunType, State, NoState

LEMMA MoveTypes ==
    ASSUME TypeInv, UNCHANGED <<chains, accepted, mined, taken>>,
           NEW p \in Writers, NEW label \in Labels, NEW new \in RunType,
           pc' = [pc EXCEPT ![p] = label],
           label \in {"balance", "unspent"} => pc[p] \in {"balance", "unspent"},
           run' = [run EXCEPT ![p] = new] \/ run' = run,
           file' \in State \cup {Truncated}, unlocked' \in BOOLEAN, crashes' \in 0 .. MaxCrashes
    PROVE  TypeInv'
<1>1. pc \in [Writers -> Labels] /\ run \in [Writers -> RunType]
  BY TypesAre DEF TypeInv
<1>2. pc' \in [Writers -> Labels] /\ run' \in [Writers -> RunType]
  BY <1>1
<1>3. Choosing' \subseteq Choosing
  BY <1>1, ChoosingShrinks
<1>4. QED
  BY <1>2, <1>3, TypesStay

LEMMA QuietTypes ==
    ASSUME TypeInv, IInv, NEW p \in Writers,
           \/ GetBalance(p) \/ WalletPassphrase(p) \/ Authorize(p) \/ WalletLock(p) \/ Sent(p)
           \/ UpdateChainstate(p) \/ OpenOutput(p) \/ WriteState(p) \/ CallFails(p) \/ Crash(p)
    PROVE  TypeInv'
<1>1. /\ pc \in [Writers -> Labels] /\ run[p] \in RunType /\ run \in [Writers -> RunType]
      /\ file \in State \cup {Truncated} /\ unlocked \in BOOLEAN /\ crashes \in 0 .. MaxCrashes
      /\ MaxCrashes \in Nat
  BY TypesAre, SessionAssumption DEF TypeInv
<1>2. UNCHANGED <<chains, accepted, mined, taken>>
  BY DEF GetBalance, WalletPassphrase, Authorize, WalletLock, Sent, UpdateChainstate, ReadState,
     OpenOutput, WriteState, CallFails, Crash, network
<1>3. \E label \in Labels, new \in RunType :
        /\ pc' = [pc EXCEPT ![p] = label]
        /\ label \in {"balance", "unspent"} => pc[p] \in {"balance", "unspent"}
        /\ run' = [run EXCEPT ![p] = new] \/ run' = run
  <2>1. CASE Exit(p)
    BY <2>1, FreshType DEF Exit, Goto, Labels
  <2>2. CASE GetBalance(p) \/ WalletPassphrase(p) \/ Authorize(p) \/ Sent(p) \/ OpenOutput(p)
    BY <1>1, <2>1, <2>2 DEF GetBalance, WalletPassphrase, Authorize, Sent, OpenOutput, Goto, Labels,
       Calls
  <2>3. CASE WalletLock(p)
    <3>1. run' = [run EXCEPT ![p] = [run[p] EXCEPT !.k = 1]]
      BY <2>3 DEF WalletLock
    <3>2. [run[p] EXCEPT !.k = 1] \in RunType
      BY <1>1 DEF RunType
    <3>3. QED
      BY <2>3, <3>1, <3>2 DEF WalletLock, Goto, Labels, Calls
  <2>4. CASE UpdateChainstate(p)
    <3>1. CASE file = Truncated
      BY <2>1, <2>4, <3>1 DEF UpdateChainstate
    <3>2. CASE file # Truncated
      <4> DEFINE new == [first |-> IF run[p].cfg.first = 0 THEN run[p].msg ELSE run[p].cfg.first,
                         last |-> run[p].msg]
                 after == [run[p] EXCEPT !.cfg = new, !.str = file]
      <4>1. /\ run' = [run EXCEPT ![p].cfg = new, ![p].str = file]
            /\ pc' = [pc EXCEPT ![p] = "open"]
        BY <2>4, <3>2 DEF UpdateChainstate, ReadState, Goto
      <4>2. new \in State
        BY <1>1 DEF RunType, State
      <4>3. after \in RunType
        BY <1>1, <3>2, <4>2 DEF RunType
      <4>4. run' = [run EXCEPT ![p] = after]
        BY <1>1, <4>1 DEF RunType
      <4>5. QED
        BY <4>1, <4>3, <4>4 DEF Labels
    <3>3. QED
      BY <3>1, <3>2
  <2>5. CASE WriteState(p) \/ CallFails(p) \/ Crash(p)
    BY <2>1, <2>5 DEF WriteState, CallFails, Crash
  <2>6. QED
    BY <2>2, <2>3, <2>4, <2>5
<1>4. unlocked' \in BOOLEAN
  BY <1>1 DEF GetBalance, WalletPassphrase, Authorize, WalletLock, Sent, UpdateChainstate, ReadState,
     OpenOutput, WriteState, CallFails, Crash
<1>5. crashes' \in 0 .. MaxCrashes
  BY <1>1 DEF GetBalance, WalletPassphrase, Authorize, WalletLock, Sent, UpdateChainstate, ReadState,
     OpenOutput, WriteState, CallFails, Crash
<1>6. file' \in State \cup {Truncated}
  BY <1>1 DEF GetBalance, WalletPassphrase, Authorize, WalletLock, Sent, UpdateChainstate, ReadState,
     OpenOutput, WriteState, CallFails, Crash, RunType
<1>7. QED
  BY <1>2, <1>3, <1>4, <1>5, <1>6, MoveTypes

\* A run starts only when there is room for its chain.
LEMMA LoadTypes ==
    ASSUME TypeInv, NEW p \in Writers, NEW n \in ChainLengths, Load(p, n) PROVE TypeInv'
<1>1. /\ pc \in [Writers -> Labels] /\ run[p] \in RunType /\ run \in [Writers -> RunType]
      /\ file \in State \cup {Truncated} /\ TypeOK /\ file # Truncated
      /\ Len(chains) \in Nat /\ MaxMessages \in Nat /\ pc[p] = "idle"
  BY TypesAre, SessionAssumption DEF TypeInv, Load
<1> DEFINE after == [run[p] EXCEPT !.cfg = file, !.size = n]
<1>2. after \in RunType /\ run' = [run EXCEPT ![p] = after]
  BY <1>1 DEF Load, RunType
<1>3. /\ pc' = [pc EXCEPT ![p] = "balance"] /\ UNCHANGED <<file, network, unlocked, crashes>>
      /\ Len(chains) + Cardinality(Choosing) < MaxMessages
  BY DEF Load, Goto
<1>4. pc' \in [Writers -> Labels] /\ run' \in [Writers -> RunType]
  BY <1>1, <1>2, <1>3 DEF Labels, Calls
<1>5. TypeOK'
  BY <1>1, <1>3, <1>4 DEF TypeOK, Labels, RunType, network, Built
<1>6. Choosing' = Choosing \cup {p} /\ p \notin Choosing
  BY <1>1, <1>3 DEF Choosing
<1>7. Cardinality(Choosing') = Cardinality(Choosing) + 1
  BY <1>6, ChoosingFinite, FS_AddElement
<1>8. Room'
  BY <1>1, <1>3, <1>7, ChoosingFinite DEF Room, network
<1>9. QED
  BY <1>5, <1>8 DEF TypeInv

\* What the daemon takes of a chain is at most the chain.
LEMMA TakeTypes ==
    ASSUME TypeInv, NEW m \in Built, NEW x \in Nat, x <= chains[m].n, Acceptable(m, x),
           accepted' = [accepted EXCEPT ![m] = x], UNCHANGED <<chains, mined, taken>>,
           pc' \in [Writers -> Labels], run' \in [Writers -> RunType],
           UNCHANGED <<file, crashes>>, unlocked' \in BOOLEAN, Choosing' \subseteq Choosing
    PROVE  TypeInv'
<1>1. /\ accepted \in [Built -> Nat] /\ mined \in [Built -> Nat] /\ Built' = Built
      /\ \A i_ \in Built : mined[i_] <= accepted[i_] /\ accepted[i_] <= chains[i_].n
      /\ TypeOK /\ accepted[m] = x - 1
  BY DEF TypeInv, TypeOK, Built, Acceptable
<1>2. accepted' \in [Built -> Nat]
  BY <1>1
<1>3. \A i_ \in Built : mined[i_] <= accepted'[i_] /\ accepted'[i_] <= chains[i_].n
  BY <1>1
<1>4. TypeOK'
  BY <1>1, <1>2, <1>3 DEF TypeOK, Labels, RunType
<1>5. Cardinality(Choosing') <= Cardinality(Choosing) /\ Cardinality(Choosing') \in Nat
  <2>1. IsFiniteSet(Choosing') /\ Cardinality(Choosing') <= Cardinality(Choosing)
    BY ChoosingFinite, FS_Subset
  <2>2. QED
    BY <2>1, FS_CardinalityType
<1>6. Len(chains) \in Nat /\ MaxMessages \in Nat
  BY <1>1, SessionAssumption DEF TypeOK
<1>7. Room'
  BY <1>5, <1>6, ChoosingFinite DEF TypeInv, Room
<1>8. QED
  BY <1>4, <1>7 DEF TypeInv

LEMMA SendTypes ==
    ASSUME TypeInv, IInv, NEW p \in Writers, Send(p) \/ AnswerLost(p) PROVE TypeInv'
<1> DEFINE m == run[p].msg
           x == run[p].k
<1>1. /\ pc \in [Writers -> Labels] /\ run[p] \in RunType /\ run \in [Writers -> RunType]
      /\ file \in State \cup {Truncated} /\ unlocked \in BOOLEAN /\ crashes \in 0 .. MaxCrashes
  BY TypesAre DEF TypeInv
<1>2. UNCHANGED <<file, chains, mined, taken, crashes>> /\ unlocked' \in BOOLEAN
  BY <1>1 DEF Send, AnswerLost
<1>3. \/ UNCHANGED accepted
      \/ /\ pc[p] = "send" /\ x <= chains[m].n /\ Acceptable(m, x)
         /\ accepted' = [accepted EXCEPT ![m] = x]
  BY DEF Send, AnswerLost
<1>4. \E label \in Labels, new \in RunType :
        /\ pc' = [pc EXCEPT ![p] = label] /\ label \notin {"balance", "unspent"}
        /\ run' = [run EXCEPT ![p] = new]
  <2>1. CASE Exit(p)
    <3>1. "idle" \in Labels /\ "idle" \notin {"balance", "unspent"}
      BY DEF Labels
    <3>2. pc' = [pc EXCEPT ![p] = "idle"] /\ run' = [run EXCEPT ![p] = Fresh]
      BY <2>1 DEF Exit, Goto
    <3>3. QED
      BY <3>1, <3>2, FreshType
  <2>2. CASE ~ Exit(p)
    <3>1. pc[p] = "send" /\ pc' = pc /\ run' = [run EXCEPT ![p].k = x + 1]
      BY <2>2 DEF Send, AnswerLost
    <3> DEFINE new == [run[p] EXCEPT !.k = x + 1]
    <3>2. new \in RunType
      BY <1>1 DEF RunType
    <3>3. pc' = [pc EXCEPT ![p] = "send"]
      BY <1>1, <3>1
    <3>4. run' = [run EXCEPT ![p] = new]
      BY <1>1, <3>1 DEF RunType
    <3>5. "send" \in Labels /\ "send" \notin {"balance", "unspent"}
      BY DEF Labels, Calls
    <3> HIDE DEF new
    <3>6. QED
      BY <3>2, <3>3, <3>4, <3>5
  <2>3. QED
    BY <2>1, <2>2
<1>5. CASE UNCHANGED accepted
  BY <1>1, <1>2, <1>4, <1>5, MoveTypes
<1>6. CASE /\ pc[p] = "send" /\ x <= chains[m].n /\ Acceptable(m, x)
           /\ accepted' = [accepted EXCEPT ![m] = x]
  <2>1. m \in Built /\ x \in Nat
    BY <1>1, <1>6 DEF IInv, Running, RunType
  <2>2. pc' \in [Writers -> Labels] /\ run' \in [Writers -> RunType]
    BY <1>1, <1>4
  <2>3. Choosing' \subseteq Choosing
    BY <1>1, <1>4, ChoosingShrinks
  <2>4. QED
    BY <1>2, <1>6, <2>1, <2>2, <2>3, TakeTypes
<1>7. QED
  BY <1>3, <1>5, <1>6

LEMMA WorldTypes ==
    ASSUME TypeInv,
           \/ LockTimeout \/ UNCHANGED vars \/ \E m \in Messages : Mine(m)
           \/ \E c \in Coins \cup Messages : SpendElsewhere(c)
    PROVE  TypeInv'
<1>1. TypeOK
  BY DEF TypeInv
<1>2. UNCHANGED <<pc, run, file, chains, accepted, crashes>> /\ unlocked' \in BOOLEAN
  BY <1>1 DEF LockTimeout, Mine, SpendElsewhere, vars, network, TypeOK
<1>3. taken' \subseteq Coins \cup Messages
  BY <1>1 DEF LockTimeout, Mine, SpendElsewhere, vars, network, TypeOK
<1>4. mined' \in [Built -> Nat] /\ \A m \in Built : mined'[m] <= accepted[m]
  <2>1. CASE UNCHANGED mined
    BY <1>1, <2>1 DEF TypeOK
  <2>2. CASE \E m \in Messages : Mine(m)
    BY <1>1, <2>2 DEF TypeOK, Mine
  <2>3. QED
    BY <2>1, <2>2 DEF LockTimeout, SpendElsewhere, vars, network
<1>5. TypeOK'
  BY <1>1, <1>2, <1>3, <1>4 DEF TypeOK, Built
<1>6. Choosing' = Choosing /\ chains' = chains
  BY <1>2 DEF Choosing
<1>7. QED
  BY <1>5, <1>6 DEF TypeInv, Room

--------------------------------------------------------------------------------
(* What SelectInputs finds. *)

\* The outputs that the wallet can have, and what they are worth.
Outputs == Coins \cup Built
Values == [c \in Outputs |-> Value(c)]

LEMMA OutputsAre ==
    ASSUME TypeInv
    PROVE  /\ IsFiniteSet(Outputs) /\ Built \subseteq Messages /\ Len(chains) \in Nat
           /\ \A c \in Outputs : Value(c) \in Int /\ Values[c] = Value(c)
           /\ Listed \subseteq Outputs
<1>1. Len(chains) \in Nat /\ Len(chains) <= MaxMessages /\ chains \in Seq(Chain)
      /\ MaxMessages \in Nat
  BY SessionAssumption DEF TypeInv, TypeOK
<1>2. IsFiniteSet(Outputs)
  <2>1. IsFiniteSet(Built) /\ IsFiniteSet(Coins)
    BY <1>1, FS_Interval, SessionAssumption DEF Built
  <2>2. QED
    BY <2>1, FS_Union DEF Outputs
<1>3. Built \subseteq Messages
  BY <1>1 DEF Built, Messages
<1>4. ASSUME NEW c \in Outputs PROVE Value(c) \in Int
  <2>1. CASE c \in Coins
    BY <2>1, SessionAssumption DEF Value
  <2>2. CASE c \notin Coins
    <3>1. c \in Built /\ chains[c] \in Chain
      BY <1>1, <1>4, <2>2 DEF Outputs, Built
    <3>2. chains[c].budget \in Int /\ chains[c].n \in Int /\ Fee \in Int
      BY <3>1, SessionAssumption DEF Chain
    <3>3. chains[c].n * Fee \in Int
      BY <3>2
    <3>4. QED
      BY <2>2, <3>2, <3>3 DEF Value
  <2>3. QED
    BY <2>1, <2>2
<1>5. QED
  BY <1>1, <1>2, <1>3, <1>4 DEF Values, Outputs, Listed

\* What any of them are worth together.
LEMMA WorthAdds ==
    ASSUME TypeInv, NEW S, S \subseteq Outputs
    PROVE  /\ IsFiniteSet(S) /\ Worth(S) \in Int
           /\ Worth(S) = SumOf(Values, S)
           /\ \A c \in S : Worth(S) = Value(c) + Worth(S \ {c})
<1>1. /\ IsFiniteSet(S) /\ \A c \in S : Values[c] \in Int /\ Value(c) = Values[c]
  <2>1. IsFiniteSet(S)
    BY OutputsAre, FS_Subset
  <2>2. QED
    BY <2>1, OutputsAre
<1>2. Worth(S) = SumOf(Values, S)
  BY <1>1, WorthIs
<1>3. SumOf(Values, S) \in Int
  BY <1>1, SumIsInteger
<1>4. ASSUME NEW c \in S PROVE Worth(S) = Value(c) + Worth(S \ {c})
  <2>1. IsFiniteSet(S \ {c})
    BY <1>1, FS_Subset
  <2>2. Worth(S \ {c}) = SumOf(Values, S \ {c})
    BY <1>1, <2>1, WorthIs
  <2>3. SumOf(Values, S) = Values[c] + SumOf(Values, S \ {c})
    BY <1>1, SumOfOneMore
  <2>4. QED
    BY <1>1, <1>2, <2>2, <2>3
<1>5. QED
  BY <1>1, <1>2, <1>3, <1>4

\* The inputs are listed outputs, the last message's first, and enough unless they are
\* all there are.
LEMMA SelectionsAre ==
    ASSUME TypeInv, NEW link, NEW nMin \in Int, NEW ins \in Selections(link, nMin)
    PROVE  /\ ins \in Seq(Coins \cup Messages) /\ Range(ins) \subseteq Listed
           /\ link \in Listed => ins # <<>> /\ ins[1] = link
           /\ Worth(Range(ins)) \in Int
           /\ Worth(Range(ins)) >= nMin \/ Range(ins) = Listed
<1> DEFINE rest == Listed \ {link}
           head == IF link \in Listed THEN <<link>> ELSE <<>>
           budget == IF link \in Listed THEN Value(link) ELSE 0
<1>1. PICK s \in SequencesOf(rest) : ins = head \o s /\ Accumulates(s, rest, budget, nMin)
  BY DEF Selections
<1>2. s \in Seq(rest)
  <2>1. PICK n \in 0 .. Cardinality(rest) : s \in [1 .. n -> rest]
    BY <1>1 DEF SequencesOf
  <2>2. n \in Nat
    BY <2>1
  <2>3. QED
    BY <2>1, <2>2
<1> DEFINE picked == Range(s)
<1>3. picked \subseteq rest /\ (budget + Worth(picked) >= nMin \/ picked = rest)
  BY <1>1 DEF Accumulates
<1>4. Listed \subseteq Outputs /\ Outputs \subseteq Coins \cup Messages
  BY OutputsAre DEF Outputs
<1>5. CASE link \notin Listed
  <2>1. ins = s /\ rest = Listed /\ budget = 0
    <3>1. <<>> \o s = s
      BY <1>2, ConcatEmptySeq
    <3>2. QED
      BY <1>1, <1>5, <3>1
  <2>2. picked \subseteq Outputs
    BY <1>3, <1>4
  <2>3. Worth(picked) \in Int
    BY <2>2, WorthAdds
  <2>4. ins \in Seq(Coins \cup Messages)
    BY <1>2, <1>4, <2>1
  <2> HIDE DEF picked
  <2>5. Worth(picked) >= nMin \/ picked = Listed
    <3>1. 0 + Worth(picked) >= nMin \/ picked = Listed
      BY <1>3, <2>1
    <3>2. QED
      BY <2>3, <3>1
  <2>6. Range(ins) = picked
    BY <2>1 DEF picked
  <2>7. QED
    BY <1>3, <1>5, <2>3, <2>4, <2>5, <2>6
<1>6. CASE link \in Listed
  <2>1. ins = <<link>> \o s /\ budget = Value(link)
    BY <1>1, <1>6
  <2>2. /\ <<link>> \in Seq(Listed) /\ s \in Seq(Listed) /\ Len(<<link>>) = 1 /\ <<link>>[1] = link
    BY <1>2, <1>6
  <2>3. /\ ins \in Seq(Listed) /\ Len(ins) = 1 + Len(s) /\ Len(s) \in Nat
        /\ \A z \in 1 .. 1 + Len(s) : ins[z] = IF z <= 1 THEN <<link>>[z] ELSE s[z - 1]
    BY <2>1, <2>2, ConcatProperties
  <2>4. ins \in Seq(Coins \cup Messages) /\ ins # <<>> /\ ins[1] = link
    <3>1. ins[1] = link
      BY <2>2, <2>3
    <3>2. QED
      BY <1>4, <2>3, <3>1
  <2>5. Range(ins) = picked \cup {link}
    <3>1. DOMAIN ins = 1 .. 1 + Len(s) /\ DOMAIN s = 1 .. Len(s)
      BY <2>2, <2>3
    <3>2. \A z \in 1 .. 1 + Len(s) : z = 1 \/ (z - 1 \in 1 .. Len(s) /\ ins[z] = s[z - 1])
      BY <2>3
    <3>3. \A z \in 1 .. Len(s) : z + 1 \in 1 .. 1 + Len(s) /\ ins[z + 1] = s[z]
      BY <2>3
    <3>4. 1 \in 1 .. 1 + Len(s)
      BY <2>3
    <3>5. ASSUME NEW c \in Range(ins) PROVE c \in picked \cup {link}
      <4>1. PICK z \in 1 .. 1 + Len(s) : c = ins[z]
        BY <3>1, <3>5 DEF Range
      <4>2. QED
        BY <2>4, <3>1, <3>2, <4>1 DEF Range
    <3>6. ASSUME NEW c \in picked PROVE c \in Range(ins)
      <4>1. PICK z \in 1 .. Len(s) : c = s[z]
        BY <3>1, <3>6 DEF Range
      <4>2. z + 1 \in DOMAIN ins /\ c = ins[z + 1]
        BY <3>1, <3>3, <4>1
      <4>3. QED
        BY <4>2 DEF Range
    <3>7. link \in Range(ins)
      BY <2>4, <3>1, <3>4 DEF Range
    <3>8. QED
      BY <3>5, <3>6, <3>7
  <2>6. Range(ins) \subseteq Outputs /\ (picked \cup {link}) \ {link} = picked
    BY <1>3, <1>4, <1>6, <2>5
  <2>7. Worth(Range(ins)) \in Int /\ Worth(Range(ins)) = Value(link) + Worth(picked)
    BY <2>5, <2>6, WorthAdds
  <2> HIDE DEF picked
  <2>8. Worth(Range(ins)) >= nMin \/ picked = rest
    BY <1>3, <2>1, <2>7
  <2>9. picked = rest => Range(ins) = Listed
    BY <1>6, <2>5
  <2>10. Range(ins) \subseteq Listed
    BY <1>3, <1>6, <2>5
  <2>11. QED
    BY <2>4, <2>7, <2>8, <2>9, <2>10
<1>7. QED
  BY <1>5, <1>6

\* A chain is built only by a run that was given room for it.
LEMMA ListUnspentTypes ==
    ASSUME TypeInv, IInv, NEW p \in Writers, ListUnspent(p)
    PROVE  /\ TypeInv'
           /\ \E ins \in Selections(run[p].cfg.last, MinimumBudget(run[p].size)) :
                chains' = Append(chains, [ins |-> ins, n |-> run[p].size,
                                          budget |-> Worth(Range(ins))])
           /\ Len(chains') = Len(chains) + 1 /\ Built' = Built \cup {Len(chains) + 1}
           /\ Len(chains) + 1 \in Messages
           /\ \A m \in Built : /\ chains'[m] = chains[m] /\ accepted'[m] = accepted[m]
                               /\ mined'[m] = mined[m]
           /\ \A m : m = Len(chains) + 1 =>
                /\ chains'[m].n = run[p].size /\ accepted'[m] = 0 /\ mined'[m] = 0
<1> DEFINE nMin == MinimumBudget(run[p].size)
           old == Len(chains)
<1>1. /\ pc \in [Writers -> Labels] /\ run[p] \in RunType /\ run \in [Writers -> RunType]
      /\ Len(chains) <= MaxMessages /\ chains \in Seq(Chain) /\ TypeOK
      /\ accepted \in [Built -> Nat] /\ mined \in [Built -> Nat]
      /\ \A m \in Built : mined[m] <= accepted[m] /\ accepted[m] <= chains[m].n
      /\ MaxMessages \in Nat /\ old \in Nat /\ pc[p] = "unspent"
  BY TypesAre, SessionAssumption DEF TypeInv, ListUnspent
<1>2. run[p].size \in ChainLengths /\ run[p].size \in Nat /\ run[p].size > 0
  <2>1. run[p].size \in ChainLengths
    BY <1>1 DEF IInv, Running
  <2>2. ChainLengths \subseteq Nat \ {0, 1}
    BY SessionAssumption
  <2>3. \A n \in ChainLengths : n \in Nat /\ n > 0
    BY <2>2
  <2>4. QED
    BY <2>1, <2>3
<1>3. nMin \in Int
  BY <1>2, SessionAssumption DEF MinimumBudget
<1>4. PICK ins \in Selections(run[p].cfg.last, nMin) :
        chains' = Append(chains, [ins |-> ins, n |-> run[p].size, budget |-> Worth(Range(ins))])
  BY DEF ListUnspent
<1> DEFINE new == [ins |-> ins, n |-> run[p].size, budget |-> Worth(Range(ins))]
<1>5. new \in Chain
  <2>1. ins \in Seq(Coins \cup Messages) /\ Worth(Range(ins)) \in Int
    BY <1>3, <1>4, SelectionsAre
  <2>2. QED
    BY <1>2, <2>1 DEF Chain
<1>6. new.n = run[p].size
  OBVIOUS
<1> HIDE DEF new, old
<1>7. /\ chains' \in Seq(Chain) /\ Len(chains') = old + 1
      /\ \A m \in 1 .. old : chains'[m] = chains[m]
      /\ chains'[old + 1] = new
  <2>1. chains' = Append(chains, new)
    BY <1>4 DEF new
  <2>2. QED
    BY <1>1, <1>5, <2>1, AppendProperties DEF old
<1>8. ASSUME NEW f \in [Built -> Nat], NEW g, g = Append(f, 0)
      PROVE  /\ g \in [1 .. old + 1 -> Nat] /\ \A m \in Built : g[m] = f[m]
             /\ g[old + 1] = 0
  <2>1. old \in Nat /\ Built = 1 .. old
    BY <1>1 DEF Built, old
  <2>2. f \in Seq(Nat) /\ Len(f) = old
    BY <2>1
  <2>3. /\ g \in Seq(Nat) /\ Len(g) = old + 1 /\ g[old + 1] = 0
        /\ \A m \in 1 .. old : g[m] = f[m]
    BY <1>8, <2>2, AppendProperties
  <2>4. g \in [1 .. old + 1 -> Nat]
    BY <2>1, <2>3
  <2>5. QED
    BY <2>1, <2>3, <2>4
<1>9. /\ accepted' = Append(accepted, 0) /\ mined' = Append(mined, 0)
      /\ UNCHANGED <<file, taken, unlocked, crashes>>
      /\ pc' = [pc EXCEPT ![p] = "unlock"]
      /\ run' = [run EXCEPT ![p].msg = old + 1]
  BY DEF ListUnspent, Goto, old
<1>10. Built' = 1 .. old + 1 /\ Built' = Built \cup {old + 1} /\ Built = 1 .. old
  BY <1>1, <1>7 DEF Built, old
<1>11. /\ accepted' \in [Built' -> Nat] /\ mined' \in [Built' -> Nat]
       /\ \A m \in Built : accepted'[m] = accepted[m] /\ mined'[m] = mined[m]
       /\ accepted'[old + 1] = 0 /\ mined'[old + 1] = 0
  BY <1>1, <1>8, <1>9, <1>10, ZenonT(40)
<1>12. ASSUME NEW m \in Built' PROVE mined'[m] <= accepted'[m] /\ accepted'[m] <= chains'[m].n
  <2>1. CASE m \in Built
    BY <1>1, <1>7, <1>10, <1>11, <2>1
  <2>2. CASE m = old + 1
    BY <1>2, <1>6, <1>7, <1>11, <2>2
  <2>3. QED
    BY <1>10, <1>12, <2>1, <2>2
<1>13. Choosing' = Choosing \ {p} /\ p \in Choosing
  BY <1>1, <1>9 DEF Choosing
<1>14. Cardinality(Choosing') = Cardinality(Choosing) - 1
  BY <1>13, ChoosingFinite, FS_RemoveElement
<1>15. Cardinality(Choosing') \in Nat
  <2>1. IsFiniteSet(Choosing')
    BY <1>13, ChoosingFinite, FS_Subset
  <2>2. QED
    BY <2>1, FS_CardinalityType
<1>16. old + Cardinality(Choosing) <= MaxMessages
  BY DEF TypeInv, Room, old
<1>17. Room' /\ old + 1 <= MaxMessages /\ old + 1 \in 0 .. MaxMessages /\ old + 1 \in Messages
  <2>1. /\ old + 1 + Cardinality(Choosing') <= MaxMessages /\ old + 1 <= MaxMessages
    BY <1>1, <1>14, <1>15, <1>16, ChoosingFinite
  <2>2. QED
    BY <1>1, <1>7, <2>1 DEF Room, Messages
<1>18. pc' \in [Writers -> Labels] /\ run' \in [Writers -> RunType]
  <2>1. [run[p] EXCEPT !.msg = old + 1] \in RunType
    BY <1>1, <1>17 DEF RunType
  <2>2. run' = [run EXCEPT ![p] = [run[p] EXCEPT !.msg = old + 1]]
    BY <1>9
  <2>3. run' \in [Writers -> RunType]
    BY <1>1, <2>1, <2>2
  <2>4. QED
    BY <1>1, <1>9, <2>3 DEF Labels, Calls
<1>19. TypeOK'
  <2>1. Len(chains') <= MaxMessages
    BY <1>7, <1>17
  <2>2. QED
    BY <1>1, <1>7, <1>9, <1>11, <1>12, <1>18, <2>1 DEF TypeOK, Labels, RunType
<1>20. TypeInv'
  BY <1>17, <1>19 DEF TypeInv
<1>21. /\ Len(chains') = Len(chains) + 1 /\ Built' = Built \cup {Len(chains) + 1}
       /\ Len(chains) + 1 \in Messages
       /\ \A m \in Built : /\ chains'[m] = chains[m] /\ accepted'[m] = accepted[m]
                           /\ mined'[m] = mined[m]
       /\ chains'[Len(chains) + 1].n = run[p].size /\ accepted'[Len(chains) + 1] = 0
       /\ mined'[Len(chains) + 1] = 0
  BY <1>6, <1>7, <1>10, <1>11, <1>17 DEF old
<1>22. QED
  BY <1>4, <1>20, <1>21

LEMMA TypeStep == ASSUME TypeInv, IInv, [Next]_vars PROVE TypeInv'
<1>1. ASSUME NEW p \in Writers, NEW n \in ChainLengths, Load(p, n) PROVE TypeInv'
  BY <1>1, LoadTypes
<1>2. ASSUME NEW p \in Writers, Run(p) \/ CallFails(p) \/ AnswerLost(p) \/ Crash(p) PROVE TypeInv'
  BY <1>2, QuietTypes, SendTypes, ListUnspentTypes DEF Run
<1>3. CASE \/ LockTimeout \/ UNCHANGED vars \/ \E m \in Messages : Mine(m)
           \/ \E c \in Coins \cup Messages : SpendElsewhere(c)
  BY <1>3, WorldTypes
<1>4. QED
  BY <1>1, <1>2, <1>3 DEF Next, Environment

\* Every variable keeps its type, and there is room for the chain of every run that has
\* yet to build one.
THEOREM TypesHold == Spec => []TypeInv
<1>1. Init => TypeInv
  BY TypeInvInit
<1>2. TypeInv /\ IInv /\ [Next]_vars => TypeInv'
  BY TypeStep
<1>3. QED
  BY <1>1, <1>2, Invariance, PTL DEF Spec

--------------------------------------------------------------------------------
(* One user, who waits for confirmations. *)

Signing == {"unlock", "sign", "lock"}

\* Nobody else does anything.
ByHimself(w) ==
    /\ taken = {}
    /\ \A q \in Writers \ {w} : pc[q] = "idle"

\* Nothing is left to be mined while he chooses, so that what is listed is what was enough
\* when he asked; so what was chosen is.
Enough(w) ==
    /\ pc[w] \in Asking => Confirmed
    /\ pc[w] = "unspent" => SumOf(Values, Listed) >= MinimumBudget(run[w].size)
    /\ BudgetCovers

\* Nothing is half sent but what he is sending, and what this spends is there to be spent.
Whole(w) ==
    /\ \A m \in Built : accepted[m] = 0 \/ Complete(m) \/ (pc[w] = "send" /\ run[w].msg = m)
    /\ pc[w] \in Signing => accepted[run[w].msg] = 0
    /\ pc[w] = "send" => accepted[run[w].msg] = run[w].k - 1
    /\ \/ pc[w] \in Signing
       \/ pc[w] = "send" /\ run[w].k = 1
       => \A c \in Range(chains[run[w].msg].ins) : ~ Spent(c)

LEMMA ProductsGrow == ASSUME NEW x \in Nat, NEW n \in Nat, NEW f \in Nat, x <= n
                      PROVE  x * f <= n * f /\ x * f \in Nat /\ n * f \in Nat
<1>1. PICK d \in Nat : n = x + d
  <2>1. n - x \in Nat /\ n = x + (n - x)
    OBVIOUS
  <2>2. QED
    BY <2>1
<1>2. d * f \in Nat /\ x * f \in Nat
  OBVIOUS
<1>3. (x + d) * f = x * f + d * f
  OBVIOUS
<1>4. QED
  BY <1>1, <1>2, <1>3

\* A step that leaves the network alone.
LEMMA SameNetwork ==
    ASSUME UNCHANGED network
    PROVE  /\ Built' = Built /\ Listed' = Listed /\ Values' = Values
           /\ Confirmed' = Confirmed /\ BudgetCovers' = BudgetCovers
           /\ \A m : Complete(m)' = Complete(m)
           /\ \A c : Spent(c)' = Spent(c)
<1>1. chains' = chains /\ accepted' = accepted /\ mined' = mined /\ taken' = taken
  BY DEF network
<1>2. Built' = Built
  BY <1>1 DEF Built
<1>3. (\A m : Complete(m)' = Complete(m)) /\ (\A c : Spent(c)' = Spent(c))
  BY <1>1, <1>2 DEF Complete, Spent
<1>4. Listed' = Listed
  BY <1>1, <1>2, <1>3 DEF Listed
<1>6. \A c : Value(c)' = Value(c)
  BY <1>1 DEF Value
<1>7. Values' = Values
  BY <1>2, <1>6 DEF Values, Outputs
<1>8. Confirmed' = Confirmed /\ BudgetCovers' = BudgetCovers
  BY <1>1, <1>2 DEF Confirmed, BudgetCovers
<1>9. QED
  BY <1>2, <1>3, <1>4, <1>7, <1>8

\* Steps that leave the network alone.
LEMMA SoloMoves ==
    ASSUME TypeInv, IInv, IInv', NEW w \in Writers, Enough(w), Whole(w),
           \/ Confirmed /\ \E n \in ChainLengths : Load(w, n)
           \/ GetBalance(w) \/ WalletPassphrase(w) \/ Authorize(w) \/ WalletLock(w) \/ Sent(w)
           \/ UpdateChainstate(w) \/ OpenOutput(w) \/ WriteState(w)
    PROVE  Enough(w)' /\ Whole(w)'
<1>1. pc \in [Writers -> Labels] /\ run[w] \in RunType /\ run \in [Writers -> RunType]
  BY TypesAre DEF TypeInv
<1>2. UNCHANGED network
  BY DEF Load, GetBalance, WalletPassphrase, Authorize, WalletLock, Sent, UpdateChainstate,
     ReadState, OpenOutput, WriteState
<1>3. /\ Built' = Built /\ Listed' = Listed /\ Values' = Values
      /\ Confirmed' = Confirmed /\ BudgetCovers' = BudgetCovers
      /\ \A m : Complete(m)' = Complete(m)
      /\ \A c : Spent(c)' = Spent(c)
      /\ chains' = chains /\ accepted' = accepted
  BY <1>2, SameNetwork DEF network
<1>4. CASE pc'[w] \notin Asking \cup Signing \cup {"send"} /\ pc[w] # "send"
  <2>1. \A m \in Built : accepted[m] = 0 \/ Complete(m)
    BY <1>4 DEF Whole
  <2>2. Enough(w)'
    BY <1>3, <1>4 DEF Enough, Asking
  <2>3. Whole(w)'
    BY <1>3, <1>4, <2>1 DEF Whole
  <2>4. QED
    BY <2>2, <2>3
<1>5. CASE Exit(w) /\ pc[w] # "send"
  <2>1. pc'[w] = "idle"
    BY <1>1, <1>5 DEF Exit, Goto
  <2>2. QED
    BY <1>4, <1>5, <2>1 DEF Asking, Signing
<1>6. CASE Confirmed /\ \E n \in ChainLengths : Load(w, n)
  <2>1. pc'[w] = "balance" /\ pc[w] = "idle"
    BY <1>1, <1>6 DEF Load, Goto
  <2>2. Enough(w)' /\ Whole(w)'
    BY <1>3, <1>6, <2>1 DEF Enough, Whole, Signing
  <2>3. QED
    BY <2>2
<1>7. CASE GetBalance(w)
  <2>1. pc[w] = "balance"
    BY <1>7 DEF GetBalance
  <2>2. CASE Exit(w)
    BY <1>5, <2>1, <2>2
  <2>3. CASE Goto(w, "unspent") /\ ~ (Worth(Listed) < MinimumBudget(run[w].size)) /\ UNCHANGED run
    <3>1. pc'[w] = "unspent" /\ run' = run
      BY <1>1, <2>3 DEF Goto
    <3>2. Worth(Listed) = SumOf(Values, Listed) /\ Worth(Listed) \in Int
      BY OutputsAre, WorthAdds
    <3>3. MinimumBudget(run[w].size) \in Int
      <4>1. (\A n \in ChainLengths : n \in Nat) /\ Fee \in Nat /\ Margin \in Nat
        BY SessionAssumption
      <4>2. run[w].size \in Nat
        <5>1. run[w].size \in {0} \cup ChainLengths
          BY <1>1 DEF RunType
        <5>2. QED
          BY <4>1, <5>1
      <4>3. QED
        BY <4>1, <4>2 DEF MinimumBudget
    <3>4. SumOf(Values, Listed) >= MinimumBudget(run[w].size)
      BY <2>3, <3>2, <3>3
    <3>5. Enough(w)'
      BY <1>3, <2>1, <3>1, <3>4 DEF Enough, Asking
    <3>6. Whole(w)'
      BY <1>3, <2>1, <3>1 DEF Whole, Signing
    <3>7. QED
      BY <3>5, <3>6
  <2>4. QED
    BY <1>7, <2>2, <2>3 DEF GetBalance
<1>8. CASE (WalletPassphrase(w) \/ Authorize(w)) /\ ~ Exit(w)
  <2>1. /\ pc'[w] \in {"sign", "lock"} /\ pc[w] \in Signing /\ run' = run
    BY <1>1, <1>8 DEF WalletPassphrase, Authorize, Goto, Signing
  <2>2. Enough(w)'
    BY <1>3, <2>1 DEF Enough, Asking
  <2>3. Whole(w)'
    BY <1>3, <2>1 DEF Whole, Signing
  <2>4. QED
    BY <2>2, <2>3
<1>9. CASE WalletLock(w)
  <2>1. pc'[w] = "send" /\ pc[w] = "lock" /\ run'[w].k = 1 /\ run'[w].msg = run[w].msg
    BY <1>1, <1>9 DEF WalletLock, Goto, RunType
  <2>2. Enough(w)'
    BY <1>3, <2>1 DEF Enough, Asking
  <2>3. Whole(w)'
    BY <1>3, <2>1 DEF Whole, Signing
  <2>4. QED
    BY <2>2, <2>3
<1>10. CASE Sent(w)
  <2>1. pc'[w] = "update" /\ pc[w] = "send" /\ run' = run
    BY <1>1, <1>10 DEF Sent, Goto
  <2>2. Complete(run[w].msg)
    BY <1>3, <2>1 DEF IInv, Running
  <2>3. Enough(w)'
    BY <1>3, <2>1 DEF Enough, Asking
  <2>4. Whole(w)'
    BY <1>3, <2>1, <2>2 DEF Whole, Signing
  <2>5. QED
    BY <2>3, <2>4
<1>11. CASE (UpdateChainstate(w) \/ OpenOutput(w) \/ WriteState(w)) /\ ~ Exit(w)
  <2>1. pc'[w] \in {"open", "write"} /\ pc[w] \in {"update", "open", "write"}
    BY <1>1, <1>11 DEF UpdateChainstate, ReadState, OpenOutput, WriteState, Goto
  <2>2. QED
    BY <1>4, <2>1 DEF Asking, Signing
<1>12. Authorize(w) \/ UpdateChainstate(w) \/ OpenOutput(w) \/ WriteState(w) => pc[w] # "send"
  BY DEF Authorize, UpdateChainstate, ReadState, OpenOutput, WriteState
<1>13. ~ (WalletPassphrase(w) /\ Exit(w))
  <2>1. SUFFICES ASSUME WalletPassphrase(w), Exit(w) PROVE FALSE
    OBVIOUS
  <2>2. pc'[w] = "sign" /\ pc'[w] = "idle"
    BY <1>1, <2>1 DEF WalletPassphrase, Exit, Goto
  <2>3. QED
    BY <2>2
<1>14. QED
  BY <1>5, <1>6, <1>7, <1>8, <1>9, <1>10, <1>11, <1>12, <1>13

\* The daemon takes each transaction of a chain whose budget covers it.
LEMMA SoloSends ==
    ASSUME TypeInv, IInv, NEW w \in Writers, Enough(w), Whole(w), Send(w)
    PROVE  /\ Enough(w)' /\ Whole(w)'
           /\ ~ Exit(w) /\ run'[w] = [run[w] EXCEPT !.k = @ + 1] /\ pc' = pc
           /\ \A m \in Built \ {run[w].msg} : accepted'[m] = accepted[m]
           /\ ~ Complete(run[w].msg)
<1> DEFINE m == run[w].msg
           x == run[w].k
<1>1. /\ pc \in [Writers -> Labels] /\ run[w] \in RunType /\ run \in [Writers -> RunType]
      /\ chains \in Seq(Chain) /\ accepted \in [Built -> Nat] /\ pc[w] = "send"
      /\ UNCHANGED <<file, chains, mined, taken, unlocked, crashes>>
  BY TypesAre DEF TypeInv, Send
<1>2. m \in Built /\ x \in Nat /\ x <= chains[m].n /\ accepted[m] = x - 1 /\ x # 0
  <2>1. m \in Built /\ accepted[m] = x - 1
    BY <1>1 DEF IInv, Running, Whole
  <2>2. x \in Nat /\ accepted[m] \in Nat
    BY <1>1, <2>1 DEF RunType
  <2>3. QED
    BY <2>1, <2>2 DEF Send
<1>3. chains[m].n \in Nat /\ chains[m].budget \in Int /\ Fee \in Nat /\ Margin \in Nat
  <2>1. chains[m] \in Chain
    BY <1>1, <1>2 DEF Built
  <2>2. QED
    BY <2>1, SessionAssumption DEF Chain
<1>4. Acceptable(m, x)
  <2>1. x * Fee <= chains[m].n * Fee /\ x * Fee \in Nat /\ chains[m].n * Fee \in Nat
    BY <1>2, <1>3, ProductsGrow
  <2>2. chains[m].budget >= chains[m].n * Fee + Margin
    BY <1>2 DEF Enough, BudgetCovers, MinimumBudget
  <2>3. chains[m].budget >= x * Fee
    BY <1>3, <2>1, <2>2
  <2>4. x = 1 => \A c \in Range(chains[m].ins) : ~ Spent(c)
    BY <1>1 DEF Whole
  <2>5. QED
    BY <1>2, <2>3, <2>4 DEF Acceptable
<1>5. /\ accepted' = [accepted EXCEPT ![m] = x] /\ run' = [run EXCEPT ![w].k = x + 1]
      /\ pc' = pc
  BY <1>4 DEF Send
<1>6. ~ Exit(w)
  BY <1>1, <1>5 DEF Exit, Goto
<1>7. run'[w] = [run[w] EXCEPT !.k = @ + 1] /\ run'[w].msg = m /\ run'[w].k = x + 1
  BY <1>1, <1>5 DEF RunType
<1>8. Built' = Built /\ \A i_ \in Built \ {m} : accepted'[i_] = accepted[i_]
  BY <1>1, <1>5 DEF Built
<1>9. Enough(w)'
  BY <1>1, <1>5, <1>8 DEF Enough, BudgetCovers, Asking
<1>10. \A i_ \in Built \ {m} : Complete(i_)' = Complete(i_)
  BY <1>1, <1>8 DEF Complete
<1>11. ~ Complete(m)
  BY <1>2, <1>3 DEF Complete
<1>12. \A i_ \in Built : \/ accepted'[i_] = 0 \/ Complete(i_)'
                         \/ (pc'[w] = "send" /\ run'[w].msg = i_)
  BY <1>1, <1>5, <1>7, <1>8, <1>10 DEF Whole
<1>13. accepted'[m] = run'[w].k - 1 /\ run'[w].k # 1
  BY <1>1, <1>2, <1>5, <1>7
<1>14. Whole(w)'
  BY <1>1, <1>5, <1>7, <1>8, <1>12, <1>13 DEF Whole, Signing
<1>15. QED
  BY <1>5, <1>6, <1>7, <1>8, <1>9, <1>11, <1>14

\* He chooses among all that is listed, and this is enough.
LEMMA SoloChooses ==
    ASSUME TypeInv, IInv, NEW w \in Writers, ByHimself(w), Enough(w), Whole(w), ListUnspent(w)
    PROVE  Enough(w)' /\ Whole(w)'
<1> DEFINE nMin == MinimumBudget(run[w].size)
           new == Len(chains) + 1
<1>1. /\ pc \in [Writers -> Labels] /\ run[w] \in RunType /\ run \in [Writers -> RunType]
      /\ pc[w] = "unspent" /\ chains \in Seq(Chain) /\ Len(chains) \in Nat
  BY TypesAre DEF TypeInv, ListUnspent
<1>2. nMin \in Int
  <2>1. (\A n \in ChainLengths : n \in Nat) /\ Fee \in Nat /\ Margin \in Nat
    BY SessionAssumption
  <2>2. run[w].size \in Nat
    <3>1. run[w].size \in {0} \cup ChainLengths
      BY <1>1 DEF RunType
    <3>2. QED
      BY <2>1, <3>1
  <2>3. QED
    BY <2>1, <2>2 DEF MinimumBudget
<1>3. PICK ins \in Selections(run[w].cfg.last, nMin) :
        chains' = Append(chains, [ins |-> ins, n |-> run[w].size, budget |-> Worth(Range(ins))])
  BY ListUnspentTypes
<1>4. /\ Range(ins) \subseteq Listed /\ Worth(Range(ins)) \in Int
      /\ Worth(Range(ins)) >= nMin \/ Range(ins) = Listed
  BY <1>2, <1>3, SelectionsAre
<1>5. Worth(Range(ins)) >= nMin
  <2>1. Worth(Listed) = SumOf(Values, Listed)
    BY OutputsAre, WorthAdds
  <2>2. Worth(Listed) >= nMin
    BY <1>1, <2>1 DEF Enough
  <2>3. QED
    BY <1>4, <2>2
<1>6. /\ Built' = Built \cup {new} /\ new \notin Built
      /\ \A m \in Built : chains'[m] = chains[m] /\ accepted'[m] = accepted[m]
      /\ chains'[new].ins = ins /\ chains'[new].n = run[w].size
      /\ chains'[new].budget = Worth(Range(ins)) /\ accepted'[new] = 0
  <2>1. chains'[new] = [ins |-> ins, n |-> run[w].size, budget |-> Worth(Range(ins))]
    BY <1>1, <1>3
  <2>2. new \notin Built
    BY <1>1 DEF Built
  <2>3. QED
    BY <2>1, <2>2, ListUnspentTypes
<1>7. /\ pc'[w] = "unlock" /\ run'[w].msg = new /\ taken' = taken
  BY <1>1 DEF ListUnspent, Goto, RunType
<1>8. BudgetCovers'
  <2>1. ASSUME NEW m \in Built' PROVE chains'[m].budget >= MinimumBudget(chains'[m].n)
    <3>1. CASE m \in Built
      BY <1>6, <3>1 DEF Enough, BudgetCovers
    <3>2. CASE m = new
      BY <1>5, <1>6, <3>2
    <3>3. QED
      BY <1>6, <2>1, <3>1, <3>2
  <2>2. QED
    BY <2>1 DEF BudgetCovers, MinimumBudget
<1>9. Enough(w)'
  BY <1>7, <1>8 DEF Enough, Asking
<1>10. \A c : Spent(c)' = Spent(c)
  <2>1. \A m \in Built' : /\ accepted'[m] > 0 => m \in Built
                          /\ m \in Built => chains'[m] = chains[m] /\ accepted'[m] = accepted[m]
    BY <1>6
  <2>2. \A m \in Built : m \in Built'
    BY <1>6
  <2>3. QED
    BY <1>7, <2>1, <2>2 DEF Spent
<1>11. \A c \in Range(ins) : ~ Spent(c)
  BY <1>4, OutputsAre, SessionAssumption DEF Listed
<1>12. ASSUME NEW m \in Built' PROVE accepted'[m] = 0 \/ Complete(m)'
  <2>1. CASE m \in Built
    BY <1>1, <1>6, <2>1 DEF Whole, Complete
  <2>2. CASE m = new
    BY <1>6, <2>2
  <2>3. QED
    BY <1>6, <1>12, <2>1, <2>2
<1>13. Whole(w)'
  BY <1>6, <1>7, <1>10, <1>11, <1>12 DEF Whole, Signing
<1>14. QED
  BY <1>9, <1>13

\* The lock's timer and the blocks.
LEMMA SoloWaits ==
    ASSUME TypeInv, NEW w \in Writers, Enough(w), Whole(w),
           LockTimeout \/ \E m \in Messages : Mine(m)
    PROVE  Enough(w)' /\ Whole(w)'
<1>1. CASE LockTimeout
  <2>1. UNCHANGED <<pc, run>> /\ UNCHANGED network
    BY <1>1 DEF LockTimeout
  <2>2. /\ Built' = Built /\ Listed' = Listed /\ Values' = Values
        /\ Confirmed' = Confirmed /\ BudgetCovers' = BudgetCovers
        /\ \A m : Complete(m)' = Complete(m)
        /\ \A c : Spent(c)' = Spent(c)
        /\ chains' = chains /\ accepted' = accepted
    BY <2>1, SameNetwork DEF network
  <2>3. Enough(w)'
    BY <2>1, <2>2 DEF Enough
  <2>4. Whole(w)'
    BY <2>1, <2>2 DEF Whole
  <2>5. QED
    BY <2>3, <2>4
<1>2. CASE \E m \in Messages : Mine(m)
  <2>1. UNCHANGED <<pc, run, chains, accepted, taken>>
    BY <1>2 DEF Mine
  <2>2. ~ Confirmed
    <3>1. PICK m \in Built : mined[m] < accepted[m]
      BY <1>2 DEF Mine
    <3>2. mined[m] \in Nat /\ accepted[m] \in Nat
      BY <3>1 DEF TypeInv, TypeOK
    <3>3. QED
      BY <3>1, <3>2 DEF Confirmed
  <2>3. pc[w] \notin Asking
    BY <2>2 DEF Enough
  <2>4. Built' = Built
    BY <2>1 DEF Built
  <2>5. \A m : Complete(m)' = Complete(m) /\ Spent(m)' = Spent(m)
    BY <2>1, <2>4 DEF Complete, Spent
  <2>6. Enough(w)'
    BY <2>1, <2>3, <2>4 DEF Enough, BudgetCovers, Asking
  <2>7. Whole(w)'
    BY <2>1, <2>4, <2>5 DEF Whole
  <2>8. QED
    BY <2>6, <2>7
<1>3. QED
  BY <1>1, <1>2

LEMMA UndisturbedNext == ASSUME NEW w \in Writers, Undisturbed(w) PROVE Next
  BY DEF Undisturbed, Next, Environment

LEMMA SoloStep ==
    ASSUME TypeInv, IInv, NEW w \in Writers, ByHimself(w), Enough(w), Whole(w), Undisturbed(w)
    PROVE  ByHimself(w)' /\ Enough(w)' /\ Whole(w)'
<1>1. IInv'
  BY UndisturbedNext, InvarianceStep
<1>2. ByHimself(w)'
  <2>1. taken' = taken
    BY DEF Undisturbed, Run, Load, GetBalance, ListUnspent, WalletPassphrase, Authorize, WalletLock,
       Send, Sent, UpdateChainstate, ReadState, OpenOutput, WriteState, LockTimeout, Mine, network
  <2>2. pc' = pc \/ \E label : pc' = [pc EXCEPT ![w] = label]
    BY DEF Undisturbed, Run, Load, GetBalance, ListUnspent, WalletPassphrase, Authorize, WalletLock,
       Send, Sent, UpdateChainstate, ReadState, OpenOutput, WriteState, LockTimeout, Mine, Goto, Exit
  <2>3. pc \in [Writers -> Labels]
    BY TypesAre DEF TypeInv
  <2>4. \A q \in Writers \ {w} : pc'[q] = pc[q]
    BY <2>2, <2>3
  <2>5. QED
    BY <2>1, <2>4 DEF ByHimself
<1>3. QED
  BY <1>1, <1>2, SoloMoves, SoloSends, SoloChooses, SoloWaits DEF Undisturbed, Run

LEMMA SoloInit == ASSUME Init, NEW w \in Writers PROVE ByHimself(w) /\ Enough(w) /\ Whole(w)
<1>1. Built = {} /\ pc[w] = "idle"
  BY DEF Init, Built
<1>2. Enough(w)
  BY <1>1 DEF Enough, Asking, BudgetCovers
<1>3. Whole(w)
  BY <1>1 DEF Whole, Signing
<1>4. QED
  BY <1>2, <1>3 DEF Init, ByHimself

--------------------------------------------------------------------------------
(* Reading back.  The messages that a state leads to are again what any function is   *)
(* that satisfies the equation in ReadBack.                                           *)

Stops(ch, first_, m) == m = first_ \/ ch[m].ins = <<>> \/ ch[m].ins[1] \notin 1 .. m - 1
Backs(ch, first_, N, g) ==
    \A m \in 1 .. N : g[m] = IF Stops(ch, first_, m) THEN <<m>> ELSE Append(g[ch[m].ins[1]], m)
BackFrom(ch, first_, m) == (CHOOSE g : Backs(ch, first_, m, g))[m]

LEMMA SmallestPlace ==
    ASSUME NEW N \in Nat, NEW T, T \subseteq 1 .. N, T # {}
    PROVE  \E x \in T : \A y \in T : x <= y
<1>1. T \subseteq Nat
  OBVIOUS
<1>2. QED
  BY <1>1, SmallestNumber

LEMMA BacksAgree ==
    ASSUME NEW N \in Nat, NEW ch, NEW dh, \A m \in 1 .. N : ch[m].ins = dh[m].ins,
           NEW first_, NEW g, NEW h, Backs(ch, first_, N, g), Backs(dh, first_, N, h)
    PROVE  \A m \in 1 .. N : g[m] = h[m]
<1> DEFINE Bad == {m \in 1 .. N : g[m] # h[m]}
<1>1. SUFFICES ASSUME Bad # {} PROVE FALSE
  OBVIOUS
<1>2. PICK m \in Bad : \A n \in Bad : m <= n
  <2>1. Bad \subseteq 1 .. N
    OBVIOUS
  <2> HIDE DEF Bad
  <2>2. QED
    BY <1>1, <2>1, SmallestPlace
<1>3. /\ m \in 1 .. N /\ g[m] # h[m] /\ ch[m].ins = dh[m].ins
  BY <1>2
<1>4. /\ g[m] = IF Stops(ch, first_, m) THEN <<m>> ELSE Append(g[ch[m].ins[1]], m)
      /\ h[m] = IF Stops(dh, first_, m) THEN <<m>> ELSE Append(h[dh[m].ins[1]], m)
  BY <1>3 DEF Backs
<1>5. Stops(ch, first_, m) = Stops(dh, first_, m)
  BY <1>3 DEF Stops
<1>6. ~ Stops(ch, first_, m)
  BY <1>3, <1>4, <1>5
<1> DEFINE p == ch[m].ins[1]
<1>7. p \in 1 .. N /\ p < m /\ p = dh[m].ins[1]
  BY <1>3, <1>6 DEF Stops
<1>8. g[p] = h[p]
  <2>1. ~ (m <= p)
    BY <1>3, <1>7
  <2>2. p \notin Bad
    BY <1>2, <2>1
  <2>3. QED
    BY <1>7, <2>2
<1>9. QED
  BY <1>3, <1>4, <1>5, <1>6, <1>7, <1>8

LEMMA BacksExist ==
    ASSUME NEW N \in Nat, NEW ch, NEW first_ PROVE \E g : Backs(ch, first_, N, g)
<1> DEFINE Bad == {n \in 1 .. N : ~ \E g : Backs(ch, first_, n, g)}
<1>1. CASE N = 0
  BY <1>1 DEF Backs
<1>2. CASE N # 0
  <2>1. SUFFICES ASSUME Bad # {} PROVE FALSE
    <3>1. N \in 1 .. N
      BY <1>2
    <3>2. QED
      BY <2>1, <3>1
  <2>2. PICK n \in Bad : \A m \in Bad : n <= m
    <3>1. Bad \subseteq 1 .. N
      OBVIOUS
    <3> HIDE DEF Bad
    <3>2. QED
      BY <2>1, <3>1, SmallestPlace
  <2>3. n \in 1 .. N /\ n \in Nat /\ ~ \E g : Backs(ch, first_, n, g)
    BY <2>2
  <2>4. PICK g : Backs(ch, first_, n - 1, g)
    <3>1. CASE n = 1
      BY <3>1 DEF Backs
    <3>2. CASE n # 1
      <4>1. n - 1 \in 1 .. N /\ ~ (n <= n - 1)
        BY <2>3, <3>2
      <4>2. n - 1 \notin Bad
        BY <2>2, <4>1
      <4>3. QED
        BY <4>1, <4>2
    <3>3. QED
      BY <3>1, <3>2
  <2> DEFINE p == ch[n].ins[1]
             h == [m \in 1 .. n |-> IF m = n THEN IF Stops(ch, first_, n) THEN <<n>> ELSE Append(g[p], n)
                                    ELSE g[m]]
  <2>5. ASSUME NEW m \in 1 .. n
        PROVE  h[m] = IF Stops(ch, first_, m) THEN <<m>> ELSE Append(h[ch[m].ins[1]], m)
    <3> DEFINE q == ch[m].ins[1]
    <3>1. ~ Stops(ch, first_, m) => q \in 1 .. m - 1
      BY DEF Stops
    <3>2. ~ Stops(ch, first_, m) => q \in 1 .. n /\ q # n
      BY <2>3, <3>1
    <3>3. ~ Stops(ch, first_, m) => h[q] = g[q]
      BY <3>2
    <3>4. CASE m = n
      BY <3>3, <3>4
    <3>5. CASE m # n
      <4>1. m \in 1 .. n - 1
        BY <2>3, <3>5
      <4>2. g[m] = IF Stops(ch, first_, m) THEN <<m>> ELSE Append(g[q], m)
        BY <2>4, <4>1 DEF Backs
      <4>3. h[m] = g[m]
        BY <3>5
      <4> HIDE DEF h
      <4>4. QED
        BY <3>3, <4>2, <4>3
    <3>6. QED
      BY <3>4, <3>5
  <2> HIDE DEF h
  <2>6. Backs(ch, first_, n, h)
    BY <2>5 DEF Backs
  <2>7. QED
    BY <2>3, <2>6
<1>3. QED
  BY <1>1, <1>2

LEMMA BackIs ==
    ASSUME NEW N \in Nat, NEW ch, NEW first_, NEW g, Backs(ch, first_, N, g), NEW m \in 1 .. N
    PROVE  g[m] = BackFrom(ch, first_, m)
<1>1. m \in Nat /\ m \in 1 .. m /\ \A n \in 1 .. m : n \in 1 .. N
  OBVIOUS
<1>2. Backs(ch, first_, m, g)
  BY <1>1 DEF Backs
<1>3. Backs(ch, first_, m, CHOOSE h : Backs(ch, first_, m, h))
  BY <1>2
<1> DEFINE h == CHOOSE k : Backs(ch, first_, m, k)
<1>4. Backs(ch, first_, m, h) /\ BackFrom(ch, first_, m) = h[m]
  BY <1>3 DEF BackFrom
<1> HIDE DEF h
<1>5. \A dh : (\A n \in 1 .. m : ch[n].ins = dh[n].ins) /\ Backs(dh, first_, m, h)
               => \A n \in 1 .. m : g[n] = h[n]
  BY <1>1, <1>2, BacksAgree
<1>6. \A n \in 1 .. m : g[n] = h[n]
  BY <1>4, <1>5
<1>7. QED
  BY <1>1, <1>4, <1>6

LEMMA BackSame ==
    ASSUME NEW m \in Nat \ {0}, NEW ch, NEW dh, \A n \in 1 .. m : ch[n].ins = dh[n].ins, NEW first_
    PROVE  BackFrom(ch, first_, m) = BackFrom(dh, first_, m)
<1>1. PICK g : Backs(ch, first_, m, g)
  BY BacksExist
<1>2. PICK h : Backs(dh, first_, m, h)
  BY BacksExist
<1>3. m \in 1 .. m
  OBVIOUS
<1>4. g[m] = h[m]
  BY <1>1, <1>2, <1>3, BacksAgree
<1>5. QED
  BY <1>1, <1>2, <1>3, <1>4, BackIs

LEMMA BackStep ==
    ASSUME NEW m \in Nat \ {0}, NEW ch, NEW first_
    PROVE  BackFrom(ch, first_, m) = IF Stops(ch, first_, m) THEN <<m>>
                                     ELSE Append(BackFrom(ch, first_, ch[m].ins[1]), m)
<1>1. PICK g : Backs(ch, first_, m, g)
  BY BacksExist
<1>2. m \in 1 .. m
  OBVIOUS
<1>3. g[m] = BackFrom(ch, first_, m)
  BY <1>1, <1>2, BackIs
<1>4. ~ Stops(ch, first_, m) => ch[m].ins[1] \in 1 .. m
  BY DEF Stops
<1>5. ~ Stops(ch, first_, m) => g[ch[m].ins[1]] = BackFrom(ch, first_, ch[m].ins[1])
  BY <1>1, <1>4, BackIs
<1>6. g[m] = IF Stops(ch, first_, m) THEN <<m>> ELSE Append(g[ch[m].ins[1]], m)
  BY <1>1, <1>2 DEF Backs
<1>7. QED
  BY <1>3, <1>5, <1>6

LEMMA ReadBackIs ==
    ASSUME NEW state, state.last = 0 \/ state.last \in Built, Len(chains) \in Nat
    PROVE  ReadBack(state) = IF state.last = 0 THEN <<>>
                             ELSE BackFrom(chains, state.first, state.last)
<1> DEFINE P(g) == g = [m \in Built |->
                         IF m = state.first \/ chains[m].ins = <<>>
                            \/ chains[m].ins[1] \notin 1 .. m - 1
                         THEN <<m>> ELSE Append(g[chains[m].ins[1]], m)]
           back == CHOOSE g : P(g)
<1>1. \E g : P(g)
  <2>1. PICK h : Backs(chains, state.first, Len(chains), h)
    BY BacksExist
  <2> DEFINE g == [m \in Built |-> h[m]]
  <2>2. ASSUME NEW m \in Built
        PROVE  g[m] = IF Stops(chains, state.first, m) THEN <<m>>
                      ELSE Append(g[chains[m].ins[1]], m)
    <3>1. ~ Stops(chains, state.first, m) => chains[m].ins[1] \in Built
      BY DEF Stops, Built
    <3>2. h[m] = IF Stops(chains, state.first, m) THEN <<m>>
                 ELSE Append(h[chains[m].ins[1]], m)
      BY <2>1 DEF Backs, Built
    <3>3. QED
      BY <3>1, <3>2
  <2>3. g = [m \in Built |-> IF Stops(chains, state.first, m) THEN <<m>>
                             ELSE Append(g[chains[m].ins[1]], m)]
    BY <2>2
  <2>4. P(g)
    BY <2>3 DEF Stops
  <2>5. QED
    BY <2>4
<1>2. P(back)
  BY <1>1
<1>3. ReadBack(state) = IF state.last = 0 THEN <<>> ELSE back[state.last]
  BY DEF ReadBack
<1> HIDE DEF back
<1>4. Backs(chains, state.first, Len(chains), back)
  BY <1>2 DEF Backs, Stops, Built
<1>5. QED
  BY <1>3, <1>4, BackIs DEF Built

--------------------------------------------------------------------------------
(* The thread of messages. *)

Done == {m \in Built : Complete(m)}

\* The messages of d, in chains ch, from the first to the last of the state b: each spends
\* as its first input the output of the one before it.
Thread(ch, d, b) ==
    /\ b.first = 0 <=> b.last = 0
    /\ b.last # 0 => b.first \in d /\ b.last \in d /\ b.first <= b.last
    /\ \A m \in d : b.last # 0 => b.first <= m
    /\ \A m \in d : m # b.first /\ m <= b.last =>
         /\ ch[m].ins # <<>> /\ ch[m].ins[1] \in d /\ ch[m].ins[1] < m
         /\ \A s \in d : s < m => s <= ch[m].ins[1]

LEMMA ThreadGains ==
    ASSUME NEW ch, NEW d, d \subseteq Nat \ {0}, NEW b \in Pair, Thread(ch, d, b),
           NEW m \in Nat \ {0}, b.last < m
    PROVE  Thread(ch, d \cup {m}, b)
<1>1. b.first \in Nat /\ b.last \in Nat
  BY DEF Pair
<1>2. b.last # 0 => b.first <= m
  BY <1>1 DEF Thread
<1>3. \A s \in d \cup {m} : s <= b.last => s \in d
  BY <1>1
<1>4. \A s \in d : s <= b.last => ~ (m < s)
  BY <1>1
<1>5. QED
  BY <1>1, <1>2, <1>3, <1>4 DEF Thread

LEMMA ThreadSame ==
    ASSUME NEW ch, NEW dh, NEW d, NEW b, Thread(ch, d, b), \A m \in d : dh[m] = ch[m]
    PROVE  Thread(dh, d, b)
  BY DEF Thread

LEMMA ThreadAdvances ==
    ASSUME NEW ch, NEW d, d \subseteq Nat \ {0}, NEW b \in Pair, Thread(ch, d, b),
           NEW m \in d, b.last < m, \A s \in d : s <= b.last \/ s = m,
           b.last # 0 => ch[m].ins # <<>> /\ ch[m].ins[1] = b.last,
           NEW a, a.last = m, a.first = IF b.first = 0 THEN m ELSE b.first
    PROVE  Thread(ch, d, a)
<1>1. b.first \in Nat /\ b.last \in Nat /\ m \in Nat /\ m # 0
  BY DEF Pair
<1>2. CASE b.last = 0
  <2>1. a.first = m /\ \A s \in d : s = m
    BY <1>1, <1>2 DEF Thread
  <2>2. QED
    BY <1>1, <2>1 DEF Thread
<1>3. CASE b.last # 0
  <2>1. /\ a.first = b.first /\ b.first # 0 /\ b.first \in d /\ b.first <= b.last /\ b.last \in d
        /\ ch[m].ins # <<>> /\ ch[m].ins[1] = b.last
    BY <1>3 DEF Thread
  <2>2. \A s \in d : s < m => s <= b.last
    BY <1>1
  <2>3. ASSUME NEW s \in d, s # a.first, s <= m
        PROVE  /\ ch[s].ins # <<>> /\ ch[s].ins[1] \in d /\ ch[s].ins[1] < s
               /\ \A r \in d : r < s => r <= ch[s].ins[1]
    <3>1. CASE s <= b.last
      BY <2>1, <2>3, <3>1 DEF Thread
    <3>2. CASE s = m
      BY <1>1, <2>1, <2>2, <3>2
    <3>3. QED
      BY <3>1, <3>2
  <2>4. \A s \in d : a.first <= s
    BY <1>3, <2>1 DEF Thread
  <2>5. a.first <= a.last
    BY <1>1, <2>1
  <2>6. QED
    BY <1>1, <2>1, <2>3, <2>4, <2>5 DEF Thread
<1>4. QED
  BY <1>2, <1>3

\* What is read is the messages of d up to n, from f.
Reads(r, d, f, n) ==
    /\ r \in Seq(Nat) /\ r # <<>> /\ r[1] = f
    /\ Range(r) = {s \in d : s <= n}

\* Going back from any message of the thread gives those up to it, from the first one.
LEMMA ThreadReads ==
    ASSUME NEW ch, NEW d, d \subseteq Nat \ {0}, NEW b, Thread(ch, d, b), b.last # 0,
           NEW n \in d, n <= b.last
    PROVE  Reads(BackFrom(ch, b.first, n), d, b.first, n)
<1> DEFINE B(m) == BackFrom(ch, b.first, m)
           Right(m) == Reads(B(m), d, b.first, m)
           Bad == {m \in d : m <= b.last /\ ~ Right(m)}
<1>1. SUFFICES ASSUME Bad # {} PROVE FALSE
  OBVIOUS
<1>2. PICK m \in Bad : \A s \in Bad : m <= s
  <2> DEFINE N == b.last
  <2>1. N \in Nat
    <3>1. b.last \in d
      BY DEF Thread
    <3>2. QED
      BY <3>1
  <2>2. Bad \subseteq 1 .. N
    <3>1. ASSUME NEW s \in Bad PROVE s \in 1 .. N
      <4>1. s \in Nat \ {0} /\ s <= b.last
        BY <3>1
      <4>2. QED
        BY <2>1, <4>1
    <3> HIDE DEF Bad, N
    <3>2. QED
      BY <3>1
  <2> HIDE DEF Bad, N
  <2>3. QED
    BY <1>1, <2>1, <2>2, SmallestPlace
<1>3. /\ m \in d /\ m <= b.last /\ ~ Right(m) /\ m \in Nat \ {0} /\ b.last \in Nat
      /\ \A s \in d : s <= b.last /\ s < m => Right(s)
  <2>1. m \in d /\ m <= b.last /\ ~ Right(m)
    BY <1>2
  <2>2. \A s \in d : s \in Nat \ {0}
    OBVIOUS
  <2>3. b.last \in Nat
    BY <2>2 DEF Thread
  <2>4. ASSUME NEW s \in d, s <= b.last, s < m PROVE Right(s)
    <3>1. ~ (m <= s)
      BY <2>1, <2>2, <2>4
    <3>2. s \notin Bad
      BY <1>2, <3>1
    <3> HIDE DEF Right
    <3>3. QED
      BY <2>4, <3>2
  <2>5. QED
    BY <2>1, <2>2, <2>3, <2>4
<1>4. B(m) = IF Stops(ch, b.first, m) THEN <<m>> ELSE Append(B(ch[m].ins[1]), m)
  BY <1>3, BackStep
<1> HIDE DEF B
<1>5. CASE m = b.first
  <2>1. B(m) = <<m>>
    BY <1>4, <1>5 DEF Stops
  <2>2. {s \in d : s <= m} = {m}
    <3>1. \A s \in d : m <= s
      BY <1>5 DEF Thread
    <3>2. \A s \in d : s \in Nat
      OBVIOUS
    <3>3. \A s \in d : s <= m <=> s = m
      BY <1>3, <3>1, <3>2
    <3>4. QED
      BY <1>3, <3>3
  <2>3. Range(<<m>>) = {m}
    BY DEF Range
  <2>4. <<m>> \in Seq(Nat) /\ <<m>> # <<>> /\ <<m>>[1] = m
    BY <1>3
  <2>5. QED
    BY <1>3, <1>5, <2>1, <2>2, <2>3, <2>4 DEF Reads
<1>6. CASE m # b.first
  <2> DEFINE p == ch[m].ins[1]
  <2>1. /\ ch[m].ins # <<>> /\ p \in d /\ p < m
        /\ \A s \in d : s < m => s <= p
    BY <1>3, <1>6 DEF Thread
  <2> HIDE DEF p
  <2>2. p \in Nat \ {0} /\ p \in 1 .. m - 1 /\ p <= b.last
    <3>1. \A s \in d : s \in Nat \ {0}
      OBVIOUS
    <3>2. p \in Nat \ {0}
      BY <2>1, <3>1
    <3>3. QED
      BY <1>3, <2>1, <3>2
  <2>3. Right(p)
    BY <1>3, <2>1, <2>2
  <2>4. B(m) = Append(B(p), m)
    BY <1>4, <1>6, <2>1, <2>2 DEF Stops, p
  <2> DEFINE r == B(p)
  <2>5. r \in Seq(Nat) /\ r # <<>> /\ r[1] = b.first /\ Range(r) = {s \in d : s <= p}
    BY <2>3 DEF Reads
  <2> HIDE DEF r
  <2>6. /\ Append(r, m) \in Seq(Nat) /\ Len(Append(r, m)) = Len(r) + 1 /\ Len(r) \in Nat \ {0}
        /\ \A z \in 1 .. Len(r) : Append(r, m)[z] = r[z]
        /\ Append(r, m)[Len(r) + 1] = m
    <3>1. Len(r) \in Nat \ {0}
      BY <2>5
    <3>2. QED
      BY <1>3, <2>5, <3>1, AppendProperties
  <2> DEFINE t == Append(r, m)
  <2> HIDE DEF t
  <2>7. t \in Seq(Nat) /\ t # <<>> /\ t[1] = b.first
    BY <2>5, <2>6 DEF t
  <2>8. Range(t) = Range(r) \cup {m}
    <3>1. DOMAIN t = 1 .. Len(r) + 1 /\ DOMAIN r = 1 .. Len(r)
      BY <2>5, <2>6 DEF t
    <3>2. \A z \in 1 .. Len(r) + 1 : z \in 1 .. Len(r) \/ z = Len(r) + 1
      BY <2>6
    <3>3. \A z \in 1 .. Len(r) : z \in 1 .. Len(r) + 1 /\ t[z] = r[z]
      BY <2>6 DEF t
    <3>4. Len(r) + 1 \in 1 .. Len(r) + 1 /\ t[Len(r) + 1] = m
      BY <2>6 DEF t
    <3>5. ASSUME NEW c \in Range(t) PROVE c \in Range(r) \cup {m}
      BY <3>1, <3>2, <3>3, <3>4 DEF Range
    <3>6. ASSUME NEW c \in Range(r) \cup {m} PROVE c \in Range(t)
      BY <3>1, <3>3, <3>4 DEF Range
    <3>7. QED
      BY <3>5, <3>6
  <2>9. {s \in d : s <= p} \cup {m} = {s \in d : s <= m}
    <3>1. \A s \in d : s \in Nat
      OBVIOUS
    <3>2. \A s \in d : s <= m <=> s <= p \/ s = m
      BY <1>3, <2>1, <2>2, <3>1
    <3>3. QED
      BY <1>3, <3>2
  <2>10. B(m) = t
    BY <2>4 DEF r, t
  <2>11. Right(m)
    BY <2>5, <2>7, <2>8, <2>9, <2>10 DEF Reads
  <2>12. QED
    BY <1>3, <2>11
<1>7. QED
  BY <1>5, <1>6

Finishing == {"send", "update", "open", "write"}

\* What he knows of the file; it is without its state only while he rewrites it.
Held(w) ==
    /\ pc[w] = "write" <=> file = Truncated
    /\ pc[w] \in Asking \cup Building => run[w].cfg = file
    /\ pc[w] = "open" => run[w].str = file
    /\ pc[w] \in {"open", "write"} =>
         /\ run[w].cfg.last = run[w].msg
         /\ run[w].cfg.first = IF run[w].str.first = 0 THEN run[w].msg ELSE run[w].str.first

\* The state of the file, also while he rewrites it.
Book(w) == IF pc[w] \in {"open", "write"} THEN run[w].str ELSE file

\* What is sent is on the thread of this state, but for the message that he is sending;
\* and that one continues it.
Linked(w) ==
    /\ Thread(chains, Done, Book(w))
    /\ \A m \in Done : m <= Book(w).last \/ (m = run[w].msg /\ pc[w] \in Finishing)
    /\ pc[w] \in Signing \cup Finishing =>
         /\ Book(w).last < run[w].msg
         /\ Book(w).last # 0 => /\ chains[run[w].msg].ins # <<>>
                                /\ chains[run[w].msg].ins[1] = Book(w).last
    /\ \A m \in Built : \A c \in Range(chains[m].ins) : c \in Messages => c < m

LEMMA BookIs ==
    ASSUME TypeInv, NEW w \in Writers, Held(w)
    PROVE  Book(w) \in State /\ Book(w) \in Pair
<1>1. run[w] \in RunType /\ file \in State \cup {Truncated} /\ MaxMessages \in Nat
  BY TypesAre, SessionAssumption DEF TypeInv
<1>2. Book(w) \in State
  BY <1>1 DEF Held, Book, RunType
<1>3. QED
  BY <1>1, <1>2 DEF State, Pair

LEMMA RecordedIs ==
    ASSUME TypeInv, NEW w \in Writers, Held(w), ByHimself(w) PROVE Recorded = Book(w)
<1>1. CASE file # Truncated
  BY <1>1 DEF Recorded, Book, Held
<1>2. CASE file = Truncated
  <2>1. pc[w] = "write" /\ \A q \in Writers : pc[q] = "write" => q = w
    BY <1>2 DEF Held, ByHimself
  <2>2. (CHOOSE q \in Writers : pc[q] = "write") = w
    BY <2>1
  <2>3. QED
    BY <1>2, <2>1, <2>2 DEF Recorded, Book
<1>3. QED
  BY <1>1, <1>2

LEMMA HeldInit == ASSUME Init, NEW w \in Writers PROVE Held(w) /\ Linked(w)
<1>1. pc[w] = "idle" /\ file = NoState /\ Built = {}
  BY DEF Init, Built
<1>2. Held(w)
  BY <1>1 DEF Held, NoState, Truncated, Asking, Building
<1>3. Book(w).first = 0 /\ Book(w).last = 0 /\ Done = {}
  BY <1>1 DEF Book, NoState, Done
<1>4. Linked(w)
  BY <1>1, <1>3 DEF Linked, Thread, Signing, Finishing
<1>5. QED
  BY <1>2, <1>4

LEMMA HeldStep ==
    ASSUME TypeInv, IInv, NEW w \in Writers, Enough(w), Whole(w), Held(w), Undisturbed(w)
    PROVE  Held(w)' /\ (~ WriteState(w) => Book(w)' = Book(w))
<1>1. /\ pc \in [Writers -> Labels] /\ run[w] \in RunType /\ run \in [Writers -> RunType]
      /\ file \in State \cup {Truncated}
  BY TypesAre DEF TypeInv
<1>2. CASE LockTimeout \/ \E m \in Messages : Mine(m)
  BY <1>2 DEF LockTimeout, Mine, Held, Book
<1>3. CASE /\ pc[w] \notin {"open", "write"} /\ file' = file
           /\ \/ pc'[w] = "idle"
              \/ /\ pc'[w] \in Asking \cup Building /\ run'[w].cfg = run[w].cfg
                 /\ pc[w] \in Asking \cup Building
  <2>1. pc'[w] \notin {"open", "write"} /\ file # Truncated
    BY <1>3 DEF Asking, Building, Held
  <2>2. Held(w)'
    BY <1>3, <2>1 DEF Held, Asking, Building
  <2>3. Book(w)' = Book(w)
    BY <1>3, <2>1 DEF Book
  <2>4. QED
    BY <2>2, <2>3
<1>4. CASE \E n \in ChainLengths : Load(w, n)
  <2>1. /\ pc'[w] = "balance" /\ run'[w].cfg = file /\ file' = file /\ pc[w] = "idle"
        /\ file # Truncated
    BY <1>1, <1>4 DEF Load, Goto, RunType
  <2>2. Held(w)'
    BY <2>1 DEF Held, Building
  <2>3. Book(w)' = Book(w)
    BY <2>1 DEF Book
  <2>4. QED
    BY <2>2, <2>3
<1>5. CASE GetBalance(w) \/ Authorize(w)
  <2>1. CASE Exit(w)
    <3>1. pc'[w] = "idle" /\ pc[w] \in {"balance", "sign"} /\ file' = file
      BY <1>1, <1>5, <2>1 DEF GetBalance, Authorize, Exit, Goto
    <3>2. QED
      BY <1>3, <3>1
  <2>2. CASE ~ Exit(w)
    <3>1. /\ pc'[w] \in {"unspent", "lock"} /\ pc[w] \in {"balance", "sign"} /\ run' = run
          /\ file' = file
      BY <1>1, <1>5, <2>2 DEF GetBalance, Authorize, Goto
    <3>2. QED
      BY <1>3, <3>1 DEF Asking, Building
  <2>3. QED
    BY <2>1, <2>2
<1>6. CASE ListUnspent(w) \/ WalletPassphrase(w) \/ WalletLock(w) \/ Sent(w)
  <2>1. /\ pc[w] \in {"unspent", "unlock", "lock", "send"}
        /\ pc'[w] \in {"unlock", "sign", "send", "update"}
        /\ run'[w].cfg = run[w].cfg /\ file' = file
    BY <1>1, <1>6 DEF ListUnspent, WalletPassphrase, WalletLock, Sent, Goto, RunType
  <2>2. QED
    BY <1>3, <2>1 DEF Asking, Building
<1>7. CASE Send(w)
  <2>1. /\ pc' = pc /\ run'[w] = [run[w] EXCEPT !.k = @ + 1] /\ file' = file /\ pc[w] = "send"
    BY <1>7, SoloSends DEF Send
  <2>2. run'[w].cfg = run[w].cfg
    BY <1>1, <2>1 DEF RunType
  <2>3. QED
    BY <1>3, <2>1, <2>2 DEF Asking, Building
<1>8. CASE UpdateChainstate(w)
  <2> DEFINE m == run[w].msg
             cfg == [first |-> IF run[w].cfg.first = 0 THEN m ELSE run[w].cfg.first, last |-> m]
  <2>1. pc[w] = "update"
    BY <1>8 DEF UpdateChainstate, ReadState
  <2>2. file # Truncated /\ run[w].cfg = file
    BY <2>1 DEF Held, Building
  <2>3. ReadState(w, cfg)
    BY <1>8, <2>2 DEF UpdateChainstate
  <2>4. run' = [run EXCEPT ![w].cfg = cfg, ![w].str = file] /\ pc'[w] = "open" /\ file' = file
    BY <1>1, <2>3 DEF ReadState, Goto
  <2>5. run'[w].cfg = cfg /\ run'[w].str = file /\ run'[w].msg = m
    BY <1>1, <2>4 DEF RunType
  <2>6. Held(w)'
    BY <2>2, <2>4, <2>5 DEF Held, Asking, Building
  <2>7. Book(w)' = Book(w)
    BY <2>1, <2>4, <2>5 DEF Book
  <2>8. QED
    BY <2>6, <2>7
<1>9. CASE OpenOutput(w)
  <2>1. pc[w] = "open" /\ pc'[w] = "write" /\ run' = run /\ file' = Truncated
    BY <1>1, <1>9 DEF OpenOutput, Goto
  <2>2. Held(w)'
    BY <2>1 DEF Held, Asking, Building
  <2>3. Book(w)' = Book(w)
    BY <2>1 DEF Book
  <2>4. QED
    BY <2>2, <2>3
<1>10. CASE WriteState(w)
  <2>1. pc'[w] = "idle" /\ file' = run[w].cfg
    BY <1>1, <1>10 DEF WriteState, Exit, Goto
  <2>2. file' # Truncated
    BY <1>1, <2>1, SessionAssumption DEF RunType, State, Truncated
  <2>3. Held(w)'
    BY <2>1, <2>2 DEF Held, Asking, Building
  <2>4. QED
    BY <1>10, <2>3
<1>11. QED
  BY <1>2, <1>4, <1>5, <1>6, <1>7, <1>8, <1>9, <1>10 DEF Undisturbed, Run

--------------------------------------------------------------------------------

LEMMA LinkedMoves ==
    ASSUME NEW w \in Writers, Linked(w), UNCHANGED <<chains, accepted>>, Book(w)' = Book(w),
           \/ /\ pc[w] \in Signing \cup Finishing /\ pc'[w] \in Signing \cup Finishing
              /\ pc[w] \in Finishing => pc'[w] \in Finishing
              /\ run'[w].msg = run[w].msg
           \/ pc'[w] \notin Signing \cup Finishing /\ pc[w] \notin Finishing
    PROVE  Linked(w)'
<1>1. Built' = Built /\ Done' = Done
  BY DEF Built, Done, Complete
<1>2. Thread(chains, Done, Book(w))'
  BY <1>1 DEF Linked
<1>3. \A m \in Done : m <= Book(w).last \/ (m = run'[w].msg /\ pc'[w] \in Finishing)
  BY DEF Linked
<1>4. pc'[w] \in Signing \cup Finishing =>
         /\ Book(w).last < run'[w].msg
         /\ Book(w).last # 0 => /\ chains[run'[w].msg].ins # <<>>
                                /\ chains[run'[w].msg].ins[1] = Book(w).last
  BY DEF Linked
<1>5. QED
  BY <1>1, <1>2, <1>3, <1>4 DEF Linked

LEMMA LinkedQuiet ==
    ASSUME TypeInv, IInv, NEW w \in Writers, Held(w), Linked(w), Book(w)' = Book(w),
           \/ \E n \in ChainLengths : Load(w, n)
           \/ GetBalance(w) \/ WalletPassphrase(w) \/ Authorize(w) \/ WalletLock(w) \/ Sent(w)
           \/ UpdateChainstate(w) \/ OpenOutput(w)
           \/ LockTimeout \/ \E m \in Messages : Mine(m)
    PROVE  Linked(w)'
<1>1. pc \in [Writers -> Labels] /\ run[w] \in RunType /\ run \in [Writers -> RunType]
  BY TypesAre DEF TypeInv
<1>2. UNCHANGED <<chains, accepted>>
  BY DEF Load, GetBalance, WalletPassphrase, Authorize, WalletLock, Sent, UpdateChainstate,
     ReadState, OpenOutput, LockTimeout, Mine, network
<1>3. CASE \/ \E n \in ChainLengths : Load(w, n)
           \/ GetBalance(w) \/ (Authorize(w) /\ Exit(w))
  <2>1. pc'[w] \in {"idle", "balance", "unspent"} /\ pc[w] \in {"idle", "balance", "sign"}
    BY <1>1, <1>3 DEF Load, GetBalance, Authorize, Exit, Goto
  <2>2. QED
    BY <1>2, <2>1, LinkedMoves DEF Signing, Finishing
<1>4. CASE WalletPassphrase(w) \/ (Authorize(w) /\ ~ Exit(w)) \/ WalletLock(w)
  <2>1. /\ pc[w] \in Signing /\ pc'[w] \in {"sign", "lock", "send"}
        /\ run'[w].msg = run[w].msg
    BY <1>1, <1>4 DEF WalletPassphrase, Authorize, WalletLock, Goto, Signing, RunType
  <2>2. QED
    BY <1>2, <2>1, LinkedMoves DEF Signing, Finishing
<1>5. CASE Sent(w) \/ OpenOutput(w)
  <2>1. pc[w] \in Finishing /\ pc'[w] \in Finishing /\ run' = run
    BY <1>1, <1>5 DEF Sent, OpenOutput, Goto, Finishing
  <2>2. QED
    BY <1>2, <2>1, LinkedMoves
<1>6. CASE UpdateChainstate(w)
  <2> DEFINE cfg == [first |-> IF run[w].cfg.first = 0 THEN run[w].msg ELSE run[w].cfg.first,
                     last |-> run[w].msg]
  <2>1. pc[w] = "update" /\ file # Truncated
    BY <1>6 DEF UpdateChainstate, ReadState, Held
  <2>2. ReadState(w, cfg)
    BY <1>6, <2>1 DEF UpdateChainstate
  <2>3. run' = [run EXCEPT ![w].cfg = cfg, ![w].str = file] /\ pc'[w] = "open"
    BY <1>1, <2>2 DEF ReadState, Goto
  <2>4. run'[w].msg = run[w].msg
    BY <1>1, <2>3 DEF RunType
  <2>5. QED
    BY <1>2, <2>1, <2>3, <2>4, LinkedMoves DEF Finishing
<1>7. CASE LockTimeout \/ \E m \in Messages : Mine(m)
  <2>1. UNCHANGED <<pc, run>>
    BY <1>7 DEF LockTimeout, Mine
  <2>2. QED
    BY <1>2, <2>1, LinkedMoves
<1>8. QED
  BY <1>3, <1>4, <1>5, <1>6, <1>7

LEMMA LinkedSends ==
    ASSUME TypeInv, IInv, NEW w \in Writers, Enough(w), Whole(w), Held(w), Linked(w),
           Book(w)' = Book(w), Send(w)
    PROVE  Linked(w)' /\ Done' \in {Done, Done \cup {run[w].msg}} /\ run[w].msg \notin Done
<1> DEFINE m == run[w].msg
<1>1. /\ ~ Exit(w) /\ pc' = pc /\ pc[w] = "send" /\ chains' = chains /\ ~ Complete(m)
      /\ run'[w] = [run[w] EXCEPT !.k = @ + 1] /\ run[w] \in RunType
      /\ \A s \in Built \ {m} : accepted'[s] = accepted[s]
  <2>1. run[w] \in RunType
    BY TypesAre DEF TypeInv
  <2>2. QED
    BY <2>1, SoloSends DEF Send
<1>2. run'[w].msg = m /\ Built' = Built /\ m \in Built /\ m \in Nat \ {0} /\ Book(w) \in Pair
  BY <1>1, BookIs DEF RunType, Built, IInv, Running
<1>3. m \notin Done /\ Done' \in {Done, Done \cup {m}}
  BY <1>1, <1>2 DEF Done, Complete
<1>4. Thread(chains, Done', Book(w))
  <2>1. Done \subseteq Nat \ {0} /\ Book(w).last < m /\ Thread(chains, Done, Book(w))
    BY <1>1 DEF Done, Built, Linked, Finishing
  <2>2. Thread(chains, Done \cup {m}, Book(w))
    BY <1>2, <2>1, ThreadGains
  <2>3. QED
    BY <1>3, <2>1, <2>2
<1>5. Linked(w)'
  <2>1. \A s \in Done' : s <= Book(w).last \/ s = m
    BY <1>3 DEF Linked
  <2>2. pc[w] \in Finishing
    BY <1>1 DEF Finishing
  <2>3. QED
    BY <1>1, <1>2, <1>4, <2>1, <2>2 DEF Linked
<1>6. QED
  BY <1>3, <1>5

\* The last message's output is listed when he chooses his inputs.
LEMMA LastListed ==
    ASSUME TypeInv, IInv, NEW w \in Writers, ByHimself(w), Enough(w), Whole(w), Held(w), Linked(w),
           pc[w] = "unspent", Book(w).last # 0
    PROVE  run[w].cfg.last = Book(w).last /\ Book(w).last \in Listed
<1> DEFINE c == Book(w).last
<1>1. run[w].cfg = file /\ Book(w) = file
  BY DEF Held, Book, Asking
<1>2. c \in Built /\ Complete(c)
  BY DEF Linked, Thread, Done
<1>3. ~ Spent(c)
  <2>1. SUFFICES ASSUME NEW m \in Built, accepted[m] > 0, c \in Range(chains[m].ins) PROVE FALSE
    BY DEF Spent, ByHimself
  <2>2. c \in Messages /\ c \in Nat /\ m \in Nat
    BY <1>2, OutputsAre DEF Built
  <2>3. c < m
    BY <2>1, <2>2 DEF Linked
  <2>4. Complete(m)
    <3>1. accepted[m] = 0 \/ Complete(m)
      BY DEF Whole
    <3>2. accepted[m] \in Nat
      BY DEF TypeInv, TypeOK
    <3>3. QED
      BY <2>1, <3>1, <3>2
  <2>5. m <= c
    BY <2>4 DEF Done, Linked, Finishing
  <2>6. QED
    BY <2>2, <2>3, <2>5
<1>4. mined[c] = chains[c].n
  BY <1>2 DEF Enough, Confirmed, Asking, Complete
<1>5. c \in Listed
  BY <1>2, <1>3, <1>4 DEF Listed
<1>6. QED
  BY <1>1, <1>5

LEMMA LinkedChooses ==
    ASSUME TypeInv, IInv, NEW w \in Writers, ByHimself(w), Enough(w), Whole(w), Held(w), Linked(w),
           Book(w)' = Book(w), ListUnspent(w)
    PROVE  Linked(w)' /\ Done' = Done /\ \A m \in Built : chains'[m] = chains[m]
<1> DEFINE new == Len(chains) + 1
           nMin == MinimumBudget(run[w].size)
<1>1. /\ pc \in [Writers -> Labels] /\ run[w] \in RunType /\ run \in [Writers -> RunType]
      /\ pc[w] = "unspent" /\ Len(chains) \in Nat /\ Book(w) \in Pair
  BY TypesAre, BookIs, OutputsAre DEF TypeInv, ListUnspent
<1>2. (\A n \in ChainLengths : n \in Nat /\ n # 0) /\ Fee \in Nat /\ Margin \in Nat
  <2>1. ChainLengths \subseteq Nat \ {0, 1}
    BY SessionAssumption
  <2>2. QED
    BY <2>1, SessionAssumption
<1>3. run[w].size \in Nat /\ run[w].size # 0
  BY <1>1, <1>2 DEF IInv, Running
<1>4. nMin \in Int
  BY <1>2, <1>3 DEF MinimumBudget
<1>5. PICK ins \in Selections(run[w].cfg.last, nMin) :
        chains' = Append(chains, [ins |-> ins, n |-> run[w].size, budget |-> Worth(Range(ins))])
  BY ListUnspentTypes
<1>6. /\ Range(ins) \subseteq Listed
      /\ run[w].cfg.last \in Listed => ins # <<>> /\ ins[1] = run[w].cfg.last
  BY <1>4, <1>5, SelectionsAre
<1>7. /\ Built' = Built \cup {new} /\ new \notin Built /\ Built = 1 .. Len(chains)
      /\ \A m \in Built : chains'[m] = chains[m] /\ accepted'[m] = accepted[m]
      /\ chains'[new].ins = ins /\ chains'[new].n = run[w].size /\ accepted'[new] = 0
  <2>1. chains \in Seq(Chain)
    BY TypesAre DEF TypeInv
  <2>2. chains'[new] = [ins |-> ins, n |-> run[w].size, budget |-> Worth(Range(ins))]
    BY <1>1, <1>5, <2>1
  <2>3. new \notin Built
    BY <1>1 DEF Built
  <2>4. QED
    BY <2>2, <2>3, ListUnspentTypes DEF Built
<1>8. pc'[w] = "unlock" /\ run'[w].msg = new
  BY <1>1 DEF ListUnspent, Goto, RunType
<1>9. Done' = Done
  <2>1. \A m : m = new => ~ Complete(m)'
    BY <1>3, <1>7 DEF Complete
  <2>2. \A m \in Built : Complete(m)' = Complete(m)
    BY <1>7 DEF Complete
  <2>3. QED
    BY <1>7, <2>1, <2>2 DEF Done
<1>10. Thread(chains', Done, Book(w))
  <2>1. \A m \in Done : chains'[m] = chains[m]
    BY <1>7 DEF Done
  <2>2. Thread(chains, Done, Book(w))
    BY DEF Linked
  <2>3. QED
    BY <2>1, <2>2, ThreadSame
<1>11. \A m \in Done : m <= Book(w).last
  BY <1>1 DEF Linked, Finishing
<1>12. /\ Book(w).last < new
       /\ Book(w).last # 0 => ins # <<>> /\ ins[1] = Book(w).last
  <2>1. CASE Book(w).last = 0
    BY <1>1, <2>1
  <2>2. CASE Book(w).last # 0
    <3>1. run[w].cfg.last = Book(w).last /\ Book(w).last \in Listed
      BY <1>1, <2>2, LastListed
    <3>2. Book(w).last \in Built
      BY <2>2 DEF Linked, Thread, Done
    <3>3. QED
      BY <1>1, <1>6, <1>7, <3>1, <3>2
  <2>3. QED
    BY <2>1, <2>2
<1>13. ASSUME NEW m \in Built', NEW c \in Range(chains'[m].ins), c \in Messages PROVE c < m
  <2>1. CASE m \in Built
    BY <1>7, <1>13, <2>1 DEF Linked
  <2>2. CASE m = new
    <3>1. c \in Coins \cup Built
      BY <1>6, <1>7, <1>13, <2>2, OutputsAre DEF Outputs
    <3>2. Coins \cap Messages = {}
      BY SessionAssumption
    <3>3. c \in Built
      BY <1>13, <3>1, <3>2
    <3>4. QED
      BY <1>1, <1>7, <2>2, <3>3
  <2>3. QED
    BY <1>7, <1>13, <2>1, <2>2
<1>14. Linked(w)'
  BY <1>7, <1>8, <1>9, <1>10, <1>11, <1>12, <1>13 DEF Linked, Signing, Finishing
<1>15. QED
  BY <1>7, <1>9, <1>14

LEMMA LinkedWrites ==
    ASSUME TypeInv, IInv, NEW w \in Writers, Held(w), Linked(w), WriteState(w)
    PROVE  /\ Linked(w)' /\ Done' = Done /\ Built' = Built /\ chains' = chains
           /\ run[w].msg \in Done /\ Book(w).last < run[w].msg
           /\ Book(w)'.last = run[w].msg
           /\ Book(w)'.first = IF Book(w).first = 0 THEN run[w].msg ELSE Book(w).first
           /\ Book(w).last # 0 => /\ chains[run[w].msg].ins # <<>>
                                  /\ chains[run[w].msg].ins[1] = Book(w).last
<1> DEFINE m == run[w].msg
           a == run[w].cfg
<1>1. /\ pc \in [Writers -> Labels] /\ run[w] \in RunType /\ pc[w] = "write"
      /\ pc'[w] = "idle" /\ file' = a /\ UNCHANGED <<chains, accepted>>
  BY TypesAre DEF TypeInv, WriteState, Exit, Goto, network
<1>2. Book(w)' = a /\ Book(w) = run[w].str /\ Book(w) \in Pair
  BY <1>1, BookIs DEF Book
<1>3. a.last = m /\ a.first = IF Book(w).first = 0 THEN m ELSE Book(w).first
  BY <1>1, <1>2 DEF Held
<1>4. Built' = Built /\ Done' = Done /\ chains' = chains
  BY <1>1 DEF Built, Done, Complete
<1>5. m \in Done /\ Done \subseteq Nat \ {0}
  BY <1>1 DEF IInv, Running, Done, Built
<1>6. /\ Book(w).last < m
      /\ Book(w).last # 0 => chains[m].ins # <<>> /\ chains[m].ins[1] = Book(w).last
      /\ \A s \in Done : s <= Book(w).last \/ s = m
      /\ Thread(chains, Done, Book(w))
  BY <1>1 DEF Linked, Finishing
<1>7. Thread(chains, Done, a)
  BY <1>2, <1>3, <1>5, <1>6, ThreadAdvances
<1>8. \A s \in Done : s <= m
  <2>1. Book(w).last \in Nat /\ m \in Nat /\ \A s \in Done : s \in Nat
    BY <1>2, <1>5 DEF Pair
  <2>2. QED
    BY <1>6, <2>1
<1>9. Linked(w)'
  <2>1. pc'[w] \notin Signing \cup Finishing
    BY <1>1 DEF Signing, Finishing
  <2>2. Thread(chains, Done, Book(w))'
    BY <1>2, <1>4, <1>7
  <2>3. \A s \in Done' : s <= Book(w)'.last
    BY <1>2, <1>3, <1>4, <1>8
  <2>4. \A s \in Built' : \A c \in Range(chains'[s].ins) : c \in Messages => c < s
    BY <1>4 DEF Linked
  <2>5. QED
    BY <2>1, <2>2, <2>3, <2>4 DEF Linked
<1>10. QED
  BY <1>2, <1>3, <1>4, <1>5, <1>6, <1>9

\* All that holds of one user who waits.
Solo(w) == ByHimself(w) /\ Enough(w) /\ Whole(w) /\ Held(w) /\ Linked(w)

LEMMA AloneStep ==
    ASSUME TypeInv, IInv, NEW w \in Writers, Solo(w), Undisturbed(w) PROVE Solo(w)'
<1>1. ByHimself(w) /\ Enough(w) /\ Whole(w) /\ Held(w) /\ Linked(w)
  BY DEF Solo
<1>2. ByHimself(w)' /\ Enough(w)' /\ Whole(w)' /\ Held(w)'
  BY <1>1, SoloStep, HeldStep
<1>3. Linked(w)'
  <2>1. CASE WriteState(w)
    BY <1>1, <2>1, LinkedWrites
  <2>2. CASE ~ WriteState(w)
    <3>1. Book(w)' = Book(w)
      BY <1>1, <2>2, HeldStep
    <3>2. CASE ListUnspent(w)
      BY <1>1, <3>1, <3>2, LinkedChooses
    <3>3. CASE Send(w)
      BY <1>1, <3>1, <3>3, LinkedSends
    <3>4. CASE ~ ListUnspent(w) /\ ~ Send(w)
      BY <1>1, <2>2, <3>1, <3>4, LinkedQuiet DEF Undisturbed, Run
    <3>5. QED
      BY <3>2, <3>3, <3>4
  <2>3. QED
    BY <2>1, <2>2
<1>4. QED
  BY <1>2, <1>3 DEF Solo

--------------------------------------------------------------------------------
(* What is true of every behaviour. *)

\* The log is what the state leads to.
LEMMA LogIs ==
    ASSUME TypeInv, NEW w \in Writers, ByHimself(w), Held(w), Linked(w)
    PROVE  /\ ReadBack(Recorded) = IF Book(w).last = 0 THEN <<>>
                                   ELSE BackFrom(chains, Book(w).first, Book(w).last)
           /\ Range(ReadBack(Recorded)) = {m \in Done : m <= Book(w).last}
           /\ Book(w).last # 0 => ReadBack(Recorded)[1] = Book(w).first
<1> DEFINE b == Book(w)
<1>1. Recorded = b /\ Len(chains) \in Nat /\ b \in Pair
  BY RecordedIs, OutputsAre, BookIs
<1>2. /\ Thread(chains, Done, b) /\ Done \subseteq Nat \ {0}
      /\ b.last # 0 => b.last \in Done /\ b.last \in Built
  BY DEF Linked, Thread, Done, Built
<1> HIDE DEF b
<1>3. ReadBack(b) = IF b.last = 0 THEN <<>> ELSE BackFrom(chains, b.first, b.last)
  BY <1>1, <1>2, ReadBackIs
<1>4. CASE b.last = 0
  <2>1. ReadBack(b) = <<>>
    BY <1>3, <1>4
  <2>2. Range(<<>>) = {}
    BY DEF Range
  <2>3. {m \in Done : m <= b.last} = {}
    <3>1. \A m \in Done : m \in Nat /\ m # 0
      BY <1>2
    <3>2. \A m \in Done : ~ (m <= b.last)
      BY <1>4, <3>1
    <3>3. QED
      BY <3>2
  <2>4. QED
    BY <1>1, <1>3, <1>4, <2>1, <2>2, <2>3 DEF b
<1>5. CASE b.last # 0
  <2>1. b.last \in Done /\ b.last <= b.last
    BY <1>1, <1>2, <1>5 DEF Pair
  <2>2. Reads(BackFrom(chains, b.first, b.last), Done, b.first, b.last)
    BY <1>2, <1>5, <2>1, ThreadReads
  <2>3. ReadBack(b) = BackFrom(chains, b.first, b.last)
    BY <1>3, <1>5
  <2>4. ReadBack(b)[1] = b.first /\ Range(ReadBack(b)) = {m \in Done : m <= b.last}
    BY <2>2, <2>3 DEF Reads
  <2>5. Recorded = b
    BY <1>1
  <2>6. QED
    BY <1>3, <1>5, <2>4, <2>5 DEF b
<1>6. QED
  BY <1>4, <1>5

LEMMA LogFollows ==
    (\A w \in Writers : TypeInv /\ ByHimself(w) /\ Held(w) /\ Linked(w) =>
       ReadBack(Recorded) = IF Book(w).last = 0 THEN <<>>
                            ELSE BackFrom(chains, Book(w).first, Book(w).last))'
<1>1. \A w \in Writers : TypeInv /\ ByHimself(w) /\ Held(w) /\ Linked(w) =>
        ReadBack(Recorded) = IF Book(w).last = 0 THEN <<>>
                             ELSE BackFrom(chains, Book(w).first, Book(w).last)
  BY LogIs
<1>2. QED
  BY <1>1, PTL

\* What one step does to what was sent and to what can be read back.
LEMMA KeptStep ==
    ASSUME TypeInv, TypeInv', IInv, NEW w \in Writers, Solo(w), Solo(w)', Undisturbed(w)
    PROVE  LET log == ReadBack(Recorded) IN
           \/ Done' = Done /\ log' = log
           \/ \E m \in Messages : /\ m \notin Done /\ Done = Range(log)
                                  /\ Done' = Done \cup {m} /\ log' = log
           \/ \E m \in Messages : /\ m \in Done \ Range(log)
                                  /\ log' = Append(log, m) /\ Done' = Done
<1> DEFINE log == ReadBack(Recorded)
           b == Book(w)
           m == run[w].msg
<1>1. ByHimself(w) /\ Enough(w) /\ Whole(w) /\ Held(w) /\ Linked(w)
  BY DEF Solo
<1>2. ByHimself(w)' /\ Enough(w)' /\ Whole(w)' /\ Held(w)' /\ Linked(w)'
  BY DEF Solo
<1>3. /\ log = IF b.last = 0 THEN <<>> ELSE BackFrom(chains, b.first, b.last)
      /\ Range(log) = {s \in Done : s <= b.last}
  BY <1>1, LogIs
<1>4. log' = IF b'.last = 0 THEN <<>> ELSE BackFrom(chains', b'.first, b'.last)
  BY <1>2, LogFollows
<1>5. Built \subseteq Messages /\ b \in Pair /\ Len(chains) \in Nat
  BY <1>1, OutputsAre, BookIs
<1>6. b.last # 0 => b.last \in Built
  BY <1>1 DEF Linked, Thread, Done
<1>7. (~ WriteState(w)) => b' = b
  BY <1>1, HeldStep
<1> HIDE DEF log, b
<1>8. ASSUME ~ WriteState(w), \A s \in Built : chains'[s] = chains[s] PROVE log' = log
  <2>1. CASE b.last = 0
    BY <1>3, <1>4, <1>7, <1>8, <2>1
  <2>2. CASE b.last # 0
    <3>1. b.last \in Nat \ {0} /\ \A s \in 1 .. b.last : s \in Built
      BY <1>5, <1>6, <2>2 DEF Built
    <3>2. \A s \in 1 .. b.last : chains'[s].ins = chains[s].ins
      BY <1>8, <3>1
    <3>3. BackFrom(chains', b.first, b.last) = BackFrom(chains, b.first, b.last)
      BY <3>1, <3>2, BackSame
    <3>4. QED
      BY <1>3, <1>4, <1>7, <1>8, <2>2, <3>3
  <2>3. QED
    BY <2>1, <2>2
<1>9. CASE WriteState(w)
  <2>1. /\ Done' = Done /\ chains' = chains /\ m \in Done /\ b.last < m /\ b'.last = m
        /\ b'.first = IF b.first = 0 THEN m ELSE b.first
        /\ b.last # 0 => chains[m].ins # <<>> /\ chains[m].ins[1] = b.last
    BY <1>1, <1>9, LinkedWrites DEF b
  <2>2. m \in Messages /\ m \in Nat \ {0} /\ b.last \in Nat /\ b.first \in Nat
    BY <1>5, <2>1 DEF Done, Built, Pair
  <2>3. m \notin Range(log)
    BY <1>3, <2>1, <2>2
  <2>4. log' = BackFrom(chains, b'.first, m)
    BY <1>4, <2>1, <2>2
  <2>5. CASE b.last = 0
    <3>1. b.first = 0
      BY <1>1, <2>5 DEF Linked, Thread, b
    <3>2. log' = <<m>>
      BY <2>1, <2>2, <2>4, <3>1, BackStep DEF Stops
    <3>3. log = <<>> /\ Append(<<>>, m) = <<m>>
      BY <1>3, <2>5
    <3>4. log' = Append(log, m)
      BY <3>2, <3>3
    <3>5. QED
      BY <2>1, <2>2, <2>3, <3>4 DEF log
  <2>6. CASE b.last # 0
    <3>1. b.first # 0 /\ b.first <= b.last
      BY <1>1, <2>6 DEF Linked, Thread, b
    <3>2. b'.first = b.first /\ m # b.first /\ b.last \in 1 .. m - 1
      BY <2>1, <2>2, <2>6, <3>1
    <3>3. ~ Stops(chains, b.first, m)
      BY <2>1, <2>6, <3>2 DEF Stops
    <3>4. BackFrom(chains, b.first, m) = Append(BackFrom(chains, b.first, b.last), m)
      BY <2>1, <2>2, <2>6, <3>3, BackStep
    <3>5. log' = Append(log, m)
      BY <1>3, <2>4, <2>6, <3>2, <3>4
    <3>6. QED
      BY <2>1, <2>2, <2>3, <3>5 DEF log
  <2>7. QED
    BY <2>5, <2>6
<1>10. CASE Send(w)
  <2>1. ~ WriteState(w) /\ UNCHANGED chains /\ pc[w] = "send"
    BY <1>10 DEF Send, WriteState
  <2>2. log' = log /\ b' = b
    BY <1>7, <1>8, <2>1
  <2>3. Done' \in {Done, Done \cup {m}} /\ m \notin Done
    BY <1>1, <1>10, <2>2, LinkedSends DEF b
  <2>4. m \in Messages
    BY <1>5, <2>1 DEF IInv, Running
  <2>5. Done = Range(log)
    <3>1. \A s \in Done : s <= b.last
      BY <1>1, <2>3 DEF Linked, b
    <3>2. QED
      BY <1>3, <3>1
  <2>6. QED
    BY <2>2, <2>3, <2>4, <2>5 DEF log
<1>11. CASE ListUnspent(w)
  <2>1. ~ WriteState(w)
    BY <1>11 DEF ListUnspent, WriteState
  <2>2. b' = b
    BY <1>7, <2>1
  <2>3. Done' = Done /\ \A s \in Built : chains'[s] = chains[s]
    BY <1>1, <1>11, <2>2, LinkedChooses DEF b
  <2>4. log' = log
    BY <1>8, <2>1, <2>3
  <2>5. QED
    BY <2>3, <2>4 DEF log
<1>12. CASE ~ WriteState(w) /\ ~ Send(w) /\ ~ ListUnspent(w)
  <2>1. UNCHANGED <<chains, accepted>>
    BY <1>12 DEF Undisturbed, Run, Load, GetBalance, WalletPassphrase, Authorize, WalletLock, Sent,
       UpdateChainstate, ReadState, OpenOutput, LockTimeout, Mine, network
  <2>2. Done' = Done
    BY <2>1 DEF Done, Complete, Built
  <2>3. log' = log
    BY <1>8, <1>12, <2>1
  <2>4. QED
    BY <2>2, <2>3 DEF log
<1>13. QED
  BY <1>9, <1>10, <1>11, <1>12

ArchiveInv == TypeInv /\ IInv /\ (part = "alone" => Solo(p1))

LEMMA ArchiveStep ==
    ASSUME ArchiveInv, [ArchiveNext]_<<part, sessions, reading>> PROVE ArchiveInv'
<1>1. TypeInv /\ IInv /\ (part = "alone" => Solo(p1)) /\ p1 \in Writers
  BY ArchiveAssumption DEF ArchiveInv
<1>2. CASE part = "alone" /\ Undisturbed(p1) /\ UNCHANGED <<part, reading>>
  <2>1. Next
    BY <1>1, <1>2, UndisturbedNext
  <2>2. TypeInv' /\ IInv' /\ Solo(p1)'
    BY <1>1, <1>2, <2>1, TypeStep, InvarianceStep, AloneStep
  <2>3. QED
    BY <2>2 DEF ArchiveInv
<1>3. CASE part = "together" /\ Next /\ UNCHANGED <<part, reading>>
  <2>1. TypeInv' /\ IInv' /\ part' # "alone"
    BY <1>1, <1>3, TypeStep, InvarianceStep
  <2>2. QED
    BY <2>1 DEF ArchiveInv
<1>4. CASE UNCHANGED <<part, sessions>>
  <2>1. UNCHANGED vars
    BY <1>4 DEF sessions
  <2>2. TypeInv' /\ IInv'
    BY <1>1, <2>1, TypeStep, InvarianceStep
  <2>3. Solo(p1)' = Solo(p1)
    <3>1. /\ UNCHANGED network /\ UNCHANGED <<pc, run, file, chains, accepted, taken>>
      BY <2>1 DEF vars, network
    <3>2. /\ Built' = Built /\ Listed' = Listed /\ Values' = Values
          /\ Confirmed' = Confirmed /\ BudgetCovers' = BudgetCovers
          /\ \A m : Complete(m)' = Complete(m)
          /\ \A c : Spent(c)' = Spent(c)
      BY <3>1, SameNetwork
    <3>3. Done' = Done /\ Book(p1)' = Book(p1)
      BY <3>1, <3>2 DEF Done, Book
    <3>4. ByHimself(p1)' = ByHimself(p1) /\ Enough(p1)' = Enough(p1)
      BY <3>1, <3>2 DEF ByHimself, Enough
    <3>5. Whole(p1)' = Whole(p1)
      BY <3>1, <3>2 DEF Whole
    <3>6. Held(p1)' = Held(p1) /\ Linked(p1)' = Linked(p1)
      BY <3>1, <3>2, <3>3 DEF Held, Linked
    <3>7. QED
      BY <3>4, <3>5, <3>6 DEF Solo
  <2>4. QED
    BY <1>1, <1>4, <2>2, <2>3 DEF ArchiveInv
<1>5. QED
  BY <1>2, <1>3, <1>4 DEF ArchiveNext

LEMMA ArchiveHolds == ArchiveSpec => []ArchiveInv
<1>1. ArchiveInit => ArchiveInv
  BY TypeInvInit, InvarianceInit, SoloInit, HeldInit, ArchiveAssumption
  DEF ArchiveInit, ArchiveInv, Solo
<1>2. ArchiveInv /\ [ArchiveNext]_<<part, sessions, reading>> => ArchiveInv'
  BY ArchiveStep
<1>3. QED
  BY <1>1, <1>2, PTL DEF ArchiveSpec

--------------------------------------------------------------------------------
(* Two who update bms.conf. *)

\* Unless it has been overtaken, a program that runs finds in bms.conf what it was started
\* with, or nothing while another one has it open; its own message is later than that.
Ahead(p) ==
    /\ pc[p] \in Asking \cup Building => file \in {run[p].cfg, Truncated}
    /\ pc[p] \in Building => run[p].cfg.last < run[p].msg
    /\ pc[p] = "open" => file \in {run[p].str, Truncated}
    /\ pc[p] = "write" => file = Truncated
    /\ pc[p] \in {"open", "write"} => /\ run[p].str.first \in {0, run[p].cfg.first}
                                      /\ run[p].str.last < run[p].cfg.last

AllAhead == \A p \in Writers \ overtaken : Ahead(p)

\* A step of another process: it leaves this one alone.
LEMMA OthersWait ==
    ASSUME IInv, [Next]_vars, NEW p \in Writers,
           ~ \E n \in ChainLengths : Load(p, n),
           ~ Run(p), ~ CallFails(p), ~ AnswerLost(p), ~ Crash(p)
    PROVE  pc'[p] = pc[p] /\ run'[p] = run[p]
<1>1. pc \in [Writers -> Labels] /\ run \in [Writers -> Process]
  BY DEF IInv
<1>2. CASE \/ LockTimeout \/ UNCHANGED vars
           \/ \E m \in Messages : Mine(m)
           \/ \E c \in Coins \cup Messages : SpendElsewhere(c)
  BY <1>2 DEF LockTimeout, vars, Mine, SpendElsewhere
<1>3. ASSUME NEW q \in Writers, q # p,
             \/ \E label : pc' = [pc EXCEPT ![q] = label]
             \/ UNCHANGED pc,
             \/ \E new : run' = [run EXCEPT ![q] = new]
             \/ UNCHANGED run
      PROVE  pc'[p] = pc[p] /\ run'[p] = run[p]
  BY <1>1, <1>3
<1>4. ASSUME NEW q \in Writers, q # p,
             \/ \E n \in ChainLengths : Load(q, n)
             \/ GetBalance(q) \/ ListUnspent(q) \/ WalletPassphrase(q) \/ Authorize(q)
             \/ WalletLock(q)
      PROVE  pc'[p] = pc[p] /\ run'[p] = run[p]
  BY <1>1, <1>4, <1>3 DEF Load, GetBalance, ListUnspent, WalletPassphrase, Authorize, WalletLock,
     Goto, Exit
<1>5. ASSUME NEW q \in Writers, q # p,
             \/ Send(q) \/ Sent(q) \/ UpdateChainstate(q) \/ OpenOutput(q) \/ WriteState(q)
             \/ CallFails(q) \/ AnswerLost(q) \/ Crash(q)
      PROVE  pc'[p] = pc[p] /\ run'[p] = run[p]
  BY <1>1, <1>5, <1>3 DEF Send, Sent, UpdateChainstate, ReadState, OpenOutput, WriteState,
     CallFails, AnswerLost, Crash, Goto, Exit
<1>. QED
  BY <1>2, <1>4, <1>5 DEF Next, Run, Environment

\* A step that only moves the process on, or changes what others have.
LEMMA AheadMoves ==
    ASSUME NEW p \in Writers, Ahead(p), file' \in {file, Truncated},
           run'[p].cfg = run[p].cfg, run'[p].msg = run[p].msg, run'[p].str = run[p].str,
           \/ pc'[p] = pc[p]
           \/ pc'[p] = "unspent" /\ pc[p] = "balance"
           \/ pc'[p] \in Building /\ pc[p] \in Building
           \/ pc'[p] = "write" /\ pc[p] = "open" /\ file' = Truncated
           \/ pc'[p] = "idle"
    PROVE  Ahead(p)'
  BY DEF Ahead, Asking, Building

\* The process that was not overtaken by this step either.
LEMMA AheadStep ==
    ASSUME IInv, [Next]_vars, NEW p \in Writers, Ahead(p) \/ pc[p] = "idle",
           file' \in {file, Truncated}
    PROVE  Ahead(p)'
<1>1. /\ pc \in [Writers -> Labels] /\ run \in [Writers -> Process]
      /\ pc[p] = "idle" => Ahead(p)
  BY DEF IInv, Ahead, Asking, Building
<1>2. CASE pc'[p] = "idle"
  BY <1>2 DEF Ahead, Asking, Building
<1>3. ASSUME NEW n \in ChainLengths, Load(p, n) PROVE Ahead(p)'
  <2>1. file' = file /\ run'[p].cfg = file /\ pc'[p] = "balance"
    BY <1>1, <1>3 DEF Load, Goto, Process
  <2>2. QED
    BY <2>1 DEF Ahead, Asking, Building
<1>4. CASE GetBalance(p) \/ Authorize(p)
  <2>1. CASE Exit(p)
    BY <1>1, <1>2, <2>1 DEF Exit, Goto
  <2>2. CASE ~ Exit(p)
    BY <1>1, <1>4, <2>2, AheadMoves DEF GetBalance, Authorize, Goto, Asking, Building
  <2>3. QED
    BY <2>1, <2>2
<1>5. CASE ListUnspent(p)
  <2>1. /\ file' = file /\ run'[p].cfg = run[p].cfg /\ run'[p].msg = Len(chains) + 1
        /\ pc'[p] = "unlock" /\ pc[p] = "unspent"
    BY <1>1, <1>5 DEF ListUnspent, Goto, Process
  <2>2. file \in {run[p].cfg, Truncated}
    BY <1>1, <2>1 DEF Ahead, Asking
  <2>3. run[p].cfg.last \in Nat /\ (run[p].cfg.last = 0 \/ run[p].cfg.last \in Built)
    BY <1>1 DEF IInv, Running, Good, Process, Pair
  <2>4. Len(chains) \in Nat
    BY DEF IInv, Known
  <2>5. run[p].cfg.last < Len(chains) + 1
    BY <2>3, <2>4 DEF Built
  <2>6. QED
    BY <2>1, <2>2, <2>5 DEF Ahead, Asking, Building
<1>6. CASE WalletPassphrase(p) \/ Sent(p) \/ OpenOutput(p)
  <2>1. UNCHANGED run
    BY <1>6 DEF WalletPassphrase, Sent, OpenOutput
  <2>2. \/ pc'[p] \in Building /\ pc[p] \in Building
        \/ pc'[p] = "write" /\ pc[p] = "open" /\ file' = Truncated
    BY <1>1, <1>6 DEF WalletPassphrase, Sent, OpenOutput, Goto, Building
  <2>3. Ahead(p)
    BY <1>1
  <2>4. QED
    BY <2>1, <2>2, <2>3, AheadMoves
<1>7. CASE WalletLock(p) \/ Send(p)
  <2>1. CASE Exit(p)
    BY <1>1, <1>2, <2>1 DEF Exit, Goto
  <2>2. CASE ~ Exit(p)
    <3>1. PICK k : run' = [run EXCEPT ![p].k = k]
      BY <1>7, <2>2 DEF WalletLock, Send
    <3>2. pc[p] \in Building /\ pc'[p] \in Building
      BY <1>1, <1>7, <2>2 DEF WalletLock, Send, Goto, Building
    <3>3. /\ run'[p].cfg = run[p].cfg /\ run'[p].msg = run[p].msg /\ run'[p].str = run[p].str
      BY <1>1, <3>1 DEF Process
    <3>4. QED
      BY <1>1, <3>2, <3>3, AheadMoves
  <2>3. QED
    BY <2>1, <2>2
<1>8. CASE UpdateChainstate(p)
  <2>. DEFINE m == run[p].msg
              cfg == [first |-> IF run[p].cfg.first = 0 THEN m ELSE run[p].cfg.first,
                      last |-> m]
  <2>1. CASE Exit(p)
    BY <1>1, <1>2, <2>1 DEF Exit, Goto
  <2>2. CASE ReadState(p, cfg)
    <3>1. /\ pc[p] = "update" /\ pc'[p] = "open" /\ run'[p].cfg = cfg /\ run'[p].str = file
          /\ file' = file /\ file # Truncated
      BY <1>1, <2>2 DEF ReadState, Goto, Process
    <3>2. file = run[p].cfg /\ run[p].cfg.last < m /\ run[p].cfg \in Pair
      BY <1>1, <3>1 DEF Ahead, Building, Process
    <3>3. QED
      BY <3>1, <3>2 DEF Ahead, Asking, Building, Pair
  <2>3. QED
    BY <1>8, <2>1, <2>2 DEF UpdateChainstate
<1>9. CASE WriteState(p) \/ CallFails(p) \/ AnswerLost(p) \/ Crash(p)
  BY <1>1, <1>2, <1>9 DEF WriteState, CallFails, AnswerLost, Crash, Exit, Goto
<1>10. CASE pc'[p] = pc[p] /\ run'[p] = run[p]
  BY <1>1, <1>10, AheadMoves
<1>11. QED
  BY <1>3, <1>4, <1>5, <1>6, <1>7, <1>8, <1>9, <1>10, OthersWait DEF Run

LEMMA AllAheadStep ==
    ASSUME IInv, AllAhead, [Next]_vars, Overtakes \/ (UNCHANGED vars /\ UNCHANGED overtaken)
    PROVE  AllAhead'
<1>. SUFFICES ASSUME NEW p \in Writers, p \notin overtaken' PROVE Ahead(p)'
  BY DEF AllAhead
<1>1. CASE pc'[p] = "idle"
  BY <1>1 DEF Ahead, Asking, Building
<1>2. CASE pc'[p] # "idle" /\ Overtakes
  <2>1. p \notin overtaken /\ file' \in {file, Truncated}
    BY <1>2 DEF Overtakes
  <2>. QED
    BY <2>1, AheadStep DEF AllAhead
<1>3. CASE UNCHANGED vars /\ UNCHANGED overtaken
  <2>1. p \notin overtaken /\ file' = file
    BY <1>3 DEF vars
  <2>. QED
    BY <2>1, AheadStep DEF AllAhead
<1>. QED
  BY <1>1, <1>2, <1>3

\* Any number of programs may run, fail and die: what one of them writes to bms.conf carries
\* on the state that it overwrites, unless another one has written since it was started.  So
\* the only way to lose a message from the file is to let two runs overlap, which nothing in
\* the code prevents (main, UpdateChainstate, SerializeState).
THEOREM UpdatesAdvance == ArchiveSpec => []StateAdvances
<1>1. ArchiveInit => AllAhead
  BY DEF ArchiveInit, Init, AllAhead, Ahead, Asking, Building
<1>2. ArchiveInv /\ AllAhead /\ [ArchiveNext]_<<part, sessions, reading>> => AllAhead'
  <2>. SUFFICES ASSUME ArchiveInv, AllAhead, [ArchiveNext]_<<part, sessions, reading>>
                PROVE  AllAhead'
    OBVIOUS
  <2>1. IInv /\ p1 \in Writers
    BY ArchiveAssumption DEF ArchiveInv
  <2>2. CASE part = "alone" /\ Undisturbed(p1) /\ Overtakes
    BY <2>1, <2>2, UndisturbedNext, AllAheadStep
  <2>3. CASE part = "together" /\ Next /\ Overtakes
    BY <2>1, <2>3, AllAheadStep
  <2>4. CASE UNCHANGED sessions
    BY <2>1, <2>4, AllAheadStep DEF sessions
  <2>. QED
    BY <2>2, <2>3, <2>4 DEF ArchiveNext
<1>3. AllAhead => StateAdvances
  BY DEF AllAhead, Ahead, StateAdvances
<1>. QED
  BY <1>1, <1>2, <1>3, ArchiveHolds, PTL DEF ArchiveSpec

--------------------------------------------------------------------------------
(* The archive of one user who waits. *)

\* Whoever waits for confirmations, is answered and has the wallet to himself leaves no
\* message half sent, whatever his coins are and however long his messages: the balance
\* he was told is all listed, what SelectInputs picks from it covers the fees of the whole
\* chain, and so the daemon takes every transaction of it (SelectInputs, MinimumBudget,
\* SendTransactions).
THEOREM SentToTheEnd == ArchiveSpec => []NothingStrandedAlone
<1>1. ArchiveInv => NothingStrandedAlone
  <2>1. SUFFICES ASSUME ArchiveInv, part = "alone", NEW m \in Built, accepted[m] > 0
                 PROVE  \/ Complete(m)
                        \/ \E p \in Writers : pc[p] = "send" /\ run[p].msg = m
    BY DEF NothingStrandedAlone, NothingStranded
  <2>2. Whole(p1) /\ p1 \in Writers /\ accepted[m] \in Nat
    BY <2>1, ArchiveAssumption DEF ArchiveInv, Solo, TypeInv, TypeOK
  <2>3. QED
    BY <2>1, <2>2 DEF Whole
<1>2. QED
  BY <1>1, ArchiveHolds, PTL

\* His archive can be read from State.LastTx to State.FirstTx, whichever outputs were
\* selected for his messages: each spends the output of the one before it first
\* (SelectInputs, SerializeState, ReadTransactions).
THEOREM ReadToTheFirst == ArchiveSpec => []SessionsReadable
<1>1. ArchiveInv => SessionsReadable
  <2>1. SUFFICES ASSUME ArchiveInv, part = "alone" PROVE ChainReadable
    BY DEF SessionsReadable, ArchiveInv, TypeInv
  <2>2. TypeInv /\ p1 \in Writers /\ ByHimself(p1) /\ Held(p1) /\ Linked(p1)
    BY <2>1, ArchiveAssumption DEF ArchiveInv, Solo
  <2>3. Recorded = Book(p1)
    BY <2>2, RecordedIs
  <2>4. Book(p1).last # 0 => ReadBack(Recorded)[1] = Book(p1).first
    BY <2>2, LogIs
  <2>5. QED
    BY <2>3, <2>4 DEF ChainReadable
<1>2. QED
  BY <1>1, ArchiveHolds, PTL

\* What he sends, and what can be read back of it, go on as Archive says, step by step:
\* a message is sent when every earlier one can be read back, joins the log at its end,
\* and nothing ever leaves the log (main, mode W).
THEOREM KeepsEveryMessage ==
    ArchiveSpec => Kept!Init /\ [][Kept!Next]_<<SentAlone, LogAlone>>
<1>1. ArchiveInit => Kept!Init
  <2>1. SUFFICES ASSUME ArchiveInit PROVE SentAlone = {} /\ LogAlone = <<>>
    BY DEF Kept!Init
  <2>2. Init /\ p1 \in Writers
    BY <2>1, ArchiveAssumption DEF ArchiveInit
  <2>3. Built = {} /\ file = NoState
    BY <2>2 DEF Init, Built
  <2>4. Recorded = NoState
    BY <2>3 DEF Recorded, NoState, Truncated
  <2>5. ReadBack(Recorded) = <<>>
    BY <2>4 DEF ReadBack, NoState
  <2>6. QED
    BY <2>3, <2>5 DEF SentAlone, LogAlone
<1>2. ArchiveInv /\ ArchiveInv' /\ [ArchiveNext]_<<part, sessions, reading>>
      => [Kept!Next]_<<SentAlone, LogAlone>>
  <2>1. SUFFICES ASSUME ArchiveInv, ArchiveInv', [ArchiveNext]_<<part, sessions, reading>>
                 PROVE  [Kept!Next]_<<SentAlone, LogAlone>>
    OBVIOUS
  <2>2. SentAlone = IF part = "alone" THEN Done ELSE {}
    BY DEF SentAlone, Done
  <2>3. CASE part = "alone" /\ Undisturbed(p1) /\ UNCHANGED <<part, reading>>
    <3>1. TypeInv /\ TypeInv' /\ IInv /\ p1 \in Writers /\ Solo(p1) /\ Solo(p1)'
      BY <2>1, <2>3, ArchiveAssumption DEF ArchiveInv
    <3>2. /\ SentAlone = Done /\ SentAlone' = Done'
          /\ LogAlone = ReadBack(Recorded) /\ LogAlone' = ReadBack(Recorded)'
      BY <2>3 DEF SentAlone, LogAlone, Done
    <3>3. \/ SentAlone' = SentAlone /\ LogAlone' = LogAlone
          \/ \E m \in Messages : /\ m \notin SentAlone /\ SentAlone = Range(LogAlone)
                                 /\ SentAlone' = SentAlone \cup {m} /\ LogAlone' = LogAlone
          \/ \E m \in Messages : /\ m \in SentAlone \ Range(LogAlone)
                                 /\ LogAlone' = Append(LogAlone, m) /\ SentAlone' = SentAlone
      BY <2>3, <3>1, <3>2, KeptStep
    <3>4. QED
      BY <3>3 DEF Kept!Next, Kept!Publish, Kept!Record, Kept!Range, Range
  <2>4. CASE part = "together" /\ UNCHANGED part
    BY <2>4 DEF SentAlone, LogAlone
  <2>5. CASE UNCHANGED <<part, sessions>>
    <3>1. UNCHANGED <<part, pc, run, file, chains, accepted>>
      BY <2>5 DEF sessions, vars, network
    <3>2. SentAlone' = SentAlone
      BY <3>1 DEF SentAlone, Built, Complete
    <3>3. LogAlone' = LogAlone
      BY <3>1 DEF LogAlone, ReadBack, Recorded, Built
    <3>4. QED
      BY <3>2, <3>3
  <2>6. QED
    BY <2>1, <2>3, <2>4, <2>5 DEF ArchiveNext
<1>3. QED
  BY <1>1, <1>2, ArchiveHolds, PTL DEF ArchiveSpec

--------------------------------------------------------------------------------
(* What is read.  The readers of the archive are those of ReaderProofs.      *)

Readers == INSTANCE ReaderProofs WITH Messages <- MixedShapes, pc <- at, chains <- returned

LEMMA ReadsAssumption == Readers!ReaderAssumption
BY ArchiveAssumption DEF Readers!ReaderAssumption, Reader!ReaderAssumption

LEMMA ReadsInit == ArchiveInit => Readers!Init
BY DEF ArchiveInit, Readers!Init, Reader!Init

LEMMA ReadsNext == [ArchiveNext]_<<part, sessions, reading>> => [Readers!Next]_(Readers!vars)
<1>1. SUFFICES ASSUME ArchiveNext \/ UNCHANGED reading PROVE Readers!Next \/ UNCHANGED Readers!vars
  OBVIOUS
<1>2. CASE UNCHANGED reading
  BY <1>2 DEF reading, Readers!vars, Readers!reader
<1>3. CASE Reader!Next
  <2>1. Reader!Next <=> Readers!Next
    BY DEF Reader!Next, Readers!Next, Reader!Broadcast, Readers!Broadcast, Reader!Mine, Readers!Mine,
           Reader!StartBackward, Readers!StartBackward, Reader!StartForward, Readers!StartForward,
           Reader!Read, Readers!Read, Reader!StepBack, Readers!StepBack,
           Reader!ReverseChain, Readers!ReverseChain, Reader!GetBlock, Readers!GetBlock,
           Reader!Found, Readers!Found, Reader!NotFound, Readers!NotFound,
           Reader!NextBlock, Readers!NextBlock, Reader!Collected, Readers!Collected,
           Reader!Return, Readers!Return, Reader!Fail, Readers!Fail,
           Reader!Running, Readers!Running, Reader!Known, Readers!Known, Reader!Prev, Readers!Prev,
           Reader!Mined, Readers!Mined, Reader!Total, Readers!Total, Reader!Kinds, Readers!Kinds,
           Reader!FlattenSeq, Readers!FlattenSeq, Reader!Range, Readers!Range,
           Reader!Reverse, Readers!Reverse, Reader!RemoveAt, Readers!RemoveAt,
           Reader!Cardinality, Readers!Cardinality,
           Reader!Numbers, Readers!Numbers, Reader!blockhash, Readers!blockhash,
           Reader!nextblockhash, Readers!nextblockhash, Reader!Split, Readers!Split,
           Reader!OneOutput, Readers!OneOutput, Reader!OneAddress, Readers!OneAddress,
           Reader!reader, Readers!reader
  <2>2. QED
    BY <1>3, <2>1
<1>4. QED
  BY <1>1, <1>2, <1>3 DEF ArchiveNext

LEMMA ReadsInvariant == ArchiveSpec => []Readers!ReaderInv
<1>1. ArchiveInit => Readers!ReaderInv
  BY ReadsAssumption, ReadsInit, Readers!ReaderInit
<1>2. Readers!ReaderInv /\ [ArchiveNext]_<<part, sessions, reading>> => Readers!ReaderInv'
  BY ReadsAssumption, ReadsNext, Readers!ReaderStep
<1>3. QED
  BY <1>1, <1>2, PTL DEF ArchiveSpec

\* Whatever is sent and found meanwhile, each message between the two that the user names comes
\* back whole and in order, and nothing comes back forward before its blocks are there.
THEOREM ReadsEveryMessage == ArchiveSpec => []ReadsHold
<1>1. Readers!ReaderInv => ReadsHold
  <2>1. SUFFICES ASSUME Readers!ReaderInv
                 PROVE  Reader!TypeOK /\ Reader!BackwardReads /\ Reader!ForwardNeedsBlocks
    BY DEF ReadsHold
  <2>2. Readers!TypeOK /\ Readers!BackwardReads /\ Readers!ForwardNeedsBlocks
    BY <2>1, ReadsAssumption, Readers!BackwardHolds, Readers!ForwardHolds DEF Readers!ReaderInv
  <2>3. Reader!TypeOK
    BY <2>2 DEF Readers!TypeOK, Reader!TypeOK, Readers!Total, Reader!Total, Readers!Kinds, Reader!Kinds,
                Readers!FlattenSeq, Reader!FlattenSeq
  <2>4. Reader!BackwardReads
    BY <2>2 DEF Readers!BackwardReads, Reader!BackwardReads, Readers!Start, Reader!Start,
                Readers!Close, Reader!Close, Readers!Transactions, Reader!Transactions,
                Readers!Numbers, Reader!Numbers,
                Readers!FlattenSeq, Reader!FlattenSeq
  <2>5. Reader!ForwardNeedsBlocks
    BY <2>2 DEF Readers!ForwardNeedsBlocks, Reader!ForwardNeedsBlocks,
                Readers!blockhash, Reader!blockhash, Readers!Range, Reader!Range, Readers!Mined, Reader!Mined,
                Readers!Total, Reader!Total, Readers!Kinds, Reader!Kinds,
                Readers!FlattenSeq, Reader!FlattenSeq
  <2>6. QED
    BY <2>3, <2>4, <2>5
<1>2. QED
  BY <1>1, ReadsInvariant, PTL

\* Forward, everything of the chain in these blocks is collected, nothing twice, and nothing of
\* other people's, though the scan never goes back to the first transaction.
THEOREM CollectsEveryTransaction == ArchiveSpec => []ForwardCollectsAll
<1>1. Readers!ReaderInv => ForwardCollectsAll
  <2>1. SUFFICES ASSUME Readers!ReaderInv PROVE Reader!ForwardCollects
    BY DEF ForwardCollectsAll
  <2>2. Readers!ForwardCollects
    BY <2>1, ReadsAssumption, Readers!ForwardHolds
  <2>3. QED
    BY <2>2 DEF Readers!ForwardCollects, Reader!ForwardCollects, Readers!Numbers, Reader!Numbers,
                Readers!blockhash, Reader!blockhash, Readers!Range, Reader!Range, Readers!Mined, Reader!Mined,
                Readers!Total, Reader!Total, Readers!Kinds, Reader!Kinds,
                Readers!FlattenSeq, Reader!FlattenSeq
<1>2. QED
  BY <1>1, ReadsInvariant, PTL
================================================================================
