-------------------------------- MODULE Archive --------------------------------
(***************************************************************************)
(* What the program promises its user, whatever wallet, network and file   *)
(* do on the way: messages sent to the network go, one at a time, into a   *)
(* log that can be read back from its first message to its last.           *)
(***************************************************************************)
EXTENDS Sequences, Functions

CONSTANT Messages

VARIABLES
    sent,   \* messages the network has
    log     \* messages that can be read back, in order

Init == sent = {} /\ log = <<>>

\* A message reaches the network once every earlier one can be read back.
Publish(m) ==
    /\ m \notin sent
    /\ sent = Range(log)
    /\ sent' = sent \cup {m}
    /\ UNCHANGED log

\* It then joins the log, at its end; nothing ever leaves the log.
Record(m) ==
    /\ m \in sent \ Range(log)
    /\ log' = Append(log, m)
    /\ UNCHANGED sent

Next == \E m \in Messages : Publish(m) \/ Record(m)

Spec == /\ Init /\ [][Next]_<<sent, log>>
        /\ WF_<<sent, log>>(\E m \in Messages : Record(m))
================================================================================
