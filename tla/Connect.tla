-------------------------------- MODULE Connect --------------------------------
(***************************************************************************)
(* How netbase.cpp makes a connection: a destination is resolved, by a     *)
(* server of names or not at all, and connected to directly or through a   *)
(* SOCKS proxy, while another thread may change the proxies.  The network, *)
(* the proxy and whoever else is at the other end are external: bytes come *)
(* in pieces, and the other end may stop at any time.                      *)
(***************************************************************************)
EXTENDS Integers, Sequences, FiniteSets, SequencesExt

CONSTANTS
    fNameLookup,    \* whether names may be looked up
    Destinations,   \* [kind : {"numeric", "name"}, net]: what is given, and what it resolves to
    Names           \* lengths of the names that a proxy may tell that it is bound to

Networks == {"unroutable", "ipv4", "ipv6", "tor"}

ConnectAssumption ==
    /\ fNameLookup \in BOOLEAN
    /\ Destinations \subseteq [kind : {"numeric", "name"}, net : Networks \cup {"none"}]
    /\ Names \subseteq 0 .. 255

VARIABLES
    proxyInfo,      \* the version of the proxy of each network, 0 if there is none
    nameproxyInfo,  \* that of the proxy for names
    changed,        \* whether they have been changed since the call
    stage,          \* how far the call is
    ret,            \* what it returned
    dest,           \* its destination
    version,        \* of the proxy that it goes through, 0 for none
    byName,         \* whether that is told the name, rather than an address
    length,         \* of the name that is being read
    open,           \* whether its socket is open
    asked,          \* whether a server of names was asked, and what was sent to the proxy
    cut             \* whether a part of an answer was taken for the whole

VARIABLES
    wire, arrived,  \* bytes that are on their way, and that can be read
    closed,         \* whether the other end has gone
    answered,       \* how many messages the proxy has answered
    granted         \* whether it has made the connection that was asked for

call == <<stage, ret, dest, version, byName, length, open, asked, cut>>
peer == <<wire, arrived, closed, answered, granted>>
proxies == <<proxyInfo, nameproxyInfo, changed>>

Nowhere == [kind |-> "none", net |-> "none"]

ConnectInit ==
    /\ proxyInfo \in [Networks -> {0, 4, 5}]
    /\ \A m, n \in Networks \ {"ipv4"} : proxyInfo[m] = proxyInfo[n]
    /\ nameproxyInfo \in {0, 5} /\ changed = FALSE
    /\ stage = "idle" /\ ret = "none" /\ dest = Nowhere /\ version = 0 /\ byName = FALSE
    /\ length = 0 /\ open = FALSE /\ asked = [dns |-> FALSE, proxy |-> 0] /\ cut = FALSE
    /\ wire = <<>> /\ arrived = <<>> /\ closed = FALSE /\ answered = 0 /\ granted = FALSE

--------------------------------------------------------------------------------
(* SetProxy and SetNameProxy, by another thread. *)

SetProxy(net, nSocksVersion) ==
    /\ proxyInfo' = [proxyInfo EXCEPT ![net] = nSocksVersion]
    /\ UNCHANGED <<nameproxyInfo, call, peer>>
SetNameProxy(nSocksVersion) ==
    /\ nSocksVersion \in {0, 5}
    /\ nameproxyInfo' = nSocksVersion
    /\ UNCHANGED <<proxyInfo, call, peer>>
Settings ==
    /\ stage \in {"resolve", "proxy"} /\ ret = "none"     \* later it matters to the next call
    /\ changed' = TRUE
    /\ \E v \in {0, 4, 5} : SetNameProxy(v) \/ \E net \in {"ipv4", "tor"} : SetProxy(net, v)

--------------------------------------------------------------------------------
(* The call, a step for what may block or fail. *)

Same == UNCHANGED <<proxies, peer>>
At(s) == stage = s /\ ret = "none"
Goes(s) == stage' = s /\ UNCHANGED ret
Returns(value) == ret' = value /\ UNCHANGED stage
\* A slip: the socket is closed only if it was ready.
FailsOpen == Returns("false") /\ open' = (stage = "connect")
Fails == Returns("false") /\ open' = FALSE

\* ConnectSocketByName: the proxy for names is copied, and what is said of it later does
\* not matter.
ConnectSocketByName(d) ==
    /\ At("idle")
    /\ dest' = d /\ version' = nameproxyInfo
    /\ Goes("resolve")
    /\ UNCHANGED <<byName, length, open, asked, cut>> /\ Same

MayLookup == fNameLookup /\ version = 0
\* What the destination is an address of: a name only if it may be looked up.
Resolves == dest.net # "none" /\ (dest.kind = "numeric" \/ MayLookup)
Resolve ==
    /\ At("resolve")
    /\ asked' = [asked EXCEPT !.dns = dest.kind = "name" /\ MayLookup]
    /\ CASE Resolves -> Goes("proxy") /\ UNCHANGED byName
         [] ~ Resolves /\ version = 0 -> Returns("false") /\ UNCHANGED byName
         [] ~ Resolves /\ version # 0 -> Goes("socket") /\ byName' = TRUE
    /\ UNCHANGED <<dest, version, length, open, cut>> /\ Same

\* ConnectSocket: the proxy of the destination's network.
ConnectSocket ==
    /\ At("proxy")
    /\ version' = proxyInfo[dest.net]
    /\ Goes("socket")
    /\ UNCHANGED <<dest, byName, length, open, asked, cut>> /\ Same

\* ConnectSocketDirectly, to the destination or to the proxy.
Socket ==
    /\ At("socket")
    /\ \/ Returns("false") /\ UNCHANGED open    \* no socket, or no network that is supported
       \/ (version # 0 \/ dest.net # "tor") /\ Goes("connect") /\ open' = TRUE
    /\ UNCHANGED <<dest, version, byName, length, asked, cut>> /\ Same
Connect ==
    /\ At("connect")
    /\ \/ (Goes("select") \/ Goes("connected")) /\ UNCHANGED open
       \/ Fails
    /\ UNCHANGED <<dest, version, byName, length, asked, cut>> /\ Same
\* Writable without an error, or a timeout, or a failure.
Select ==
    /\ At("select")
    /\ (Goes("connected") /\ UNCHANGED open) \/ Fails
    /\ UNCHANGED <<dest, version, byName, length, asked, cut>> /\ Same
Connected ==
    /\ At("connected")
    /\ \/ version = 0 /\ Returns("true") /\ UNCHANGED open
       \/ version = 4 /\ Goes("socks4") /\ UNCHANGED open
       \/ version = 5 /\ Goes("socks5") /\ UNCHANGED open
       \/ Fails                                          \* the socket does not block again
    /\ UNCHANGED <<dest, version, byName, length, asked, cut>> /\ Same

\* A message is sent, whole or not.
Send(s, next) ==
    /\ At(s)
    /\ \/ Goes(next) /\ asked' = [asked EXCEPT !.proxy = @ + 1] /\ UNCHANGED open
       \/ Fails /\ UNCHANGED asked
    /\ UNCHANGED <<dest, version, byName, length, cut>> /\ Same

\* recv: what there is, up to n bytes, or nothing when the other end has gone.  No more is
\* waited for.
Least(a, b) == IF a < b THEN a ELSE b
Here(n) == Least(n, Len(arrived))
\* A slip: all of it is waited for.
MayWhole(n) == Len(arrived) >= n \/ (closed /\ wire = <<>>)
May(n) == n = 0 \/ arrived # <<>> \/ (closed /\ wire = <<>>)
Taken(n) == SubSeq(arrived, 1, Here(n))
\* n bytes are read: the call goes on if they are as they should be, and fails otherwise.
Recv(s, n, ok, next) ==
    /\ At(s) /\ May(n)
    /\ arrived' = SubSeq(arrived, Here(n) + 1, Len(arrived))
    /\ cut' = (cut \/ (Here(n) < n /\ wire # <<>>))
    /\ IF Here(n) = n /\ ok
       THEN (IF next = "true" THEN Returns("true") ELSE Goes(next)) /\ UNCHANGED open
       ELSE Fails
    /\ UNCHANGED <<dest, version, byName, asked, wire, closed, answered, granted, proxies>>

\* Socks4 sends an address of IPv4 alone.
Socks4 ==
    \/ Send("socks4", "grant4") /\ dest.net = "ipv4"
    \/ /\ At("socks4") /\ dest.net # "ipv4" /\ Fails
       /\ UNCHANGED <<dest, version, byName, length, asked, cut>> /\ Same
    \/ Recv("grant4", 8, Taken(8)[2] = 90, "true") /\ UNCHANGED length

Socks5Method ==
    \/ Send("socks5", "method")
    \/ Recv("method", 2, Taken(2) = <<5, 0>>, "request") /\ UNCHANGED length
Socks5Request ==
    \/ Send("request", "reply")
    \/ /\ UNCHANGED length
       /\ At("reply")
       /\ LET read == Taken(4)
              next == CASE Len(read) < 4 -> "none"
                        [] Len(read) = 4 /\ read[4] = 1 -> "bound4"
                        [] Len(read) = 4 /\ read[4] = 3 -> "length"
                        [] Len(read) = 4 /\ read[4] = 4 -> "bound16"
                        [] OTHER -> "none"
          IN Recv("reply", 4, SubSeq(read, 1, 3) = <<5, 0, 0>> /\ next # "none", next)

\* The length of a name, as a char has it; when there is none, the call returns as it is.
SignedChar(n) == IF n >= 128 THEN n - 256 ELSE n
Length ==
    /\ At("length") /\ May(1)
    /\ IF arrived = <<>> THEN Returns("false") /\ UNCHANGED <<arrived, length>>
       ELSE Goes("bound") /\ length' = SignedChar(Head(arrived)) /\ arrived' = Tail(arrived)
    /\ UNCHANGED <<dest, version, byName, open, asked, cut, wire, closed, answered, granted, proxies>>
\* A length below zero is as long as can be, and nothing that is read is as long.
Bound ==
    /\ At("bound")
    /\ LET n == IF length < 0 THEN Len(arrived) + 1 ELSE length
       IN Recv("bound", n, length >= 0, "port")
    /\ UNCHANGED length
Socks5Reply ==
    \/ Length \/ Bound
    \/ Recv("bound4", 4, TRUE, "port") /\ UNCHANGED length
    \/ Recv("bound16", 16, TRUE, "port") /\ UNCHANGED length
    \/ Recv("port", 2, TRUE, "true") /\ UNCHANGED length

Steps ==
    \/ Resolve \/ ConnectSocket \/ Socket \/ Connect \/ Select \/ Connected
    \/ Socks4 \/ Socks5Method \/ Socks5Request \/ Socks5Reply

--------------------------------------------------------------------------------
(* The other end. *)

DataByte == -1      \* what a destination says, when it is connected to

Yes(n) == [bytes |-> n \o <<DataByte>>, granted |-> TRUE]
No(n) == [bytes |-> n, granted |-> FALSE]
Bytes(n) == [x \in 1 .. n |-> 0]
Answers ==
    CASE version = 4 -> {Yes(<<0, 90>> \o Bytes(6)), No(<<0, 91>> \o Bytes(6))}
      [] version = 5 /\ answered = 0 -> {No(<<5, 0>>), No(<<5, 255>>), No(<<4, 0>>)}
      [] version = 5 /\ answered = 1 ->
           {Yes(<<5, 0, 0, 1>> \o Bytes(6)), Yes(<<5, 0, 0, 4>> \o Bytes(18)),
            No(<<5, 1, 0, 1>> \o Bytes(6)), No(<<5, 0, 0, 2>>), No(<<5, 0, 1, 1>>), No(<<4, 0, 0, 1>>)}
             \cup {Yes(<<5, 0, 0, 3, n>> \o Bytes(IF n > 127 THEN 3 ELSE n + 2)) : n \in Names}
      [] OTHER -> {}

Answer ==
    /\ open /\ ~ closed /\ answered < asked.proxy
    /\ \E a \in Answers : wire' = wire \o a.bytes /\ granted' = a.granted
    /\ answered' = answered + 1
    /\ UNCHANGED <<arrived, closed, call, proxies>>
Deliver ==
    /\ ret = "none"
    /\ \E n \in 1 .. Len(wire) :
         arrived' = arrived \o SubSeq(wire, 1, n) /\ wire' = SubSeq(wire, n + 1, Len(wire))
    /\ UNCHANGED <<closed, answered, granted, call, proxies>>
\* The other end ends the connection, or it is lost with what was on its way.
Close ==
    /\ open /\ ret = "none" /\ ~ closed /\ asked.proxy > 0
    /\ closed' = TRUE
    /\ wire' \in {wire, <<>>}
    /\ UNCHANGED <<arrived, answered, granted, call, proxies>>

ConnectNext ==
    \/ \E d \in Destinations : ConnectSocketByName(d)
    \/ Steps \/ Settings \/ Answer \/ Deliver \/ Close

\* The program goes on where it can, and what is on its way arrives.
ConnectFairness == WF_<<call, peer, proxies>>(Steps) /\ WF_<<call, peer, proxies>>(Deliver)
ConnectSpec == ConnectInit /\ [][ConnectNext]_<<call, peer, proxies>> /\ ConnectFairness

--------------------------------------------------------------------------------
(* Properties. *)

\* A call that fails leaves no socket open, but for one place: when there is no length of a
\* name to be read (Socks5); one that succeeds has one.
SocketsClosed ==
    /\ ret = "false" => (open <=> stage = "length")
    /\ ret = "true" => open

\* A connection through a proxy is one that it granted, and the first byte to be read is
\* the destination's; a grant is lost only when the other end goes, when its answer comes
\* in pieces or when it has a name of more than 127 bytes (Socks4, Socks5).
GrantIsTaken ==
    /\ ret = "true" /\ version # 0 =>
         granted /\ (arrived \o wire = <<DataByte>> \/ (closed /\ arrived \o wire = <<>>))
    /\ ret = "false" /\ granted => closed \/ cut \/ length < 0

\* The name of a destination is told to a server of names or to a proxy, never to both,
\* and as long as all proxies stay, to none but the proxy (ConnectSocketByName).
NamesStay ==
    /\ ~ (asked.dns /\ byName)
    /\ ~ changed /\ nameproxyInfo # 0 => ~ asked.dns

\* All of these, of a connection that is made.
ConnectionsHold == SocketsClosed /\ GrantIsTaken /\ NamesStay

\* A call comes to an end, unless a proxy that has been asked says nothing more and stays:
\* that is waited for without a limit (recv, ConnectSocketDirectly).
Waits ==
    /\ stage \in {"grant4", "method", "reply", "length", "bound", "bound4", "bound16", "port"}
    /\ arrived = <<>> /\ wire = <<>> /\ ~ closed
CallEnds == <>[](stage = "idle" \/ ret # "none" \/ Waits)
================================================================================
