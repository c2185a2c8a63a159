-------------------------------- MODULE Address --------------------------------
(***************************************************************************)
(* The addresses of netbase.cpp: CNetAddr, sixteen bytes that may embed an *)
(* IPv4 address, CService, one with a port, and their texts.               *)
(***************************************************************************)
EXTENDS CoreText

CONSTANTS
    PortByte,       \* values of a byte of a port (256)
    IntWidth,       \* values of an int (2^32)
    Ports           \* ports of services

PortLimit == PortByte * PortByte

AddressAssumption ==
    /\ PortByte \in Nat /\ IntWidth \in Nat /\ IntWidth % 2 = 0 /\ PortLimit < IntWidth \div 2
    /\ Ports \subseteq 0 .. PortLimit - 1

Zeros(n) == [x \in 1 .. n |-> 0]
GetByte(ip, n) == ip[16 - n]
pchIPv4 == Zeros(10) \o <<255, 255>>
pchOnionCat == <<253, 135, 216, 126, 235, 67>>

IsIPv4(ip) == IsPrefix(pchIPv4, ip)
IsTor(ip) == IsPrefix(pchOnionCat, ip)
IsIPv6(ip) == ~ IsIPv4(ip) /\ ~ IsTor(ip)
High(byte, bits) == byte \div 2 ^ (8 - bits)        \* its first bits

IsRFC1918(ip) ==
    IsIPv4(ip) /\ \/ GetByte(ip, 3) = 10
                  \/ GetByte(ip, 3) = 192 /\ GetByte(ip, 2) = 168
                  \/ GetByte(ip, 3) = 172 /\ GetByte(ip, 2) \in 16 .. 31
IsRFC3927(ip) == IsIPv4(ip) /\ GetByte(ip, 3) = 169 /\ GetByte(ip, 2) = 254
IsRFC3849(ip) == IsPrefix(<<32, 1, 13, 184>>, ip)
IsRFC3964(ip) == IsPrefix(<<32, 2>>, ip)
IsRFC6052(ip) == IsPrefix(<<0, 100, 255, 155>> \o Zeros(8), ip)
IsRFC4380(ip) == IsPrefix(<<32, 1, 0, 0>>, ip)
IsRFC4862(ip) == IsPrefix(<<254, 128>> \o Zeros(6), ip)
IsRFC4193(ip) == High(GetByte(ip, 15), 7) = 126
IsRFC6145(ip) == IsPrefix(Zeros(8) \o <<255, 255, 0, 0>>, ip)
IsRFC4843(ip) == IsPrefix(<<32, 1, 0>>, ip) /\ High(GetByte(ip, 12), 4) = 1
IsLocal(ip) == (IsIPv4(ip) /\ GetByte(ip, 3) \in {0, 127}) \/ ip = Zeros(15) \o <<1>>

\* Neither one that was read three bytes too late, nor none, nor one of the documentation.
IsValid(ip) ==
    /\ ~ IsPrefix(SubSeq(pchIPv4, 4, 12), ip)
    /\ ip # Zeros(16)
    /\ ~ IsRFC3849(ip)
    /\ IsIPv4(ip) => SubSeq(ip, 13, 16) \notin {Zeros(4), <<255, 255, 255, 255>>}

IsRoutable(ip) ==
    /\ IsValid(ip)
    /\ ~ (IsRFC1918(ip) \/ IsRFC3927(ip) \/ IsRFC4862(ip) \/ IsRFC4843(ip) \/ IsLocal(ip))
    /\ IsRFC4193(ip) => IsTor(ip)

NET_UNROUTABLE == 0
NET_IPV4 == 1
NET_IPV6 == 2
NET_TOR == 3
NET_UNKNOWN == 4
NET_TEREDO == 5
GetNetwork(ip) ==
    CASE ~ IsRoutable(ip) -> NET_UNROUTABLE
      [] IsRoutable(ip) /\ IsIPv4(ip) -> NET_IPV4
      [] IsRoutable(ip) /\ IsTor(ip) -> NET_TOR
      [] OTHER -> NET_IPV6

\* The first bits of an address from a byte on, the rest of the last byte filled with ones.
Bits(ip, start, n) ==
    SubSeq(ip, start + 1, start + (n \div 8))
      \o IF n % 8 = 0 THEN <<>>
         ELSE LET byte == ip[start + (n \div 8) + 1] low == 2 ^ (n % 8)
              IN <<byte - (byte % low) + low - 1>>
\* A slip: what a tunnel hides is not uncovered.
HiddenAsItIs(ip) == <<GetByte(ip, 3), GetByte(ip, 2)>>
Hidden(ip) == <<255 - GetByte(ip, 3), 255 - GetByte(ip, 2)>>
GetGroup(ip) ==
    CASE ~ IsRoutable(ip) -> <<NET_UNROUTABLE>>
      [] IsRoutable(ip) ->
           CASE IsIPv4(ip) \/ IsRFC6145(ip) \/ IsRFC6052(ip) -> <<NET_IPV4>> \o Bits(ip, 12, 16)
             [] IsRFC3964(ip) -> <<NET_IPV4>> \o Bits(ip, 2, 16)
             [] IsRFC4380(ip) -> <<NET_IPV4>> \o Hidden(ip)
             [] IsTor(ip) -> <<NET_TOR>> \o Bits(ip, 6, 4)
             [] IsPrefix(<<32, 1, 4, 112>>, ip) -> <<NET_IPV6>> \o Bits(ip, 0, 36)
             [] OTHER -> <<NET_IPV6>> \o Bits(ip, 0, 32)

\* How well an address is reached from a partner's; none is an unknown one.
Unreachable == 0
Default == 1
Teredo == 2
Ipv6Weak == 3
Ipv4 == 4
Ipv6Strong == 5
Private == 6
GetExtNetwork(ip) ==
    IF ip = <<>> THEN NET_UNKNOWN ELSE IF IsRFC4380(ip) THEN NET_TEREDO ELSE GetNetwork(ip)
TorReach(their) == IF their \in {NET_IPV4, NET_IPV6, NET_TEREDO} THEN Default ELSE Private
GetReachabilityFrom(ip, partner) ==
    LET our == GetExtNetwork(ip)
        their == GetExtNetwork(partner)
        tunnel == IsRFC3964(ip) \/ IsRFC6052(ip) \/ IsRFC6145(ip)
    IN IF ~ IsRoutable(ip) THEN Unreachable
       ELSE CASE our = NET_IPV4 -> Ipv4
              [] our = NET_IPV6 ->
                   CASE their = NET_IPV6 -> IF tunnel THEN Ipv6Weak ELSE Ipv6Strong
                     [] their \in {NET_IPV4, NET_TOR} -> Default
                     [] OTHER -> Ipv6Weak
              [] our = NET_TEREDO -> IF their \in {NET_IPV4, NET_TOR} THEN Default ELSE Teredo
              [] our = NET_TOR -> TorReach(their)

--------------------------------------------------------------------------------
(* Texts.  A digit of base 32 or 16 is told by its value, as the rest are; no text mixes  *)
(* them but with decimal digits, which follow the last colon.                             *)

Colon == -7
Open == -8
Close == -9
Onion == -10    \* .onion

RECURSIVE Numeral(_, _)
Numeral(n, base) == IF n < base THEN <<n>> ELSE Append(Numeral(n \div base, base), n % base)
Joined(texts, c) == FlattenSeq([x \in DOMAIN texts |-> IF x = 1 THEN texts[x] ELSE <<c>> \o texts[x]])
ToStringIP(ip) ==
    CASE IsTor(ip) -> Append(Encode(5, SubSeq(ip, 7, 16)), Onion)
      [] IsIPv4(ip) -> Joined([x \in 1 .. 4 |-> Numeral(GetByte(ip, 4 - x), 10)], Dot)
      [] IsIPv6(ip) -> Joined([x \in 1 .. 8 |-> Numeral(ip[2 * x - 1] * 256 + ip[2 * x], 16)], Colon)
SetSpecial(text) ==
    LET bytes == Decode(5, Front(text)).bytes
    IN IF Len(text) > 1 /\ Last(text) = Onion /\ Len(bytes) = 10 THEN pchOnionCat \o bytes ELSE <<>>

\* strtol, which passes over blanks and takes a sign, and the int that is left of it.
ToInt(n) == LET m == n % IntWidth IN IF m < IntWidth \div 2 THEN m ELSE m - IntWidth
PortRead(text) ==
    LET t == Skips(text)
        sign == t # <<>> /\ Head(t) \in {Plus, Minus}
        digits == IF sign THEN Tail(t) ELSE t
        n == Value(digits)
    IN IF text = <<>> THEN 0
       ELSE IF digits = <<>> \/ ~ \A x \in DOMAIN digits : IsDigit(digits[x], 10) THEN -1
       ELSE ToInt(IF Head(t) = Minus THEN -n ELSE n)

HasPort(text, colon) ==
    \/ colon = 1
    \/ text[1] = Open /\ text[colon - 1] = Close
    \/ \A x \in 1 .. colon - 1 : text[x] # Colon
Unbracketed(text) ==
    IF text # <<>> /\ Head(text) = Open /\ Last(text) = Close THEN SubSeq(text, 2, Len(text) - 1) ELSE text
SplitHostPort(text, port) ==
    LET colons == {x \in DOMAIN text : text[x] = Colon}
        colon == CHOOSE x \in colons : \A y \in colons : y <= x
        n == PortRead(SubSeq(text, colon + 1, Len(text)))
    IN IF colons = {} \/ ~ HasPort(text, colon) \/ n < 0
       THEN [host |-> Unbracketed(text), port |-> port]
       ELSE [host |-> Unbracketed(SubSeq(text, 1, colon - 1)),
             port |-> IF n \in 1 .. PortLimit - 1 THEN n ELSE port]
InBrackets(host) == <<Open>> \o host \o <<Close>>
ToStringIPPort(ip, port) ==
    (IF IsIPv6(ip) THEN InBrackets(ToStringIP(ip)) ELSE ToStringIP(ip)) \o <<Colon>> \o Numeral(port, 10)

GetKey(ip, port) == ip \o <<port \div PortByte, port % PortByte>>
ServiceBefore(a, m, b, n) == Before(a, b) \/ (a = b /\ m < n)

--------------------------------------------------------------------------------
(* Of the inputs of CoreText, "addresses" are pairs of addresses and "hosts" texts. *)

IsPair == input.kind = "addresses" /\ Len(input.items) = 2
MappedOf(v4) == pchIPv4 \o v4
\* The forms in which an address may hide one of IPv4.
FormsOf(v4) ==
    {MappedOf(v4), Zeros(8) \o <<255, 255, 0, 0>> \o v4, <<0, 100, 255, 155>> \o Zeros(8) \o v4,
     <<32, 2>> \o v4 \o Zeros(10), <<32, 1>> \o Zeros(10) \o [x \in 1 .. 4 |-> 255 - v4[x]]}

\* However an IPv4 address is reached, by itself or by one of the tunnels, it is in the
\* group of its first half, and nothing else is: no second connection is made by another
\* form of an address.  Hidden services differ from all the rest (GetGroup).
GroupsTold ==
    IsPair =>
      LET a == input.items[1]
          b == input.items[2]
      IN /\ \A v, w \in {SubSeq(x, 13, 16) : x \in {a, b}} :
              \A f \in FormsOf(v) : \A g \in FormsOf(w) :
                IsRoutable(f) /\ IsRoutable(g) =>
                  (GetGroup(f) = GetGroup(g) <=> SubSeq(v, 1, 2) = SubSeq(w, 1, 2))
         /\ IsRoutable(a) /\ IsRoutable(b) /\ GetGroup(a) = GetGroup(b) =>
              /\ IsTor(a) <=> IsTor(b)
              /\ GetGroup(a)[1] = NET_IPV6 => SubSeq(a, 1, 4) = SubSeq(b, 1, 4)
         /\ GetGroup(a) = <<NET_UNROUTABLE>> <=> ~ IsRoutable(a)

\* Of all our addresses none is reached better by a partner than one of its own network,
\* but if that is a tunnel or the partner is behind Teredo, and those that nobody can
\* reach alone are not told (GetReachabilityFrom).
OwnReached ==
    IsPair =>
      LET a == input.items[1]
          b == input.items[2]
          tunnel == IsRFC3964(a) \/ IsRFC6052(a) \/ IsRFC6145(a)
      IN /\ IsRoutable(a) /\ IsRoutable(b) /\ GetNetwork(a) = GetNetwork(b)
               /\ ~ tunnel /\ ~ IsRFC4380(a) /\ ~ IsRFC4380(b) =>
              \A c \in Items["addresses"] : GetReachabilityFrom(c, b) <= GetReachabilityFrom(a, b)
         /\ GetReachabilityFrom(a, b) = Unreachable <=> ~ IsRoutable(a)

\* Services are in the order of their keys, by which peers are told apart (CService::GetKey).
KeysOrder ==
    IsPair =>
      \A m, n \in Ports :
         ServiceBefore(input.items[1], m, input.items[2], n)
           <=> Before(GetKey(input.items[1], m), GetKey(input.items[2], n))

\* The text of a service is split into that of its address and its port, but for port zero,
\* and that of a hidden service is read as its address.  What is read of any text is read
\* again from its own text, if the host is not itself in brackets, and a port is told only
\* if digits behind the last colon mean it, or mean it in an int (ToStringIPPort,
\* SplitHostPort, SetSpecial).
HostsRead ==
    /\ input.kind = "addresses" /\ input.items # <<>> =>
         LET ip == Head(input.items)
         IN /\ \A port \in Ports \ {0} :
                 SplitHostPort(ToStringIPPort(ip, port), 0) = [host |-> ToStringIP(ip), port |-> port]
            /\ SetSpecial(ToStringIP(ip)) = IF IsTor(ip) THEN ip ELSE <<>>
    /\ input.kind = "hosts" =>
         LET read == SplitHostPort(input.items, 0)
             host == IF Contains(read.host, Colon) THEN InBrackets(read.host) ELSE read.host
         IN /\ host = Unbracketed(read.host) \/ Contains(read.host, Colon) =>
                 SplitHostPort(host \o <<Colon>> \o Numeral(read.port, 10), 0) = read
            /\ read.port # 0 =>
                 \E n \in 1 .. Len(input.items) :
                    LET digits == SelectSeq(SubSeq(input.items, n, Len(input.items)), LAMBDA c : IsDigit(c, 10))
                    IN input.items[n] = Colon /\ read.port \in {Value(digits) % IntWidth, (-Value(digits)) % IntWidth}
================================================================================
