------------------------------- MODULE ProcessProofs -------------------------------
(***************************************************************************)
(* What programs and the threads of a process share, for any number of     *)
(* programs, starts and edits, of threads, sections, permits and nested    *)
(* LOCKs, for any objects, addresses, sizes and size of a page, and for    *)
(* any destinations, names and settings of the proxies: StartsHold,        *)
(* PagesHold, LocksHold and ConnectionsHold are invariants.                *)
(***************************************************************************)
EXTENDS MCProcess, FiniteSetTheorems, SequenceTheorems, TLAPS

--------------------------------------------------------------------------------
(* Connections: what has come of a proxy's answer and what is on its way are one text, *)
(* and what is left to be read of it is known wherever the call is.                    *)

(* What is to be read at every place of the call. *)

CallStages == {"idle", "resolve", "proxy", "socket", "connect", "select", "connected", "socks4",
           "grant4", "socks5", "method", "request", "reply", "length", "bound", "bound4",
           "bound16", "port"}
Unopened == {"idle", "resolve", "proxy", "socket"}
Unasked == Unopened \cup {"connect", "select", "connected", "socks4", "socks5"}
Fourth == {"socks4", "grant4"}
Fifth == {"socks5", "method", "request", "reply", "length", "bound", "bound4", "bound16", "port"}

\* k bytes and then the destination's, or the beginning of that if the other end has gone.
Remains(s, k, gone) ==
    /\ Len(s) <= k + 1
    /\ ~ gone => Len(s) = k + 1
    /\ Len(s) = k + 1 => s[k + 1] = DataByte

\* How many bytes of a name and a port there are.
Told(n) == IF n > 127 THEN 3 ELSE n + 2

\* What a proxy of version 4, or one of version 5, has answered.
Reply4(s, gone) ==
    IF granted THEN Remains(s, 8, gone) /\ (2 <= Len(s) => s[2] = 90)
    ELSE 2 <= Len(s) => s[2] = 91
Begins(s, c) == 4 <= Len(s) => s[1] = 5 /\ s[2] = 0 /\ s[3] = 0 /\ s[4] = c
NameTold(s, k, gone) == \E n \in Names : Remains(s, k + Told(n), gone) /\ (k <= Len(s) => s[k] = n)
Reply5(s, gone) ==
    IF granted
    THEN \/ Remains(s, 10, gone) /\ Begins(s, 1)
         \/ Remains(s, 22, gone) /\ Begins(s, 4)
         \/ NameTold(s, 5, gone) /\ Begins(s, 3)
    ELSE 4 <= Len(s) => ~ (s[1] = 5 /\ s[2] = 0 /\ s[3] = 0 /\ s[4] \in {1, 3, 4})

\* What there is to be read while the call is at a place.
Ahead(s, gone) ==
    /\ stage \in Unasked => s = <<>> /\ ~ granted /\ answered = 0 /\ asked.proxy = 0
    /\ stage = "grant4" =>
         /\ asked.proxy = 1 /\ answered \in {0, 1}
         /\ answered = 0 => s = <<>> /\ ~ granted
         /\ answered = 1 => Reply4(s, gone)
    /\ stage = "method" =>
         /\ asked.proxy = 1 /\ answered \in {0, 1} /\ ~ granted
         /\ answered = 0 => s = <<>>
         /\ Len(s) <= 2
    /\ stage = "request" => s = <<>> /\ ~ granted /\ answered = 1 /\ asked.proxy = 1
    /\ stage = "reply" =>
         /\ asked.proxy = 2 /\ answered \in {1, 2}
         /\ answered = 1 => s = <<>> /\ ~ granted
         /\ answered = 2 => Reply5(s, gone)
    /\ stage \in {"length", "bound", "bound4", "bound16", "port"} =>
         granted /\ asked.proxy = 2 /\ answered = 2
    /\ stage = "length" => NameTold(s, 1, gone)
    /\ stage = "bound" => length < 0 \/ Remains(s, length + 2, gone)
    /\ stage = "bound4" => Remains(s, 6, gone)
    /\ stage = "bound16" => Remains(s, 18, gone)
    /\ stage = "port" => Remains(s, 2, gone)

Text == Seq(Int)

ConnectTypeOK ==
    /\ stage \in CallStages /\ ret \in {"none", "true", "false"} /\ length \in Int
    /\ {open, closed, granted, cut, changed, byName} \subseteq BOOLEAN
    /\ asked \in [dns : BOOLEAN, proxy : Nat] /\ answered \in Nat
    /\ arrived \in Text /\ wire \in Text

\* Whose call it is, while it goes on.
Underway ==
    ret = "none" =>
      /\ open <=> stage \notin Unopened
      /\ stage \in Fourth => version = 4
      /\ stage \in Fifth => version = 5
      /\ Ahead(arrived \o wire, closed)

\* Nothing is asked of a proxy any more when the call has returned.
Returned ==
    /\ ret # "none" => ~ open \/ answered = asked.proxy
    /\ SocketsClosed /\ GrantIsTaken

NamesKept ==
    /\ stage = "resolve" /\ ~ changed => version = nameproxyInfo
    /\ stage \in {"idle", "resolve"} /\ ret = "none" => ~ asked.dns /\ ~ byName
    /\ ~ (asked.dns /\ byName)
    /\ asked.dns /\ ~ changed => nameproxyInfo = 0
    /\ stage = "idle" => ret = "none"

ConnectInv == ConnectTypeOK /\ Underway /\ Returned /\ NamesKept


--------------------------------------------------------------------------------
\* t is what is left of s after its first n bytes.
Rest(s, t, n) == Len(t) = Len(s) - n /\ \A x \in 1 .. Len(t) : t[x] = s[x + n]

LEMMA Joined ==
    ASSUME NEW a \in Text, NEW w \in Text
    PROVE  /\ a \o w \in Text /\ Len(a \o w) = Len(a) + Len(w)
           /\ \A x \in 1 .. Len(a) : (a \o w)[x] = a[x]
           /\ \A x \in 1 .. Len(w) : (a \o w)[Len(a) + x] = w[x]
  BY DEF Text

LEMMA Splitting ==
    ASSUME NEW l \in Nat, NEW h \in 0 .. l
    PROVE  /\ h + 1 \in Int /\ l \in Int /\ h \in Int /\ 1 \in Int
           /\ l - (h + 1) + 1 = l - h /\ h - 1 + 1 = h
           /\ (h + 1 <= l \/ l - h = 0) /\ (1 <= h \/ h = 0)
           /\ \A x \in h + 1 .. l : x \in 1 .. l
           /\ \A x \in 1 .. h : x \in 1 .. l /\ 1 + x - 1 = x
           /\ l - h \in Nat
           /\ \A x \in 1 .. l - h : x + h \in 1 .. l /\ h + 1 + x - 1 = x + h
  OBVIOUS

LEMMA Subsequence ==
    ASSUME NEW a \in Text, NEW h \in 0 .. Len(a)
    PROVE  /\ SubSeq(a, h + 1, Len(a)) \in Text /\ Len(SubSeq(a, h + 1, Len(a))) = Len(a) - h
           /\ \A x \in 1 .. Len(a) - h : SubSeq(a, h + 1, Len(a))[x] = a[x + h]
           /\ SubSeq(a, 1, h) \in Text /\ Len(SubSeq(a, 1, h)) = h
           /\ \A x \in 1 .. h : SubSeq(a, 1, h)[x] = a[x]
<1> DEFINE l == Len(a)
<1>1. l \in Nat /\ \A x \in 1 .. l : a[x] \in Int
  BY DEF Text
<1> HIDE DEF l
<1>2. h \in 0 .. l
  BY DEF l
<1>3. /\ h + 1 \in Int /\ l \in Int /\ h \in Int /\ 1 \in Int
      /\ l - (h + 1) + 1 = l - h /\ h - 1 + 1 = h
      /\ (h + 1 <= l \/ l - h = 0) /\ (1 <= h \/ h = 0)
      /\ \A x \in h + 1 .. l : x \in 1 .. l
      /\ \A x \in 1 .. h : x \in 1 .. l /\ 1 + x - 1 = x
      /\ l - h \in Nat
      /\ \A x \in 1 .. l - h : x + h \in 1 .. l /\ h + 1 + x - 1 = x + h
  BY <1>1, <1>2, Splitting
<1>4. (\A x \in h + 1 .. l : a[x] \in Int) /\ (\A x \in 1 .. h : a[x] \in Int)
  BY <1>1, <1>3
<1>5. /\ SubSeq(a, h + 1, l) \in Seq(Int)
      /\ Len(SubSeq(a, h + 1, l)) = IF h + 1 <= l THEN l - (h + 1) + 1 ELSE 0
      /\ \A x \in 1 .. l - (h + 1) + 1 : SubSeq(a, h + 1, l)[x] = a[h + 1 + x - 1]
  <2> HIDE DEF l
  <2>1. QED
    BY ONLY <1>3, <1>4, SubSeqProperties, SMTT(30)
<1>6. /\ SubSeq(a, 1, h) \in Seq(Int)
      /\ Len(SubSeq(a, 1, h)) = IF 1 <= h THEN h - 1 + 1 ELSE 0
      /\ \A x \in 1 .. h - 1 + 1 : SubSeq(a, 1, h)[x] = a[1 + x - 1]
  BY ONLY <1>3, <1>4, SubSeqProperties
<1>7. Len(SubSeq(a, h + 1, l)) = l - h /\ Len(SubSeq(a, 1, h)) = h
  BY ONLY <1>3, <1>5, <1>6
<1>8. \A x \in 1 .. l - h : SubSeq(a, h + 1, l)[x] = a[x + h]
  BY ONLY <1>3, <1>5
<1>9. \A x \in 1 .. h : SubSeq(a, 1, h)[x] = a[x]
  BY ONLY <1>3, <1>6
<1>10. QED
  BY <1>5, <1>6, <1>7, <1>8, <1>9 DEF Text, l

LEMMA Halves ==
    ASSUME NEW a \in Text, NEW n \in 0 .. Len(a)
    PROVE  SubSeq(a, 1, n) \o SubSeq(a, n + 1, Len(a)) = a
<1> DEFINE l == Len(a)
<1>1. l \in Nat /\ n \in 0 .. l /\ SubSeq(a, 1, l) = a
  BY SubSeqFull DEF Text
<1> HIDE DEF l
<1>2. 1 \in 1 .. l + 1 /\ n \in 1 - 1 .. l /\ l \in n .. l
  BY <1>1
<1>3. SubSeq(a, 1, n) \o SubSeq(a, n + 1, l) = SubSeq(a, 1, l)
  BY <1>2, ConcatAdjacentSubSeq DEF Text, l
<1>4. QED
  BY <1>1, <1>3 DEF l

\* h bytes of a, which are r, are all that can be read of n, and t is left.
IsRead(a, n, h, r, t) ==
    h = Least(n, Len(a)) /\ r = SubSeq(a, 1, h) /\ t = SubSeq(a, h + 1, Len(a))

LEMMA Reading ==
    ASSUME NEW a \in Text, NEW w \in Text, NEW n \in Nat, NEW h, NEW r, NEW t, IsRead(a, n, h, r, t)
    PROVE  /\ h \in 0 .. Len(a) /\ h <= n /\ (h < n => h = Len(a))
           /\ t \in Text /\ r \in Text /\ Len(r) = h
           /\ \A x \in 1 .. h : r[x] = (a \o w)[x]
           /\ Rest(a \o w, t \o w, h)
<1> DEFINE l == Len(a) m == Len(w) k == Len(t)
<1>1. l \in Nat /\ m \in Nat
  BY DEF Text
<1>2. h \in 0 .. l /\ h <= n /\ (h < n => h = l)
  BY <1>1 DEF Least, IsRead
<1>4. /\ t \in Text /\ k = l - h /\ \A x \in 1 .. l - h : t[x] = a[x + h]
      /\ r \in Text /\ Len(r) = h /\ \A x \in 1 .. h : r[x] = a[x]
  BY <1>2, Subsequence DEF IsRead
<1>6. Len(a \o w) = l + m /\ Len(t \o w) = k + m
  BY <1>4, Joined
<1>7. \A x \in 1 .. l : (a \o w)[x] = a[x]
  BY Joined
<1>8. \A x \in 1 .. m : (a \o w)[l + x] = w[x]
  BY Joined
<1>9. (\A x \in 1 .. k : (t \o w)[x] = t[x]) /\ (\A x \in 1 .. m : (t \o w)[k + x] = w[x])
  BY <1>4, Joined
<1> HIDE DEF l, m, k
<1>10. /\ k \in Nat /\ h \in Nat /\ Len(t \o w) = Len(a \o w) - h
       /\ \A x \in 1 .. h : x \in 1 .. l
       /\ \A x \in 1 .. k : x + h \in 1 .. l
       /\ \A y \in 1 .. m : k + y + h = l + y
       /\ \A x \in 1 .. k + m : x \in 1 .. k \/ \E y \in 1 .. m : x = k + y
  <2> DEFINE u == Len(t \o w) v == Len(a \o w)
  <2>1. k = l - h /\ u = k + m /\ v = l + m
    BY <1>4, <1>6
  <2> HIDE DEF u, v
  <2>2. k \in Nat /\ h \in Nat /\ l = k + h /\ u = v - h
    BY ONLY <1>1, <1>2, <2>1
  <2>3. \A x \in 1 .. h : x \in 1 .. l
    BY ONLY <1>1, <1>2
  <2>4. /\ \A x \in 1 .. k : x + h \in 1 .. l
        /\ \A y \in 1 .. m : k + y + h = l + y
    BY ONLY <1>1, <2>2
  <2>5. ASSUME NEW x \in 1 .. k + m PROVE x \in 1 .. k \/ \E y \in 1 .. m : x = k + y
    <3>1. CASE x > k
      <4>1. x - k \in 1 .. m /\ x = k + (x - k)
        BY ONLY <1>1, <2>2, <2>5, <3>1
      <4>2. QED
        BY <4>1
    <3>2. x \in 1 .. k \/ x > k
      BY ONLY <1>1, <2>2, <2>5
    <3>3. QED
      BY <3>1, <3>2
  <2>6. QED
    BY <2>2, <2>3, <2>4, <2>5 DEF u, v
<1>11. \A x \in 1 .. h : r[x] = (a \o w)[x]
  BY <1>4, <1>7, <1>10
<1>12. ASSUME NEW x \in 1 .. Len(t \o w) PROVE (t \o w)[x] = (a \o w)[x + h]
  <2>1. x \in 1 .. k + m
    BY <1>6 DEF k
  <2>2. CASE x \in 1 .. k
    <3>1. (t \o w)[x] = t[x] /\ t[x] = a[x + h]
      BY <1>4, <1>9, <2>2
    <3>2. QED
      BY <1>7, <1>10, <2>2, <3>1
  <2>3. ASSUME NEW y \in 1 .. m, x = k + y PROVE (t \o w)[x] = (a \o w)[x + h]
    BY <1>8, <1>9, <1>10, <2>3
  <2>4. QED
    BY <1>10, <2>1, <2>2, <2>3
<1>13. QED
  BY <1>2, <1>4, <1>10, <1>11, <1>12 DEF Rest, l

\* What remains of a text, when a part of it has been read.
LEMMA RemainsLess ==
    ASSUME NEW s \in Text, NEW t \in Text, NEW k \in Nat, NEW n \in 0 .. k, NEW gone,
           Rest(s, t, n), Remains(s, k, gone)
    PROVE  Remains(t, k - n, gone)
<1> DEFINE l == Len(s) m == Len(t)
<1>1. l \in Nat /\ m \in Nat /\ m = l - n
  BY DEF Rest, Text
<1>2. m = k - n + 1 => l = k + 1 /\ m \in 1 .. m /\ m + n = k + 1
  BY <1>1
<1>3. m = k - n + 1 => t[k - n + 1] = s[k + 1]
  BY <1>2 DEF Rest
<1> HIDE DEF l, m
<1>4. m <= k - n + 1 /\ (~ gone => m = k - n + 1)
  BY <1>1 DEF Remains, l
<1>5. QED
  BY <1>1, <1>2, <1>3, <1>4 DEF Remains, l, m

\* When the other end goes, a part of what was on its way may be lost.
Shorter(s, t) == Len(t) <= Len(s) /\ \A x \in 1 .. Len(t) : t[x] = s[x]

LEMMA RemainsGone ==
    ASSUME NEW s \in Text, NEW t \in Text, NEW k \in Nat, NEW gone, Shorter(s, t), Remains(s, k, gone)
    PROVE  Remains(t, k, TRUE)
<1>1. Len(s) \in Nat /\ Len(t) \in Nat
  BY DEF Text
<1>2. QED
  BY <1>1 DEF Remains, Shorter

\* A name or a reply that is read short has not come as a whole, or the other end has gone.
LEMMA ReadShort ==
    ASSUME NEW a \in Text, NEW w \in Text, NEW k \in Nat, NEW n \in 0 .. k, NEW gone \in BOOLEAN,
           Remains(a \o w, k, gone), Least(n, Len(a)) < n
    PROVE  gone \/ w # <<>>
<1>1. Len(a) \in Nat /\ Len(w) \in Nat /\ Len(a) < n
  BY DEF Text, Least
<1>2. ~ gone => Len(a) + Len(w) = k + 1
  BY Joined DEF Remains
<1>3. ~ gone => Len(w) # 0
  BY <1>1, <1>2
<1>4. QED
  BY <1>3 DEF Text

LEMMA ToldLengths == ASSUME ConnectAssumption, NEW n \in Names PROVE n \in 0 .. 255 /\ Told(n) \in 2 .. 129
  BY DEF ConnectAssumption, Told

--------------------------------------------------------------------------------
(* What the other end does. *)

\* Nothing that is to be read changes while the place of the call does not.
Still == UNCHANGED <<stage, length, version, asked, answered, granted>>

LEMMA NameGone ==
    ASSUME ConnectAssumption, NEW s \in Text, NEW t \in Text, NEW k \in {1, 5}, NEW gone,
           Shorter(s, t), NameTold(s, k, gone)
    PROVE  NameTold(t, k, TRUE)
<1>1. PICK n \in Names : Remains(s, k + Told(n), gone) /\ (k <= Len(s) => s[k] = n)
  BY DEF NameTold
<1>2. k + Told(n) \in Nat
  BY ToldLengths
<1>3. Remains(t, k + Told(n), TRUE)
  BY <1>1, <1>2, RemainsGone
<1>4. k <= Len(t) => k <= Len(s) /\ k \in 1 .. Len(t)
  <2> DEFINE l == Len(s) m == Len(t)
  <2>1. l \in Nat /\ m \in Nat /\ m <= l
    BY DEF Text, Shorter
  <2> HIDE DEF l, m
  <2>2. k <= m => k <= l /\ k \in 1 .. m
    BY <2>1
  <2>3. QED
    BY <2>2 DEF l, m
<1>5. k <= Len(t) => t[k] = n
  BY <1>1, <1>4 DEF Shorter
<1>6. QED
  BY <1>3, <1>5 DEF NameTold

LEMMA BeginsGone ==
    ASSUME NEW s \in Text, NEW t \in Text, Shorter(s, t)
    PROVE  /\ \A c : Begins(s, c) => Begins(t, c)
           /\ 2 <= Len(t) => 2 <= Len(s) /\ t[2] = s[2]
           /\ 4 <= Len(t) => 4 <= Len(s) /\ \A x \in 1 .. 4 : t[x] = s[x]
           /\ s = <<>> => t = <<>>
<1> DEFINE l == Len(s) m == Len(t)
<1>1. l \in Nat /\ m \in Nat /\ m <= l /\ \A x \in 1 .. m : t[x] = s[x]
  BY DEF Text, Shorter
<1>2. (s = <<>> <=> l = 0) /\ (t = <<>> <=> m = 0)
  BY DEF Text
<1> HIDE DEF l, m
<1>3. s = <<>> => t = <<>>
  BY <1>1, <1>2
<1>4. 2 <= m => 2 <= l /\ 2 \in 1 .. m
  BY <1>1
<1>5. 4 <= m => 4 <= l /\ 1 .. 4 \subseteq 1 .. m
  BY <1>1
<1>6. 4 <= m => \A x \in 1 .. 4 : t[x] = s[x]
  BY <1>1, <1>5
<1>7. \A c : Begins(s, c) => Begins(t, c)
  BY <1>5, <1>6 DEF Begins, l, m
<1>8. QED
  BY <1>1, <1>3, <1>4, <1>5, <1>6, <1>7 DEF l, m

LEMMA AheadGone ==
    ASSUME ConnectAssumption, NEW s \in Text, NEW t \in Text, Shorter(s, t), length \in Int,
           Ahead(s, closed), Still, closed' = TRUE
    PROVE  Ahead(t, closed)'
<1>1. \A k \in Nat : Remains(s, k, closed) => Remains(t, k, TRUE)
  BY RemainsGone
<1>2. \A k \in {1, 5} : NameTold(s, k, closed) => NameTold(t, k, TRUE)
  BY NameGone
<1>3. /\ \A c : Begins(s, c) => Begins(t, c)
      /\ 2 <= Len(t) => 2 <= Len(s) /\ t[2] = s[2]
      /\ 4 <= Len(t) => 4 <= Len(s) /\ \A x \in 1 .. 4 : t[x] = s[x]
      /\ s = <<>> => t = <<>>
  BY BeginsGone
<1>4. Reply4(s, closed) => Reply4(t, TRUE)
  BY <1>1, <1>3 DEF Reply4
<1>5. Reply5(s, closed) => Reply5(t, TRUE)
  <2>1. CASE granted
    BY <1>1, <1>2, <1>3, <2>1 DEF Reply5
  <2>2. CASE ~ granted
    BY <1>3, <2>2 DEF Reply5
  <2>3. QED
    BY <2>1, <2>2
<1>6. (Reply4(t, closed)' <=> Reply4(t, TRUE)) /\ (Reply5(t, closed)' <=> Reply5(t, TRUE))
  BY DEF Reply4, Reply5, Still
<1>7. Len(s) <= 2 => Len(t) <= 2
  <2>1. Len(s) \in Nat /\ Len(t) \in Nat /\ Len(t) <= Len(s)
    BY DEF Text, Shorter
  <2>2. QED
    BY <2>1
<1>8. length >= 0 => length + 2 \in Nat
  OBVIOUS
<1>9. /\ stage = "bound" => length < 0 \/ Remains(t, length + 2, TRUE)
      /\ stage = "length" => NameTold(t, 1, TRUE)
      /\ stage = "bound4" => Remains(t, 6, TRUE)
      /\ stage = "bound16" => Remains(t, 18, TRUE)
      /\ stage = "port" => Remains(t, 2, TRUE)
  <2>1. length < 0 \/ length >= 0
    OBVIOUS
  <2>2. QED
    BY <1>1, <1>2, <1>8, <2>1 DEF Ahead
<1>10. QED
  BY <1>3, <1>4, <1>5, <1>6, <1>7, <1>9 DEF Ahead, Still

\* What the properties say of a call, apart from what is to be read.
LEMMA Unread ==
    ASSUME ConnectInv, Still, UNCHANGED <<call, proxies>>,
           arrived' \in Text, wire' \in Text, closed' \in BOOLEAN,
           ret = "none"
    PROVE  ConnectTypeOK' /\ Returned' /\ NamesKept'
<1>1. ConnectTypeOK'
  BY DEF ConnectInv, ConnectTypeOK, call, proxies, Still
<1>2. Returned'
  BY DEF ConnectInv, Returned, SocketsClosed, GrantIsTaken, call
<1>3. NamesKept'
  BY DEF ConnectInv, NamesKept, call, proxies
<1>4. QED
  BY <1>1, <1>2, <1>3

LEMMA DeliverStep == ASSUME ConnectInv, Deliver PROVE ConnectInv'
<1>1. PICK n \in 1 .. Len(wire) :
        arrived' = arrived \o SubSeq(wire, 1, n) /\ wire' = SubSeq(wire, n + 1, Len(wire))
  BY DEF Deliver
<1>2. ret = "none" /\ UNCHANGED <<closed, answered, granted, call, proxies>> /\ Still
  BY DEF Deliver, Still, call
<1>3. arrived \in Text /\ wire \in Text
  BY DEF ConnectInv, ConnectTypeOK
<1>4. n \in 0 .. Len(wire)
  <2> DEFINE m == Len(wire)
  <2>1. m \in Nat /\ n \in 1 .. m
    BY <1>3 DEF Text
  <2> HIDE DEF m
  <2>2. n \in 0 .. m
    BY <2>1
  <2>3. QED
    BY <2>2 DEF m
<1>5. /\ SubSeq(wire, 1, n) \in Text /\ wire' \in Text
      /\ SubSeq(wire, 1, n) \o wire' = wire
  <2>1. SubSeq(wire, 1, n) \in Text /\ wire' \in Text
    BY <1>1, <1>3, <1>4, Subsequence
  <2>2. SubSeq(wire, 1, n) \o wire' = wire
    BY <1>1, <1>3, <1>4, Halves
  <2>3. QED
    BY <2>1, <2>2
<1>6. arrived' \in Text /\ arrived' \o wire' = arrived \o wire
  <2>1. arrived' \in Text
    BY <1>1, <1>3, <1>5, Joined
  <2>2. (arrived \o SubSeq(wire, 1, n)) \o wire' = arrived \o (SubSeq(wire, 1, n) \o wire')
    <3>1. \A x, y, z \in Seq(Int) : (x \o y) \o z = x \o (y \o z)
      BY ConcatAssociative, SMTT(30)
    <3>2. arrived \in Seq(Int) /\ SubSeq(wire, 1, n) \in Seq(Int) /\ wire' \in Seq(Int)
      BY <1>3, <1>5 DEF Text
    <3>3. QED
      BY <3>1, <3>2
  <2>3. QED
    BY <1>1, <1>5, <2>1, <2>2
<1>7. Underway'
  <2>1. Ahead(arrived \o wire, closed)
    BY <1>2 DEF ConnectInv, Underway
  <2>2. Ahead(arrived \o wire, closed)'
    BY <1>2, <1>6, <2>1 DEF Ahead, Reply4, Reply5, Still, call
  <2>3. QED
    BY <1>2, <2>2 DEF ConnectInv, Underway, call
<1>8. closed' \in BOOLEAN
  BY <1>2 DEF ConnectInv, ConnectTypeOK
<1>9. QED
  BY <1>2, <1>5, <1>6, <1>7, <1>8, Unread DEF ConnectInv

LEMMA CloseStep == ASSUME ConnectAssumption, ConnectInv, Close PROVE ConnectInv'
<1>1. /\ ret = "none" /\ closed' = TRUE /\ wire' \in {wire, <<>>}
      /\ UNCHANGED <<arrived, answered, granted, call, proxies>> /\ Still
  BY DEF Close, Still, call
<1>2. arrived \in Text /\ wire \in Text /\ wire' \in Text /\ length \in Int
  BY <1>1, EmptySeq DEF ConnectInv, ConnectTypeOK, Text
<1>3. Shorter(arrived \o wire, arrived' \o wire')
  <2> DEFINE l == Len(arrived) m == Len(wire) k == Len(wire')
  <2>1. /\ Len(arrived \o wire) = l + m /\ Len(arrived \o wire') = l + k
        /\ \A x \in 1 .. l : (arrived \o wire)[x] = arrived[x] /\ (arrived \o wire')[x] = arrived[x]
    BY <1>2, Joined
  <2>2. l \in Nat /\ m \in Nat /\ (wire' = wire \/ k = 0)
    BY <1>1, <1>2, EmptySeq DEF Text
  <2> HIDE DEF l, m, k
  <2>3. CASE wire' = wire
    <3>1. k = m
      BY <2>3 DEF k, m
    <3>2. l + k <= l + m
      BY <2>2, <3>1
    <3>3. QED
      BY <1>1, <2>1, <2>3, <3>2 DEF Shorter
  <2>4. CASE k = 0
    <3>1. l + k = l /\ l + k <= l + m
      BY <2>2, <2>4
    <3>2. QED
      BY <1>1, <2>1, <3>1 DEF Shorter
  <2>5. QED
    BY <2>2, <2>3, <2>4
<1>4. Underway'
  <2>1. Ahead(arrived \o wire, closed)
    BY <1>1 DEF ConnectInv, Underway
  <2>2. PICK t : t = arrived' \o wire'
    OBVIOUS
  <2>3. t \in Text /\ arrived \o wire \in Text
    BY <1>1, <1>2, <2>2, Joined
  <2>4. Ahead(t, closed)'
    BY <1>1, <1>2, <1>3, <2>1, <2>2, <2>3, AheadGone
  <2>5. QED
    BY <1>1, <2>2, <2>4 DEF ConnectInv, Underway, call
<1>5. QED
  BY <1>1, <1>2, <1>4, Unread DEF ConnectInv

LEMMA SettingsStep == ASSUME ConnectInv, Settings PROVE ConnectInv'
<1>1. /\ ret = "none" /\ stage \in {"resolve", "proxy"} /\ changed' = TRUE
      /\ UNCHANGED <<call, peer>>
  BY DEF Settings, SetNameProxy, SetProxy
<1>2. ConnectTypeOK'
  BY <1>1 DEF ConnectInv, ConnectTypeOK, call, peer
<1>3. Underway'
  BY <1>1 DEF ConnectInv, Underway, Ahead, Reply4, Reply5, call, peer
<1>4. Returned'
  BY <1>1 DEF ConnectInv, Returned, SocketsClosed, GrantIsTaken, call, peer
<1>5. NamesKept'
  BY <1>1 DEF ConnectInv, NamesKept, call
<1>6. QED
  BY <1>2, <1>3, <1>4, <1>5 DEF ConnectInv

--------------------------------------------------------------------------------
(* Before a proxy is asked. *)

\* Nothing has come as long as the call is one step further but asks nothing.
LEMMA CallBegins ==
    ASSUME ConnectInv, NEW d \in Destinations, ConnectSocketByName(d) PROVE ConnectInv'
<1>1. /\ stage = "idle" /\ ret = "none" /\ version' = nameproxyInfo /\ stage' = "resolve"
      /\ UNCHANGED <<ret, byName, length, open, asked, cut, proxies, peer>>
  BY DEF ConnectSocketByName, At, Goes, Same
<1>2. ConnectTypeOK'
  BY <1>1 DEF ConnectInv, ConnectTypeOK, proxies, peer, CallStages
<1>3. Underway'
  BY <1>1 DEF ConnectInv, Underway, Ahead, peer, Unasked, Unopened, Fourth, Fifth
<1>4. Returned' /\ NamesKept'
  BY <1>1 DEF ConnectInv, Returned, SocketsClosed, GrantIsTaken, NamesKept, proxies
<1>5. QED
  BY <1>2, <1>3, <1>4 DEF ConnectInv

LEMMA ResolveStep == ASSUME ConnectAssumption, ConnectInv, Resolve PROVE ConnectInv'
<1>1. /\ stage = "resolve" /\ ret = "none" /\ asked' = [asked EXCEPT !.dns = dest.kind = "name" /\ MayLookup]
      /\ UNCHANGED <<dest, version, length, open, cut, proxies, peer>>
      /\ \/ stage' = "proxy" /\ UNCHANGED <<ret, byName>>
         \/ ret' = "false" /\ version = 0 /\ UNCHANGED <<stage, byName>>
         \/ stage' = "socket" /\ version # 0 /\ byName' = TRUE /\ UNCHANGED ret
  BY DEF Resolve, At, Goes, Returns, Same
<1>2. /\ asked'.dns \in BOOLEAN /\ (asked'.dns => version = 0) /\ asked'.proxy = asked.proxy
      /\ asked' \in [dns : BOOLEAN, proxy : Nat]
  BY <1>1, ZenonT(40) DEF ConnectInv, ConnectTypeOK, MayLookup, ConnectAssumption
<1>3. ConnectTypeOK'
  BY <1>1, <1>2 DEF ConnectInv, ConnectTypeOK, proxies, peer, CallStages
<1>4. Underway'
  BY <1>1, <1>2 DEF ConnectInv, Underway, Ahead, peer, Unasked, Unopened, Fourth, Fifth
<1>5. ~ open /\ ~ granted
  BY <1>1 DEF ConnectInv, Underway, Ahead, Unasked, Unopened
<1>6. Returned'
  BY <1>1, <1>5 DEF ConnectInv, Returned, SocketsClosed, GrantIsTaken, peer
<1>7. NamesKept'
  BY <1>1, <1>2 DEF ConnectInv, NamesKept, proxies
<1>8. QED
  BY <1>3, <1>4, <1>6, <1>7 DEF ConnectInv

\* From the proxy of the network to a connection, with nothing sent yet.
LEMMA OpeningStep ==
    ASSUME ConnectInv, ConnectSocket \/ Socket \/ Connect \/ Select \/ Connected PROVE ConnectInv'
<1>1. /\ ret = "none" /\ stage \in {"proxy", "socket", "connect", "select", "connected"}
      /\ UNCHANGED <<dest, byName, length, asked, cut, proxies, peer>>
      /\ \/ ret' = "false" /\ UNCHANGED <<stage, version>> /\ (open' = FALSE \/ (stage = "socket" /\ UNCHANGED open))
         \/ stage = "proxy" /\ stage' = "socket" /\ UNCHANGED <<ret, open>>
         \/ stage = "socket" /\ stage' = "connect" /\ open' = TRUE /\ UNCHANGED <<ret, version>>
         \/ stage = "connect" /\ stage' \in {"select", "connected"} /\ UNCHANGED <<ret, version, open>>
         \/ stage = "select" /\ stage' = "connected" /\ UNCHANGED <<ret, version, open>>
         \/ /\ stage = "connected" /\ UNCHANGED <<version, open>>
            /\ \/ version = 0 /\ ret' = "true" /\ UNCHANGED stage
               \/ version = 4 /\ stage' = "socks4" /\ UNCHANGED ret
               \/ version = 5 /\ stage' = "socks5" /\ UNCHANGED ret
  <2>1. CASE ConnectSocket
    BY <2>1 DEF ConnectSocket, At, Goes, Same
  <2>2. CASE Socket
    BY <2>2 DEF Socket, At, Goes, Returns, Same
  <2>3. CASE Connect
    BY <2>3 DEF Connect, At, Goes, Returns, Fails, Same
  <2>4. CASE Select
    BY <2>4 DEF Select, At, Goes, Returns, Fails, Same
  <2>5. CASE Connected
    BY <2>5 DEF Connected, At, Goes, Returns, Fails, Same
  <2>6. QED
    BY <2>1, <2>2, <2>3, <2>4, <2>5
<1>2. /\ open <=> stage \in {"connect", "select", "connected"}
      /\ ~ granted /\ answered = 0 /\ asked.proxy = 0 /\ arrived \o wire = <<>>
  BY <1>1 DEF ConnectInv, Underway, Ahead, Unasked, Unopened
<1>3. ConnectTypeOK'
  BY <1>1 DEF ConnectInv, ConnectTypeOK, proxies, peer, CallStages
<1>4. Underway'
  BY <1>1, <1>2 DEF ConnectInv, Underway, Ahead, peer, Unasked, Unopened, Fourth, Fifth
<1>5. Returned'
  BY <1>1, <1>2 DEF ConnectInv, Returned, SocketsClosed, GrantIsTaken, peer
<1>6. NamesKept'
  BY <1>1 DEF ConnectInv, NamesKept, proxies
<1>7. QED
  BY <1>3, <1>4, <1>5, <1>6 DEF ConnectInv

--------------------------------------------------------------------------------
(* What is sent to a proxy, and what it answers. *)

\* The next message is sent when the last one has been answered and its answer read.
LEMMA SendStep ==
    ASSUME ConnectInv, NEW s, NEW next, Send(s, next),
           \/ s = "socks4" /\ next = "grant4"
           \/ s = "socks5" /\ next = "method"
           \/ s = "request" /\ next = "reply"
    PROVE  ConnectInv'
<1>1. /\ ret = "none" /\ stage = s /\ stage \in {"socks4", "socks5", "request"}
      /\ UNCHANGED <<dest, version, byName, length, cut, proxies, peer>>
      /\ \/ stage' = next /\ asked' = [asked EXCEPT !.proxy = @ + 1] /\ UNCHANGED <<ret, open>>
         \/ ret' = "false" /\ open' = FALSE /\ UNCHANGED <<stage, asked>>
  BY DEF Send, At, Goes, Fails, Returns, Same
<1>2. /\ open /\ ~ granted /\ arrived \o wire = <<>> /\ answered = asked.proxy
      /\ answered = (IF stage = "request" THEN 1 ELSE 0)
  BY <1>1 DEF ConnectInv, Underway, Ahead, Unasked, Unopened
<1>3. /\ asked' \in [dns : BOOLEAN, proxy : Nat] /\ asked'.dns = asked.dns
      /\ stage' # stage => asked'.proxy = asked.proxy + 1
  BY <1>1 DEF ConnectInv, ConnectTypeOK
<1>4. ConnectTypeOK'
  BY <1>1, <1>3 DEF ConnectInv, ConnectTypeOK, proxies, peer, CallStages
<1>5. Len(arrived \o wire) = 0
  BY <1>2
<1>6. Underway'
  <2>1. CASE stage' = next /\ UNCHANGED ret
    <3>1. Ahead(arrived \o wire, closed)'
      BY <1>1, <1>2, <1>3, <1>5, <2>1 DEF Ahead, Unasked, Unopened, peer
    <3>2. (stage' \in Fourth => version' = 4) /\ (stage' \in Fifth => version' = 5)
      BY <1>1, <2>1 DEF Fourth, Fifth, ConnectInv, Underway
    <3>3. open' /\ stage' \notin Unopened
      BY <1>1, <1>2, <2>1 DEF Unopened
    <3>4. QED
      BY <3>1, <3>2, <3>3 DEF Underway
  <2>2. CASE ret' = "false"
    BY <2>2 DEF Underway
  <2>3. QED
    BY <1>1, <2>1, <2>2
<1>7. Returned'
  BY <1>1, <1>2 DEF ConnectInv, Returned, SocketsClosed, GrantIsTaken, peer
<1>8. NamesKept'
  BY <1>1, <1>3 DEF ConnectInv, NamesKept, proxies
<1>9. QED
  BY <1>4, <1>6, <1>7, <1>8 DEF ConnectInv

\* A grant is the bytes that say so, and then the destination's.
LEMMA Granted ==
    ASSUME NEW n \in Nat, NEW b \in Text
    PROVE  /\ Bytes(n) \in Text /\ Len(Bytes(n)) = n
           /\ Yes(b \o Bytes(n)).granted /\ Yes(b \o Bytes(n)).bytes \in Text
           /\ Remains(Yes(b \o Bytes(n)).bytes, Len(b) + n, FALSE)
           /\ \A x \in 1 .. Len(b) : Yes(b \o Bytes(n)).bytes[x] = b[x]
<1> DEFINE l == Len(b) c == Bytes(n) d == <<DataByte>>
<1>1. c \in Text /\ Len(c) = n /\ d \in Text /\ Len(d) = 1 /\ d[1] = DataByte
  <2>1. c \in [1 .. n -> Int]
    BY DEF Bytes
  <2>2. QED
    BY <2>1 DEF Text, DataByte
<1>2. Yes(b \o c).bytes = (b \o c) \o d /\ Yes(b \o c).granted
  BY DEF Yes
<1> HIDE DEF c, d
<1>3. b \o c \in Text /\ Len(b \o c) = l + n /\ \A x \in 1 .. l : (b \o c)[x] = b[x]
  BY <1>1, Joined
<1>4. PICK t : t = b \o c
  OBVIOUS
<1>5. /\ t \o d \in Text /\ Len(t \o d) = l + n + 1 /\ (t \o d)[l + n + 1] = DataByte
      /\ \A x \in 1 .. l + n : (t \o d)[x] = t[x]
  <2>1. /\ t \o d \in Text /\ Len(t \o d) = Len(t) + 1
        /\ \A x \in 1 .. Len(t) : (t \o d)[x] = t[x]
        /\ (t \o d)[Len(t) + 1] = d[1]
    <3>1. 1 \in 1 .. Len(d)
      BY <1>1
    <3>2. t \in Text /\ d \in Text
      BY <1>1, <1>3, <1>4
    <3>3. /\ t \o d \in Text /\ Len(t \o d) = Len(t) + Len(d)
          /\ \A x \in 1 .. Len(t) : (t \o d)[x] = t[x]
          /\ \A x \in 1 .. Len(d) : (t \o d)[Len(t) + x] = d[x]
      BY <3>2, Joined
    <3>4. QED
      BY <1>1, <3>1, <3>3
  <2>2. QED
    BY <1>1, <1>3, <1>4, <2>1
<1>6. l \in Nat
  BY DEF Text
<1> HIDE DEF l
<1>7. \A x \in 1 .. l : x \in 1 .. l + n
  BY <1>6
<1>8. Remains(t \o d, l + n, FALSE)
  <2>1. Len(t \o d) <= l + n + 1
    BY <1>5, <1>6
  <2>2. QED
    BY <1>5, <2>1 DEF Remains
<1>9. \A x \in 1 .. l : (t \o d)[x] = b[x]
  BY <1>3, <1>4, <1>5, <1>7
<1>10. QED
  BY <1>1, <1>2, <1>4, <1>5, <1>8, <1>9 DEF c, l

\* What a proxy of version 4 answers, and one of version 5 when it is asked to connect.
LEMMA Answers4 ==
    ASSUME version = 4, NEW a \in Answers
    PROVE  /\ a.bytes \in Text /\ a.granted \in BOOLEAN
           /\ granted' = a.granted => Reply4(a.bytes, FALSE)'
<1>1. CASE a = Yes(<<0, 90>> \o Bytes(6))
  <2>1. <<0, 90>> \in Text /\ Len(<<0, 90>>) = 2
    BY DEF Text
  <2>2. a.bytes \in Text /\ a.granted /\ Remains(a.bytes, 8, FALSE) /\ a.bytes[2] = 90
    <3>1. PICK b \in Text : b = <<0, 90>>
      BY <2>1
    <3>2. Len(b) = 2 /\ 2 \in 1 .. Len(b) /\ b[2] = 90
      BY <3>1
    <3>3. a = Yes(b \o Bytes(6)) /\ Len(b) + 6 = 8
      BY <1>1, <3>1, <3>2
    <3>4. /\ Yes(b \o Bytes(6)).granted /\ Yes(b \o Bytes(6)).bytes \in Text
          /\ Remains(Yes(b \o Bytes(6)).bytes, Len(b) + 6, FALSE)
          /\ \A x \in 1 .. Len(b) : Yes(b \o Bytes(6)).bytes[x] = b[x]
      <4>1. 6 \in Nat
        OBVIOUS
      <4>2. QED
        BY <4>1, Granted
    <3>5. a.bytes[2] = 90
      BY <3>2, <3>3, <3>4
    <3>6. a.granted /\ a.bytes \in Text /\ Remains(a.bytes, 8, FALSE)
      BY <3>3, <3>4
    <3>7. QED
      BY <3>5, <3>6
  <2>3. QED
    BY <2>2, <1>1 DEF Reply4, Yes
<1>2. CASE a = No(<<0, 91>> \o Bytes(6))
  <2>1. PICK b \in Text : b = <<0, 91>>
    <3>1. <<0, 91>> \in Text
      BY DEF Text
    <3>2. QED
      BY <3>1
  <2>2. Len(b) = 2 /\ 2 \in 1 .. Len(b) /\ b[2] = 91
    BY <2>1
  <2>3. Bytes(6) \in Text
    BY DEF Bytes, Text
  <2>4. b \o Bytes(6) \in Text /\ (b \o Bytes(6))[2] = 91
    <3>1. b \o Bytes(6) \in Text /\ \A x \in 1 .. Len(b) : (b \o Bytes(6))[x] = b[x]
      BY <2>3, Joined
    <3>2. QED
      BY <2>2, <3>1, ZenonT(40)
  <2>5. a.bytes = b \o Bytes(6) /\ a.granted = FALSE
    BY <1>2, <2>1 DEF No
  <2>6. QED
    BY <2>4, <2>5 DEF Reply4
<1>3. Answers = {Yes(<<0, 90>> \o Bytes(6)), No(<<0, 91>> \o Bytes(6))}
  BY DEF Answers
<1>4. QED
  BY <1>1, <1>2, <1>3

LEMMA Answers5 ==
    ASSUME ConnectAssumption, version = 5, answered = 1, NEW a \in Answers
    PROVE  /\ a.bytes \in Text /\ a.granted \in BOOLEAN
           /\ granted' = a.granted => Reply5(a.bytes, FALSE)'
<1>1. ASSUME NEW t \in {1, 4}, a = Yes(<<5, 0, 0, t>> \o Bytes(IF t = 1 THEN 6 ELSE 18))
      PROVE  /\ a.bytes \in Text /\ a.granted \in BOOLEAN
             /\ granted' = a.granted => Reply5(a.bytes, FALSE)'
  <2>1. PICK b \in Text : b = <<5, 0, 0, t>>
    <3>1. <<5, 0, 0, t>> \in Text
      BY DEF Text
    <3>2. QED
      BY <3>1
  <2>2. Len(b) = 4 /\ (\A i \in 1 .. 4 : i \in 1 .. Len(b)) /\ b[1] = 5 /\ b[2] = 0 /\ b[3] = 0 /\ b[4] = t
    BY <2>1
  <2>3. PICK m \in Nat : m = IF t = 1 THEN 6 ELSE 18
    OBVIOUS
  <2>4. a = Yes(b \o Bytes(m)) /\ Len(b) + m = IF t = 1 THEN 10 ELSE 22
    BY <1>1, <2>1, <2>2, <2>3
  <2>5. /\ a.bytes \in Text /\ a.granted /\ Remains(a.bytes, Len(b) + m, FALSE)
        /\ \A i \in 1 .. Len(b) : a.bytes[i] = b[i]
    BY <2>4, Granted
  <2>6. Begins(a.bytes, t)
    BY <2>2, <2>5 DEF Begins
  <2>7. a.granted = TRUE
    BY <1>1 DEF Yes
  <2>8. QED
    BY <2>4, <2>5, <2>6, <2>7 DEF Reply5
<1>2. ASSUME NEW n \in Names, a = Yes(<<5, 0, 0, 3, n>> \o Bytes(IF n > 127 THEN 3 ELSE n + 2))
      PROVE  /\ a.bytes \in Text /\ a.granted \in BOOLEAN
             /\ granted' = a.granted => Reply5(a.bytes, FALSE)'
  <2>1. PICK b \in Text : b = <<5, 0, 0, 3, n>>
    <3>1. n \in Int
      BY ToldLengths
    <3>2. <<5, 0, 0, 3, n>> \in Text
      BY <3>1 DEF Text
    <3>3. QED
      BY <3>2
  <2>2. /\ Len(b) = 5 /\ (\A i \in 1 .. 5 : i \in 1 .. Len(b))
        /\ b[1] = 5 /\ b[2] = 0 /\ b[3] = 0 /\ b[4] = 3 /\ b[5] = n
    BY <2>1
  <2>3. a = Yes(b \o Bytes(Told(n))) /\ Told(n) \in Nat
    BY <1>2, <2>1, ToldLengths DEF Told
  <2>4. /\ a.bytes \in Text /\ a.granted /\ Remains(a.bytes, Len(b) + Told(n), FALSE)
        /\ \A i \in 1 .. Len(b) : a.bytes[i] = b[i]
    BY <2>3, Granted
  <2>5. Begins(a.bytes, 3) /\ a.bytes[5] = n
    BY <2>2, <2>4 DEF Begins
  <2>6. NameTold(a.bytes, 5, FALSE)
    BY <2>2, <2>4, <2>5 DEF NameTold
  <2>7. a.granted = TRUE
    BY <1>2 DEF Yes
  <2>8. QED
    BY <2>4, <2>5, <2>6, <2>7 DEF Reply5
<1>3. ASSUME a \in {No(<<5, 1, 0, 1>> \o Bytes(6)), No(<<5, 0, 0, 2>>), No(<<5, 0, 1, 1>>), No(<<4, 0, 0, 1>>)}
      PROVE  /\ a.bytes \in Text /\ a.granted \in BOOLEAN
             /\ granted' = a.granted => Reply5(a.bytes, FALSE)'
  <2>1. a.granted = FALSE
    BY <1>3 DEF No
  <2>2. PICK n \in {<<5, 1, 0, 1>> \o Bytes(6), <<5, 0, 0, 2>>, <<5, 0, 1, 1>>, <<4, 0, 0, 1>>} : a = No(n)
    BY <1>3
  <2>3. <<5, 1, 0, 1>> \in Text /\ <<5, 0, 0, 2>> \in Text /\ <<5, 0, 1, 1>> \in Text /\ <<4, 0, 0, 1>> \in Text
    BY DEF Text
  <2>4. Bytes(6) \in Text
    BY DEF Bytes, Text
  <2>5. n \in Text
    <3>1. <<5, 1, 0, 1>> \o Bytes(6) \in Text
      BY <2>3, <2>4, Joined
    <3>2. QED
      BY <2>2, <2>3, <3>1
  <2>6. ASSUME granted' = FALSE PROVE Reply5(n, FALSE)'
    <3>1. CASE n = <<5, 1, 0, 1>> \o Bytes(6)
      <4>1. PICK b \in Text : b = <<5, 1, 0, 1>>
        BY <2>3
      <4>2. Len(b) = 4 /\ 2 \in 1 .. Len(b) /\ b[2] = 1
        BY <4>1
      <4>3. \A i \in 1 .. Len(b) : (b \o Bytes(6))[i] = b[i]
        BY <2>4, Joined
      <4>4. n[2] = 1
        BY <3>1, <4>1, <4>2, <4>3
      <4>5. QED
        BY <2>6, <4>4 DEF Reply5
    <3>2. CASE n # <<5, 1, 0, 1>> \o Bytes(6)
      <4>1. n[4] = 2 \/ n[3] = 1 \/ n[1] = 4
        BY <2>2, <3>2
      <4>2. QED
        BY <2>6, <4>1 DEF Reply5
    <3>3. QED
      BY <3>1, <3>2
  <2>7. a.bytes = n
    BY <2>2 DEF No
  <2>8. QED
    BY <2>1, <2>5, <2>6, <2>7
<1>4. QED
  <2>1. a \in {Yes(<<5, 0, 0, 1>> \o Bytes(6)), Yes(<<5, 0, 0, 4>> \o Bytes(18)),
               No(<<5, 1, 0, 1>> \o Bytes(6)), No(<<5, 0, 0, 2>>), No(<<5, 0, 1, 1>>), No(<<4, 0, 0, 1>>)}
             \cup {Yes(<<5, 0, 0, 3, n>> \o Bytes(IF n > 127 THEN 3 ELSE n + 2)) : n \in Names}
    BY DEF Answers
  <2>2. CASE a = Yes(<<5, 0, 0, 1>> \o Bytes(6))
    BY <1>1, <2>2
  <2>3. CASE a = Yes(<<5, 0, 0, 4>> \o Bytes(18))
    BY <1>1, <2>3
  <2>4. QED
    BY <1>2, <1>3, <2>1, <2>2, <2>3

\* An answer comes when nothing else is to be read, and only while the call goes on.
LEMMA AnswerStep == ASSUME ConnectAssumption, ConnectInv, Answer PROVE ConnectInv'
<1>1. PICK a \in Answers : wire' = wire \o a.bytes /\ granted' = a.granted
  BY DEF Answer
<1>2. /\ open /\ ~ closed /\ answered < asked.proxy /\ answered' = answered + 1
      /\ UNCHANGED <<arrived, closed, call, proxies>>
  BY DEF Answer
<1>3. ret = "none" /\ stage \notin Unopened /\ Ahead(arrived \o wire, closed)
  <2>1. ~ open \/ answered = asked.proxy \/ ret = "none"
    BY DEF ConnectInv, Returned
  <2>2. asked.proxy \in Nat
    BY DEF ConnectInv, ConnectTypeOK
  <2>3. ret = "none"
    BY <1>2, <2>1, <2>2
  <2>4. QED
    BY <1>2, <2>3 DEF ConnectInv, Underway
<1>4. /\ stage \in {"grant4", "method", "reply"} /\ arrived \o wire = <<>>
      /\ \/ stage = "grant4" /\ version = 4 /\ answered = 0 /\ asked.proxy = 1
         \/ stage = "method" /\ version = 5 /\ answered = 0 /\ asked.proxy = 1
         \/ stage = "reply" /\ version = 5 /\ answered = 1 /\ asked.proxy = 2
  <2>1. stage \in CallStages
    BY DEF ConnectInv, ConnectTypeOK
  <2>2. stage \notin Unasked \cup {"request", "length", "bound", "bound4", "bound16", "port"}
    BY <1>2, <1>3 DEF Ahead
  <2>3. stage \in {"grant4", "method", "reply"}
    BY <2>1, <2>2 DEF CallStages, Unasked, Unopened
  <2>4. QED
    BY <1>2, <1>3, <2>3 DEF Ahead, ConnectInv, Underway, Fourth, Fifth
<1>5. arrived = <<>> /\ wire = <<>>
  <2>1. arrived \in Text /\ wire \in Text
    BY DEF ConnectInv, ConnectTypeOK
  <2>2. QED
    BY <1>4, <2>1, ConcatEqualIffEmpty DEF Text
<1>6. /\ a.bytes \in Text /\ a.granted \in BOOLEAN
      /\ stage = "grant4" => Reply4(a.bytes, FALSE)'
      /\ stage = "method" => a.granted = FALSE /\ Len(a.bytes) <= 2
      /\ stage = "reply" => Reply5(a.bytes, FALSE)'
  <2>1. CASE stage = "grant4"
    BY <1>1, <1>4, <2>1, Answers4
  <2>2. CASE stage = "method"
    <3>1. Answers = {No(<<5, 0>>), No(<<5, 255>>), No(<<4, 0>>)}
      BY <1>4, <2>2 DEF Answers
    <3>2. PICK b \in {<<5, 0>>, <<5, 255>>, <<4, 0>>} : a = No(b)
      BY <3>1
    <3>3. b \in Text /\ Len(b) = 2
      <4>1. <<5, 0>> \in Text /\ <<5, 255>> \in Text /\ <<4, 0>> \in Text
        BY DEF Text
      <4>2. QED
        BY <3>2, <4>1
    <3>4. a.bytes = b /\ a.granted = FALSE
      BY <3>2 DEF No
    <3>5. Len(a.bytes) <= 2
      <4>1. PICK k : k = Len(b)
        OBVIOUS
      <4>2. k <= 2 /\ Len(a.bytes) = k
        BY <3>3, <3>4, <4>1
      <4>3. QED
        BY <4>2
    <3>6. QED
      BY <2>2, <3>3, <3>4, <3>5
  <2>3. CASE stage = "reply"
    BY <1>1, <1>4, <2>3, Answers5
  <2>4. QED
    BY <1>4, <2>1, <2>2, <2>3
<1>7. wire' = a.bytes /\ arrived' \o wire' = a.bytes /\ wire' \in Text /\ granted' \in BOOLEAN
  <2>1. \A t \in Text : <<>> \o t = t
    BY ConcatEmptySeq DEF Text
  <2>2. QED
    BY <1>1, <1>2, <1>5, <1>6, <2>1
<1>8. ConnectTypeOK'
  BY <1>2, <1>7 DEF ConnectInv, ConnectTypeOK, call, proxies
<1>9. Underway'
  <2>1. /\ stage = "grant4" => Reply4(a.bytes, closed)'
        /\ stage = "reply" => Reply5(a.bytes, closed)'
    <3>1. closed' = FALSE
      BY <1>2 DEF ConnectInv, ConnectTypeOK
    <3>2. QED
      BY <1>6, <3>1
  <2>2. answered' = asked'.proxy /\ asked' = asked /\ stage' = stage
    BY <1>2, <1>4 DEF call
  <2>3. Ahead(a.bytes, closed)'
    BY <1>1, <1>4, <1>6, <2>1, <2>2 DEF Ahead, Unasked, Unopened
  <2>4. QED
    BY <1>2, <1>7, <2>3 DEF ConnectInv, Underway, call
<1>10. Returned'
  BY <1>2, <1>3 DEF ConnectInv, Returned, SocketsClosed, GrantIsTaken, call
<1>11. NamesKept'
  BY <1>2 DEF ConnectInv, NamesKept, call, proxies
<1>12. QED
  BY <1>8, <1>9, <1>10, <1>11 DEF ConnectInv

--------------------------------------------------------------------------------
(* What is read of an answer. *)

Readers == {"grant4", "method", "reply", "bound", "bound4", "bound16", "port"}

LEMMA RecvReads ==
    ASSUME ConnectInv, NEW s, NEW n \in Nat, NEW ok, NEW next, Recv(s, n, ok, next)
    PROVE  /\ ret = "none" /\ stage = s /\ Ahead(arrived \o wire, closed)
           /\ arrived \in Text /\ wire \in Text /\ arrived' \in Text /\ wire' = wire
           /\ arrived \o wire \in Text /\ arrived' \o wire' \in Text
           /\ Here(n) \in Nat /\ Here(n) <= n /\ Here(n) <= Len(arrived)
           /\ Rest(arrived \o wire, arrived' \o wire', Here(n))
           /\ Taken(n) \in Text /\ Len(Taken(n)) = Here(n)
           /\ \A x \in 1 .. Here(n) : Taken(n)[x] = (arrived \o wire)[x]
<1>1. arrived \in Text /\ wire \in Text /\ wire' = wire /\ ret = "none" /\ stage = s
  BY DEF ConnectInv, ConnectTypeOK, Recv, At
<1>2. arrived' = SubSeq(arrived, Here(n) + 1, Len(arrived)) /\ Taken(n) = SubSeq(arrived, 1, Here(n))
  BY DEF Recv, Taken
<1>3. PICK h, t, r : h = Here(n) /\ t = SubSeq(arrived, h + 1, Len(arrived)) /\ r = SubSeq(arrived, 1, h)
  OBVIOUS
<1>4. h = Least(n, Len(arrived)) /\ t = arrived' /\ r = Taken(n)
  BY <1>2, <1>3 DEF Here
<1>5. /\ h \in 0 .. Len(arrived) /\ h <= n /\ t \in Text /\ r \in Text /\ Len(r) = h
      /\ \A x \in 1 .. h : r[x] = (arrived \o wire)[x]
      /\ Rest(arrived \o wire, t \o wire, h)
  <2>1. IsRead(arrived, n, h, r, t)
    BY <1>3, <1>4 DEF IsRead
  <2>2. QED
    BY <1>1, <2>1, Reading
<1>6. h \in Nat /\ h <= Len(arrived)
  <2> DEFINE l == Len(arrived)
  <2>1. l \in Nat /\ h \in 0 .. l
    BY <1>1, <1>5 DEF Text
  <2> HIDE DEF l
  <2>2. h \in Nat /\ h <= l
    BY <2>1
  <2>3. QED
    BY <2>2 DEF l
<1>7. arrived \o wire \in Text /\ t \o wire \in Text
  BY <1>1, <1>5, Joined
<1>8. Ahead(arrived \o wire, closed)
  BY <1>1 DEF ConnectInv, Underway
<1>9. QED
  BY <1>1, <1>3, <1>4, <1>5, <1>6, <1>7, <1>8

LEMMA RecvTypes ==
    ASSUME ConnectInv, NEW s \in Readers, NEW n \in Nat, NEW ok, NEW next, next \in Fifth \cup {"true", "none"},
           Recv(s, n, ok, next), UNCHANGED length, ~ (Here(n) = n /\ ok) \/ next # "none"
    PROVE  ConnectTypeOK' /\ NamesKept'
<1>1. arrived' \in Text /\ stage = s /\ ret = "none"
  BY RecvReads
<1>2. /\ UNCHANGED <<dest, version, byName, asked, wire, closed, answered, granted, proxies, length>>
      /\ cut' \in BOOLEAN
  BY DEF Recv
<1>3. /\ stage' \in CallStages /\ ret' \in {"none", "true", "false"} /\ open' \in BOOLEAN
      /\ stage' # "idle" /\ stage' # "resolve"
  <2>1. open \in BOOLEAN /\ stage \in CallStages
    BY DEF ConnectInv, ConnectTypeOK
  <2>2. CASE Here(n) = n /\ ok
    BY <1>1, <2>1, <2>2 DEF Recv, Goes, Returns, CallStages, Fifth, Readers
  <2>3. CASE ~ (Here(n) = n /\ ok)
    BY <1>1, <2>1, <2>3 DEF Recv, Fails, Returns, Readers
  <2>4. QED
    BY <2>2, <2>3
<1>4. ConnectTypeOK'
  BY <1>1, <1>2, <1>3 DEF ConnectInv, ConnectTypeOK, proxies
<1>5. NamesKept'
  BY <1>2, <1>3 DEF ConnectInv, NamesKept, proxies
<1>6. QED
  BY <1>4, <1>5

LEMMA RecvFails ==
    ASSUME ConnectInv, NEW s \in Readers, NEW n \in Nat, NEW ok, NEW next, next \in Fifth \cup {"true", "none"},
           Recv(s, n, ok, next), UNCHANGED length, ~ (Here(n) = n /\ ok),
           granted => closed \/ (Here(n) < n /\ wire # <<>>) \/ length < 0
    PROVE  ConnectInv'
<1>1. stage = s /\ ret = "none"
  BY RecvReads
<1>2. /\ UNCHANGED <<stage, version, closed, answered, asked, granted, length>>
      /\ ret' = "false" /\ open' = FALSE /\ cut' = (cut \/ (Here(n) < n /\ wire # <<>>))
  BY DEF Recv, Fails, Returns
<1>3. Underway'
  BY <1>2 DEF Underway
<1>4. Returned'
  <2>1. SocketsClosed'
    BY <1>1, <1>2 DEF SocketsClosed, Readers
  <2>2. granted' => closed' \/ cut' \/ length' < 0
    BY <1>2
  <2>3. GrantIsTaken'
    BY <1>2, <2>2 DEF GrantIsTaken
  <2>4. QED
    BY <1>2, <2>1, <2>3 DEF Returned
<1>5. QED
  BY <1>3, <1>4, RecvTypes DEF ConnectInv

LEMMA RecvGoesOn ==
    ASSUME ConnectInv, NEW s \in Readers, NEW n \in Nat, NEW ok, NEW next, next \in Fifth, s \in Fifth,
           Recv(s, n, ok, next), UNCHANGED length, Here(n) = n /\ ok,
           stage' = next => Ahead(arrived \o wire, closed)'
    PROVE  ConnectInv'
<1>1. stage = s /\ ret = "none"
  BY RecvReads
<1>2. /\ UNCHANGED <<open, version, ret>> /\ stage' = next
  BY DEF Recv, Goes, Fifth
<1>3. Underway'
  <2>1. open /\ version = 5
    BY <1>1 DEF ConnectInv, Underway, Fifth, Unopened, Readers
  <2>2. stage' \notin Unopened /\ stage' \notin Fourth
    BY <1>2 DEF Fifth, Fourth, Unopened
  <2>3. QED
    BY <1>2, <2>1, <2>2 DEF Underway
<1>4. Returned'
  BY <1>1, <1>2 DEF Returned, SocketsClosed, GrantIsTaken
<1>5. ConnectTypeOK' /\ NamesKept'
  BY RecvTypes DEF Fifth
<1>6. QED
  BY <1>3, <1>4, <1>5 DEF ConnectInv

LEMMA RecvEnds ==
    ASSUME ConnectInv, NEW s \in Readers, NEW n \in Nat, NEW ok,
           Recv(s, n, ok, "true"), UNCHANGED length, Here(n) = n /\ ok,
           granted, answered = asked.proxy, Remains(arrived' \o wire', 0, closed)
    PROVE  ConnectInv'
<1>1. stage = s /\ ret = "none" /\ arrived' \o wire' \in Text
  BY RecvReads
<1>2. UNCHANGED <<open, stage, version, asked, answered, granted, closed>> /\ ret' = "true"
  BY DEF Recv, Returns
<1>3. Underway'
  BY <1>2 DEF Underway
<1>4. Returned'
  <2>1. open
    BY <1>1 DEF ConnectInv, Underway, Unopened, Readers
  <2>2. PICK t \in Text : t = arrived' \o wire'
    BY <1>1
  <2>3. t = <<DataByte>> \/ (closed /\ t = <<>>)
    <3>1. Len(t) \in Nat /\ Len(t) <= 1 /\ (~ closed => Len(t) = 1) /\ (Len(t) = 1 => t[1] = DataByte)
      BY <2>2 DEF Remains, Text
    <3>2. CASE Len(t) = 1
      <4>1. t = <<DataByte>>
        BY <3>1, <3>2 DEF Text, DataByte
      <4>2. QED
        BY <4>1
    <3>3. CASE Len(t) = 0
      <4>1. t = <<>>
        BY <3>3 DEF Text
      <4>2. QED
        BY <3>1, <3>3, <4>1
    <3>4. Len(t) = 1 \/ Len(t) = 0
      <4> DEFINE l == Len(t)
      <4>1. l \in Nat /\ l <= 1
        BY <3>1
      <4> HIDE DEF l
      <4>2. l = 1 \/ l = 0
        BY <4>1
      <4>3. QED
        BY <4>2 DEF l
    <3>5. QED
      BY <3>2, <3>3, <3>4
  <2>4. GrantIsTaken'
    BY <1>2, <2>2, <2>3 DEF GrantIsTaken
  <2>5. QED
    BY <1>2, <2>1, <2>4 DEF Returned, SocketsClosed
<1>5. ConnectTypeOK' /\ NamesKept'
  BY RecvTypes
<1>6. QED
  BY <1>3, <1>4, <1>5 DEF ConnectInv

LEMMA NothingToRead ==
    ASSUME NEW s \in Text, NEW t \in Text, NEW n \in Nat, Rest(s, t, n), s = <<>>
    PROVE  n = 0 /\ t = <<>>
<1>1. Len(s) = 0 /\ Len(t) = Len(s) - n /\ Len(t) \in Nat
  BY DEF Rest, Text
<1>2. n = 0 /\ Len(t) = 0
  BY <1>1
<1>3. QED
  BY <1>2 DEF Text

LEMMA ReadOn ==
    ASSUME ConnectInv, NEW s, NEW n \in Nat, NEW ok, NEW next, Recv(s, n, ok, next),
           NEW j \in Nat, NEW k \in Nat, k = n + j, Remains(arrived \o wire, k, closed)
    PROVE  /\ Here(n) = n => Remains(arrived' \o wire', j, closed)
           /\ Here(n) # n => Here(n) < n
           /\ Here(n) < n => closed \/ wire # <<>>
<1>1. /\ arrived \in Text /\ wire \in Text /\ arrived \o wire \in Text /\ arrived' \o wire' \in Text
      /\ Here(n) \in Nat /\ Here(n) <= n
      /\ Rest(arrived \o wire, arrived' \o wire', Here(n))
  BY RecvReads
<1>2. n \in 0 .. k /\ closed \in BOOLEAN /\ k - n = j
  BY DEF ConnectInv, ConnectTypeOK
<1>3. Here(n) = n => Remains(arrived' \o wire', k - n, closed)
  BY <1>1, <1>2, RemainsLess
<1>4. Here(n) < n => closed \/ wire # <<>>
  BY <1>1, <1>2, ReadShort DEF Here
<1>5. QED
  BY <1>1, <1>2, <1>3, <1>4

LEMMA PortStep ==
    ASSUME ConnectInv, NEW ok, ok, Recv("port", 2, ok, "true"), UNCHANGED length
    PROVE  ConnectInv'
<1>1. Ahead(arrived \o wire, closed) /\ stage = "port" /\ "port" \in Readers
  BY RecvReads DEF Readers
<1>2. Remains(arrived \o wire, 2, closed) /\ granted /\ answered = asked.proxy
  BY <1>1 DEF Ahead
<1>3. 2 = 2 + 0 /\ 0 \in Nat /\ 2 \in Nat
  OBVIOUS
<1>4. /\ Here(2) = 2 => Remains(arrived' \o wire', 0, closed)
      /\ Here(2) # 2 => Here(2) < 2
      /\ Here(2) < 2 => closed \/ wire # <<>>
  BY <1>2, <1>3, ReadOn
<1>5. CASE Here(2) = 2
  BY <1>1, <1>2, <1>4, <1>5, RecvEnds
<1>6. CASE Here(2) # 2
  BY <1>1, <1>4, <1>6, RecvFails
<1>7. QED
  BY <1>5, <1>6

LEMMA AddressStep ==
    ASSUME ConnectInv, NEW s, NEW n, NEW ok, ok, UNCHANGED length, Recv(s, n, ok, "port"),
           (s = "bound4" /\ n = 4) \/ (s = "bound16" /\ n = 16)
    PROVE  ConnectInv'
<1>1. n \in Nat /\ s \in Readers /\ s \in Fifth
  BY DEF Readers, Fifth
<1>2. Ahead(arrived \o wire, closed) /\ stage = s
  BY <1>1, RecvReads
<1>3. PICK k \in Nat : k = n + 2
  BY <1>1
<1>4. Remains(arrived \o wire, k, closed) /\ granted /\ answered = 2 /\ asked.proxy = 2
  BY <1>2, <1>3 DEF Ahead
<1>5. /\ Here(n) = n => Remains(arrived' \o wire', 2, closed)
      /\ Here(n) # n => Here(n) < n
      /\ Here(n) < n => closed \/ wire # <<>>
  BY <1>1, <1>3, <1>4, ReadOn
<1>6. UNCHANGED <<closed, granted, asked, answered>>
  BY DEF Recv
<1>7. CASE Here(n) = n
  <2>1. Remains(arrived' \o wire', 2, closed)
    BY <1>5, <1>7
  <2>2. stage' = "port" => Ahead(arrived \o wire, closed)'
    BY <1>4, <1>6, <2>1 DEF Ahead, Unasked, Unopened
  <2>3. QED
    BY <1>1, <1>7, <2>2, RecvGoesOn DEF Fifth
<1>8. CASE Here(n) # n
  BY <1>1, <1>5, <1>8, RecvFails DEF Fifth
<1>9. QED
  BY <1>7, <1>8

LEMMA Grant4Step ==
    ASSUME ConnectInv, NEW ok, ok <=> Taken(8)[2] = 90, Recv("grant4", 8, ok, "true"), UNCHANGED length
    PROVE  ConnectInv'
<1>1. /\ arrived \o wire \in Text /\ arrived' \o wire' \in Text /\ stage = "grant4"
      /\ Rest(arrived \o wire, arrived' \o wire', Here(8)) /\ Here(8) \in Nat /\ Here(8) <= 8
      /\ \A x \in 1 .. Here(8) : Taken(8)[x] = (arrived \o wire)[x]
      /\ Ahead(arrived \o wire, closed)
  BY RecvReads
<1>2. /\ asked.proxy = 1 /\ answered \in {0, 1} /\ "grant4" \in Readers
      /\ answered = 0 => arrived \o wire = <<>> /\ ~ granted
      /\ answered = 1 => Reply4(arrived \o wire, closed)
  BY <1>1 DEF Ahead, Readers
<1>3. Here(8) = 8 => 2 <= Len(arrived \o wire) /\ Taken(8)[2] = (arrived \o wire)[2] /\ answered = 1
  <2>1. ASSUME Here(8) = 8 PROVE 2 <= Len(arrived \o wire)
    <3> DEFINE l == Len(arrived \o wire) m == Len(arrived' \o wire')
    <3>1. l \in Nat /\ m \in Nat /\ m = l - 8
      BY <1>1, <2>1 DEF Rest, Text
    <3> HIDE DEF l, m
    <3>2. 2 <= l
      BY <3>1
    <3>3. QED
      BY <3>2 DEF l
  <2>2. ASSUME Here(8) = 8 PROVE answered = 1
    <3>1. arrived \o wire = <<>> => Here(8) = 0
      BY <1>1, NothingToRead
    <3>2. QED
      BY <1>2, <2>2, <3>1
  <2>3. ASSUME Here(8) = 8 PROVE Taken(8)[2] = (arrived \o wire)[2]
    <3>1. 2 \in 1 .. Here(8)
      BY <2>3
    <3>2. QED
      BY <1>1, <3>1
  <2>4. QED
    BY <2>1, <2>2, <2>3
<1>4. granted => /\ Remains(arrived \o wire, 8, closed)
                 /\ 2 <= Len(arrived \o wire) => (arrived \o wire)[2] = 90
  BY <1>2 DEF Reply4
<1>5. granted => /\ Here(8) = 8 => Remains(arrived' \o wire', 0, closed)
                 /\ Here(8) < 8 => closed \/ wire # <<>>
  <2>1. 8 = 8 + 0 /\ 0 \in Nat /\ 8 \in Nat
    OBVIOUS
  <2>2. ASSUME granted
        PROVE  /\ Here(8) = 8 => Remains(arrived' \o wire', 0, closed)
               /\ Here(8) < 8 => closed \/ wire # <<>>
    <3>1. Remains(arrived \o wire, 8, closed)
      BY <1>4, <2>2
    <3>2. QED
      BY <2>1, <3>1, ReadOn
  <2>3. QED
    BY <2>2
<1>6. Here(8) = 8 \/ Here(8) < 8
  BY <1>1
<1>7. CASE Here(8) = 8 /\ ok
  <2>1. granted
    BY <1>2, <1>3, <1>7 DEF Reply4
  <2>2. QED
    <3>1. Remains(arrived' \o wire', 0, closed) /\ answered = asked.proxy
      BY <1>2, <1>3, <1>5, <1>7, <2>1
    <3>2. QED
      BY <1>2, <1>7, <2>1, <3>1, RecvEnds
<1>8. CASE ~ (Here(8) = 8 /\ ok)
  <2>1. granted => closed \/ (Here(8) < 8 /\ wire # <<>>)
    BY <1>3, <1>4, <1>5, <1>6, <1>8
  <2>2. QED
    BY <1>2, <1>8, <2>1, RecvFails
<1>9. QED
  BY <1>7, <1>8

LEMMA MethodStep ==
    ASSUME ConnectInv, NEW ok, Recv("method", 2, ok, "request"),
           UNCHANGED length
    PROVE  ConnectInv'
<1>1. /\ arrived \o wire \in Text /\ arrived' \o wire' \in Text /\ stage = "method"
      /\ Rest(arrived \o wire, arrived' \o wire', Here(2)) /\ Here(2) \in Nat
      /\ Ahead(arrived \o wire, closed)
  BY RecvReads
<1>2. /\ asked.proxy = 1 /\ answered \in {0, 1} /\ ~ granted /\ "method" \in Readers /\ "method" \in Fifth
      /\ answered = 0 => arrived \o wire = <<>>
      /\ Len(arrived \o wire) <= 2
  BY <1>1 DEF Ahead, Readers, Fifth
<1>3. CASE Here(2) = 2 /\ ok
  <2>1. answered = 1
    <3>1. arrived \o wire = <<>> => Here(2) = 0
      BY <1>1, NothingToRead
    <3>2. QED
      BY <1>2, <1>3, <3>1
  <2>2. arrived' \o wire' = <<>>
    <3>1. PICK t \in Text : t = arrived' \o wire'
      BY <1>1
    <3>2. Len(t) = Len(arrived \o wire) - 2 /\ Len(t) \in Nat
      <4> DEFINE s == arrived \o wire
      <4>1. s \in Text /\ t \in Text /\ Rest(s, t, 2)
        BY <1>1, <1>3, <3>1
      <4> HIDE DEF s
      <4>2. Len(t) = Len(s) - 2
        BY <4>1 DEF Rest
      <4>3. Len(t) \in Nat
        BY <4>1 DEF Text
      <4>4. QED
        BY <4>2, <4>3 DEF s
    <3>3. Len(t) = 0
      <4> DEFINE l == Len(t) m == Len(arrived \o wire)
      <4>1. l \in Nat /\ l = m - 2 /\ m <= 2 /\ m \in Nat
        BY <1>1, <1>2, <3>2 DEF Text
      <4> HIDE DEF l, m
      <4>2. l = 0
        BY <4>1
      <4>3. QED
        BY <4>2 DEF l
    <3>4. QED
      BY <3>1, <3>3 DEF Text
  <2>3. UNCHANGED <<closed, granted, asked, answered>>
    BY DEF Recv
  <2>4. stage' = "request" => Ahead(arrived \o wire, closed)'
    BY <1>2, <2>1, <2>2, <2>3 DEF Ahead, Unasked, Unopened
  <2>5. QED
    BY <1>2, <1>3, <2>4, RecvGoesOn DEF Fifth
<1>4. CASE ~ (Here(2) = 2 /\ ok)
  BY <1>2, <1>4, RecvFails DEF Fifth
<1>5. QED
  BY <1>3, <1>4

LEMMA BoundStep ==
    ASSUME ConnectInv, NEW n \in Nat, NEW ok, ok <=> length >= 0, length >= 0 => n = length,
           Recv("bound", n, ok, "port"), UNCHANGED length
    PROVE  ConnectInv'
<1>1. Ahead(arrived \o wire, closed) /\ stage = "bound" /\ "bound" \in Readers /\ "bound" \in Fifth
  BY RecvReads DEF Readers, Fifth
<1>2. granted /\ asked.proxy = 2 /\ answered = 2 /\ (length < 0 \/ Remains(arrived \o wire, length + 2, closed))
  BY <1>1 DEF Ahead
<1>3. length \in Int
  BY DEF ConnectInv, ConnectTypeOK
<1>4. ASSUME length >= 0
      PROVE  /\ Here(n) = n => Remains(arrived' \o wire', 2, closed)
             /\ Here(n) # n => Here(n) < n
             /\ Here(n) < n => closed \/ wire # <<>>
  <2>1. PICK k \in Nat : k = n + 2 /\ k = length + 2
    BY <1>3, <1>4
  <2>2. ~ (length < 0)
    BY <1>3, <1>4
  <2>3. Remains(arrived \o wire, k, closed)
    BY <1>2, <2>1, <2>2
  <2>4. QED
    BY <2>1, <2>3, ReadOn
<1>5. UNCHANGED <<closed, granted, asked, answered>>
  BY DEF Recv
<1>6. CASE Here(n) = n /\ ok
  <2>1. Remains(arrived' \o wire', 2, closed)
    BY <1>4, <1>6
  <2>2. stage' = "port" => Ahead(arrived \o wire, closed)'
    BY <1>2, <1>5, <2>1 DEF Ahead, Unasked, Unopened
  <2>3. QED
    BY <1>1, <1>6, <2>2, RecvGoesOn DEF Fifth
<1>7. CASE ~ (Here(n) = n /\ ok)
  <2>1. closed \/ (Here(n) < n /\ wire # <<>>) \/ length < 0
    <3>1. CASE length >= 0
      BY <1>4, <1>7, <3>1
    <3>2. CASE ~ (length >= 0)
      BY <1>3, <3>2
    <3>3. QED
      BY <3>1, <3>2
  <2>2. QED
    BY <1>1, <1>7, <2>1, RecvFails DEF Fifth
<1>8. QED
  BY <1>6, <1>7

LEMMA LengthStep == ASSUME ConnectAssumption, ConnectInv, Length PROVE ConnectInv'
<1>1. /\ stage = "length" /\ ret = "none" /\ May(1)
      /\ UNCHANGED <<dest, version, byName, open, asked, cut, wire, closed, answered, granted, proxies>>
      /\ \/ arrived = <<>> /\ ret' = "false" /\ UNCHANGED <<stage, arrived, length>>
         \/ /\ arrived # <<>> /\ stage' = "bound" /\ UNCHANGED ret
            /\ length' = SignedChar(Head(arrived)) /\ arrived' = Tail(arrived)
  BY DEF Length, At, Goes, Returns
<1>2. /\ open /\ version = 5 /\ granted /\ asked.proxy = 2 /\ answered = 2
      /\ NameTold(arrived \o wire, 1, closed) /\ arrived \in Text /\ wire \in Text
  BY <1>1 DEF ConnectInv, ConnectTypeOK, Underway, Ahead, Unopened, Fifth
<1>3. CASE arrived = <<>> /\ ret' = "false" /\ UNCHANGED <<stage, arrived, length>>
  <2>1. closed
    BY <1>1, <1>3 DEF May
  <2>2. ConnectTypeOK' /\ NamesKept'
    BY <1>1, <1>3 DEF ConnectInv, ConnectTypeOK, NamesKept, proxies
  <2>3. Underway' /\ Returned'
    BY <1>1, <1>2, <1>3, <2>1 DEF Underway, Returned, SocketsClosed, GrantIsTaken
  <2>4. QED
    BY <2>2, <2>3 DEF ConnectInv
<1>4. CASE /\ arrived # <<>> /\ stage' = "bound" /\ UNCHANGED ret
           /\ length' = SignedChar(Head(arrived)) /\ arrived' = Tail(arrived)
  <2> DEFINE l == Len(arrived)
  <2>1. l \in Nat /\ l # 0
    BY <1>2, <1>4 DEF Text
  <2>2. /\ Head(arrived) = arrived[1] /\ Tail(arrived) = SubSeq(arrived, 2, l)
    BY <1>2, <1>4, TailIsSubSeq DEF Text
  <2> HIDE DEF l
  <2>3. 1 = Least(1, l) /\ 1 \in 1 .. l /\ 1 + 1 = 2 /\ 1 \in 1 .. 1
    BY <2>1 DEF Least
  <2>4. PICK r : r = SubSeq(arrived, 1, 1)
    OBVIOUS
  <2>5. IsRead(arrived, 1, 1, r, arrived')
    BY <1>4, <2>2, <2>3, <2>4 DEF IsRead, l
  <2>6. arrived' \in Text /\ Rest(arrived \o wire, arrived' \o wire, 1)
    BY <1>2, <2>5, Reading
  <2>7. arrived \o wire \in Text /\ arrived' \o wire \in Text /\ (arrived \o wire)[1] = arrived[1]
        /\ Len(arrived \o wire) = l + Len(wire)
    BY <1>2, <2>3, <2>6, Joined DEF l
  <2>8. PICK n \in Names : /\ Remains(arrived \o wire, 1 + Told(n), closed)
                           /\ 1 <= Len(arrived \o wire) => (arrived \o wire)[1] = n
    BY <1>2 DEF NameTold
  <2>9. n = Head(arrived)
    <3> DEFINE m == Len(wire)
    <3>1. m \in Nat
      BY <1>2 DEF Text
    <3> HIDE DEF m
    <3>2. 1 <= l + m
      BY <2>1, <3>1
    <3>3. QED
      BY <2>2, <2>7, <2>8, <3>2 DEF m
  <2>10. PICK k \in Nat : k = 1 + Told(n) /\ k - 1 = Told(n) /\ 1 \in 0 .. k
    BY ToldLengths
  <2>11. Remains(arrived' \o wire, Told(n), closed)
    BY <2>6, <2>7, <2>8, <2>10, RemainsLess
  <2>12. length' \in Int /\ (length' < 0 \/ Told(n) = length' + 2)
    <3>1. n \in 0 .. 255
      BY ToldLengths
    <3>2. length' = IF n >= 128 THEN n - 256 ELSE n
      BY <1>4, <2>9 DEF SignedChar
    <3>3. Told(n) = IF n > 127 THEN 3 ELSE n + 2
      BY DEF Told
    <3>4. CASE n >= 128
      BY <3>1, <3>2, <3>4
    <3>5. CASE n < 128
      BY <3>1, <3>2, <3>3, <3>5
    <3>6. n >= 128 \/ n < 128
      BY <3>1
    <3>7. QED
      BY <3>4, <3>5, <3>6
  <2>13. Ahead(arrived \o wire, closed)'
    BY <1>1, <1>2, <1>4, <2>11, <2>12 DEF Ahead, Unasked, Unopened
  <2>14. Underway'
    BY <1>1, <1>2, <1>4, <2>13 DEF Underway, Unopened, Fourth
  <2>15. ConnectTypeOK' /\ NamesKept'
    BY <1>1, <1>4, <2>6, <2>12 DEF ConnectInv, ConnectTypeOK, NamesKept, proxies, CallStages
  <2>16. Returned'
    BY <1>1, <1>4 DEF Returned, SocketsClosed, GrantIsTaken
  <2>17. QED
    BY <2>14, <2>15, <2>16 DEF ConnectInv
<1>5. QED
  BY <1>1, <1>3, <1>4

\* What a reply says, and what comes after it.
Says(r, ok, next) ==
    /\ next \in {"none", "bound4", "length", "bound16"}
    /\ next = "bound4" => r[4] = 1
    /\ next = "length" => r[4] = 3
    /\ next = "bound16" => r[4] = 4
    /\ ok => r[1] = 5 /\ r[2] = 0 /\ r[3] = 0 /\ next # "none"
    /\ Len(r) = 4 /\ r[1] = 5 /\ r[2] = 0 /\ r[3] = 0 /\ r[4] \in {1, 3, 4} => ok

LEMMA ReplyGranted ==
    ASSUME ConnectAssumption, NEW s \in Text, NEW t \in Text, Rest(s, t, 4), granted, NEW gone, Reply5(s, gone),
           NEW r, r[4] \in {1, 3, 4}, \A x \in 1 .. 4 : s[x] = r[x]
    PROVE  /\ r[4] = 1 => Remains(t, 6, gone)
           /\ r[4] = 4 => Remains(t, 18, gone)
           /\ r[4] = 3 => NameTold(t, 1, gone)
<1> DEFINE l == Len(s) m == Len(t)
<1>1. l \in Nat /\ m \in Nat /\ m = l - 4 /\ (\A x \in 1 .. m : t[x] = s[x + 4])
  BY DEF Rest, Text
<1> HIDE DEF l, m
<1>2. 4 <= l /\ (1 <= m => 1 \in 1 .. m /\ 5 <= l /\ 1 + 4 = 5)
  BY <1>1
<1>3. s[4] = r[4]
  OBVIOUS
<1>4. \A c : Begins(s, c) => r[4] = c
  BY <1>2, <1>3 DEF Begins, l
<1>5. CASE Remains(s, 10, gone) /\ Begins(s, 1)
  <2>1. Remains(t, 10 - 4, gone)
    BY <1>5, RemainsLess
  <2>2. QED
    BY <1>4, <1>5, <2>1
<1>6. CASE Remains(s, 22, gone) /\ Begins(s, 4)
  <2>1. Remains(t, 22 - 4, gone)
    BY <1>6, RemainsLess
  <2>2. QED
    BY <1>4, <1>6, <2>1
<1>7. CASE NameTold(s, 5, gone) /\ Begins(s, 3)
  <2>1. PICK n \in Names : Remains(s, 5 + Told(n), gone) /\ (5 <= Len(s) => s[5] = n)
    BY <1>7 DEF NameTold
  <2>2. PICK k \in Nat : k = 5 + Told(n) /\ k - 4 = 1 + Told(n) /\ 4 \in 0 .. k
    BY ToldLengths
  <2>3. Remains(t, k - 4, gone)
    BY <2>1, <2>2, RemainsLess
  <2>4. 1 <= m => t[1] = s[5] /\ s[5] = n
    BY <1>1, <1>2, <2>1 DEF l
  <2>5. NameTold(t, 1, gone)
    BY <2>2, <2>3, <2>4 DEF NameTold, m
  <2>6. QED
    BY <1>4, <1>7, <2>5
<1>8. QED
  BY <1>5, <1>6, <1>7 DEF Reply5

LEMMA ReplyStep ==
    ASSUME ConnectAssumption, ConnectInv, NEW ok, NEW next, Says(Taken(4), ok, next),
           Recv("reply", 4, ok, next), UNCHANGED length
    PROVE  ConnectInv'
<1>1. PICK s, t : s = arrived \o wire /\ t = arrived' \o wire'
  OBVIOUS
<1>2. /\ s \in Text /\ t \in Text /\ Rest(s, t, Here(4)) /\ Here(4) \in Nat /\ Here(4) <= 4
      /\ Ahead(s, closed) /\ stage = "reply" /\ "reply" \in Readers /\ "reply" \in Fifth
      /\ Len(Taken(4)) = Here(4)
      /\ \A x \in 1 .. Here(4) : Taken(4)[x] = s[x]
  BY <1>1, RecvReads DEF Readers, Fifth
<1>3. /\ asked.proxy = 2 /\ answered \in {1, 2}
      /\ answered = 1 => s = <<>> /\ ~ granted
      /\ answered = 2 => Reply5(s, closed)
  BY <1>2 DEF Ahead
<1>4. next \in Fifth \cup {"none"}
  BY DEF Says, Fifth
<1>5. CASE Here(4) = 4
  <2>1. answered = 2
    <3>1. s = <<>> => Here(4) = 0
      BY <1>2, NothingToRead
    <3>2. QED
      BY <1>3, <1>5, <3>1
  <2>2. Rest(s, t, 4) /\ (\A x \in 1 .. 4 : s[x] = Taken(4)[x]) /\ Len(Taken(4)) = 4
    BY <1>2, <1>5
  <2>3. 4 <= Len(s)
    <3> DEFINE l == Len(s) m == Len(t)
    <3>1. l \in Nat /\ m \in Nat /\ m = l - 4
      BY <1>2, <2>2 DEF Rest, Text
    <3> HIDE DEF l, m
    <3>2. 4 <= l
      BY <3>1
    <3>3. QED
      BY <3>2 DEF l
  <2>4. CASE ok
    <3>1. next # "none" /\ Taken(4)[4] \in {1, 3, 4}
          /\ Taken(4)[1] = 5 /\ Taken(4)[2] = 0 /\ Taken(4)[3] = 0
      BY <2>4 DEF Says
    <3>2. granted
      BY <1>3, <2>1, <2>2, <2>3, <3>1 DEF Reply5
    <3>3. /\ Taken(4)[4] = 1 => Remains(t, 6, closed)
          /\ Taken(4)[4] = 4 => Remains(t, 18, closed)
          /\ Taken(4)[4] = 3 => NameTold(t, 1, closed)
      BY <1>2, <1>3, <2>1, <2>2, <3>1, <3>2, ReplyGranted
    <3>4. UNCHANGED <<closed, granted, asked, answered>>
      BY DEF Recv
    <3>5. stage' = next => Ahead(t, closed)'
      BY <1>3, <2>1, <3>1, <3>2, <3>3, <3>4 DEF Ahead, Says, Unasked, Unopened
    <3>6. stage' = next => Ahead(arrived \o wire, closed)'
      BY <1>1, <3>5
    <3>7. QED
      BY <1>2, <1>4, <1>5, <2>4, <3>1, <3>6, RecvGoesOn
  <2>5. CASE ~ ok
    <3>1. ~ granted
      <4>1. ~ (s[1] = 5 /\ s[2] = 0 /\ s[3] = 0 /\ s[4] \in {1, 3, 4})
        BY <2>2, <2>5 DEF Says
      <4>2. QED
        BY <1>3, <2>1, <2>3, <4>1 DEF Reply5, Begins
    <3>2. QED
      BY <1>2, <1>4, <2>5, <3>1, RecvFails
  <2>6. QED
    BY <2>4, <2>5
<1>6. CASE Here(4) # 4
  <2>1. granted => closed \/ (Here(4) < 4 /\ wire # <<>>)
    <3>1. SUFFICES ASSUME granted PROVE closed \/ (Here(4) < 4 /\ wire # <<>>)
      OBVIOUS
    <3>2. Reply5(s, closed)
      BY <1>3, <3>1
    <3>3. PICK k \in Nat : 4 <= k /\ Remains(s, k, closed)
      <4>1. CASE Remains(s, 10, closed)
        BY <4>1
      <4>2. CASE Remains(s, 22, closed)
        BY <4>2
      <4>3. CASE NameTold(s, 5, closed)
        <5>1. PICK n \in Names : Remains(s, 5 + Told(n), closed)
          BY <4>3 DEF NameTold
        <5>2. 5 + Told(n) \in Nat /\ 4 <= 5 + Told(n)
          BY ToldLengths
        <5>3. QED
          BY <5>1, <5>2
      <4>4. QED
        BY <3>1, <3>2, <4>1, <4>2, <4>3 DEF Reply5
    <3>4. PICK j \in Nat : k = 4 + j
      <4>1. k - 4 \in Nat /\ k = 4 + (k - 4)
        BY <3>3
      <4>2. QED
        BY <4>1
    <3>5. Here(4) < 4 => closed \/ wire # <<>>
      BY <1>1, <3>3, <3>4, ReadOn
    <3>6. QED
      BY <1>2, <1>6, <3>5
  <2>2. QED
    BY <1>2, <1>4, <1>6, <2>1, RecvFails
<1>7. QED
  BY <1>5, <1>6

--------------------------------------------------------------------------------
(* All of it. *)

\* A condition of what is read is one or is not.
LEMMA RecvIf ==
    ASSUME NEW s, NEW n, NEW cond, NEW next, Recv(s, n, cond, next)
    PROVE  \E ok : (ok <=> cond) /\ Recv(s, n, ok, next)
  OBVIOUS

LEMMA Socks4Step == ASSUME ConnectInv, Socks4 PROVE ConnectInv'
<1>1. CASE Send("socks4", "grant4")
  BY <1>1, SendStep
<1>2. CASE /\ At("socks4") /\ dest.net # "ipv4" /\ Fails
           /\ UNCHANGED <<dest, version, byName, length, asked, cut>> /\ Same
  <2>1. /\ stage = "socks4" /\ ret = "none" /\ ret' = "false" /\ open' = FALSE
        /\ UNCHANGED <<stage, dest, version, byName, length, asked, cut, proxies, peer>>
    BY <1>2 DEF At, Fails, Returns, Same
  <2>2. ~ granted
    BY <2>1 DEF ConnectInv, Underway, Ahead, Unasked
  <2>3. ConnectTypeOK' /\ NamesKept'
    BY <2>1 DEF ConnectInv, ConnectTypeOK, NamesKept, proxies, peer
  <2>4. Underway' /\ Returned'
    BY <2>1, <2>2 DEF Underway, Returned, SocketsClosed, GrantIsTaken, peer
  <2>5. QED
    BY <2>3, <2>4 DEF ConnectInv
<1>3. CASE Recv("grant4", 8, Taken(8)[2] = 90, "true") /\ UNCHANGED length
  <2>1. PICK ok : (ok <=> Taken(8)[2] = 90) /\ Recv("grant4", 8, ok, "true")
    BY <1>3, RecvIf
  <2>2. QED
    BY <1>3, <2>1, Grant4Step
<1>4. QED
  BY <1>1, <1>2, <1>3 DEF Socks4

\* What the reply to a request says is what is read of it.
LEMMA ReplySays ==
    ASSUME NEW r \in Text, NEW next,
           next = CASE Len(r) < 4 -> "none"
                    [] Len(r) = 4 /\ r[4] = 1 -> "bound4"
                    [] Len(r) = 4 /\ r[4] = 3 -> "length"
                    [] Len(r) = 4 /\ r[4] = 4 -> "bound16"
                    [] OTHER -> "none",
           NEW ok, ok <=> SubSeq(r, 1, 3) = <<5, 0, 0>> /\ next # "none"
    PROVE  Says(r, ok, next)
<1>1. next # "none" => Len(r) = 4
  OBVIOUS
<1>2. /\ next = "bound4" => r[4] = 1
      /\ next = "length" => r[4] = 3
      /\ next = "bound16" => r[4] = 4
      /\ next \in {"none", "bound4", "length", "bound16"}
  OBVIOUS
<1>3. Len(r) = 4 /\ r[4] \in {1, 3, 4} => next # "none"
  OBVIOUS
<1>4. ASSUME Len(r) = 4
      PROVE  SubSeq(r, 1, 3) = <<5, 0, 0>> <=> r[1] = 5 /\ r[2] = 0 /\ r[3] = 0
  <2>1. PICK t : t = SubSeq(r, 1, 3)
    OBVIOUS
  <2>2. t \in Text /\ Len(t) = 3 /\ \A x \in 1 .. 3 : t[x] = r[x]
    <3>1. 3 \in 0 .. Len(r)
      BY <1>4
    <3>2. QED
      BY <2>1, <3>1, Subsequence
  <2>3. <<5, 0, 0>> \in Text /\ Len(<<5, 0, 0>>) = 3
    BY DEF Text
  <2>4. t[1] = 5 /\ t[2] = 0 /\ t[3] = 0 => t = <<5, 0, 0>>
    <3>1. PICK u \in Text : u = <<5, 0, 0>>
      BY <2>3
    <3>2. Len(u) = 3 /\ u[1] = 5 /\ u[2] = 0 /\ u[3] = 0
      BY <3>1
    <3>3. t[1] = 5 /\ t[2] = 0 /\ t[3] = 0 => \A x \in 1 .. 3 : t[x] = u[x]
      BY <3>2
    <3>4. (\A x \in 1 .. 3 : t[x] = u[x]) => t = u
      BY <2>2, <3>2, SeqEqual DEF Text
    <3>5. QED
      BY <3>1, <3>3, <3>4
  <2>5. t = <<5, 0, 0>> => t[1] = 5 /\ t[2] = 0 /\ t[3] = 0
    OBVIOUS
  <2>6. QED
    BY <2>1, <2>2, <2>4, <2>5
<1>5. QED
  BY <1>1, <1>2, <1>3, <1>4 DEF Says

LEMMA Socks5MethodStep == ASSUME ConnectInv, Socks5Method PROVE ConnectInv'
<1>1. CASE Send("socks5", "method")
  BY <1>1, SendStep
<1>2. CASE Recv("method", 2, Taken(2) = <<5, 0>>, "request") /\ UNCHANGED length
  <2>1. PICK ok : Recv("method", 2, ok, "request")
    BY <1>2
  <2>2. QED
    BY <1>2, <2>1, MethodStep
<1>3. QED
  BY <1>1, <1>2 DEF Socks5Method

LEMMA Socks5RequestStep == ASSUME ConnectAssumption, ConnectInv, Socks5Request PROVE ConnectInv'
<1>1. CASE Send("request", "reply")
  BY <1>1, SendStep
<1>2. CASE ~ Send("request", "reply")
  <2>1. PICK r : r = Taken(4)
    OBVIOUS
  <2>2. PICK next : next = CASE Len(r) < 4 -> "none"
                             [] Len(r) = 4 /\ r[4] = 1 -> "bound4"
                             [] Len(r) = 4 /\ r[4] = 3 -> "length"
                             [] Len(r) = 4 /\ r[4] = 4 -> "bound16"
                             [] OTHER -> "none"
    OBVIOUS
  <2>3. Recv("reply", 4, SubSeq(r, 1, 3) = <<5, 0, 0>> /\ next # "none", next) /\ UNCHANGED length
    BY <1>2, <2>1, <2>2 DEF Socks5Request
  <2>4. PICK ok : (ok <=> SubSeq(r, 1, 3) = <<5, 0, 0>> /\ next # "none") /\ Recv("reply", 4, ok, next)
    BY <2>3, RecvIf
  <2>5. r \in Text
    BY <2>1, <2>4, RecvReads
  <2>6. Says(r, ok, next)
    BY <2>2, <2>4, <2>5, ReplySays
  <2>7. QED
    BY <2>1, <2>3, <2>4, <2>6, ReplyStep
<1>3. QED
  BY <1>1, <1>2

LEMMA Socks5ReplyStep == ASSUME ConnectAssumption, ConnectInv, Socks5Reply PROVE ConnectInv'
<1>1. CASE Length
  BY <1>1, LengthStep
<1>2. CASE Bound
  <2>1. PICK n : n = IF length < 0 THEN Len(arrived) + 1 ELSE length
    OBVIOUS
  <2>2. n \in Nat /\ (length >= 0 => n = length)
    <3>1. length \in Int /\ Len(arrived) \in Nat
      BY DEF ConnectInv, ConnectTypeOK, Text
    <3>2. PICK l \in Nat : l = Len(arrived)
      BY <3>1
    <3>3. n = IF length < 0 THEN l + 1 ELSE length
      BY <2>1, <3>2
    <3>4. QED
      BY ONLY <3>1, <3>2, <3>3
  <2>3. Recv("bound", n, length >= 0, "port") /\ UNCHANGED length
    BY <1>2, <2>1 DEF Bound
  <2>4. PICK ok : (ok <=> length >= 0) /\ Recv("bound", n, ok, "port")
    BY <2>3, RecvIf
  <2>5. QED
    BY <2>2, <2>3, <2>4, BoundStep
<1>3. CASE Recv("bound4", 4, TRUE, "port") /\ UNCHANGED length
  <2>1. PICK ok : ok /\ Recv("bound4", 4, ok, "port")
    BY <1>3
  <2>2. QED
    BY <1>3, <2>1, AddressStep
<1>4. CASE Recv("bound16", 16, TRUE, "port") /\ UNCHANGED length
  <2>1. PICK ok : ok /\ Recv("bound16", 16, ok, "port")
    BY <1>4
  <2>2. QED
    BY <1>4, <2>1, AddressStep
<1>5. CASE Recv("port", 2, TRUE, "true") /\ UNCHANGED length
  <2>1. PICK ok : ok /\ Recv("port", 2, ok, "true")
    BY <1>5
  <2>2. QED
    BY <1>5, <2>1, PortStep
<1>6. QED
  BY <1>1, <1>2, <1>3, <1>4, <1>5 DEF Socks5Reply

LEMMA ConnectStep ==
    ConnectAssumption /\ ConnectInv /\ (ConnectNext \/ UNCHANGED <<call, peer, proxies>>) => ConnectInv'
<1> SUFFICES ASSUME ConnectAssumption, ConnectInv, ConnectNext \/ UNCHANGED <<call, peer, proxies>>
             PROVE  ConnectInv'
  OBVIOUS
<1>1. CASE UNCHANGED <<call, peer, proxies>>
  BY <1>1 DEF ConnectInv, ConnectTypeOK, Underway, Ahead, Reply4, Reply5, Returned, SocketsClosed,
              GrantIsTaken, NamesKept, call, peer, proxies
<1>2. CASE \E d \in Destinations : ConnectSocketByName(d)
  BY <1>2, CallBegins
<1>3. CASE Steps
  BY <1>3, ResolveStep, OpeningStep, Socks4Step, Socks5MethodStep, Socks5RequestStep, Socks5ReplyStep
     DEF Steps
<1>4. CASE Settings
  BY <1>4, SettingsStep
<1>5. CASE Answer \/ Deliver \/ Close
  BY <1>5, AnswerStep, DeliverStep, CloseStep
<1>6. QED
  BY <1>1, <1>2, <1>3, <1>4, <1>5 DEF ConnectNext

LEMMA ConnectInvInit == ASSUME ConnectInit PROVE ConnectInv
<1>1. ConnectTypeOK
  <2>1. <<>> \in Text
    BY EmptySeq DEF Text
  <2>2. asked \in [dns : BOOLEAN, proxy : Nat]
    BY DEF ConnectInit
  <2>3. stage \in CallStages /\ ret \in {"none", "true", "false"} /\ length \in Int /\ answered \in Nat
    BY DEF ConnectInit, CallStages
  <2>4. open = FALSE /\ closed = FALSE /\ granted = FALSE /\ cut = FALSE /\ changed = FALSE /\ byName = FALSE
    BY DEF ConnectInit
  <2>5. arrived \in Text /\ wire \in Text
    BY <2>1 DEF ConnectInit
  <2>6. QED
    BY <2>2, <2>3, <2>4, <2>5 DEF ConnectTypeOK
<1>2. Underway
  <2>1. arrived \o wire = <<>>
    BY ConcatEmptySeq, EmptySeq DEF ConnectInit
  <2>2. QED
    BY <2>1 DEF ConnectInit, Underway, Ahead, Unasked, Unopened, Fourth, Fifth
<1>3. Returned /\ NamesKept
  BY DEF ConnectInit, Returned, SocketsClosed, GrantIsTaken, NamesKept
<1>4. QED
  BY <1>1, <1>2, <1>3 DEF ConnectInv

LEMMA ConnectInvTells == ASSUME ConnectInv PROVE ConnectionsHold
  BY DEF ConnectInv, Returned, NamesKept, ConnectionsHold, NamesStay

\* Whoever is at the other end, however its answers come and whatever is done to the
\* proxies meanwhile: sockets are closed, a grant is taken and a name is told to one server
\* at most (ConnectSocketByName, ConnectSocket, Socks4, Socks5).
THEOREM ConnectionsAreSafe == ASSUME ConnectAssumption PROVE ConnectSpec => []ConnectionsHold
<1>1. ConnectInit => ConnectInv
  BY ConnectInvInit
<1>2. ConnectInv /\ [ConnectNext]_<<call, peer, proxies>> => ConnectInv'
  BY ConnectStep
<1>3. ConnectInv => ConnectionsHold
  BY ConnectInvTells
<1>4. QED
  BY <1>1, <1>2, <1>3, PTL DEF ConnectSpec
--------------------------------------------------------------------------------
(* Programs that start: each step finds what it loads not loaded yet, and what the *)
(* files hold is as long as they say, or has a cause.                              *)

Maps == Program \X SuffixBits
File == 1 .. Chunks
Later == {"keystore", "wallet", "daemon", "mode"}

\* What is loaded where: each step finds what it loads not loaded yet.
LoadedInOrder ==
    \A p \in Program :
      /\ pc[p] \in Later \cup {"keymap", "open", "write"} => HuffCode[p]
      /\ pc[p] \in {"stopped", "config", "huffman", "keymap"} => KeyMap[p] = NoMap
      /\ pc[p] \in {"open", "write"} => KeyMap[p] # NoMap
      /\ pc[p] \in Later /\ Config[p] # 0 => KeyMap[p] # NoMap
      /\ pc[p] \in {"stopped", "config", "huffman", "keymap", "open", "write", "keystore"} =>
           Store[p] = NoMap
      /\ pc[p] \in {"wallet", "daemon", "mode"} => Store[p] = KeyMap[p]
      /\ pc[p] = "mode" => Wallet[p]
      /\ Wallet[p] => Config[p] # 0

\* Until the user edits it, everything is of the length that the configuration says.
OneLength ==
    edits = 0 =>
      /\ \A p \in Program : /\ Config[p] \in {0, bms_conf}
                            /\ KeyMap[p] # NoMap => KeyMap[p][2] = bms_conf
      /\ \A c \in File : keypair_map.chunks[c] # NoMap => keypair_map.chunks[c][2] = bms_conf

\* Somebody who writes has a file, and unless there was a race he alone writes in it.
OneWriter ==
    \A p \in Program : Writing(p) =>
      /\ keypair_map.exists
      /\ ~ raced =>
           /\ \A q \in Program : Writing(q) => q = p
           /\ \A c \in File : keypair_map.chunks[c] = IF c <= written[p] THEN KeyMap[p] ELSE NoMap

\* Whoever has come past the map has the one in the file.
SameMap ==
    edits = 0 /\ ~ raced =>
      \A p \in Program : pc[p] \in Later /\ KeyMap[p] # NoMap =>
         keypair_map.exists /\ \A c \in File : keypair_map.chunks[c] = KeyMap[p]

IInv == TypeOK /\ LoadedInOrder /\ OneLength /\ OneWriter /\ SameMap /\ DamageHasCause

LEMMA NoMapIsNone == NoMap \notin Maps
  BY DEF NoMap, Maps

LEMMA WholeIsSame ==
    ASSUME TypeOK, Whole(keypair_map)
    PROVE  /\ keypair_map.exists /\ keypair_map.chunks[1] \in Maps
           /\ \A c \in File : keypair_map.chunks[c] = keypair_map.chunks[1]
  BY StartupAssumption DEF Whole, Maps, File, TypeOK

LEMMA EmptyFiles ==
    /\ {Absent, Opened} \subseteq [exists : BOOLEAN, chunks : [File -> {NoMap} \cup Maps]]
    /\ ~ Absent.exists /\ Opened.exists
    /\ \A c \in File : Absent.chunks[c] = NoMap /\ Opened.chunks[c] = NoMap
  BY DEF Absent, Opened, NoMap, File

LEMMA InitIInv == ASSUME Init PROVE IInv
<1> USE StartupAssumption, NoMapIsNone, EmptyFiles DEF Init, Later, Maps, File
<1>1. TypeOK
  <2>1. keypair_map \in [exists : BOOLEAN, chunks : [1 .. Chunks -> {NoMap} \cup (Program \X SuffixBits)]]
    OBVIOUS
  <2>2. /\ bms_conf \in SuffixBits \cup {0}
        /\ pc \in [Program -> Places]
        /\ Config \in [Program -> SuffixBits \cup {0}]
        /\ HuffCode \in [Program -> BOOLEAN]
        /\ Wallet \in [Program -> BOOLEAN]
        /\ KeyMap \in [Program -> {NoMap} \cup Maps]
        /\ Store \in [Program -> {NoMap} \cup Maps]
    BY DEF Places
  <2>3. written \in [Program -> 0 .. Chunks]
    OBVIOUS
  <2>4. edits \in 0 .. MaxEdits /\ starts \in 0 .. MaxStarts
    OBVIOUS
  <2>5. died \in BOOLEAN /\ raced \in BOOLEAN
    OBVIOUS
  <2>6. QED
    BY <2>1, <2>2, <2>3, <2>4, <2>5 DEF TypeOK
<1>2. ~ keypair_map.exists /\ \A c \in File : keypair_map.chunks[c] = NoMap
  OBVIOUS
<1>3. LoadedInOrder /\ OneLength
  BY <1>2 DEF LoadedInOrder, OneLength
<1>4. OneWriter /\ SameMap /\ DamageHasCause
  BY <1>2 DEF OneWriter, SameMap, DamageHasCause, Writing
<1>5. QED
  BY <1>1, <1>3, <1>4 DEF IInv

LEMMA StartIInv == ASSUME IInv, NEW p \in Program, Start(p) PROVE IInv'
<1> USE StartupAssumption, NoMapIsNone DEF IInv, Maps, File, Later, Places, Writing
<1>1. TypeOK'
  BY DEF TypeOK, Start, files, loaded, Goto
<1>2. LoadedInOrder'
  BY DEF TypeOK, LoadedInOrder, Start, files, loaded, Goto
<1>3. OneLength'
  BY DEF TypeOK, OneLength, Start, files, loaded, Goto
<1>4. OneWriter'
  BY DEF TypeOK, OneWriter, Start, files, loaded, Goto
<1>5. SameMap'
  BY DEF TypeOK, SameMap, Start, files, loaded, Goto
<1>6. DamageHasCause'
  BY DEF TypeOK, DamageHasCause, Whole, Start, files, loaded, Goto
<1>7. QED
  BY <1>1, <1>2, <1>3, <1>4, <1>5, <1>6

LEMMA LoadConfigFileIInv == ASSUME IInv, NEW p \in Program, LoadConfigFile(p) PROVE IInv'
<1> USE StartupAssumption, NoMapIsNone DEF IInv, Maps, File, Later, Places, Writing
<1>1. TypeOK'
  BY DEF TypeOK, LoadConfigFile, files, history, Goto
<1>2. LoadedInOrder'
  BY DEF TypeOK, LoadedInOrder, LoadConfigFile, files, history, Goto
<1>3. OneLength'
  BY DEF TypeOK, OneLength, LoadConfigFile, files, history, Goto
<1>4. OneWriter'
  BY DEF TypeOK, OneWriter, LoadConfigFile, files, history, Goto
<1>5. SameMap'
  BY DEF TypeOK, SameMap, LoadConfigFile, files, history, Goto
<1>6. DamageHasCause'
  BY DEF TypeOK, DamageHasCause, Whole, LoadConfigFile, files, history, Goto
<1>7. QED
  BY <1>1, <1>2, <1>3, <1>4, <1>5, <1>6

LEMMA LoadHuffmanCodeIInv == ASSUME IInv, NEW p \in Program, LoadHuffmanCode(p) PROVE IInv'
<1> USE StartupAssumption, NoMapIsNone DEF IInv, Maps, File, Later, Places, Writing
<1>1. TypeOK'
  BY DEF TypeOK, LoadHuffmanCode, files, history, Goto
<1>2. LoadedInOrder'
  BY DEF TypeOK, LoadedInOrder, LoadHuffmanCode, files, history, Goto
<1>3. OneLength'
  BY DEF TypeOK, OneLength, LoadHuffmanCode, files, history, Goto
<1>4. OneWriter'
  BY DEF TypeOK, OneWriter, LoadHuffmanCode, files, history, Goto
<1>5. SameMap'
  BY DEF TypeOK, SameMap, LoadHuffmanCode, files, history, Goto
<1>6. DamageHasCause'
  BY DEF TypeOK, DamageHasCause, Whole, LoadHuffmanCode, files, history, Goto
<1>7. QED
  BY <1>1, <1>2, <1>3, <1>4, <1>5, <1>6

LEMMA SkipKeypairMapIInv == ASSUME IInv, NEW p \in Program, SkipKeypairMap(p) PROVE IInv'
<1> USE StartupAssumption, NoMapIsNone DEF IInv, Maps, File, Later, Places, Writing
<1>1. TypeOK'
  BY DEF TypeOK, SkipKeypairMap, files, loaded, history, Goto
<1>2. LoadedInOrder'
  BY DEF TypeOK, LoadedInOrder, SkipKeypairMap, files, loaded, history, Goto
<1>3. OneLength'
  BY DEF TypeOK, OneLength, SkipKeypairMap, files, loaded, history, Goto
<1>4. OneWriter'
  BY DEF TypeOK, OneWriter, SkipKeypairMap, files, loaded, history, Goto
<1>5. SameMap'
  BY DEF TypeOK, LoadedInOrder, SameMap, SkipKeypairMap, files, loaded, history, Goto
<1>6. DamageHasCause'
  BY DEF TypeOK, DamageHasCause, Whole, SkipKeypairMap, files, loaded, history, Goto
<1>7. QED
  BY <1>1, <1>2, <1>3, <1>4, <1>5, <1>6

LEMMA DeserializeKeypairMapIInv == ASSUME IInv, NEW p \in Program, DeserializeKeypairMap(p) PROVE IInv'
<1> USE StartupAssumption, NoMapIsNone DEF IInv, Maps, File, Later, Places, Writing
<1>1. TypeOK'
  BY DEF TypeOK, DeserializeKeypairMap, files, history, Goto, MapOf
<1>2. LoadedInOrder'
  BY WholeIsSame DEF TypeOK, LoadedInOrder, DeserializeKeypairMap, files, history, Goto, MapOf
<1>3. OneLength'
  BY DEF TypeOK, OneLength, DeserializeKeypairMap, files, history, Goto, MapOf
<1>4. OneWriter'
  BY DEF TypeOK, OneWriter, DeserializeKeypairMap, files, history, Goto, MapOf
<1>5. SameMap'
  BY WholeIsSame DEF TypeOK, SameMap, DeserializeKeypairMap, files, history, Goto, MapOf
<1>6. DamageHasCause'
  BY DEF TypeOK, DamageHasCause, Whole, DeserializeKeypairMap, files, history, Goto, MapOf
<1>7. QED
  BY <1>1, <1>2, <1>3, <1>4, <1>5, <1>6

LEMMA DeserializeThrowsIInv == ASSUME IInv, NEW p \in Program, DeserializeThrows(p) PROVE IInv'
<1> USE StartupAssumption, NoMapIsNone DEF IInv, Maps, File, Later, Places, Writing
<1>1. TypeOK'
  BY DEF TypeOK, DeserializeThrows, files, loaded, history, Goto, Unreadable
<1>2. LoadedInOrder'
  BY DEF TypeOK, LoadedInOrder, DeserializeThrows, files, loaded, history, Goto, Unreadable
<1>3. OneLength'
  BY DEF TypeOK, OneLength, DeserializeThrows, files, loaded, history, Goto, Unreadable
<1>4. OneWriter'
  BY DEF TypeOK, OneWriter, DeserializeThrows, files, loaded, history, Goto, Unreadable
<1>5. SameMap'
  BY DEF TypeOK, SameMap, DeserializeThrows, files, loaded, history, Goto, Unreadable
<1>6. DamageHasCause'
  BY DEF TypeOK, DamageHasCause, Whole, DeserializeThrows, files, loaded, history, Goto, Unreadable
<1>7. QED
  BY <1>1, <1>2, <1>3, <1>4, <1>5, <1>6

LEMMA GenerateKeypairMapIInv == ASSUME IInv, NEW p \in Program, GenerateKeypairMap(p) PROVE IInv'
<1> USE StartupAssumption, NoMapIsNone DEF IInv, Maps, File, Later, Places, Writing
<1>1. TypeOK'
  BY DEF TypeOK, GenerateKeypairMap, files, history, Goto, NewMap
<1>2. LoadedInOrder'
  BY DEF TypeOK, LoadedInOrder, GenerateKeypairMap, files, history, Goto, NewMap
<1>3. OneLength'
  BY DEF TypeOK, OneLength, GenerateKeypairMap, files, history, Goto, NewMap
<1>4. OneWriter'
  BY DEF TypeOK, OneWriter, GenerateKeypairMap, files, history, Goto, NewMap
<1>5. SameMap'
  BY DEF TypeOK, SameMap, GenerateKeypairMap, files, history, Goto, NewMap
<1>6. DamageHasCause'
  BY DEF TypeOK, DamageHasCause, Whole, GenerateKeypairMap, files, history, Goto, NewMap
<1>7. QED
  BY <1>1, <1>2, <1>3, <1>4, <1>5, <1>6

LEMMA OpenKeypairMapIInv == ASSUME IInv, NEW p \in Program, OpenKeypairMap(p) PROVE IInv'
<1> USE StartupAssumption, NoMapIsNone DEF IInv, Maps, File, Later, Places, Writing
<1>0. Opened.exists /\ \A c \in File : Opened.chunks[c] = NoMap
  BY EmptyFiles
<1>1. TypeOK'
  BY EmptyFiles DEF TypeOK, OpenKeypairMap, loaded, Goto
<1>2. LoadedInOrder'
  BY DEF TypeOK, LoadedInOrder, OpenKeypairMap, loaded, Goto
<1>3. OneLength'
  BY <1>0 DEF TypeOK, OneLength, OpenKeypairMap, loaded, Goto
<1>4. OneWriter'
  BY <1>0 DEF TypeOK, OneWriter, OpenKeypairMap, loaded, Goto
<1>5. SameMap'
  BY <1>0 DEF TypeOK, SameMap, OpenKeypairMap, loaded, Goto
<1>6. DamageHasCause'
  BY DEF TypeOK, DamageHasCause, Whole, OpenKeypairMap, loaded, Goto
<1>7. QED
  BY <1>1, <1>2, <1>3, <1>4, <1>5, <1>6

LEMMA WriteChunkIInv == ASSUME IInv, NEW p \in Program, WriteChunk(p) PROVE IInv'
<1> USE StartupAssumption, NoMapIsNone DEF IInv, Maps, File, Later, Places, Writing
<1>0. written[p] + 1 \in File /\ KeyMap[p] \in Maps
  BY DEF TypeOK, LoadedInOrder, WriteChunk, More
<1>1. TypeOK'
  <2>1. keypair_map' \in [exists : BOOLEAN, chunks : [1 .. Chunks -> {NoMap} \cup (Program \X SuffixBits)]]
    BY <1>0 DEF TypeOK, WriteChunk
  <2>2. written' \in [Program -> 0 .. Chunks]
    BY <1>0 DEF TypeOK, WriteChunk
  <2>3. QED
    BY <2>1, <2>2 DEF TypeOK, WriteChunk, loaded, history
<1>2. LoadedInOrder'
  BY DEF TypeOK, LoadedInOrder, WriteChunk, loaded, history, More
<1>3. OneLength'
  BY DEF TypeOK, OneLength, WriteChunk, loaded, history, More
<1>4. OneWriter'
  BY SMTT(30) DEF TypeOK, OneWriter, WriteChunk, loaded, history, More
<1>5. SameMap'
  BY <1>0 DEF TypeOK, OneWriter, SameMap, WriteChunk, loaded, history, More
<1>6. DamageHasCause'
  BY DEF TypeOK, DamageHasCause, Whole, WriteChunk, loaded, history, More
<1>7. QED
  BY <1>1, <1>2, <1>3, <1>4, <1>5, <1>6

LEMMA CloseKeypairMapIInv == ASSUME IInv, NEW p \in Program, CloseKeypairMap(p) PROVE IInv'
<1> USE StartupAssumption, NoMapIsNone DEF IInv, Maps, File, Later, Places, Writing
<1>0. ~ raced => Whole(keypair_map) /\ \A c \in File : keypair_map.chunks[c] = KeyMap[p]
  BY DEF TypeOK, LoadedInOrder, OneWriter, CloseKeypairMap, Done, Whole
<1>1. TypeOK'
  BY DEF TypeOK, CloseKeypairMap, files, loaded, history, Goto, Done
<1>2. LoadedInOrder'
  BY DEF TypeOK, LoadedInOrder, CloseKeypairMap, files, loaded, history, Goto, Done
<1>3. OneLength'
  BY DEF TypeOK, OneLength, CloseKeypairMap, files, loaded, history, Goto, Done
<1>4. OneWriter'
  BY DEF TypeOK, OneWriter, CloseKeypairMap, files, loaded, history, Goto, Done
<1>5. SameMap'
  BY <1>0 DEF TypeOK, SameMap, OneWriter, CloseKeypairMap, files, loaded, history, Goto, Done
<1>6. DamageHasCause'
  BY <1>0 DEF TypeOK, DamageHasCause, Whole, CloseKeypairMap, files, loaded, history, Goto, Done
<1>7. QED
  BY <1>1, <1>2, <1>3, <1>4, <1>5, <1>6

LEMMA LoadKeystoreIInv == ASSUME IInv, NEW p \in Program, LoadKeystore(p) PROVE IInv'
<1> USE StartupAssumption, NoMapIsNone DEF IInv, Maps, File, Later, Places, Writing
<1>1. TypeOK'
  BY DEF TypeOK, LoadKeystore, files, history, Goto
<1>2. LoadedInOrder'
  BY DEF TypeOK, LoadedInOrder, LoadKeystore, files, history, Goto
<1>3. OneLength'
  BY DEF TypeOK, OneLength, LoadKeystore, files, history, Goto
<1>4. OneWriter'
  BY DEF TypeOK, OneWriter, LoadKeystore, files, history, Goto
<1>5. SameMap'
  BY DEF TypeOK, SameMap, LoadKeystore, files, history, Goto
<1>6. DamageHasCause'
  BY DEF TypeOK, DamageHasCause, Whole, LoadKeystore, files, history, Goto
<1>7. QED
  BY <1>1, <1>2, <1>3, <1>4, <1>5, <1>6

LEMMA LoadWalletIInv == ASSUME IInv, NEW p \in Program, LoadWallet(p) PROVE IInv'
<1> USE StartupAssumption, NoMapIsNone DEF IInv, Maps, File, Later, Places, Writing
<1>1. TypeOK'
  BY DEF TypeOK, LoadWallet, files, history, Goto
<1>2. LoadedInOrder'
  BY DEF TypeOK, LoadedInOrder, LoadWallet, files, history, Goto
<1>3. OneLength'
  BY DEF TypeOK, OneLength, LoadWallet, files, history, Goto
<1>4. OneWriter'
  BY DEF TypeOK, OneWriter, LoadWallet, files, history, Goto
<1>5. SameMap'
  BY DEF TypeOK, SameMap, LoadWallet, files, history, Goto
<1>6. DamageHasCause'
  BY DEF TypeOK, DamageHasCause, Whole, LoadWallet, files, history, Goto
<1>7. QED
  BY <1>1, <1>2, <1>3, <1>4, <1>5, <1>6

LEMMA IsBitcoinRunningIInv == ASSUME IInv, NEW p \in Program, IsBitcoinRunning(p) PROVE IInv'
<1> USE StartupAssumption, NoMapIsNone DEF IInv, Maps, File, Later, Places, Writing
<1>0. /\ pc' \in [Program -> Places]
      /\ pc'[p] \in {"mode", "stopped", "throw"} /\ \A q \in Program \ {p} : pc'[q] = pc[q]
      /\ IF pc'[p] = "stopped" THEN Unloaded(p) ELSE UNCHANGED loaded
      /\ pc[p] = "daemon" /\ UNCHANGED <<files, written, history>>
      /\ pc'[p] = "mode" => Wallet[p]
  BY DEF TypeOK, IsBitcoinRunning, Goto, Running
<1>1. TypeOK'
  <2>1. CASE pc'[p] = "stopped"
    <3>1. Unloaded(p)
      BY <1>0, <2>1
    <3>2. pc' \in [Program -> Places] /\ UNCHANGED <<files, written, history>>
      BY <1>0
    <3>3. QED
      BY <3>1, <3>2 DEF TypeOK, Unloaded, files, history
  <2>2. CASE pc'[p] # "stopped"
    BY <1>0, <2>2 DEF TypeOK, files, loaded, history
  <2>3. QED
    BY <2>1, <2>2
<1>2. LoadedInOrder'
  <2>1. CASE pc'[p] = "stopped"
    <3>1. Unloaded(p)
      BY <1>0, <2>1
    <3>2. /\ HuffCode'[p] = FALSE /\ KeyMap'[p] = NoMap /\ Store'[p] = NoMap
          /\ Wallet'[p] = FALSE /\ Config'[p] = 0
      BY <3>1 DEF TypeOK, Unloaded
    <3>3. ASSUME NEW q \in Program, q # p
          PROVE  /\ pc'[q] = pc[q] /\ HuffCode'[q] = HuffCode[q] /\ KeyMap'[q] = KeyMap[q]
                 /\ Store'[q] = Store[q] /\ Wallet'[q] = Wallet[q] /\ Config'[q] = Config[q]
      BY <1>0, <3>1, <3>3 DEF TypeOK, Unloaded
    <3>4. QED
      BY <2>1, <3>2, <3>3 DEF LoadedInOrder
  <2>2. CASE pc'[p] # "stopped"
    BY <1>0, <2>2 DEF TypeOK, LoadedInOrder, files, loaded, history
  <2>3. QED
    BY <2>1, <2>2
<1>3. OneLength'
  <2>1. CASE pc'[p] = "stopped"
    BY <1>0, <2>1 DEF TypeOK, OneLength, files, loaded, history, Unloaded
  <2>2. CASE pc'[p] # "stopped"
    BY <1>0, <2>2 DEF TypeOK, OneLength, files, loaded, history
  <2>3. QED
    BY <2>1, <2>2
<1>4. OneWriter'
  BY <1>0 DEF TypeOK, OneWriter, files, loaded, history, Unloaded
<1>5. SameMap'
  BY <1>0 DEF TypeOK, SameMap, files, loaded, history, Unloaded
<1>6. DamageHasCause'
  BY <1>0 DEF TypeOK, DamageHasCause, Whole, files, loaded, history, Unloaded
<1>7. QED
  BY <1>1, <1>2, <1>3, <1>4, <1>5, <1>6

LEMMA UnloadIInv == ASSUME IInv, NEW p \in Program, Unload(p) PROVE IInv'
<1> USE StartupAssumption, NoMapIsNone DEF IInv, Maps, File, Later, Places, Writing
<1>1. TypeOK'
  BY DEF TypeOK, Unload, files, history, Goto, Unloaded
<1>2. LoadedInOrder'
  BY DEF TypeOK, LoadedInOrder, Unload, files, history, Goto, Unloaded
<1>3. OneLength'
  BY DEF TypeOK, OneLength, Unload, files, history, Goto, Unloaded
<1>4. OneWriter'
  BY DEF TypeOK, OneWriter, Unload, files, history, Goto, Unloaded
<1>5. SameMap'
  BY DEF TypeOK, SameMap, Unload, files, history, Goto, Unloaded
<1>6. DamageHasCause'
  BY DEF TypeOK, DamageHasCause, Whole, Unload, files, history, Goto, Unloaded
<1>7. QED
  BY <1>1, <1>2, <1>3, <1>4, <1>5, <1>6

LEMMA DieIInv == ASSUME IInv, NEW p \in Program, Die(p) PROVE IInv'
<1> USE StartupAssumption, NoMapIsNone DEF IInv, Maps, File, Later, Places, Writing
<1>1. TypeOK'
  BY DEF TypeOK, Die, files, Goto, Unloaded
<1>2. LoadedInOrder'
  BY DEF TypeOK, LoadedInOrder, Die, files, Goto, Unloaded
<1>3. OneLength'
  BY DEF TypeOK, OneLength, Die, files, Goto, Unloaded
<1>4. OneWriter'
  BY DEF TypeOK, OneWriter, Die, files, Goto, Unloaded
<1>5. SameMap'
  BY DEF TypeOK, SameMap, Die, files, Goto, Unloaded
<1>6. DamageHasCause'
  BY DEF TypeOK, DamageHasCause, Whole, Die, files, Goto, Unloaded
<1>7. QED
  BY <1>1, <1>2, <1>3, <1>4, <1>5, <1>6

LEMMA EditIInv == ASSUME IInv, Edit PROVE IInv'
<1> USE StartupAssumption, NoMapIsNone DEF IInv, Maps, File, Later, Places, Writing
<1>1. edits' # 0
  BY DEF TypeOK, Edit
<1>2. TypeOK'
  BY DEF TypeOK, Edit, loaded
<1>3. LoadedInOrder' /\ OneWriter'
  BY DEF LoadedInOrder, OneWriter, Edit, loaded
<1>4. OneLength' /\ SameMap'
  BY <1>1 DEF OneLength, SameMap
<1>5. DamageHasCause'
  BY DEF DamageHasCause, Whole, Edit, Absent
<1>6. QED
  BY <1>2, <1>3, <1>4, <1>5

LEMMA RemoveMapIInv == ASSUME IInv, RemoveMap PROVE IInv'
<1> USE StartupAssumption, NoMapIsNone DEF IInv, Maps, File, Later, Places, Writing
<1>1. edits' # 0
  BY DEF TypeOK, RemoveMap
<1>2. TypeOK'
  <2>1. keypair_map' \in [exists : BOOLEAN, chunks : [1 .. Chunks -> {NoMap} \cup (Program \X SuffixBits)]]
    BY EmptyFiles DEF RemoveMap
  <2>2. edits' \in 0 .. MaxEdits
    BY DEF TypeOK, RemoveMap
  <2>5. died' \in BOOLEAN /\ raced' \in BOOLEAN
    BY DEF RemoveMap
  <2>3. UNCHANGED <<bms_conf, pc, Config, HuffCode, KeyMap, Store, Wallet, written, starts>>
    BY DEF RemoveMap, loaded
  <2>4. QED
    BY <2>1, <2>2, <2>3, <2>5 DEF TypeOK
<1>3. LoadedInOrder' /\ OneWriter'
  BY DEF LoadedInOrder, OneWriter, RemoveMap, loaded
<1>4. OneLength' /\ SameMap'
  BY <1>1 DEF OneLength, SameMap
<1>5. DamageHasCause'
  BY DEF DamageHasCause, Whole, RemoveMap, Absent
<1>6. QED
  BY <1>2, <1>3, <1>4, <1>5

LEMMA IInvStep == IInv /\ [Next]_vars => IInv'
<1> SUFFICES ASSUME IInv, [Next]_vars PROVE IInv'
  OBVIOUS
<1>1. ASSUME NEW p \in Program, Start(p) \/ Load(p) \/ Unload(p) \/ Die(p) PROVE IInv'
  <2>1. CASE Load(p)
    BY <2>1, LoadConfigFileIInv, LoadHuffmanCodeIInv, SkipKeypairMapIInv, DeserializeKeypairMapIInv, DeserializeThrowsIInv, GenerateKeypairMapIInv, OpenKeypairMapIInv, WriteChunkIInv, CloseKeypairMapIInv, LoadKeystoreIInv, LoadWalletIInv, IsBitcoinRunningIInv DEF Load
  <2>2. QED
    BY <1>1, <2>1, StartIInv, UnloadIInv, DieIInv
<1>2. CASE UNCHANGED vars
  BY <1>2 DEF vars, IInv, TypeOK, LoadedInOrder, OneLength, OneWriter, SameMap, DamageHasCause, Writing, Whole
<1>3. QED
  BY <1>1, <1>2, EditIInv, RemoveMapIInv DEF Next

LEMMA IInvTells == IInv => StartsHold
<1>1. IInv => ReadyHasAll
  BY DEF IInv, ReadyHasAll, LoadedInOrder, Later
<1>2. IInv => MapFits
  BY <1>1 DEF IInv, ReadyHasAll, MapFits, OneLength
<1>3. IInv => KeysSaved
  BY <1>1 DEF IInv, ReadyHasAll, KeysSaved, SameMap, Later, File
<1>4. QED
  BY <1>1, <1>2, <1>3 DEF IInv, StartsHold

\* However many programs start on the same files, die and start again, a program that has
\* started has all that it needs and keys that are saved, and damage has its cause (main,
\* Load*, SerializeKeypairMap).
THEOREM StartsAreSafe == Spec => []StartsHold
<1>1. Init => IInv
  BY InitIInv
<1>2. QED
  BY <1>1, IInvStep, IInvTells, PTL DEF Spec

--------------------------------------------------------------------------------
(* Locked pages: the histogram counts the ranges of every page, the loop under way  *)
(* included, and the pages that have been locked, or refused, are those with a count. *)

\* Only the thread with the mutex is in a loop, and it has not gone backwards.
Exclusive ==
    \A o \in Object :
        /\ task[o] \in {"locking", "unlocking"} <=> mutex = o
        /\ mutex = o => page[o] >= start_page(o)

HeldTogether == locked \cup refused = {p \in Pages : histogram[p] > 0}

SecretsHeld == \A o \in secret : task[o] = "held"

PagesInv == PagesTypeOK /\ Exclusive /\ Counts /\ HeldTogether /\ SecretsHeld /\ ~aborted

Ranges(p) == {o \in Object : Counted(o, p)}

LEMMA PageNumbers ==
    ASSUME LockedPagesAssumption, NEW o \in Object
    PROVE  /\ start_page(o) \in Nat
           /\ PagesOf(o) \subseteq Nat
           /\ PagesOf(o) \subseteq Pages
           /\ \A p \in PagesOf(o) : p >= start_page(o)
           /\ \A n \in Nat : n >= start_page(o) /\ n \notin PagesOf(o) =>
                               \A p \in PagesOf(o) : p < n
<1>1. start_page(o) \in Nat
  BY DEF LockedPagesAssumption, start_page
<1>2. Size[o] # 0 => end_page(o) \in Nat
  BY DEF LockedPagesAssumption, end_page
<1>3. QED
  BY <1>1, <1>2 DEF PagesOf, Pages

LEMMA FiniteRanges ==
    ASSUME LockedPagesAssumption, NEW p
    PROVE  IsFiniteSet(Ranges(p)) /\ Cardinality(Ranges(p)) \in Nat
<1>1. IsFiniteSet(Ranges(p))
  BY FS_Subset, Ranges(p) \subseteq Object DEF LockedPagesAssumption, Ranges
<1>2. QED
  BY <1>1, FS_CardinalityType

LEMMA NoRange ==
    ASSUME LockedPagesAssumption, PagesInv, NEW p \in Pages
    PROVE  /\ histogram[p] = Cardinality(Ranges(p))
           /\ histogram[p] = 0 <=> Ranges(p) = {}
<1>1. histogram[p] = Cardinality(Ranges(p))
  BY DEF PagesInv, Counts, Ranges
<1>2. QED
  BY <1>1, FiniteRanges, FS_EmptySet DEF Ranges

LEMMA PagesInvInit == ASSUME LockedPagesAssumption PROVE PagesInit => PagesInv
<1> SUFFICES ASSUME PagesInit PROVE PagesInv
  OBVIOUS
<1>1. PagesTypeOK
  BY DEF PagesInit, PagesTypeOK, Stages
<1>2. Exclusive
  BY DEF PagesInit, Exclusive, LockedPagesAssumption
<1>3. Counts
  <2> SUFFICES ASSUME NEW p \in Pages
               PROVE  histogram[p] = Cardinality({o \in Object : Counted(o, p)})
    BY DEF Counts
  <2>1. {o \in Object : Counted(o, p)} = {}
    BY DEF PagesInit, Counted
  <2>2. QED
    BY <2>1, FS_EmptySet DEF PagesInit
<1>4. HeldTogether
  BY DEF PagesInit, HeldTogether
<1>5. QED
  BY <1>1, <1>2, <1>3, <1>4 DEF PagesInv, PagesInit, SecretsHeld

\* The steps outside the loops disturb no count.
LEMMA CountsStay ==
    ASSUME PagesInv, UNCHANGED histogram,
           \A o \in Object, p \in Pages : Counted(o, p)' <=> Counted(o, p)
    PROVE  Counts'
<1> SUFFICES ASSUME NEW p \in Pages
             PROVE  histogram'[p] = Cardinality({o \in Object : Counted(o, p)'})
  BY DEF Counts
<1>1. {o \in Object : Counted(o, p)'} = {o \in Object : Counted(o, p)}
  OBVIOUS
<1>2. QED
  BY <1>1 DEF PagesInv, Counts

LEMMA HeldStay ==
    ASSUME PagesInv, UNCHANGED <<histogram, locked, refused>>
    PROVE  HeldTogether'
  BY DEF PagesInv, HeldTogether

\* Steps of an object that has no part in the counts.
LEMMA OutsidePagesInv ==
    ASSUME LockedPagesAssumption, PagesInv, NEW o \in Object,
           allocate(o) \/ Write(o) \/ Cleanse(o) \/ deallocate(o)
    PROVE  PagesInv'
<1>1. PagesTypeOK'
  BY DEF PagesInv, PagesTypeOK, allocate, Write, Cleanse, deallocate, Becomes, Stages
<1>2. Exclusive'
  BY DEF PagesInv, PagesTypeOK, Exclusive, allocate, Write, Cleanse, deallocate, Becomes
<1>3. \A q \in Object, p \in Pages : Counted(q, p)' <=> Counted(q, p)
  BY DEF PagesInv, PagesTypeOK, Counted, allocate, Write, Cleanse, deallocate, Becomes
<1>4. Counts'
  BY <1>3, CountsStay DEF allocate, Write, Cleanse, deallocate
<1>5. HeldTogether'
  BY HeldStay DEF allocate, Write, Cleanse, deallocate
<1>6. SecretsHeld'
  BY DEF PagesInv, PagesTypeOK, SecretsHeld, allocate, Write, Cleanse, deallocate, Becomes
<1>7. QED
  BY <1>1, <1>2, <1>4, <1>5, <1>6 DEF PagesInv, allocate, Write, Cleanse, deallocate

LEMMA EnterPagesInv ==
    ASSUME LockedPagesAssumption, PagesInv, NEW o \in Object, Enter(o)
    PROVE  PagesInv'
<1>0. start_page(o) \in Nat /\ \A p \in PagesOf(o) : p \in Nat /\ p >= start_page(o)
  BY PageNumbers
<1>1. PagesTypeOK'
  BY <1>0 DEF PagesInv, PagesTypeOK, Enter, SetPage, Becomes, Stages
<1>2. Exclusive'
  <2>1. \A q \in Object : task[q] \notin {"locking", "unlocking"}
    BY DEF PagesInv, Exclusive, Enter, LockedPagesAssumption
  <2>2. page'[o] = start_page(o) /\ mutex' = o
    BY DEF PagesInv, PagesTypeOK, Enter, SetPage
  <2>3. \A q \in Object : task'[q] \in {"locking", "unlocking"} <=> q = o
    BY <2>1 DEF PagesInv, PagesTypeOK, Enter, Becomes
  <2>4. QED
    BY <1>0, <2>2, <2>3 DEF Exclusive
<1>3. \A q \in Object, p \in Pages : Counted(q, p)' <=> Counted(q, p)
  BY <1>0 DEF PagesInv, PagesTypeOK, Counted, Enter, SetPage, Becomes
<1>4. Counts'
  BY <1>3, CountsStay DEF Enter
<1>5. HeldTogether'
  BY HeldStay DEF Enter
<1>6. SecretsHeld'
  BY DEF PagesInv, PagesTypeOK, SecretsHeld, Enter, Becomes
<1>7. QED
  BY <1>1, <1>2, <1>4, <1>5, <1>6 DEF PagesInv, Enter

LEMMA LeavePagesInv ==
    ASSUME LockedPagesAssumption, PagesInv, NEW o \in Object, Leave(o)
    PROVE  PagesInv'
<1>0. \A p \in PagesOf(o) : p \in Nat /\ p < page[o]
  BY PageNumbers DEF PagesInv, PagesTypeOK, Exclusive, Leave
<1>1. PagesTypeOK'
  BY DEF PagesInv, PagesTypeOK, Leave, Becomes, Stages
<1>2. Exclusive'
  BY DEF PagesInv, PagesTypeOK, Exclusive, Leave, Becomes, LockedPagesAssumption
<1>3. \A q \in Object, p \in Pages : Counted(q, p)' <=> Counted(q, p)
  BY <1>0 DEF PagesInv, PagesTypeOK, Counted, Leave, Becomes
<1>4. Counts'
  BY <1>3, CountsStay DEF Leave
<1>5. HeldTogether'
  BY HeldStay DEF Leave
<1>6. SecretsHeld'
  BY DEF PagesInv, PagesTypeOK, SecretsHeld, Leave, Becomes
<1>7. QED
  BY <1>1, <1>2, <1>4, <1>5, <1>6 DEF PagesInv, Leave

\* A turn of either loop moves its range in or out of the count of one page.
LEMMA LockRangePagesInv ==
    ASSUME LockedPagesAssumption, PagesInv, NEW o \in Object, LockRange(o)
    PROVE  PagesInv'
<1> DEFINE p == page[o]
<1>0. p \in PagesOf(o) /\ p \in Pages /\ p \in Nat
  BY PageNumbers DEF LockRange, InLoop
<1>1. PagesTypeOK'
  BY <1>0 DEF PagesInv, PagesTypeOK, LockRange
<1>2. Exclusive'
  BY <1>0, PageNumbers DEF PagesInv, PagesTypeOK, Exclusive, LockRange, InLoop
<1>3. \A q \in Object, r \in Pages : Counted(q, r)' <=> Counted(q, r) \/ (q = o /\ r = p)
  <2>1. \A q \in Object : \A r \in PagesOf(q) : r \in Nat
    BY PageNumbers
  <2>2. QED
    BY <1>0, <2>1 DEF PagesInv, PagesTypeOK, Counted, LockRange
<1>4. ~Counted(o, p)
  BY <1>0 DEF PagesInv, PagesTypeOK, Counted, LockRange
<1>5. Counts'
  <2> SUFFICES ASSUME NEW r \in Pages
               PROVE  histogram'[r] = Cardinality({q \in Object : Counted(q, r)'})
    BY DEF Counts
  <2>1. CASE r = p
    <3>1. {q \in Object : Counted(q, r)'} = Ranges(p) \cup {o}
      BY <1>3, <2>1 DEF Ranges
    <3>2. Cardinality(Ranges(p) \cup {o}) = Cardinality(Ranges(p)) + 1
      BY <1>4, FiniteRanges, FS_AddElement DEF Ranges
    <3>3. histogram'[r] = histogram[p] + 1
      BY <1>0, <2>1 DEF PagesInv, PagesTypeOK, LockRange
    <3>4. QED
      BY <1>0, <3>1, <3>2, <3>3, NoRange
  <2>2. CASE r # p
    <3>1. {q \in Object : Counted(q, r)'} = Ranges(r)
      BY <1>3, <2>2 DEF Ranges
    <3>2. histogram'[r] = histogram[r]
      BY <2>2 DEF PagesInv, PagesTypeOK, LockRange
    <3>3. QED
      BY <3>1, <3>2, NoRange
  <2>3. QED
    BY <2>1, <2>2
<1>6. HeldTogether'
  <2>1. locked' \cup refused' = (locked \cup refused) \cup {p}
    <3>1. CASE histogram[p] = 0
      BY <3>1 DEF LockRange
    <3>2. CASE histogram[p] > 0
      BY <1>0, <3>2 DEF LockRange, PagesInv, HeldTogether
    <3>3. QED
      BY <1>0, <3>1, <3>2 DEF PagesInv, PagesTypeOK
  <2>2. \A r \in Pages : histogram'[r] > 0 <=> histogram[r] > 0 \/ r = p
    BY <1>0 DEF PagesInv, PagesTypeOK, LockRange
  <2>3. QED
    BY <1>0, <2>1, <2>2 DEF PagesInv, HeldTogether
<1>7. QED
  BY <1>1, <1>2, <1>5, <1>6 DEF PagesInv, LockRange, SecretsHeld

LEMMA UnlockRangePagesInv ==
    ASSUME LockedPagesAssumption, PagesInv, NEW o \in Object, UnlockRange(o)
    PROVE  PagesInv'
<1> DEFINE p == page[o]
<1>0. p \in PagesOf(o) /\ p \in Pages /\ p \in Nat
  BY PageNumbers DEF UnlockRange, InLoop
<1>4. Counted(o, p)
  BY <1>0 DEF PagesInv, PagesTypeOK, Counted, UnlockRange
<1>9. histogram[p] # 0
  BY <1>0, <1>4, NoRange DEF Ranges
<1>8. /\ histogram' = [histogram EXCEPT ![p] = @ - 1]
      /\ page' = [page EXCEPT ![o] = @ + 1]
      /\ UNCHANGED <<task, mutex, secret, aborted>>
      /\ IF histogram[p] - 1 = 0
         THEN locked' = locked \ {p} /\ refused' = refused \ {p}
         ELSE UNCHANGED <<locked, refused>>
  BY <1>9 DEF UnlockRange, Unlocks
<1>1. PagesTypeOK'
  BY <1>0, <1>8, <1>9 DEF PagesInv, PagesTypeOK
<1>2. Exclusive'
  BY <1>0, <1>8, PageNumbers DEF PagesInv, PagesTypeOK, Exclusive, UnlockRange, InLoop
<1>3. \A q \in Object, r \in Pages : Counted(q, r)' <=> Counted(q, r) /\ ~(q = o /\ r = p)
  <2>1. \A q \in Object : \A r \in PagesOf(q) : r \in Nat
    BY PageNumbers
  <2>2. task[o] = "unlocking"
    BY DEF UnlockRange
  <2>3. QED
    BY <1>0, <1>8, <2>1, <2>2 DEF PagesInv, PagesTypeOK, Counted
<1>5. Counts'
  <2> SUFFICES ASSUME NEW r \in Pages
               PROVE  histogram'[r] = Cardinality({q \in Object : Counted(q, r)'})
    BY DEF Counts
  <2>1. CASE r = p
    <3>1. {q \in Object : Counted(q, r)'} = Ranges(p) \ {o}
      BY <1>3, <2>1 DEF Ranges
    <3>2. Cardinality(Ranges(p) \ {o}) = Cardinality(Ranges(p)) - 1
      BY <1>4, FiniteRanges, FS_RemoveElement, ZenonT(40) DEF Ranges
    <3>3. histogram'[r] = histogram[p] - 1
      BY <1>0, <1>8, <2>1 DEF PagesInv, PagesTypeOK
    <3>4. QED
      BY <1>0, <3>1, <3>2, <3>3, NoRange
  <2>2. CASE r # p
    <3>1. {q \in Object : Counted(q, r)'} = Ranges(r)
      BY <1>3, <2>2 DEF Ranges
    <3>2. histogram'[r] = histogram[r]
      BY <1>8, <2>2 DEF PagesInv, PagesTypeOK
    <3>3. QED
      BY <3>1, <3>2, NoRange
  <2>3. QED
    BY <2>1, <2>2
<1>6. HeldTogether'
  <2>1. locked' \cup refused' =
          IF histogram[p] - 1 = 0 THEN (locked \cup refused) \ {p} ELSE locked \cup refused
    BY <1>8
  <2>2. \A r \in Pages : histogram'[r] > 0 <=>
          histogram[r] > 0 /\ ~(histogram[p] - 1 = 0 /\ r = p)
    BY <1>0, <1>8, <1>9 DEF PagesInv, PagesTypeOK
  <2>3. QED
    BY <1>0, <2>1, <2>2 DEF PagesInv, HeldTogether
<1>7. QED
  BY <1>1, <1>2, <1>5, <1>6, <1>8 DEF PagesInv, SecretsHeld

LEMMA PagesInvStep == LockedPagesAssumption /\ PagesInv /\ [PagesNext]_pages => PagesInv'
<1> SUFFICES ASSUME LockedPagesAssumption, PagesInv, [PagesNext]_pages PROVE PagesInv'
  OBVIOUS
<1>1. CASE PagesNext
  <2> PICK o \in Object :
        \/ allocate(o) \/ Write(o) \/ Cleanse(o) \/ deallocate(o)
        \/ Enter(o) \/ LockRange(o) \/ UnlockRange(o) \/ Leave(o)
    BY <1>1 DEF PagesNext
  <2>1. CASE allocate(o) \/ Write(o) \/ Cleanse(o) \/ deallocate(o)
    BY <2>1, OutsidePagesInv
  <2>2. CASE Enter(o)
    BY <2>2, EnterPagesInv
  <2>3. CASE LockRange(o)
    BY <2>3, LockRangePagesInv
  <2>4. CASE UnlockRange(o)
    BY <2>4, UnlockRangePagesInv
  <2>5. CASE Leave(o)
    BY <2>5, LeavePagesInv
  <2>6. QED
    BY <2>1, <2>2, <2>3, <2>4, <2>5
<1>2. CASE UNCHANGED pages
  BY <1>2 DEF pages, PagesInv, PagesTypeOK, Exclusive, Counts, Counted, HeldTogether, SecretsHeld
<1>3. QED
  BY <1>1, <1>2

LEMMA PagesInvHolds == ASSUME LockedPagesAssumption PROVE PagesSpec => []PagesInv
<1>1. PagesInit => PagesInv
  BY PagesInvInit
<1>2. PagesInv /\ [PagesNext]_pages => PagesInv'
  BY PagesInvStep
<1>3. QED
  BY <1>1, <1>2, PTL DEF PagesSpec

\* The histogram counts, for every page, the ranges that need it (allocators.h:46, 69).
THEOREM PagesCounted == ASSUME LockedPagesAssumption PROVE PagesSpec => [](PagesTypeOK /\ Counts)
<1>1. PagesInv => PagesTypeOK /\ Counts
  BY DEF PagesInv
<1>2. QED
  BY <1>1, PagesInvHolds, PTL

LEMMA SecretsAreLocked == LockedPagesAssumption /\ PagesInv => SecretsLocked
<1> SUFFICES ASSUME LockedPagesAssumption, PagesInv, NEW o \in secret, NEW p \in PagesOf(o)
             PROVE  p \in locked \cup refused
  BY DEF SecretsLocked
<1>1. o \in Object /\ Counted(o, p)
  BY DEF PagesInv, PagesTypeOK, SecretsHeld, Counted
<1>2. p \in Pages /\ histogram[p] # 0
  BY <1>1, NoRange, PageNumbers DEF Ranges
<1>3. QED
  BY <1>2 DEF PagesInv, PagesTypeOK, HeldTogether

\* A secret is only ever in pages that were locked for it (allocators.h:46, 69).
THEOREM SecretsStayLocked == ASSUME LockedPagesAssumption PROVE PagesSpec => []SecretsLocked
<1>1. PagesInv => SecretsLocked
  BY SecretsAreLocked
<1>2. QED
  BY <1>1, PagesInvHolds, PTL

LEMMA NothingStays == LockedPagesAssumption /\ PagesInv => NothingLeft
<1> SUFFICES ASSUME LockedPagesAssumption, PagesInv,
                    \A o \in Object : task[o] \in {"free", "allocated", "unlocked"}
             PROVE  locked = {} /\ \A p \in Pages : histogram[p] = 0
  BY DEF NothingLeft, PagesInv
<1>1. \A p \in Pages : Ranges(p) = {}
  BY DEF Ranges, Counted
<1>2. \A p \in Pages : histogram[p] = 0
  BY <1>1, NoRange
<1>3. QED
  BY <1>2 DEF PagesInv, HeldTogether

\* No assertion fails and no page stays locked in the end (allocators.h:41, 79).
THEOREM NothingIsLeft == ASSUME LockedPagesAssumption PROVE PagesSpec => []NothingLeft
<1>1. PagesInv => NothingLeft
  BY NothingStays
<1>2. QED
  BY <1>1, PagesInvHolds, PTL

\* Whatever threads lock and unlock ranges of memory (LockRange, UnlockRange).
THEOREM PagesAreSafe == ASSUME LockedPagesAssumption PROVE PagesSpec => []PagesHold
<1>1. PagesSpec => [](PagesTypeOK /\ Counts)
  BY PagesCounted
<1>2. PagesSpec => []SecretsLocked
  BY SecretsStayLocked
<1>3. PagesSpec => []NothingLeft
  BY NothingIsLeft
<1>4. PagesTypeOK /\ Counts /\ SecretsLocked /\ NothingLeft => PagesHold
  BY DEF PagesHold
<1>5. QED
  BY <1>1, <1>2, <1>3, <1>4, PTL

--------------------------------------------------------------------------------
(* How often a section is on a stack. *)

PlacesOf(s, c) == {i \in DOMAIN s : s[i] = c}
Times(s, c) == Cardinality(PlacesOf(s, c))

LEMMA PlacesFinite ==
    ASSUME NEW S, NEW s \in Seq(S), NEW c
    PROVE  IsFiniteSet(PlacesOf(s, c)) /\ Times(s, c) \in Nat
<1>1. PlacesOf(s, c) \in SUBSET (1 .. Len(s)) /\ Len(s) \in Nat
  BY LenProperties DEF PlacesOf
<1>2. IsFiniteSet(PlacesOf(s, c))
  <2>1. IsFiniteSet(1 .. Len(s))
    BY <1>1, FS_Interval
  <2>2. QED
    BY <1>1, <2>1, FS_Subset
<1>3. QED
  BY <1>2, FS_CardinalityType DEF Times

\* One more when it is pushed.
LEMMA TimesPushed ==
    ASSUME NEW S, NEW s \in Seq(S), NEW d \in S, NEW c
    PROVE  Times(Append(s, d), c) = Times(s, c) + (IF d = c THEN 1 ELSE 0)
<1> DEFINE t == Append(s, d)
           n == Len(s) + 1
<1>1. /\ Len(s) \in Nat /\ DOMAIN s = 1 .. Len(s) /\ DOMAIN t = 1 .. n
      /\ t[n] = d /\ \A i \in 1 .. Len(s) : t[i] = s[i]
  BY AppendProperties, LenProperties
<1> HIDE DEF t
<1>2. CASE d = c
  <2>1. PlacesOf(t, c) = PlacesOf(s, c) \cup {n} /\ n \notin PlacesOf(s, c)
    BY <1>1, <1>2 DEF PlacesOf
  <2>2. QED
    BY <1>2, <2>1, PlacesFinite, FS_AddElement DEF Times, t
<1>3. CASE d # c
  <2>1. PlacesOf(t, c) = PlacesOf(s, c)
    BY <1>1, <1>3 DEF PlacesOf
  <2>2. QED
    BY <1>3, <2>1, PlacesFinite DEF Times, t
<1>4. QED
  BY <1>2, <1>3

\* One less when it is popped.
LEMMA TimesPopped ==
    ASSUME NEW S, NEW s \in Seq(S), s # <<>>, NEW c
    PROVE  /\ SubSeq(s, 1, Len(s) - 1) \in Seq(S)
           /\ Times(SubSeq(s, 1, Len(s) - 1), c) = Times(s, c) - (IF s[Len(s)] = c THEN 1 ELSE 0)
<1> DEFINE t == SubSeq(s, 1, Len(s) - 1)
           n == Len(s)
<1>1. /\ n \in Nat \ {0} /\ DOMAIN s = 1 .. n /\ \A i \in 1 .. n : s[i] \in S
  BY LenProperties, EmptySeq, ElementOfSeq
<1>2. /\ t \in Seq(S) /\ Len(t) = n - 1 /\ DOMAIN t = 1 .. (n - 1)
      /\ \A i \in 1 .. (n - 1) : t[i] = s[i]
  <2>1. 1 \in Int /\ n - 1 \in Int /\ \A i \in 1 .. (n - 1) : s[i] \in S
    BY <1>1
  <2>2. /\ t \in Seq(S) /\ Len(t) = IF 1 <= n - 1 THEN n - 1 ELSE 0
        /\ \A i \in 1 .. (n - 1) : t[i] = s[i]
    BY <1>1, <2>1, SubSeqProperties
  <2>3. QED
    BY <1>1, <2>2, LenProperties
<1> HIDE DEF t
<1>3. CASE s[n] = c
  <2>1. PlacesOf(t, c) = PlacesOf(s, c) \ {n} /\ n \in PlacesOf(s, c)
    BY <1>1, <1>2, <1>3 DEF PlacesOf
  <2>2. QED
    BY <1>2, <1>3, <2>1, PlacesFinite, FS_RemoveElement DEF Times, t
<1>4. CASE s[n] # c
  <2>1. PlacesOf(t, c) = PlacesOf(s, c)
    BY <1>1, <1>2, <1>4 DEF PlacesOf
  <2>2. QED
    BY <1>2, <1>4, <2>1, PlacesFinite DEF Times, t
<1>5. QED
  BY <1>3, <1>4

--------------------------------------------------------------------------------
(* LockOrder. *)

Stacks == [Thread -> Seq(Section)]

OrderTypeOK ==
    /\ owner \in [Section -> Thread \cup {NoThread}]
    /\ entered \in [Section -> Nat]
    /\ waits \subseteq Thread
    /\ lockstack \in Stacks
    /\ lockorders \subseteq Section \X Section

\* A section is free when nobody has entered it, and who waits waits for something.
SectionsFree ==
    /\ \A c \in Section : owner[c] = NoThread <=> entered[c] = 0
    /\ \A t \in waits : lockstack[t] # <<>>

\* As long as nothing is told, the orders of those who wait are known, and no order is
\* known both ways.
OrdersKnown ==
    ~ detected =>
      /\ \A t \in waits : \A b \in Order!Before(lockstack[t], Order!Top(t)) :
            <<b, Order!Top(t)>> \in lockorders
      /\ \A b, c \in Section : <<b, c>> \in lockorders => <<c, b>> \notin lockorders

\* StackIsHeld, with a name for the count.
Held(t, c) == (IF owner[c] = t THEN entered[c] ELSE 0) + (IF t \in waits /\ Order!Top(t) = c THEN 1 ELSE 0)
StacksHeld == \A t \in Thread, c \in Section : Times(lockstack[t], c) = Held(t, c)

OrderInv == OrderTypeOK /\ SectionsFree /\ OrdersKnown /\ StacksHeld

LEMMA SameCardinality == \A S : Order!Cardinality(S) = Cardinality(S)
  BY DEF Order!Cardinality, Cardinality, Order!IsFiniteSet, IsFiniteSet

LEMMA StacksHeldIsHeld == StacksHeld <=> Order!StackIsHeld
  BY SameCardinality DEF StacksHeld, Held, Times, PlacesOf, Order!StackIsHeld

LEMMA TopIs ==
    ASSUME NEW S, NEW s \in Seq(S), s # <<>>
    PROVE  /\ Len(s) \in Nat \ {0} /\ DOMAIN s = 1 .. Len(s) /\ s[Len(s)] \in S
           /\ \A i \in 1 .. Len(s) : s[i] \in S
<1>1. Len(s) \in Nat \ {0} /\ DOMAIN s = 1 .. Len(s)
  BY EmptySeq, LenProperties
<1>2. QED
  BY <1>1, ElementOfSeq

\* Two who wait for each other have each pushed what the other has before what it waits
\* for, so that both orders were looked at.
LEMMA OrderInvTells == ASSUME OrderInv, Order!LockOrderAssumption PROVE Order!DeadlockTold
<1>1. SUFFICES ASSUME NEW t \in Thread, NEW u \in Thread, Order!WaitsFor(t, u), Order!WaitsFor(u, t),
                      ~ detected
               PROVE  FALSE
  BY DEF Order!DeadlockTold
<1>2. ASSUME NEW v \in Thread, NEW w \in Thread, Order!WaitsFor(v, w), Order!WaitsFor(w, v)
      PROVE  /\ Order!Top(v) \in Section /\ v \in waits
             /\ Order!Top(w) \in Order!Before(lockstack[v], Order!Top(v))
  <2> DEFINE s == lockstack[v]
             c == Order!Top(v)
             d == Order!Top(w)
  <2>1. /\ v \in waits /\ w \in waits /\ v # w /\ owner[c] = w /\ owner[d] = v
    BY <1>2 DEF Order!WaitsFor
  <2>2. /\ s \in Seq(Section) /\ s # <<>> /\ lockstack[w] \in Seq(Section) /\ lockstack[w] # <<>>
    BY <2>1 DEF OrderInv, OrderTypeOK, Stacks, SectionsFree
  <2>3. /\ Len(s) \in Nat \ {0} /\ DOMAIN s = 1 .. Len(s) /\ c = s[Len(s)] /\ c \in Section
        /\ d \in Section
    BY <2>2, TopIs DEF Order!Top
  <2> HIDE DEF c, d
  <2>4. c # d
    BY <2>1
  <2>5. /\ Times(s, c) = 1 /\ Times(s, d) = entered[d] /\ entered[d] \in Nat \ {0}
    <3>1. Times(s, c) = Held(v, c) /\ Times(s, d) = Held(v, d)
      BY <2>3 DEF OrderInv, StacksHeld
    <3>2. entered[d] \in Nat /\ entered[d] # 0
      BY <1>2, <2>1, <2>3 DEF OrderInv, OrderTypeOK, SectionsFree, Order!LockOrderAssumption
    <3>3. QED
      BY <2>1, <2>4, <3>1, <3>2 DEF Held, c
  <2>6. PICK i \in DOMAIN s : s[i] = d
    <3>1. PlacesOf(s, d) # {}
      BY <2>5, FS_EmptySet DEF Times
    <3>2. QED
      BY <3>1 DEF PlacesOf
  <2>7. \A h \in 1 .. i : s[h] # c
    <3>1. PICK x : PlacesOf(s, c) = {x}
      BY <2>2, <2>5, PlacesFinite, FS_Singleton DEF Times
    <3>2. Len(s) \in PlacesOf(s, c)
      BY <2>3 DEF PlacesOf
    <3>3. \A h \in DOMAIN s : s[h] = c => h = Len(s)
      BY <3>1, <3>2 DEF PlacesOf
    <3>4. QED
      BY <2>3, <2>4, <2>6, <3>3
  <2>8. d \in Order!Before(s, c)
    BY <2>6, <2>7 DEF Order!Before
  <2>9. QED
    BY <2>1, <2>3, <2>8 DEF c, d
<1>3. /\ Order!Top(t) \in Section /\ Order!Top(u) \in Section
      /\ <<Order!Top(u), Order!Top(t)>> \in lockorders
      /\ <<Order!Top(t), Order!Top(u)>> \in lockorders
  <2>1. /\ Order!Top(t) \in Section /\ t \in waits
        /\ Order!Top(u) \in Order!Before(lockstack[t], Order!Top(t))
    BY <1>1, <1>2
  <2>2. /\ Order!Top(u) \in Section /\ u \in waits
        /\ Order!Top(t) \in Order!Before(lockstack[u], Order!Top(u))
    BY <1>1, <1>2
  <2>3. QED
    BY <1>1, <2>1, <2>2 DEF OrderInv, OrdersKnown
<1>4. QED
  BY <1>1, <1>3 DEF OrderInv, OrdersKnown

--------------------------------------------------------------------------------
(* The steps of LockOrder. *)

\* A stack that a section is pushed on.
LEMMA Pushed ==
    ASSUME OrderTypeOK, NEW t \in Thread, NEW c \in Section,
           lockstack' = [lockstack EXCEPT ![t] = Append(lockstack[t], c)]
    PROVE  /\ lockstack' \in Stacks /\ lockstack'[t] = Append(lockstack[t], c)
           /\ lockstack'[t] # <<>> /\ lockstack'[t][Len(lockstack'[t])] = c
           /\ \A u \in Thread : u # t => lockstack'[u] = lockstack[u]
           /\ \A d \in Section : Times(lockstack'[t], d) =
                                    Times(lockstack[t], d) + (IF d = c THEN 1 ELSE 0)
<1> DEFINE s == Append(lockstack[t], c)
<1>1. lockstack[t] \in Seq(Section)
  BY DEF OrderTypeOK, Stacks
<1>2. s \in Seq(Section) /\ s # <<>> /\ s[Len(s)] = c
  BY <1>1, AppendProperties
<1>3. \A d \in Section : Times(s, d) = Times(lockstack[t], d) + (IF d = c THEN 1 ELSE 0)
  BY <1>1, TimesPushed
<1>4. lockstack'[t] = s
  BY DEF OrderTypeOK, Stacks
<1> HIDE DEF s
<1>5. lockstack' \in Stacks /\ \A u \in Thread : u # t => lockstack'[u] = lockstack[u]
  BY <1>2 DEF OrderTypeOK, Stacks, s
<1>6. QED
  BY <1>2, <1>3, <1>4, <1>5 DEF s

\* What is looked at before a section is pushed: orders that are seen one way stay so.
LEMMA OrdersPushed ==
    ASSUME OrderInv, NEW t \in Thread, NEW c \in Section, Order!push_lock(t, c, FALSE), ~ detected'
    PROVE  /\ lockorders \subseteq lockorders' /\ lockorders' \subseteq Section \X Section
           /\ \A b \in Order!Before(lockstack'[t], c) : <<b, c>> \in lockorders'
           /\ \A a, b \in Section : <<a, b>> \in lockorders' => <<b, a>> \notin lockorders'
           /\ ~ detected
<1> DEFINE stack == Append(lockstack[t], c)
           fresh == {b \in Order!Before(stack, c) : <<b, c>> \notin lockorders}
           new == {<<b, c>> : b \in fresh}
           reversed == {o \in new : <<o[2], o[1]>> \in lockorders}
<1>1. lockstack' = [lockstack EXCEPT ![t] = stack]
  BY DEF Order!push_lock
<1>2. reversed = {} /\ lockorders' = lockorders \cup new /\ detected' = detected
  BY DEF Order!push_lock
<1>3. stack \in Seq(Section) /\ lockstack'[t] = stack
  <2>1. lockstack[t] \in Seq(Section)
    BY DEF OrderInv, OrderTypeOK, Stacks
  <2>2. QED
    BY <1>1, <2>1, AppendProperties DEF OrderInv, OrderTypeOK, Stacks
<1> HIDE DEF stack
<1>4. \A b \in Order!Before(stack, c) : b \in Section /\ b # c
  <2>1. \A i \in DOMAIN stack : stack[i] \in Section /\ i \in 1 .. i
    BY <1>3, LenProperties, ElementOfSeq
  <2>2. QED
    BY <2>1 DEF Order!Before
<1>5. \A o \in new : \E b \in Section \ {c} : o = <<b, c>> /\ <<c, b>> \notin lockorders
  <2>1. \A b \in fresh : <<b, c>> \in new /\ b \in Section \ {c}
    BY <1>4
  <2>2. \A b \in fresh : <<c, b>> \notin lockorders
    <3>1. SUFFICES ASSUME NEW b \in fresh, <<c, b>> \in lockorders PROVE FALSE
      OBVIOUS
    <3>2. <<b, c>> \in reversed
      BY <2>1, <3>1
    <3>3. QED
      BY <1>2, <3>2
  <2>3. \A o \in new : \E b \in fresh : o = <<b, c>>
    OBVIOUS
  <2> HIDE DEF new, fresh
  <2>4. QED
    BY <2>1, <2>2, <2>3
<1>6. \A b \in Order!Before(stack, c) : <<b, c>> \in lockorders \cup new
  OBVIOUS
<1> HIDE DEF new, reversed
<1>7. new \subseteq Section \X Section
  <2>1. \A b \in Section : <<b, c>> \in Section \X Section
    OBVIOUS
  <2>2. QED
    BY <1>5, <2>1
<1>8. ASSUME NEW a \in Section, NEW b \in Section,
             <<a, b>> \in lockorders \cup new, <<b, a>> \in lockorders \cup new
      PROVE  FALSE
  <2>1. CASE <<a, b>> \in new
    BY <1>5, <1>8, <2>1
  <2>2. CASE <<b, a>> \in new
    BY <1>5, <1>8, <2>2
  <2>3. CASE <<a, b>> \in lockorders /\ <<b, a>> \in lockorders
    BY <1>2, <2>3 DEF OrderInv, OrdersKnown
  <2>4. QED
    BY <1>8, <2>1, <2>2, <2>3
<1>9. QED
  BY <1>2, <1>3, <1>6, <1>7, <1>8 DEF OrderInv, OrderTypeOK

\* However the loop ends, orders are pairs of sections, and none is forgotten.
LEMMA OrdersTyped ==
    ASSUME OrderInv, NEW t \in Thread, NEW c \in Section, NEW fTry \in BOOLEAN,
           Order!push_lock(t, c, fTry)
    PROVE  /\ lockorders' \subseteq Section \X Section /\ lockorders \subseteq lockorders'
           /\ fTry => UNCHANGED <<lockorders, detected>>
           /\ detected => detected'
           /\ lockstack' = [lockstack EXCEPT ![t] = Append(lockstack[t], c)]
<1> DEFINE stack == Append(lockstack[t], c)
           fresh == {b \in Order!Before(stack, c) : <<b, c>> \notin lockorders}
           new == {<<b, c>> : b \in fresh}
<1>1. stack \in Seq(Section)
  <2>1. lockstack[t] \in Seq(Section)
    BY DEF OrderInv, OrderTypeOK, Stacks
  <2>2. QED
    BY <2>1, AppendProperties
<1>2. new \subseteq Section \X Section
  <2>1. \A i \in DOMAIN stack : stack[i] \in Section
    BY <1>1, LenProperties, ElementOfSeq
  <2>2. fresh \subseteq Section
    BY <2>1 DEF Order!Before
  <2>3. \A b \in Section : <<b, c>> \in Section \X Section
    OBVIOUS
  <2>4. QED
    BY <2>2, <2>3
<1>3. lockorders' \subseteq lockorders \cup new /\ lockorders \subseteq lockorders'
  BY DEF Order!push_lock
<1>4. QED
  BY <1>2, <1>3 DEF Order!push_lock, OrderInv, OrderTypeOK

LEMMA EnterStep ==
    ASSUME OrderInv, NEW t \in Thread, NEW c \in Section, Order!Enter(t, c)
    PROVE  OrderInv'
<1> DEFINE s == Append(lockstack[t], c)
<1>1. /\ t \notin waits /\ waits' = waits \cup {t} /\ UNCHANGED <<owner, entered>>
      /\ Order!push_lock(t, c, FALSE) /\ lockstack' = [lockstack EXCEPT ![t] = s]
  BY DEF Order!Enter, Order!push_lock
<1>2. /\ lockstack' \in Stacks /\ lockstack'[t] = s /\ s # <<>> /\ s[Len(s)] = c
      /\ \A u \in Thread : u # t => lockstack'[u] = lockstack[u]
      /\ \A d \in Section : Times(s, d) = Times(lockstack[t], d) + (IF d = c THEN 1 ELSE 0)
  <2>1. OrderTypeOK
    BY DEF OrderInv
  <2>2. /\ lockstack' \in Stacks /\ lockstack'[t] = s
        /\ lockstack'[t] # <<>> /\ lockstack'[t][Len(lockstack'[t])] = c
        /\ \A u \in Thread : u # t => lockstack'[u] = lockstack[u]
        /\ \A d \in Section : Times(lockstack'[t], d) =
                                 Times(lockstack[t], d) + (IF d = c THEN 1 ELSE 0)
    BY <1>1, <2>1, Pushed, Zenon
  <2>3. QED
    BY <2>2, Zenon
<1> HIDE DEF s
<1>3. /\ Order!Top(t)' = c
      /\ \A u \in Thread : u # t => Order!Top(u)' = Order!Top(u)
  <2>1. Order!Top(t)' = c
    BY <1>2 DEF Order!Top
  <2>2. ASSUME NEW u \in Thread, u # t PROVE Order!Top(u)' = Order!Top(u)
    BY <1>2, <2>2 DEF Order!Top
  <2>3. QED
    BY <2>1, <2>2
<1>4. OrderTypeOK'
  BY <1>1, <1>2, OrdersTyped DEF OrderInv, OrderTypeOK
<1>5. SectionsFree'
  BY <1>1, <1>2 DEF OrderInv, OrderTypeOK, SectionsFree
<1>6. OrdersKnown'
  <2>1. SUFFICES ASSUME ~ detected' PROVE OrdersKnown'
    BY DEF OrdersKnown
  <2>2. /\ lockorders \subseteq lockorders' /\ ~ detected
        /\ \A b \in Order!Before(s, c) : <<b, c>> \in lockorders'
        /\ \A a, b \in Section : <<a, b>> \in lockorders' => <<b, a>> \notin lockorders'
    BY <1>1, <1>2, <2>1, OrdersPushed
  <2>3. ASSUME NEW u \in waits', NEW b \in Order!Before(lockstack[u], Order!Top(u))'
        PROVE  <<b, Order!Top(u)'>> \in lockorders'
    <3>1. CASE u = t
      BY <1>2, <1>3, <2>2, <2>3, <3>1 DEF Order!Before
    <3>2. CASE u # t
      <4>1. /\ u \in waits /\ u \in Thread /\ lockstack'[u] = lockstack[u]
            /\ Order!Top(u)' = Order!Top(u)
        BY <1>1, <1>2, <1>3, <3>2 DEF OrderInv, OrderTypeOK
      <4>2. b \in Order!Before(lockstack[u], Order!Top(u))
        BY <2>3, <4>1 DEF Order!Before
      <4>3. QED
        BY <2>2, <4>1, <4>2 DEF OrderInv, OrdersKnown
    <3>3. QED
      BY <3>1, <3>2
  <2>4. QED
    BY <2>2, <2>3 DEF OrdersKnown
<1>7. StacksHeld'
  <2>1. SUFFICES ASSUME NEW u \in Thread, NEW d \in Section
                 PROVE  Times(lockstack'[u], d) = Held(u, d)'
    BY DEF StacksHeld, Times, PlacesOf
  <2>2. Times(lockstack[u], d) = Held(u, d) /\ entered[d] \in Nat
    BY DEF OrderInv, StacksHeld, OrderTypeOK
  <2>3. CASE u = t
    BY <1>1, <1>2, <1>3, <2>2, <2>3 DEF Held
  <2>4. CASE u # t
    <3>1. Held(u, d)' = Held(u, d)
      BY <1>1, <1>3, <2>4 DEF Held
    <3>2. QED
      BY <1>2, <2>2, <2>4, <3>1
  <2>5. QED
    BY <2>3, <2>4
<1>8. QED
  BY <1>4, <1>5, <1>6, <1>7 DEF OrderInv

\* Orders and what is looked at before somebody waits do not change when he does not
\* begin to.
LEMMA OrdersStay ==
    ASSUME OrderInv, UNCHANGED <<lockorders, detected>>, waits' \subseteq waits,
           \A u \in waits' : lockstack'[u] = lockstack[u]
    PROVE  OrdersKnown'
<1>1. \A u \in waits' : Order!Top(u)' = Order!Top(u)
  BY DEF Order!Top
<1>2. QED
  BY <1>1 DEF OrderInv, OrdersKnown, Order!Before

LEMMA LockStep ==
    ASSUME OrderInv, Order!LockOrderAssumption, NEW t \in Thread, Order!lock(t)
    PROVE  OrderInv'
<1> DEFINE c == Order!Top(t)
<1>1. /\ t \in waits /\ owner[c] \in {NoThread, t} /\ owner' = [owner EXCEPT ![c] = t]
      /\ entered' = [entered EXCEPT ![c] = @ + 1] /\ waits' = waits \ {t}
      /\ UNCHANGED <<lockstack, lockorders, detected>>
  BY DEF Order!lock
<1>2. lockstack[t] \in Seq(Section) /\ lockstack[t] # <<>>
  BY <1>1 DEF OrderInv, OrderTypeOK, Stacks, SectionsFree
<1>3. c \in Section
  BY <1>2, TopIs DEF Order!Top
<1>4. \A u \in Thread : Order!Top(u)' = Order!Top(u)
  BY <1>1 DEF Order!Top
<1> HIDE DEF c
<1>5. OrderTypeOK' /\ SectionsFree'
  BY <1>1, <1>3 DEF OrderInv, OrderTypeOK, SectionsFree, Order!LockOrderAssumption
<1>6. OrdersKnown'
  BY <1>1, OrdersStay
<1>7. StacksHeld'
  <2>1. SUFFICES ASSUME NEW u \in Thread, NEW d \in Section
                 PROVE  Times(lockstack[u], d) = Held(u, d)'
    BY <1>1 DEF StacksHeld, Times, PlacesOf
  <2>2. Times(lockstack[u], d) = Held(u, d) /\ entered[d] \in Nat /\ (owner[d] = NoThread <=> entered[d] = 0)
    BY DEF OrderInv, StacksHeld, OrderTypeOK, SectionsFree
  <2>3. owner \in [Section -> Thread \cup {NoThread}] /\ entered \in [Section -> Nat]
    BY DEF OrderInv, OrderTypeOK
  <2>4. CASE u = t /\ d = c
    BY <1>1, <1>4, <2>2, <2>3, <2>4 DEF Held, c, Order!LockOrderAssumption
  <2>5. CASE u = t /\ d # c
    BY <1>1, <1>4, <2>2, <2>3, <2>5 DEF Held, c
  <2>6. CASE u # t
    BY <1>1, <1>3, <1>4, <2>2, <2>3, <2>6 DEF Held, Order!LockOrderAssumption
  <2>7. QED
    BY <2>4, <2>5, <2>6
<1>8. QED
  BY <1>5, <1>6, <1>7 DEF OrderInv

LEMMA TryEnterStep ==
    ASSUME OrderInv, Order!LockOrderAssumption, NEW t \in Thread, NEW c \in Section,
           Order!TryEnter(t, c)
    PROVE  OrderInv'
<1> DEFINE s == Append(lockstack[t], c)
<1>1. t \notin waits /\ waits' = waits
  BY DEF Order!TryEnter
<1>2. CASE owner[c] \notin {NoThread, t}
  <2>1. UNCHANGED <<owner, entered, waits, lockstack, lockorders, detected>>
    BY <1>2 DEF Order!TryEnter
  <2>2. OrderTypeOK' /\ SectionsFree'
    BY <2>1 DEF OrderInv, OrderTypeOK, SectionsFree
  <2>3. OrdersKnown'
    BY <2>1, OrdersStay
  <2>4. StacksHeld'
    BY <2>1 DEF OrderInv, StacksHeld, Times, PlacesOf, Held, Order!Top
  <2>5. QED
    BY <2>2, <2>3, <2>4 DEF OrderInv
<1>3. CASE owner[c] \in {NoThread, t}
  <2>1. /\ Order!push_lock(t, c, TRUE) /\ owner' = [owner EXCEPT ![c] = t]
        /\ entered' = [entered EXCEPT ![c] = @ + 1]
    BY <1>3 DEF Order!TryEnter
  <2>2. lockstack' = [lockstack EXCEPT ![t] = s] /\ UNCHANGED <<lockorders, detected>>
    BY <2>1, OrdersTyped
  <2>3. /\ lockstack' \in Stacks /\ lockstack'[t] = s /\ s # <<>> /\ s[Len(s)] = c
        /\ \A u \in Thread : u # t => lockstack'[u] = lockstack[u]
        /\ \A d \in Section : Times(s, d) = Times(lockstack[t], d) + (IF d = c THEN 1 ELSE 0)
    <3>1. OrderTypeOK
      BY DEF OrderInv
    <3>2. /\ lockstack' \in Stacks /\ lockstack'[t] = s
          /\ lockstack'[t] # <<>> /\ lockstack'[t][Len(lockstack'[t])] = c
          /\ \A u \in Thread : u # t => lockstack'[u] = lockstack[u]
          /\ \A d \in Section : Times(lockstack'[t], d) =
                                   Times(lockstack[t], d) + (IF d = c THEN 1 ELSE 0)
      BY <2>2, <3>1, Pushed, Zenon
    <3>3. QED
      BY <3>2, Zenon
  <2> HIDE DEF s
  <2>4. waits \subseteq Thread /\ \A u \in waits : u # t /\ lockstack'[u] = lockstack[u]
    BY <1>1, <2>3 DEF OrderInv, OrderTypeOK
  <2>5. OrderTypeOK' /\ SectionsFree'
    <3>1. SectionsFree'
      BY <1>1, <2>1, <2>3, <2>4 DEF OrderInv, OrderTypeOK, SectionsFree, Order!LockOrderAssumption
    <3>2. OrderTypeOK'
      BY <1>1, <2>1, <2>2, <2>3 DEF OrderInv, OrderTypeOK
    <3>3. QED
      BY <3>1, <3>2
  <2>6. OrdersKnown'
    BY <1>1, <2>2, <2>4, OrdersStay
  <2>7. StacksHeld'
    <3>1. SUFFICES ASSUME NEW u \in Thread, NEW d \in Section
                   PROVE  Times(lockstack'[u], d) = Held(u, d)'
      BY DEF StacksHeld, Times, PlacesOf
    <3>2. /\ Times(lockstack[u], d) = Held(u, d) /\ entered[d] \in Nat
          /\ (owner[d] = NoThread <=> entered[d] = 0)
      BY DEF OrderInv, StacksHeld, OrderTypeOK, SectionsFree
    <3>3. owner \in [Section -> Thread \cup {NoThread}] /\ entered \in [Section -> Nat]
      BY DEF OrderInv, OrderTypeOK
    <3>4. u \in waits => Order!Top(u)' = Order!Top(u)
      BY <2>4 DEF Order!Top
    <3>5. CASE u = t
      BY <1>1, <1>3, <2>1, <2>3, <3>2, <3>3, <3>5 DEF Held, Order!LockOrderAssumption
    <3>6. CASE u # t
      <4>1. Held(u, d)' = Held(u, d)
        BY <1>1, <1>3, <2>1, <3>2, <3>3, <3>4, <3>6 DEF Held, Order!LockOrderAssumption
      <4>2. QED
        BY <2>3, <3>2, <3>6, <4>1
    <3>7. QED
      BY <3>5, <3>6
  <2>8. QED
    BY <2>5, <2>6, <2>7 DEF OrderInv
<1>4. QED
  BY <1>2, <1>3

LEMMA LeaveStep ==
    ASSUME OrderInv, Order!LockOrderAssumption, NEW t \in Thread, Order!Leave(t)
    PROVE  OrderInv'
<1> DEFINE c == Order!Top(t)
           s == lockstack[t]
           r == SubSeq(s, 1, Len(s) - 1)
<1>1. /\ t \notin waits /\ s # <<>> /\ UNCHANGED <<waits, lockorders, detected>>
      /\ lockstack' = [lockstack EXCEPT ![t] = r]
      /\ entered' = [entered EXCEPT ![c] = @ - 1]
      /\ owner' = [owner EXCEPT ![c] = IF entered[c] = 1 THEN NoThread ELSE t]
  BY DEF Order!Leave, Order!pop_lock, Order!OwnerAfter
<1>2. s \in Seq(Section) /\ Len(s) \in Nat \ {0} /\ c = s[Len(s)] /\ c \in Section
  <2>1. s \in Seq(Section)
    BY DEF OrderInv, OrderTypeOK, Stacks
  <2>2. QED
    BY <1>1, <2>1, TopIs DEF Order!Top
<1>3. /\ r \in Seq(Section)
      /\ \A d \in Section : Times(r, d) = Times(s, d) - (IF d = c THEN 1 ELSE 0)
  BY <1>1, <1>2, TimesPopped
<1>4. owner[c] = t /\ entered[c] \in Nat \ {0}
  <2>1. Len(s) \in PlacesOf(s, c)
    BY <1>2, LenProperties DEF PlacesOf
  <2>2. Times(s, c) # 0
    BY <1>2, <2>1, PlacesFinite, FS_EmptySet DEF Times
  <2>3. Times(s, c) = Held(t, c) /\ entered[c] \in Nat
    BY <1>2 DEF OrderInv, StacksHeld, OrderTypeOK
  <2>4. QED
    BY <1>1, <2>2, <2>3 DEF Held
<1>5. /\ lockstack' \in Stacks /\ lockstack'[t] = r
      /\ \A u \in Thread : u # t => lockstack'[u] = lockstack[u]
  BY <1>1, <1>3 DEF OrderInv, OrderTypeOK, Stacks
<1> HIDE DEF c, s, r
<1>6. waits \subseteq Thread /\ \A u \in waits : u # t /\ lockstack'[u] = lockstack[u]
  BY <1>1, <1>5 DEF OrderInv, OrderTypeOK
<1>7. OrderTypeOK'
  <2>1. entered' \in [Section -> Nat]
    BY <1>1, <1>2, <1>4 DEF OrderInv, OrderTypeOK
  <2>2. owner' \in [Section -> Thread \cup {NoThread}]
    BY <1>1, <1>2 DEF OrderInv, OrderTypeOK
  <2>3. QED
    BY <1>1, <1>5, <2>1, <2>2 DEF OrderInv, OrderTypeOK
<1>8. SectionsFree'
  BY <1>1, <1>2, <1>4, <1>6 DEF OrderInv, OrderTypeOK, SectionsFree, Order!LockOrderAssumption
<1>9. OrdersKnown'
  BY <1>1, <1>6, OrdersStay
<1>10. StacksHeld'
  <2>1. SUFFICES ASSUME NEW u \in Thread, NEW d \in Section
                 PROVE  Times(lockstack'[u], d) = Held(u, d)'
    BY DEF StacksHeld, Times, PlacesOf
  <2>2. Times(lockstack[u], d) = Held(u, d) /\ entered[d] \in Nat
    BY DEF OrderInv, StacksHeld, OrderTypeOK
  <2>3. owner \in [Section -> Thread \cup {NoThread}] /\ entered \in [Section -> Nat]
    BY DEF OrderInv, OrderTypeOK
  <2>4. u \in waits => Order!Top(u)' = Order!Top(u)
    BY <1>6 DEF Order!Top
  <2>5. CASE u = t
    <3>1. Held(u, d)' = Held(u, d) - (IF d = c THEN 1 ELSE 0)
      BY <1>1, <1>2, <1>4, <2>3, <2>5 DEF Held, Order!LockOrderAssumption
    <3>2. QED
      BY <1>3, <1>5, <2>2, <2>5, <3>1 DEF s
  <2>6. CASE u # t
    <3>1. Held(u, d)' = Held(u, d)
      BY <1>1, <1>2, <1>4, <2>3, <2>4, <2>6 DEF Held, Order!LockOrderAssumption
    <3>2. QED
      BY <1>5, <2>2, <2>6, <3>1
  <2>7. QED
    BY <2>5, <2>6
<1>11. QED
  BY <1>7, <1>8, <1>9, <1>10 DEF OrderInv

LEMMA OrderInit == ASSUME Order!Init PROVE OrderInv
<1>1. \A c : Times(<<>>, c) = 0
  BY FS_EmptySet DEF Times, PlacesOf
<1>2. OrderTypeOK /\ SectionsFree /\ OrdersKnown
  BY DEF Order!Init, OrderTypeOK, Stacks, SectionsFree, OrdersKnown
<1>3. StacksHeld
  BY <1>1 DEF Order!Init, StacksHeld, Held
<1>4. QED
  BY <1>2, <1>3 DEF OrderInv

LEMMA OrderStep ==
    ASSUME OrderInv, Order!LockOrderAssumption, Order!Next \/ UNCHANGED sections
    PROVE  OrderInv'
<1>1. CASE UNCHANGED sections
  <2>1. UNCHANGED <<owner, entered, waits, lockstack, lockorders, detected>>
    BY <1>1 DEF sections
  <2>2. OrderTypeOK' /\ SectionsFree'
    BY <2>1 DEF OrderInv, OrderTypeOK, SectionsFree
  <2>3. OrdersKnown'
    BY <2>1, OrdersStay
  <2>4. StacksHeld'
    BY <2>1 DEF OrderInv, StacksHeld, Times, PlacesOf, Held, Order!Top
  <2>5. QED
    BY <2>2, <2>3, <2>4 DEF OrderInv
<1>2. CASE Order!Next
  BY <1>2, EnterStep, TryEnterStep, LockStep, LeaveStep DEF Order!Next
<1>3. QED
  BY <1>1, <1>2

--------------------------------------------------------------------------------
(* Semaphore. *)

Holders == {t \in Waiter : grants[t] = 1}

\* A thread is at one place at most, and has a grant or has none.
CountTypeOK ==
    /\ value \in Nat
    /\ asleep \subseteq Waiter /\ woken \subseteq Waiter /\ notifies \subseteq Waiter
    /\ grants \in [Waiter -> {0, 1}]
    /\ asleep \cap woken = {} /\ asleep \cap notifies = {} /\ woken \cap notifies = {}
    /\ \A t \in asleep \cup woken : grants[t] = 0

PermitsCounted == value + Cardinality(Holders) = Permits
WakeupsCounted == asleep # {} => value <= Cardinality(notifies) + Cardinality(woken)

CountInv == CountTypeOK /\ PermitsCounted /\ WakeupsCounted

LEMMA CountIsHeld ==
    ASSUME CountInv
    PROVE  Count!PermitsKept /\ Count!NoLostWakeup
<1>1. \A S : Count!Cardinality(S) = Cardinality(S)
  BY DEF Count!Cardinality, Cardinality, Count!IsFiniteSet, IsFiniteSet
<1>2. QED
  BY <1>1 DEF CountInv, PermitsCounted, WakeupsCounted, Holders, Count!PermitsKept, Count!NoLostWakeup

\* The sets of threads are finite, and change by one thread at a time.
LEMMA WaitersFinite ==
    ASSUME NEW S, S \subseteq Waiter, IsFiniteSet(Waiter)
    PROVE  IsFiniteSet(S) /\ Cardinality(S) \in Nat
  BY FS_Subset, FS_CardinalityType

LEMMA OneMore ==
    ASSUME NEW S, S \subseteq Waiter, IsFiniteSet(Waiter), NEW t, t \notin S
    PROVE  Cardinality(S \cup {t}) = Cardinality(S) + 1
  BY WaitersFinite, FS_AddElement

LEMMA OneLess ==
    ASSUME NEW S, S \subseteq Waiter, IsFiniteSet(Waiter), NEW t, t \in S
    PROVE  Cardinality(S \ {t}) = Cardinality(S) - 1
  BY WaitersFinite, FS_RemoveElement

\* A thread takes a permit.
LEMMA TakesOne ==
    ASSUME CountInv, IsFiniteSet(Waiter), NEW t \in Waiter, grants[t] = 0, Count!Take(t)
    PROVE  /\ grants' = [grants EXCEPT ![t] = 1] /\ value' = value - 1
           /\ PermitsCounted'
<1>1. grants' = [grants EXCEPT ![t] = 1] /\ value' = value - 1
  BY DEF Count!Take, CountInv, CountTypeOK
<1>2. Holders' = Holders \cup {t} /\ t \notin Holders /\ Holders \subseteq Waiter
  BY <1>1 DEF Holders, CountInv, CountTypeOK
<1>3. Cardinality(Holders') = Cardinality(Holders) + 1 /\ Cardinality(Holders) \in Nat
  BY <1>2, OneMore, WaitersFinite
<1>4. QED
  BY <1>1, <1>3 DEF PermitsCounted, CountInv, CountTypeOK

\* A thread takes a permit, or sleeps because there is none.
LEMMA TakeOrSleep ==
    ASSUME CountInv, IsFiniteSet(Waiter), NEW t \in Waiter, t \notin asleep \cup notifies,
           grants[t] = 0, woken' = woken \ {t}, UNCHANGED notifies,
           \/ value >= 1 /\ Count!Take(t) /\ UNCHANGED asleep
           \/ value < 1 /\ asleep' = asleep \cup {t} /\ UNCHANGED <<value, grants>>
    PROVE  CountInv'
<1>1. /\ Cardinality(woken) \in Nat /\ Cardinality(notifies) \in Nat
      /\ Cardinality(woken') \in Nat /\ Cardinality(woken) <= Cardinality(woken') + 1
      /\ t \notin woken => Cardinality(woken') = Cardinality(woken)
  <2>1. woken \subseteq Waiter /\ notifies \subseteq Waiter
    BY DEF CountInv, CountTypeOK
  <2>2. CASE t \in woken
    BY <2>1, <2>2, OneLess, WaitersFinite
  <2>3. CASE t \notin woken
    <3>1. woken' = woken
      BY <2>3
    <3>2. Cardinality(woken) \in Nat /\ Cardinality(notifies) \in Nat
      BY <2>1, WaitersFinite
    <3>3. QED
      BY <3>1, <3>2
  <2>4. QED
    BY <2>2, <2>3
<1>2. CASE value >= 1 /\ Count!Take(t) /\ UNCHANGED asleep
  <2>1. /\ grants' = [grants EXCEPT ![t] = 1] /\ value' = value - 1 /\ PermitsCounted'
    BY <1>2, TakesOne
  <2>2. CountTypeOK'
    BY <1>2, <2>1 DEF CountInv, CountTypeOK
  <2>3. WakeupsCounted'
    BY <1>1, <1>2, <2>1 DEF CountInv, CountTypeOK, WakeupsCounted
  <2>4. QED
    BY <2>1, <2>2, <2>3 DEF CountInv
<1>3. CASE value < 1 /\ asleep' = asleep \cup {t} /\ UNCHANGED <<value, grants>>
  <2>1. CountTypeOK'
    BY <1>3 DEF CountInv, CountTypeOK
  <2>2. PermitsCounted'
    BY <1>3 DEF CountInv, PermitsCounted, Holders
  <2>3. WakeupsCounted'
    BY <1>1, <1>3 DEF CountInv, CountTypeOK, WakeupsCounted
  <2>4. QED
    BY <2>1, <2>2, <2>3 DEF CountInv
<1>4. QED
  BY <1>2, <1>3

\* A permit is given back and its notification is on its way.
LEMMA ReleaseStep ==
    ASSUME CountInv, IsFiniteSet(Waiter), NEW t \in Waiter, Count!Release(t)
    PROVE  CountInv'
<1>1. /\ t \notin asleep \cup woken \cup notifies /\ grants[t] = 1
      /\ grants' = [grants EXCEPT ![t] = 0] /\ value' = value + 1
      /\ notifies' = notifies \cup {t} /\ UNCHANGED <<asleep, woken>>
  <2>1. grants \in [Waiter -> {0, 1}]
    BY DEF CountInv, CountTypeOK
  <2>2. grants[t] = 1 /\ 1 - 1 = 0
    BY <2>1 DEF Count!Release
  <2>3. QED
    BY <2>2 DEF Count!Release, Count!Busy, Count!NotifyLater
<1>2. CountTypeOK'
  BY <1>1 DEF CountInv, CountTypeOK
<1>3. PermitsCounted'
  <2>1. Holders' = Holders \ {t} /\ t \in Holders /\ Holders \subseteq Waiter
    BY <1>1 DEF Holders, CountInv, CountTypeOK
  <2>2. Cardinality(Holders') = Cardinality(Holders) - 1 /\ Cardinality(Holders) \in Nat
    BY <2>1, OneLess, WaitersFinite
  <2>3. QED
    BY <1>1, <2>2 DEF PermitsCounted, CountInv, CountTypeOK
<1>4. WakeupsCounted'
  <2>1. notifies \subseteq Waiter /\ woken \subseteq Waiter
    BY DEF CountInv, CountTypeOK
  <2>2. /\ Cardinality(notifies') = Cardinality(notifies) + 1
        /\ Cardinality(notifies) \in Nat /\ Cardinality(woken) \in Nat
    BY <1>1, <2>1, OneMore, WaitersFinite
  <2>3. QED
    BY <1>1, <2>2 DEF WakeupsCounted, CountInv, CountTypeOK
<1>5. QED
  BY <1>2, <1>3, <1>4 DEF CountInv

\* A notification wakes one of those who sleep, or is for nobody.
LEMMA NotifyStep ==
    ASSUME CountInv, IsFiniteSet(Waiter), NEW t \in Waiter, Count!notify_one(t)
    PROVE  CountInv'
<1>1. t \in notifies /\ notifies' = notifies \ {t} /\ UNCHANGED <<value, grants>>
  BY DEF Count!notify_one
<1>2. PermitsCounted'
  BY <1>1 DEF PermitsCounted, Holders, CountInv
<1>3. CASE asleep = {}
  <2>1. UNCHANGED <<asleep, woken>>
    BY <1>3 DEF Count!notify_one
  <2>2. QED
    BY <1>1, <1>2, <1>3, <2>1 DEF CountInv, CountTypeOK, WakeupsCounted
<1>4. CASE asleep # {}
  <2>1. PICK u \in asleep : asleep' = asleep \ {u} /\ woken' = woken \cup {u}
    BY <1>4 DEF Count!notify_one
  <2>2. CountTypeOK'
    BY <1>1, <2>1 DEF CountInv, CountTypeOK
  <2>3. WakeupsCounted'
    <3>1. notifies \subseteq Waiter /\ woken \subseteq Waiter /\ u \notin woken
      BY <2>1 DEF CountInv, CountTypeOK
    <3>2. /\ Cardinality(notifies') = Cardinality(notifies) - 1
          /\ Cardinality(woken') = Cardinality(woken) + 1
          /\ Cardinality(notifies) \in Nat /\ Cardinality(woken) \in Nat
      BY <1>1, <2>1, <3>1, OneMore, OneLess, WaitersFinite
    <3>3. QED
      BY <1>1, <1>4, <3>2 DEF WakeupsCounted, CountInv, CountTypeOK
  <2>4. QED
    BY <1>2, <2>2, <2>3 DEF CountInv
<1>5. QED
  BY <1>3, <1>4

\* A grant takes the place of another, whose permit is given back.
LEMMA MoveStep ==
    ASSUME CountInv, IsFiniteSet(Waiter), NEW t \in Waiter, NEW u \in Waiter, Count!MoveTo(t, u)
    PROVE  CountInv'
<1>1. /\ t # u /\ {t, u} \cap (asleep \cup woken \cup notifies) = {} /\ grants[t] = 1
      /\ grants' = [grants EXCEPT ![t] = 0, ![u] = 1] /\ value' = value + grants[u]
      /\ notifies' = IF grants[u] > 0 THEN notifies \cup {t} ELSE notifies
      /\ UNCHANGED <<asleep, woken>> /\ grants[u] \in {0, 1}
  <2>1. grants \in [Waiter -> {0, 1}]
    BY DEF CountInv, CountTypeOK
  <2>2. grants[t] = 1 /\ grants[u] \in {0, 1}
    BY <2>1 DEF Count!MoveTo
  <2>3. QED
    BY <2>2 DEF Count!MoveTo, Count!Busy, Count!MoveReleases
<1>2. CountTypeOK'
  BY <1>1 DEF CountInv, CountTypeOK
<1>3. /\ Holders' = (Holders \ {t}) \cup {u} /\ t \in Holders /\ Holders \subseteq Waiter
      /\ grants[u] = 1 <=> u \in Holders \ {t}
  BY <1>1 DEF Holders, CountInv, CountTypeOK
<1>4. /\ Cardinality(Holders) \in Nat /\ Cardinality(Holders \ {t}) = Cardinality(Holders) - 1
      /\ Holders \ {t} \subseteq Waiter
  BY <1>3, OneLess, WaitersFinite
<1>5. notifies \subseteq Waiter /\ Cardinality(notifies) \in Nat /\ Cardinality(woken) \in Nat
  BY WaitersFinite DEF CountInv, CountTypeOK
<1>6. CASE grants[u] = 1
  <2>1. Holders' = Holders \ {t}
    BY <1>3, <1>6
  <2>2. Cardinality(notifies') = Cardinality(notifies) + 1
    BY <1>1, <1>5, <1>6, OneMore
  <2>3. PermitsCounted' /\ WakeupsCounted'
    BY <1>1, <1>4, <1>5, <1>6, <2>1, <2>2 DEF CountInv, CountTypeOK, PermitsCounted, WakeupsCounted
  <2>4. QED
    BY <1>2, <2>3 DEF CountInv
<1>7. CASE grants[u] = 0
  <2>1. Cardinality(Holders') = Cardinality(Holders)
    BY <1>3, <1>4, <1>7, OneMore
  <2>2. PermitsCounted' /\ WakeupsCounted'
    BY <1>1, <1>4, <1>5, <1>7, <2>1 DEF CountInv, CountTypeOK, PermitsCounted, WakeupsCounted
  <2>3. QED
    BY <1>2, <2>2 DEF CountInv
<1>8. QED
  BY <1>1, <1>6, <1>7

LEMMA CountInit == ASSUME Count!Init, Count!SemaphoreAssumption PROVE CountInv
<1>1. Holders = {}
  BY DEF Count!Init, Holders
<1>2. QED
  BY <1>1, FS_EmptySet
     DEF Count!Init, Count!SemaphoreAssumption, CountInv, CountTypeOK, PermitsCounted, WakeupsCounted

LEMMA CountStep ==
    ASSUME CountInv, Count!SemaphoreAssumption, Count!Next \/ UNCHANGED semaphore
    PROVE  CountInv'
<1>1. IsFiniteSet(Waiter)
  BY DEF Count!SemaphoreAssumption, Count!IsFiniteSet, IsFiniteSet
<1>2. CASE UNCHANGED semaphore
  <2>1. UNCHANGED <<value, asleep, woken, notifies, grants>>
    BY <1>2 DEF semaphore
  <2>2. QED
    BY <2>1 DEF CountInv, CountTypeOK, PermitsCounted, WakeupsCounted, Holders
<1>3. ASSUME NEW t \in Waiter, Count!Acquire(t) \/ Count!TryAcquire(t) \/ Count!Awake(t)
      PROVE  CountInv'
  <2>1. /\ t \notin asleep \cup notifies /\ grants[t] = 0 /\ woken' = woken \ {t} /\ UNCHANGED notifies
        /\ \/ value >= 1 /\ Count!Take(t) /\ UNCHANGED asleep
           \/ value < 1 /\ asleep' = asleep \cup {t} /\ UNCHANGED <<value, grants>>
    BY <1>3 DEF Count!Acquire, Count!TryAcquire, Count!Awake, Count!Busy, CountInv, CountTypeOK
  <2>2. QED
    BY <1>1, <2>1, TakeOrSleep
<1>4. CASE Count!Next
  BY <1>1, <1>3, <1>4, ReleaseStep, NotifyStep, MoveStep DEF Count!Next
<1>5. QED
  BY <1>2, <1>4

--------------------------------------------------------------------------------
(* The process. *)

ProcessInv == OrderInv /\ CountInv

LEMMA ProcessInvInit == ASSUME ProcessInit PROVE ProcessInv
<1>1. OrderInv
  BY OrderInit DEF ProcessInit
<1>2. CountInv
  BY CountInit, ProcessAssumption DEF ProcessInit
<1>3. QED
  BY <1>1, <1>2 DEF ProcessInv

LEMMA ProcessInvStep == ASSUME ProcessInv, [ProcessNext]_allvars PROVE ProcessInv'
<1>1. (Order!Next \/ UNCHANGED sections) /\ (Count!Next \/ UNCHANGED semaphore)
  BY DEF ProcessNext, allvars
<1>2. OrderInv'
  BY <1>1, OrderStep, ProcessAssumption DEF ProcessInv
<1>3. CountInv'
  BY <1>1, CountStep, ProcessAssumption DEF ProcessInv
<1>4. QED
  BY <1>2, <1>3 DEF ProcessInv

LEMMA ProcessInvTells == ASSUME ProcessInv PROVE LocksHold
  BY OrderInvTells, StacksHeldIsHeld, CountIsHeld, ProcessAssumption
     DEF ProcessInv, OrderInv, LocksHold

\* However many threads, sections and permits there are: what a thread holds is on its
\* stack, two threads that wait for each other have been told of, no permit is lost or
\* made by a Release or a MoveTo, and no thread sleeps on over a permit that nobody was
\* notified of (sync.cpp, sync.h).
THEOREM LocksAreSafe == ProcessSpec => []LocksHold
<1>1. ProcessInit => ProcessInv
  BY ProcessInvInit
<1>2. ProcessInv /\ [ProcessNext]_allvars => ProcessInv'
  BY ProcessInvStep
<1>3. ProcessInv => LocksHold
  BY ProcessInvTells
<1>4. QED
  BY <1>1, <1>2, <1>3, PTL DEF ProcessSpec

--------------------------------------------------------------------------------
(* All that a process shares. *)

LEMMA PagesInvTells == LockedPagesAssumption /\ PagesInv => PagesHold
  BY SecretsAreLocked, NothingStays DEF PagesInv, PagesHold

\* Files, pages, connections, sections and permits: what each run of the parts checks holds
\* for any programs, threads, objects, destinations and names (main, allocators.h,
\* netbase.cpp, sync.cpp, sync.h).
THEOREM ProcessIsSafe == ProcessSpec => [](StartsHold /\ PagesHold /\ ConnectionsHold /\ LocksHold)
<1> DEFINE AllInv == IInv /\ PagesInv /\ ConnectInv /\ ProcessInv
<1>1. ProcessInit => AllInv
  BY InitIInv, PagesInvInit, ConnectInvInit, ProcessInvInit, ProcessAssumption DEF ProcessInit
<1>2. AllInv /\ [ProcessNext]_allvars => AllInv'
  <2> SUFFICES ASSUME AllInv, [ProcessNext]_allvars PROVE AllInv'
    OBVIOUS
  <2>1. /\ [Next]_vars /\ [PagesNext]_pages
        /\ ConnectNext \/ UNCHANGED <<call, peer, proxies>>
    BY DEF ProcessNext, allvars, connection
  <2>2. IInv' /\ PagesInv' /\ ConnectInv'
    BY <2>1, IInvStep, PagesInvStep, ConnectStep, ProcessAssumption
  <2>3. QED
    BY <2>2, ProcessInvStep
<1>3. AllInv => StartsHold /\ PagesHold /\ ConnectionsHold /\ LocksHold
  BY IInvTells, PagesInvTells, ConnectInvTells, ProcessInvTells, ProcessAssumption
<1>4. QED
  BY <1>1, <1>2, <1>3, PTL DEF ProcessSpec
================================================================================
