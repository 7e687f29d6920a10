--------------------------- MODULE NetworkProofs ---------------------------
(***************************************************************************)
(* What the router and the hosts of a network learn and where datagrams    *)
(* are routed, for any interfaces, hosts, links, routes and datagrams.     *)
(*                                                                         *)
(* The invariant is that every interface is honest: its ARP messages tell  *)
(* its own addresses, and its cache holds those of stations on its own     *)
(* connection.  Each loop of the program is a FoldLeft; it is shown to be  *)
(* a Fold of Recursion, instantiated with the body of the loop and with    *)
(* what the loop keeps.                                                    *)
(***************************************************************************)
EXTENDS NetworkSpec, WellFoundedInduction, TLAPS
-----------------------------------------------------------------------------
(* Numbers.                                                                *)

\* The recursive case of selected(), for the sequence p[1] and the set p[2].
SelectStep(p, kept, i) == IF p[1][i] \in p[2] THEN Append(kept, p[1][i]) ELSE kept

\* No invariant of a loop is used.
Anything(p, k, r) == TRUE

Selects == INSTANCE Recursion WITH Step <- SelectStep, Holds <- Anything

(* A set of natural numbers that is not empty has a least element.         *)
LEMMA NatWellOrdered == Selects!WellOrdered
<1> SUFFICES ASSUME NEW S \in SUBSET Nat, S # {}
             PROVE  \E m \in S : \A y \in S : m <= y
  BY DEF Selects!WellOrdered
<1> DEFINE R == {p \in Nat \X Nat : p[1] < p[2]}
<1>1. IsWellFoundedOn(R, Nat)
  BY NatLessThanWellFounded DEF OpToRel
<1>2. PICK m \in S : \A y \in S : ~(<<y, m>> \in R)
  <2> HIDE DEF R
  <2> QED
    BY <1>1, WFMin, Zenon
<1>3. ASSUME NEW y \in S PROVE m <= y
  <2>1. m \in Nat /\ y \in Nat /\ ~(y < m)
    BY <1>2
  <2> QED
    BY <2>1
<1> QED
  BY <1>3

(* Induction, with a set in place of a predicate.                          *)
LEMMA Induction ==
  ASSUME NEW T, 0 \in T, \A n \in Nat : n \in T => n + 1 \in T
  PROVE  \A n \in Nat : n \in T
  BY NatWellOrdered, Selects!Induction
-----------------------------------------------------------------------------
(* Sequences.                                                              *)

IsSeq(q) == q \in Seq(Range(q))

(* A sequence is one of its own elements.                                  *)
LEMMA OwnElements ==
  ASSUME NEW E, NEW q \in Seq(E)
  PROVE  IsSeq(q) /\ Range(q) \subseteq E
  BY DEF IsSeq, Range

(* One more element.                                                       *)
LEMMA Appended ==
  ASSUME NEW q, IsSeq(q), NEW e
  PROVE  IsSeq(Append(q, e)) /\ Range(Append(q, e)) \subseteq Range(q) \cup {e}
<1> DEFINE E == Range(q) \cup {e}
<1>1. q \in Seq(E)
  <2>1. Range(q) \subseteq E
    OBVIOUS
  <2> HIDE DEF E
  <2> QED
    BY <2>1 DEF IsSeq
<1>2. e \in E
  OBVIOUS
<1> HIDE DEF E
<1>3. Append(q, e) \in Seq(E)
  BY <1>1, <1>2
<1>4. IsSeq(Append(q, e)) /\ Range(Append(q, e)) \subseteq E
  BY <1>3, OwnElements, Zenon
<1> QED
  BY <1>4 DEF E

(* Two sequences.                                                          *)
LEMMA Concatenated ==
  ASSUME NEW q, IsSeq(q), NEW r, IsSeq(r)
  PROVE  IsSeq(q \o r) /\ Range(q \o r) \subseteq Range(q) \cup Range(r)
<1> DEFINE E == Range(q) \cup Range(r)
<1>1. q \in Seq(E) /\ r \in Seq(E)
  <2>1. Range(q) \subseteq E /\ Range(r) \subseteq E
    OBVIOUS
  <2> HIDE DEF E
  <2> QED
    BY <2>1 DEF IsSeq
<1> HIDE DEF E
<1>2. q \o r \in Seq(E)
  BY <1>1
<1>3. IsSeq(q \o r) /\ Range(q \o r) \subseteq E
  BY <1>2, OwnElements, Zenon
<1> QED
  BY <1>3 DEF E

(* The end of a sequence.                                                  *)
LEMMA CutOff ==
  ASSUME NEW q, IsSeq(q), NEW n \in Nat
  PROVE  /\ IsSeq(SubSeq(q, n + 1, Len(q)))
         /\ Range(SubSeq(q, n + 1, Len(q))) \subseteq Range(q)
<1>1. q \in Seq(Range(q))
  BY DEF IsSeq
<1> DEFINE E == Range(q)
<1> HIDE DEF E
<1>2. SubSeq(q, n + 1, Len(q)) \in Seq(E)
  <2>1. q \in Seq(E) /\ Len(q) \in Nat
    BY <1>1 DEF E
  <2> QED
    BY <2>1
<1> QED
  BY <1>2, OwnElements, Zenon DEF E

(* What NetworkInterface selects.                                          *)
LEMMA SelectedType ==
  ASSUME NEW s, NEW S, Len(s) \in Nat
  PROVE  NI!selected(s, S) \in Seq(S)
<1> DEFINE F(f) == f = [i \in Nat |->
                          IF i = 0 THEN << >>
                          ELSE IF s[i] \in S THEN Append(f[i - 1], s[i]) ELSE f[i - 1]]
           kept == CHOOSE f : F(f)
<1>1. \E f : F(f)
  <2>1. PICK f : Selects!IsRecursive(f, <<s, S>>, << >>)
    BY NatWellOrdered, Selects!RecursionExists
  <2>2. F(f)
    BY <2>1 DEF Selects!IsRecursive, SelectStep
  <2> QED
    BY <2>2
<1>2. F(kept)
  BY <1>1, Zenon
<1>3. NI!selected(s, S) = kept[Len(s)]
  BY DEF NI!selected
<1> HIDE DEF kept
<1> DEFINE T == {n \in Nat : kept[n] \in Seq(S)}
<1>4. 0 \in T
  <2>1. kept[0] = << >>
    BY <1>2
  <2>2. << >> \in Seq(S)
    OBVIOUS
  <2>3. kept[0] \in Seq(S)
    BY <2>1, <2>2, Zenon
  <2> QED
    BY <2>3
<1>5. ASSUME NEW n \in Nat, n \in T PROVE n + 1 \in T
  <2>1. n + 1 \in Nat /\ n + 1 # 0 /\ (n + 1) - 1 = n
    OBVIOUS
  <2>2. /\ s[n + 1] \in S => kept[n + 1] = Append(kept[n], s[n + 1])
        /\ s[n + 1] \notin S => kept[n + 1] = kept[n]
    BY <1>2, <2>1
  <2>3. kept[n] \in Seq(S)
    BY <1>5
  <2> DEFINE k == kept[n]
             e == s[n + 1]
             d == kept[n + 1]
  <2> HIDE DEF k, e, d
  <2>4. k \in Seq(S) /\ (e \in S => d = Append(k, e)) /\ (e \notin S => d = k)
    BY <2>2, <2>3 DEF k, e, d
  <2>5. d \in Seq(S)
    BY <2>4
  <2> QED
    BY <2>1, <2>5 DEF d
<1>6. \A n \in Nat : n \in T
  <2> HIDE DEF T
  <2> QED
    BY <1>4, <1>5, Induction
<1> QED
  BY <1>3, <1>6

(* A pair of exchange_frames() is a pair of positions.                     *)
LEMMA PairsOfPositions ==
  ASSUME NEW link, Len(link) \in Nat
  PROVE  Pairs(link) \in Seq((1 .. Len(link)) \X (1 .. Len(link)))
<1> DEFINE n == Len(link)
           s == [k \in 1 .. n * n |-> <<1 + (k - 1) \div n, 1 + ((k - 1) % n)>>]
           S == {p \in (1 .. n) \X (1 .. n) : p[1] # p[2]}
<1>1. Pairs(link) = NI!selected(s, S)
  BY DEF Pairs
<1>2. Len(s) \in Nat
  <2>1. n * n \in Nat
    OBVIOUS
  <2> DEFINE m == n * n
             x(k) == <<1 + (k - 1) \div n, 1 + ((k - 1) % n)>>
  <2> HIDE DEF m, x
  <2>2. Len([k \in 1 .. m |-> x(k)]) \in Nat
    BY <2>1 DEF m
  <2> QED
    BY <2>2 DEF m, x
<1>3. S \subseteq (1 .. n) \X (1 .. n)
  OBVIOUS
<1> HIDE DEF s, S, n
<1>4. Pairs(link) \in Seq(S)
  BY <1>1, <1>2, SelectedType
<1> DEFINE P == (1 .. n) \X (1 .. n)
<1>5. S \subseteq P
  BY <1>3
<1> HIDE DEF P
<1>6. Pairs(link) \in Seq(P)
  BY <1>4, <1>5
<1> QED
  BY <1>6 DEF P, n

(* The elements of two sequences, one after the other.                     *)
LEMMA Joined ==
  ASSUME NEW E, NEW u \in Seq(E), NEW v \in Seq(E)
  PROVE  /\ u \o v \in Seq(E)
         /\ Len(u \o v) = Len(u) + Len(v)
         /\ \A i \in 1 .. Len(u) : (u \o v)[i] = u[i]
         /\ \A i \in Len(u) + 1 .. Len(u) + Len(v) : (u \o v)[i] = v[i - Len(u)]
  OBVIOUS

\* t is q with e at position p.
IsInserted(t, q, p, e) ==
  /\ Len(t) = Len(q) + 1
  /\ \A i \in 1 .. p - 1 : t[i] = q[i]
  /\ t[p] = e
  /\ \A i \in p + 1 .. Len(q) + 1 : t[i] = q[i - 1]

(* An element is inserted in a sequence.                                   *)
LEMMA Inserted ==
  ASSUME NEW E, NEW q \in Seq(E), NEW e \in E, NEW p \in 1 .. Len(q) + 1
  PROVE  InsertAt(q, p, e) \in Seq(E) /\ IsInserted(InsertAt(q, p, e), q, p, e)
<1> DEFINE L == Len(q)
           a == SubSeq(q, 1, p - 1)
           b == <<e>>
           c == SubSeq(q, p, L)
           ab == a \o b
<1>1. InsertAt(q, p, e) = ab \o c
  BY DEF InsertAt
<1>2. L \in Nat /\ p - 1 \in Nat /\ p - 1 <= L /\ p \in Nat
  OBVIOUS
<1>3. a \in Seq(E) /\ Len(a) = p - 1 /\ \A i \in 1 .. p - 1 : a[i] = q[i]
  BY <1>2
<1>4. b \in Seq(E) /\ Len(b) = 1 /\ b[1] = e
  OBVIOUS
<1>5. c \in Seq(E) /\ Len(c) = L + 1 - p /\ \A i \in 1 .. L + 1 - p : c[i] = q[p + i - 1]
  BY <1>2
<1> HIDE DEF L, a, b, c
<1>6. ab \in Seq(E) /\ Len(ab) = p /\ (\A i \in 1 .. p - 1 : ab[i] = q[i]) /\ ab[p] = e
  <2>1. /\ ab \in Seq(E) /\ Len(ab) = Len(a) + Len(b)
        /\ \A i \in 1 .. Len(a) : ab[i] = a[i]
        /\ \A i \in Len(a) + 1 .. Len(a) + Len(b) : ab[i] = b[i - Len(a)]
    BY <1>3, <1>4, Joined
  <2> HIDE DEF ab
  <2>2. Len(ab) = p /\ \A i \in 1 .. p - 1 : ab[i] = q[i]
    BY <1>2, <1>3, <1>4, <2>1
  <2>3. p \in Len(a) + 1 .. Len(a) + Len(b) /\ p - Len(a) = 1
    BY <1>2, <1>3, <1>4
  <2>4. ab[p] = b[1]
    BY <2>1, <2>3
  <2> QED
    BY <1>4, <2>1, <2>2, <2>4
<1> HIDE DEF ab
<1> DEFINE t == ab \o c
<1>7. /\ t \in Seq(E) /\ Len(t) = L + 1
      /\ \A i \in 1 .. p : t[i] = ab[i]
      /\ \A i \in p + 1 .. L + 1 : t[i] = c[i - p]
  <2>1. /\ t \in Seq(E) /\ Len(t) = Len(ab) + Len(c)
        /\ \A i \in 1 .. Len(ab) : t[i] = ab[i]
        /\ \A i \in Len(ab) + 1 .. Len(ab) + Len(c) : t[i] = c[i - Len(ab)]
    BY <1>5, <1>6, Joined
  <2> HIDE DEF t
  <2>2. Len(ab) = p /\ Len(ab) + Len(c) = L + 1
    BY <1>2, <1>5, <1>6
  <2> QED
    BY <2>1, <2>2
<1> HIDE DEF t
<1>8. \A i \in 1 .. p - 1 : t[i] = q[i]
  BY <1>2, <1>6, <1>7
<1>9. t[p] = e
  BY <1>2, <1>6, <1>7
<1>10. ASSUME NEW i \in p + 1 .. L + 1 PROVE t[i] = q[i - 1]
  <2>1. i - p \in 1 .. L + 1 - p /\ p + (i - p) - 1 = i - 1
    BY <1>2
  <2>2. c[i - p] = q[p + (i - p) - 1]
    BY <1>5, <2>1
  <2> QED
    BY <1>7, <2>1, <2>2
<1> QED
  BY <1>1, <1>7, <1>8, <1>9, <1>10 DEF t, L, IsInserted
-----------------------------------------------------------------------------
(* One interface.                                                          *)

Addresses(s) == IF s[1] = "router" THEN Interfaces[s[2]] ELSE Hosts[s[2]]

\* A station on a link of s has these addresses.
Truth(s, ip, eth) ==
  \E k \in DOMAIN Links : \E t \in Range(Links[k]) :
    s \in Range(Links[k]) /\ Addresses(t).ip = ip /\ Addresses(t).eth = eth

\* An ARP message of s tells the addresses of s.
ComesFrom(f, s) ==
  f.type # "IPv4" =>
    f.payload.sender_ip = Addresses(s).ip /\ f.payload.sender_eth = Addresses(s).eth

\* The fields of the interface of s.
IsInterface(n, s) ==
  n = [ ethernet_address      |-> Addresses(s).eth,
        ip_address            |-> Addresses(s).ip,
        frames_out            |-> n.frames_out,
        ethernet_addr_cache   |-> n.ethernet_addr_cache,
        queueing_IP_datagrams |-> n.queueing_IP_datagrams,
        arp_timer             |-> n.arp_timer ]

\* The interface of s has learned nothing wrong and says nothing wrong.
Honest(n, s) ==
  /\ IsInterface(n, s)
  /\ IsSeq(n.frames_out) /\ \A f \in Range(n.frames_out) : ComesFrom(f, s)
  /\ IsSeq(n.queueing_IP_datagrams)
  /\ \A ip \in DOMAIN n.ethernet_addr_cache : Truth(s, ip, n.ethernet_addr_cache[ip].addr)

(* An interface is honest when it is made.                                 *)
LEMMA NewHonest ==
  ASSUME NEW s
  PROVE  Honest(NI!New(Addresses(s).eth, Addresses(s).ip), s)
  BY DEF Honest, IsInterface, NI!New, IsSeq, Range

(* It stays so when it sends a frame that tells its own addresses.         *)
LEMMA PushHonest ==
  ASSUME NEW n, NEW s, Honest(n, s), NEW dst, NEW type, NEW payload,
         ComesFrom(NI!frame(n.ethernet_address, dst, type, payload), s)
  PROVE  Honest(NI!push_frame(n, dst, type, payload), s)
<1> DEFINE f == NI!frame(n.ethernet_address, dst, type, payload)
           q == Append(n.frames_out, f)
           m == NI!push_frame(n, dst, type, payload)
<1>1. m = [n EXCEPT !.frames_out = q]
  BY DEF NI!push_frame
<1>2. IsSeq(q) /\ Range(q) \subseteq Range(n.frames_out) \cup {f}
  <2> HIDE DEF f
  <2> QED
    BY Appended DEF Honest
<1>3. \A x \in Range(q) : ComesFrom(x, s)
  <2> HIDE DEF q, f
  <2> QED
    BY <1>2 DEF Honest, f
<1> HIDE DEF m, q
<1>4. /\ IsInterface(m, s)
      /\ m.frames_out = q
      /\ m.ethernet_addr_cache = n.ethernet_addr_cache
      /\ m.queueing_IP_datagrams = n.queueing_IP_datagrams
  BY <1>1 DEF Honest, IsInterface
<1>5. Honest(m, s)
  BY <1>2, <1>3, <1>4 DEF Honest
<1> QED
  BY <1>5 DEF m

(* send_datagram() of an honest interface.                                 *)
LEMMA SendHonest ==
  ASSUME NEW n, NEW s, Honest(n, s), NEW dgram, NEW hop
  PROVE  Honest(NI!send_datagram(n, dgram, hop), s)
<1>1. CASE hop \in DOMAIN n.ethernet_addr_cache
  <2> DEFINE addr == n.ethernet_addr_cache[hop].addr
  <2>1. NI!send_datagram(n, dgram, hop) = NI!push_frame(n, addr, "IPv4", dgram)
    BY <1>1 DEF NI!send_datagram
  <2>2. ComesFrom(NI!frame(n.ethernet_address, addr, "IPv4", dgram), s)
    BY DEF ComesFrom, NI!frame
  <2> HIDE DEF addr
  <2> QED
    BY <2>1, <2>2, PushHonest
<1>2. CASE hop \notin DOMAIN n.ethernet_addr_cache
  <2> DEFINE r == NI!request(n, hop)
             e == [dgram |-> dgram, hop |-> hop]
             q == Append(r.queueing_IP_datagrams, e)
  <2>1. NI!send_datagram(n, dgram, hop) = [r EXCEPT !.queueing_IP_datagrams = q]
    BY <1>2 DEF NI!send_datagram
  <2>2. Honest(r, s)
    <3>1. CASE hop \in DOMAIN n.arp_timer /\ n.arp_timer[hop] < ARP_REQ_TIME
      BY <3>1 DEF NI!request
    <3>2. CASE ~(hop \in DOMAIN n.arp_timer /\ n.arp_timer[hop] < ARP_REQ_TIME)
      <4> DEFINE a == [n EXCEPT !.arp_timer = NI!put(@, hop, 0)]
                 msg == NI!arp_message(a, "REQUEST", NoEthernetAddress, hop)
      <4>1. Honest(a, s)
        BY DEF Honest, IsInterface
      <4>2. a.ethernet_address = Addresses(s).eth /\ a.ip_address = Addresses(s).ip
        BY <4>1 DEF Honest, IsInterface
      <4>3. ComesFrom(NI!frame(a.ethernet_address, ETHERNET_BROADCAST, "ARP", msg), s)
        <5> HIDE DEF a
        <5> QED
          BY <4>2 DEF ComesFrom, NI!frame, NI!arp_message
      <4>4. r = NI!push_frame(a, ETHERNET_BROADCAST, "ARP", msg)
        BY <3>2 DEF NI!request, NI!arp_message
      <4> HIDE DEF a, msg
      <4> QED
        BY <4>1, <4>3, <4>4, PushHonest
    <3> QED
      BY <3>1, <3>2
  <2> HIDE DEF r, e
  <2>3. IsSeq(q)
    BY <2>2, Appended DEF Honest
  <2> HIDE DEF q
  <2>4. Honest([r EXCEPT !.queueing_IP_datagrams = q], s)
    BY <2>2, <2>3 DEF Honest, IsInterface
  <2> QED
    BY <2>1, <2>4
<1> QED
  BY <1>1, <1>2

(* The cache after an address was learned.                                 *)
LEMMA LearnedTruth ==
  ASSUME NEW s, NEW cache, \A ip \in DOMAIN cache : Truth(s, ip, cache[ip].addr),
         NEW msg, Truth(s, msg.sender_ip, msg.sender_eth)
  PROVE  \A ip \in DOMAIN NI!learned(cache, msg) :
            Truth(s, ip, NI!learned(cache, msg)[ip].addr)
<1> SUFFICES ASSUME NEW ip \in DOMAIN NI!learned(cache, msg)
             PROVE  Truth(s, ip, NI!learned(cache, msg)[ip].addr)
  OBVIOUS
<1>1. CASE ip = msg.sender_ip
  <2>1. NI!learned(cache, msg)[ip].addr = msg.sender_eth
    BY <1>1 DEF NI!learned, NI!put
  <2> QED
    BY <1>1, <2>1
<1>2. CASE ip # msg.sender_ip
  <2>1. ip \in DOMAIN cache /\ NI!learned(cache, msg)[ip] = cache[ip]
    BY <1>2 DEF NI!learned, NI!put
  <2> QED
    BY <2>1
<1> QED
  BY <1>1, <1>2

(* What has waited for an address goes out.                                *)
LEMMA SendWaitingHonest ==
  ASSUME NEW n, NEW s, Honest(n, s), NEW ip
  PROVE  Honest(NI!send_waiting(n, ip), s)
<1> DEFINE queue   == n.queueing_IP_datagrams
           waiting == NI!selected(queue, NI!for_hop(queue, ip))
           more    == [i \in DOMAIN waiting |->
                         NI!frame(n.ethernet_address, n.ethernet_addr_cache[ip].addr,
                                  "IPv4", waiting[i].dgram)]
           rest    == NI!still_waiting(queue, ip)
           fs      == n.frames_out \o more
           m       == NI!send_waiting(n, ip)
<1>1. m = [n EXCEPT !.frames_out = fs, !.queueing_IP_datagrams = rest]
  BY DEF NI!send_waiting
<1>2. Len(queue) \in Nat
  BY DEF Honest, IsSeq
<1>3. \E S : waiting \in Seq(S)
  <2> HIDE DEF queue
  <2> QED
    BY <1>2, SelectedType
<1>4. \E S : rest \in Seq(S)
  <2> HIDE DEF queue
  <2> QED
    BY <1>2, SelectedType DEF NI!still_waiting
<1>5. IsSeq(rest)
  <2> HIDE DEF rest
  <2> QED
    BY <1>4, OwnElements
<1> HIDE DEF waiting, rest
<1>6. IsSeq(more) /\ \A f \in Range(more) : f.type = "IPv4"
  <2>1. PICK S : waiting \in Seq(S)
    BY <1>3
  <2>2. DOMAIN waiting = 1 .. Len(waiting) /\ Len(waiting) \in Nat
    BY <2>1
  <2>3. DOMAIN more = 1 .. Len(waiting)
    BY <2>2
  <2>4. \A f \in Range(more) : f.type = "IPv4"
    BY DEF Range, NI!frame
  <2> DEFINE E == Range(more)
  <2>5. \A i \in 1 .. Len(waiting) : more[i] \in E
    BY <2>3 DEF Range
  <2>6. more = [i \in 1 .. Len(waiting) |-> more[i]]
    BY <2>3
  <2> HIDE DEF more, E
  <2>7. more \in Seq(E)
    BY <2>2, <2>5, <2>6
  <2> QED
    BY <2>4, <2>7 DEF IsSeq, E
<1>7. IsSeq(fs) /\ Range(fs) \subseteq Range(n.frames_out) \cup Range(more)
  <2> HIDE DEF more
  <2> QED
    BY <1>6, Concatenated DEF Honest
<1>8. \A f \in Range(fs) : ComesFrom(f, s)
  <2> HIDE DEF fs, more
  <2> QED
    BY <1>6, <1>7 DEF Honest, ComesFrom
<1> HIDE DEF m, fs
<1>9. /\ IsInterface(m, s)
      /\ m.frames_out = fs
      /\ m.ethernet_addr_cache = n.ethernet_addr_cache
      /\ m.queueing_IP_datagrams = rest
  <2>1. IsInterface(n, s)
    BY DEF Honest
  <2> DEFINE l == [n EXCEPT !.frames_out = fs]
  <2>2. m = [l EXCEPT !.queueing_IP_datagrams = rest]
    BY <1>1, <2>1 DEF IsInterface
  <2>3. /\ IsInterface(l, s)
        /\ l.frames_out = fs
        /\ l.ethernet_addr_cache = n.ethernet_addr_cache
    BY <2>1 DEF IsInterface
  <2> HIDE DEF l
  <2> QED
    BY <2>2, <2>3 DEF IsInterface
<1>10. Honest(m, s)
  BY <1>5, <1>7, <1>8, <1>9 DEF Honest
<1> QED
  BY <1>10 DEF m

(* recv_frame() of an honest interface, when the frame tells the truth.    *)
LEMMA RecvHonest ==
  ASSUME NEW n, NEW s, Honest(n, s), NEW f,
         f.type # "IPv4" => Truth(s, f.payload.sender_ip, f.payload.sender_eth)
  PROVE  Honest(NI!recv_frame(n, f), s)
<1> DEFINE msg   == f.payload
           cache == NI!learned(n.ethernet_addr_cache, msg)
           timer == NI!erase(n.arp_timer, {msg.sender_ip})
           a     == [n EXCEPT !.ethernet_addr_cache = cache, !.arp_timer = timer]
           b     == NI!send_waiting(a, msg.sender_ip)
           back  == NI!arp_message(b, "REPLY", msg.sender_eth, msg.sender_ip)
<1> SUFFICES ASSUME NI!for_us(n, f), f.type # "IPv4"
             PROVE  Honest(NI!recv_frame(n, f), s)
  BY DEF NI!recv_frame
<1>1. NI!recv_frame(n, f) = NI!reply(b, msg)
  BY DEF NI!recv_frame, NI!learn
<1>2. \A ip \in DOMAIN cache : Truth(s, ip, cache[ip].addr)
  BY LearnedTruth DEF Honest
<1>3. Honest(a, s)
  <2> HIDE DEF cache, timer
  <2>1. IsInterface(n, s)
    BY DEF Honest
  <2> DEFINE l == [n EXCEPT !.ethernet_addr_cache = cache]
  <2>2. a = [l EXCEPT !.arp_timer = timer]
    BY <2>1 DEF IsInterface
  <2>3. /\ IsInterface(l, s)
        /\ l.frames_out = n.frames_out
        /\ l.ethernet_addr_cache = cache
        /\ l.queueing_IP_datagrams = n.queueing_IP_datagrams
    BY <2>1 DEF IsInterface
  <2> HIDE DEF a, l
  <2>4. /\ IsInterface(a, s)
        /\ a.frames_out = n.frames_out
        /\ a.ethernet_addr_cache = cache
        /\ a.queueing_IP_datagrams = n.queueing_IP_datagrams
    BY <2>2, <2>3 DEF IsInterface
  <2> QED
    BY <1>2, <2>4 DEF Honest
<1> HIDE DEF a
<1>4. Honest(b, s)
  BY <1>3, SendWaitingHonest
<1> HIDE DEF b
<1>5. b.ethernet_address = Addresses(s).eth /\ b.ip_address = Addresses(s).ip
  BY <1>4 DEF Honest, IsInterface
<1>6. ComesFrom(NI!frame(b.ethernet_address, msg.sender_eth, "ARP", back), s)
  BY <1>5 DEF ComesFrom, NI!frame, NI!arp_message
<1>7. Honest(NI!push_frame(b, msg.sender_eth, "ARP", back), s)
  <2> HIDE DEF back
  <2> QED
    BY <1>4, <1>6, PushHonest
<1>8. \/ NI!reply(b, msg) = b
      \/ NI!reply(b, msg) = NI!push_frame(b, msg.sender_eth, "ARP", back)
  BY DEF NI!reply
<1> QED
  BY <1>1, <1>4, <1>7, <1>8

(* Frames leave the queue of an honest interface.                          *)
LEMMA FramesGone ==
  ASSUME NEW n, NEW s, Honest(n, s), NEW c \in Nat
  PROVE  Honest([n EXCEPT !.frames_out = SubSeq(@, c + 1, Len(@))], s)
<1> DEFINE q == SubSeq(n.frames_out, c + 1, Len(n.frames_out))
           m == [n EXCEPT !.frames_out = q]
<1>1. IsSeq(q) /\ Range(q) \subseteq Range(n.frames_out)
  BY CutOff DEF Honest
<1>2. [n EXCEPT !.frames_out = SubSeq(@, c + 1, Len(@))] = m
  BY DEF Honest, IsInterface
<1> HIDE DEF q
<1>3. IsInterface(n, s)
  BY DEF Honest
<1>4. /\ IsInterface(m, s)
      /\ m.frames_out = q
      /\ m.ethernet_addr_cache = n.ethernet_addr_cache
      /\ m.queueing_IP_datagrams = n.queueing_IP_datagrams
  BY <1>3 DEF IsInterface
<1> HIDE DEF m
<1>5. Honest(m, s)
  BY <1>1, <1>4 DEF Honest
<1> QED
  BY <1>2, <1>5
-----------------------------------------------------------------------------
(* The routing table.                                                      *)

Route == [ route_prefix  : Address,
           prefix_length : 0 .. AddressBits,
           next_hop      : Address \cup {NoHop},
           interface_num : DOMAIN Interfaces ]

\* These routes, those with longer prefixes first.
TableOf(table, routes) ==
  /\ IsSeq(table)
  /\ Range(table) = routes
  /\ \A i, j \in DOMAIN table : i <= j => table[i].prefix_length >= table[j].prefix_length

\* The table has the routes that were added.
TableOK(table) ==
  \E routes \in RouteOrders : TableOf(table, Range(routes))

(* A table is a sequence of routes.                                        *)
LEMMA TableRoutes ==
  ASSUME NEW table, TableOK(table)
  PROVE  /\ IsSeq(table)
         /\ \A i \in DOMAIN table : table[i] \in Route
<1>1. PICK routes \in RouteOrders : TableOf(table, Range(routes))
  BY DEF TableOK
<1>2. routes \in Seq(Route)
  BY NetworkAssumption DEF Route
<1> HIDE DEF Route
<1>3. Range(routes) \subseteq Route
  BY <1>2, OwnElements, Zenon
<1> QED
  BY <1>1, <1>3 DEF TableOf, Range

\* The place add_route() finds.
Place(table, entry) ==
  LET shorter == {i \in DOMAIN table : entry.prefix_length > table[i].prefix_length}
  IN  IF shorter = {} THEN Len(table) + 1 ELSE Min(shorter)

(* The prefixes before it are as long or longer, those from it on shorter. *)
LEMMA PlaceInOrder ==
  ASSUME NEW table, NEW routes \in SUBSET Route, TableOf(table, routes), NEW entry \in Route
  PROVE  /\ Place(table, entry) \in 1 .. Len(table) + 1
         /\ \A i \in DOMAIN table :
              /\ i < Place(table, entry) => table[i].prefix_length >= entry.prefix_length
              /\ i >= Place(table, entry) => entry.prefix_length >= table[i].prefix_length
<1> DEFINE L == Len(table)
           pl(i) == table[i].prefix_length
           new == entry.prefix_length
           shorter == {i \in DOMAIN table : new > pl(i)}
           p == Place(table, entry)
<1>1. L \in Nat /\ DOMAIN table = 1 .. L
  BY DEF TableOf, IsSeq
<1>2. new \in Nat /\ \A i \in 1 .. L : pl(i) \in Nat
  <2>1. \A r \in Route : r.prefix_length \in Nat
    BY AddressBitsAssumption DEF Route
  <2>2. \A i \in 1 .. L : table[i] \in Route
    BY <1>1 DEF TableOf, Range
  <2> QED
    BY <2>1, <2>2
<1>3. \A i, j \in 1 .. L : i <= j => pl(i) >= pl(j)
  BY <1>1 DEF TableOf
<1>4. p = IF shorter = {} THEN L + 1 ELSE Min(shorter)
  BY DEF Place
<1>5. shorter = {i \in 1 .. L : new > pl(i)}
  BY <1>1
<1> HIDE DEF L, pl, new, shorter, p
<1>6. CASE shorter = {}
  <2>1. p = L + 1 /\ \A i \in 1 .. L : pl(i) >= new
    BY <1>2, <1>4, <1>5, <1>6
  <2>2. p \in 1 .. L + 1 /\ \A i \in 1 .. L : i < p => pl(i) >= new
    BY <1>1, <2>1
  <2>3. \A i \in 1 .. L : ~(i >= p)
    BY <1>1, <2>1
  <2> QED
    BY <1>1, <2>2, <2>3 DEF L, pl, new, p
<1>7. CASE shorter # {}
  <2>1. \E m \in shorter : \A y \in shorter : m <= y
    <3>1. shorter \in SUBSET Nat
      BY <1>1, <1>5
    <3> QED
      BY <1>7, <3>1, NatWellOrdered DEF Selects!WellOrdered
  <2>2. p \in shorter /\ \A y \in shorter : p <= y
    BY <1>4, <1>7, <2>1 DEF Min
  <2>3. p \in 1 .. L /\ new > pl(p)
    BY <1>5, <2>2
  <2>4. \A i \in 1 .. L : i < p => pl(i) >= new
    BY <1>1, <1>2, <1>5, <2>2, <2>3
  <2>5. \A i \in 1 .. L : i >= p => new >= pl(i)
    BY <1>1, <1>2, <1>3, <2>3
  <2>6. p \in 1 .. L + 1
    BY <1>1, <2>3
  <2> QED
    BY <1>1, <2>4, <2>5, <2>6 DEF L, pl, new, p
<1> QED
  BY <1>6, <1>7

(* add_route() keeps the table in order.                                   *)
LEMMA RouteAdded ==
  ASSUME NEW table, NEW routes \in SUBSET Route, TableOf(table, routes), NEW entry \in Route
  PROVE  TableOf(InsertAt(table, Place(table, entry), entry), routes \cup {entry})
<1> DEFINE L == Len(table)
           p == Place(table, entry)
           t == InsertAt(table, p, entry)
           E == routes \cup {entry}
<1>1. L \in Nat /\ DOMAIN table = 1 .. L /\ table \in Seq(E) /\ Range(table) = routes
  <2>1. table \in Seq(routes) /\ Range(table) = routes
    BY DEF TableOf, IsSeq
  <2>2. routes \subseteq E
    OBVIOUS
  <2> HIDE DEF E
  <2>3. table \in Seq(E)
    BY <2>1, <2>2
  <2>4. L \in Nat /\ DOMAIN table = 1 .. L
    BY <2>1
  <2> QED
    BY <2>1, <2>3, <2>4
<1>2. /\ p \in 1 .. L + 1
      /\ \A i \in 1 .. L :
           /\ i < p => table[i].prefix_length >= entry.prefix_length
           /\ i >= p => entry.prefix_length >= table[i].prefix_length
  BY <1>1, PlaceInOrder
<1> HIDE DEF p
<1>3. entry \in E
  OBVIOUS
<1>4. /\ t \in Seq(E) /\ Len(t) = L + 1
      /\ \A i \in 1 .. p - 1 : t[i] = table[i]
      /\ t[p] = entry
      /\ \A i \in p + 1 .. L + 1 : t[i] = table[i - 1]
  <2>1. t \in Seq(E) /\ IsInserted(t, table, p, entry)
    <3> HIDE DEF E
    <3> QED
      BY <1>1, <1>2, <1>3, Inserted
  <2> QED
    BY <2>1 DEF IsInserted
<1> HIDE DEF L, t
<1>5. DOMAIN t = 1 .. L + 1 /\ p \in Nat
  BY <1>1, <1>2, <1>4
<1>6. IsSeq(t) /\ Range(t) \subseteq E
  <2> HIDE DEF E
  <2> QED
    BY <1>4, OwnElements
<1>7. E \subseteq Range(t)
  <2> SUFFICES ASSUME NEW e \in E PROVE \E i \in 1 .. L + 1 : t[i] = e
    BY <1>5 DEF Range
  <2>1. CASE e = entry
    BY <1>2, <1>4, <2>1
  <2>2. CASE e \in routes
    <3>1. PICK i \in 1 .. L : table[i] = e
      BY <1>1, <2>2 DEF Range
    <3>2. CASE i < p
      BY <1>1, <1>4, <1>5, <3>1, <3>2
    <3>3. CASE i >= p
      <4>1. i + 1 \in p + 1 .. L + 1 /\ (i + 1) - 1 = i /\ i + 1 \in 1 .. L + 1
        BY <1>1, <1>5, <3>3
      <4>2. t[i + 1] = table[(i + 1) - 1]
        BY <1>4, <4>1
      <4> QED
        BY <3>1, <4>1, <4>2
    <3> QED
      BY <1>5, <3>2, <3>3
  <2> QED
    BY <2>1, <2>2
<1> DEFINE pl(i) == t[i].prefix_length
           old(i) == table[i].prefix_length
           new == entry.prefix_length
<1>8. /\ \A i \in 1 .. p - 1 : pl(i) = old(i)
      /\ pl(p) = new
      /\ \A i \in p + 1 .. L + 1 : pl(i) = old(i - 1)
  BY <1>4
<1>9. /\ \A i, j \in 1 .. L : i <= j => old(i) >= old(j)
      /\ \A i \in 1 .. L : (i < p => old(i) >= new) /\ (i >= p => new >= old(i))
      /\ new \in Nat /\ \A i \in 1 .. L : old(i) \in Nat
  <2>1. \A r \in Route : r.prefix_length \in Nat
    BY AddressBitsAssumption DEF Route
  <2>2. \A i \in 1 .. L : table[i] \in Route
    BY <1>1 DEF Range
  <2> QED
    BY <1>1, <1>2, <2>1, <2>2 DEF TableOf
<1> HIDE DEF pl, old, new
<1>10. ASSUME NEW i \in 1 .. L + 1, NEW j \in 1 .. L + 1, i <= j PROVE pl(i) >= pl(j)
  <2>1. CASE j < p
    <3>1. i \in 1 .. p - 1 /\ j \in 1 .. p - 1 /\ i \in 1 .. L /\ j \in 1 .. L
      BY <1>1, <1>2, <1>10, <2>1
    <3> QED
      BY <1>8, <1>9, <1>10, <3>1
  <2>2. CASE i < p /\ j = p
    <3>1. i \in 1 .. p - 1 /\ i \in 1 .. L
      BY <1>1, <1>2, <2>2
    <3> QED
      BY <1>8, <1>9, <2>2, <3>1
  <2>3. CASE i = p /\ j = p
    BY <1>8, <1>9, <2>3
  <2>4. CASE i = p /\ j > p
    <3>1. j \in p + 1 .. L + 1 /\ j - 1 \in 1 .. L /\ j - 1 >= p
      BY <1>1, <1>5, <2>4
    <3>2. pl(j) = old(j - 1) /\ new >= old(j - 1)
      BY <1>8, <1>9, <3>1
    <3> QED
      BY <1>8, <2>4, <3>2
  <2>5. CASE i < p /\ j > p
    <3>1. j \in p + 1 .. L + 1 /\ j - 1 \in 1 .. L /\ i <= j - 1 /\ i \in 1 .. p - 1 /\ i \in 1 .. L
      BY <1>1, <1>5, <2>5
    <3>2. pl(j) = old(j - 1) /\ pl(i) = old(i) /\ old(i) >= old(j - 1)
      BY <1>8, <1>9, <3>1
    <3> QED
      BY <3>2
  <2>6. CASE i > p
    <3>1. j > p /\ L \in Nat /\ p \in Nat /\ p >= 1
      BY <1>1, <1>2, <1>5, <1>10, <2>6
    <3>2. i \in p + 1 .. L + 1 /\ i - 1 \in 1 .. L
      BY <2>6, <3>1
    <3>3. j \in p + 1 .. L + 1 /\ j - 1 \in 1 .. L
      BY <3>1
    <3>4. i - 1 <= j - 1
      BY <1>10
    <3>5. pl(j) = old(j - 1) /\ pl(i) = old(i - 1) /\ old(i - 1) >= old(j - 1)
      BY <1>8, <1>9, <3>2, <3>3, <3>4
    <3> QED
      BY <3>5
  <2> QED
    BY <1>1, <1>5, <1>10, <2>1, <2>2, <2>3, <2>4, <2>5, <2>6
<1>11. TableOf(t, E)
  BY <1>5, <1>6, <1>7, <1>10 DEF TableOf, pl
<1> QED
  BY <1>11 DEF t, p

(* The loop of route_one_datagram() finds the first route that matches.    *)
LEMMA FirstMatch ==
  ASSUME NEW table, IsSeq(table), NEW dst
  PROVE  LET first == SelectInSeq(table, LAMBDA entry : matches(entry, dst))
         IN  \/ first = 0 /\ \A i \in DOMAIN table : ~matches(table[i], dst)
             \/ /\ first \in DOMAIN table /\ first # 0 /\ matches(table[first], dst)
                /\ \A i \in DOMAIN table : matches(table[i], dst) => first <= i
<1> DEFINE I == {i \in 1 .. Len(table) : matches(table[i], dst)}
           first == SelectInSeq(table, LAMBDA entry : matches(entry, dst))
<1>1. first = IF I # {} THEN Min(I) ELSE 0
  BY DEF SelectInSeq
<1>2. DOMAIN table = 1 .. Len(table) /\ Len(table) \in Nat
  BY DEF IsSeq
<1> HIDE DEF first
<1>3. CASE I = {}
  BY <1>1, <1>2, <1>3 DEF first
<1>4. CASE I # {}
  <2>1. I \in SUBSET Nat
    BY <1>2
  <2>2. \E m \in I : \A y \in I : m <= y
    <3> HIDE DEF I
    <3> QED
      BY <1>4, <2>1, NatWellOrdered DEF Selects!WellOrdered
  <2>3. Min(I) \in I /\ \A y \in I : Min(I) <= y
    <3> HIDE DEF I
    <3> QED
      BY <2>2 DEF Min
  <2>4. first \in I /\ \A y \in I : first <= y
    BY <1>1, <1>4, <2>3
  <2>5. /\ first \in DOMAIN table /\ first # 0 /\ matches(table[first], dst)
        /\ \A i \in DOMAIN table : matches(table[i], dst) => first <= i
    BY <1>2, <2>4
  <2> QED
    BY <2>5 DEF first
<1> QED
  BY <1>3, <1>4
-----------------------------------------------------------------------------
(* The router.                                                             *)

\* A function on the interfaces.
PerInterface(f) == f = [i \in DOMAIN Interfaces |-> f[i]]

RouterFields(r) ==
  r = [ interfaces    |-> r.interfaces,
        datagrams_out |-> r.datagrams_out,
        routing_table |-> r.routing_table ]

\* All its interfaces are honest.
RouterOK(r) ==
  /\ RouterFields(r)
  /\ PerInterface(r.interfaces)
  /\ \A i \in DOMAIN Interfaces : Honest(r.interfaces[i], <<"router", i>>)
  /\ PerInterface(r.datagrams_out)
  /\ \A i \in DOMAIN Interfaces : IsSeq(r.datagrams_out[i])
  /\ TableOK(r.routing_table)

(* One interface is replaced by an honest one.                             *)
LEMMA InterfaceReplaced ==
  ASSUME NEW r, RouterOK(r), NEW i \in DOMAIN Interfaces, NEW n, Honest(n, <<"router", i>>)
  PROVE  RouterOK([r EXCEPT !.interfaces[i] = n])
<1> DEFINE q == [r EXCEPT !.interfaces[i] = n]
<1>1. RouterFields(r) /\ PerInterface(r.interfaces)
  BY DEF RouterOK
<1>2. /\ RouterFields(q)
      /\ q.interfaces = [r.interfaces EXCEPT ![i] = n]
      /\ q.datagrams_out = r.datagrams_out
      /\ q.routing_table = r.routing_table
  BY <1>1 DEF RouterFields
<1> HIDE DEF q
<1>3. /\ PerInterface(q.interfaces)
      /\ \A j \in DOMAIN Interfaces : q.interfaces[j] = IF j = i THEN n ELSE r.interfaces[j]
  BY <1>1, <1>2 DEF PerInterface
<1>4. \A j \in DOMAIN Interfaces : Honest(q.interfaces[j], <<"router", j>>)
  BY <1>3 DEF RouterOK
<1>5. RouterOK(q)
  BY <1>2, <1>3, <1>4 DEF RouterOK
<1> QED
  BY <1>5 DEF q

(* One queue of datagrams is replaced.                                     *)
LEMMA QueueReplaced ==
  ASSUME NEW r, RouterOK(r), NEW i \in DOMAIN Interfaces, NEW d, IsSeq(d)
  PROVE  RouterOK([r EXCEPT !.datagrams_out[i] = d])
<1> DEFINE q == [r EXCEPT !.datagrams_out[i] = d]
<1>1. RouterFields(r) /\ PerInterface(r.datagrams_out)
  BY DEF RouterOK
<1>2. /\ RouterFields(q)
      /\ q.interfaces = r.interfaces
      /\ q.datagrams_out = [r.datagrams_out EXCEPT ![i] = d]
      /\ q.routing_table = r.routing_table
  BY <1>1 DEF RouterFields
<1> HIDE DEF q
<1>3. /\ PerInterface(q.datagrams_out)
      /\ \A j \in DOMAIN Interfaces : q.datagrams_out[j] = IF j = i THEN d ELSE r.datagrams_out[j]
  BY <1>1, <1>2 DEF PerInterface
<1>4. \A j \in DOMAIN Interfaces : IsSeq(q.datagrams_out[j])
  BY <1>3 DEF RouterOK
<1>5. RouterOK(q)
  BY <1>2, <1>3, <1>4 DEF RouterOK
<1> QED
  BY <1>5 DEF q

(* The router gets a frame.                                                *)
LEMMA RouterReceives ==
  ASSUME NEW r, RouterOK(r), NEW i \in DOMAIN Interfaces, NEW f,
         f.type # "IPv4" =>
           Truth(<<"router", i>>, f.payload.sender_ip, f.payload.sender_eth)
  PROVE  RouterOK(recv_frame(r, i, f))
<1> DEFINE n == NI!recv_frame(r.interfaces[i], f)
           d == IF NI!returns_datagram(r.interfaces[i], f)
                THEN Append(r.datagrams_out[i], f.payload) ELSE r.datagrams_out[i]
           l == [r EXCEPT !.interfaces[i] = n]
<1>1. Honest(n, <<"router", i>>)
  BY RecvHonest DEF RouterOK
<1>2. IsSeq(d)
  BY Appended DEF RouterOK
<1>3. RouterOK(l)
  <2> HIDE DEF n
  <2> QED
    BY <1>1, InterfaceReplaced
<1>4. recv_frame(r, i, f) = [l EXCEPT !.datagrams_out[i] = d]
  <2>1. RouterFields(r)
    BY DEF RouterOK
  <2>2. recv_frame(r, i, f) = [r EXCEPT !.interfaces[i] = n, !.datagrams_out[i] = d]
    BY <2>1 DEF recv_frame, RouterFields
  <2> HIDE DEF n, d
  <2> QED
    BY <2>1, <2>2 DEF RouterFields
<1> HIDE DEF l, d
<1> QED
  BY <1>2, <1>3, <1>4, QueueReplaced

\* The router after a datagram has been sent by this entry of the table.
SentBy(r, dgram, entry) ==
  [r EXCEPT !.interfaces[entry.interface_num] =
     NI!send_datagram(@, [dgram EXCEPT !.ttl = @ - 1],
                      IF entry.next_hop = NoHop THEN dgram.dst ELSE entry.next_hop)]

(* A datagram is sent by the first route that matches, or not at all.      *)
LEMMA RouteOneEffect ==
  ASSUME NEW r, RouterOK(r), NEW dgram
  PROVE  LET table == r.routing_table
         IN  \/ /\ route_one_datagram(r, dgram) = r
                /\ \/ time_is_up(dgram)
                   \/ \A i \in DOMAIN table : ~matches(table[i], dgram.dst)
             \/ /\ ~time_is_up(dgram)
                /\ \E i \in DOMAIN table :
                     /\ matches(table[i], dgram.dst)
                     /\ \A j \in DOMAIN table : matches(table[j], dgram.dst) => i <= j
                     /\ route_one_datagram(r, dgram) = SentBy(r, dgram, table[i])
<1> DEFINE table == r.routing_table
           dst   == dgram.dst
           first == SelectInSeq(table, LAMBDA entry : matches(entry, dst))
<1>1. \/ first = 0 /\ \A i \in DOMAIN table : ~matches(table[i], dst)
      \/ /\ first \in DOMAIN table /\ first # 0 /\ matches(table[first], dst)
         /\ \A i \in DOMAIN table : matches(table[i], dst) => first <= i
  BY FirstMatch, TableRoutes DEF RouterOK
<1>2. route_one_datagram(r, dgram) =
        IF time_is_up(dgram) \/ first = 0 THEN r ELSE SentBy(r, dgram, table[first])
  BY DEF route_one_datagram, SentBy
<1> HIDE DEF first, table, dst
<1>3. CASE time_is_up(dgram) \/ first = 0
  BY <1>1, <1>2, <1>3 DEF table, dst
<1>4. CASE ~(time_is_up(dgram) \/ first = 0)
  BY <1>1, <1>2, <1>4 DEF table, dst
<1> QED
  BY <1>3, <1>4

(* It leaves the interfaces honest.                                        *)
LEMMA RouteOneOK ==
  ASSUME NEW r, RouterOK(r), NEW dgram
  PROVE  RouterOK(route_one_datagram(r, dgram))
<1>1. CASE route_one_datagram(r, dgram) = r
  BY <1>1
<1>2. ASSUME NEW i \in DOMAIN r.routing_table,
             route_one_datagram(r, dgram) = SentBy(r, dgram, r.routing_table[i])
      PROVE  RouterOK(route_one_datagram(r, dgram))
  <2> DEFINE entry == r.routing_table[i]
             k     == entry.interface_num
             less  == [dgram EXCEPT !.ttl = @ - 1]
             hop   == IF entry.next_hop = NoHop THEN dgram.dst ELSE entry.next_hop
             n     == NI!send_datagram(r.interfaces[k], less, hop)
  <2>1. k \in DOMAIN Interfaces
    BY <1>2, TableRoutes DEF RouterOK, Route
  <2>2. Honest(r.interfaces[k], <<"router", k>>)
    BY <2>1 DEF RouterOK
  <2>3. SentBy(r, dgram, entry) = [r EXCEPT !.interfaces[k] = n]
    <3>1. RouterFields(r) /\ PerInterface(r.interfaces)
      BY DEF RouterOK
    <3> QED
      BY <2>1, <3>1 DEF SentBy, RouterFields, PerInterface
  <2> HIDE DEF k, less, hop
  <2>4. Honest(n, <<"router", k>>)
    BY <2>2, SendHonest
  <2> HIDE DEF n
  <2> QED
    BY <1>2, <2>1, <2>3, <2>4, InterfaceReplaced
<1> QED
  BY <1>1, <1>2, RouteOneEffect

\* The best of the routes for a datagram.
LongestMatches(table, dst) ==
  {entry \in Range(table) : matches(entry, dst) /\
     \A other \in Range(table) : matches(other, dst) =>
        other.prefix_length <= entry.prefix_length}

\* route_one_datagram() uses one of them; it drops what none is there for
\* and what has no time to live.
ByLongestPrefix(r, dgram) ==
  LET table == r.routing_table
  IN  IF time_is_up(dgram) \/ \A entry \in Range(table) : ~matches(entry, dgram.dst)
      THEN route_one_datagram(r, dgram) = r
      ELSE \E entry \in LongestMatches(table, dgram.dst) :
             route_one_datagram(r, dgram) = SentBy(r, dgram, entry)

(* The first route that matches is one with the longest prefix.            *)
LEMMA LongestIsFirst ==
  ASSUME NEW r, RouterOK(r), NEW dgram
  PROVE  ByLongestPrefix(r, dgram)
<1> DEFINE table == r.routing_table
           dst   == dgram.dst
           q     == route_one_datagram(r, dgram)
<1>1. PICK routes : TableOf(table, routes)
  BY DEF RouterOK, TableOK
<1>2. \A entry \in Range(table) : \E i \in DOMAIN table : table[i] = entry
  BY DEF Range
<1>3. \A i \in DOMAIN table : table[i] \in Range(table)
  BY DEF Range
<1>4. \/ q = r /\ (time_is_up(dgram) \/ \A i \in DOMAIN table : ~matches(table[i], dst))
      \/ /\ ~time_is_up(dgram)
         /\ \E i \in DOMAIN table :
              /\ matches(table[i], dst)
              /\ \A j \in DOMAIN table : matches(table[j], dst) => i <= j
              /\ q = SentBy(r, dgram, table[i])
  BY RouteOneEffect
<1> HIDE DEF q, table, dst
<1>5. CASE q = r /\ (time_is_up(dgram) \/ \A i \in DOMAIN table : ~matches(table[i], dst))
  <2>1. time_is_up(dgram) \/ \A entry \in Range(table) : ~matches(entry, dst)
    BY <1>2, <1>5
  <2> QED
    BY <1>5, <2>1 DEF ByLongestPrefix, q, table, dst
<1>6. ASSUME ~time_is_up(dgram), NEW i \in DOMAIN table, matches(table[i], dst),
             \A j \in DOMAIN table : matches(table[j], dst) => i <= j,
             q = SentBy(r, dgram, table[i])
      PROVE  ByLongestPrefix(r, dgram)
  <2>1. \A j \in DOMAIN table :
          matches(table[j], dst) => table[j].prefix_length <= table[i].prefix_length
    <3> SUFFICES ASSUME NEW j \in DOMAIN table, matches(table[j], dst)
                 PROVE  table[j].prefix_length <= table[i].prefix_length
      OBVIOUS
    <3>1. table[i].prefix_length >= table[j].prefix_length
      BY <1>1, <1>6 DEF TableOf
    <3>2. table[i] \in Route /\ table[j] \in Route
      BY TableRoutes DEF RouterOK, table
    <3> DEFINE a == table[i].prefix_length
               b == table[j].prefix_length
    <3>3. a \in Nat /\ b \in Nat
      BY <3>2, AddressBitsAssumption DEF Route
    <3> HIDE DEF a, b
    <3>4. a >= b
      BY <3>1 DEF a, b
    <3>5. b <= a
      BY <3>3, <3>4
    <3> QED
      BY <3>5 DEF a, b
  <2>2. table[i] \in LongestMatches(table, dst)
    BY <1>2, <1>3, <1>6, <2>1 DEF LongestMatches
  <2>3. ~(time_is_up(dgram) \/ \A entry \in Range(table) : ~matches(entry, dst))
    BY <1>3, <1>6
  <2> QED
    BY <1>6, <2>2, <2>3 DEF ByLongestPrefix, q, table, dst
<1> QED
  BY <1>4, <1>5, <1>6

\* The router after the first k routes have been added.
Added(routes, k, r) ==
  /\ r = [New(Interfaces) EXCEPT !.routing_table = r.routing_table]
  /\ TableOf(r.routing_table, {routes[i] : i \in 1 .. k})

(* One more route.                                                         *)
LEMMA OneAdded ==
  ASSUME NEW routes \in RouteOrders, NEW k \in 1 .. Len(routes), NEW r, Added(routes, k - 1, r)
  PROVE  Added(routes, k, add_route(r, routes[k]))
<1> DEFINE table == r.routing_table
           entry == routes[k]
           t     == InsertAt(table, Place(table, entry), entry)
           q     == add_route(r, entry)
           some  == {routes[i] : i \in 1 .. k - 1}
<1>1. routes \in Seq(Route)
  BY NetworkAssumption DEF Route
<1>2. some \in SUBSET Route /\ entry \in Route
  <2> HIDE DEF Route
  <2>1. \A i \in 1 .. Len(routes) : routes[i] \in Route
    BY <1>1
  <2>2. Len(routes) \in Nat
    BY <1>1
  <2> QED
    BY <2>1, <2>2
<1>3. RouterFields(r)
  BY DEF Added, New, RouterFields
<1>4. q = [r EXCEPT !.routing_table = t]
  BY <1>3 DEF add_route, Place, RouterFields
<1>5. TableOf(t, some \cup {entry})
  <2> HIDE DEF some, entry
  <2>1. TableOf(table, some)
    BY DEF Added, some
  <2> QED
    BY <1>2, <2>1, RouteAdded
<1>6. some \cup {entry} = {routes[i] : i \in 1 .. k}
  <2>1. \A i : i \in 1 .. k <=> (i \in 1 .. k - 1 \/ i = k)
    BY <1>1
  <2> QED
    BY <2>1
<1> HIDE DEF t, entry, some
<1>7. q = [New(Interfaces) EXCEPT !.routing_table = q.routing_table] /\ q.routing_table = t
  <2> HIDE DEF q
  <2>1. r = [New(Interfaces) EXCEPT !.routing_table = r.routing_table]
    BY DEF Added
  <2> QED
    BY <1>4, <2>1 DEF New
<1> HIDE DEF q
<1>8. Added(routes, k, q)
  BY <1>5, <1>6, <1>7 DEF Added
<1> QED
  BY <1>8 DEF q, entry
-----------------------------------------------------------------------------
(* A host.                                                                 *)

HostFields(h) ==
  h = [ interface     |-> h.interface,
        datagrams_out |-> h.datagrams_out,
        next_hop      |-> h.next_hop,
        expecting     |-> h.expecting,
        threw         |-> h.threw ]

HostOK(h, name) ==
  /\ HostFields(h)
  /\ Honest(h.interface, <<"host", name>>)
  /\ IsSeq(h.datagrams_out)

(* A host has been made.                                                   *)
LEMMA NewHostOK ==
  ASSUME NEW name
  PROVE  HostOK(NewHost(Hosts[name]), name)
<1> DEFINE s == <<"host", name>>
           h == NewHost(Hosts[name])
<1>1. Addresses(s) = Hosts[name]
  BY DEF Addresses
<1>2. Honest(NI!New(Hosts[name].eth, Hosts[name].ip), s)
  BY <1>1, NewHonest
<1>3. /\ HostFields(h)
      /\ h.interface = NI!New(Hosts[name].eth, Hosts[name].ip)
      /\ h.datagrams_out = << >>
  BY DEF NewHost, HostFields
<1>4. IsSeq(<< >>)
  BY DEF IsSeq, Range
<1> HIDE DEF h
<1>5. HostOK(h, name)
  BY <1>2, <1>3, <1>4 DEF HostOK
<1> QED
  BY <1>5 DEF h

(* Its interface is replaced by an honest one.                             *)
LEMMA HostInterfaceReplaced ==
  ASSUME NEW h, NEW name, HostOK(h, name), NEW n, Honest(n, <<"host", name>>)
  PROVE  HostOK([h EXCEPT !.interface = n], name)
<1> DEFINE g == [h EXCEPT !.interface = n]
<1>1. HostFields(h)
  BY DEF HostOK
<1>2. HostFields(g) /\ g.interface = n /\ g.datagrams_out = h.datagrams_out
  BY <1>1 DEF HostFields
<1> HIDE DEF g
<1>3. HostOK(g, name)
  BY <1>2 DEF HostOK
<1> QED
  BY <1>3 DEF g

(* Its queue of datagrams is replaced.                                     *)
LEMMA HostQueueReplaced ==
  ASSUME NEW h, NEW name, HostOK(h, name), NEW d, IsSeq(d)
  PROVE  HostOK([h EXCEPT !.datagrams_out = d], name)
<1> DEFINE g == [h EXCEPT !.datagrams_out = d]
<1>1. HostFields(h)
  BY DEF HostOK
<1>2. HostFields(g) /\ g.interface = h.interface /\ g.datagrams_out = d
  BY <1>1 DEF HostFields
<1> HIDE DEF g
<1>3. HostOK(g, name)
  BY <1>2 DEF HostOK
<1> QED
  BY <1>3 DEF g

(* What it expects is replaced.                                            *)
LEMMA HostExpects ==
  ASSUME NEW h, NEW name, HostOK(h, name), NEW e
  PROVE  HostOK([h EXCEPT !.expecting = e], name)
<1> DEFINE g == [h EXCEPT !.expecting = e]
<1>1. HostFields(h)
  BY DEF HostOK
<1>2. HostFields(g) /\ g.interface = h.interface /\ g.datagrams_out = h.datagrams_out
  BY <1>1 DEF HostFields
<1> HIDE DEF g
<1>3. HostOK(g, name)
  BY <1>2 DEF HostOK
<1> QED
  BY <1>3 DEF g

(* It throws, or not.                                                      *)
LEMMA HostThrows ==
  ASSUME NEW h, NEW name, HostOK(h, name), NEW t
  PROVE  HostOK([h EXCEPT !.threw = t], name)
<1> DEFINE g == [h EXCEPT !.threw = t]
<1>1. HostFields(h)
  BY DEF HostOK
<1>2. HostFields(g) /\ g.interface = h.interface /\ g.datagrams_out = h.datagrams_out
  BY <1>1 DEF HostFields
<1> HIDE DEF g
<1>3. HostOK(g, name)
  BY <1>2 DEF HostOK
<1> QED
  BY <1>3 DEF g

(* A host gets a frame.                                                    *)
LEMMA HostReceives ==
  ASSUME NEW h, NEW name, HostOK(h, name), NEW f,
         f.type # "IPv4" =>
           Truth(<<"host", name>>, f.payload.sender_ip, f.payload.sender_eth)
  PROVE  HostOK(host_recv_frame(h, f), name)
<1> DEFINE n == NI!recv_frame(h.interface, f)
           d == IF NI!returns_datagram(h.interface, f)
                THEN Append(h.datagrams_out, f.payload) ELSE h.datagrams_out
           l == [h EXCEPT !.interface = n]
<1>1. Honest(n, <<"host", name>>)
  BY RecvHonest DEF HostOK
<1>2. IsSeq(d)
  BY Appended DEF HostOK
<1>3. HostOK(l, name)
  <2> HIDE DEF n
  <2> QED
    BY <1>1, HostInterfaceReplaced
<1>4. host_recv_frame(h, f) = [l EXCEPT !.datagrams_out = d]
  <2>1. HostFields(h)
    BY DEF HostOK
  <2>2. host_recv_frame(h, f) = [h EXCEPT !.interface = n, !.datagrams_out = d]
    BY <2>1 DEF host_recv_frame, HostFields
  <2> HIDE DEF n, d
  <2> QED
    BY <2>1, <2>2 DEF HostFields
<1> HIDE DEF l, d
<1> QED
  BY <1>2, <1>3, <1>4, HostQueueReplaced

(* A host sends.                                                           *)
LEMMA HostSends ==
  ASSUME NEW h, NEW name, HostOK(h, name), NEW dgram
  PROVE  HostOK(send_to(h, dgram), name)
<1> DEFINE n == NI!send_datagram(h.interface, dgram, h.next_hop)
<1>1. Honest(n, <<"host", name>>)
  BY SendHonest DEF HostOK
<1>2. send_to(h, dgram) = [h EXCEPT !.interface = n]
  BY DEF send_to, HostOK, HostFields
<1> HIDE DEF n
<1> QED
  BY <1>1, <1>2, HostInterfaceReplaced
-----------------------------------------------------------------------------
(* The network.                                                            *)

NetFields(n) ==
  /\ n = [ router |-> n.router, hosts |-> n.hosts ]
  /\ n.hosts = [name \in DOMAIN Hosts |-> n.hosts[name]]

\* All the interfaces are honest.
NetOK(n) ==
  /\ NetFields(n)
  /\ RouterOK(n.router)
  /\ \A name \in DOMAIN Hosts : HostOK(n.hosts[name], name)

(* The router is replaced.                                                 *)
LEMMA RouterReplaced ==
  ASSUME NEW n, NetOK(n), NEW r, RouterOK(r)
  PROVE  NetOK([n EXCEPT !.router = r])
<1> DEFINE o == [n EXCEPT !.router = r]
<1>1. NetFields(n)
  BY DEF NetOK
<1>2. NetFields(o) /\ o.router = r /\ o.hosts = n.hosts
  BY <1>1 DEF NetFields
<1> HIDE DEF o
<1>3. NetOK(o)
  BY <1>2 DEF NetOK
<1> QED
  BY <1>3 DEF o

(* All the hosts are replaced.                                             *)
LEMMA HostsReplaced ==
  ASSUME NEW n, NetOK(n), NEW hs, hs = [name \in DOMAIN Hosts |-> hs[name]],
         \A name \in DOMAIN Hosts : HostOK(hs[name], name)
  PROVE  NetOK([n EXCEPT !.hosts = hs])
<1> DEFINE o == [n EXCEPT !.hosts = hs]
<1>1. NetFields(n)
  BY DEF NetOK
<1>2. NetFields(o) /\ o.router = n.router /\ o.hosts = hs
  BY <1>1 DEF NetFields
<1> HIDE DEF o
<1>3. NetOK(o)
  BY <1>2 DEF NetOK
<1> QED
  BY <1>3 DEF o

(* One host is replaced.                                                   *)
LEMMA HostReplaced ==
  ASSUME NEW n, NetOK(n), NEW name \in DOMAIN Hosts, NEW h, HostOK(h, name)
  PROVE  NetOK([n EXCEPT !.hosts[name] = h])
<1> DEFINE hs == [n.hosts EXCEPT ![name] = h]
<1>1. NetFields(n)
  BY DEF NetOK
<1>2. /\ hs = [x \in DOMAIN Hosts |-> hs[x]]
      /\ \A x \in DOMAIN Hosts : hs[x] = IF x = name THEN h ELSE n.hosts[x]
  BY <1>1 DEF NetFields
<1>3. [n EXCEPT !.hosts[name] = h] = [n EXCEPT !.hosts = hs]
  BY <1>1 DEF NetFields
<1> HIDE DEF hs
<1>4. \A x \in DOMAIN Hosts : HostOK(hs[x], x)
  BY <1>2 DEF NetOK
<1>5. NetOK([n EXCEPT !.hosts = hs])
  BY <1>2, <1>4, HostsReplaced
<1> QED
  BY <1>3, <1>5

(* A station is an interface of the router or a host.                      *)
LEMMA StationCases ==
  ASSUME NEW s \in Station
  PROVE  \/ s[1] = "router" /\ s[2] \in DOMAIN Interfaces /\ s = <<"router", s[2]>>
         \/ s[1] # "router" /\ s[2] \in DOMAIN Hosts /\ s = <<"host", s[2]>>
  BY DEF Station

(* The interface of a station is honest.                                   *)
LEMMA StationHonest ==
  ASSUME NEW n, NetOK(n), NEW s \in Station
  PROVE  Honest(interface(n, s), s)
<1>1. CASE s[1] = "router" /\ s[2] \in DOMAIN Interfaces /\ s = <<"router", s[2]>>
  <2>1. interface(n, s) = n.router.interfaces[s[2]]
    BY <1>1 DEF interface
  <2>2. Honest(n.router.interfaces[s[2]], <<"router", s[2]>>)
    BY <1>1 DEF NetOK, RouterOK
  <2> QED
    BY <1>1, <2>1, <2>2
<1>2. CASE s[1] # "router" /\ s[2] \in DOMAIN Hosts /\ s = <<"host", s[2]>>
  <2>1. interface(n, s) = n.hosts[s[2]].interface
    BY <1>2 DEF interface
  <2>2. Honest(n.hosts[s[2]].interface, <<"host", s[2]>>)
    BY <1>2 DEF NetOK, HostOK
  <2> QED
    BY <1>2, <2>1, <2>2
<1> QED
  BY <1>1, <1>2, StationCases

(* A station gets a frame.                                                 *)
LEMMA StationReceives ==
  ASSUME NEW n, NetOK(n), NEW s \in Station, NEW f,
         f.type # "IPv4" => Truth(s, f.payload.sender_ip, f.payload.sender_eth)
  PROVE  NetOK(recv(n, s, f))
<1>1. CASE s[1] = "router" /\ s[2] \in DOMAIN Interfaces /\ s = <<"router", s[2]>>
  <2> DEFINE r == recv_frame(n.router, s[2], f)
  <2>1. RouterOK(r)
    BY <1>1, RouterReceives DEF NetOK
  <2>2. recv(n, s, f) = [n EXCEPT !.router = r]
    BY <1>1 DEF recv, NetOK, NetFields
  <2> HIDE DEF r
  <2> QED
    BY <2>1, <2>2, RouterReplaced
<1>2. CASE s[1] # "router" /\ s[2] \in DOMAIN Hosts /\ s = <<"host", s[2]>>
  <2> DEFINE name == s[2]
             h    == host_recv_frame(n.hosts[name], f)
  <2>1. HostOK(h, name)
    BY <1>2, HostReceives DEF NetOK
  <2>2. recv(n, s, f) = [n EXCEPT !.hosts[name] = h]
    <3>1. NetFields(n)
      BY DEF NetOK
    <3> QED
      BY <1>2, <3>1 DEF recv, NetFields
  <2> HIDE DEF h
  <2> QED
    BY <1>2, <2>1, <2>2, HostReplaced
<1> QED
  BY <1>1, <1>2, StationCases

(* The delivered frames of a station have left its queue.                  *)
LEMMA ClearOK ==
  ASSUME NEW n, NetOK(n), NEW s \in Station, NEW frames, IsSeq(frames)
  PROVE  NetOK(clear(n, s, frames))
<1> DEFINE c == Len(frames)
<1>1. c \in Nat
  BY DEF IsSeq
<1>2. NetFields(n)
  BY DEF NetOK
<1>3. CASE s[1] = "router" /\ s[2] \in DOMAIN Interfaces /\ s = <<"router", s[2]>>
  <2> DEFINE i == s[2]
             o == n.router.interfaces[i]
             p == [o EXCEPT !.frames_out = SubSeq(@, c + 1, Len(@))]
             r == [n.router EXCEPT !.interfaces[i] = p]
  <2>1. Honest(p, <<"router", i>>)
    <3>1. Honest(o, <<"router", i>>)
      BY <1>3 DEF NetOK, RouterOK
    <3> HIDE DEF o, c, i
    <3> QED
      BY <1>1, <3>1, FramesGone
  <2>2. clear(n, s, frames) = [n EXCEPT !.router = r]
    BY <1>2, <1>3 DEF clear, NetFields, NetOK, RouterOK, RouterFields
  <2>3. RouterOK(r)
    <3> HIDE DEF p
    <3> QED
      BY <1>3, <2>1, InterfaceReplaced DEF NetOK
  <2> HIDE DEF r
  <2> QED
    BY <2>2, <2>3, RouterReplaced
<1>4. CASE s[1] # "router" /\ s[2] \in DOMAIN Hosts /\ s = <<"host", s[2]>>
  <2> DEFINE name == s[2]
             o == n.hosts[name].interface
             p == [o EXCEPT !.frames_out = SubSeq(@, c + 1, Len(@))]
             h == [n.hosts[name] EXCEPT !.interface = p]
  <2>1. Honest(p, <<"host", name>>)
    <3>1. Honest(o, <<"host", name>>)
      BY <1>4 DEF NetOK, HostOK
    <3> HIDE DEF o, c, name
    <3> QED
      BY <1>1, <3>1, FramesGone
  <2>2. clear(n, s, frames) = [n EXCEPT !.hosts[name] = h]
    BY <1>2, <1>4 DEF clear, NetFields
  <2>3. HostOK(h, name)
    <3> HIDE DEF p
    <3> QED
      BY <1>4, <2>1, HostInterfaceReplaced DEF NetOK
  <2> HIDE DEF h
  <2> QED
    BY <1>4, <2>2, <2>3, HostReplaced
<1> QED
  BY <1>3, <1>4, StationCases

(* A host sends, and datagrams are expected.                               *)
LEMMA SendToOK ==
  ASSUME NetOK(net), NEW name \in Senders, NEW dst, NEW ttl, SendTo(name, dst, ttl)
  PROVE  NetOK(net')
<1> DEFINE dgram == [id |-> sent + 1, src |-> Hosts[name].ip, dst |-> dst, ttl |-> ttl]
           less  == [dgram EXCEPT !.ttl = @ - 1]
           one   == send_to(net.hosts[name], dgram)
           hosts == [net.hosts EXCEPT ![name] = one]
           hs    == [h \in DOMAIN Hosts |->
                       IF h \in Goal(dst, ttl) THEN expect(hosts[h], less) ELSE hosts[h]]
<1>1. NetFields(net) /\ name \in DOMAIN Hosts
  BY NetworkAssumption DEF NetOK
<1>2. net' = [net EXCEPT !.hosts = hs]
  BY <1>1 DEF SendTo, NetFields
<1>3. HostOK(one, name)
  <2> HIDE DEF dgram
  <2> QED
    BY <1>1, HostSends DEF NetOK
<1> HIDE DEF one, less
<1>4. \A h \in DOMAIN Hosts : HostOK(hosts[h], h)
  <2>1. \A h \in DOMAIN Hosts : hosts[h] = IF h = name THEN one ELSE net.hosts[h]
    BY <1>1 DEF NetFields
  <2> HIDE DEF hosts
  <2> QED
    BY <1>3, <2>1 DEF NetOK
<1> HIDE DEF hosts
<1>5. \A h \in DOMAIN Hosts : HostOK(hs[h], h)
  <2> SUFFICES ASSUME NEW h \in DOMAIN Hosts PROVE HostOK(hs[h], h)
    OBVIOUS
  <2>1. HostFields(hosts[h]) /\ HostOK(hosts[h], h)
    BY <1>4 DEF HostOK
  <2> DEFINE e == Append(hosts[h].expecting, less)
  <2>2. expect(hosts[h], less) = [hosts[h] EXCEPT !.expecting = e]
    BY <2>1 DEF expect, HostFields
  <2> HIDE DEF e
  <2>3. HostOK(expect(hosts[h], less), h)
    BY <2>1, <2>2, HostExpects
  <2> QED
    BY <2>1, <2>3
<1>6. hs = [h \in DOMAIN Hosts |-> hs[h]]
  OBVIOUS
<1> HIDE DEF hs
<1> QED
  BY <1>2, <1>5, <1>6, HostsReplaced

(* An honest network has true caches.                                      *)
LEMMA CachesFollow == NetOK(net) => CachesAreTrue
<1> SUFFICES ASSUME NetOK(net), NEW k \in DOMAIN Links, NEW s \in Range(Links[k]),
                    NEW address \in DOMAIN interface(net, s).ethernet_addr_cache
             PROVE  \E t \in Range(Links[k]) :
                      /\ interface(net, t).ip_address = address
                      /\ interface(net, t).ethernet_address =
                           interface(net, s).ethernet_addr_cache[address].addr
  BY DEF CachesAreTrue
<1> DEFINE eth == interface(net, s).ethernet_addr_cache[address].addr
<1>1. \A j \in DOMAIN Links : Range(Links[j]) \subseteq Station
  BY LinksAssumption DEF Range
<1>2. Honest(interface(net, s), s)
  BY <1>1, StationHonest
<1>3. Truth(s, address, eth)
  BY <1>2 DEF Honest
<1>4. PICK j \in DOMAIN Links : \E t \in Range(Links[j]) :
        s \in Range(Links[j]) /\ Addresses(t).ip = address /\ Addresses(t).eth = eth
  BY <1>3 DEF Truth
<1>5. j = k
  BY <1>4, LinksAssumption
<1>6. PICK t \in Range(Links[k]) : Addresses(t).ip = address /\ Addresses(t).eth = eth
  BY <1>4, <1>5
<1>7. Honest(interface(net, t), t)
  BY <1>1, StationHonest
<1>8. /\ interface(net, t).ip_address = Addresses(t).ip
      /\ interface(net, t).ethernet_address = Addresses(t).eth
  BY <1>7 DEF Honest, IsInterface
<1> QED
  BY <1>6, <1>8
-----------------------------------------------------------------------------
(* The loops of the router and of a host.                                  *)

(* The inner loop of route: one queue is routed, a datagram at a time.     *)
RouteQueue(r, queue) == FoldLeft(route_one_datagram, r, queue)

RouteOneStep(p, r, dgram) == route_one_datagram(r, dgram)

RouterHolds(p, k, r) == RouterOK(r)

RouteOnes == INSTANCE Recursion WITH Step <- RouteOneStep, Holds <- RouterHolds

(* A queue has been routed.                                                *)
LEMMA RouteQueueOK ==
  ASSUME NEW r, RouterOK(r), NEW queue, IsSeq(queue)
  PROVE  RouterOK(RouteQueue(r, queue))
<1> DEFINE m == Len(queue)
<1>1. m \in Nat /\ DOMAIN queue = 1 .. m
  BY DEF IsSeq
<1>2. RouteQueue(r, queue) = RouteOnes!Fold(0, r, queue)
  BY DEF RouteQueue, FoldLeft, MapThenFoldSet, RouteOnes!Fold, RouteOneStep,
         RouteOnes!Largest, Max
<1>3. RouterHolds(0, 0, r)
  BY DEF RouterHolds
<1>4. \A q : \A k \in 1 .. m :
        RouterHolds(0, k - 1, q) => RouterHolds(0, k, RouteOneStep(0, q, queue[k]))
  BY RouteOneOK DEF RouterHolds, RouteOneStep
<1>5. RouteOnes!WellOrdered
  BY NatWellOrdered DEF Selects!WellOrdered, RouteOnes!WellOrdered
<1> HIDE DEF m
<1>6. RouterHolds(0, m, RouteOnes!Fold(0, r, queue))
  BY <1>1, <1>3, <1>4, <1>5, RouteOnes!FoldKeeps, Zenon
<1> QED
  BY <1>2, <1>6 DEF RouterHolds

\* The outer loop of route().
RouteStep(p, r, queue) == RouteQueue(r, queue)

Routes == INSTANCE Recursion WITH Step <- RouteStep, Holds <- RouterHolds

(* route() has been called.                                                *)
LEMMA RouteOK ==
  ASSUME NEW r, RouterOK(r)
  PROVE  RouterOK(route(r))
<1> DEFINE m == Len(Interfaces)
           queues == r.datagrams_out
           routed == Routes!Fold(0, r, queues)
<1>1. m \in Nat /\ DOMAIN Interfaces = 1 .. m
  BY LinksAssumption
<1>2. DOMAIN queues = 1 .. m
  BY <1>1 DEF RouterOK, PerInterface
<1>3. route(r) = [routed EXCEPT !.datagrams_out = [i \in DOMAIN @ |-> << >>]]
  BY DEF route, FoldLeft, MapThenFoldSet, RouteQueue, Routes!Fold, RouteStep, Routes!Largest, Max
<1>4. RouterHolds(0, 0, r)
  BY DEF RouterHolds
<1>5. \A q : \A k \in 1 .. m :
        RouterHolds(0, k - 1, q) => RouterHolds(0, k, RouteStep(0, q, queues[k]))
  BY <1>1, RouteQueueOK DEF RouterHolds, RouteStep, RouterOK
<1>6. Routes!WellOrdered
  BY NatWellOrdered DEF Selects!WellOrdered, Routes!WellOrdered
<1> HIDE DEF m, queues
<1>7. RouterHolds(0, m, routed)
  BY <1>1, <1>2, <1>4, <1>5, <1>6, Routes!FoldKeeps, Zenon
<1> HIDE DEF routed
<1>8. RouterOK(routed)
  BY <1>7 DEF RouterHolds
<1> DEFINE q == route(r)
           empty == [i \in DOMAIN Interfaces |-> << >>]
<1>9. RouterFields(routed) /\ DOMAIN routed.datagrams_out = DOMAIN Interfaces
  BY <1>8 DEF RouterOK, PerInterface
<1>10. q = [routed EXCEPT !.datagrams_out = empty]
  BY <1>3, <1>9 DEF RouterFields
<1> HIDE DEF q
<1>11. PerInterface(empty) /\ \A i \in DOMAIN Interfaces : IsSeq(empty[i])
  BY DEF PerInterface, IsSeq, Range
<1> HIDE DEF empty
<1>12. /\ RouterFields(q)
       /\ q.interfaces = routed.interfaces
       /\ q.datagrams_out = empty
       /\ q.routing_table = routed.routing_table
  BY <1>9, <1>10 DEF RouterFields
<1>13. RouterOK(q)
  BY <1>8, <1>11, <1>12 DEF RouterOK
<1> QED
  BY <1>13 DEF q

NewRouter(routes) == FoldLeft(add_route, New(Interfaces), routes)

\* The routes are added one after the other.
AddStep(p, r, entry) == add_route(r, entry)

Adds == INSTANCE Recursion WITH Step <- AddStep, Holds <- Added

(* The router has been set up.                                             *)
LEMMA NewRouterOK ==
  ASSUME NEW routes \in RouteOrders
  PROVE  RouterOK(NewRouter(routes))
<1> DEFINE m == Len(routes)
           r == NewRouter(routes)
           new == New(Interfaces)
<1>1. m \in Nat /\ DOMAIN routes = 1 .. m
  BY NetworkAssumption
<1>2. r = Adds!Fold(routes, new, routes)
  BY DEF NewRouter, FoldLeft, MapThenFoldSet, Max, Adds!Fold, AddStep, Adds!Largest
<1>3. Added(routes, 0, new)
  <2>1. new.routing_table = << >> /\ new = [new EXCEPT !.routing_table = new.routing_table]
    BY DEF New
  <2>2. {routes[i] : i \in 1 .. 0} = {}
    OBVIOUS
  <2>3. TableOf(<< >>, {})
    BY DEF TableOf, IsSeq, Range
  <2> QED
    BY <2>1, <2>2, <2>3 DEF Added
<1>4. \A q : \A k \in 1 .. m :
        Added(routes, k - 1, q) => Added(routes, k, AddStep(routes, q, routes[k]))
  BY OneAdded DEF AddStep
<1>5. Adds!WellOrdered
  BY NatWellOrdered DEF Selects!WellOrdered, Adds!WellOrdered
<1> HIDE DEF m, new
<1>6. Added(routes, m, Adds!Fold(routes, new, routes))
  BY <1>1, <1>3, <1>4, <1>5, Adds!FoldKeeps, Zenon
<1>7. Added(routes, m, r)
  BY <1>2, <1>6
<1> HIDE DEF r
<1>8. TableOK(r.routing_table)
  <2>1. {routes[i] : i \in 1 .. m} = Range(routes)
    BY <1>1 DEF Range
  <2> QED
    BY <1>7, <2>1 DEF Added, TableOK
<1>9. /\ RouterFields(r)
      /\ r.interfaces = [i \in DOMAIN Interfaces |-> NI!New(Interfaces[i].eth, Interfaces[i].ip)]
      /\ r.datagrams_out = [i \in DOMAIN Interfaces |-> << >>]
  BY <1>7 DEF Added, New, RouterFields
<1>10. \A i \in DOMAIN Interfaces : Honest(r.interfaces[i], <<"router", i>>)
  <2> SUFFICES ASSUME NEW i \in DOMAIN Interfaces
               PROVE  Honest(r.interfaces[i], <<"router", i>>)
    OBVIOUS
  <2>1. Addresses(<<"router", i>>) = Interfaces[i]
    BY DEF Addresses
  <2>2. Honest(NI!New(Interfaces[i].eth, Interfaces[i].ip), <<"router", i>>)
    BY <2>1, NewHonest
  <2> QED
    BY <1>9, <2>2
<1>11. PerInterface(r.interfaces) /\ PerInterface(r.datagrams_out)
  BY <1>9 DEF PerInterface
<1>12. \A i \in DOMAIN Interfaces : IsSeq(r.datagrams_out[i])
  BY <1>9 DEF IsSeq, Range
<1>13. RouterOK(r)
  BY <1>8, <1>9, <1>10, <1>11, <1>12 DEF RouterOK
<1> QED
  BY <1>13 DEF r

\* The loop of check().
CheckStep(p, h, dgram) == check_one(h, dgram)

HostHolds(name, k, h) == HostOK(h, name)

Checks == INSTANCE Recursion WITH Step <- CheckStep, Holds <- HostHolds

(* A host checks what arrived.                                             *)
LEMMA HostChecks ==
  ASSUME NEW h, NEW name, HostOK(h, name)
  PROVE  HostOK(check(h), name)
<1> DEFINE queue   == h.datagrams_out
           m       == Len(queue)
           checked == Checks!Fold(name, h, queue)
           l       == [checked EXCEPT !.datagrams_out = << >>]
           t       == checked.threw \/ checked.expecting # << >>
<1>1. m \in Nat /\ DOMAIN queue = 1 .. m
  BY DEF HostOK, IsSeq
<1>2. check(h) = [checked EXCEPT !.datagrams_out = << >>, !.threw = @ \/ checked.expecting # << >>]
  BY DEF check, FoldLeft, MapThenFoldSet, Checks!Fold, CheckStep, Checks!Largest, Max
<1>3. HostHolds(name, 0, h)
  BY DEF HostHolds
<1>4. \A g : \A k \in 1 .. m :
        HostHolds(name, k - 1, g) => HostHolds(name, k, CheckStep(name, g, queue[k]))
  <2> SUFFICES ASSUME NEW g, NEW k \in 1 .. m, HostOK(g, name)
               PROVE  HostOK(check_one(g, queue[k]), name)
    BY DEF HostHolds, CheckStep
  <2> DEFINE e    == RemoveFirst(g.expecting, queue[k])
             true == TRUE
  <2>1. \/ check_one(g, queue[k]) = [g EXCEPT !.expecting = e]
        \/ check_one(g, queue[k]) = [g EXCEPT !.threw = true]
    BY DEF check_one
  <2> HIDE DEF e, true
  <2>2. HostOK([g EXCEPT !.expecting = e], name)
    BY HostExpects
  <2>3. HostOK([g EXCEPT !.threw = true], name)
    BY HostThrows
  <2> QED
    BY <2>1, <2>2, <2>3
<1>5. Checks!WellOrdered
  BY NatWellOrdered DEF Selects!WellOrdered, Checks!WellOrdered
<1> HIDE DEF m, queue
<1>6. HostHolds(name, m, checked)
  BY <1>1, <1>3, <1>4, <1>5, Checks!FoldKeeps, Zenon
<1> HIDE DEF checked
<1>7. HostOK(checked, name) /\ HostFields(checked)
  BY <1>6 DEF HostHolds, HostOK
<1>8. IsSeq(<< >>)
  BY DEF IsSeq, Range
<1>9. HostOK(l, name)
  BY <1>7, <1>8, HostQueueReplaced
<1>10. check(h) = [l EXCEPT !.threw = t]
  BY <1>2, <1>7 DEF HostFields
<1> HIDE DEF l, t
<1> QED
  BY <1>9, <1>10, HostThrows
-----------------------------------------------------------------------------
(* The loops of the physical connections.                                  *)

NetHolds(p, k, n) == NetOK(n)

\* deliver() hands over one frame after the other.
DeliverStep(s, n, f) == recv(n, s, f)

Delivers == INSTANCE Recursion WITH Step <- DeliverStep, Holds <- NetHolds

(* Frames that tell the truth have been delivered to a station.            *)
LEMMA DeliverOK ==
  ASSUME NEW n, NetOK(n), NEW s \in Station, NEW frames, IsSeq(frames),
         \A f \in Range(frames) :
           f.type # "IPv4" => Truth(s, f.payload.sender_ip, f.payload.sender_eth)
  PROVE  NetOK(deliver(n, frames, s))
<1> DEFINE m == Len(frames)
<1>1. m \in Nat /\ DOMAIN frames = 1 .. m
  BY DEF IsSeq
<1>2. deliver(n, frames, s) = Delivers!Fold(s, n, frames)
  BY DEF deliver, FoldLeft, MapThenFoldSet, Delivers!Fold, DeliverStep, Delivers!Largest, Max
<1>3. NetHolds(s, 0, n)
  BY DEF NetHolds
<1>4. \A o : \A k \in 1 .. m : NetHolds(s, k - 1, o) => NetHolds(s, k, DeliverStep(s, o, frames[k]))
  <2> SUFFICES ASSUME NEW o, NEW k \in 1 .. m, NetOK(o)
               PROVE  NetOK(recv(o, s, frames[k]))
    BY DEF NetHolds, DeliverStep
  <2>1. frames[k] \in Range(frames)
    BY <1>1 DEF Range
  <2> QED
    BY <2>1, StationReceives
<1>5. Delivers!WellOrdered
  BY NatWellOrdered DEF Selects!WellOrdered, Delivers!WellOrdered
<1> HIDE DEF m
<1>6. NetHolds(s, m, Delivers!Fold(s, n, frames))
  BY <1>1, <1>3, <1>4, <1>5, Delivers!FoldKeeps, Zenon
<1> QED
  BY <1>2, <1>6 DEF NetHolds

\* The two loops of exchange_frames(), for p = <<link, frames>>.
ExchangeStep(p, n, e) == deliver(n, p[2][e[1]], p[1][e[2]])

ClearStep(p, n, k) == clear(n, p[1][k], p[2][k])

Exchanges == INSTANCE Recursion WITH Step <- ExchangeStep, Holds <- NetHolds

Clears == INSTANCE Recursion WITH Step <- ClearStep, Holds <- NetHolds

(* What the stations of a connection have sent each other is the truth.    *)
LEMMA ExchangeOK ==
  ASSUME NEW n, NetOK(n), NEW j \in DOMAIN Links
  PROVE  NetOK(exchange_frames(n, Links[j]))
<1> DEFINE link      == Links[j]
           frames    == [k \in DOMAIN link |-> interface(n, link[k]).frames_out]
           p         == <<link, frames>>
           positions == [i \in DOMAIN link |-> i]
           pairs     == Pairs(link)
           delivered == Exchanges!Fold(p, n, pairs)
           m         == Len(link)
<1>1. link \in Seq(Station)
  BY LinksAssumption
<1>2. m \in Nat /\ DOMAIN link = 1 .. m /\ \A k \in 1 .. m : link[k] \in Station
  BY <1>1
<1>3. exchange_frames(n, link) \in {n, Clears!Fold(p, delivered, positions)}
  <2>1. deliver_to_others(n, link, frames) = Exchanges!Fold(p, n, pairs)
    BY DEF deliver_to_others, FoldLeft, MapThenFoldSet, Max,
           Exchanges!Fold, ExchangeStep, Exchanges!Largest
  <2> HIDE DEF frames, delivered
  <2>2. \A o : clear_delivered(o, link, frames) = Clears!Fold(p, o, positions)
    <3> TAKE o
    <3> QED
      BY DEF clear_delivered, FoldLeftDomain, FoldLeft, MapThenFoldSet, Max,
             Clears!Fold, ClearStep, Clears!Largest
  <2>3. exchange_frames(n, link) \in {n, clear_delivered(delivered, link, frames)}
    BY <2>1 DEF exchange_frames, frames, delivered
  <2> QED
    BY <2>2, <2>3
<1>4. \A k \in 1 .. m : IsSeq(frames[k]) /\ \A f \in Range(frames[k]) : ComesFrom(f, link[k])
  <2> SUFFICES ASSUME NEW k \in 1 .. m
               PROVE  /\ IsSeq(frames[k])
                      /\ \A f \in Range(frames[k]) : ComesFrom(f, link[k])
    OBVIOUS
  <2>1. frames[k] = interface(n, link[k]).frames_out
    BY <1>2
  <2>2. Honest(interface(n, link[k]), link[k])
    BY <1>2, StationHonest
  <2> HIDE DEF frames, link
  <2> QED
    BY <2>1, <2>2 DEF Honest
<1>5. p[1] = link /\ p[2] = frames
  OBVIOUS
<1>6. ASSUME NEW a \in 1 .. m, NEW b \in 1 .. m, NEW f \in Range(frames[a]), f.type # "IPv4"
      PROVE  Truth(link[b], f.payload.sender_ip, f.payload.sender_eth)
  <2>1. link[a] \in Range(Links[j]) /\ link[b] \in Range(Links[j])
    BY <1>2 DEF Range
  <2>2. /\ f.payload.sender_ip = Addresses(link[a]).ip
        /\ f.payload.sender_eth = Addresses(link[a]).eth
    BY <1>4, <1>6 DEF ComesFrom
  <2> QED
    BY <2>1, <2>2 DEF Truth
<1> HIDE DEF frames, link, p, m
<1>7. NetHolds(p, Len(pairs), delivered)
  <2>1. pairs \in Seq((1 .. m) \X (1 .. m))
    BY <1>2, PairsOfPositions DEF m
  <2> DEFINE c == Len(pairs)
  <2>2. /\ c \in Nat /\ DOMAIN pairs = 1 .. c
        /\ \A k \in 1 .. c : pairs[k][1] \in 1 .. m /\ pairs[k][2] \in 1 .. m
    <3> DEFINE P == (1 .. m) \X (1 .. m)
    <3>1. \A e \in P : e[1] \in 1 .. m /\ e[2] \in 1 .. m
      OBVIOUS
    <3>2. pairs \in Seq(P)
      BY <2>1
    <3> HIDE DEF P, pairs
    <3> QED
      BY <3>1, <3>2
  <2>3. NetHolds(p, 0, n)
    BY DEF NetHolds
  <2>4. \A o : \A k \in 1 .. c :
          NetHolds(p, k - 1, o) => NetHolds(p, k, ExchangeStep(p, o, pairs[k]))
    <3> SUFFICES ASSUME NEW o, NEW k \in 1 .. c, NetOK(o)
                 PROVE  NetOK(ExchangeStep(p, o, pairs[k]))
      BY DEF NetHolds
    <3> DEFINE a == pairs[k][1]
               b == pairs[k][2]
    <3>1. a \in 1 .. m /\ b \in 1 .. m
      BY <2>2
    <3>2. ExchangeStep(p, o, pairs[k]) = deliver(o, frames[a], link[b])
      BY <1>5 DEF ExchangeStep
    <3> HIDE DEF a, b
    <3>3. NetOK(deliver(o, frames[a], link[b]))
      BY <1>2, <1>4, <1>6, <3>1, DeliverOK
    <3> QED
      BY <3>2, <3>3
  <2>5. Exchanges!WellOrdered
    BY NatWellOrdered DEF Selects!WellOrdered, Exchanges!WellOrdered
  <2> HIDE DEF c, pairs
  <2>6. NetHolds(p, c, Exchanges!Fold(p, n, pairs))
    BY <2>2, <2>3, <2>4, <2>5, Exchanges!FoldKeeps, Zenon
  <2> QED
    BY <2>6 DEF c
<1> HIDE DEF delivered
<1>8. NetHolds(p, m, Clears!Fold(p, delivered, positions))
  <2>1. DOMAIN positions = 1 .. m /\ \A k \in 1 .. m : positions[k] = k
    BY <1>2
  <2>2. NetHolds(p, 0, delivered)
    BY <1>7 DEF NetHolds
  <2>3. \A o : \A k \in 1 .. m :
          NetHolds(p, k - 1, o) => NetHolds(p, k, ClearStep(p, o, positions[k]))
    <3> SUFFICES ASSUME NEW o, NEW k \in 1 .. m, NetOK(o)
                 PROVE  NetOK(ClearStep(p, o, positions[k]))
      BY DEF NetHolds
    <3>1. ClearStep(p, o, positions[k]) = clear(o, link[k], frames[k])
      BY <1>5, <2>1 DEF ClearStep
    <3>2. NetOK(clear(o, link[k], frames[k]))
      BY <1>2, <1>4, ClearOK
    <3> QED
      BY <3>1, <3>2
  <2>4. Clears!WellOrdered
    BY NatWellOrdered DEF Selects!WellOrdered, Clears!WellOrdered
  <2> HIDE DEF positions
  <2> QED
    BY <1>2, <2>1, <2>2, <2>3, <2>4, Clears!FoldKeeps, Zenon
<1>9. NetOK(Clears!Fold(p, delivered, positions))
  BY <1>8 DEF NetHolds
<1> QED
  BY <1>3, <1>9 DEF link

\* The loop of simulate_physical_connections().
LinkStep(p, n, link) == exchange_frames(n, link)

Connections == INSTANCE Recursion WITH Step <- LinkStep, Holds <- NetHolds

(* One iteration of simulate().                                            *)
LEMMA SimulateOK ==
  ASSUME NEW n, NetOK(n)
  PROVE  NetOK(simulate_once(n))
<1> DEFINE m == Len(Links)
           r == route(n.router)
           o == [n EXCEPT !.router = r]
<1>1. m \in Nat /\ DOMAIN Links = 1 .. m
  BY LinksAssumption
<1>2. simulate_once(n) = simulate_physical_connections(o)
  BY DEF simulate_once, NetOK, NetFields
<1>3. RouterOK(r)
  BY RouteOK DEF NetOK
<1>4. NetOK(o)
  <2> HIDE DEF r
  <2> QED
    BY <1>3, RouterReplaced
<1> HIDE DEF o
<1>5. simulate_physical_connections(o) = Connections!Fold(0, o, Links)
  BY DEF simulate_physical_connections, FoldLeft, MapThenFoldSet, Max,
         Connections!Fold, LinkStep, Connections!Largest
<1>6. NetHolds(0, 0, o)
  BY <1>4 DEF NetHolds
<1>7. \A q : \A k \in 1 .. m : NetHolds(0, k - 1, q) => NetHolds(0, k, LinkStep(0, q, Links[k]))
  BY <1>1, ExchangeOK DEF NetHolds, LinkStep
<1>8. Connections!WellOrdered
  BY NatWellOrdered DEF Selects!WellOrdered, Connections!WellOrdered
<1> HIDE DEF m
<1>9. NetHolds(0, m, Connections!Fold(0, o, Links))
  BY <1>1, <1>6, <1>7, <1>8, Connections!FoldKeeps, Zenon
<1> QED
  BY <1>2, <1>5, <1>9 DEF NetHolds
-----------------------------------------------------------------------------
(* The invariant holds throughout.                                         *)

(* It holds at the beginning.                                              *)
LEMMA InitOK == Init => NetOK(net)
<1> SUFFICES ASSUME NEW routes \in RouteOrders, net = NewNetwork(routes)
             PROVE  NetOK(net)
  BY DEF Init
<1> DEFINE r  == NewRouter(routes)
           hs == [name \in DOMAIN Hosts |-> NewHost(Hosts[name])]
<1>1. net = [router |-> r, hosts |-> hs]
  BY DEF NewNetwork, NewRouter
<1>2. RouterOK(r)
  BY NewRouterOK
<1>3. \A name \in DOMAIN Hosts : HostOK(hs[name], name)
  BY NewHostOK
<1>4. hs = [name \in DOMAIN Hosts |-> hs[name]]
  OBVIOUS
<1> HIDE DEF r, hs
<1> QED
  BY <1>1, <1>2, <1>3, <1>4 DEF NetOK, NetFields

(* Every step keeps it.                                                    *)
LEMMA NextOK == NetOK(net) /\ [Next]_vars => NetOK(net')
<1> SUFFICES ASSUME NetOK(net), [Next]_vars PROVE NetOK(net')
  OBVIOUS
<1>1. ASSUME NEW name \in Senders, NEW dst \in Destinations, NEW ttl \in Ttls,
             SendTo(name, dst, ttl)
      PROVE  NetOK(net')
  BY <1>1, SendToOK
<1>2. CASE Simulate
  BY <1>2, SimulateOK DEF Simulate
<1>3. CASE Check
  <2> DEFINE hs == [h \in DOMAIN Hosts |-> check(net.hosts[h])]
  <2>1. net' = [net EXCEPT !.hosts = hs]
    BY <1>3 DEF Check, NetOK, NetFields
  <2>2. \A h \in DOMAIN Hosts : HostOK(hs[h], h)
    BY HostChecks DEF NetOK
  <2>3. hs = [h \in DOMAIN Hosts |-> hs[h]]
    OBVIOUS
  <2> HIDE DEF hs
  <2> QED
    BY <2>1, <2>2, <2>3, HostsReplaced
<1>4. CASE UNCHANGED vars
  BY <1>4 DEF vars
<1> QED
  BY <1>1, <1>2, <1>3, <1>4 DEF Next

IInv == NetOK(net)

(* Everywhere in the network, always: the interfaces hold what is true and *)
(* say what is true.                                                       *)
LEMMA Invariance == Spec => []IInv
<1>1. Init => IInv
  BY InitOK DEF IInv
<1>2. IInv /\ [Next]_vars => IInv'
  BY NextOK DEF IInv
<1> QED
  BY <1>1, <1>2, PTL DEF Spec

(* What an interface has learned is the address of the station that owns   *)
(* the IP address, on the same connection, in every network and whatever   *)
(* datagrams are sent.                                                     *)
THEOREM CachesTrue == Spec => []CachesAreTrue
<1>1. IInv => CachesAreTrue
  BY CachesFollow DEF IInv
<1> QED
  BY <1>1, Invariance, PTL

\* The table has the routes of one of the orders, and they are used so.
LongestPrefixRouting ==
  /\ \E routes \in RouteOrders : Range(net.router.routing_table) = Range(routes)
  /\ \A dgram : ByLongestPrefix(net.router, dgram)

(* router.hh, lines 57-59: in whatever order the routes were added, a      *)
(* datagram is sent by a route that matches and that no other match has a  *)
(* longer prefix than; one that no route matches, or whose time is up, is  *)
(* dropped.                                                                *)
THEOREM RoutedByLongestPrefix == Spec => []LongestPrefixRouting
<1>1. IInv => LongestPrefixRouting
  <2> SUFFICES ASSUME NetOK(net) PROVE LongestPrefixRouting
    BY DEF IInv
  <2>1. RouterOK(net.router)
    BY DEF NetOK
  <2>2. TableOK(net.router.routing_table)
    BY <2>1 DEF RouterOK
  <2>3. \E routes \in RouteOrders : Range(net.router.routing_table) = Range(routes)
    BY <2>2 DEF TableOK, TableOf
  <2>4. \A dgram : ByLongestPrefix(net.router, dgram)
    BY <2>1, LongestIsFirst
  <2> QED
    BY <2>3, <2>4 DEF LongestPrefixRouting
<1> QED
  BY <1>1, Invariance, PTL
=============================================================================
