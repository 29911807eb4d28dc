--------------------------- MODULE DnsBridgeProofs ---------------------------
(* Proofs about FakeIp and DnsBridge: first the two maps of the manager, for   *)
(* any sets of clients, domains and shards and any sizes of the table and of   *)
(* the pool; then the bridge, for any sets of questions and names, any         *)
(* capacity of the queue and any number of attempts.                           *)
EXTENDS DnsBridge, SequenceTheorems, TLAPS

\* The addresses that have been given out.
Used == 1 .. next_ip - 1

Phases == {"idle", "check", "evict", "forget", "domain", "ip"}

\* As much of TypeOK as the argument needs, and the call of allocate in progress.
Typed ==
  /\ domain_to_ip \in [Domains -> Ips \cup {NoIp}]
  /\ ip_to_domain \in [Ips -> Domains \cup {NoDomain}]
  /\ next_ip \in 1 .. PoolSize + 1
  /\ recency \in Seq(Used)
  /\ cache \in [Clients -> [Domains -> Ips \cup {NoIp}]]

\* alloc is always the state of a call.
IsCall(r) == r = [pc |-> r.pc, client |-> r.client, domain |-> r.domain, left |-> r.left,
                  victim |-> r.victim, ip |-> r.ip]

CallTyped ==
  /\ IsCall(alloc)
  /\ alloc.pc \in Phases
  /\ alloc.left \in Seq(Used)
  /\ alloc.victim \in Domains \cup {NoDomain}
  /\ alloc.pc # "idle" => alloc.domain \in Domains
  /\ alloc.pc \in {"evict", "forget", "domain", "ip"} => alloc.ip \in Used

\* Between the two removals of an eviction, and between the two insertions, one
\* entry of domain_to_ip has no counterpart; otherwise the maps agree.
Odd(d, i) ==
  /\ i = alloc.ip
  /\ \/ alloc.pc = "forget" /\ d = alloc.victim
     \/ alloc.pc = "ip" /\ d = alloc.domain

MapsAgree ==
  \A d \in Domains, i \in Ips :
    /\ ip_to_domain[i] = d => domain_to_ip[d] = i
    /\ domain_to_ip[d] = i => ip_to_domain[i] = d \/ Odd(d, i)

\* The address under way is nobody else's, the name under way has no other.
CallIsAlone ==
  /\ alloc.pc \in {"forget", "domain", "ip"} => ip_to_domain[alloc.ip] = NoDomain
  /\ alloc.pc \in {"check", "evict", "forget", "domain"} => domain_to_ip[alloc.domain] = NoIp
  /\ alloc.pc = "ip" => domain_to_ip[alloc.domain] = alloc.ip
  /\ alloc.pc = "forget" /\ alloc.victim \in Domains => domain_to_ip[alloc.victim] = alloc.ip

GivenOutOnce == \A i \in Ips : ip_to_domain[i] # NoDomain => i \in Used

MapInv == Typed /\ CallTyped /\ MapsAgree /\ CallIsAlone /\ GivenOutOnce

-----------------------------------------------------------------------------
LEMMA WithoutType ==
  ASSUME NEW S, NEW q \in Seq(S), NEW i
  PROVE  Without(q, i) \in Seq(S)
<1>1. CASE ~ \E k \in DOMAIN q : q[k] = i
  BY <1>1 DEF Without
<1>2. CASE \E k \in DOMAIN q : q[k] = i
  <2> DEFINE k == CHOOSE k \in DOMAIN q : q[k] = i
  <2>1. k \in DOMAIN q
    BY <1>2
  <2>2. Without(q, i) = SubSeq(q, 1, k - 1) \o SubSeq(q, k + 1, Len(q))
    BY <1>2 DEF Without, RemoveAt
  <2> HIDE DEF k
  <2>3. k - 1 \in Int /\ k + 1 \in Int /\ Len(q) \in Int
    BY <2>1
  <2>4. (\A n \in 1 .. k - 1 : q[n] \in S) /\ (\A n \in k + 1 .. Len(q) : q[n] \in S)
    BY <2>1
  <2>5. SubSeq(q, 1, k - 1) \in Seq(S)
    BY <2>3, <2>4, SubSeqProperties
  <2>6. SubSeq(q, k + 1, Len(q)) \in Seq(S)
    BY <2>3, <2>4, SubSeqProperties
  <2> QED
    BY <2>2, <2>5, <2>6
<1> QED
  BY <1>1, <1>2

LEMMA MoveToEndType ==
  ASSUME NEW S, NEW q \in Seq(S), NEW i \in S
  PROVE  MoveToEnd(q, i) \in Seq(S)
BY WithoutType DEF MoveToEnd

LEMMA LargerSet ==
  ASSUME NEW S, NEW T, S \subseteq T, NEW q \in Seq(S)
  PROVE  q \in Seq(T)
OBVIOUS

LEMMA MapInit == Init => MapInv
<1> SUFFICES ASSUME Init PROVE MapInv
  OBVIOUS
<1> USE FakeIpAssumption DEF Init, Ips, NoIp, Rest, Phases
<1>1. Typed
  BY DEF Typed
<1>2. CallTyped
  BY DEF CallTyped, IsCall
<1>3. MapsAgree /\ CallIsAlone /\ GivenOutOnce
  BY DEF MapsAgree, Odd, CallIsAlone, GivenOutOnce
<1> QED
  BY <1>1, <1>2, <1>3 DEF MapInv

-----------------------------------------------------------------------------
(* allocate, one step after the other.                                       *)

LEMMA ExistingKeeps ==
  ASSUME NEW c, NEW d \in Domains, MapInv, AllocateExisting(c, d)
  PROVE  MapInv'
<1> USE FakeIpAssumption DEF AllocateExisting, MapInv
<1>1. domain_to_ip[d] \in Ips
  BY DEF Typed, Mapped
<1>2. recency' \in Seq(Used)
  BY <1>1, MoveToEndType DEF Typed, GivenOutOnce
<1>3. cache' \in [Clients -> [Domains -> Ips \cup {NoIp}]]
  BY <1>1 DEF Typed, Answer
<1>4. Used' = Used
  BY DEF Used
<1>5. Typed'
  BY <1>2, <1>3, <1>4 DEF Typed
<1>6. CallTyped'
  BY <1>4 DEF CallTyped, IsCall
<1>7. MapsAgree' /\ CallIsAlone' /\ GivenOutOnce'
  BY <1>4 DEF MapsAgree, Odd, CallIsAlone, GivenOutOnce
<1> QED
  BY <1>5, <1>6, <1>7

LEMMA FreshKeeps ==
  ASSUME NEW c, NEW d \in Domains, MapInv, AllocateFresh(c, d)
  PROVE  MapInv'
<1> USE FakeIpAssumption DEF MapInv
<1>0. /\ alloc.pc = "idle" /\ d \notin Mapped /\ next_ip \in Ips /\ next_ip' = next_ip + 1
      /\ UNCHANGED <<domain_to_ip, ip_to_domain, recency, cache>>
  BY DEF AllocateFresh
<1>1. Used \subseteq Used' /\ next_ip \in Used' /\ next_ip \notin Used
  BY <1>0 DEF Used, Typed, Ips
<1>2. alloc' = [pc |-> "domain", client |-> c, domain |-> d, left |-> <<>>,
                victim |-> NoDomain, ip |-> next_ip]
  BY DEF AllocateFresh, Rest
<1>3. recency' \in Seq(Used')
  BY <1>0, <1>1, LargerSet DEF Typed
<1>4. Typed'
  BY <1>0, <1>3 DEF Typed, Ips
<1>5. CallTyped'
  <2>1. /\ alloc'.pc = "domain" /\ alloc'.victim = NoDomain
        /\ alloc'.domain = d /\ alloc'.ip = next_ip /\ alloc'.client = c
    BY <1>2
  <2>2. alloc'.left = <<>>
    BY <1>2
  <2>3. <<>> \in Seq(Used')
    OBVIOUS
  <2> QED
    BY <1>1, <1>2, <2>1, <2>2, <2>3 DEF CallTyped, IsCall, Phases
<1>6. ip_to_domain[next_ip] = NoDomain
  BY <1>0, <1>1 DEF GivenOutOnce, Typed
<1>7. MapsAgree'
  BY <1>0, <1>2 DEF MapsAgree, Odd
<1>8. CallIsAlone'
  BY <1>0, <1>2, <1>6 DEF CallIsAlone, Mapped, Typed
<1>9. GivenOutOnce'
  BY <1>0, <1>1 DEF GivenOutOnce
<1> QED
  BY <1>4, <1>5, <1>7, <1>8, <1>9

LEMMA FullKeeps ==
  ASSUME NEW c, NEW d \in Domains, MapInv, AllocateFull(c, d)
  PROVE  MapInv'
<1> USE FakeIpAssumption DEF MapInv
<1>0. /\ alloc.pc = "idle" /\ d \notin Mapped
      /\ UNCHANGED <<domain_to_ip, ip_to_domain, recency, next_ip, cache>>
  BY DEF AllocateFull
<1>1. alloc' = [pc |-> "check", client |-> c, domain |-> d, left |-> recency,
                victim |-> NoDomain, ip |-> NoIp]
  BY DEF AllocateFull, Rest
<1>2. Used' = Used
  BY <1>0 DEF Used
<1>3. Typed' /\ GivenOutOnce'
  BY <1>0, <1>2 DEF Typed, GivenOutOnce
<1>4. CallTyped'
  BY <1>1, <1>2 DEF CallTyped, IsCall, Phases, Typed
<1>5. MapsAgree'
  BY <1>0, <1>1 DEF MapsAgree, Odd
<1>6. CallIsAlone'
  BY <1>0, <1>1 DEF CallIsAlone, Mapped, Typed
<1> QED
  BY <1>3, <1>4, <1>5, <1>6

\* What the updates of a call make of it.
LEMMA CallPcIp ==
  ASSUME NEW r, IsCall(r), NEW x, NEW y, NEW z
  PROVE  [r EXCEPT !.pc = x, !.ip = y, !.left = z]
           = [pc |-> x, client |-> r.client, domain |-> r.domain, left |-> z,
              victim |-> r.victim, ip |-> y]
<1> DEFINE r1 == [pc |-> x, client |-> r.client, domain |-> r.domain, left |-> r.left,
                  victim |-> r.victim, ip |-> r.ip]
           r2 == [pc |-> x, client |-> r.client, domain |-> r.domain, left |-> r.left,
                  victim |-> r.victim, ip |-> y]
<1>1. [r EXCEPT !.pc = x, !.ip = y, !.left = z]
        = [[[r EXCEPT !.pc = x] EXCEPT !.ip = y] EXCEPT !.left = z]
  OBVIOUS
<1>2. [r EXCEPT !.pc = x] = r1
  BY DEF IsCall
<1>3. [r1 EXCEPT !.ip = y] = r2
  OBVIOUS
<1>4. [r2 EXCEPT !.left = z] = [pc |-> x, client |-> r.client, domain |-> r.domain,
                                left |-> z, victim |-> r.victim, ip |-> y]
  OBVIOUS
<1> HIDE DEF r1, r2
<1> QED
  BY <1>1, <1>2, <1>3, <1>4

LEMMA CallPcVictim ==
  ASSUME NEW r, IsCall(r), NEW x, NEW y
  PROVE  [r EXCEPT !.pc = x, !.victim = y]
           = [pc |-> x, client |-> r.client, domain |-> r.domain, left |-> r.left,
              victim |-> y, ip |-> r.ip]
<1> DEFINE r1 == [pc |-> x, client |-> r.client, domain |-> r.domain, left |-> r.left,
                  victim |-> r.victim, ip |-> r.ip]
<1>1. [r EXCEPT !.pc = x, !.victim = y] = [[r EXCEPT !.pc = x] EXCEPT !.victim = y]
  OBVIOUS
<1>2. [r EXCEPT !.pc = x] = r1
  BY DEF IsCall
<1>3. [r1 EXCEPT !.victim = y] = [pc |-> x, client |-> r.client, domain |-> r.domain,
                                  left |-> r.left, victim |-> y, ip |-> r.ip]
  OBVIOUS
<1> HIDE DEF r1
<1> QED
  BY <1>1, <1>2, <1>3

\* The search for a victim, and an allocation that ends without an address.
LEMMA SearchKeeps ==
  ASSUME MapInv, SkipActive \/ AllActive \/ Choose
  PROVE  MapInv'
<1> USE FakeIpAssumption DEF MapInv
<1>0. /\ alloc.pc = "check"
      /\ UNCHANGED <<domain_to_ip, ip_to_domain, recency, next_ip, cache>>
  BY DEF SkipActive, AllActive, Choose
<1>1. Used' = Used
  BY <1>0 DEF Used
<1>2. Typed' /\ GivenOutOnce'
  BY <1>0, <1>1 DEF Typed, GivenOutOnce
<1>3. CallTyped' /\ alloc'.pc \in {"idle", "check", "evict"}
      /\ (alloc'.pc # "idle" => alloc'.domain = alloc.domain)
  <2>1. CASE SkipActive
    <3>1. alloc' = [alloc EXCEPT !.left = Tail(alloc.left)] /\ alloc.left # <<>>
      BY <2>1 DEF SkipActive
    <3>2. Tail(alloc.left) \in Seq(Used)
      BY <3>1, HeadTailProperties DEF CallTyped, IsCall
    <3> QED
      BY <1>0, <1>1, <3>1, <3>2 DEF CallTyped, IsCall, Phases
  <2>2. CASE AllActive
    <3>1. alloc' = [pc |-> "idle", client |-> NoDomain, domain |-> NoDomain, left |-> <<>>,
                    victim |-> NoDomain, ip |-> NoIp]
      BY <2>2 DEF AllActive, Rest
    <3> QED
      BY <3>1 DEF CallTyped, IsCall, Phases
  <2>3. CASE Choose
    <3>1. /\ alloc.left # <<>>
          /\ alloc' = [pc |-> "evict", client |-> alloc.client, domain |-> alloc.domain,
                       left |-> <<>>, victim |-> alloc.victim, ip |-> Head(alloc.left)]
      BY <2>3, CallPcIp DEF Choose, CallTyped
    <3>2. Head(alloc.left) \in Used
      BY <3>1, HeadTailProperties DEF CallTyped, IsCall
    <3> QED
      BY <1>0, <1>1, <3>1, <3>2 DEF CallTyped, IsCall, Phases
  <2> QED
    BY <2>1, <2>2, <2>3
<1>4. MapsAgree'
  BY <1>0, <1>3 DEF MapsAgree, Odd
<1>5. CallIsAlone'
  BY <1>0, <1>3 DEF CallIsAlone
<1> QED
  BY <1>2, <1>3, <1>4, <1>5

LEMMA EvictKeeps == ASSUME MapInv, Evict PROVE MapInv'
<1> USE FakeIpAssumption DEF MapInv
<1>0. /\ alloc.pc = "evict" /\ alloc.ip \in Used
      /\ ip_to_domain' = [ip_to_domain EXCEPT ![alloc.ip] = NoDomain]
      /\ recency' = Without(recency, alloc.ip)
      /\ UNCHANGED <<domain_to_ip, next_ip, cache>>
  BY DEF Evict, CallTyped
<1>1. alloc' = [pc |-> "forget", client |-> alloc.client, domain |-> alloc.domain,
                left |-> alloc.left, victim |-> ip_to_domain[alloc.ip], ip |-> alloc.ip]
  BY CallPcVictim DEF Evict, CallTyped
<1>2. alloc.ip \in Ips
  BY <1>0 DEF Used, Ips, Typed
<1>3. Used' = Used
  BY <1>0 DEF Used
<1>4. recency' \in Seq(Used)
  BY <1>0, WithoutType DEF Typed
<1>5. Typed' /\ GivenOutOnce'
  BY <1>0, <1>3, <1>4 DEF Typed, GivenOutOnce
<1>6. ip_to_domain[alloc.ip] \in Domains \cup {NoDomain}
  BY <1>2 DEF Typed
<1>7. CallTyped'
  BY <1>0, <1>1, <1>3, <1>6 DEF CallTyped, IsCall, Phases
<1>8. MapsAgree'
  BY <1>0, <1>1, <1>2 DEF MapsAgree, Odd, Typed
<1>9. CallIsAlone'
  BY <1>0, <1>1, <1>2 DEF CallIsAlone, MapsAgree, Typed
<1> QED
  BY <1>5, <1>7, <1>8, <1>9

LEMMA ForgetKeeps == ASSUME MapInv, Forget PROVE MapInv'
<1> USE FakeIpAssumption DEF MapInv
<1>0. /\ alloc.pc = "forget" /\ alloc.ip \in Used /\ alloc.domain \in Domains
      /\ domain_to_ip' = [domain_to_ip EXCEPT ![alloc.victim] = NoIp]
      /\ UNCHANGED <<ip_to_domain, recency, next_ip, cache>>
  BY DEF Forget, Forgotten, CallTyped
<1>1. alloc' = [pc |-> "domain", client |-> alloc.client, domain |-> alloc.domain,
                left |-> alloc.left, victim |-> NoDomain, ip |-> alloc.ip]
  BY CallPcVictim DEF Forget, CallTyped
<1>2. Used' = Used /\ NoIp \notin Ips
  BY <1>0 DEF Used, Ips, NoIp
<1>3. Typed' /\ GivenOutOnce'
  BY <1>0, <1>2 DEF Typed, GivenOutOnce
<1>4. CallTyped'
  BY <1>0, <1>1, <1>2 DEF CallTyped, IsCall, Phases
<1>5. alloc.ip \in Ips
  BY <1>0 DEF Used, Ips, Typed
<1>6. \A d \in Domains : domain_to_ip'[d] = IF d = alloc.victim THEN NoIp ELSE domain_to_ip[d]
  BY <1>0 DEF Typed
<1>7. \A i \in Ips : ip_to_domain[i] # alloc.victim \/ alloc.victim \notin Domains
  BY <1>0, <1>5 DEF MapsAgree, CallIsAlone
<1>8. MapsAgree'
  BY <1>0, <1>1, <1>2, <1>6, <1>7 DEF MapsAgree, Odd
<1>9. CallIsAlone'
  BY <1>0, <1>1, <1>6 DEF CallIsAlone
<1> QED
  BY <1>3, <1>4, <1>8, <1>9

LEMMA InsertKeeps == ASSUME MapInv, InsertDomain \/ InsertIp PROVE MapInv'
<1> USE FakeIpAssumption DEF MapInv
<1>0. /\ alloc.ip \in Used /\ alloc.domain \in Domains
      /\ UNCHANGED next_ip
  BY DEF InsertDomain, InsertIp, CallTyped
<1>1. Used' = Used /\ NoIp \notin Ips /\ alloc.ip \in Ips /\ NoDomain \notin Domains
  BY <1>0 DEF Used, Ips, NoIp, Typed
<1>2. CASE InsertDomain
  <2>0. /\ alloc.pc = "domain"
        /\ domain_to_ip' = [domain_to_ip EXCEPT ![alloc.domain] = alloc.ip]
        /\ UNCHANGED <<ip_to_domain, recency, cache>>
    BY <1>2 DEF InsertDomain
  <2>1. alloc' = [pc |-> "ip", client |-> alloc.client, domain |-> alloc.domain,
                  left |-> alloc.left, victim |-> alloc.victim, ip |-> alloc.ip]
    BY <1>2 DEF InsertDomain, CallTyped, IsCall
  <2>2. Typed' /\ GivenOutOnce'
    BY <1>0, <1>1, <2>0 DEF Typed, GivenOutOnce
  <2>3. CallTyped'
    BY <1>0, <1>1, <2>1 DEF CallTyped, IsCall, Phases
  <2>4. \A d \in Domains : domain_to_ip'[d] = IF d = alloc.domain THEN alloc.ip
                                              ELSE domain_to_ip[d]
    BY <1>0, <2>0 DEF Typed
  <2>5. MapsAgree'
    BY <1>0, <1>1, <2>0, <2>1, <2>4 DEF MapsAgree, Odd, CallIsAlone
  <2>6. CallIsAlone'
    BY <1>0, <2>0, <2>1, <2>4 DEF CallIsAlone
  <2> QED
    BY <2>2, <2>3, <2>5, <2>6
<1>3. CASE InsertIp
  <2>0. /\ alloc.pc = "ip"
        /\ ip_to_domain' = [ip_to_domain EXCEPT ![alloc.ip] = alloc.domain]
        /\ UNCHANGED domain_to_ip
    BY <1>3 DEF InsertIp
  <2>1. alloc' = [pc |-> "idle", client |-> NoDomain, domain |-> NoDomain, left |-> <<>>,
                  victim |-> NoDomain, ip |-> NoIp]
    BY <1>3 DEF InsertIp, Rest
  <2>2. recency' \in Seq(Used)
    BY <1>0, <1>3, MoveToEndType DEF InsertIp, Typed
  <2>3. cache' \in [Clients -> [Domains -> Ips \cup {NoIp}]]
    BY <1>0, <1>1, <1>3 DEF InsertIp, Typed, Answer
  <2>4. Typed' /\ GivenOutOnce'
    BY <1>0, <1>1, <2>0, <2>2, <2>3 DEF Typed, GivenOutOnce
  <2>5. CallTyped'
    BY <2>1 DEF CallTyped, IsCall, Phases
  <2>6. \A i \in Ips : ip_to_domain'[i] = IF i = alloc.ip THEN alloc.domain ELSE ip_to_domain[i]
    BY <1>1, <2>0 DEF Typed
  <2>7. domain_to_ip[alloc.domain] = alloc.ip
    BY <2>0 DEF CallIsAlone
  <2>8. MapsAgree'
    BY <1>0, <1>1, <2>0, <2>1, <2>6, <2>7 DEF MapsAgree, Odd, CallIsAlone
  <2>9. CallIsAlone'
    BY <2>1 DEF CallIsAlone
  <2> QED
    BY <2>4, <2>5, <2>8, <2>9
<1> QED
  BY <1>2, <1>3

LEMMA AllocateKeeps == ASSUME MapInv, AllocateStep PROVE MapInv'
BY SearchKeeps, EvictKeeps, ForgetKeeps, InsertKeeps DEF AllocateStep

LEMMA CallKeeps ==
  ASSUME NEW c, NEW d \in Domains, MapInv, AllocateCall(c, d)
  PROVE  MapInv'
BY ExistingKeeps, FreshKeeps, FullKeeps DEF AllocateCall

-----------------------------------------------------------------------------
\* What leaves both maps and the call alone, and lists only addresses in use.
LEMMA ApartKeeps ==
  ASSUME MapInv, UNCHANGED <<domain_to_ip, ip_to_domain, next_ip, alloc>>,
         recency' \in Seq(Used), cache' \in [Clients -> [Domains -> Ips \cup {NoIp}]]
  PROVE  MapInv'
<1>1. Used' = Used
  BY DEF Used
<1>2. Typed'
  BY <1>1 DEF MapInv, Typed
<1>3. CallTyped'
  BY <1>1 DEF MapInv, CallTyped
<1>4. MapsAgree' /\ CallIsAlone' /\ GivenOutOnce'
  BY <1>1 DEF MapInv, MapsAgree, Odd, CallIsAlone, GivenOutOnce
<1> QED
  BY <1>2, <1>3, <1>4 DEF MapInv

LEMMA TrafficKeeps == ASSUME MapInv, Traffic PROVE MapInv'
<1> USE FakeIpAssumption
<1>1. ASSUME NEW c \in Clients, NEW d \in Domains, CacheExpires(c, d) PROVE MapInv'
  <2>1. cache' \in [Clients -> [Domains -> Ips \cup {NoIp}]]
    BY <1>1 DEF CacheExpires, MapInv, Typed
  <2> QED
    BY <1>1, <2>1, ApartKeeps DEF CacheExpires, MapInv, Typed
<1>2. ASSUME NEW s \in Shards, NEW c \in Clients, NEW d \in Domains, Lookup(s, c, d)
      PROVE  MapInv'
  <2>1. cache[c][d] \in Ips
    BY <1>2 DEF Lookup, MapInv, Typed
  <2>2. cache[c][d] \in Used
    BY <1>2, <2>1 DEF Lookup, MapInv, GivenOutOnce
  <2>3. recency' \in Seq(Used)
    BY <1>2, <2>2, MoveToEndType DEF Lookup, MapInv, Typed
  <2> QED
    BY <1>2, <2>3, ApartKeeps DEF Lookup, MapInv, Typed
<1>3. ASSUME NEW s \in Shards, Redirect(s) PROVE MapInv'
  BY <1>3, ApartKeeps DEF Redirect, MapInv, Typed
<1>4. ASSUME NEW r \in redirect, RedirectEnds(r) PROVE MapInv'
  BY <1>4, ApartKeeps DEF RedirectEnds, MapInv, Typed
<1> QED
  BY <1>1, <1>2, <1>3, <1>4 DEF Traffic

LEMMA MapStep == MapInv /\ [Next]_vars => MapInv'
<1> SUFFICES ASSUME MapInv, [Next]_vars PROVE MapInv'
  OBVIOUS
<1>1. CASE UNCHANGED vars
  BY <1>1, ApartKeeps DEF vars, MapInv, Typed
<1> QED
  BY <1>1, CallKeeps, AllocateKeeps, TrafficKeeps DEF Next

LEMMA MapsShareNothing == MapInv => NoSharedIp
<1> SUFFICES ASSUME MapInv PROVE NoSharedIp
  OBVIOUS
<1> USE FakeIpAssumption DEF MapInv, Ips, NoIp
<1>1. ASSUME NEW d \in Mapped, NEW e \in Mapped, domain_to_ip[d] = domain_to_ip[e]
      PROVE  d = e
  <2>1. d \in Domains /\ e \in Domains /\ domain_to_ip[d] \in Ips
    BY DEF Mapped, Typed
  <2>2. ip_to_domain[domain_to_ip[d]] = d \/ Odd(d, domain_to_ip[d])
    BY <2>1 DEF MapsAgree
  <2>3. ip_to_domain[domain_to_ip[d]] = e \/ Odd(e, domain_to_ip[d])
    BY <1>1, <2>1 DEF MapsAgree
  <2> QED
    BY <2>1, <2>2, <2>3 DEF Odd, CallIsAlone
<1>2. ASSUME alloc.pc = "idle", NEW d \in Domains, NEW i \in Ips
      PROVE  domain_to_ip[d] = i <=> ip_to_domain[i] = d
  BY <1>2 DEF MapsAgree, Odd
<1> QED
  BY <1>1, <1>2 DEF NoSharedIp

\* However evictions, new domains and traffic interleave, no fake address ever stands
\* for two domains (dns/fakeip.rs, allocate).
THEOREM AddressesAreNotShared == Spec => []NoSharedIp
BY MapInit, MapStep, MapsShareNothing, PTL DEF Spec

-----------------------------------------------------------------------------
(* The bridge.                                                               *)

\* As much of BridgeTypeOK as the argument needs: a busy task holds a query, and
\* each key has its place in the cache of answers.
TaskTyped ==
  /\ task = Idle \/ \E pc, q, n : task = [pc |-> pc, query |-> q, tries |-> n]
  /\ answers \in [Keys -> {"none", "system", "doh"}]
  /\ geoblocked \subseteq Domains /\ late \in [Domains -> Nat]

\* Every step that a query goes through after its classification remembers what no
\* reload can change.
ModeIsKept ==
  /\ At("fake") => Key[1] \in Domains
  /\ At("system") \/ At("lookup") => Key[1] \notin Censored

SourcesAreRight == \A k \in Keys : k[1] \in Censored => answers[k] # "system"

\* The task is at a step that ends with an answer of a resolver or of the cache.
Resolving == task.pc \in {"system", "lookup", "doh", "dohhost", "dohwait", "tunnel"}

\* A name has had its late answer, or the task may be about to give it, but not both; and
\* a name that is not geo-blocked starts anew.
LateOnce ==
  \A d \in Domains :
    /\ late[d] <= 1
    /\ d \notin geoblocked => late[d] = 0
    /\ Resolving /\ Key[1] = d => late[d] = 0

ModeInv == TaskTyped /\ ModeIsKept /\ SourcesAreRight /\ LateOnce

LEMMA ModeInit == BridgeInit => ModeInv
BY DEF BridgeInit, ModeInv, TaskTyped, ModeIsKept, SourcesAreRight, LateOnce, Resolving,
       Idle, At

\* The task goes idle and nothing is stored.
LEMMA IdleKeeps ==
  ASSUME ModeInv, task' = Idle, UNCHANGED <<answers, lists>>
  PROVE  ModeInv'
BY DEF ModeInv, TaskTyped, ModeIsKept, SourcesAreRight, LateOnce, Resolving, Idle, At, lists

\* The task gives an answer and goes idle: its query was the name's last one.
LEMMA AnswerKeeps ==
  ASSUME ModeInv, Resolving, task' = Idle, Answered, UNCHANGED geoblocked
  PROVE  LateOnce' /\ late' \in [Domains -> Nat]
<1>1. late \in [Domains -> Nat]
  BY DEF ModeInv, TaskTyped
<1>2. ~Resolving'
  BY DEF Resolving, Idle
<1>3. \A d \in Domains : late'[d] = late[d] \/ (d = Key[1] /\ d \in geoblocked /\ late'[d] = late[d] + 1)
  BY DEF Answered
<1>4. \A d \in Domains : d = Key[1] => late[d] = 0
  BY DEF ModeInv, LateOnce
<1>5. \A d \in Domains : late'[d] <= 1 /\ (d \notin geoblocked => late'[d] = 0)
  BY <1>1, <1>3, <1>4 DEF ModeInv, LateOnce
<1>6. late' \in [Domains -> Nat]
  BY <1>1 DEF Answered
<1> QED
  BY <1>2, <1>5, <1>6 DEF LateOnce

\* The task goes on, with its query, to a step that may follow the one it is at.
LEMMA MoveKeeps ==
  ASSUME ModeInv, UNCHANGED <<answers, lists>>, NEW pc, NEW n,
         task' = [pc |-> pc, query |-> task.query, tries |-> n],
         \/ pc = "lookup" /\ (At("system") \/ At("lookup"))
         \/ pc \in {"doh", "dohhost", "dohwait", "tunnel"}
              /\ \E at \in {"system", "lookup", "doh", "dohhost", "dohwait"} : At(at)
  PROVE  ModeInv'
<1>1. TaskTyped'
  BY DEF ModeInv, TaskTyped, lists
<1>2. task'.pc = pc /\ Key' = Key
  BY DEF Key
<1>3. SourcesAreRight'
  BY DEF ModeInv, SourcesAreRight
<1>4. ModeIsKept'
  BY <1>2 DEF ModeInv, ModeIsKept, At
<1>5. Resolving
  BY DEF Resolving, At
<1>6. LateOnce'
  BY <1>2, <1>5 DEF ModeInv, LateOnce, lists
<1> QED
  BY <1>1, <1>3, <1>4, <1>6 DEF ModeInv

\* A query taken off the queue is given the steps of its mode.
LEMMA TakeKeeps ==
  ASSUME ModeInv, NEW q, UNCHANGED <<answers, lists>>,
         \/ task' = Serving("fake", q) /\ Mode(q.key) = "FakeIp"
         \/ task' = Serving("doh", q) /\ Mode(q.key) = "SecureDoh"
         \/ task' = Serving("system", q) /\ Mode(q.key) = "SystemDns"
  PROVE  ModeInv'
<1>1. TaskTyped'
  BY DEF ModeInv, TaskTyped, Serving, lists
<1>2. SourcesAreRight'
  BY DEF ModeInv, SourcesAreRight
<1>3. Mode(q.key) = "SecureDoh" => q.key[1] \notin geoblocked
  BY DEF Mode, Refused, classify_domain
<1>4. Mode(q.key) = "SystemDns" => q.key[1] \notin geoblocked \cup Censored
  BY DEF Mode, Refused, classify_domain
<1>5. Mode(q.key) = "FakeIp" => q.key[1] \in Domains
  BY DEF Mode, Refused, classify_domain, ModeInv, TaskTyped
<1>6. ModeIsKept'
  BY <1>3, <1>4, <1>5 DEF ModeIsKept, At, Key, Serving
<1>7. Resolving' => Key'[1] \notin geoblocked
  BY <1>3, <1>4 DEF Resolving, Key, Serving
<1>8. LateOnce'
  BY <1>7 DEF ModeInv, LateOnce, lists
<1> QED
  BY <1>1, <1>2, <1>6, <1>8 DEF ModeInv

\* An answer is stored under the name of the query, and the task goes idle.
LEMMA StoreKeeps ==
  ASSUME ModeInv, NEW source \in {"system", "doh"}, Resolved(source),
         source = "system" => At("system") \/ At("lookup"),
         \E at \in {"system", "lookup", "dohwait", "tunnel"} : At(at)
  PROVE  ModeInv'
<1>1. Resolving /\ LateOnce' /\ late' \in [Domains -> Nat]
  BY AnswerKeeps DEF Resolving, At, Resolved
<1>2. TaskTyped'
  BY <1>1 DEF ModeInv, TaskTyped, Resolved
<1>3. ModeIsKept'
  BY DEF Resolved, ModeIsKept, Idle, At
<1>4. source = "system" => Key[1] \notin Censored
  BY DEF ModeInv, ModeIsKept
<1>5. \A k \in Keys : answers'[k] = answers[k] \/ (k = Key /\ answers'[k] = source)
  BY DEF ModeInv, TaskTyped, Resolved
<1>6. SourcesAreRight'
  BY <1>4, <1>5 DEF ModeInv, SourcesAreRight
<1> QED
  BY <1>1, <1>2, <1>3, <1>2, <1>6 DEF ModeInv

\* What leaves the task, the answers and the lists alone.
LEMMA OthersKeep == ASSUME ModeInv, UNCHANGED <<task, answers, lists>> PROVE ModeInv'
BY DEF ModeInv, TaskTyped, ModeIsKept, SourcesAreRight, LateOnce, Resolving, At, Key, lists

\* The user's list changes.  A query that has been taken keeps its mode; the answer it
\* gets is the late one of a name that is listed meanwhile.
LEMMA ListsKeep ==
  ASSUME ModeInv, NEW names, Lists(names), names \subseteq Domains PROVE ModeInv'
<1>1. TaskTyped' /\ ModeIsKept' /\ SourcesAreRight'
  BY DEF ModeInv, TaskTyped, ModeIsKept, SourcesAreRight, At, Key, Lists
<1>2. \A d \in Domains : late'[d] = 0 \/ (late'[d] = late[d] /\ d \in geoblocked \cap names)
  BY DEF Lists
<1>3. Key' = Key /\ (Resolving' <=> Resolving)
  BY DEF Lists, Key, Resolving
<1>4. LateOnce'
  BY <1>2, <1>3 DEF ModeInv, LateOnce, Lists
<1> QED
  BY <1>1, <1>4 DEF ModeInv

\* A busy task keeps its query when it moves.
LEMMA MoveIsRecord ==
  ASSUME ModeInv, NEW pc, NEW n, ~At("idle")
  PROVE  /\ [task EXCEPT !.pc = pc] = [pc |-> pc, query |-> task.query, tries |-> task.tries]
         /\ [task EXCEPT !.tries = n] = [pc |-> task.pc, query |-> task.query, tries |-> n]
<1>1. PICK at, q, m : task = [pc |-> at, query |-> q, tries |-> m]
  BY DEF ModeInv, TaskTyped, Idle, At
<1>2. [task EXCEPT !.pc = pc] = [pc |-> pc, query |-> q, tries |-> m]
  BY <1>1
<1>3. [task EXCEPT !.tries = n] = [pc |-> at, query |-> q, tries |-> n]
  BY <1>1
<1> QED
  BY <1>1, <1>2, <1>3

-----------------------------------------------------------------------------
LEMMA TakesKeep ==
  ASSUME ModeInv, TakeRefused \/ TakeFake \/ TakeSecure \/ TakePlain
  PROVE  ModeInv'
<1>1. CASE TakeRefused
  BY <1>1, IdleKeeps DEF TakeRefused, Take
<1>2. CASE TakeFake
  BY <1>2, TakeKeeps DEF TakeFake, Take
<1>3. CASE TakeSecure
  BY <1>3, TakeKeeps DEF TakeSecure, Take
<1>4. CASE TakePlain
  BY <1>4, TakeKeeps DEF TakePlain, Take
<1> QED
  BY <1>1, <1>2, <1>3, <1>4

LEMMA LookupKeeps ==
  ASSUME ModeInv,
         \/ LookupRemembered \/ LookupStarts \/ LookupRepeats \/ LookupAnswered
         \/ LookupFails
  PROVE  ModeInv'
<1>1. CASE LookupRemembered \/ LookupAnswered
  BY <1>1, StoreKeeps DEF LookupRemembered, LookupAnswered
<1>2. CASE LookupStarts
  <2>1. task' = [pc |-> "lookup", query |-> task.query, tries |-> 1]
    BY <1>2 DEF LookupStarts, Serving
  <2> QED
    BY <1>2, <2>1, MoveKeeps DEF LookupStarts
<1>3. CASE LookupRepeats
  <2>1. At("lookup") /\ ~At("idle") /\ UNCHANGED <<answers, lists>>
    BY <1>3 DEF LookupRepeats, At
  <2>2. task' = [task EXCEPT !.tries = task.tries + 1]
    BY <1>3 DEF LookupRepeats
  <2>3. task' = [pc |-> "lookup", query |-> task.query, tries |-> task.tries + 1]
    BY <2>1, <2>2, MoveIsRecord DEF At
  <2> QED
    BY <2>1, <2>3, MoveKeeps
<1>4. CASE LookupFails
  <2>1. At("lookup") /\ ~At("idle") /\ UNCHANGED <<answers, lists>>
    BY <1>4 DEF LookupFails, At
  <2>2. task' = [pc |-> "doh", query |-> task.query, tries |-> task.tries]
    BY <1>4, <2>1, MoveIsRecord DEF LookupFails, Move
  <2> QED
    BY <2>1, <2>2, MoveKeeps
<1> QED
  BY <1>1, <1>2, <1>3, <1>4

LEMMA DohKeeps ==
  ASSUME ModeInv, DohLooksUpHost \/ DohAsks \/ DohAnswered \/ DohFails
  PROVE  ModeInv'
<1>1. CASE DohLooksUpHost
  <2>1. At("doh") /\ ~At("idle") /\ UNCHANGED <<answers, lists>>
    BY <1>1 DEF DohLooksUpHost, At
  <2>2. task' = [pc |-> "dohhost", query |-> task.query, tries |-> task.tries]
    BY <1>1, <2>1, MoveIsRecord DEF DohLooksUpHost, Move
  <2> QED
    BY <2>1, <2>2, MoveKeeps
<1>2. CASE DohAsks
  <2>1. (At("doh") \/ At("dohhost")) /\ ~At("idle") /\ UNCHANGED <<answers, lists>>
    BY <1>2 DEF DohAsks, At
  <2>2. task' = [pc |-> "dohwait", query |-> task.query, tries |-> task.tries]
    BY <1>2, <2>1, MoveIsRecord DEF DohAsks, Move
  <2> QED
    BY <2>1, <2>2, MoveKeeps
<1>3. CASE DohAnswered
  BY <1>3, StoreKeeps DEF DohAnswered
<1>4. CASE DohFails
  <2>1. (At("dohwait") \/ At("dohhost")) /\ ~At("idle") /\ UNCHANGED <<answers, lists>>
    BY <1>4 DEF DohFails, DohEnds, At
  <2>2. CASE task' = Idle
    BY <2>1, <2>2, IdleKeeps
  <2>3. CASE Move("tunnel")
    <3>1. task' = [pc |-> "tunnel", query |-> task.query, tries |-> task.tries]
      BY <2>1, <2>3, MoveIsRecord DEF Move
    <3> QED
      BY <2>1, <3>1, MoveKeeps
  <2> QED
    BY <1>4, <2>2, <2>3 DEF DohFails
<1> QED
  BY <1>1, <1>2, <1>3, <1>4

LEMMA BridgeStepKeeps == ASSUME ModeInv, BridgeStep PROVE ModeInv'
<1>1. CASE FakeGoesOn
  BY <1>1, OthersKeep DEF FakeGoesOn, bvars
<1>2. CASE FakeAnswered \/ FakeFails
  BY <1>2, IdleKeeps DEF FakeAnswered, FakeFails
<1>3. CASE CacheHit
  <2>1. Resolving /\ task' = Idle /\ Answered /\ UNCHANGED <<answers, geoblocked>>
    BY <1>3 DEF CacheHit, Resolving, At
  <2>2. LateOnce' /\ late' \in [Domains -> Nat]
    BY <2>1, AnswerKeeps
  <2>3. TaskTyped' /\ ModeIsKept' /\ SourcesAreRight'
    BY <2>1, <2>2 DEF ModeInv, TaskTyped, ModeIsKept, SourcesAreRight, Idle, At
  <2> QED
    BY <2>2, <2>3 DEF ModeInv
<1> QED
  BY <1>1, <1>2, <1>3, TakesKeep, LookupKeeps, DohKeeps DEF BridgeStep

\* What the user, a reload or the probe does to the list.
LEMMA EditKeeps == ASSUME ModeInv, UserEdit PROVE ModeInv'
<1> USE BridgeAssumption
<1>1. geoblocked \subseteq Domains
  BY DEF ModeInv, TaskTyped
<1>2. CASE ListEmptied
  <2>1. geoblocked \ UserDomains \subseteq Domains
    BY <1>1
  <2> QED
    BY <1>2, <2>1, ListsKeep DEF ListEmptied
<1>3. ASSUME NEW d \in UserDomains, DomainListed(d) PROVE ModeInv'
  <2>1. geoblocked \cup {d} \subseteq Domains
    BY <1>1
  <2> QED
    BY <1>3, <2>1, ListsKeep DEF DomainListed
<1>4. ASSUME NEW d \in UserDomains, DomainRemoved(d) PROVE ModeInv'
  <2>1. geoblocked \ {d} \subseteq Domains
    BY <1>1
  <2> QED
    BY <1>4, <2>1, ListsKeep DEF DomainRemoved
<1> QED
  BY <1>2, <1>3, <1>4 DEF UserEdit

LEMMA ModeStep == ModeInv /\ [BridgeNext]_allvars => ModeInv'
<1> SUFFICES ASSUME ModeInv, [BridgeNext]_allvars PROVE ModeInv'
  OBVIOUS
<1>1. CASE UNCHANGED allvars
  BY <1>1, OthersKeep DEF allvars, bvars
<1>2. ASSUME NEW c \in Clients, NEW k \in Questions, Ask(c, k) PROVE ModeInv'
  BY <1>2, OthersKeep DEF Ask
<1>3. CASE TunnelAnswered
  BY <1>3, StoreKeeps DEF TunnelAnswered
<1>4. CASE TunnelFails
  BY <1>4, IdleKeeps DEF TunnelFails
<1>5. ASSUME NEW k \in Keys, AnswerExpires(k) PROVE ModeInv'
  <2>1. answers' = [answers EXCEPT ![k] = "none"] /\ task' = task /\ UNCHANGED lists
    BY <1>5 DEF AnswerExpires
  <2>2. TaskTyped' /\ SourcesAreRight'
    BY <2>1 DEF ModeInv, TaskTyped, SourcesAreRight, lists
  <2>3. ModeIsKept' /\ LateOnce'
    BY <2>1 DEF ModeInv, ModeIsKept, LateOnce, Resolving, At, Key, lists
  <2> QED
    BY <2>2, <2>3 DEF ModeInv
<1>6. CASE Traffic /\ UNCHANGED bvars
  BY <1>6, OthersKeep DEF bvars
<1>7. CASE UserEdit
  BY <1>7, EditKeeps
<1> QED
  BY <1>1, <1>2, <1>3, <1>4, <1>5, <1>6, <1>7, BridgeStepKeeps DEF BridgeNext

-----------------------------------------------------------------------------
\* The task calls allocate for geo-blocked names only, so the maps of the fake
\* addresses are right inside the bridge too.
LEMMA BridgeMaps == MapInv /\ ModeInv /\ [BridgeNext]_allvars => MapInv'
<1> SUFFICES ASSUME MapInv, ModeInv, [BridgeNext]_allvars PROVE MapInv'
  OBVIOUS
<1>1. UNCHANGED vars => MapInv'
  BY ApartKeeps DEF vars, MapInv, Typed
<1>2. ASSUME NEW c \in Clients, NEW k \in Questions, Ask(c, k) PROVE MapInv'
  BY <1>1, <1>2 DEF Ask
<1>3. CASE BridgeStep
  <2>1. At("fake") => Key[1] \in Domains
    BY DEF ModeInv, ModeIsKept
  <2>2. CASE TakeRefused \/ TakeFake \/ TakeSecure \/ TakePlain
    BY <1>1, <2>2 DEF TakeRefused, TakeFake, TakeSecure, TakePlain, Take
  <2>3. CASE FakeGoesOn
    BY <2>1, <2>3, CallKeeps, AllocateKeeps DEF FakeGoesOn, AllocateCall, AllocateStep
  <2>4. CASE FakeAnswered
    BY <2>1, <2>4, CallKeeps, AllocateKeeps DEF FakeAnswered, AllocateCall, AllocateStep
  <2>5. CASE FakeFails
    BY <2>5, AllocateKeeps DEF FakeFails, AllocateStep
  <2>6. CASE CacheHit \/ LookupRemembered \/ LookupAnswered \/ DohAnswered
    BY <1>1, <2>6 DEF CacheHit, LookupRemembered, LookupAnswered, DohAnswered, Resolved
  <2>7. CASE LookupStarts \/ LookupRepeats \/ LookupFails
    BY <1>1, <2>7 DEF LookupStarts, LookupRepeats, LookupFails
  <2>8. CASE DohLooksUpHost \/ DohAsks \/ DohFails
    BY <1>1, <2>8 DEF DohLooksUpHost, DohAsks, DohFails
  <2> QED
    BY <1>3, <2>2, <2>3, <2>4, <2>5, <2>6, <2>7, <2>8 DEF BridgeStep
<1>4. CASE TunnelAnswered \/ TunnelFails
  BY <1>1, <1>4 DEF TunnelAnswered, TunnelFails, Resolved
<1>5. ASSUME NEW k \in Keys, AnswerExpires(k) PROVE MapInv'
  BY <1>1, <1>5 DEF AnswerExpires
<1>6. CASE Traffic
  BY <1>6, TrafficKeeps
<1>7. CASE UserEdit
  BY <1>1, <1>7 DEF UserEdit, ListEmptied, DomainListed, DomainRemoved, Lists
<1> QED
  BY <1>1, <1>2, <1>3, <1>4, <1>5, <1>6, <1>7 DEF BridgeNext, allvars

\* Nor does an address stand for two domains when the queries come through the bridge
\* (dns/fakeip.rs, allocate; dns/dns_proxy.rs, classify_domain).
THEOREM BridgeSharesNoAddress == BridgeSpec => []NoSharedIp
<1>1. BridgeInit => MapInv
  BY MapInit DEF BridgeInit
<1> QED
  BY <1>1, BridgeMaps, ModeInit, ModeStep, MapsShareNothing, PTL DEF BridgeSpec

\* Whatever fails or is asked again on the way and however the user's list changes, a name
\* that comes on the list is answered for real once more at most, and the shared cache
\* keeps no answer of the system's resolver for a censored name (dns_proxy.rs,
\* classify_domain and handle_dns_query; geo.rs, reload_user_domains).
THEOREM ListingTakesEffect == BridgeSpec => []AnswersFollowMode
<1>1. ModeInv => AnswersFollowMode
  BY DEF ModeInv, LateOnce, SourcesAreRight, AnswersFollowMode
<1> QED
  BY <1>1, ModeInit, ModeStep, PTL DEF BridgeSpec
=============================================================================
