-------------------------------- MODULE FakeIp --------------------------------
(***************************************************************************)
(* FakeIpManager (dns/fakeip.rs): the two maps between domains and fake    *)
(* addresses, the LRU eviction that reuses an address, and the traffic     *)
(* that looks addresses up.  allocate is called by one task only, the DNS  *)
(* bridge, which serves one query at a time; its map operations interleave *)
(* with the shard workers that handle packets to fake addresses and with   *)
(* the sweeper of the redirect table.                                      *)
(*                                                                         *)
(* last_used is kept as the recency order of the addresses, least recently *)
(* used first: nothing else is done with it.  An address counts as used    *)
(* when its entry is stored, where the code stores the count drawn at the  *)
(* start of the call.  An address is active while a redirect entry names   *)
(* it (is_ip_active of RedirectTable); the conntrack half of the test is   *)
(* left out, because flows to fake addresses never reach conntrack.        *)
(* remove and clear have no caller outside the unit tests and are left out.*)
(***************************************************************************)
EXTENDS Integers, Sequences, FiniteSets, SequencesExt

CONSTANTS Clients,     \* client applications, each with a DNS cache
          Domains,     \* geo-blocked domains
          Shards,      \* shard workers
          MaxEntries,  \* max_entries (10_000 in the service)
          PoolSize,    \* addresses of the pool (FAKEIP_MASK)
          RedirectBound,  \* bound: entries of the redirect table
          NoDomain

ASSUME FakeIpAssumption ==
  /\ IsFiniteSet(Domains) /\ MaxEntries \in Nat \ {0} /\ PoolSize \in Nat \ {0}
  /\ RedirectBound \in Nat
  /\ NoDomain \notin Domains

Ips == 1 .. PoolSize
NoIp == 0

VARIABLES
  domain_to_ip,  \* function on the domains that have an address
  ip_to_domain,  \* NoDomain for an address that is not mapped
  recency,       \* mapped addresses, least recently used first
  next_ip,       \* next_ip
  alloc,         \* the call of allocate in progress
  cache,         \* what each client's DNS cache holds for each domain
  syn,           \* the SYN each shard is handling
  redirect       \* redirect table: who wanted what, and what was recorded

vars == <<domain_to_ip, ip_to_domain, recency, next_ip, alloc, cache, syn, redirect>>

Rest == [pc |-> "idle", client |-> NoDomain, domain |-> NoDomain, left |-> <<>>,
         victim |-> NoDomain, ip |-> NoIp]
NoSyn == [wanted |-> NoDomain, ip |-> NoIp, found |-> NoDomain]

Init ==
  /\ domain_to_ip = [d \in Domains |-> NoIp]
  /\ ip_to_domain = [i \in Ips |-> NoDomain]
  /\ recency = <<>>
  /\ next_ip = 1
  /\ alloc = Rest
  /\ cache = [c \in Clients |-> [d \in Domains |-> NoIp]]
  /\ syn = [s \in Shards |-> NoSyn]
  /\ redirect = {}

Mapped == {d \in Domains : domain_to_ip[d] # NoIp}
\* recency without an address, which it lists once at most.
Without(q, i) ==
  IF \E k \in DOMAIN q : q[k] = i THEN RemoveAt(q, CHOOSE k \in DOMAIN q : q[k] = i) ELSE q
MoveToEnd(q, i) == Append(Without(q, i), i)

-----------------------------------------------------------------------------
(* allocate.                                                               *)

Answer(c, d, i) == cache' = [cache EXCEPT ![c][d] = i]

\* The domain has an address: touched, if the address is mapped, and returned.
AllocateExisting(c, d) ==
  /\ alloc.pc = "idle" /\ d \in Mapped
  /\ LET i == domain_to_ip[d] IN
       /\ recency' = IF ip_to_domain[i] # NoDomain THEN MoveToEnd(recency, i)
                     ELSE recency
       /\ Answer(c, d, i)
  /\ UNCHANGED <<domain_to_ip, ip_to_domain, next_ip, alloc, syn, redirect>>

\* There is room: the next address.  When the pool is used up the call returns
\* nothing and only counts on, so next_ip is kept at the first number above it.
FullLate == Cardinality(Mapped) > MaxEntries  \* variant: one entry too many
Full == Cardinality(Mapped) >= MaxEntries

AllocateFresh(c, d) ==
  /\ alloc.pc = "idle" /\ d \notin Mapped /\ ~Full
  /\ next_ip \in Ips
  /\ next_ip' = next_ip + 1
  /\ alloc' = [Rest EXCEPT !.pc = "domain", !.client = c, !.domain = d, !.ip = next_ip]
  /\ UNCHANGED <<domain_to_ip, ip_to_domain, recency, cache, syn, redirect>>

\* The table is full: the candidates are listed, least recently used first.
AllocateFull(c, d) ==
  /\ alloc.pc = "idle" /\ d \notin Mapped /\ Full
  /\ alloc' = [Rest EXCEPT !.pc = "check", !.client = c, !.domain = d,
                           !.left = recency]
  /\ UNCHANGED <<domain_to_ip, ip_to_domain, recency, next_ip, cache, syn, redirect>>

is_ip_active(i) == \E r \in redirect : r.ip = i

SkipActive ==
  /\ alloc.pc = "check" /\ alloc.left # <<>> /\ is_ip_active(Head(alloc.left))
  /\ alloc' = [alloc EXCEPT !.left = Tail(@)]
  /\ UNCHANGED <<domain_to_ip, ip_to_domain, recency, next_ip, cache, syn, redirect>>

\* Every candidate is active: no address, and no answer to the query.
AllActive ==
  /\ alloc.pc = "check" /\ alloc.left = <<>>
  /\ alloc' = Rest
  /\ UNCHANGED <<domain_to_ip, ip_to_domain, recency, next_ip, cache, syn, redirect>>

Choose ==
  /\ alloc.pc = "check" /\ alloc.left # <<>> /\ ~is_ip_active(Head(alloc.left))
  /\ alloc' = [alloc EXCEPT !.pc = "evict", !.ip = Head(alloc.left), !.left = <<>>]
  /\ UNCHANGED <<domain_to_ip, ip_to_domain, recency, next_ip, cache, syn, redirect>>

\* ip_to_domain.remove, after the test and not under one lock with it.
Evict ==
  /\ alloc.pc = "evict"
  /\ alloc' = [alloc EXCEPT !.pc = "forget", !.victim = ip_to_domain[alloc.ip]]
  /\ ip_to_domain' = [ip_to_domain EXCEPT ![alloc.ip] = NoDomain]
  /\ recency' = Without(recency, alloc.ip)
  /\ UNCHANGED <<domain_to_ip, next_ip, cache, syn, redirect>>

\* Variant: the victim's entry of domain_to_ip is left behind.
ForgottenKept == domain_to_ip
Forgotten == [domain_to_ip EXCEPT ![alloc.victim] = NoIp]

Forget ==
  /\ alloc.pc = "forget"
  /\ domain_to_ip' = Forgotten
  /\ alloc' = [alloc EXCEPT !.pc = "domain", !.victim = NoDomain]
  /\ UNCHANGED <<ip_to_domain, recency, next_ip, cache, syn, redirect>>

InsertDomain ==
  /\ alloc.pc = "domain"
  /\ domain_to_ip' = [domain_to_ip EXCEPT ![alloc.domain] = alloc.ip]
  /\ alloc' = [alloc EXCEPT !.pc = "ip"]
  /\ UNCHANGED <<ip_to_domain, recency, next_ip, cache, syn, redirect>>

\* The reverse entry, and the answer to the client.
InsertIp ==
  /\ alloc.pc = "ip"
  /\ ip_to_domain' = [ip_to_domain EXCEPT ![alloc.ip] = alloc.domain]
  /\ recency' = MoveToEnd(recency, alloc.ip)
  /\ Answer(alloc.client, alloc.domain, alloc.ip)
  /\ alloc' = Rest
  /\ UNCHANGED <<domain_to_ip, next_ip, syn, redirect>>

AllocateStep == SkipActive \/ AllActive \/ Choose \/ Evict \/ Forget \/ InsertDomain
                \/ InsertIp

-----------------------------------------------------------------------------
(* Traffic to fake addresses.                                              *)

\* The TTL of a cached answer runs out.
CacheExpires(c, d) ==
  /\ cache[c][d] # NoIp
  /\ cache' = [cache EXCEPT ![c][d] = NoIp]
  /\ UNCHANGED <<domain_to_ip, ip_to_domain, recency, next_ip, alloc, syn, redirect>>

\* A client opens a connection to the address it has for a domain; a shard
\* looks the address up, which also touches it.  An address without a domain is
\* forwarded as it is.
Lookup(s, c, d) ==
  /\ syn[s] = NoSyn /\ cache[c][d] # NoIp
  /\ ip_to_domain[cache[c][d]] # NoDomain
  /\ syn' = [syn EXCEPT ![s] = [wanted |-> d, ip |-> cache[c][d],
                                found |-> ip_to_domain[cache[c][d]]]]
  /\ recency' = MoveToEnd(recency, cache[c][d])
  /\ UNCHANGED <<domain_to_ip, ip_to_domain, next_ip, alloc, cache, redirect>>

\* redirect_table.insert.
Redirect(s) ==
  /\ syn[s] # NoSyn /\ Cardinality(redirect) < RedirectBound
  /\ redirect' = redirect \cup {syn[s]}
  /\ syn' = [syn EXCEPT ![s] = NoSyn]
  /\ UNCHANGED <<domain_to_ip, ip_to_domain, recency, next_ip, alloc, cache>>

\* The entry is removed at the end of the session or swept after 300 seconds.
RedirectEnds(r) ==
  /\ r \in redirect
  /\ redirect' = redirect \ {r}
  /\ UNCHANGED <<domain_to_ip, ip_to_domain, recency, next_ip, alloc, cache, syn>>

-----------------------------------------------------------------------------
Traffic ==
  \/ \E c \in Clients, d \in Domains : CacheExpires(c, d)
  \/ \E s \in Shards, c \in Clients, d \in Domains : Lookup(s, c, d)
  \/ \E s \in Shards : Redirect(s)
  \/ \E r \in redirect : RedirectEnds(r)

\* A client asks for what its cache does not hold.
AllocateCall(c, d) ==
  AllocateExisting(c, d) \/ AllocateFresh(c, d) \/ AllocateFull(c, d)

Next ==
  \/ \E c \in Clients, d \in Domains : cache[c][d] = NoIp /\ AllocateCall(c, d)
  \/ AllocateStep
  \/ Traffic

Spec == Init /\ [][Next]_vars

-----------------------------------------------------------------------------
\* Type invariant, with the pool: recency lists exactly the mapped addresses.
TypeOK ==
  /\ domain_to_ip \in [Domains -> Ips \cup {NoIp}]
  /\ ip_to_domain \in [Ips -> Domains \cup {NoDomain}]
  /\ recency \in Seq(Ips) /\ IsInjective(recency)
  /\ ToSet(recency) = {i \in Ips : ip_to_domain[i] # NoDomain}
  /\ next_ip \in 1 .. PoolSize + 1
  /\ Cardinality(Mapped) <= MaxEntries
  /\ cache \in [Clients -> [Domains -> Ips \cup {NoIp}]]
  /\ \A r \in redirect : r.ip \in Ips /\ r.wanted \in Domains /\ r.found \in Domains

\* Two domains never share a fake address, in either map, at any moment.
NoSharedIp ==
  /\ \A d, e \in Mapped : domain_to_ip[d] = domain_to_ip[e] => d = e
  /\ alloc.pc = "idle" =>
       \A d \in Domains, i \in Ips : domain_to_ip[d] = i <=> ip_to_domain[i] = d

\* A redirected connection goes to the domain its client resolved: the proxy is
\* told the right host name.
RightHost == \A r \in redirect : r.found = r.wanted

\* The address of a connection under way is never given to another domain.
ActiveKept == [][Evict => ~is_ip_active(alloc.ip)]_vars
=============================================================================
