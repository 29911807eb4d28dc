------------------------------- MODULE DnsBridge -------------------------------
(***************************************************************************)
(* The DNS path: shard workers take every outbound UDP query to port 53    *)
(* off the network and queue it for one task (engine/dns_async.rs), which  *)
(* resolves the queries one after the other (dns/dns_proxy.rs): geo-blocked*)
(* names get an address of FakeIp, censored names are asked over HTTPS,    *)
(* the others from the system's resolver first.                            *)
(*                                                                         *)
(* The task asks through the same network stack: what the resolver sends   *)
(* to port 53 is captured like a client's query, and nothing tells the two *)
(* apart.  A query that finds the queue full goes to the network.          *)
(*                                                                         *)
(* A name of Domains gets fake addresses while it is geo-blocked.  The      *)
(* names that the user lists come and go while the engine runs: a reload   *)
(* empties the user's list and fills it again, name by name, and the API   *)
(* and the probe add and remove single names (Settings says when).         *)
(*                                                                         *)
(* An entry of the answer cache is the source it came from; an expired one *)
(* is none.  The list of DoH servers has one member, as init_pipeline      *)
(* builds it.  A packet that does not parse is taken and dropped without   *)
(* effect, and is left out.                                                *)
(***************************************************************************)
EXTENDS FakeIp

CONSTANTS Questions,      \* <<name, type>> that clients ask, type "A" or "AAAA"
          UserDomains,    \* geo-blocked names that only the user's list has
          Blocked,        \* names of the advertisement list, when it is enabled
          Censored,       \* censored_domains
          DohHost,        \* host name in doh_servers
          QueueCapacity,  \* places in the bridge's channel (10_000)
          Attempts,       \* queries the system resolver sends for one lookup
          Engine          \* the engine's own resolver and HTTP client

ASSUME BridgeAssumption ==
  /\ MaxEntries <= PoolSize
  /\ UserDomains \subseteq Domains
  /\ QueueCapacity \in Nat \ {0} /\ Attempts \in Nat \ {0}
  /\ Engine \notin Clients /\ DohHost \notin Domains \cup Blocked
  /\ \A q \in Questions : q[2] \in {"A", "AAAA"}

Keys == Questions \cup {<<DohHost, "A">>}

VARIABLES
  queue,      \* the bounded channel
  task,       \* what the bridge's task is doing, for which query
  resolver,   \* where the engine's own query is: "none", "queued", "sent"
  answers,    \* DnsProxyEngine.cache: the source of each live entry
  geoblocked, \* the names of Domains that GeoRouter::classify finds on its lists now
  late        \* history: answers of a resolver given for a name since it is geo-blocked

lists == <<geoblocked, late>>
bvars == <<queue, task, resolver, answers, lists>>
allvars == <<vars, bvars>>

Query(from, key) == [from |-> from, key |-> key]
Idle == [pc |-> "idle"]
Serving(pc, q) == [pc |-> pc, query |-> q, tries |-> 0]

BridgeInit ==
  /\ Init
  /\ queue = <<>>
  /\ task = Idle
  /\ resolver = "none"
  /\ answers = [k \in Keys |-> "none"]
  /\ geoblocked \in SUBSET Domains /\ Domains \ UserDomains \subseteq geoblocked
  /\ late = [d \in Domains |-> 0]

-----------------------------------------------------------------------------
(* The capture side.                                                       *)

\* A query on its way out: queued, or forwarded when there is no room.
Room == Len(queue) < QueueCapacity

Dispatch(q) == queue' = IF Room THEN Append(queue, q) ELSE queue

\* A client asks for a name, with either type, while its cache has no address of it.
\* Bound: it does not repeat a question that is still queued.
Ask(c, k) ==
  /\ k[1] \in Domains => cache[c][k[1]] = NoIp
  /\ \A i \in DOMAIN queue : queue[i] # Query(c, k)
  /\ Dispatch(Query(c, k))
  /\ UNCHANGED <<vars, lists, task, resolver, answers>>

\* The engine's own query takes the same way.
AskOwn(k) ==
  /\ Dispatch(Query(Engine, k))
  /\ resolver' = IF Room /\ resolver # "sent" THEN "queued" ELSE "sent"

-----------------------------------------------------------------------------
(* The task.                                                               *)

\* Variant: a name whose answer is in the cache is not looked up on the lists.
classify_cached_first(name) ==
  IF name \in Blocked THEN "AdBlock"
  ELSE IF name \in geoblocked /\ answers[<<name, "A">>] = "none" THEN "FakeIp"
  ELSE IF name \in Censored THEN "SecureDoh"
  ELSE "SystemDns"

\* The mode is read when a query is taken, and kept across every await that follows.
classify_domain(name) ==
  IF name \in Blocked THEN "AdBlock"
  ELSE IF name \in geoblocked THEN "FakeIp"
  ELSE IF name \in Censored THEN "SecureDoh"
  ELSE "SystemDns"

\* AAAA questions on names that get fake addresses are answered with no address.
Refused(k) ==
  \/ classify_domain(k[1]) = "AdBlock"
  \/ classify_domain(k[1]) = "FakeIp" /\ k[2] = "AAAA"

Mode(k) == IF Refused(k) THEN "Refused" ELSE classify_domain(k[1])

\* The first query of the queue, if it is of that mode.
Take(mode, next) ==
  /\ task.pc = "idle" /\ queue # <<>> /\ Mode(Head(queue).key) = mode
  /\ queue' = Tail(queue)
  /\ task' = next
  /\ UNCHANGED <<vars, lists, resolver, answers>>

\* NXDOMAIN or an empty answer, at once.
TakeRefused == Take("Refused", Idle)
TakeFake == Take("FakeIp", Serving("fake", Head(queue)))
TakeSecure == Take("SecureDoh", Serving("doh", Head(queue)))
TakePlain == Take("SystemDns", Serving("system", Head(queue)))

At(pc) == task.pc = pc
Key == task.query.key
Move(pc) == task' = [task EXCEPT !.pc = pc]

\* FakeIpManager::allocate, for the client that asked.
FakeGoesOn ==
  /\ At("fake") /\ UNCHANGED bvars
  /\ \/ AllocateFresh(task.query.from, Key[1]) \/ AllocateFull(task.query.from, Key[1])
     \/ SkipActive \/ Choose \/ Evict \/ Forget \/ InsertDomain

FakeAnswered ==
  /\ At("fake")
  /\ AllocateExisting(task.query.from, Key[1]) \/ InsertIp
  /\ task' = Idle
  /\ UNCHANGED <<queue, resolver, answers, lists>>

\* No address, as all are active: the query is dropped.  (The pool, which is
\* larger than the table, is never used up.)
FakeFails ==
  /\ At("fake")
  /\ AllActive
  /\ task' = Idle
  /\ UNCHANGED <<queue, resolver, answers, lists>>

\* What a resolver or the cache knows is given to the client.
Answered ==
  late' = [d \in Domains |-> IF d = Key[1] /\ d \in geoblocked THEN late[d] + 1 ELSE late[d]]

\* A live entry of the cache answers, whichever resolver stored it.
CacheHit ==
  /\ At("system") \/ At("doh")
  /\ answers[Key] # "none"
  /\ Answered
  /\ task' = Idle
  /\ UNCHANGED <<vars, geoblocked, queue, resolver, answers>>

\* The answer of a resolver: stored and given to the client.
Resolved(source) ==
  /\ answers' = [answers EXCEPT ![Key] = source]
  /\ Answered
  /\ task' = Idle
  /\ resolver' = "none"
  /\ UNCHANGED <<vars, geoblocked, queue>>

\* resolve_via_system: the resolver answers from its own memory, or it asks,
\* asks again when nothing comes, and gives up.
LookupRemembered == At("system") /\ answers[Key] = "none" /\ Resolved("system")

LookupStarts ==
  /\ At("system") /\ answers[Key] = "none"
  /\ AskOwn(Key)
  /\ task' = [Serving("lookup", task.query) EXCEPT !.tries = 1]
  /\ UNCHANGED <<vars, lists, answers>>

LookupRepeats ==
  /\ At("lookup") /\ task.tries < Attempts
  /\ AskOwn(Key)
  /\ task' = [task EXCEPT !.tries = @ + 1]
  /\ UNCHANGED <<vars, lists, answers>>

LookupAnswered == At("lookup") /\ resolver = "sent" /\ Resolved("system")

\* No answer, or one without an address.
LookupFails ==
  /\ At("lookup")
  /\ task.tries = Attempts \/ resolver = "sent"
  /\ Move("doh")
  /\ resolver' = "none"
  /\ UNCHANGED <<vars, lists, queue, answers>>

\* resolve_via_doh_normal: the host of the server may have to be looked up.
DohLooksUpHost ==
  /\ At("doh") /\ answers[Key] = "none"
  /\ AskOwn(<<DohHost, "A">>)
  /\ Move("dohhost")
  /\ UNCHANGED <<vars, lists, answers>>

DohAsks ==
  /\ \/ At("doh") /\ answers[Key] = "none"
     \/ At("dohhost") /\ resolver = "sent"
  /\ Move("dohwait")
  /\ resolver' = "none"
  /\ UNCHANGED <<vars, lists, queue, answers>>

DohAnswered == At("dohwait") /\ Resolved("doh")

\* Variant: a client without a timeout waits for as long as its host is looked up.
DohEndsWhenSent == At("dohwait") \/ (At("dohhost") /\ resolver = "sent")
DohEnds == At("dohwait") \/ At("dohhost")

\* Refused, or the client's timeout of three seconds: through the tunnel of
\* zero-config if it is up, and otherwise no answer at all.
DohFails ==
  /\ DohEnds
  /\ task' = Idle \/ Move("tunnel")
  /\ resolver' = "none"
  /\ UNCHANGED <<vars, lists, queue, answers>>

\* resolve_via_doh_masqueraded: connect, two handshakes and read_to_end, none of
\* them with a timeout.
TunnelAnswered == At("tunnel") /\ Resolved("doh")
TunnelFails ==
  /\ At("tunnel")
  /\ task' = Idle
  /\ UNCHANGED <<vars, lists, queue, resolver, answers>>

-----------------------------------------------------------------------------
(* The user's list.                                                        *)

\* A name that is put on the list starts without a late answer.
Lists(names) ==
  /\ geoblocked' = names
  /\ late' = [d \in Domains |-> IF d \in geoblocked \cap names THEN late[d] ELSE 0]
  /\ UNCHANGED <<vars, queue, task, resolver, answers>>

\* reload_user_domains empties the list first.
ListEmptied == Lists(geoblocked \ UserDomains)

\* A name that a reload, the API or the probe inserts, or that the API removes.
DomainListed(d) == d \notin geoblocked /\ Lists(geoblocked \cup {d})
DomainRemoved(d) == d \in geoblocked /\ Lists(geoblocked \ {d})

UserEdit ==
  ListEmptied \/ \E d \in UserDomains : DomainListed(d) \/ DomainRemoved(d)

-----------------------------------------------------------------------------
\* An entry of the answer cache reaches its TTL.
AnswerExpires(k) ==
  /\ answers[k] # "none"
  /\ answers' = [answers EXCEPT ![k] = "none"]
  /\ UNCHANGED <<vars, lists, queue, task, resolver>>

-----------------------------------------------------------------------------
BridgeStep ==
  \/ TakeRefused \/ TakeFake \/ TakeSecure \/ TakePlain
  \/ FakeGoesOn \/ FakeAnswered \/ FakeFails
  \/ CacheHit
  \/ LookupRemembered \/ LookupStarts \/ LookupRepeats \/ LookupAnswered \/ LookupFails
  \/ DohLooksUpHost \/ DohAsks \/ DohAnswered \/ DohFails

BridgeNext ==
  \/ \E c \in Clients, k \in Questions : Ask(c, k)
  \/ BridgeStep
  \/ TunnelAnswered \/ TunnelFails
  \/ \E k \in Keys : AnswerExpires(k)
  \/ UserEdit
  \/ Traffic /\ UNCHANGED bvars

\* The task is woken and its timeouts fire; nothing says that a tunnel answers.
BridgeSpec == BridgeInit /\ [][BridgeNext]_allvars /\ WF_allvars(BridgeStep)

-----------------------------------------------------------------------------
\* Type invariant, with that of the fake addresses: the queue is bounded, and
\* allocate runs only inside the task.
BridgeTypeOK ==
  /\ TypeOK
  /\ queue \in Seq([from: Clients \cup {Engine}, key: Keys]) /\ Len(queue) <= QueueCapacity
  /\ task = Idle \/ task \in
       [pc: {"fake", "system", "lookup", "doh", "dohhost", "dohwait", "tunnel"},
        query: [from: Clients \cup {Engine}, key: Keys], tries: 0 .. Attempts]
  /\ alloc.pc # "idle" => task.pc = "fake"
  /\ resolver \in {"none", "queued", "sent"}
  /\ answers \in [Keys -> {"none", "system", "doh"}]
  /\ Domains \ UserDomains \subseteq geoblocked /\ geoblocked \subseteq Domains
  /\ late \in [Domains -> Nat]

\* A name that comes on the list is answered from a resolver or from the cache once more
\* at most, for the query that the task had taken before, although real answers that the
\* cache has kept are still alive and questions asked before are still queued; and no
\* reload gives a censored name, which both resolvers keep in one cache, an answer of the
\* system's resolver (dns_proxy.rs:118, geo.rs:507).
AnswersFollowMode ==
  /\ \A d \in Domains : late[d] <= 1
  /\ \A k \in Keys : k[1] \in Censored => answers[k] # "system"

\* A geo-blocked name is not resolved for real at all.
GeoBlockedStaysFake == \A d \in Domains : late[d] = 0

\* Every question of a client that is queued is worked on in the end, although
\* the task serves one at a time and queues questions of its own, unless the task
\* goes into the tunnel, which may never let it go (dns_proxy.rs:302).  Questions
\* that may be refused at once leave no trace, and are not claimed.
Waiting(c, k) == \E i \in DOMAIN queue : queue[i] = Query(c, k)
Working(c, k) == task # Idle /\ task.query = Query(c, k)
Served == {k \in Questions : k[1] \notin Blocked /\ (k[1] \in Domains => k[2] = "A")}
EveryQuestionServed ==
  \A c \in Clients, k \in Served : Waiting(c, k) ~> (Working(c, k) \/ At("tunnel"))

\* The same without the exception.
ServedBehindTunnel ==
  \A c \in Clients, k \in Served : Waiting(c, k) ~> Working(c, k)

\* The task never waits for a query that is queued behind it.
NeverWaitsForItself ==
  task.pc \in {"lookup", "dohhost"} => resolver # "queued"

\* Whoever has to ask for a geo-blocked name finds room, so that the question does
\* not leave the machine ("prevents DNS leaks", README.md:65).
NoDnsLeak == \A c \in Clients, d \in Domains : cache[c][d] = NoIp => Room

\* What is not geo-blocked is resolved over HTTPS (ARCHITECTURE.md:4068).
OthersOverHttps == \A k \in Keys : answers[k] # "system"
=============================================================================
